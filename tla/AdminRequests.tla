----------------------------- MODULE AdminRequests -----------------------------
(***************************************************************************)
(* Concurrent requests of the web application and of the service that      *)
(* change something and record it: label saves, pauses and resumptions,    *)
(* decisions, logins.  The change and each audit record are steps of their *)
(* own, in the database, in the dockerMan template and, when evidence is   *)
(* configured, in audit.jsonl.  Unraid may edit the template, calls fail,  *)
(* and the process may die.                                                *)
(***************************************************************************)
EXTENDS TemplateLabels

CONSTANTS
    Req,
    Form,           \* labels that the form submits and from_labels accepts
    Template,       \* templates that Unraid may write
    EvidenceRoot,   \* whether ServiceConfig names an evidence_root
    MaxEdits,       \* bound: edits of the template by Unraid
    MaxFaults,      \* bound: calls that raise
    MaxCrashes      \* bound: deaths of the process

Request ==
    [kind : {"labels"}, labels : Form] \cup [kind : {"control"}, paused : BOOLEAN]
    \cup [kind : {"decision", "login"}]

ASSUME AdminAssumption ==
    /\ Template \subseteq TemplateFile
    /\ \A labels \in Form : \A k \in PolicyKey \cap DOMAIN labels : labels[k] \in Value
    /\ EvidenceRoot \in BOOLEAN

VARIABLES
    template, bak,  \* the template and its .bak
    paused,         \* container_controls.paused, of one container
    trail,          \* audit_events; prev is the row whose hash prev_hash holds
    file,           \* audit.jsonl: whose writes a line holds, whether it parses and ends
    \* the requests
    what, pc,
    tree,           \* the template as parsed
    seen,           \* the record whose hash was read last, 0 for none
    \* history
    done,           \* requests whose change is on disk or committed
    disturbed,      \* saves since whose parse others wrote template or .bak
    overlap,        \* what two requests were changing or recording at once
    edits, faults, crashes

records == <<trail, file>>
env == <<edits, faults, crashes>>
vars == <<template, bak, paused, records, what, pc, tree, seen, done, disturbed, overlap, env>>

Saving == {"before", "backup", "replace"}
Auditing == {"select_row", "insert_row", "select", "insert", "tail", "append"}
Returned == {"ok", "err", "dead"}

Init ==
    /\ template \in Template /\ bak = template
    /\ paused = FALSE
    /\ trail = <<>> /\ file = <<>>
    /\ what \in [Req -> Request]
    /\ pc = [r \in Req |-> "idle"]
    /\ tree = [r \in Req |-> template]
    /\ seen = [r \in Req |-> 0]
    /\ done = {} /\ disturbed = {} /\ overlap = {}
    /\ edits = 0 /\ faults = 0 /\ crashes = 0

Goto(r, step) == pc' = [pc EXCEPT ![r] = step]

\* The call of the step raises, and the request is answered with an error.
Raise(r) ==
    /\ faults < MaxFaults /\ faults' = faults + 1
    /\ Goto(r, "err")

\* The route has checked session, CSRF token and form.
Send(r) ==
    /\ pc[r] = "idle"
    /\ Goto(r, CASE what[r].kind = "labels" -> "parse"
                 [] what[r].kind = "login" -> "select"
                 [] OTHER -> "change")
    /\ UNCHANGED <<template, bak, paused, records, what, tree, seen, done, disturbed, overlap, env>>

---------------------------------------------------------------------------
\* apply_policy_labels

Parse(r) ==
    /\ pc[r] = "parse"
    /\ tree' = [tree EXCEPT ![r] = template]
    /\ disturbed' = disturbed \ {r}
    /\ Goto(r, IF template.broken = "xml" THEN "err" ELSE "before")
    /\ UNCHANGED <<template, bak, paused, records, what, seen, done, overlap, env>>

\* The template is read once more, for the difference that is reported, and
\* ExtraParams is split: both refuse before anything is written.
ReadBefore(r) ==
    /\ pc[r] = "before"
    /\ Goto(r, IF template.broken = "no" /\ tree[r].broken = "no" THEN "backup" ELSE "err")
    /\ UNCHANGED <<template, bak, paused, records, what, tree, seen, done, disturbed, overlap, env>>

\* The saves that a write of template or .bak by r disturbs
Disturb(r) == disturbed' = disturbed \cup {s \in Req \ {r} : pc[s] \in Saving}

Backup(r) ==
    /\ pc[r] = "backup"
    /\ \/ /\ bak' = template
          /\ Disturb(r)
          /\ Goto(r, "replace") /\ UNCHANGED faults
       \/ Raise(r) /\ UNCHANGED <<bak, disturbed>>
    /\ UNCHANGED <<template, paused, records, what, tree, seen, done, overlap, edits, crashes>>

\* Another request has changed something of this kind, and not yet recorded it.
Crossing(r) ==
    IF \E s \in Req \ {r} : what[s].kind = what[r].kind /\ pc[s] \in {"select", "insert"}
    THEN {what[r].kind} ELSE {}

\* The temporary file is written and renamed to the template.
Replace(r) ==
    /\ pc[r] = "replace"
    /\ \/ /\ template' = Saved(tree[r], PolicyLabels(what[r].labels))
          /\ done' = done \cup {r}
          /\ overlap' = overlap \cup Crossing(r)
          /\ Disturb(r)
          /\ Goto(r, "select") /\ UNCHANGED faults
       \/ Raise(r) /\ UNCHANGED <<template, done, disturbed, overlap>>
    /\ UNCHANGED <<bak, paused, records, what, tree, seen, edits, crashes>>

---------------------------------------------------------------------------
\* The other changes, each committed before it is recorded

\* Mutant of ChangeControl: an existing row is left as it is.
KeepControl(r) ==
    /\ pc[r] = "change" /\ what[r].kind = "control"
    /\ \/ /\ paused' = IF \E s \in done : what[s].kind = "control"
                       THEN paused ELSE what[r].paused
          /\ done' = done \cup {r}
          /\ overlap' = overlap \cup Crossing(r)
          /\ Goto(r, "select") /\ UNCHANGED faults
       \/ Raise(r) /\ UNCHANGED <<paused, done, overlap>>
    /\ UNCHANGED <<template, bak, records, what, tree, seen, disturbed, edits, crashes>>

\* set_container_paused; the overrides and settings are written the same way.
ChangeControl(r) ==
    /\ pc[r] = "change" /\ what[r].kind = "control"
    /\ \/ /\ paused' = what[r].paused
          /\ done' = done \cup {r}
          /\ overlap' = overlap \cup Crossing(r)
          /\ Goto(r, "select") /\ UNCHANGED faults
       \/ Raise(r) /\ UNCHANGED <<paused, done, overlap>>
    /\ UNCHANGED <<template, bak, records, what, tree, seen, disturbed, edits, crashes>>

\* Mutant of RecordDecision: a refused decision is audited all the same.
RecordRefused(r) ==
    /\ pc[r] = "change" /\ what[r].kind = "decision"
    /\ \/ done' = done \cup {r}
       \/ UNCHANGED done
    /\ Goto(r, "select_row")
    /\ UNCHANGED <<template, bak, paused, records, what, tree, seen, disturbed, overlap, env>>

\* record_decision refuses a candidate that has changed, or inserts the row.
RecordDecision(r) ==
    /\ pc[r] = "change" /\ what[r].kind = "decision"
    /\ \/ /\ done' = done \cup {r}
          /\ Goto(r, "select_row") /\ UNCHANGED faults
       \/ Goto(r, "err") /\ UNCHANGED <<done, faults>>
       \/ Raise(r) /\ UNCHANGED done
    /\ UNCHANGED <<template, bak, paused, records, what, tree, seen, disturbed, overlap, edits, crashes>>

---------------------------------------------------------------------------
\* The records.  A decision is recorded by record_decision and by the service.

\* Mutant of SelectLast: the rows are not sorted in descending order.
SelectFirst(r) ==
    /\ pc[r] \in {"select_row", "select"}
    /\ \/ /\ seen' = [seen EXCEPT ![r] = IF trail = <<>> THEN 0 ELSE 1]
          /\ Goto(r, IF pc[r] = "select" THEN "insert" ELSE "insert_row")
          /\ UNCHANGED faults
       \/ Raise(r) /\ UNCHANGED seen
    /\ UNCHANGED <<template, bak, paused, records, what, tree, done, disturbed, overlap, edits, crashes>>

\* db.audit, SELECT: it takes no write lock.
SelectLast(r) ==
    /\ pc[r] \in {"select_row", "select"}
    /\ \/ /\ seen' = [seen EXCEPT ![r] = Len(trail)]
          /\ Goto(r, IF pc[r] = "select" THEN "insert" ELSE "insert_row")
          /\ UNCHANGED faults
       \/ Raise(r) /\ UNCHANGED seen
    /\ UNCHANGED <<template, bak, paused, records, what, tree, done, disturbed, overlap, edits, crashes>>

\* Another request has read the last record, and not yet written its own.
Between(r, steps, log) ==
    IF \E s \in Req \ {r} : pc[s] \in steps THEN {log} ELSE {}

\* db.audit, INSERT
InsertEvent(r) ==
    /\ pc[r] \in {"insert_row", "insert"}
    /\ \/ /\ trail' = Append(trail, [by |-> r, step |-> pc[r], prev |-> seen[r]])
          /\ overlap' = overlap \cup Between(r, {"insert_row", "insert"}, "trail")
          /\ Goto(r, IF pc[r] = "insert_row" THEN "select"
                     ELSE IF what[r].kind = "decision" /\ EvidenceRoot THEN "tail" ELSE "ok")
          /\ UNCHANGED faults
       \/ Raise(r) /\ UNCHANGED <<trail, overlap>>
    /\ UNCHANGED <<template, bak, paused, file, what, tree, seen, done, disturbed, edits, crashes>>

Torn == file # <<>> /\ ~ file[Len(file)].whole
Unended == file # <<>> /\ ~ file[Len(file)].ended

\* Mutant of ReadTail: lines are counted from zero.
ReadTailFromZero(r) ==
    /\ pc[r] = "tail"
    /\ seen' = [seen EXCEPT ![r] = Len(file) - 1]
    /\ Goto(r, "append")
    /\ UNCHANGED <<template, bak, paused, records, what, tree, done, disturbed, overlap, env>>

\* append_audit reads the last line, and raises when it does not parse.
ReadTail(r) ==
    /\ pc[r] = "tail"
    /\ \/ ~ Torn /\ seen' = [seen EXCEPT ![r] = Len(file)] /\ Goto(r, "append")
       \/ Torn /\ Goto(r, "err") /\ UNCHANGED seen
    /\ UNCHANGED <<template, bak, paused, records, what, tree, done, disturbed, overlap, env>>

\* What is written after a line without an end becomes part of that line.
Write(r, whole, ended) ==
    LET last == file[Len(file)]
    IN  file' = IF Unended
                THEN [file EXCEPT ![Len(file)] =
                        [of |-> last.of \cup {r}, prev |-> last.prev,
                         whole |-> FALSE, ended |-> ended]]
                ELSE Append(file, [of |-> {r}, prev |-> seen[r], whole |-> whole, ended |-> ended])

\* A write that fails may leave a part of the record, all of it without its end,
\* or the line.
WritePart(r) == \E whole, ended \in BOOLEAN : (ended => whole) /\ Write(r, whole, ended)

\* append_jsonl
AppendLine(r) ==
    /\ pc[r] = "append"
    /\ \/ /\ Write(r, TRUE, TRUE)
          /\ overlap' = overlap \cup Between(r, {"append"}, "file")
          /\ Goto(r, "ok") /\ UNCHANGED faults
       \/ Raise(r) /\ WritePart(r) /\ overlap' = overlap \cup Between(r, {"append"}, "file")
       \/ Raise(r) /\ UNCHANGED <<file, overlap>>
    /\ UNCHANGED <<template, bak, paused, trail, what, tree, seen, done, disturbed, edits, crashes>>

Step(r) ==
    \/ Send(r)
    \/ Parse(r) \/ ReadBefore(r) \/ Backup(r) \/ Replace(r)
    \/ ChangeControl(r) \/ RecordDecision(r)
    \/ SelectLast(r) \/ InsertEvent(r) \/ ReadTail(r) \/ AppendLine(r)

---------------------------------------------------------------------------
\* The environment

\* Unraid writes the template of an edited container.
Edit ==
    /\ edits < MaxEdits /\ edits' = edits + 1
    /\ template' \in Template \ {template}
    /\ disturbed' = disturbed \cup {s \in Req : pc[s] \in Saving}
    /\ UNCHANGED <<bak, paused, records, what, pc, tree, seen, done, overlap, faults, crashes>>

Crash ==
    /\ crashes < MaxCrashes /\ crashes' = crashes + 1
    /\ pc' = [r \in Req |-> IF pc[r] \in {"idle"} \cup Returned THEN pc[r] ELSE "dead"]
    /\ \/ UNCHANGED file
       \/ \E r \in Req : pc[r] = "append" /\ WritePart(r)
    /\ UNCHANGED <<template, bak, paused, trail, what, tree, seen, done, disturbed, overlap, edits, faults>>

Next == (\E r \in Req : Step(r)) \/ Edit \/ Crash

Spec == Init /\ [][Next]_vars

---------------------------------------------------------------------------
\* Properties

\* Tables, files and the locals of the requests keep their types.
TypeOK ==
    /\ template \in TemplateFile /\ bak \in TemplateFile
    /\ paused \in BOOLEAN
    /\ trail \in Seq([by : Req, step : {"insert_row", "insert"}, prev : Nat])
    /\ file \in Seq([of : SUBSET Req, prev : Nat, whole : BOOLEAN, ended : BOOLEAN])
    /\ what \in [Req -> Request]
    /\ pc \in [Req -> {"idle", "parse", "change"} \cup Saving \cup Auditing \cup Returned]
    /\ tree \in [Req -> TemplateFile]
    /\ seen \in [Req -> Nat]
    /\ done \subseteq Req /\ disturbed \subseteq Req
    /\ overlap \subseteq {"labels", "control", "trail", "file"}
    /\ edits \in Nat /\ faults \in Nat /\ crashes \in Nat

\* docs/vnext-design-and-implementation.md:577, "Retain audit chaining": every
\* record holds the hash of the one before it unless two requests were between
\* reading the last record and writing their own (db.py:357, evidence.py:86).
\* Only the last line of the file does not parse then, since append_audit raises
\* on it, so no record follows one that verify_audit cannot read.
ChainWithoutOverlap ==
    /\ "trail" \notin overlap => \A i \in DOMAIN trail : trail[i].prev = i - 1
    /\ "file" \notin overlap => \A i \in DOMAIN file :
          file[i].prev = i - 1 /\ (file[i].whole \/ i = Len(file))

\* The steps that record r.
Recording(r) == IF what[r].kind = "decision" THEN {"insert_row", "insert"} ELSE {"insert"}

Told(r, step) == \E i \in DOMAIN trail : trail[i].by = r /\ trail[i].step = step

\* A line of the file ends with the record of r, and can be read unless the record
\* was written after one of another request whose write had lost its end.
Filed(r) ==
    \E i \in DOMAIN file :
        r \in file[i].of /\ file[i].ended /\ (file[i].of = {r} => file[i].whole)

\* An event says what has happened, and says it once; a request that was
\* answered has all its events, in the file too, where only the unended write of
\* another can spoil one.
AuditHonest ==
    /\ \A i \in DOMAIN trail : what[trail[i].by].kind # "login" => trail[i].by \in done
    /\ \A i, j \in DOMAIN trail :
          trail[i].by = trail[j].by /\ trail[i].step = trail[j].step => i = j
    /\ \A i, j \in DOMAIN file : file[i].of \cap file[j].of # {} => i = j
    /\ \A r \in Req : pc[r] = "ok" =>
          /\ \A step \in Recording(r) : Told(r, step)
          /\ what[r].kind = "decision" /\ EvidenceRoot => Filed(r)

\* Who reads the trail learns the state: when changes of a kind did not cross
\* and each has its event, the last event tells the pause, and the labels of
\* the template as long as Unraid does not edit it, but for those overlooked.
TrailTellsState ==
    LET told(kind) == {i \in DOMAIN trail : what[trail[i].by].kind = kind}
        complete(kind) ==
            /\ kind \notin overlap /\ told(kind) # {}
            /\ \A r \in done : what[r].kind = kind => \E i \in told(kind) : trail[i].by = r
        last(kind) == what[trail[Max(told(kind))].by]
    IN  /\ complete("control") => paused = last("control").paused
        /\ complete("labels") /\ edits = 0 =>
              PolicyLabels(ParseTemplateLabels(template))
                = Over(PolicyLabels(last("labels").labels), Overlooked(template))

Replaces(r) == pc[r] = "replace" /\ pc'[r] = "select"

\* The arguments and nodes that are not the updater's
Others(args) == Sift(args, {a \in Arg : a.form = "token" \/ a.key \in ForeignKey})

\* label_edit.py:151, "replace updater labels in deployable ExtraParams; preserve
\* everything else", and 171, "two representations makes the editor lie about
\* desired state": whatever stood in the template and whoever else saves, the
\* labels read back after a save are those of the form, and of the policy labels
\* that the form leaves out only those that label_edit.py:87 read in ExtraParams
\* and 133 and 141 did not remove, with a blank before their key.  A save that
\* nobody disturbed also keeps the other arguments and nodes in their order, and
\* the file as it was in the .bak; a refused or failed one leaves the template alone.
SaveExact ==
    [][/\ \A r \in Req : Replaces(r) =>
            PolicyLabels(ParseTemplateLabels(template'))
              = Over(PolicyLabels(what[r].labels), Overlooked(tree[r]))
       /\ \A r \in Req : Replaces(r) /\ r \notin disturbed =>
            /\ bak' = template
            /\ Others(template'.params) = Others(template.params)
            /\ Others(template'.nodes) = Others(template.nodes)
       /\ template' # template /\ edits' = edits => \E r \in Req : Replaces(r)]_vars

=============================================================================
