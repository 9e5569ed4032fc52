-------------------------- MODULE CandidateEligibility --------------------------
(***************************************************************************)
(* Whether a container's update may be approved.  normalize decides it     *)
(* from WUD's row, the labels of template and container, the operator's    *)
(* override, the risk gates and the pause; each is changed by a request of *)
(* its own and read by a call of its own.  Two threads scan: the           *)
(* scheduler's, and that of the request which has changed a policy and     *)
(* scans again before it answers.  One container; the containers' rows     *)
(* meet in CandidateScan, as do failing calls and crashes.                 *)
(***************************************************************************)
EXTENDS Naturals

CONSTANTS
    Version,    \* tags, as versions
    Image,      \* the container's image reference
    Report,     \* rows of WUD with updateAvailable
    LabelSet,   \* label sets a template may carry
    Override,   \* rows of container_policy_overrides
    GateForm,   \* what the form of the gates may submit
    Word,       \* values of labels
    None,       \* no row, no label, no target
    MaxChanges  \* bound: changes of policies, labels, pauses and of WUD's row

Risks == {"low", "medium", "high", "critical"}
Changes == {"patch", "minor", "major", "digest", "unknown"}
Policies == {"manual", "notify", "patch", "minor"}

\* The keys below io.jmengit.upgrade.  "optional" stands for changelog-summary,
\* source and hold-days, which are checked but decide nothing here.
Key == {"version", "policy", "research", "optional", "risk"}
Labels == [Key -> Word \cup {None}]

\* A reference names repository and tag; target is one as well, or None.
Reference == [repository : {Image.repository}, tag : Version]
Candidate == [target : Reference \cup {None}, change : Changes \cup {"none"},
              policy : Word, risk : Word, state : {"running", "exited"}, ready : BOOLEAN]

ASSUME EligibilityAssumption ==
    /\ Version \subseteq [major : Nat, minor : Nat, patch : Nat]
    /\ Image \in Reference
    /\ Report \subseteq [change : Changes, tag : Version \cup {None},
                         status : {"running", "exited"}]
    /\ Risks \cup Policies \cup {"auto", "invalid"} \subseteq Word
    /\ LabelSet \subseteq Labels
    /\ Override \subseteq [policy : Policies, risk : Risks]
    /\ GateForm \subseteq [low : SUBSET {"patch", "minor"}, research : SUBSET Risks]
    /\ None \notin Version /\ None \notin Reference

VARIABLES
    wud,        \* WUD's row of the container, None without an update
    template,   \* labels in the dockerMan template
    runtime,    \* labels of the running container
    watched,    \* the container's labels as WUD knows them
    \* the database
    override,   \* the container's row of container_policy_overrides
    gates,      \* application_settings.risk_gates
    paused,     \* container_controls.paused
    active,     \* candidates neither resolved nor superseded
    \* the two threads
    pc, report, labels, held, over, stored,
    alone,      \* scans since whose start nothing else has changed
    changes

settings == <<override, gates, paused>>
locals == <<report, labels, held, over, stored>>
vars == <<wud, template, runtime, watched, settings, active, pc, locals, alone, changes>>

---------------------------------------------------------------------------
\* Gates

Gates == [Risks -> [allowed : SUBSET Changes, research : BOOLEAN, manual : BOOLEAN]]

DefaultGates == [r \in Risks |-> [allowed |-> IF r = "low" THEN {"patch", "minor"} ELSE {},
                                  research |-> r # "low", manual |-> r # "low"]]

\* normalized_gates: only low risk may leave manual review.
NormalizedGates(value) ==
    LET gate == IF value = None THEN DefaultGates ELSE value
    IN  [r \in Risks |-> [allowed |-> IF r = "low" THEN gate[r].allowed \cap Changes ELSE {},
                          research |-> gate[r].research,
                          manual |-> r # "low" \/ gate[r].manual]]

\* What the form becomes, as save_risk_gates stores it
FormGates(form) ==
    NormalizedGates([r \in Risks |-> [allowed |-> IF r = "low" THEN form.low ELSE {},
                                      research |-> r \in form.research,
                                      manual |-> r # "low"]])

---------------------------------------------------------------------------
\* Labels

HasVnext(l) == l["version"] # None \/ l["research"] # None

\* LabelPolicy.from_labels returns rather than raises.
Valid(l) ==
    /\ l["version"] \in {"patch", "minor", "major"}
    /\ l["policy"] \in {"manual", "auto"}
    /\ l["research"] \in {"none", "notes", "issues"}
    /\ l["optional"] \in {None, "valid"}

\* The template's labels over the container's, and those over the labels l of
\* WUD's row
Merged(l) == [k \in Key |-> IF template[k] # None THEN template[k]
                            ELSE IF runtime[k] # None THEN runtime[k] ELSE l[k]]

---------------------------------------------------------------------------
\* normalize

\* No label at all, and none read yet
Unread == [k \in Key |-> None]

\* Mutant of Or: a missing label has no default.
OrNothing(value, default) == value

\* A label, or what stands for a missing one
Or(value, default) == IF value = None THEN default ELSE value

Semver(value) == IF value \in Version THEN value ELSE None

\* change_class of two tags; a reference is none.
ChangeClass(installed, target) ==
    LET current == Semver(installed)
        final == Semver(target)
    IN  CASE current = None \/ final = None -> "unknown"
          [] OTHER -> CASE final.major # current.major -> "major"
                        [] final.minor # current.minor -> "minor"
                        [] final.patch # current.patch -> "patch"
                        [] OTHER -> "none"

Rank == [patch |-> 0, minor |-> 1, major |-> 2]

TargetImage(row) ==
    IF row.tag = None THEN None ELSE [repository |-> Image.repository, tag |-> row.tag]

\* Mutant of VnextItem: the labels' policy alone decides.
AutoItem(row, l, hold, o) ==
    [target |-> TargetImage(row), change |-> ChangeClass(Image, TargetImage(row)),
     policy |-> l["policy"], risk |-> IF o # None THEN o.risk ELSE Or(l["risk"], "medium"),
     state |-> row.status, ready |-> l["policy"] = "auto" /\ ~hold]

\* A container with valid labels.  The change is classified from the references.
VnextItem(row, l, hold, o) ==
    LET target == TargetImage(row)
        change == ChangeClass(Image, target)
    IN  [target |-> target, change |-> change, policy |-> l["policy"],
         risk |-> IF o # None THEN o.risk ELSE Or(l["risk"], "medium"),
         state |-> row.status,
         ready |-> /\ row.status = "running" /\ target # None /\ ~hold
                   /\ l["policy"] = "auto" /\ change \in DOMAIN Rank
                   /\ Rank[change] <= Rank[l["version"]]]

\* One whose labels are incomplete or malformed
InvalidItem(row) ==
    [target |-> TargetImage(row), change |-> row.change, policy |-> "invalid",
     risk |-> "critical", state |-> row.status, ready |-> FALSE]

\* One without them: override, then the labels of v0.7.1, and the gate decide.
LegacyItem(row, l, hold, o, value) ==
    LET policy == IF o # None THEN o.policy ELSE Or(l["policy"], "manual")
        risk == IF o # None THEN o.risk ELSE Or(l["risk"], "medium")
        gate == NormalizedGates(value)[IF risk \in Risks THEN risk ELSE "critical"]
    IN  [target |-> TargetImage(row), change |-> row.change, policy |-> policy,
         risk |-> risk, state |-> row.status,
         ready |-> /\ row.status = "running" /\ TargetImage(row) # None /\ ~hold
                   /\ row.change \in {"patch", "minor"} /\ policy \in {"patch", "minor"}
                   /\ row.change \in gate.allowed /\ ~gate.manual /\ ~gate.research]

\* Mutant of Normalize: labels that are no policy are passed over.
NormalizeLeniently(row, l, hold, o, value) ==
    IF Valid(l) THEN VnextItem(row, l, hold, o) ELSE LegacyItem(row, l, hold, o, value)

Normalize(row, l, hold, o, value) ==
    CASE Valid(l) -> VnextItem(row, l, hold, o)
      [] ~Valid(l) /\ HasVnext(l) -> InvalidItem(row)
      [] OTHER -> LegacyItem(row, l, hold, o, value)

---------------------------------------------------------------------------
Thread == {"scheduler", "web"}
Other(p) == IF p = "web" THEN "scheduler" ELSE "web"

\* The steps of a scan: reconcile_rows for the scheduler, wud.scan for the web.
Follow == [
    scheduler |-> [report |-> "inventory", inventory |-> "controls",
                   controls |-> "override", override |-> "gates", gates |-> "upsert",
                   upsert |-> "supersede", supersede |-> "resolve"],
    web |-> [report |-> "inventory", inventory |-> "override", override |-> "gates",
             gates |-> "controls", controls |-> "upsert", upsert |-> "resolve"]]

Advance(p) == pc' = [pc EXCEPT ![p] = Follow[p][pc[p]]]

\* What a scan has normalized, and what identifies it: its revision_hash covers
\* neither the change nor the state.
Item(p) == Normalize(report[p], labels[p], held[p], over[p], stored[p])
Same(c, d) == /\ c.target = d.target /\ c.policy = d.policy
              /\ c.risk = d.risk /\ c.ready = d.ready

Init ==
    /\ wud \in Report \cup {None}
    /\ template \in LabelSet /\ runtime = template /\ watched = template
    /\ override = None /\ gates = None /\ paused = FALSE
    /\ active = {}
    /\ pc = [p \in Thread |-> "idle"]
    /\ report = [p \in Thread |-> None]
    /\ labels = [p \in Thread |-> Unread]
    /\ held = [p \in Thread |-> FALSE]
    /\ over = [p \in Thread |-> None]
    /\ stored = [p \in Thread |-> None]
    /\ alone = {}
    /\ changes = 0

\* A scan begins; it is alone as long as the other thread does nothing.
Begin(p) ==
    /\ pc' = [pc EXCEPT ![p] = "report"]
    /\ alone' = IF pc[Other(p)] = "idle" THEN {p} ELSE {}

\* The cron trigger
Trigger ==
    /\ pc["scheduler"] = "idle"
    /\ Begin("scheduler")
    /\ UNCHANGED <<wud, template, runtime, watched, settings, active, locals, changes>>

\* get_containers: without an answer a scan ends, and the request with it.
FetchReport(p) ==
    /\ pc[p] = "report"
    /\ \/ /\ report' = [report EXCEPT ![p] = wud]
          /\ labels' = [labels EXCEPT ![p] = watched]
          /\ Advance(p) /\ UNCHANGED alone
       \/ /\ pc' = [pc EXCEPT ![p] = "idle"] /\ alone' = alone \ {p}
          /\ UNCHANGED <<report, labels>>
    /\ UNCHANGED <<wud, template, runtime, watched, settings, active, held, over, stored, changes>>

\* inventory
ReadInventory(p) ==
    /\ pc[p] = "inventory"
    /\ labels' = [labels EXCEPT ![p] = Merged(@)]
    /\ Advance(p)
    /\ UNCHANGED <<wud, template, runtime, watched, settings, active, report, held, over, stored,
                   alone, changes>>

ReadControls(p) ==
    /\ pc[p] = "controls"
    /\ held' = [held EXCEPT ![p] = paused]
    /\ Advance(p)
    /\ UNCHANGED <<wud, template, runtime, watched, settings, active, report, labels, over, stored,
                   alone, changes>>

ReadOverride(p) ==
    /\ pc[p] = "override"
    /\ over' = [over EXCEPT ![p] = override]
    /\ Advance(p)
    /\ UNCHANGED <<wud, template, runtime, watched, settings, active, report, labels, held, stored,
                   alone, changes>>

\* Mutant of ReadGates: the defaults are used whatever is stored.
ReadDefaults(p) ==
    /\ pc[p] = "gates"
    /\ stored' = [stored EXCEPT ![p] = None]
    /\ Advance(p)
    /\ UNCHANGED <<wud, template, runtime, watched, settings, active, report, labels, held, over,
                   alone, changes>>

ReadGates(p) ==
    /\ pc[p] = "gates"
    /\ stored' = [stored EXCEPT ![p] = gates]
    /\ Advance(p)
    /\ UNCHANGED <<wud, template, runtime, watched, settings, active, report, labels, held, over,
                   alone, changes>>

\* Mutant of Upsert: a known candidate keeps its old row, one it replaces stays.
UpsertNewest(p) ==
    /\ pc[p] = "upsert"
    /\ active' = IF report[p] = None \/ \E c \in active : Same(c, Item(p))
                 THEN active ELSE active \cup {Item(p)}
    /\ alone' = alone \ {Other(p)}
    /\ Advance(p)
    /\ UNCHANGED <<wud, template, runtime, watched, settings, locals, changes>>

\* upsert_candidate, when WUD has reported an update
Upsert(p) ==
    /\ pc[p] = "upsert"
    /\ active' = IF report[p] = None THEN active
                 ELSE {c \in active : ~Same(c, Item(p))} \cup {Item(p)}
    /\ alone' = alone \ {Other(p)}
    /\ Advance(p)
    /\ UNCHANGED <<wud, template, runtime, watched, settings, locals, changes>>

\* supersede_older_candidates, only in reconcile_rows
Supersede(p) ==
    /\ p = "scheduler" /\ pc[p] = "supersede"
    /\ active' = IF report[p] = None THEN active ELSE {c \in active : Same(c, Item(p))}
    /\ alone' = alone \ {Other(p)}
    /\ Advance(p)
    /\ UNCHANGED <<wud, template, runtime, watched, settings, locals, changes>>

\* resolve_missing_candidates ends the scan, and its locals go.
Resolve(p) ==
    /\ pc[p] = "resolve"
    /\ active' = IF report[p] = None THEN {} ELSE {c \in active : Same(c, Item(p))}
    /\ pc' = [pc EXCEPT ![p] = "idle"]
    /\ report' = [report EXCEPT ![p] = None]
    /\ labels' = [labels EXCEPT ![p] = Unread]
    /\ held' = [held EXCEPT ![p] = FALSE]
    /\ over' = [over EXCEPT ![p] = None]
    /\ stored' = [stored EXCEPT ![p] = None]
    /\ alone' = alone \ {p, Other(p)}
    /\ UNCHANGED <<wud, template, runtime, watched, settings, changes>>

Scan(p) ==
    \/ FetchReport(p) \/ ReadInventory(p) \/ ReadControls(p) \/ ReadOverride(p)
    \/ ReadGates(p) \/ Upsert(p) \/ Supersede(p) \/ Resolve(p)

---------------------------------------------------------------------------
\* Requests that change a policy and scan again

Change == changes < MaxChanges /\ changes' = changes + 1

\* save_container_policy, reset_container_policy
SaveOverride(o) ==
    /\ pc["web"] = "idle" /\ Change
    /\ override' = o
    /\ Begin("web")
    /\ UNCHANGED <<wud, template, runtime, watched, gates, paused, active, locals>>

SaveGates(form) ==
    /\ pc["web"] = "idle" /\ Change
    /\ gates' = FormGates(form)
    /\ Begin("web")
    /\ UNCHANGED <<wud, template, runtime, watched, override, paused, active, locals>>

\* save_container_labels: only valid labels are written, to the template alone.
SaveLabels(l) ==
    /\ pc["web"] = "idle" /\ Change
    /\ Valid(l)
    /\ template' = [l EXCEPT !["risk"] = None]
    /\ Begin("web")
    /\ UNCHANGED <<wud, runtime, watched, settings, active, locals>>

\* pause_container and resume_container do not scan.
SetPaused ==
    /\ Change
    /\ paused' = ~paused
    /\ alone' = {}
    /\ UNCHANGED <<wud, template, runtime, watched, override, gates, active, pc, locals>>

---------------------------------------------------------------------------
\* The environment

\* The operator edits the template outside the program.
EditTemplate(l) ==
    /\ Change
    /\ template' = l
    /\ alone' = {}
    /\ UNCHANGED <<wud, runtime, watched, settings, active, pc, locals>>

\* The container is created anew from its template.
Recreate ==
    /\ runtime # template /\ runtime' = template
    /\ alone' = {}
    /\ UNCHANGED <<wud, template, watched, settings, active, pc, locals, changes>>

\* WUD looks at the container again.
WudWatch ==
    /\ watched # runtime /\ watched' = runtime
    /\ alone' = {}
    /\ UNCHANGED <<wud, template, runtime, settings, active, pc, locals, changes>>

WudChange(row) ==
    /\ Change
    /\ row # wud /\ wud' = row
    /\ alone' = {}
    /\ UNCHANGED <<template, runtime, watched, settings, active, pc, locals>>

Next ==
    \/ Trigger \/ (\E p \in Thread : Scan(p))
    \/ \E o \in (Override \cup {None}) \ {override} : SaveOverride(o)
    \/ \E form \in GateForm : SaveGates(form)
    \/ \E l \in LabelSet : SaveLabels(l) \/ EditTemplate(l)
    \/ SetPaused \/ Recreate \/ WudWatch
    \/ \E row \in Report \cup {None} : WudChange(row)

Spec == Init /\ [][Next]_vars

\* The cron trigger fires again and again, a scan that has begun goes on, and WUD
\* does not refuse to answer for ever.
FairSpec ==
    /\ Spec
    /\ WF_vars(Trigger)
    /\ \A p \in Thread : WF_vars(Scan(p))
    /\ SF_vars(FetchReport("scheduler") /\ pc'["scheduler"] = "inventory")

---------------------------------------------------------------------------
\* Properties

\* What a scan would publish that read everything now.
Current == IF wud = None THEN {} ELSE {Normalize(wud, Merged(watched), paused, override, gates)}

\* The settings, the candidates and the locals of both scans keep their types.
TypeOK ==
    /\ wud \in Report \cup {None}
    /\ template \in Labels /\ runtime \in Labels /\ watched \in Labels
    /\ override \in Override \cup {None}
    /\ gates \in Gates \cup {None}
    /\ paused \in BOOLEAN
    /\ active \subseteq Candidate
    /\ pc \in [Thread -> {"idle", "report", "inventory", "controls", "override", "gates",
                          "upsert", "supersede", "resolve"}]
    /\ report \in [Thread -> Report \cup {None}]
    /\ labels \in [Thread -> Labels]
    /\ held \in [Thread -> BOOLEAN]
    /\ over \in [Thread -> Override \cup {None}]
    /\ stored \in [Thread -> Gates \cup {None}]
    /\ alone \subseteq Thread
    /\ changes \in Nat

\* README.md:33: updates that are unlabeled, digest-only, major, of medium or high
\* risk, or unresolved stay with the operator.  Whatever gates, overrides and
\* labels are set, and in whatever order scans read them.
ReadyWithinBoundary ==
    \A c \in active : c.ready =>
        /\ c.risk = "low"
        /\ c.change \in {"patch", "minor"} /\ c.policy \in {"patch", "minor"}
        /\ c.target # None /\ c.state = "running"

\* Rows of overrides and of gates that may be stored
AnyOverride == Override \cup {None}
AnyGates == {FormGates(form) : form \in GateForm} \cup {None}

\* wud.py:75, "vNext labels are authoritative.  Invalid or incomplete labels fail
\* closed; legacy overrides remain accepted only for the v0.7.1 compatibility
\* path": a scan of a container that carries the new labels, read from template,
\* container or WUD, publishes nothing ready when they are malformed, and the same
\* decision as under any other override and any other gates when they are valid.
LabelsAuthoritative ==
    [][\A p \in Thread : pc[p] = "upsert" /\ pc'[p] # "upsert" /\ HasVnext(labels[p]) =>
         \A c \in active' \ active :
            /\ ~Valid(labels[p]) => ~c.ready
            /\ \A o \in AnyOverride, value \in AnyGates :
                  LET d == Normalize(report[p], labels[p], held[p], o, value)
                  IN  /\ c.ready = d.ready /\ c.policy = d.policy
                      /\ c.target = d.target /\ c.change = d.change]_vars

\* A scan during which nothing else changed, that of a request which has just
\* changed a policy first of all, leaves what that policy says, and nothing of
\* what was active before.
SaveTakesEffect ==
    [][\A p \in alone : pc[p] = "resolve" /\ pc'[p] = "idle" => active' = Current]_vars

\* When nothing changes any more, the candidates come to agree with the settings,
\* although scans overlap, have read old settings, and WUD is often unreachable.
PolicyTakesEffect == <>[](active = Current)

=============================================================================
