------------------------------ MODULE CandidateScan ------------------------------
(***************************************************************************)
(* How scans of WUD become candidates.  Scheduled scans (run_scan with     *)
(* reconcile_rows) hold a lock, manual scans (the /scans route with        *)
(* wud.scan) hold none; both write the candidates table one database call  *)
(* at a time.  Meanwhile WUD's report changes, the operator pauses         *)
(* containers and approves candidates, calls raise, and the process may    *)
(* die.  Policies do not change; they are the set Eligible.                *)
(***************************************************************************)
EXTENDS Naturals, FiniteSets

CONSTANTS
    Scan,         \* scans, each run at most once
    Scheduled,    \* those of the scheduler; the others are manual
    Container,
    Target,       \* update targets
    Eligible,     \* targets whose change the policy lets be approved
    None,         \* no update, no scan, no container
    MaxChanges,   \* bound: changes of WUD's report
    MaxPauses,    \* bound: pauses and resumptions
    MaxApprovals, \* bound: approvals
    MaxFaults,    \* bound: calls that raise
    MaxCrashes    \* bound: deaths of the process

ASSUME ScanAssumption ==
    /\ Scheduled \subseteq Scan
    /\ Eligible \subseteq Target
    /\ None \notin Target \cup Scan \cup Container

VARIABLES
    wud,        \* WUD's report: the target of each container
    \* the database
    status,     \* candidates.status by revision
    approved,   \* revisions with an approval that has not expired
    paused,     \* containers with container_controls.paused
    report,     \* scans.status
    \* the process
    lock,       \* scheduler._LOCK
    pc,
    snapshot,   \* rows fetched by each scan
    held,       \* `controls`: containers read as paused
    seen,       \* `seen`, `seen_revisions`
    row,        \* container whose older candidates are superseded next
    \* how often the environment has acted
    changes, pauses, faults, crashes

tables == <<status, approved, paused, report>>
process == <<lock, pc, snapshot, held, seen, row>>
env == <<changes, pauses, faults, crashes>>
vars == <<wud, tables, process, env>>

\* revision_hash: what identifies a candidate.  It covers the status that
\* normalize gives to the candidate, here whether it is approval_ready.
Revision == [container : Container, target : Target, ready : BOOLEAN]

Fresh(r) == IF r.ready THEN "approval_ready" ELSE "manual_review"
ActiveStatus == {"approval_ready", "manual_review"}
Active == {r \in Revision : status[r] \in ActiveStatus}

Init ==
    /\ wud \in [Container -> Target \cup {None}]
    \* the table that earlier scans left, some of which failed
    /\ status \in [Revision -> {"none", "resolved"} \cup ActiveStatus]
    /\ \A r \in Revision : status[r] \in {"none", "resolved", Fresh(r)}
    /\ approved = {} /\ paused = {}
    /\ report = [s \in Scan |-> "none"]
    /\ lock = None
    /\ pc = [s \in Scan |-> "idle"]
    /\ snapshot = [s \in Scan |-> [k \in Container |-> None]]
    /\ held = [s \in Scan |-> {}]
    /\ seen = [s \in Scan |-> {}]
    /\ row = [s \in Scan |-> None]
    /\ changes = 0 /\ pauses = 0 /\ faults = 0 /\ crashes = 0

Goto(s, step) == pc' = [pc EXCEPT ![s] = step]

\* The end of a scan; run_scan releases the lock in its finally clause.
End(s, step) ==
    /\ Goto(s, step)
    /\ lock' = IF lock = s THEN None ELSE lock

\* normalize of a row
Normalized(s, k) ==
    [container |-> k, target |-> snapshot[s][k],
     ready |-> snapshot[s][k] \in Eligible /\ k \notin held[s]]

\* Mutant of Rows: rows without an update are not skipped.
AllRows(s) == Container

Rows(s) == {k \in Container : snapshot[s][k] # None}
\* The rows with an update that are still to be done.
Pending(s) == {k \in Rows(s) : Normalized(s, k) \notin seen[s]}

---------------------------------------------------------------------------
\* Scans

\* run_scan skips the scan when another one holds the lock.
Skip(s) ==
    /\ pc[s] = "idle" /\ s \in Scheduled /\ lock # None
    /\ Goto(s, "skipped")
    /\ UNCHANGED <<wud, tables, lock, snapshot, held, seen, row, env>>

\* Mutant of Fetch: the scheduler does not take its lock.
FetchUnlocked(s) ==
    /\ pc[s] = "idle"
    /\ UNCHANGED lock
    /\ snapshot' = [snapshot EXCEPT ![s] = wud]
    /\ Goto(s, "start")
    /\ UNCHANGED <<wud, tables, held, seen, row, env>>

\* The rows of WUD and the inventory are fetched, before the scan starts.
Fetch(s) ==
    /\ pc[s] = "idle"
    /\ \/ s \in Scheduled /\ lock = None /\ lock' = s
       \/ s \notin Scheduled /\ UNCHANGED lock
    /\ snapshot' = [snapshot EXCEPT ![s] = wud]
    /\ Goto(s, "start")
    /\ UNCHANGED <<wud, tables, held, seen, row, env>>

StartScan(s) ==
    /\ pc[s] = "start"
    /\ report' = [report EXCEPT ![s] = "running"]
    /\ Goto(s, "controls")
    /\ UNCHANGED <<wud, status, approved, paused, lock, snapshot, held, seen, row, env>>

ReadControls(s) ==
    /\ pc[s] = "controls"
    /\ held' = [held EXCEPT ![s] = paused]
    /\ Goto(s, "rows")
    /\ UNCHANGED <<wud, tables, lock, snapshot, seen, row, env>>

\* Mutant of UpsertCandidate: a known revision is left as it is.
InsertCandidate(s) ==
    /\ pc[s] = "rows"
    /\ \E k \in Pending(s) : LET r == Normalized(s, k) IN
         /\ status' = [status EXCEPT ![r] = IF @ = "none" THEN Fresh(r) ELSE @]
         /\ seen' = [seen EXCEPT ![s] = @ \cup {r}]
         /\ row' = [row EXCEPT ![s] = k]
    /\ Goto(s, IF s \in Scheduled THEN "supersede" ELSE "rows")
    /\ UNCHANGED <<wud, approved, paused, report, lock, snapshot, held, env>>

\* A row is normalized and upserted: a known revision gets its status back.
UpsertCandidate(s) ==
    /\ pc[s] = "rows"
    /\ \E k \in Pending(s) : LET r == Normalized(s, k) IN
         /\ status' = [status EXCEPT ![r] = Fresh(r)]
         /\ seen' = [seen EXCEPT ![s] = @ \cup {r}]
         /\ row' = [row EXCEPT ![s] = k]
    /\ Goto(s, IF s \in Scheduled THEN "supersede" ELSE "rows")
    /\ UNCHANGED <<wud, approved, paused, report, lock, snapshot, held, env>>

\* supersede_older_candidates, only in reconcile_rows
Supersede(s) ==
    /\ pc[s] = "supersede"
    /\ status' = [r \in Revision |->
         IF r \in Active /\ r.container = row[s] /\ r # Normalized(s, row[s])
         THEN "superseded" ELSE status[r]]
    /\ Goto(s, "rows")
    /\ UNCHANGED <<wud, approved, paused, report, lock, snapshot, held, seen, row, env>>

\* resolve_missing_candidates; without any row, superseded candidates are
\* resolved as well.
ResolveMissing(s) ==
    /\ pc[s] = "rows" /\ Pending(s) = {}
    /\ status' = [r \in Revision |->
         IF \/ seen[s] # {} /\ r \in Active \ seen[s]
            \/ seen[s] = {} /\ status[r] # "none"
         THEN "resolved" ELSE status[r]]
    /\ Goto(s, "finish")
    /\ UNCHANGED <<wud, approved, paused, report, lock, snapshot, held, seen, row, env>>

FinishScan(s) ==
    /\ pc[s] = "finish"
    /\ report' = [report EXCEPT ![s] = "success"]
    /\ Goto(s, "audit")
    /\ UNCHANGED <<wud, status, approved, paused, lock, snapshot, held, seen, row, env>>

\* The audit event, inside the same try
Audit(s) ==
    /\ pc[s] = "audit"
    /\ End(s, "done")
    /\ UNCHANGED <<wud, tables, snapshot, held, seen, row, env>>

\* Mutant of Raise: the lock is released only by scans that succeed.
RaiseLocked(s) ==
    /\ faults < MaxFaults /\ faults' = faults + 1
    /\ \/ /\ pc[s] \in {"start", "controls", "failing"}
          /\ Goto(s, "raised")
       \/ /\ pc[s] \in {"rows", "supersede", "finish", "audit"}
          /\ Goto(s, "failing")
    /\ UNCHANGED <<wud, tables, lock, snapshot, held, seen, row, changes, pauses, crashes>>

\* A database call raises.  start_scan and the read of the controls precede the
\* try; from within it the except clause is entered.
Raise(s) ==
    /\ faults < MaxFaults /\ faults' = faults + 1
    /\ \/ pc[s] \in {"start", "controls", "failing"} /\ End(s, "raised")
       \/ /\ pc[s] \in {"rows", "supersede", "finish", "audit"}
          /\ Goto(s, "failing") /\ UNCHANGED lock
    /\ UNCHANGED <<wud, tables, snapshot, held, seen, row, changes, pauses, crashes>>

\* Mutant of FinishFailed: the row of the scan is left as it is.
FinishUnreported(s) ==
    /\ pc[s] = "failing"
    /\ End(s, "raised")
    /\ UNCHANGED <<wud, tables, snapshot, held, seen, row, env>>

\* The except clause
FinishFailed(s) ==
    /\ pc[s] = "failing"
    /\ report' = [report EXCEPT ![s] = "failed"]
    /\ End(s, "raised")
    /\ UNCHANGED <<wud, status, approved, paused, snapshot, held, seen, row, env>>

Step(s) ==
    \/ StartScan(s) \/ ReadControls(s) \/ UpsertCandidate(s) \/ Supersede(s)
    \/ ResolveMissing(s) \/ FinishScan(s) \/ Audit(s) \/ FinishFailed(s)

---------------------------------------------------------------------------
\* The environment

WudChange(k) ==
    /\ changes < MaxChanges
    /\ changes' = changes + 1
    /\ \E t \in (Target \cup {None}) \ {wud[k]} : wud' = [wud EXCEPT ![k] = t]
    /\ UNCHANGED <<tables, process, pauses, faults, crashes>>

SetPaused(k) ==
    /\ pauses < MaxPauses
    /\ pauses' = pauses + 1
    /\ \/ k \notin paused /\ paused' = paused \cup {k}
       \/ k \in paused /\ paused' = paused \ {k}
    /\ UNCHANGED <<wud, status, approved, report, process, changes, faults, crashes>>

\* The approve route
Approve(r) ==
    /\ status[r] = "approval_ready" /\ r.container \notin paused
    /\ r \notin approved /\ Cardinality(approved) < MaxApprovals
    /\ approved' = approved \cup {r}
    /\ UNCHANGED <<wud, status, paused, report, process, env>>

\* The process dies; it restarts with the lock free.
Crash ==
    /\ crashes < MaxCrashes
    /\ crashes' = crashes + 1
    /\ pc' = [s \in Scan |-> IF pc[s] \in {"idle", "skipped", "done", "raised"}
                             THEN pc[s] ELSE "dead"]
    /\ lock' = None
    /\ UNCHANGED <<wud, tables, snapshot, held, seen, row, changes, pauses, faults>>

Next ==
    \/ \E s \in Scan : Skip(s) \/ Fetch(s) \/ Step(s) \/ Raise(s)
    \/ \E k \in Container : WudChange(k) \/ SetPaused(k)
    \/ \E r \in Revision : Approve(r)
    \/ Crash

Spec == Init /\ [][Next]_vars

\* A scan that has started runs until it ends.
FairSpec == Spec /\ \A s \in Scan : WF_vars(Step(s))

---------------------------------------------------------------------------
\* Properties

Running == {"start", "controls", "rows", "supersede", "finish", "audit", "failing"}
Over == {"skipped", "done", "raised", "dead"}

\* The tables and the locals of the scans keep their types.
TypeOK ==
    /\ wud \in [Container -> Target \cup {None}]
    /\ status \in [Revision -> ActiveStatus \cup {"none", "superseded", "resolved"}]
    /\ approved \subseteq Revision
    /\ paused \subseteq Container
    /\ report \in [Scan -> {"none", "running", "success", "failed"}]
    /\ lock \in Scheduled \cup {None}
    /\ pc \in [Scan -> {"idle"} \cup Running \cup Over]
    /\ snapshot \in [Scan -> [Container -> Target \cup {None}]]
    /\ held \in [Scan -> SUBSET Container]
    /\ seen \in [Scan -> SUBSET Revision]
    /\ row \in [Scan -> Container \cup {None}]
    /\ changes \in Nat /\ pauses \in Nat /\ faults \in Nat /\ crashes \in Nat

\* As long as no manual scan has run, the active candidates after a scheduled
\* scan has resolved the missing ones are exactly those of its rows, whatever
\* earlier scans that failed or died have left in the table.
ScanPublishes ==
    [][\A s \in Scheduled :
         (/\ pc[s] = "rows" /\ pc'[s] = "finish"
          /\ \A m \in Scan \ Scheduled : pc[m] = "idle") =>
           Active' = {Normalized(s, k) : k \in Rows(s)}]_vars

\* Overlapping scans, manual or scheduled, that read the same rows and the same
\* controls leave exactly the candidates of those rows active.
AgreeingScansConverge ==
    \A s \in Scan :
        (/\ pc[s] = "done"
         /\ \A o \in Scan : \/ pc[o] \in {"idle", "skipped"}
                            \/ /\ pc[o] = "done"
                               /\ snapshot[o] = snapshot[s] /\ held[o] = held[s]) =>
            Active = {Normalized(s, k) : k \in Rows(s)}

\* A scheduled scan releases the lock, so that later ones are not all skipped.
LockReleased == lock # None ~> lock = None

\* The row of a scan that has read its controls does not stay "running", unless
\* the process dies or the except clause raises as well.
ScanReported ==
    \A s \in Scan :
        pc[s] = "rows" ~> report[s] # "running" \/ pc[s] = "dead" \/ faults > 1

\* docs/vnext-design-and-implementation.md:161, "A newer digest/tag supersedes the
\* prior target and invalidates stale research and approval": no candidate
\* becomes active again with an approval from before it was superseded.
ApprovalInvalidated ==
    [][\A r \in approved : r \in Active' => r \in Active]_vars

=============================================================================
