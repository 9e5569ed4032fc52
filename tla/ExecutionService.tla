---------------------------- MODULE ExecutionService ----------------------------
(***************************************************************************)
(* UpdaterService.execute, called by concurrent requests (threads of the   *)
(* web server) on one SQLite database: approvals, leases,                  *)
(* operations and executions.  Every call that opens a connection is one   *)
(* action.  execute_update (modelled in UpdateRuntime) is abstracted to    *)
(* its check of the live revision and to its outcome.  The operator        *)
(* decides, pauses and resumes, scans change the status of candidates,     *)
(* time passes, database calls fail, and the process may die and restart.  *)
(***************************************************************************)
EXTENDS Naturals, Sequences

CONSTANTS
    Req,            \* requests to execute an update
    Cand,           \* candidates that scans found approval_ready
    Container,
    ContainerOf,    \* the container of each candidate
    Owner,          \* the actor of each request
    LeaseTicks,     \* lease_seconds (900), in ticks
    ApprovalTicks,  \* life of an approval (24 hours), in ticks
    AllowOverrun,   \* whether an execution may outlive its lease
    MaxLive,        \* bound: live revisions of a container
    MaxDecisions,   \* bound: decisions on a candidate
    MaxPauses,      \* bound: pauses and resumptions
    MaxScans,       \* bound: status changes by scans
    MaxFaults,      \* bound: database calls that raise
    MaxCrashes      \* bound: deaths of the process

ASSUME ServiceAssumption ==
    /\ ContainerOf \in [Cand -> Container]
    /\ LeaseTicks \in Nat \ {0}
    /\ ApprovalTicks \in Nat \ {0}
    /\ AllowOverrun \in BOOLEAN
    /\ MaxLive \in Nat

VARIABLES
    \* the database
    status,     \* candidates.status
    approvals,  \* the decisions on each candidate, in the order of their ids
    paused,     \* containers with container_controls.paused
    leases,     \* execution_leases
    ops,        \* execution_operations.status
    exec,       \* the executions row of each request
    \* the Docker host
    live,       \* live revision of each container
    applied,    \* requests whose execute_update succeeded
    \* the requests
    pc, cand,
    confirmed,  \* `live_revision`
    ready,      \* the candidate row that was read was approval_ready
    basis,      \* live revision that execute_update inspected
    \* how often the environment has acted
    pauses, scans, faults, crashes

db == <<status, approvals, paused>>
host == <<live, applied>>
locals == <<cand, confirmed, ready, basis>>
env == <<pauses, scans, faults, crashes>>
vars == <<db, leases, ops, exec, host, pc, locals, env>>

Revision == 0 .. MaxLive
Operation == Cand \X Revision

\* operation_id: the hash of candidate, candidate revision and live revision.
Op(r) == <<cand[r], confirmed[r]>>
K(r) == ContainerOf[cand[r]]

\* The steps of execute between acquire_lease and release_lease.
Holding ==
    {"check", "insert", "inspect", "mutating", "finish", "record", "audit",
     "fail_finish", "fail_record", "fail_audit", "release_ok", "release_err"}
Gating == {"candidate", "approval", "controls", "operation", "lease"}
Returned == {"ok", "err", "denied", "replayed", "dead"}

Init ==
    /\ status = [c \in Cand |-> "approval_ready"]
    /\ approvals = [c \in Cand |-> <<>>]
    /\ paused = {} /\ leases = {}
    /\ ops = [o \in Operation |-> "none"]
    /\ exec = [r \in Req |-> "none"]
    /\ live = [k \in Container |-> 0]
    /\ applied = {}
    /\ pc = [r \in Req |-> "idle"]
    /\ cand \in [Req -> Cand]
    /\ confirmed = [r \in Req |-> 0]
    /\ ready = [r \in Req |-> FALSE]
    /\ basis = [r \in Req |-> 0]
    /\ pauses = 0 /\ scans = 0 /\ faults = 0 /\ crashes = 0

Goto(r, step) == pc' = [pc EXCEPT ![r] = step]

---------------------------------------------------------------------------
\* The gate

\* The operator confirms the live revision that the candidate page shows.
Confirm(r) ==
    /\ pc[r] = "idle"
    /\ confirmed' = [confirmed EXCEPT ![r] = live[K(r)]]
    /\ Goto(r, "candidate")
    /\ UNCHANGED <<db, leases, ops, exec, host, cand, ready, basis, env>>

ReadCandidate(r) ==
    /\ pc[r] = "candidate"
    /\ ready' = [ready EXCEPT ![r] = status[cand[r]] = "approval_ready"]
    /\ Goto(r, "approval")
    /\ UNCHANGED <<db, leases, ops, exec, host, cand, confirmed, basis, env>>

ActiveApprovals(c) ==
    {id \in DOMAIN approvals[c] :
        approvals[c][id].decision = "approved" /\ approvals[c][id].left > 0}

\* db.active_approval, then the check of the status that was read
ReadApproval(r) ==
    /\ pc[r] = "approval"
    /\ Goto(r, IF ready[r] /\ ActiveApprovals(cand[r]) # {} THEN "controls" ELSE "denied")
    /\ UNCHANGED <<db, leases, ops, exec, host, locals, env>>

\* container_controls and check_gate
ReadControls(r) ==
    /\ pc[r] = "controls"
    /\ Goto(r, IF K(r) \in paused THEN "denied" ELSE "operation")
    /\ UNCHANGED <<db, leases, ops, exec, host, locals, env>>

\* Mutant of GetOperation: any recorded operation is replayed.
ReplayAnyOperation(r) ==
    /\ pc[r] = "operation"
    /\ Goto(r, IF ops[Op(r)] # "none" THEN "replayed" ELSE "lease")
    /\ UNCHANGED <<db, leases, ops, exec, host, locals, env>>

GetOperation(r) ==
    /\ pc[r] = "operation"
    /\ Goto(r, IF ops[Op(r)] = "succeeded" THEN "replayed" ELSE "lease")
    /\ UNCHANGED <<db, leases, ops, exec, host, locals, env>>

\* Mutant of Unexpired: expired leases are not reclaimed.
NeverExpires == leases

Unexpired == {l \in leases : l.left > 0}

\* Mutant of AcquireLease: the lease is per operation, not per container.
AcquireByOperation(r) ==
    /\ pc[r] = "lease"
    /\ \/ /\ \A l \in Unexpired : l.op # Op(r)
          /\ leases' = Unexpired \cup
               {[op |-> Op(r), container |-> K(r), owner |-> Owner[r], left |-> LeaseTicks]}
          /\ ops' = [ops EXCEPT ![Op(r)] = IF @ = "none" THEN "leased" ELSE @]
          /\ Goto(r, "check")
       \/ /\ \E l \in Unexpired : l.op = Op(r)
          /\ Goto(r, "denied")
          /\ UNCHANGED <<leases, ops>>
    /\ UNCHANGED <<db, exec, host, locals, env>>

\* acquire_lease, one immediate transaction
AcquireLease(r) ==
    /\ pc[r] = "lease"
    /\ \/ /\ \A l \in Unexpired : l.container # K(r)
          /\ leases' = Unexpired \cup
               {[op |-> Op(r), container |-> K(r), owner |-> Owner[r], left |-> LeaseTicks]}
          /\ ops' = [ops EXCEPT ![Op(r)] = IF @ = "none" THEN "leased" ELSE @]
          /\ Goto(r, "check")
       \/ /\ \E l \in Unexpired : l.container = K(r)
          /\ Goto(r, "denied")
          /\ UNCHANGED <<leases, ops>>
    /\ UNCHANGED <<db, exec, host, locals, env>>

---------------------------------------------------------------------------
\* The execution.  The database call of a step may raise.

Raise(r, handler) ==
    /\ faults < MaxFaults /\ faults' = faults + 1
    /\ Goto(r, handler)

\* Mutant of CheckRunning: a running row does not stop the execution.
CheckNothing(r) ==
    /\ pc[r] = "check"
    /\ \/ Goto(r, "insert") /\ UNCHANGED faults
       \/ Raise(r, "fail_record")
    /\ UNCHANGED <<db, leases, ops, exec, host, locals, pauses, scans, crashes>>

\* start_execution, SELECT
CheckRunning(r) ==
    /\ pc[r] = "check"
    /\ \/ /\ Goto(r, IF \E s \in Req : exec[s] = "running" /\ cand[s] = cand[r]
                      THEN "fail_record" ELSE "insert")
          /\ UNCHANGED faults
       \/ Raise(r, "fail_record")
    /\ UNCHANGED <<db, leases, ops, exec, host, locals, pauses, scans, crashes>>

\* start_execution, INSERT
InsertExecution(r) ==
    /\ pc[r] = "insert"
    /\ \/ /\ exec' = [exec EXCEPT ![r] = "running"]
          /\ Goto(r, "inspect") /\ UNCHANGED faults
       \/ Raise(r, "fail_record") /\ UNCHANGED exec
    /\ UNCHANGED <<db, leases, ops, host, locals, pauses, scans, crashes>>

\* Mutant of Inspect: the live revision is not compared.
InspectUnbound(r) ==
    /\ pc[r] = "inspect"
    /\ basis' = [basis EXCEPT ![r] = live[K(r)]]
    /\ Goto(r, "mutating")
    /\ UNCHANGED <<db, leases, ops, exec, host, cand, confirmed, ready, env>>

\* Mutant of Inspect: execution_id is not known to the except clause.
InspectWithoutId(r) ==
    /\ pc[r] = "inspect"
    /\ basis' = [basis EXCEPT ![r] = live[K(r)]]
    /\ Goto(r, IF live[K(r)] = confirmed[r] THEN "mutating" ELSE "fail_record")
    /\ UNCHANGED <<db, leases, ops, exec, host, cand, confirmed, ready, env>>

\* execute_update: the checks before the mutation
Inspect(r) ==
    /\ pc[r] = "inspect"
    /\ basis' = [basis EXCEPT ![r] = live[K(r)]]
    /\ Goto(r, IF live[K(r)] = confirmed[r] THEN "mutating" ELSE "fail_finish")
    /\ UNCHANGED <<db, leases, ops, exec, host, cand, confirmed, ready, env>>

\* The replacement is verified and the inspected container removed: only one
\* execution can do that to a container.
MutateOk(r) ==
    /\ pc[r] = "mutating"
    /\ live[K(r)] = basis[r] /\ live[K(r)] < MaxLive
    /\ live' = [live EXCEPT ![K(r)] = @ + 1]
    /\ applied' = applied \cup {r}
    /\ Goto(r, "finish")
    /\ UNCHANGED <<db, leases, ops, exec, locals, env>>

\* Mutant of MutateFail: a failed update is tried again.
MutateRetried(r) ==
    /\ pc[r] = "mutating"
    /\ Goto(r, "inspect")
    /\ UNCHANGED <<db, leases, ops, exec, host, locals, env>>

\* A failed update was rolled back, or left the container changed.
MutateFail(r) ==
    /\ pc[r] = "mutating"
    /\ \/ UNCHANGED live
       \/ live[K(r)] < MaxLive /\ live' = [live EXCEPT ![K(r)] = @ + 1]
    /\ Goto(r, "fail_finish")
    /\ UNCHANGED <<db, leases, ops, exec, applied, locals, env>>

\* Mutant of FinishOk: the status of a scan is written.
FinishAsScan(r) ==
    /\ pc[r] = "finish"
    /\ \/ /\ exec' = [exec EXCEPT ![r] = "success"]
          /\ Goto(r, "record") /\ UNCHANGED faults
       \/ Raise(r, "fail_finish") /\ UNCHANGED exec
    /\ UNCHANGED <<db, leases, ops, host, locals, pauses, scans, crashes>>

\* finish_execution("succeeded")
FinishOk(r) ==
    /\ pc[r] = "finish"
    /\ \/ /\ exec' = [exec EXCEPT ![r] = "succeeded"]
          /\ Goto(r, "record") /\ UNCHANGED faults
       \/ Raise(r, "fail_finish") /\ UNCHANGED exec
    /\ UNCHANGED <<db, leases, ops, host, locals, pauses, scans, crashes>>

\* record_operation("succeeded")
RecordOk(r) ==
    /\ pc[r] = "record"
    /\ \/ /\ ops' = [ops EXCEPT ![Op(r)] = "succeeded"]
          /\ Goto(r, "audit") /\ UNCHANGED faults
       \/ Raise(r, "fail_finish") /\ UNCHANGED ops
    /\ UNCHANGED <<db, leases, exec, host, locals, pauses, scans, crashes>>

\* _audit("execution.succeeded"), inside the same try
AuditOk(r) ==
    /\ pc[r] = "audit"
    /\ \/ Goto(r, "release_ok") /\ UNCHANGED faults
       \/ Raise(r, "fail_finish")
    /\ UNCHANGED <<db, leases, ops, exec, host, locals, pauses, scans, crashes>>

\* The except clause: any failure in it goes to the finally clause.
FailFinish(r) ==
    /\ pc[r] = "fail_finish"
    /\ \/ /\ exec' = [exec EXCEPT ![r] = "failed"]
          /\ Goto(r, "fail_record") /\ UNCHANGED faults
       \/ Raise(r, "release_err") /\ UNCHANGED exec
    /\ UNCHANGED <<db, leases, ops, host, locals, pauses, scans, crashes>>

FailRecord(r) ==
    /\ pc[r] = "fail_record"
    /\ \/ /\ ops' = [ops EXCEPT ![Op(r)] = "failed"]
          /\ Goto(r, "fail_audit") /\ UNCHANGED faults
       \/ Raise(r, "release_err") /\ UNCHANGED ops
    /\ UNCHANGED <<db, leases, exec, host, locals, pauses, scans, crashes>>

FailAudit(r) ==
    /\ pc[r] = "fail_audit"
    /\ Goto(r, "release_err")
    /\ UNCHANGED <<db, leases, ops, exec, host, locals, env>>

\* release_lease, in the finally clause, by operation and owner
Release(r) ==
    /\ pc[r] \in {"release_ok", "release_err"}
    /\ \/ /\ leases' = {l \in leases : ~ (l.op = Op(r) /\ l.owner = Owner[r])}
          /\ Goto(r, IF pc[r] = "release_ok" THEN "ok" ELSE "err")
          /\ UNCHANGED faults
       \/ Raise(r, "err") /\ UNCHANGED leases
    /\ UNCHANGED <<db, ops, exec, host, locals, pauses, scans, crashes>>

Step(r) ==
    \/ ReadCandidate(r) \/ ReadApproval(r) \/ ReadControls(r) \/ GetOperation(r)
    \/ AcquireLease(r) \/ CheckRunning(r) \/ InsertExecution(r)
    \/ Inspect(r) \/ MutateOk(r) \/ MutateFail(r)
    \/ FinishOk(r) \/ RecordOk(r) \/ AuditOk(r)
    \/ FailFinish(r) \/ FailRecord(r) \/ FailAudit(r) \/ Release(r)

---------------------------------------------------------------------------
\* The environment

\* service.decide with db.record_decision; the approve route refuses a paused
\* container.
Decide(c, decision) ==
    /\ Len(approvals[c]) < MaxDecisions
    /\ decision = "approved" =>
         status[c] = "approval_ready" /\ ContainerOf[c] \notin paused
    /\ approvals' = [approvals EXCEPT ![c] = Append(@,
         [decision |-> decision, left |-> IF decision = "approved" THEN ApprovalTicks ELSE 0])]
    /\ UNCHANGED <<status, paused, leases, ops, exec, host, pc, locals, env>>

SetPaused(k) ==
    /\ pauses < MaxPauses
    /\ pauses' = pauses + 1
    /\ \/ k \notin paused /\ paused' = paused \cup {k}
       \/ k \in paused /\ paused' = paused \ {k}
    /\ UNCHANGED <<status, approvals, leases, ops, exec, host, pc, locals, scans, faults, crashes>>

\* A scan supersedes or resolves a candidate, or upserts it again (see
\* CandidateScan).
ScanCandidate(c) ==
    /\ scans < MaxScans
    /\ scans' = scans + 1
    /\ \E s \in {"approval_ready", "superseded"} \ {status[c]} :
         status' = [status EXCEPT ![c] = s]
    /\ UNCHANGED <<approvals, paused, leases, ops, exec, host, pc, locals, pauses, faults, crashes>>

Less(n) == IF n = 0 THEN 0 ELSE n - 1

\* Without AllowOverrun no lease expires while its execution goes on.
Tick ==
    /\ AllowOverrun \/ \A r \in Req : pc[r] \in Holding =>
                         \A l \in leases : l.op = Op(r) => l.left # 1
    /\ leases' = {[l EXCEPT !.left = Less(@)] : l \in leases}
    /\ approvals' = [c \in Cand |-> [id \in DOMAIN approvals[c] |->
                       [approvals[c][id] EXCEPT !.left = Less(@)]]]
    /\ UNCHANGED <<status, paused, ops, exec, host, pc, locals, env>>

\* The process dies; updates in progress may have changed their containers.
Crash ==
    /\ crashes < MaxCrashes
    /\ crashes' = crashes + 1
    /\ pc' = [r \in Req |-> IF pc[r] \in Gating \cup Holding THEN "dead" ELSE pc[r]]
    /\ \E hit \in SUBSET {K(r) : r \in {s \in Req : pc[s] = "mutating"}} :
         /\ \A k \in hit : live[k] < MaxLive
         /\ live' = [k \in Container |-> IF k \in hit THEN live[k] + 1 ELSE live[k]]
    /\ UNCHANGED <<db, leases, ops, exec, applied, locals, pauses, scans, faults>>

Next ==
    \/ \E r \in Req : Confirm(r) \/ Step(r)
    \/ \E c \in Cand : ScanCandidate(c) \/ \E d \in {"approved", "deferred"} : Decide(c, d)
    \/ \E k \in Container : SetPaused(k)
    \/ Tick \/ Crash

Spec == Init /\ [][Next]_vars

\* A request thread runs until it returns, and time goes on.
FairSpec == Spec /\ WF_vars(Tick) /\ \A r \in Req : WF_vars(Step(r))

---------------------------------------------------------------------------
\* Properties

Decision == [decision : {"approved", "deferred"}, left : Nat]
Lease == [op : Operation, container : Container, owner : {Owner[r] : r \in Req},
          left : Nat]

\* Every table and every local of execute keeps its type.
TypeOK ==
    /\ status \in [Cand -> {"approval_ready", "superseded"}]
    /\ approvals \in [Cand -> Seq(Decision)]
    /\ paused \subseteq Container
    /\ leases \subseteq Lease
    /\ ops \in [Operation -> {"none", "leased", "succeeded", "failed"}]
    /\ exec \in [Req -> {"none", "running", "succeeded", "failed"}]
    /\ live \in [Container -> Revision]
    /\ applied \subseteq Req
    /\ pc \in [Req -> {"idle"} \cup Gating \cup Holding \cup Returned]
    /\ cand \in [Req -> Cand]
    /\ confirmed \in [Req -> Revision]
    /\ ready \in [Req -> BOOLEAN]
    /\ basis \in [Req -> Revision]
    /\ pauses \in Nat /\ scans \in Nat /\ faults \in Nat /\ crashes \in Nat

\* execution_gate.py:105, "acquire a per-container lease, returning None when
\* occupied": two requests never mutate one container at the same time.
ExclusiveMutation ==
    \A r, s \in Req :
        pc[r] = "mutating" /\ pc[s] = "mutating" /\ K(r) = K(s) => r = s

\* start_execution's check keeps at most one running row per candidate, although
\* its SELECT and INSERT are not one transaction.
OneRunningPerCandidate ==
    \A r, s \in Req :
        exec[r] = "running" /\ exec[s] = "running" /\ cand[r] = cand[s] => r = s

\* What was confirmed on one live revision is applied at most once, even by
\* requests whose leases ran out.
AppliedOnce ==
    \A r, s \in applied : Op(r) = Op(s) => r = s

\* An operation is recorded as succeeded, and its result replayed, only when
\* execute_update succeeded for it.
ReplayHonest ==
    /\ \A o \in Operation : ops[o] = "succeeded" => \E s \in applied : Op(s) = o
    /\ \A r \in Req : pc[r] = "replayed" => \E s \in applied : Op(s) = Op(r)

\* As long as the database works, a request that has returned left the row of
\* its execution in the status of what happened to the container.
OutcomeRecorded ==
    faults = 0 =>
        \A r \in Req : pc[r] \in {"ok", "err"} =>
            /\ exec[r] = "succeeded" <=> r \in applied
            /\ exec[r] # "running"

\* Every request that was confirmed returns, or dies with the process.
RequestReturns == \A r \in Req : pc[r] = "candidate" ~> pc[r] \in Returned

\* No lease blocks its container for ever: it is released, or expires and is
\* reclaimed.
LeaseEnds ==
    \A k \in Container :
        (\E l \in Unexpired : l.container = k) ~> ~ \E l \in Unexpired : l.container = k

\* What requests and tables mean to those who confirm: the operation of each
\* request, the operations recorded as done, the requests told that theirs is.
Asking == {r \in Req : pc[r] # "idle"}
Asked == [r \in Asking |-> Op(r)]
Succeeded == {o \in Operation : ops[o] = "succeeded"}
Answered == {r \in Req : pc[r] \in {"ok", "replayed"}}

Confirmed == INSTANCE Confirmations WITH
    asked <- Asked, recorded <- Succeeded, told <- Answered

\* execution_gate.py:107, "retries cannot create a second operation": execute
\* implements the promise that an operation is applied at most once, through
\* retries, overrun leases, faults, crashes and restarts.
AtMostOnceSpec == Confirmed!Spec

=============================================================================
