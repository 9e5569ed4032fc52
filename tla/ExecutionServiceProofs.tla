------------------------- MODULE ExecutionServiceProofs -------------------------
(***************************************************************************)
(* Theorems about ExecutionService, for every set of requests, candidates  *)
(* and containers and every number of decisions, faults and crashes.       *)
(***************************************************************************)
EXTENDS ExecutionService, TLAPS

Steps == {"idle"} \cup Gating \cup Holding \cup Returned

---------------------------------------------------------------------------
\* The inductive invariant

\* What each request knows at each step of execute.
RequestInv ==
    \A r \in Req :
        /\ pc[r] \in {"idle", "check", "insert", "denied", "replayed"} \cup Gating =>
             exec[r] = "none" /\ r \notin applied
        /\ pc[r] \in {"inspect", "mutating"} => exec[r] = "running" /\ r \notin applied
        /\ pc[r] = "mutating" => basis[r] = confirmed[r]
        /\ pc[r] \in {"finish", "record", "audit", "release_ok", "ok"} => r \in applied
        /\ pc[r] = "finish" => exec[r] = "running"
        /\ r \in applied => confirmed[r] < live[K(r)]

\* The row of each execution while no database call has raised.
RowInv ==
    faults = 0 =>
        \A r \in Req :
            /\ pc[r] \in {"record", "audit", "release_ok", "ok"} => exec[r] = "succeeded"
            /\ pc[r] = "fail_finish" => exec[r] = "running" /\ r \notin applied
            /\ pc[r] \in {"fail_record", "fail_audit", "release_err", "err"} =>
                 exec[r] \in {"none", "failed"} /\ r \notin applied

\* Every request past the gate owns a lease that has not expired, and no two
\* such requests are for one container.
LeaseInv ==
    ~ AllowOverrun =>
        /\ \A r \in Req : pc[r] \in Holding =>
             \E l \in leases :
                 /\ l.op = Op(r) /\ l.container = K(r) /\ l.owner = Owner[r]
                 /\ l.left > 0
        /\ \A r, s \in Req :
             pc[r] \in Holding /\ pc[s] \in Holding /\ K(r) = K(s) => r = s

\* What the SELECT of start_execution found still holds when its INSERT runs.
RunningInv ==
    ~ AllowOverrun =>
        /\ OneRunningPerCandidate
        /\ \A r, s \in Req :
             pc[r] = "insert" /\ cand[s] = cand[r] => exec[s] # "running"

IInv ==
    /\ TypeOK /\ RequestInv /\ RowInv /\ AppliedOnce /\ ReplayHonest
    /\ LeaseInv /\ RunningInv

---------------------------------------------------------------------------
\* The initial states satisfy the inductive invariant.
LEMMA InitInv == Init => IInv
  BY ServiceAssumption
  DEF Init, IInv, TypeOK, RequestInv, RowInv, AppliedOnce, ReplayHonest, LeaseInv,
      RunningInv, OneRunningPerCandidate, Operation, Revision, Decision, Holding,
      Gating, Op, K

\* A request moves to a step of execute.
LEMMA GotoType ==
  ASSUME pc \in [Req -> Steps], NEW r \in Req, NEW step \in Steps, Goto(r, step)
  PROVE  pc' \in [Req -> Steps]
  BY DEF Goto

\* A tick keeps the type of a decision.
LEMMA LessDecision ==
  ASSUME NEW d \in Decision
  PROVE  [d EXCEPT !.left = Less(@)] \in Decision
  <1>1. Less(d.left) \in Nat
    BY DEF Less, Decision
  <1>2. QED
    BY <1>1 DEF Decision

\* And of a lease.
LEMMA LessLease ==
  ASSUME NEW l \in Lease
  PROVE  [l EXCEPT !.left = Less(@)] \in Lease
  <1>1. Less(l.left) \in Nat
    BY DEF Less, Lease
  <1>2. QED
    BY <1>1 DEF Lease

\* The types are preserved.
LEMMA TypeStep ==
  ASSUME TypeOK, [Next]_vars
  PROVE  TypeOK'
  <1> USE ServiceAssumption
      DEF TypeOK, Operation, Revision, Decision, Lease, Op, K, db, host, locals, env, vars
  <1>0. /\ pc \in [Req -> Steps]
        /\ Steps = {"idle"} \cup Gating \cup Holding \cup Returned
    BY DEF Steps
  <1>1. ASSUME NEW r \in Req, ReadCandidate(r)
       PROVE  TypeOK'
    <2>1. pc' \in [Req -> Steps]
      BY <1>0, <1>1, GotoType DEF ReadCandidate, Raise, Steps, Gating, Holding, Returned
    <2>2. QED
      BY <1>0, <1>1, <2>1 DEF ReadCandidate
  <1>2. ASSUME NEW r \in Req, ReadApproval(r)
       PROVE  TypeOK'
    <2>1. pc' \in [Req -> Steps]
      BY <1>0, <1>2, GotoType DEF ReadApproval, Raise, Steps, Gating, Holding, Returned
    <2>2. QED
      BY <1>0, <1>2, <2>1 DEF ReadApproval
  <1>3. ASSUME NEW r \in Req, ReadControls(r)
       PROVE  TypeOK'
    <2>1. pc' \in [Req -> Steps]
      BY <1>0, <1>3, GotoType DEF ReadControls, Raise, Steps, Gating, Holding, Returned
    <2>2. QED
      BY <1>0, <1>3, <2>1 DEF ReadControls
  <1>4. ASSUME NEW r \in Req, GetOperation(r)
       PROVE  TypeOK'
    <2>1. pc' \in [Req -> Steps]
      BY <1>0, <1>4, GotoType DEF GetOperation, Raise, Steps, Gating, Holding, Returned
    <2>2. QED
      BY <1>0, <1>4, <2>1 DEF GetOperation
  <1>5. ASSUME NEW r \in Req, AcquireLease(r)
       PROVE  TypeOK'
    <2>1. pc' \in [Req -> Steps]
      BY <1>0, <1>5, GotoType DEF AcquireLease, Raise, Steps, Gating, Holding, Returned
    <2>2. leases' \subseteq Lease
      <3>1. [op |-> Op(r), container |-> K(r), owner |-> Owner[r], left |-> LeaseTicks]
              \in Lease
        BY ServiceAssumption
      <3>2. Unexpired \subseteq Lease
        BY DEF Unexpired
      <3>3. QED
        BY <1>5, <3>1, <3>2 DEF AcquireLease
    <2>3. ops' \in [Operation -> {"none", "leased", "succeeded", "failed"}]
      BY <1>5 DEF AcquireLease, Raise
    <2>4. QED
      BY <1>0, <1>5, <2>1, <2>2, <2>3 DEF AcquireLease
  <1>6. ASSUME NEW r \in Req, CheckRunning(r)
       PROVE  TypeOK'
    <2>1. pc' \in [Req -> Steps]
      BY <1>0, <1>6, GotoType DEF CheckRunning, Raise, Steps, Gating, Holding, Returned
    <2>2. faults' \in Nat
      BY <1>6 DEF CheckRunning, Raise
    <2>3. QED
      BY <1>0, <1>6, <2>1, <2>2 DEF CheckRunning
  <1>7. ASSUME NEW r \in Req, InsertExecution(r)
       PROVE  TypeOK'
    <2>1. pc' \in [Req -> Steps]
      BY <1>0, <1>7, GotoType DEF InsertExecution, Raise, Steps, Gating, Holding, Returned
    <2>2. exec' \in [Req -> {"none", "running", "succeeded", "failed"}]
      BY <1>7 DEF InsertExecution, Raise
    <2>3. faults' \in Nat
      BY <1>7 DEF InsertExecution, Raise
    <2>4. QED
      BY <1>0, <1>7, <2>1, <2>2, <2>3 DEF InsertExecution
  <1>8. ASSUME NEW r \in Req, Inspect(r)
       PROVE  TypeOK'
    <2>1. pc' \in [Req -> Steps]
      BY <1>0, <1>8, GotoType DEF Inspect, Raise, Steps, Gating, Holding, Returned
    <2>2. QED
      BY <1>0, <1>8, <2>1 DEF Inspect
  <1>9. ASSUME NEW r \in Req, MutateOk(r)
       PROVE  TypeOK'
    <2>1. pc' \in [Req -> Steps]
      BY <1>0, <1>9, GotoType DEF MutateOk, Raise, Steps, Gating, Holding, Returned
    <2>2. QED
      BY <1>0, <1>9, <2>1 DEF MutateOk
  <1>10. ASSUME NEW r \in Req, MutateFail(r)
       PROVE  TypeOK'
    <2>1. pc' \in [Req -> Steps]
      BY <1>0, <1>10, GotoType DEF MutateFail, Raise, Steps, Gating, Holding, Returned
    <2>2. live' \in [Container -> Revision]
      <3>1. CASE UNCHANGED live
        BY <3>1
      <3>2. CASE live[K(r)] < MaxLive /\ live' = [live EXCEPT ![K(r)] = @ + 1]
        BY <3>2
      <3>3. QED
        BY <1>10, <3>1, <3>2 DEF MutateFail
    <2>3. QED
      BY <1>0, <1>10, <2>1, <2>2 DEF MutateFail
  <1>11. ASSUME NEW r \in Req, FinishOk(r)
       PROVE  TypeOK'
    <2>1. pc' \in [Req -> Steps]
      BY <1>0, <1>11, GotoType DEF FinishOk, Raise, Steps, Gating, Holding, Returned
    <2>2. exec' \in [Req -> {"none", "running", "succeeded", "failed"}]
      BY <1>11 DEF FinishOk, Raise
    <2>3. faults' \in Nat
      BY <1>11 DEF FinishOk, Raise
    <2>4. QED
      BY <1>0, <1>11, <2>1, <2>2, <2>3 DEF FinishOk
  <1>12. ASSUME NEW r \in Req, RecordOk(r)
       PROVE  TypeOK'
    <2>1. pc' \in [Req -> Steps]
      BY <1>0, <1>12, GotoType DEF RecordOk, Raise, Steps, Gating, Holding, Returned
    <2>2. ops' \in [Operation -> {"none", "leased", "succeeded", "failed"}]
      BY <1>12 DEF RecordOk, Raise
    <2>3. faults' \in Nat
      BY <1>12 DEF RecordOk, Raise
    <2>4. QED
      BY <1>0, <1>12, <2>1, <2>2, <2>3 DEF RecordOk
  <1>13. ASSUME NEW r \in Req, AuditOk(r)
       PROVE  TypeOK'
    <2>1. pc' \in [Req -> Steps]
      BY <1>0, <1>13, GotoType DEF AuditOk, Raise, Steps, Gating, Holding, Returned
    <2>2. faults' \in Nat
      BY <1>13 DEF AuditOk, Raise
    <2>3. QED
      BY <1>0, <1>13, <2>1, <2>2 DEF AuditOk
  <1>14. ASSUME NEW r \in Req, FailFinish(r)
       PROVE  TypeOK'
    <2>1. pc' \in [Req -> Steps]
      BY <1>0, <1>14, GotoType DEF FailFinish, Raise, Steps, Gating, Holding, Returned
    <2>2. exec' \in [Req -> {"none", "running", "succeeded", "failed"}]
      BY <1>14 DEF FailFinish, Raise
    <2>3. faults' \in Nat
      BY <1>14 DEF FailFinish, Raise
    <2>4. QED
      BY <1>0, <1>14, <2>1, <2>2, <2>3 DEF FailFinish
  <1>15. ASSUME NEW r \in Req, FailRecord(r)
       PROVE  TypeOK'
    <2>1. pc' \in [Req -> Steps]
      BY <1>0, <1>15, GotoType DEF FailRecord, Raise, Steps, Gating, Holding, Returned
    <2>2. ops' \in [Operation -> {"none", "leased", "succeeded", "failed"}]
      BY <1>15 DEF FailRecord, Raise
    <2>3. faults' \in Nat
      BY <1>15 DEF FailRecord, Raise
    <2>4. QED
      BY <1>0, <1>15, <2>1, <2>2, <2>3 DEF FailRecord
  <1>16. ASSUME NEW r \in Req, FailAudit(r)
       PROVE  TypeOK'
    <2>1. pc' \in [Req -> Steps]
      BY <1>0, <1>16, GotoType DEF FailAudit, Raise, Steps, Gating, Holding, Returned
    <2>2. QED
      BY <1>0, <1>16, <2>1 DEF FailAudit
  <1>17. ASSUME NEW r \in Req, Release(r)
       PROVE  TypeOK'
    <2>1. pc' \in [Req -> Steps]
      BY <1>0, <1>17, GotoType DEF Release, Raise, Steps, Gating, Holding, Returned
    <2>2. leases' \subseteq Lease
      BY <1>17 DEF Release, Raise
    <2>3. faults' \in Nat
      BY <1>17 DEF Release, Raise
    <2>4. QED
      BY <1>0, <1>17, <2>1, <2>2, <2>3 DEF Release
  <1>18. ASSUME NEW r \in Req, Confirm(r)
       PROVE  TypeOK'
    <2>1. pc' \in [Req -> Steps]
      BY <1>0, <1>18, GotoType DEF Confirm, Raise, Steps, Gating, Holding, Returned
    <2>2. QED
      BY <1>0, <1>18, <2>1 DEF Confirm
  <1>19. ASSUME NEW c \in Cand, NEW d \in {"approved", "deferred"}, Decide(c, d)
       PROVE  TypeOK'
    <2>1. [decision |-> d, left |-> IF d = "approved" THEN ApprovalTicks ELSE 0]
             \in Decision
      OBVIOUS
    <2>2. approvals' \in [Cand -> Seq(Decision)]
      BY <1>19, <2>1 DEF Decide
    <2>3. QED
      BY <1>19, <2>2 DEF Decide
  <1>20. ASSUME NEW k \in Container, SetPaused(k)
       PROVE  TypeOK'
    BY <1>20 DEF SetPaused
  <1>21. ASSUME NEW c \in Cand, ScanCandidate(c)
       PROVE  TypeOK'
    BY <1>21 DEF ScanCandidate
  <1>22. CASE Tick
    <2>1. ASSUME NEW c \in Cand
          PROVE  [id \in DOMAIN approvals[c] |->
                    [approvals[c][id] EXCEPT !.left = Less(@)]] \in Seq(Decision)
      <3>1. ASSUME NEW id \in DOMAIN approvals[c]
            PROVE  [approvals[c][id] EXCEPT !.left = Less(@)] \in Decision
        <4>1. approvals[c] \in Seq(Decision)
          OBVIOUS
        <4> HIDE DEF TypeOK, Decision
        <4>2. approvals[c][id] \in Decision
          BY <4>1
        <4>3. QED
          BY <4>2, LessDecision
      <3>2. DOMAIN approvals[c] = 1 .. Len(approvals[c]) /\ Len(approvals[c]) \in Nat
        OBVIOUS
      <3> HIDE DEF TypeOK, Decision
      <3>3. QED
        BY <3>1, <3>2
    <2>2. approvals' \in [Cand -> Seq(Decision)]
      BY <1>22, <2>1 DEF Tick
    <2>3. leases' \subseteq Lease
      <3>1. ASSUME NEW l \in leases
            PROVE  [l EXCEPT !.left = Less(@)] \in Lease
        <4>1. l \in Lease
          OBVIOUS
        <4>2. QED
          BY <4>1, LessLease
      <3>2. QED
        BY <1>22, <3>1 DEF Tick
    <2>4. QED
      BY <1>22, <2>2, <2>3 DEF Tick
  <1>23. CASE Crash
    <2>1. pc' \in [Req -> Steps]
      BY <1>0, <1>23 DEF Crash, Steps, Returned
    <2>2. live' \in [Container -> Revision]
      BY <1>23 DEF Crash
    <2>3. QED
      BY <1>0, <1>23, <2>1, <2>2 DEF Crash
  <1>24. CASE UNCHANGED vars
    BY <1>24
  <1>25. QED
    BY <1>1, <1>2, <1>3, <1>4, <1>5, <1>6, <1>7, <1>8, <1>9, <1>10,
       <1>11, <1>12, <1>13, <1>14, <1>15, <1>16, <1>17, <1>18, <1>19,
       <1>20, <1>21, <1>22, <1>23, <1>24
    DEF Next, Step

---------------------------------------------------------------------------
\* Which actions can change what

HoldingKept == \A s \in Req : pc'[s] \in Holding => pc[s] \in Holding
ConfirmedKept == \A s \in Req : pc[s] # "idle" => confirmed'[s] = confirmed[s]
RunningKept ==
    \A s \in Req : /\ pc'[s] = "insert" => pc[s] = "insert"
                   /\ exec'[s] = "running" => exec[s] = "running"
ReplayKept == \A s \in Req : pc'[s] = "replayed" => pc[s] = "replayed"
OpsKept == \A o \in Operation : ops'[o] = "succeeded" => ops[o] = "succeeded"

Frame ==
    /\ cand' = cand /\ ConfirmedKept
    /\ HoldingKept \/ \E r \in Req : AcquireLease(r)
    /\ RunningKept \/ \E r \in Req : CheckRunning(r) \/ InsertExecution(r)
    /\ ReplayKept \/ \E r \in Req : GetOperation(r)
    /\ OpsKept \/ \E r \in Req : RecordOk(r)
    /\ applied' = applied \/ \E r \in Req : MutateOk(r)
    /\ leases' = leases \/ Tick \/ \E r \in Req : AcquireLease(r) \/ Release(r)

\* Every step leaves alone what is not its own to change.
LEMMA FrameStep ==
  ASSUME TypeOK, [Next]_vars
  PROVE  Frame
  <1>0. /\ pc \in [Req -> Steps]
        /\ exec \in [Req -> {"none", "running", "succeeded", "failed"}]
        /\ ops \in [Operation -> {"none", "leased", "succeeded", "failed"}]
        /\ confirmed \in [Req -> Revision]
    BY DEF TypeOK, Steps
  <1> USE <1>0 DEF Goto, Raise, Holding, db, host, locals, env
  <1>1. ASSUME NEW r \in Req, ReadCandidate(r)
       PROVE  Frame
    BY <1>1 DEF ReadCandidate, Frame, HoldingKept, RunningKept, ReplayKept, OpsKept, ConfirmedKept
  <1>2. ASSUME NEW r \in Req, ReadApproval(r)
       PROVE  Frame
    BY <1>2 DEF ReadApproval, Frame, HoldingKept, RunningKept, ReplayKept, OpsKept, ConfirmedKept
  <1>3. ASSUME NEW r \in Req, ReadControls(r)
       PROVE  Frame
    BY <1>3 DEF ReadControls, Frame, HoldingKept, RunningKept, ReplayKept, OpsKept, ConfirmedKept
  <1>4. ASSUME NEW r \in Req, GetOperation(r)
       PROVE  Frame
    <2>1. HoldingKept /\ RunningKept /\ OpsKept /\ ConfirmedKept
      BY <1>4 DEF GetOperation, HoldingKept, RunningKept, OpsKept, ConfirmedKept
    <2>2. cand' = cand /\ applied' = applied /\ leases' = leases
      BY <1>4 DEF GetOperation
    <2>3. QED
      BY <1>4, <2>1, <2>2 DEF Frame
  <1>5. ASSUME NEW r \in Req, AcquireLease(r)
       PROVE  Frame
    <2>1. RunningKept /\ ReplayKept /\ OpsKept /\ ConfirmedKept
      BY <1>5 DEF AcquireLease, RunningKept, ReplayKept, OpsKept, ConfirmedKept
    <2>2. cand' = cand /\ applied' = applied
      BY <1>5 DEF AcquireLease
    <2>3. QED
      BY <1>5, <2>1, <2>2 DEF Frame
  <1>6. ASSUME NEW r \in Req, CheckRunning(r)
       PROVE  Frame
    <2>1. HoldingKept /\ ReplayKept /\ OpsKept /\ ConfirmedKept
      BY <1>6 DEF CheckRunning, HoldingKept, ReplayKept, OpsKept, ConfirmedKept
    <2>2. cand' = cand /\ applied' = applied /\ leases' = leases
      BY <1>6 DEF CheckRunning
    <2>3. QED
      BY <1>6, <2>1, <2>2 DEF Frame
  <1>7. ASSUME NEW r \in Req, InsertExecution(r)
       PROVE  Frame
    <2>1. HoldingKept /\ ReplayKept /\ OpsKept /\ ConfirmedKept
      BY <1>7 DEF InsertExecution, HoldingKept, ReplayKept, OpsKept, ConfirmedKept
    <2>2. cand' = cand /\ applied' = applied /\ leases' = leases
      BY <1>7 DEF InsertExecution
    <2>3. QED
      BY <1>7, <2>1, <2>2 DEF Frame
  <1>8. ASSUME NEW r \in Req, Inspect(r)
       PROVE  Frame
    BY <1>8 DEF Inspect, Frame, HoldingKept, RunningKept, ReplayKept, OpsKept, ConfirmedKept
  <1>9. ASSUME NEW r \in Req, MutateOk(r)
       PROVE  Frame
    <2>1. HoldingKept /\ RunningKept /\ ReplayKept /\ OpsKept /\ ConfirmedKept
      BY <1>9 DEF MutateOk, HoldingKept, RunningKept, ReplayKept, OpsKept, ConfirmedKept
    <2>2. cand' = cand /\ leases' = leases
      BY <1>9 DEF MutateOk
    <2>3. QED
      BY <1>9, <2>1, <2>2 DEF Frame
  <1>10. ASSUME NEW r \in Req, MutateFail(r)
       PROVE  Frame
    BY <1>10 DEF MutateFail, Frame, HoldingKept, RunningKept, ReplayKept, OpsKept, ConfirmedKept
  <1>11. ASSUME NEW r \in Req, FinishOk(r)
       PROVE  Frame
    BY <1>11 DEF FinishOk, Frame, HoldingKept, RunningKept, ReplayKept, OpsKept, ConfirmedKept
  <1>12. ASSUME NEW r \in Req, RecordOk(r)
       PROVE  Frame
    <2>1. HoldingKept /\ RunningKept /\ ReplayKept /\ ConfirmedKept
      BY <1>12 DEF RecordOk, HoldingKept, RunningKept, ReplayKept, ConfirmedKept
    <2>2. cand' = cand /\ applied' = applied /\ leases' = leases
      BY <1>12 DEF RecordOk
    <2>3. QED
      BY <1>12, <2>1, <2>2 DEF Frame
  <1>13. ASSUME NEW r \in Req, AuditOk(r)
       PROVE  Frame
    BY <1>13 DEF AuditOk, Frame, HoldingKept, RunningKept, ReplayKept, OpsKept, ConfirmedKept
  <1>14. ASSUME NEW r \in Req, FailFinish(r)
       PROVE  Frame
    BY <1>14 DEF FailFinish, Frame, HoldingKept, RunningKept, ReplayKept, OpsKept, ConfirmedKept
  <1>15. ASSUME NEW r \in Req, FailRecord(r)
       PROVE  Frame
    BY <1>15 DEF FailRecord, Frame, HoldingKept, RunningKept, ReplayKept, OpsKept, ConfirmedKept
  <1>16. ASSUME NEW r \in Req, FailAudit(r)
       PROVE  Frame
    BY <1>16 DEF FailAudit, Frame, HoldingKept, RunningKept, ReplayKept, OpsKept, ConfirmedKept
  <1>17. ASSUME NEW r \in Req, Release(r)
       PROVE  Frame
    <2>1. HoldingKept /\ RunningKept /\ ReplayKept /\ OpsKept /\ ConfirmedKept
      BY <1>17 DEF Release, HoldingKept, RunningKept, ReplayKept, OpsKept, ConfirmedKept
    <2>2. cand' = cand /\ applied' = applied
      BY <1>17 DEF Release
    <2>3. QED
      BY <1>17, <2>1, <2>2 DEF Frame
  <1>18. ASSUME NEW r \in Req, Confirm(r)
       PROVE  Frame
    BY <1>18 DEF Confirm, Frame, HoldingKept, RunningKept, ReplayKept, OpsKept, ConfirmedKept
  <1>19. ASSUME NEW c \in Cand, NEW d \in {"approved", "deferred"}, Decide(c, d)
       PROVE  Frame
    BY <1>19 DEF Decide, Frame, HoldingKept, RunningKept, ReplayKept, OpsKept, ConfirmedKept
  <1>20. ASSUME NEW k \in Container, SetPaused(k)
       PROVE  Frame
    BY <1>20 DEF SetPaused, Frame, HoldingKept, RunningKept, ReplayKept, OpsKept, ConfirmedKept
  <1>21. ASSUME NEW c \in Cand, ScanCandidate(c)
       PROVE  Frame
    BY <1>21 DEF ScanCandidate, Frame, HoldingKept, RunningKept, ReplayKept, OpsKept, ConfirmedKept
  <1>22. CASE Tick
    <2>1. HoldingKept /\ RunningKept /\ ReplayKept /\ OpsKept /\ ConfirmedKept
      BY <1>22 DEF Tick, HoldingKept, RunningKept, ReplayKept, OpsKept, ConfirmedKept
    <2>2. cand' = cand /\ applied' = applied
      BY <1>22 DEF Tick
    <2>3. QED
      BY <1>22, <2>1, <2>2 DEF Frame
  <1>23. CASE Crash
    BY <1>23 DEF Crash, Frame, HoldingKept, RunningKept, ReplayKept, OpsKept, ConfirmedKept
  <1>24. CASE UNCHANGED vars
    BY <1>24 DEF vars, Frame, HoldingKept, RunningKept, ReplayKept, OpsKept, ConfirmedKept
  <1>25. QED
    BY <1>1, <1>2, <1>3, <1>4, <1>5, <1>6, <1>7, <1>8, <1>9, <1>10,
       <1>11, <1>12, <1>13, <1>14, <1>15, <1>16, <1>17, <1>18, <1>19,
       <1>20, <1>21, <1>22, <1>23, <1>24
    DEF Next, Step

---------------------------------------------------------------------------
\* What the requests know is preserved: only a request's own steps change its
\* row and its place in applied, and live revisions only grow.
LEMMA RequestStep ==
  ASSUME TypeOK, RequestInv, [Next]_vars
  PROVE  RequestInv'
  <1> USE ServiceAssumption
      DEF TypeOK, RequestInv, Revision, Holding, Gating, Returned, Op, K, Raise,
          Goto, db, host, locals, env, vars
  <1>1. ASSUME NEW r \in Req, ReadCandidate(r)
       PROVE  RequestInv'
    BY <1>1 DEF ReadCandidate
  <1>2. ASSUME NEW r \in Req, ReadApproval(r)
       PROVE  RequestInv'
    BY <1>2 DEF ReadApproval
  <1>3. ASSUME NEW r \in Req, ReadControls(r)
       PROVE  RequestInv'
    BY <1>3 DEF ReadControls
  <1>4. ASSUME NEW r \in Req, GetOperation(r)
       PROVE  RequestInv'
    BY <1>4 DEF GetOperation
  <1>5. ASSUME NEW r \in Req, AcquireLease(r)
       PROVE  RequestInv'
    BY <1>5 DEF AcquireLease
  <1>6. ASSUME NEW r \in Req, CheckRunning(r)
       PROVE  RequestInv'
    BY <1>6 DEF CheckRunning
  <1>7. ASSUME NEW r \in Req, InsertExecution(r)
       PROVE  RequestInv'
    BY <1>7 DEF InsertExecution
  <1>8. ASSUME NEW r \in Req, Inspect(r)
       PROVE  RequestInv'
    BY <1>8 DEF Inspect
  <1>9. ASSUME NEW r \in Req, MutateOk(r)
       PROVE  RequestInv'
    BY <1>9 DEF MutateOk
  <1>10. ASSUME NEW r \in Req, MutateFail(r)
       PROVE  RequestInv'
    <2>1. CASE UNCHANGED live
      BY <1>10, <2>1 DEF MutateFail
    <2>2. CASE live' = [live EXCEPT ![K(r)] = @ + 1]
      BY <1>10, <2>2 DEF MutateFail
    <2>3. QED
      BY <1>10, <2>1, <2>2 DEF MutateFail
  <1>11. ASSUME NEW r \in Req, FinishOk(r)
       PROVE  RequestInv'
    BY <1>11 DEF FinishOk
  <1>12. ASSUME NEW r \in Req, RecordOk(r)
       PROVE  RequestInv'
    BY <1>12 DEF RecordOk
  <1>13. ASSUME NEW r \in Req, AuditOk(r)
       PROVE  RequestInv'
    BY <1>13 DEF AuditOk
  <1>14. ASSUME NEW r \in Req, FailFinish(r)
       PROVE  RequestInv'
    BY <1>14 DEF FailFinish
  <1>15. ASSUME NEW r \in Req, FailRecord(r)
       PROVE  RequestInv'
    BY <1>15 DEF FailRecord
  <1>16. ASSUME NEW r \in Req, FailAudit(r)
       PROVE  RequestInv'
    BY <1>16 DEF FailAudit
  <1>17. ASSUME NEW r \in Req, Release(r)
       PROVE  RequestInv'
    BY <1>17 DEF Release
  <1>18. ASSUME NEW r \in Req, Confirm(r)
       PROVE  RequestInv'
    BY <1>18 DEF Confirm
  <1>19. ASSUME NEW c \in Cand, NEW d \in {"approved", "deferred"}, Decide(c, d)
       PROVE  RequestInv'
    BY <1>19 DEF Decide
  <1>20. ASSUME NEW k \in Container, SetPaused(k)
       PROVE  RequestInv'
    BY <1>20 DEF SetPaused
  <1>21. ASSUME NEW c \in Cand, ScanCandidate(c)
       PROVE  RequestInv'
    BY <1>21 DEF ScanCandidate
  <1>22. CASE Tick
    BY <1>22 DEF Tick
  <1>23. CASE Crash
    BY <1>23 DEF Crash
  <1>24. CASE UNCHANGED vars
    BY <1>24
  <1>25. QED
    BY <1>1, <1>2, <1>3, <1>4, <1>5, <1>6, <1>7, <1>8, <1>9, <1>10,
       <1>11, <1>12, <1>13, <1>14, <1>15, <1>16, <1>17, <1>18, <1>19,
       <1>20, <1>21, <1>22, <1>23, <1>24
    DEF Next, Step

\* The rows follow what happened as long as no database call raises.
LEMMA RowStep ==
  ASSUME TypeOK, RequestInv, RowInv, [Next]_vars
  PROVE  RowInv'
  <1>0. /\ pc \in [Req -> Steps]
        /\ exec \in [Req -> {"none", "running", "succeeded", "failed"}]
        /\ faults \in Nat
    BY DEF TypeOK, Steps
  <1> USE <1>0
      DEF RequestInv, RowInv, Gating, Raise, Goto, db, host, locals, env, vars
  <1>1. ASSUME NEW r \in Req, ReadCandidate(r)
       PROVE  RowInv'
    BY <1>1 DEF ReadCandidate
  <1>2. ASSUME NEW r \in Req, ReadApproval(r)
       PROVE  RowInv'
    BY <1>2 DEF ReadApproval
  <1>3. ASSUME NEW r \in Req, ReadControls(r)
       PROVE  RowInv'
    BY <1>3 DEF ReadControls
  <1>4. ASSUME NEW r \in Req, GetOperation(r)
       PROVE  RowInv'
    BY <1>4 DEF GetOperation
  <1>5. ASSUME NEW r \in Req, AcquireLease(r)
       PROVE  RowInv'
    BY <1>5 DEF AcquireLease
  <1>6. ASSUME NEW r \in Req, CheckRunning(r)
       PROVE  RowInv'
    BY <1>6 DEF CheckRunning
  <1>7. ASSUME NEW r \in Req, InsertExecution(r)
       PROVE  RowInv'
    <2>1. CASE UNCHANGED faults
      BY <1>7, <2>1 DEF InsertExecution
    <2>2. CASE faults' = faults + 1
      BY <1>7, <2>2 DEF InsertExecution
    <2>3. QED
      BY <1>7, <2>1, <2>2 DEF InsertExecution
  <1>8. ASSUME NEW r \in Req, Inspect(r)
       PROVE  RowInv'
    BY <1>8 DEF Inspect
  <1>9. ASSUME NEW r \in Req, MutateOk(r)
       PROVE  RowInv'
    BY <1>9 DEF MutateOk
  <1>10. ASSUME NEW r \in Req, MutateFail(r)
       PROVE  RowInv'
    BY <1>10 DEF MutateFail
  <1>11. ASSUME NEW r \in Req, FinishOk(r)
       PROVE  RowInv'
    BY <1>11 DEF FinishOk
  <1>12. ASSUME NEW r \in Req, RecordOk(r)
       PROVE  RowInv'
    BY <1>12 DEF RecordOk
  <1>13. ASSUME NEW r \in Req, AuditOk(r)
       PROVE  RowInv'
    BY <1>13 DEF AuditOk
  <1>14. ASSUME NEW r \in Req, FailFinish(r)
       PROVE  RowInv'
    <2>1. CASE UNCHANGED faults
      BY <1>14, <2>1 DEF FailFinish
    <2>2. CASE faults' = faults + 1
      BY <1>14, <2>2 DEF FailFinish
    <2>3. QED
      BY <1>14, <2>1, <2>2 DEF FailFinish
  <1>15. ASSUME NEW r \in Req, FailRecord(r)
       PROVE  RowInv'
    BY <1>15 DEF FailRecord
  <1>16. ASSUME NEW r \in Req, FailAudit(r)
       PROVE  RowInv'
    BY <1>16 DEF FailAudit
  <1>17. ASSUME NEW r \in Req, Release(r)
       PROVE  RowInv'
    BY <1>17 DEF Release
  <1>18. ASSUME NEW r \in Req, Confirm(r)
       PROVE  RowInv'
    BY <1>18 DEF Confirm
  <1>19. ASSUME NEW c \in Cand, NEW d \in {"approved", "deferred"}, Decide(c, d)
       PROVE  RowInv'
    BY <1>19 DEF Decide
  <1>20. ASSUME NEW k \in Container, SetPaused(k)
       PROVE  RowInv'
    BY <1>20 DEF SetPaused
  <1>21. ASSUME NEW c \in Cand, ScanCandidate(c)
       PROVE  RowInv'
    BY <1>21 DEF ScanCandidate
  <1>22. CASE Tick
    BY <1>22 DEF Tick
  <1>23. CASE Crash
    BY <1>23 DEF Crash
  <1>24. CASE UNCHANGED vars
    BY <1>24
  <1>25. QED
    BY <1>1, <1>2, <1>3, <1>4, <1>5, <1>6, <1>7, <1>8, <1>9, <1>10,
       <1>11, <1>12, <1>13, <1>14, <1>15, <1>16, <1>17, <1>18, <1>19,
       <1>20, <1>21, <1>22, <1>23, <1>24
    DEF Next, Step

\* An update succeeds only on the live revision that was confirmed for it, and
\* every earlier success of the same operation has moved it on.
LEMMA OnceStep ==
  ASSUME TypeOK, RequestInv, AppliedOnce, [Next]_vars
  PROVE  AppliedOnce'
  <1>1. \A s \in applied : Op(s)' = Op(s) /\ s \in Req
    BY FrameStep DEF Frame, ConfirmedKept, RequestInv, TypeOK, Op
  <1>2. CASE applied' = applied
    BY <1>1, <1>2 DEF AppliedOnce
  <1>3. ASSUME NEW r \in Req, MutateOk(r)
        PROVE  AppliedOnce'
    <2>1. applied' = applied \cup {r} /\ Op(r)' = Op(r)
      BY <1>3 DEF MutateOk, Op, locals
    <2>2. confirmed[r] = live[K(r)]
      BY <1>3 DEF MutateOk, RequestInv
    <2>3. ASSUME NEW s \in applied, Op(s) = Op(r)
          PROVE  FALSE
      <3>1. K(s) = K(r) /\ confirmed[s] = confirmed[r]
        BY <2>3 DEF Op, K
      <3>2. confirmed[s] < live[K(s)]
        BY <1>1 DEF RequestInv
      <3>3. confirmed[s] \in Nat
        BY <1>1 DEF TypeOK, Revision
      <3>4. QED
        BY <2>2, <3>1, <3>2, <3>3
    <2>4. QED
      BY <1>1, <2>1, <2>3 DEF AppliedOnce
  <1>4. QED
    BY <1>2, <1>3, FrameStep DEF Frame

\* A success is recorded only by a request that is in applied.
LEMMA ReplayStep ==
  ASSUME TypeOK, RequestInv, ReplayHonest, [Next]_vars
  PROVE  ReplayHonest'
  <1>1. \A s \in Req : s \in applied \/ pc[s] # "idle" => Op(s)' = Op(s)
    BY FrameStep DEF Frame, ConfirmedKept, RequestInv, Op
  <1>2. applied \subseteq applied' /\ applied \subseteq Req
    BY FrameStep DEF Frame, MutateOk, TypeOK
  <1>3. ASSUME NEW o \in Operation, ops'[o] = "succeeded"
        PROVE  \E s \in applied' : Op(s)' = o
    <2>1. CASE ops[o] = "succeeded"
      BY <1>1, <1>2, <2>1 DEF ReplayHonest
    <2>2. ASSUME NEW r \in Req, RecordOk(r), ops[o] # "succeeded"
          PROVE  \E s \in applied' : Op(s)' = o
      <3>1. r \in applied /\ pc[r] # "idle"
        BY <2>2 DEF RecordOk, RequestInv
      <3>2. o = Op(r)
        BY <1>3, <2>2 DEF RecordOk, TypeOK
      <3>3. QED
        BY <1>1, <1>2, <3>1, <3>2
    <2>3. QED
      BY <1>3, <2>1, <2>2, FrameStep DEF Frame, OpsKept
  <1>4. ASSUME NEW r \in Req, pc'[r] = "replayed"
        PROVE  \E s \in applied' : Op(s)' = Op(r)'
    <2>1. CASE pc[r] = "replayed"
      BY <1>1, <1>2, <2>1 DEF ReplayHonest
    <2>2. ASSUME NEW s \in Req, GetOperation(s), pc[r] # "replayed"
          PROVE  ops[Op(r)] = "succeeded" /\ pc[r] # "idle"
      BY <1>4, <2>2 DEF GetOperation, Goto, TypeOK
    <2>3. Op(r) \in Operation
      BY DEF TypeOK, Op, Operation
    <2>4. QED
      BY <1>1, <1>2, <1>4, <2>1, <2>2, <2>3, FrameStep DEF Frame, ReplayKept, ReplayHonest
  <1>5. QED
    BY <1>3, <1>4 DEF ReplayHonest

\* Leases of requests past the gate are kept, and none is given twice.
LEMMA LeaseStep ==
  ASSUME TypeOK, LeaseInv, [Next]_vars
  PROVE  LeaseInv'
  <1> SUFFICES ASSUME ~ AllowOverrun
               PROVE  LeaseInv'
    BY DEF LeaseInv
  <1>0. \A s \in Req : K(s)' = K(s) /\ (pc[s] \in Holding => Op(s)' = Op(s))
    BY FrameStep DEF Frame, ConfirmedKept, K, Op, Holding
  <1>1. CASE leases' = leases /\ HoldingKept
    BY <1>0, <1>1 DEF LeaseInv, HoldingKept
  <1>2. ASSUME NEW r \in Req, AcquireLease(r)
        PROVE  LeaseInv'
    <2>0. pc \in [Req -> Steps]
      BY DEF TypeOK, Steps
    <2>1. CASE UNCHANGED leases /\ Goto(r, "denied")
      BY <1>1, <2>0, <2>1 DEF HoldingKept, Goto, Holding
    <2>2. CASE /\ \A l \in Unexpired : l.container # K(r)
               /\ leases' = Unexpired \cup
                    {[op |-> Op(r), container |-> K(r), owner |-> Owner[r], left |-> LeaseTicks]}
               /\ Goto(r, "check")
      <3>1. \A s \in Req : s # r => pc'[s] = pc[s]
        BY <2>0, <2>2 DEF Goto
      <3>2. \A s \in Req : pc[s] \in Holding => K(s) # K(r)
        BY <2>2 DEF LeaseInv, Unexpired
      <3>3. Op(r)' = Op(r)
        BY <1>2 DEF AcquireLease, Op, locals
      <3>4. \E l \in leases' : /\ l.op = Op(r)' /\ l.container = K(r)'
                               /\ l.owner = Owner[r] /\ l.left > 0
        <4>1. LeaseTicks > 0
          BY ServiceAssumption
        <4> DEFINE given == [op |-> Op(r), container |-> K(r), owner |-> Owner[r],
                             left |-> LeaseTicks]
        <4>2. given \in leases' /\ given.op = Op(r) /\ given.container = K(r)
              /\ given.owner = Owner[r] /\ given.left = LeaseTicks
          BY <2>2
        <4> HIDE DEF given
        <4>3. QED
          BY <1>0, <3>3, <4>1, <4>2
      <3>5. ASSUME NEW s \in Req, s # r, pc'[s] \in Holding
            PROVE  \E l \in leases' : /\ l.op = Op(s)' /\ l.container = K(s)'
                                      /\ l.owner = Owner[s] /\ l.left > 0
        <4>1. pc[s] \in Holding
          BY <3>1, <3>5
        <4>2. PICK l \in leases : /\ l.op = Op(s) /\ l.container = K(s)
                                  /\ l.owner = Owner[s] /\ l.left > 0
          BY <4>1 DEF LeaseInv
        <4>3. l \in leases'
          BY <2>2, <4>2 DEF Unexpired
        <4>4. QED
          BY <1>0, <4>1, <4>2, <4>3
      <3>6. QED
        BY <1>0, <3>1, <3>2, <3>4, <3>5 DEF LeaseInv
    <2>3. QED
      BY <1>2, <2>1, <2>2 DEF AcquireLease
  <1>3. ASSUME NEW r \in Req, Release(r), HoldingKept
        PROVE  LeaseInv'
    <2>1. CASE UNCHANGED leases
      BY <1>1, <1>3, <2>1
    <2>2. CASE leases' = {l \in leases : ~ (l.op = Op(r) /\ l.owner = Owner[r])}
      <3>1. pc[r] \in Holding /\ pc'[r] \notin Holding
        BY <1>3, <2>2 DEF Release, Goto, Raise, Holding, TypeOK
      <3>2. \A s \in Req : pc'[s] \in Holding => pc[s] \in Holding /\ K(s) # K(r)
        BY <1>3, <3>1 DEF HoldingKept, LeaseInv
      <3>3. \A s \in Req : Op(s) = Op(r) => K(s) = K(r)
        BY DEF Op, K
      <3>4. QED
        BY <1>0, <2>2, <3>2, <3>3 DEF LeaseInv
    <2>3. QED
      BY <1>3, <2>1, <2>2 DEF Release
  <1>4. ASSUME Tick, HoldingKept
        PROVE  LeaseInv'
    <2>1. \A s \in Req : pc[s] \in Holding => \A l \in leases : l.op = Op(s) => l.left # 1
      BY <1>4 DEF Tick
    <2>2. leases \subseteq Lease /\ \A l \in leases : [l EXCEPT !.left = Less(@)] \in leases'
      BY <1>4 DEF Tick, TypeOK
    <2>3. ASSUME NEW s \in Req, pc'[s] \in Holding
          PROVE  \E l \in leases' : /\ l.op = Op(s)' /\ l.container = K(s)'
                                    /\ l.owner = Owner[s] /\ l.left > 0
      <3>1. pc[s] \in Holding
        BY <1>4, <2>3 DEF HoldingKept
      <3>2. PICK l \in leases : /\ l.op = Op(s) /\ l.container = K(s)
                                /\ l.owner = Owner[s] /\ l.left > 0
        BY <3>1 DEF LeaseInv
      <3>3. l.left \in Nat /\ l.left > 1 /\ l \in Lease
        BY <2>1, <2>2, <3>1, <3>2 DEF Lease
      <3>4. [l EXCEPT !.left = Less(@)].left > 0
        BY <3>3 DEF Less, Lease
      <3>5. QED
        BY <1>0, <2>2, <3>1, <3>2, <3>3, <3>4 DEF Lease
    <2>4. QED
      BY <1>0, <1>4, <2>3 DEF LeaseInv, HoldingKept
  <1>5. QED
    BY <1>1, <1>2, <1>3, <1>4, FrameStep DEF Frame

\* Between SELECT and INSERT of a request no other request of its container
\* inserts, as it holds no lease.
LEMMA RunningStep ==
  ASSUME TypeOK, LeaseInv, RunningInv, [Next]_vars
  PROVE  RunningInv'
  <1> SUFFICES ASSUME ~ AllowOverrun
               PROVE  RunningInv'
    BY DEF RunningInv
  <1>0. cand' = cand
    BY FrameStep DEF Frame
  <1>1. CASE RunningKept
    BY <1>0, <1>1 DEF RunningInv, OneRunningPerCandidate, RunningKept
  <1>2. ASSUME NEW r \in Req, CheckRunning(r)
        PROVE  RunningInv'
    <2>1. /\ exec' = exec /\ \A s \in Req : s # r => pc'[s] = pc[s]
          /\ pc'[r] = "insert" => \A s \in Req : cand[s] = cand[r] => exec[s] # "running"
      BY <1>2 DEF CheckRunning, Goto, Raise, TypeOK
    <2>2. QED
      BY <1>0, <2>1 DEF RunningInv, OneRunningPerCandidate
  <1>3. ASSUME NEW r \in Req, InsertExecution(r)
        PROVE  RunningInv'
    <2>1. /\ pc[r] = "insert" /\ pc'[r] # "insert"
          /\ \A s \in Req : s # r => pc'[s] = pc[s] /\ exec'[s] = exec[s]
      BY <1>3 DEF InsertExecution, Goto, Raise, TypeOK
    <2>2. \A s \in Req : pc[s] = "insert" /\ cand[s] = cand[r] => s = r
      BY <2>1 DEF LeaseInv, Holding, K
    <2>3. \A s \in Req : cand[s] = cand[r] => exec[s] # "running"
      BY <2>1 DEF RunningInv
    <2>4. QED
      BY <1>0, <2>1, <2>2, <2>3 DEF RunningInv, OneRunningPerCandidate
  <1>4. QED
    BY <1>1, <1>2, <1>3, FrameStep DEF Frame

---------------------------------------------------------------------------
\* The inductive invariant holds in every reachable state of the service.
LEMMA Invariance == Spec => []IInv
  <1>1. IInv /\ [Next]_vars => IInv'
    BY TypeStep, RequestStep, RowStep, OnceStep, ReplayStep, LeaseStep,
       RunningStep
    DEF IInv
  <1>2. QED
    BY InitInv, <1>1, PTL DEF Spec

\* Type correctness: tables and locals of execute keep their types.
THEOREM TypeCorrect == Spec => []TypeOK
  <1>1. IInv => TypeOK
    BY DEF IInv
  <1>2. QED
    BY <1>1, Invariance, PTL

\* As long as no execution outlives its lease, the per-container lease keeps
\* two requests from mutating one container (execution_gate.py:104-133).
THEOREM LeaseExcludes ==
  ASSUME ~ AllowOverrun
  PROVE  Spec => []ExclusiveMutation
  <1>1. IInv => ExclusiveMutation
    BY DEF IInv, LeaseInv, ExclusiveMutation, Holding
  <1>2. QED
    BY <1>1, Invariance, PTL

\* The lease also makes the check and the insertion of start_execution safe,
\* which are no transaction of their own (db.py:330-336).
THEOREM OneRunning ==
  ASSUME ~ AllowOverrun
  PROVE  Spec => []OneRunningPerCandidate
  <1>1. IInv => OneRunningPerCandidate
    BY DEF IInv, RunningInv
  <1>2. QED
    BY <1>1, Invariance, PTL

\* The comparison of live revisions makes a confirmed update happen at most
\* once, whether leases hold or not (docker_runtime.py:292-299).
THEOREM AtMostOnce == Spec => []AppliedOnce
  <1>1. IInv => AppliedOnce
    BY DEF IInv
  <1>2. QED
    BY <1>1, Invariance, PTL

\* Only the result of an update that happened is recorded and replayed.
THEOREM ReplayIsHonest == Spec => []ReplayHonest
  <1>1. IInv => ReplayHonest
    BY DEF IInv
  <1>2. QED
    BY <1>1, Invariance, PTL

\* Rows of returned requests tell what happened while the database works.
THEOREM RowsTellOutcome == Spec => []OutcomeRecorded
  <1>1. IInv => OutcomeRecorded
    BY DEF IInv, RequestInv, RowInv, OutcomeRecorded
  <1>2. QED
    BY <1>1, Invariance, PTL

---------------------------------------------------------------------------
\* Refinement: the service implements Confirmations.

\* What was asked stays; only Confirm adds to it.
LEMMA AskedStep ==
  ASSUME TypeOK, [Next]_vars
  PROVE  \/ Asked' = Asked
         \/ \E r \in Req : /\ Confirm(r) /\ r \notin Asking
                            /\ Asked' = [s \in Asking \cup {r} |->
                                           IF s = r THEN Op(r)' ELSE Asked[s]]
  <1>1. \A s \in Asking : Op(s)' = Op(s)
    BY FrameStep DEF Frame, ConfirmedKept, Asking, Op
  <1>2. CASE Asking' = Asking
    BY <1>1, <1>2 DEF Asked
  <1>3. ASSUME NEW r \in Req, Confirm(r)
        PROVE  r \notin Asking /\ Asking' = Asking \cup {r}
    BY <1>3 DEF Confirm, Goto, Asking, TypeOK
  <1>4. Asking' = Asking \/ \E r \in Req : Confirm(r)
    <2> USE DEF Asking, Goto, Raise, TypeOK
    <2>1. ASSUME NEW r \in Req, Step(r)
          PROVE  Asking' = Asking
      <3>1. pc[r] # "idle" /\ \E step : step # "idle" /\ pc' = [pc EXCEPT ![r] = step]
        <4>1. CASE ReadCandidate(r) \/ ReadApproval(r) \/ ReadControls(r) \/ GetOperation(r)
          BY <4>1 DEF ReadCandidate, ReadApproval, ReadControls, GetOperation
        <4>2. CASE AcquireLease(r) \/ CheckRunning(r) \/ InsertExecution(r) \/ Inspect(r)
          BY <4>2 DEF AcquireLease, CheckRunning, InsertExecution, Inspect
        <4>3. CASE MutateOk(r) \/ MutateFail(r) \/ FinishOk(r) \/ RecordOk(r) \/ AuditOk(r)
          BY <4>3 DEF MutateOk, MutateFail, FinishOk, RecordOk, AuditOk
        <4>4. CASE FailFinish(r) \/ FailRecord(r) \/ FailAudit(r) \/ Release(r)
          BY <4>4 DEF FailFinish, FailRecord, FailAudit, Release
        <4>5. QED
          BY <2>1, <4>1, <4>2, <4>3, <4>4 DEF Step
      <3>2. QED
        BY <3>1
    <2>2. CASE Crash
      BY <2>2 DEF Crash, Gating, Holding
    <2>3. CASE \/ \E c \in Cand : ScanCandidate(c) \/ \E d \in {"approved", "deferred"} : Decide(c, d)
               \/ \E k \in Container : SetPaused(k)
               \/ Tick \/ UNCHANGED vars
      BY <2>3 DEF ScanCandidate, Decide, SetPaused, Tick, vars
    <2>4. QED
      BY <2>1, <2>2, <2>3 DEF Next
  <1>5. QED
    BY <1>1, <1>2, <1>3, <1>4 DEF Asked

\* The names above are those of the refinement mapping.
LEMMA MappedStep ==
  ASSUME \/ \E r \in Req, o \in Operation :
              /\ r \notin DOMAIN Asked
              /\ Asked' = [s \in DOMAIN Asked \cup {r} |-> IF s = r THEN o ELSE Asked[s]]
              /\ UNCHANGED <<applied, Succeeded, Answered>>
         \/ \E r \in DOMAIN Asked :
              /\ Asked[r] \notin {Asked[s] : s \in applied}
              /\ applied' = applied \cup {r}
              /\ UNCHANGED <<Asked, Succeeded, Answered>>
         \/ \E r \in DOMAIN Asked :
              /\ Asked[r] \in {Asked[s] : s \in applied}
              /\ Answered' = Answered \cup {r}
              /\ UNCHANGED <<Asked, applied, Succeeded>>
         \/ \E o \in Operation :
              /\ o \in {Asked[s] : s \in applied}
              /\ Succeeded' = Succeeded \cup {o}
              /\ UNCHANGED <<Asked, applied, Answered>>
         \/ \E o \in Operation :
              /\ Succeeded' = Succeeded \ {o}
              /\ UNCHANGED <<Asked, applied, Answered>>
         \/ UNCHANGED <<Asked, applied, Succeeded, Answered>>
  PROVE  [Confirmed!Next]_<<Asked, applied, Succeeded, Answered>>
  BY DEF Confirmed!Next, Confirmed!Ask, Confirmed!Apply, Confirmed!Tell, Confirmed!Record,
     Confirmed!Retract, Confirmed!Done

\* Each step of the service is a step of the promise, or none.
LEMMA PromiseStep ==
  ASSUME IInv, [Next]_vars
  PROVE  [Confirmed!Next]_<<Asked, applied, Succeeded, Answered>>
  <1>0. /\ TypeOK /\ TypeOK' /\ RequestInv /\ AppliedOnce' /\ ReplayHonest
        /\ pc \in [Req -> Steps] /\ DOMAIN Asked = Asking
        /\ ops \in [Operation -> {"none", "leased", "succeeded", "failed"}]
    BY TypeStep, OnceStep DEF IInv, TypeOK, Asked, Steps
  <1>1. \A r \in Asking : Asked[r] = Op(r) /\ Op(r) \in Operation
    BY <1>0 DEF Asked, Asking, TypeOK, Op, Operation
  <1>2. applied \subseteq Asking
    BY <1>0 DEF RequestInv, Asking, TypeOK
  <1> USE DEF Goto, Raise
  <1>3. ASSUME NEW r \in Req, Confirm(r)
        PROVE  [Confirmed!Next]_<<Asked, applied, Succeeded, Answered>>
    <2>1. UNCHANGED <<applied, Succeeded, Answered>>
      BY <1>0, <1>3 DEF Confirm, Succeeded, Answered, host
    <2>2. Op(r)' \in Operation
      BY <1>0 DEF TypeOK, Op, Operation
    <2>3. r \notin Asking
      BY <1>3 DEF Confirm, Asking
    <2>4. Asked' # Asked
      <3>1. r \in Asking'
        BY <1>0, <1>3 DEF Confirm, Asking
      <3>2. DOMAIN Asked' = Asking'
        BY DEF Asked
      <3>3. QED
        BY <1>0, <2>3, <3>1, <3>2
    <2>5. \A s \in Req : Confirm(s) => s = r
      BY <1>0, <1>3 DEF Confirm
    <2>6. Asked' = [s \in Asking \cup {r} |-> IF s = r THEN Op(r)' ELSE Asked[s]]
      BY <1>0, <2>4, <2>5, AskedStep
    <2>7. QED
      BY <1>0, <2>1, <2>2, <2>3, <2>6, MappedStep
  <1>4. CASE Asked' = Asked
    <2>1. ASSUME NEW r \in Req, MutateOk(r)
          PROVE  [Confirmed!Next]_<<Asked, applied, Succeeded, Answered>>
      <3>1. /\ UNCHANGED <<Succeeded, Answered>> /\ applied' = applied \cup {r}
            /\ r \in Asking /\ r \notin applied
        BY <1>0, <2>1 DEF MutateOk, RequestInv, Asking, Succeeded, Answered, locals
      <3>2. \A s \in Asking : Op(s)' = Op(s)
        BY FrameStep, <1>0 DEF Frame, ConfirmedKept, Asking, Op
      <3>3. ASSUME NEW s \in applied, Asked[s] = Asked[r]
            PROVE  FALSE
        BY <1>0, <1>1, <1>2, <3>1, <3>2, <3>3 DEF AppliedOnce
      <3>4. QED
        BY <1>0, <1>4, <3>1, <3>3, MappedStep
    <2>2. ASSUME NEW r \in Req, GetOperation(r)
          PROVE  [Confirmed!Next]_<<Asked, applied, Succeeded, Answered>>
      <3>1. UNCHANGED <<Succeeded, applied>> /\ r \in Asking
        BY <1>0, <2>2 DEF GetOperation, Asking, Succeeded, host
      <3>2. CASE ops[Op(r)] # "succeeded"
        <4>1. Answered' = Answered
          BY <1>0, <2>2, <3>2 DEF GetOperation, Answered
        <4>2. QED
          BY <1>4, <3>1, <4>1, MappedStep
      <3>3. CASE ops[Op(r)] = "succeeded"
        <4>1. Answered' = Answered \cup {r}
          BY <1>0, <2>2, <3>3 DEF GetOperation, Answered
        <4>2. Asked[r] \in {Asked[s] : s \in applied}
          BY <1>0, <1>1, <1>2, <3>1, <3>3 DEF ReplayHonest
        <4>3. QED
          BY <1>0, <1>4, <3>1, <4>1, <4>2, MappedStep
      <3>4. QED
        BY <3>2, <3>3
    <2>3. ASSUME NEW r \in Req, Release(r)
          PROVE  [Confirmed!Next]_<<Asked, applied, Succeeded, Answered>>
      <3>1. UNCHANGED <<Succeeded, applied>> /\ r \in Asking
        BY <1>0, <2>3 DEF Release, Asking, Succeeded, host
      <3>2. Answered' = Answered \/ (pc[r] = "release_ok" /\ Answered' = Answered \cup {r})
        BY <1>0, <2>3 DEF Release, Answered
      <3>3. pc[r] = "release_ok" => Asked[r] \in {Asked[s] : s \in applied}
        BY <1>0 DEF RequestInv
      <3>4. QED
        BY <1>0, <1>4, <3>1, <3>2, <3>3, MappedStep
    <2>4. ASSUME NEW r \in Req, RecordOk(r)
          PROVE  [Confirmed!Next]_<<Asked, applied, Succeeded, Answered>>
      <3>1. UNCHANGED <<Answered, applied>> /\ r \in Asking
        BY <1>0, <2>4 DEF RecordOk, Asking, Answered, host
      <3>2. Op(r) \in Operation /\ r \in applied
        BY <1>0, <1>1, <2>4, <3>1 DEF RecordOk, RequestInv
      <3>3. Succeeded' = Succeeded \/ Succeeded' = Succeeded \cup {Op(r)}
        BY <1>0, <2>4, <3>2 DEF RecordOk, Succeeded
      <3>4. Op(r) \in {Asked[s] : s \in applied}
        BY <1>1, <3>1, <3>2
      <3>5. QED
        BY <1>4, <3>1, <3>2, <3>3, <3>4, MappedStep
    <2>5. ASSUME NEW r \in Req, FailRecord(r)
          PROVE  [Confirmed!Next]_<<Asked, applied, Succeeded, Answered>>
      <3>1. UNCHANGED <<Answered, applied>> /\ r \in Asking
        BY <1>0, <2>5 DEF FailRecord, Asking, Answered, host
      <3>2. Op(r) \in Operation
        BY <1>1, <3>1
      <3>3. Succeeded' = Succeeded \/ Succeeded' = Succeeded \ {Op(r)}
        BY <1>0, <2>5, <3>2 DEF FailRecord, Succeeded
      <3>4. QED
        BY <1>4, <3>1, <3>2, <3>3, MappedStep
    <2>6. ASSUME NEW r \in Req, AcquireLease(r)
          PROVE  UNCHANGED <<applied, Succeeded, Answered>>
      BY <1>0, <2>6 DEF AcquireLease, Succeeded, Answered, host
    <2>7. ASSUME NEW r \in Req,
                 \/ ReadCandidate(r) \/ ReadApproval(r) \/ ReadControls(r) \/ CheckRunning(r)
                 \/ InsertExecution(r) \/ Inspect(r) \/ MutateFail(r) \/ FinishOk(r)
                 \/ AuditOk(r) \/ FailFinish(r) \/ FailAudit(r)
          PROVE  UNCHANGED <<applied, Succeeded, Answered>>
      <3> USE <1>0 DEF Succeeded, Answered, host
      <3>1. CASE ReadCandidate(r) \/ ReadApproval(r) \/ ReadControls(r) \/ CheckRunning(r)
        BY <3>1 DEF ReadCandidate, ReadApproval, ReadControls, CheckRunning
      <3>2. CASE InsertExecution(r) \/ Inspect(r) \/ MutateFail(r) \/ FinishOk(r)
        BY <3>2 DEF InsertExecution, Inspect, MutateFail, FinishOk
      <3>3. CASE AuditOk(r) \/ FailFinish(r) \/ FailAudit(r)
        BY <3>3 DEF AuditOk, FailFinish, FailAudit
      <3>4. QED
        BY <2>7, <3>1, <3>2, <3>3
    <2>8. CASE \/ \E c \in Cand : ScanCandidate(c) \/ \E d \in {"approved", "deferred"} : Decide(c, d)
               \/ \E k \in Container : SetPaused(k)
               \/ Tick \/ Crash \/ UNCHANGED vars
      <3> SUFFICES UNCHANGED <<applied, Succeeded, Answered>>
        BY <1>4, MappedStep
      <3> USE <1>0 DEF Succeeded, Answered, host
      <3>1. CASE Crash
        BY <3>1 DEF Crash, Gating, Holding
      <3>2. CASE \/ \E c \in Cand : ScanCandidate(c) \/ \E d \in {"approved", "deferred"} : Decide(c, d)
                 \/ \E k \in Container : SetPaused(k)
                 \/ Tick \/ UNCHANGED vars
        BY <3>2 DEF ScanCandidate, Decide, SetPaused, Tick, vars
      <3>3. QED
        BY <2>8, <3>1, <3>2
    <2>9. QED
      BY <1>3, <1>4, <2>1, <2>2, <2>3, <2>4, <2>5, <2>6, <2>7, <2>8, MappedStep DEF Next, Step
  <1>5. QED
    BY <1>0, <1>3, <1>4, AskedStep

\* At first nothing is asked.
LEMMA PromiseInit == Init => Confirmed!Init
  <1>1. Init => Asking = {} /\ Succeeded = {} /\ Answered = {} /\ applied = {}
    BY DEF Init, Asking, Succeeded, Answered, Operation
  <1>2. Asking = {} => Asked = [r \in {} |-> 0]
    BY DEF Asked
  <1>3. QED
    BY <1>1, <1>2 DEF Confirmed!Init

\* Requests, leases, retries, faults and crashes together keep the promise of
\* Confirmations (execution_gate.py:104-133, service.py:227-290).
THEOREM ServiceKeepsPromise == Spec => AtMostOnceSpec
  <1>1. IInv /\ [Next]_vars => [Confirmed!Next]_<<Asked, applied, Succeeded, Answered>>
    BY PromiseStep
  <1>2. QED
    BY PromiseInit, <1>1, Invariance, PTL
    DEF Spec, AtMostOnceSpec, Confirmed!Spec

=============================================================================
