--------------------------- MODULE CandidateScanProofs ---------------------------
(***************************************************************************)
(* Theorems about CandidateScan, for every set of scans, containers and    *)
(* targets.                                                                *)
(***************************************************************************)
EXTENDS CandidateScan, TLAPS

---------------------------------------------------------------------------
\* The inductive invariant

ManualIdle == \A m \in Scan \ Scheduled : pc[m] = "idle"

\* A scheduled scan in progress owns the lock.
LockInv == \A s \in Scheduled : pc[s] \in Running => lock = s

\* What a scan has seen are rows of its own snapshot.
SeenOf(s) ==
    /\ pc[s] \in {"idle", "start", "controls"} => seen[s] = {}
    /\ pc[s] \in {"rows", "supersede"} =>
         \A r \in seen[s] : r.container \in Rows(s) /\ r = Normalized(s, r.container)
    /\ pc[s] = "supersede" =>
         row[s] \in Rows(s) /\ Normalized(s, row[s]) \in seen[s]
SeenInv == \A s \in Scan : SeenOf(s)

\* Without manual scans, what a scheduled scan has upserted stays active.
PublishInv ==
    ManualIdle =>
        \A s \in Scheduled : pc[s] \in {"rows", "supersede"} => seen[s] \subseteq Active

IInv == TypeOK /\ LockInv /\ SeenInv /\ PublishInv

---------------------------------------------------------------------------
\* A row with an update normalizes to a revision.
LEMMA NormalizedType ==
  ASSUME TypeOK, NEW s \in Scan, NEW k \in Rows(s)
  PROVE  Normalized(s, k) \in Revision
  <1>1. k \in Container /\ snapshot[s][k] \in Target
    BY DEF TypeOK, Rows
  <1>2. (snapshot[s][k] \in Eligible /\ k \notin held[s]) \in BOOLEAN
    OBVIOUS
  <1>3. QED
    BY <1>1, <1>2 DEF Normalized, Revision

\* A candidate that was upserted is active.
LEMMA FreshActive == \A r \in Revision : Fresh(r) \in ActiveStatus
  BY DEF Fresh, ActiveStatus

\* The initial states satisfy the inductive invariant.
LEMMA InitInv == Init => IInv
  BY ScanAssumption
  DEF Init, IInv, TypeOK, LockInv, SeenInv, SeenOf, PublishInv, Running,
      ActiveStatus

\* The types are preserved.
LEMMA TypeStep ==
  ASSUME TypeOK, [Next]_vars
  PROVE  TypeOK'
  <1> USE ScanAssumption
      DEF TypeOK, Running, Over, Goto, End, tables, process, env, vars
  <1>1. ASSUME NEW s \in Scan, Skip(s)
        PROVE  TypeOK'
    BY <1>1 DEF Skip
  <1>2. ASSUME NEW s \in Scan, Fetch(s)
        PROVE  TypeOK'
    BY <1>2 DEF Fetch
  <1>3. ASSUME NEW s \in Scan, StartScan(s)
        PROVE  TypeOK'
    BY <1>3 DEF StartScan
  <1>4. ASSUME NEW s \in Scan, ReadControls(s)
        PROVE  TypeOK'
    BY <1>4 DEF ReadControls
  <1>5. ASSUME NEW s \in Scan, UpsertCandidate(s)
        PROVE  TypeOK'
    <2>1. PICK k \in Rows(s) :
            /\ status' = [status EXCEPT ![Normalized(s, k)] = Fresh(Normalized(s, k))]
            /\ seen' = [seen EXCEPT ![s] = @ \cup {Normalized(s, k)}]
            /\ row' = [row EXCEPT ![s] = k]
      BY <1>5 DEF UpsertCandidate, Pending
    <2>2. Normalized(s, k) \in Revision
      BY NormalizedType
    <2>3. Fresh(Normalized(s, k)) \in ActiveStatus
      BY <2>2, FreshActive
    <2>4. k \in Container
      BY DEF Rows
    <2>5. status' \in [Revision -> ActiveStatus \cup {"none", "superseded", "resolved"}]
      BY <2>1, <2>2, <2>3
    <2>6. pc' \in [Scan -> {"idle"} \cup Running \cup Over]
      BY <1>5 DEF UpsertCandidate
    <2>7. seen' \in [Scan -> SUBSET Revision] /\ row' \in [Scan -> Container \cup {None}]
      BY <2>1, <2>2, <2>4
    <2>8. QED
      BY <1>5, <2>5, <2>6, <2>7 DEF UpsertCandidate
  <1>6. ASSUME NEW s \in Scan, Supersede(s)
        PROVE  TypeOK'
    BY <1>6 DEF Supersede
  <1>7. ASSUME NEW s \in Scan, ResolveMissing(s)
        PROVE  TypeOK'
    BY <1>7 DEF ResolveMissing
  <1>8. ASSUME NEW s \in Scan, FinishScan(s)
        PROVE  TypeOK'
    BY <1>8 DEF FinishScan
  <1>9. ASSUME NEW s \in Scan, Audit(s)
        PROVE  TypeOK'
    BY <1>9 DEF Audit
  <1>10. ASSUME NEW s \in Scan, FinishFailed(s)
         PROVE  TypeOK'
    BY <1>10 DEF FinishFailed
  <1>11. ASSUME NEW s \in Scan, Raise(s)
         PROVE  TypeOK'
    BY <1>11 DEF Raise
  <1>12. ASSUME NEW k \in Container, WudChange(k)
         PROVE  TypeOK'
    BY <1>12 DEF WudChange
  <1>13. ASSUME NEW k \in Container, SetPaused(k)
         PROVE  TypeOK'
    BY <1>13 DEF SetPaused
  <1>14. ASSUME NEW r \in Revision, Approve(r)
         PROVE  TypeOK'
    BY <1>14 DEF Approve
  <1>15. CASE Crash
    BY <1>15 DEF Crash
  <1>16. CASE UNCHANGED vars
    BY <1>16
  <1>17. QED
    BY <1>1, <1>2, <1>3, <1>4, <1>5, <1>6, <1>7, <1>8, <1>9, <1>10, <1>11,
       <1>12, <1>13, <1>14, <1>15, <1>16
    DEF Next, Step

\* Only a scan that finds the lock free starts, and only its owner frees it.
LEMMA LockStep ==
  ASSUME TypeOK, LockInv, [Next]_vars
  PROVE  LockInv'
  <1> USE ScanAssumption
      DEF LockInv, TypeOK, Running, Over, Goto, End, tables, process, env, vars
  <1>1. ASSUME NEW s \in Scan, Skip(s)
        PROVE  LockInv'
    BY <1>1 DEF Skip
  <1>2. ASSUME NEW s \in Scan, Fetch(s)
        PROVE  LockInv'
    BY <1>2 DEF Fetch
  <1>3. ASSUME NEW s \in Scan,
               \/ StartScan(s) \/ ReadControls(s) \/ UpsertCandidate(s)
               \/ Supersede(s) \/ ResolveMissing(s) \/ FinishScan(s)
        PROVE  LockInv'
    BY <1>3 DEF StartScan, ReadControls, UpsertCandidate, Supersede, ResolveMissing,
       FinishScan
  <1>4. ASSUME NEW s \in Scan, Audit(s) \/ FinishFailed(s) \/ Raise(s)
        PROVE  LockInv'
    BY <1>4 DEF Audit, FinishFailed, Raise
  <1>5. CASE Crash
    BY <1>5 DEF Crash
  <1>6. ASSUME \/ \E k \in Container : WudChange(k) \/ SetPaused(k)
               \/ \E r \in Revision : Approve(r)
               \/ UNCHANGED vars
        PROVE  LockInv'
    BY <1>6 DEF WudChange, SetPaused, Approve
  <1>7. QED
    BY <1>1, <1>2, <1>3, <1>4, <1>5, <1>6 DEF Next, Step

\* Scan s and its locals stay as they are.
Kept(s) ==
    /\ pc'[s] = pc[s] /\ seen'[s] = seen[s] /\ row'[s] = row[s]
    /\ snapshot'[s] = snapshot[s] /\ held'[s] = held[s]

\* A step of one scan leaves the locals of the others alone.
LEMMA KeptStep ==
  ASSUME TypeOK, NEW s \in Scan,
         \/ \E t \in Scan \ {s} : Skip(t) \/ Fetch(t) \/ Step(t) \/ Raise(t)
         \/ \E k \in Container : WudChange(k) \/ SetPaused(k)
         \/ \E r \in Revision : Approve(r)
         \/ UNCHANGED vars
  PROVE  Kept(s)
  <1> USE DEF TypeOK, Kept, Goto, End, tables, process, env, vars
  <1>1. ASSUME NEW t \in Scan \ {s}, Skip(t) \/ Fetch(t) \/ Raise(t)
        PROVE  Kept(s)
    BY <1>1 DEF Skip, Fetch, Raise
  <1>2. ASSUME NEW t \in Scan \ {s},
               StartScan(t) \/ ReadControls(t) \/ UpsertCandidate(t) \/ Supersede(t)
        PROVE  Kept(s)
    BY <1>2 DEF StartScan, ReadControls, UpsertCandidate, Supersede
  <1>3. ASSUME NEW t \in Scan \ {s},
               ResolveMissing(t) \/ FinishScan(t) \/ Audit(t) \/ FinishFailed(t)
        PROVE  Kept(s)
    BY <1>3 DEF ResolveMissing, FinishScan, Audit, FinishFailed
  <1>4. QED
    BY <1>1, <1>2, <1>3 DEF Step, WudChange, SetPaused, Approve

\* Rows and what they normalize to depend on snapshot and controls only.
LEMMA SameRows ==
  ASSUME NEW s \in Scan, snapshot'[s] = snapshot[s], held'[s] = held[s]
  PROVE  Rows(s)' = Rows(s) /\ \A k : Normalized(s, k)' = Normalized(s, k)
  BY DEF Rows, Normalized

\* A scan's snapshot and controls are settled before it sees its first row.
LEMMA SeenStep ==
  ASSUME TypeOK, SeenInv, [Next]_vars
  PROVE  SeenInv'
  <1> SUFFICES ASSUME NEW s \in Scan
               PROVE  SeenOf(s)'
    BY DEF SeenInv
  <1> USE DEF TypeOK, Goto, End
  <1>0. SeenOf(s)
    BY DEF SeenInv
  <1>1. ASSUME seen'[s] = seen[s], row'[s] = row[s], snapshot'[s] = snapshot[s],
               held'[s] = held[s],
               \/ pc'[s] = pc[s]
               \/ pc'[s] \notin {"idle", "start", "controls", "rows", "supersede"}
        PROVE  SeenOf(s)'
    BY <1>0, <1>1, SameRows DEF SeenOf
  <1>2. CASE Skip(s)
    BY <1>1, <1>2 DEF Skip
  <1>3. CASE Fetch(s)
    BY <1>0, <1>3 DEF Fetch, SeenOf
  <1>4. CASE StartScan(s)
    BY <1>0, <1>4 DEF StartScan, SeenOf
  <1>5. CASE ReadControls(s)
    BY <1>0, <1>5 DEF ReadControls, SeenOf
  <1>6. CASE UpsertCandidate(s)
    <2>1. PICK k \in Rows(s) :
            seen'[s] = seen[s] \cup {Normalized(s, k)} /\ row'[s] = k
      BY <1>6 DEF UpsertCandidate, Pending
    <2>2. Normalized(s, k).container = k
      BY DEF Normalized
    <2>3. /\ pc[s] = "rows" /\ pc'[s] \in {"rows", "supersede"}
          /\ snapshot'[s] = snapshot[s] /\ held'[s] = held[s]
      BY <1>6 DEF UpsertCandidate
    <2>4. QED
      BY <1>0, <2>1, <2>2, <2>3, SameRows DEF SeenOf
  <1>7. CASE Supersede(s)
    BY <1>0, <1>7, SameRows DEF Supersede, SeenOf
  <1>8. CASE ResolveMissing(s) \/ FinishScan(s)
    BY <1>1, <1>8 DEF ResolveMissing, FinishScan
  <1>9. CASE Audit(s) \/ FinishFailed(s) \/ Raise(s)
    BY <1>1, <1>9 DEF Audit, FinishFailed, Raise
  <1>10. CASE Crash
    BY <1>1, <1>10 DEF Crash
  <1>11. CASE Kept(s)
    BY <1>1, <1>11 DEF Kept
  <1>12. QED
    BY <1>2, <1>3, <1>4, <1>5, <1>6, <1>7, <1>8, <1>9, <1>10, <1>11, KeptStep
    DEF Next, Step

\* While a scheduled scan owns the lock and no manual scan runs, the statuses
\* change by its own steps only.
LEMMA StatusStep ==
  ASSUME TypeOK, LockInv, [Next]_vars, ManualIdle',
         NEW s \in Scheduled, pc[s] \in Running
  PROVE  \/ UpsertCandidate(s) \/ Supersede(s) \/ ResolveMissing(s)
         \/ status' = status
  <1> USE DEF TypeOK, Goto, End, tables, process, env, vars
  <1>1. ASSUME NEW t \in Scan, pc[t] \in Running, t # s
        PROVE  FALSE
    <2>1. t \notin Scheduled
      BY <1>1 DEF LockInv
    <2>2. ASSUME NEW m \in Scan, pc'[m] = "idle"
          PROVE  pc[m] = "idle"
      BY <2>2 DEF Next, Step, Skip, Fetch, StartScan, ReadControls, UpsertCandidate,
         Supersede, ResolveMissing, FinishScan, Audit, FinishFailed, Raise, WudChange,
         SetPaused, Approve, Crash
    <2>3. QED
      BY <1>1, <2>1, <2>2 DEF ManualIdle, Running
  <1>2. ASSUME NEW t \in Scan, UpsertCandidate(t) \/ Supersede(t) \/ ResolveMissing(t)
        PROVE  t = s
    BY <1>1, <1>2 DEF UpsertCandidate, Supersede, ResolveMissing, Running
  <1>3. QED
    BY <1>2 DEF Next, Step, Skip, Fetch, StartScan, ReadControls, FinishScan, Audit,
       FinishFailed, Raise, WudChange, SetPaused, Approve, Crash

\* What a scheduled scan upserts stays active until it resolves the others.
LEMMA PublishStep ==
  ASSUME TypeOK, LockInv, SeenInv, PublishInv, [Next]_vars
  PROVE  PublishInv'
  <1> SUFFICES ASSUME ManualIdle', NEW s \in Scheduled,
                      pc'[s] \in {"rows", "supersede"}
               PROVE  seen'[s] \subseteq Active'
    BY DEF PublishInv
  <1> USE ScanAssumption DEF Goto, End
  <1>0. s \in Scan /\ pc \in [Scan -> {"idle"} \cup Running \cup Over]
    BY DEF TypeOK
  <1>1. ManualIdle
    <2>1. ASSUME NEW m \in Scan, pc'[m] = "idle"
          PROVE  pc[m] = "idle"
      BY <2>1, <1>0 DEF Next, Step, Skip, Fetch, StartScan, ReadControls, UpsertCandidate,
         Supersede, ResolveMissing, FinishScan, Audit, FinishFailed, Raise, WudChange,
         SetPaused, Approve, Crash, vars, process
    <2>2. QED
      BY <2>1 DEF ManualIdle
  <1>2. CASE ReadControls(s)
    BY <1>0, <1>2 DEF ReadControls, SeenInv, SeenOf
  <1>3. CASE UpsertCandidate(s)
    <2>1. PICK k \in Rows(s) :
            /\ status' = [status EXCEPT ![Normalized(s, k)] = Fresh(Normalized(s, k))]
            /\ seen' = [seen EXCEPT ![s] = @ \cup {Normalized(s, k)}]
      BY <1>3 DEF UpsertCandidate, Pending
    <2>2. Normalized(s, k) \in Revision
      BY <1>0, NormalizedType
    <2>3. Fresh(Normalized(s, k)) \in ActiveStatus
      BY <2>2, FreshActive
    <2>4. Active \subseteq Active' /\ Normalized(s, k) \in Active'
      BY <2>1, <2>2, <2>3 DEF Active, TypeOK
    <2>5. seen[s] \subseteq Active
      BY <1>1, <1>3 DEF PublishInv, UpsertCandidate
    <2>6. seen'[s] = seen[s] \cup {Normalized(s, k)}
      BY <1>0, <2>1 DEF TypeOK
    <2>7. QED
      BY <2>4, <2>5, <2>6
  <1>4. CASE Supersede(s)
    <2>1. pc[s] = "supersede" /\ seen' = seen
      BY <1>4 DEF Supersede
    <2>2. seen[s] \subseteq Active
      BY <1>1, <2>1 DEF PublishInv
    <2>3. \A r \in seen[s] : r.container = row[s] => r = Normalized(s, row[s])
      BY <1>0, <2>1 DEF SeenInv, SeenOf
    <2>4. \A r \in seen[s] : status'[r] = status[r]
      BY <1>4, <2>2, <2>3 DEF Supersede, Active
    <2>5. QED
      BY <2>1, <2>2, <2>4 DEF Active
  <1>5. CASE /\ pc[s] \in {"rows", "supersede"} /\ seen'[s] = seen[s]
             /\ status' = status
    BY <1>1, <1>5 DEF PublishInv, Active
  <1>7. \/ ReadControls(s) \/ UpsertCandidate(s) \/ Supersede(s)
        \/ pc[s] \in {"rows", "supersede"} /\ seen'[s] = seen[s]
    <2>1. CASE Kept(s)
      BY <2>1 DEF Kept
    <2>2. CASE Skip(s) \/ Fetch(s) \/ StartScan(s) \/ ResolveMissing(s) \/ FinishScan(s)
      BY <1>0, <2>2 DEF Skip, Fetch, StartScan, ResolveMissing, FinishScan
    <2>3. CASE Audit(s) \/ FinishFailed(s) \/ Raise(s) \/ Crash
      BY <1>0, <2>3 DEF Audit, FinishFailed, Raise, Crash
    <2>4. QED
      BY <1>0, <2>1, <2>2, <2>3, KeptStep DEF Next, Step
  <1>8. pc[s] \in Running /\ ~ ResolveMissing(s)
    BY <1>0, <1>7 DEF ReadControls, UpsertCandidate, Supersede, ResolveMissing, Running
  <1>9. QED
    BY <1>2, <1>3, <1>4, <1>5, <1>7, <1>8, StatusStep

---------------------------------------------------------------------------
\* Scans that agree

\* Where a scan stands once it has read the controls, unless it fails or dies
Settled == {"rows", "supersede", "finish", "audit", "done"}

\* No scan has failed or died, and those that have read the controls have the
\* same rows and the same controls.
Agreed ==
    /\ \A s \in Scan : pc[s] \in {"idle", "skipped", "start", "controls"} \cup Settled
    /\ \A s, t \in Scan : pc[s] \in Settled /\ pc[t] \in Settled =>
          snapshot[s] = snapshot[t] /\ held[s] = held[t]

\* The candidates of the scan's rows
Candidates(s) == {Normalized(s, k) : k \in Rows(s)}

\* While the scans agree, none undoes what another has written.
AgreeInv ==
    Agreed => \A s \in Scan :
        /\ pc[s] \in {"rows", "supersede"} => seen[s] \subseteq Active
        /\ pc[s] \in {"finish", "audit", "done"} => Active = Candidates(s)

LEMMA SameCandidates ==
  ASSUME Agreed, NEW s \in Scan, NEW t \in Scan, pc[s] \in Settled, pc[t] \in Settled
  PROVE  Candidates(s) = Candidates(t)
  <1>1. snapshot[s] = snapshot[t] /\ held[s] = held[t]
    BY DEF Agreed
  <1>2. Rows(s) = Rows(t) /\ \A k : Normalized(s, k) = Normalized(t, k)
    BY <1>1 DEF Rows, Normalized
  <1>3. QED
    BY <1>2 DEF Candidates

\* How a step moves one scan, when no scan fails or dies with it.
LEMMA Moves ==
  ASSUME TypeOK, Agreed', [Next]_vars, NEW s \in Scan
  PROVE  \/ Kept(s)
         \/ pc[s] \in {"idle", "start"} /\ pc'[s] \in {"skipped", "start", "controls"}
         \/ ReadControls(s)
         \/ UpsertCandidate(s) \/ Supersede(s) \/ ResolveMissing(s)
         \/ /\ pc[s] \in {"finish", "audit"} /\ pc'[s] \in {"audit", "done"}
            /\ snapshot' = snapshot /\ held' = held /\ status' = status
  <1> USE DEF TypeOK, Goto, End, Settled
  <1>1. CASE Kept(s)
    BY <1>1
  <1>2. CASE Skip(s) \/ Fetch(s) \/ StartScan(s)
    BY <1>2 DEF Skip, Fetch, StartScan
  <1>3. CASE FinishScan(s) \/ Audit(s)
    BY <1>3 DEF FinishScan, Audit, tables
  <1>4. CASE FinishFailed(s) \/ Raise(s)
    BY <1>4 DEF FinishFailed, Raise, Agreed
  <1>5. CASE Crash
    BY <1>5 DEF Crash, Agreed, Kept
  <1>6. QED
    BY <1>1, <1>2, <1>3, <1>4, <1>5, KeptStep DEF Next, Step

\* Scans that agree have agreed before.
LEMMA AgreedBefore ==
  ASSUME TypeOK, Agreed', [Next]_vars
  PROVE  Agreed
  <1> USE DEF Settled
  <1>1. ASSUME NEW s \in Scan
        PROVE  /\ pc[s] \in {"idle", "skipped", "start", "controls"} \cup Settled
               /\ pc[s] \in Settled =>
                     pc'[s] \in Settled /\ snapshot'[s] = snapshot[s] /\ held'[s] = held[s]
    <2>1. CASE Kept(s)
      BY <2>1 DEF Agreed, Kept
    <2>2. CASE UpsertCandidate(s) \/ Supersede(s) \/ ResolveMissing(s)
      BY <2>2 DEF UpsertCandidate, Supersede, ResolveMissing, Goto, TypeOK
    <2>3. CASE ReadControls(s)
      BY <2>3 DEF ReadControls
    <2>4. QED
      BY <2>1, <2>2, <2>3, Moves
  <1>2. QED
    BY <1>1 DEF Agreed

\* The statuses are changed by three calls only.
LEMMA StatusWrites ==
  ASSUME [Next]_vars
  PROVE  \/ \E t \in Scan : UpsertCandidate(t) \/ Supersede(t) \/ ResolveMissing(t)
         \/ status' = status
  BY DEF Next, Step, Skip, Fetch, StartScan, ReadControls, FinishScan, Audit,
     FinishFailed, Raise, WudChange, SetPaused, Approve, Crash, tables, vars

\* What the three calls of a scan do to the candidates of scans it agrees with.
LEMMA AgreedWrites ==
  ASSUME TypeOK, SeenInv, AgreeInv, Agreed, NEW t \in Scan,
         UpsertCandidate(t) \/ Supersede(t) \/ ResolveMissing(t)
  PROVE  /\ pc[t] \in {"rows", "supersede"}
         /\ seen'[t] \subseteq Candidates(t)
         /\ Active \cap Candidates(t) \subseteq Active'
         /\ UpsertCandidate(t) => seen'[t] \subseteq Active'
         /\ ~ ResolveMissing(t) => Active' \subseteq Active \cup Candidates(t)
         /\ ResolveMissing(t) => Active' = Candidates(t)
  <1>1. /\ pc[t] \in {"rows", "supersede"}
        /\ seen[t] \subseteq Candidates(t) /\ seen[t] \subseteq Active
    BY DEF UpsertCandidate, Supersede, ResolveMissing, SeenInv, SeenOf, AgreeInv, Candidates
  <1>2. CASE UpsertCandidate(t)
    <2>1. PICK k \in Rows(t) :
            /\ status' = [status EXCEPT ![Normalized(t, k)] = Fresh(Normalized(t, k))]
            /\ seen' = [seen EXCEPT ![t] = @ \cup {Normalized(t, k)}]
      BY <1>2 DEF UpsertCandidate, Pending
    <2>2. Normalized(t, k) \in Revision /\ Normalized(t, k) \in Candidates(t)
      BY NormalizedType DEF Candidates
    <2>3. Fresh(Normalized(t, k)) \in ActiveStatus
      BY <2>2, FreshActive
    <2>4. Active' = Active \cup {Normalized(t, k)}
      BY <2>1, <2>2, <2>3 DEF Active, TypeOK
    <2>5. seen'[t] = seen[t] \cup {Normalized(t, k)}
      BY <2>1 DEF TypeOK
    <2>6. ~ ResolveMissing(t)
      BY <1>2, <2>1 DEF UpsertCandidate, ResolveMissing, Pending
    <2>7. QED
      BY <1>1, <2>2, <2>4, <2>5, <2>6
  <1>3. CASE Supersede(t)
    <2>1. pc[t] = "supersede" /\ seen' = seen
      BY <1>3 DEF Supersede
    <2>2. \A r \in Candidates(t) : r.container = row[t] => r = Normalized(t, row[t])
      BY DEF Candidates, Normalized
    <2>3. \A r \in Revision : status'[r] \in {status[r], "superseded"}
      BY <1>3 DEF Supersede
    <2>4. \A r \in Revision \cap Candidates(t) : status'[r] = status[r]
      BY <1>3, <2>2 DEF Supersede
    <2>5. Active' \subseteq Active /\ Active \cap Candidates(t) \subseteq Active'
      BY <2>3, <2>4 DEF Active, ActiveStatus
    <2>6. ~ ResolveMissing(t) /\ ~ UpsertCandidate(t)
      BY <2>1 DEF UpsertCandidate, ResolveMissing
    <2>7. QED
      BY <1>1, <2>1, <2>5, <2>6
  <1>4. CASE ResolveMissing(t)
    <2>1. Candidates(t) \subseteq seen[t] /\ seen' = seen
      BY <1>4 DEF ResolveMissing, Pending, Candidates
    <2>2. Active' = seen[t]
      <3>1. CASE seen[t] = {}
        BY <1>4, <3>1 DEF ResolveMissing, Active, ActiveStatus
      <3>2. CASE seen[t] # {}
        <4>1. \A r \in Revision : status'[r] = IF r \in Active \ seen[t]
                                               THEN "resolved" ELSE status[r]
          BY <1>4, <3>2 DEF ResolveMissing
        <4>2. QED
          BY <1>1, <4>1 DEF Active, ActiveStatus
      <3>3. QED
        BY <3>1, <3>2
    <2>3. Pending(t) = {} /\ ~ UpsertCandidate(t)
      BY <1>4 DEF ResolveMissing, UpsertCandidate
    <2>4. QED
      BY <1>1, <1>4, <2>1, <2>2, <2>3
  <1>5. QED
    BY <1>2, <1>3, <1>4

LEMMA AgreeStep ==
  ASSUME TypeOK, SeenInv, AgreeInv, [Next]_vars
  PROVE  AgreeInv'
  <1> SUFFICES ASSUME Agreed', NEW s \in Scan
               PROVE  /\ pc'[s] \in {"rows", "supersede"} => seen'[s] \subseteq Active'
                      /\ pc'[s] \in {"finish", "audit", "done"} => Active' = Candidates(s)'
    BY DEF AgreeInv
  <1>1. Agreed /\ SeenInv'
    BY AgreedBefore, SeenStep
  <1>2. /\ pc[s] \in {"rows", "supersede"} =>
              seen[s] \subseteq Active /\ seen[s] \subseteq Candidates(s)
        /\ pc[s] \in {"finish", "audit", "done"} => Active = Candidates(s)
    BY <1>1 DEF AgreeInv, SeenInv, SeenOf, Candidates
  \* The step of scan t on the table, as s sees it
  <1>3. ASSUME NEW t \in Scan, UpsertCandidate(t) \/ Supersede(t) \/ ResolveMissing(t),
               pc[s] \in Settled
        PROVE  /\ pc[s] \in {"rows", "supersede"} => seen[s] \subseteq Active'
               /\ pc[s] \in {"finish", "audit", "done"} => Active' = Candidates(s)
    <2>1. Candidates(s) = Candidates(t)
      BY <1>1, <1>3, AgreedWrites, SameCandidates DEF Settled
    <2>2. QED
      BY <1>1, <1>2, <1>3, <2>1, AgreedWrites
  <1>4. pc[s] \in Settled =>
          /\ pc[s] \in {"rows", "supersede"} => seen[s] \subseteq Active'
          /\ pc[s] \in {"finish", "audit", "done"} => Active' = Candidates(s)
    <2>1. CASE status' = status
      BY <1>2, <2>1 DEF Active
    <2>2. QED
      BY <1>3, <2>1, StatusWrites
  <1>5. CASE Kept(s)
    <2>1. Candidates(s)' = Candidates(s)
      BY <1>5, SameRows DEF Kept, Candidates
    <2>2. QED
      BY <1>4, <1>5, <2>1 DEF Kept, Settled
  <1>6. CASE pc[s] \in {"idle", "start"} /\ pc'[s] \in {"skipped", "start", "controls"}
    BY <1>6
  <1>7. CASE ReadControls(s)
    BY <1>7, <1>1 DEF ReadControls, SeenInv, SeenOf, Goto, TypeOK
  <1>8. CASE UpsertCandidate(s)
    BY <1>1, <1>8, AgreedWrites DEF UpsertCandidate, Goto, TypeOK
  <1>9. CASE Supersede(s)
    BY <1>4, <1>9 DEF Supersede, Goto, TypeOK, Settled
  <1>10. CASE ResolveMissing(s)
    <2>1. Candidates(s)' = Candidates(s)
      BY <1>10, SameRows DEF ResolveMissing, Candidates
    <2>2. QED
      BY <1>1, <1>10, <2>1, AgreedWrites DEF ResolveMissing, Goto, TypeOK
  <1>11. CASE /\ pc[s] \in {"finish", "audit"} /\ pc'[s] \in {"audit", "done"}
              /\ snapshot' = snapshot /\ held' = held /\ status' = status
    <2>1. Candidates(s)' = Candidates(s)
      BY <1>11, SameRows DEF Candidates
    <2>2. QED
      BY <1>4, <1>11, <2>1 DEF Settled
  <1>12. QED
    BY <1>5, <1>6, <1>7, <1>8, <1>9, <1>10, <1>11, Moves

---------------------------------------------------------------------------
\* The inductive invariant holds in every reachable state.
LEMMA Invariance == Spec => []IInv
  <1>1. IInv /\ [Next]_vars => IInv'
    BY TypeStep, LockStep, SeenStep, PublishStep DEF IInv
  <1>2. QED
    BY InitInv, <1>1, PTL DEF Spec

\* Type correctness: the tables and the locals of the scans keep their types.
THEOREM TypeCorrect == Spec => []TypeOK
  <1>1. IInv => TypeOK
    BY DEF IInv
  <1>2. QED
    BY <1>1, Invariance, PTL

\* The lock makes a scheduled scan publish its rows: those and no others are
\* active once it has resolved the missing candidates (service.py:108-127),
\* whatever scans before it left undone.
THEOREM ScheduledScanPublishes == Spec => ScanPublishes
  <1> DEFINE Publishes ==
        \A s \in Scheduled :
          (/\ pc[s] = "rows" /\ pc'[s] = "finish"
           /\ \A m \in Scan \ Scheduled : pc[m] = "idle") =>
             Active' = {Normalized(s, k) : k \in Rows(s)}
  <1>1. ASSUME IInv, [Next]_vars, NEW s \in Scheduled,
               pc[s] = "rows", pc'[s] = "finish", ManualIdle
        PROVE  Active' = {Normalized(s, k) : k \in Rows(s)}
    <2>1. s \in Scan /\ TypeOK
      BY <1>1, ScanAssumption DEF IInv
    <2>2. ResolveMissing(s)
      <3>1. ~ Kept(s)
        BY <1>1 DEF Kept
      <3>2. ~ Skip(s) /\ ~ Fetch(s) /\ ~ StartScan(s) /\ ~ ReadControls(s)
            /\ ~ Supersede(s) /\ ~ FinishScan(s) /\ ~ Audit(s) /\ ~ FinishFailed(s)
        BY <1>1 DEF Skip, Fetch, StartScan, ReadControls, Supersede, FinishScan, Audit,
           FinishFailed
      <3>3. ~ UpsertCandidate(s) /\ ~ Raise(s) /\ ~ Crash
        BY <1>1, <2>1 DEF UpsertCandidate, Raise, Crash, Goto, End, TypeOK
      <3>4. QED
        BY <1>1, <2>1, <3>1, <3>2, <3>3, KeptStep DEF Next, Step
    <2>3. seen[s] = {Normalized(s, k) : k \in Rows(s)}
      <3>1. \A k \in Rows(s) : Normalized(s, k) \in seen[s]
        BY <2>2 DEF ResolveMissing, Pending
      <3>2. \A r \in seen[s] : r.container \in Rows(s) /\ r = Normalized(s, r.container)
        BY <1>1, <2>1 DEF IInv, SeenInv, SeenOf
      <3>3. QED
        BY <3>1, <3>2
    <2>4. seen[s] \subseteq Active
      BY <1>1 DEF IInv, PublishInv
    <2>5. Active' = seen[s]
      <3>1. CASE seen[s] = {}
        BY <2>1, <2>2, <3>1 DEF ResolveMissing, Active, ActiveStatus
      <3>2. CASE seen[s] # {}
        <4>1. \A r \in Revision : status'[r] = IF r \in Active \ seen[s]
                                               THEN "resolved" ELSE status[r]
          BY <2>2, <3>2 DEF ResolveMissing
        <4>2. QED
          BY <2>4, <4>1 DEF Active, ActiveStatus
      <3>3. QED
        BY <3>1, <3>2
    <2>6. QED
      BY <2>3, <2>5
  <1>2. IInv /\ [Next]_vars => [Publishes]_vars
    BY <1>1 DEF ManualIdle
  <1>3. QED
    BY <1>2, Invariance, PTL DEF Spec, ScanPublishes

\* Scans that overlap without a common lock (web.py:564, scheduler.py:18) but have
\* read the same rows and controls leave exactly the candidates of those rows
\* active, in whatever order their calls meet.
THEOREM AgreementConverges == Spec => []AgreeingScansConverge
  <1>1. Init => AgreeInv
    BY DEF Init, AgreeInv
  <1>2. IInv /\ AgreeInv /\ [Next]_vars => AgreeInv'
    BY AgreeStep DEF IInv
  <1>3. IInv /\ AgreeInv => AgreeingScansConverge
    <2> SUFFICES ASSUME AgreeInv, NEW s \in Scan, pc[s] = "done",
                        \A o \in Scan : \/ pc[o] \in {"idle", "skipped"}
                                          \/ /\ pc[o] = "done"
                                             /\ snapshot[o] = snapshot[s] /\ held[o] = held[s]
                 PROVE  Active = {Normalized(s, k) : k \in Rows(s)}
      BY DEF AgreeingScansConverge
    <2>1. Agreed
      BY DEF Agreed, Settled
    <2>2. QED
      BY <2>1 DEF AgreeInv, Candidates
  <1>4. QED
    BY <1>1, <1>2, <1>3, Invariance, PTL DEF Spec

=============================================================================
