-------------------------- MODULE UpdateRuntimeProofs --------------------------
(***************************************************************************)
(* Proofs about UpdateRuntime for every value of its constants: however    *)
(* many calls fail or lose their reply, containers change their health,    *)
(* the operator stops containers, labels are edited and the process dies.  *)
(***************************************************************************)
EXTENDS UpdateRuntime, TLAPS

---------------------------------------------------------------------------
\* The inductive invariant

Untouched == Preflight \cup {"pull", "resolve", "stop", "blocked", "failed"}

\* Where the original is, and whether the replacement exists, at each step.
ContainersInv ==
    /\ pc \in Untouched =>
         old.name = "live" /\ old.run # "gone" /\ new.run = "none"
    /\ pc = "rename" =>
         old.name = "live" /\ old.run = "exited" /\ new.run = "none"
    /\ pc \in {"parse", "replace", "create"} =>
         old.name = "held" /\ old.run = "exited" /\ new.run = "none"
    /\ pc \in {"get", "reload", "start"} =>
         old.name = "held" /\ old.run = "exited" /\ new.run = "created"
    /\ pc \in {"poll", "remove"} =>
         old.name = "held" /\ old.run = "exited" /\ new.run \in Up \cup {"exited"}
    /\ pc = "succeeded" =>
         old.run = "gone" /\ new.run \in Up \cup {"exited"} /\ new.image = targetId
    /\ pc = "rb_remove" => old.run \in {"exited", "gone"} /\ new.run # "none"
    /\ pc \in {"rb_restore", "rb_restoring", "rb_reload", "rb_rename"} =>
         new.run \in {"none", "created"}
    /\ pc = "rb_rename" => old.run # "gone"
    /\ pc \in {"rb_start", "rb_check", "rolled_back"} =>
         old.name = "live" /\ old.run # "gone" /\ new.run = "none"

\* What relates the two containers at every step.
PairInv ==
    /\ old.run \in Up => new.run = "none"
    /\ old.run = "gone" => pc = "succeeded" \/ lost # {}
    /\ old.run = "gone" => after = targetId /\ targetId \in Images \ {OldImage}
    /\ old.run = "gone" /\ new.run # "none" => new.image = targetId

\* The images: what was resolved, created and seen healthy.
ImagesInv ==
    /\ pc \in Forward \ {"pull", "resolve"} => targetId \in Images \ {OldImage}
    /\ new.run # "none" => new.image \in Images
    /\ pc = "remove" => after = targetId /\ new.image = targetId

\* The health loop and the label editor stay within their bounds.
CountersInv ==
    /\ pc \in Preflight \cup (Forward \ {"poll", "remove"}) => polls = 0
    /\ pc = "poll" => polls < MaxPolls
    /\ editor.at = "parsed" => edits < MaxEdits

Restored == {"rb_reload", "rb_rename", "rb_start", "rb_check", "rolled_back"}
AfterBackup == {"prepared", "succeeded", "rolled_back", "rollback_failed"}
                   \cup Forward \cup Rollback
BeforeReplace == Preflight \cup {"pull", "resolve", "stop", "rename", "parse",
                                 "replace", "blocked", "failed"}

\* The template and its copies.
FilesInv ==
    /\ editor.seen.whole
    /\ template.whole \/ pc \in {"rb_restoring", "rollback_failed"}
    /\ pc = "replace" => parsed.whole
    /\ pc \in BeforeReplace =>
         template.repo = CurrentRef /\ editor.seen.repo = CurrentRef
    /\ pc \in AfterBackup => backup.whole /\ backup.repo = CurrentRef

\* The template's content when no label was edited since the update started.
UneditedInv ==
    edits = 0 =>
        /\ pc \in {"prepared"} \cup (BeforeReplace \cap Forward) \cup Restored =>
             template = backup
        /\ pc = "replace" => parsed = backup
        /\ pc \in {"create", "get", "reload", "start", "poll", "remove", "succeeded"} =>
             template = [backup EXCEPT !.repo = TargetRef]
        /\ pc = "rb_restoring" => ~ template.whole

\* Where nothing but the updater has stopped the confirmed original.
UndisturbedInv ==
    stops = 0 /\ changes = 0 =>
        /\ pc = "page" => old.run \in Started \cup {"exited"}
        /\ pc \in Untouched \ {"page"} => old.run \in Started \/ ~ confirmed.up

\* How a rollback without refused calls and lost replies can fail.
OrphanInv ==
    /\ (/\ pc \in {"rb_restore", "rb_restoring", "rb_reload", "rb_rename"}
        /\ lost = {} /\ new.run = "created") => "get" \in refused
    /\ RollbackFailureExplained

IInv ==
    /\ TypeOK /\ ContainersInv /\ PairInv /\ ImagesInv /\ CountersInv
    /\ FilesInv /\ UneditedInv /\ UndisturbedInv /\ OrphanInv

---------------------------------------------------------------------------
\* The initial states satisfy the inductive invariant.
LEMMA InitInv == Init => IInv
  BY RuntimeAssumption
  DEF Init, IInv, TypeOK, ContainersInv, PairInv, ImagesInv, CountersInv,
      FilesInv, UneditedInv, UndisturbedInv, OrphanInv,
          RollbackFailureExplained, Up, Started, Preflight, Forward, Rollback, Final,
      Template, TemplateFile, NoFile, RuntimeLabels, Untouched, Restored,
      AfterBackup, BeforeReplace

\* Every step of the updater and of its environment preserves it.
LEMMA NextInv ==
  ASSUME IInv, [Next]_vars
  PROVE  IInv'
  <1> USE RuntimeAssumption
      DEF IInv, TypeOK, ContainersInv, PairInv, ImagesInv, CountersInv,
          FilesInv, UneditedInv, UndisturbedInv, OrphanInv,
          RollbackFailureExplained, Untouched, Restored, AfterBackup, BeforeReplace,
          Up, Started, Preflight, Forward, Rollback, Final, TemplateFile,
          RuntimeLabels, At, Raise, Handler,
          vars, files, locals, env, calls
  <1>1. CASE ShowPage
    <2>1. confirmed' \in [up : BOOLEAN, template : TemplateFile]
      BY <1>1 DEF ShowPage, Revision
    <2>2. old.run \notin Up => ~ confirmed'.up
      BY <1>1 DEF ShowPage, Revision
    <2>3. QED
      BY <1>1, <2>1, <2>2 DEF ShowPage
  <1>2. CASE Inspect
    BY <1>2 DEF Inspect, Refused, LiveAsConfirmed
  <1>3. CASE ReadLabels
    BY <1>3 DEF ReadLabels
  <1>4. CASE MatchLabels
    BY <1>4 DEF MatchLabels, Refused
  <1>5. CASE BackupEvidence
    BY <1>5 DEF BackupEvidence, Refused
  <1>6. CASE EnterTry
    BY <1>6 DEF EnterTry
  <1>7. CASE Pull
    BY <1>7 DEF Pull, DockerCall, Refused, LosesReply
  <1>8. CASE Resolve
    BY <1>8 DEF Resolve, Refused
  <1>9. CASE Stop
    BY <1>9 DEF Stop, DockerCall, Refused, LosesReply
  <1>10. CASE Rename
    BY <1>10 DEF Rename, DockerCall, Refused, LosesReply
  <1>11. CASE ParseTemplate
    BY <1>11 DEF ParseTemplate, Refused
  <1>12. CASE ReplaceTemplate
    BY <1>12 DEF ReplaceTemplate, Refused
  <1>13. CASE Create
    BY <1>13 DEF Create, DockerCall, Refused, LosesReply
  <1>14. CASE Get
    BY <1>14 DEF Get, DockerCall, Refused, LosesReply
  <1>15. CASE ReloadCreated
    BY <1>15 DEF ReloadCreated, DockerCall, Refused, LosesReply
  <1>16. CASE Start
    BY <1>16 DEF Start, DockerCall, Refused, LosesReply
  <1>17. CASE Poll
    BY <1>17 DEF Poll, Refused
  <1>18. CASE RemoveOld
    BY <1>18 DEF RemoveOld, DockerCall, Refused, LosesReply
  <1>19. CASE RemoveCreated
    BY <1>19 DEF RemoveCreated, DockerCall, Refused, LosesReply
  <1>20. CASE TruncateTemplate
    <2>1. CASE Refused("rb_restore") /\ UNCHANGED template
      BY <1>20, <2>1 DEF TruncateTemplate, Refused
    <2>2. CASE /\ template' = [template EXCEPT !.whole = FALSE]
               /\ pc' = "rb_restoring" /\ UNCHANGED <<old, new, calls>>
      <3>1. template' \in TemplateFile /\ ~ template'.whole
        BY <2>2
      <3>2. QED
        BY <1>20, <2>2, <3>1 DEF TruncateTemplate
    <2>3. QED
      BY <1>20, <2>1, <2>2 DEF TruncateTemplate
  <1>21. CASE WriteTemplate
    BY <1>21 DEF WriteTemplate, Refused
  <1>22. CASE ReloadOld
    BY <1>22 DEF ReloadOld, DockerCall, Refused, LosesReply
  <1>23. CASE RenameBack
    BY <1>23 DEF RenameBack, DockerCall, Refused, LosesReply
  <1>24. CASE StartOld
    BY <1>24 DEF StartOld, DockerCall, Refused, LosesReply
  <1>25. CASE CheckOld
    BY <1>25 DEF CheckOld, DockerCall, Refused, LosesReply
  <1>26. CASE EditorParse
    BY <1>26 DEF EditorParse
  <1>27. CASE EditorReplace
    BY <1>27 DEF EditorReplace
  <1>28. CASE OperatorStop
    BY <1>28 DEF OperatorStop
  <1>29. CASE HealthChange
    BY <1>29 DEF HealthChange
  <1>30. CASE TagMove
    BY <1>30 DEF TagMove
  <1>31. CASE Crash
    <2>1. alive' = FALSE /\ UNCHANGED <<pc, old, new, files, locals, env, calls>>
      BY <1>31 DEF Crash
    <2>2. alive' \in BOOLEAN
      BY <2>1
    <2>3. QED
      BY <2>2, <1>31 DEF Crash
  <1>32. CASE UNCHANGED vars
    BY <1>32
  <1>33. QED
    BY <1>1, <1>2, <1>3, <1>4, <1>5, <1>6, <1>7, <1>8, <1>9, <1>10,
       <1>11, <1>12, <1>13, <1>14, <1>15, <1>16, <1>17, <1>18, <1>19,
       <1>20, <1>21, <1>22, <1>23, <1>24, <1>25, <1>26, <1>27, <1>28,
       <1>29, <1>30, <1>31, <1>32
    DEF Next, UpdaterStep

---------------------------------------------------------------------------
\* The inductive invariant holds in every reachable state of the runtime.
LEMMA Invariance == Spec => []IInv
  <1>1. IInv /\ [Next]_vars => IInv'
    BY NextInv
  <1>2. QED
    BY InitInv, <1>1, PTL DEF Spec

\* Type correctness: execute_update's locals and what it acts on keep their types.
THEOREM TypeCorrect == Spec => []TypeOK
  <1>1. IInv => TypeOK
    BY DEF IInv
  <1>2. QED
    BY <1>1, Invariance, PTL

\* The original is removed only for a replacement seen healthy that runs the
\* image the pull resolved to (docker_runtime.py:336-347).
THEOREM RemovalIsVerified == Spec => []OldRemovedOnlyForVerified
  <1>1. IInv => OldRemovedOnlyForVerified
    BY RuntimeAssumption DEF IInv, PairInv, OldRemovedOnlyForVerified
  <1>2. QED
    BY <1>1, Invariance, PTL

\* Original and replacement never run together, whatever calls fail.
THEOREM MutualExclusionOfContainers == Spec => []NeverBothUp
  <1>1. IInv => NeverBothUp
    BY DEF IInv, PairInv, NeverBothUp, Up
  <1>2. QED
    BY <1>1, Invariance, PTL

\* As long as no reply is lost, one of the containers exists at every step.
THEOREM ContainerSurvives == Spec => []SomeContainerKept
  <1>1. IInv => SomeContainerKept
    BY DEF IInv, PairInv, ContainersInv, SomeContainerKept, Up
  <1>2. QED
    BY <1>1, Invariance, PTL

\* A rollback reported as succeeded has restored container and template.
THEOREM RollbackIsHonest == Spec => []RollbackHonest
  <1>1. IInv => RollbackHonest
    BY DEF IInv, ContainersInv, FilesInv, UneditedInv, RollbackHonest, Restored
  <1>2. QED
    BY <1>1, Invariance, PTL

\* What a failed rollback leaves when none of its calls was refused.
THEOREM RollbackFailure == Spec => []RollbackFailureExplained
  <1>1. IInv => RollbackFailureExplained
    BY DEF IInv, OrphanInv
  <1>2. QED
    BY <1>1, Invariance, PTL

\* A successful update has replaced the container and the template's reference.
THEOREM SuccessIsConsistent == Spec => []SuccessConsistent
  <1>1. IInv => SuccessConsistent
    BY DEF IInv, ContainersInv, FilesInv, UneditedInv, SuccessConsistent, Up
  <1>2. QED
    BY <1>1, Invariance, PTL

\* At every point, a crash included, what was changed can be restored from the
\* backup directory.
THEOREM BackupBeforeMutation == Spec => []MutationRecoverable
  <1>1. ASSUME IInv PROVE MutationRecoverable
    <2>1. CASE pc \in AfterBackup
      BY <1>1, <2>1 DEF IInv, FilesInv, MutationRecoverable
    <2>2. CASE pc \in {"page", "inspect", "labels", "match", "backup", "blocked", "failed"}
      BY <1>1, <2>2 DEF IInv, TypeOK, ContainersInv, FilesInv, MutationRecoverable,
         Untouched, BeforeReplace, Preflight
    <2>3. QED
      BY <1>1, <2>1, <2>2 DEF IInv, TypeOK, AfterBackup, Preflight, Final
  <1>2. QED
    BY <1>1, Invariance, PTL

\* A refusal before the try block leaves containers and template as they were.
THEOREM RefusalIsHarmless == Spec => []RefusalTouchesNothing
  <1>1. IInv => RefusalTouchesNothing
    BY DEF IInv, ContainersInv, FilesInv, UndisturbedInv, RefusalTouchesNothing,
       Untouched, BeforeReplace
  <1>2. QED
    BY <1>1, Invariance, PTL

\* An update confirmed on a stopped container ends at the check of its state.
StoppedInv ==
    ~ confirmed.up /\ pc # "page" => pc \in {"inspect", "blocked"} /\ old.run = "exited"

\* No step takes it further, and nobody but the updater starts the container.
LEMMA StoppedStep ==
  ASSUME IInv, StoppedInv, [Next]_vars
  PROVE  StoppedInv'
  <1> USE DEF StoppedInv, files, locals, env, calls
  <1>1. CASE ShowPage
    <2>1. /\ old' = old /\ pc' = "inspect"
          /\ ~ confirmed'.up => old.run \notin Up
      BY <1>1 DEF ShowPage, Revision
    <2>2. old.run \in Up \cup {"exited"}
      BY <1>1 DEF ShowPage, At, IInv, TypeOK, ContainersInv, Untouched, Preflight
    <2>3. QED
      BY <2>1, <2>2
  <1>2. CASE Inspect
    <2>1. pc = "inspect" /\ confirmed' = confirmed /\ old' = old
      BY <1>2 DEF Inspect, At, Refused
    <2>2. (pc' = "labels" /\ LiveAsConfirmed) \/ pc' = "blocked"
      BY <1>2 DEF Inspect, Refused, Raise, Handler, Forward, Rollback
    <2>3. LiveAsConfirmed => confirmed.up
      <3>1. old.run \in Up => Revision.up
        BY DEF Revision
      <3>2. QED
        BY <3>1 DEF LiveAsConfirmed
    <2>4. QED
      BY <2>1, <2>2, <2>3
  <1>3. CASE pc \notin {"page", "inspect", "blocked"} /\ confirmed' = confirmed
    BY <1>3
  <1>4. CASE UpdaterStep /\ ~ ShowPage /\ ~ Inspect
    <2>1. pc \notin {"page", "inspect", "blocked"} /\ confirmed' = confirmed
      <3> USE DEF At, DockerCall
      <3>1. CASE ReadLabels \/ MatchLabels \/ BackupEvidence \/ EnterTry
        BY <3>1 DEF ReadLabels, MatchLabels, BackupEvidence, EnterTry
      <3>2. CASE Pull \/ Resolve \/ Stop \/ Rename \/ ParseTemplate \/ ReplaceTemplate
        BY <3>2 DEF Pull, Resolve, Stop, Rename, ParseTemplate, ReplaceTemplate
      <3>3. CASE Create \/ Get \/ ReloadCreated \/ Start \/ Poll \/ RemoveOld
        BY <3>3 DEF Create, Get, ReloadCreated, Start, Poll, RemoveOld
      <3>4. CASE \/ RemoveCreated \/ TruncateTemplate \/ WriteTemplate \/ ReloadOld
                 \/ RenameBack \/ StartOld \/ CheckOld
        BY <3>4 DEF RemoveCreated, TruncateTemplate, WriteTemplate, ReloadOld,
           RenameBack, StartOld, CheckOld
      <3>5. QED
        BY <1>4, <3>1, <3>2, <3>3, <3>4 DEF UpdaterStep
    <2>2. QED
      BY <1>3, <2>1
  <1>5. CASE EditorParse \/ EditorReplace \/ TagMove \/ Crash \/ UNCHANGED vars
    BY <1>5 DEF EditorParse, EditorReplace, TagMove, Crash, vars
  <1>6. CASE OperatorStop \/ HealthChange
    <2>1. UNCHANGED <<pc, confirmed>> /\ (old.run = "exited" => old' = old)
      BY <1>6 DEF OperatorStop, HealthChange, Up
    <2>2. QED
      BY <2>1
  <1>7. QED
    BY <1>1, <1>2, <1>4, <1>5, <1>6 DEF Next

\* A container that was down when its update was confirmed is neither updated
\* nor started (docker_runtime.py:300-303).
THEOREM StoppedIsLeftAlone == Spec => []StoppedLeftAlone
  <1>1. Init => StoppedInv
    BY DEF Init, StoppedInv
  <1>2. IInv /\ StoppedInv /\ [Next]_vars => StoppedInv'
    BY StoppedStep
  <1>3. IInv /\ StoppedInv => StoppedLeftAlone
    BY DEF IInv, ContainersInv, FilesInv, StoppedInv, StoppedLeftAlone, Untouched,
       BeforeReplace, Preflight
  <1>4. QED
    BY <1>1, <1>2, <1>3, Invariance, PTL DEF Spec

---------------------------------------------------------------------------
\* Refinement: each call maps to a transition of the domain layer's table, or
\* leaves the lifecycle state as it is.

Mutating == {"pull", "resolve", "stop", "rename", "parse", "replace", "create",
             "get", "reload"}
Verifying == {"start", "poll", "remove"}

\* The lifecycle state of every step.
LEMMA PhaseValues ==
  /\ PhaseOf("page") = "queued" /\ PhaseOf("inspect") = "claimed"
  /\ \A step \in {"labels", "match", "backup"} : PhaseOf(step) = "preflight"
  /\ PhaseOf("prepared") = "backup_prepared"
  /\ \A step \in Mutating : PhaseOf(step) = "mutation_started"
  /\ \A step \in Verifying : PhaseOf(step) = "verifying"
  /\ \A step \in Rollback : PhaseOf(step) = "rollback_started"
  /\ PhaseOf("rollback_failed") = "needs_attention"
  /\ \A step \in {"succeeded", "rolled_back", "blocked", "failed"} : PhaseOf(step) = step
  BY DEF PhaseOf, Mutating, Verifying, Forward, Rollback

\* The transitions of the table that the runtime takes.
LEMMA PhaseTransitions ==
  ASSUME \/ PhaseOf(pc) = "queued" /\ PhaseOf(pc)' = "claimed"
         \/ PhaseOf(pc) = "claimed" /\ PhaseOf(pc)' \in {"preflight", "blocked"}
         \/ PhaseOf(pc) = "preflight"
              /\ PhaseOf(pc)' \in {"backup_prepared", "blocked", "failed"}
         \/ PhaseOf(pc) = "backup_prepared" /\ PhaseOf(pc)' = "mutation_started"
         \/ PhaseOf(pc) = "mutation_started"
              /\ PhaseOf(pc)' \in {"verifying", "rollback_started"}
         \/ PhaseOf(pc) = "verifying" /\ PhaseOf(pc)' \in {"succeeded", "rollback_started"}
         \/ PhaseOf(pc) = "rollback_started"
              /\ PhaseOf(pc)' \in {"rolled_back", "needs_attention"}
         \/ PhaseOf(pc)' = PhaseOf(pc)
  PROVE  [Lifecycle!Next]_(PhaseOf(pc))
  BY DEF Lifecycle!Next, Lifecycle!Transition, Lifecycle!Allowed, Lifecycle!ExecutionState

\* An execution starts queued.
LEMMA LifecycleInit == Init => Lifecycle!Init
  BY PhaseValues DEF Init, Lifecycle!Init

\* Every step takes a transition of the table or stays in its state.
LEMMA LifecycleStep ==
  ASSUME [Next]_vars
  PROVE  [Lifecycle!Next]_(PhaseOf(pc))
  <1> USE DEF At, Raise, Handler
  <1>1. CASE ShowPage \/ Inspect \/ ReadLabels \/ MatchLabels \/ BackupEvidence \/ EnterTry
    <2>1. \/ pc = "page" /\ pc' = "inspect"
          \/ pc = "inspect" /\ pc' \in {"labels", "blocked"}
          \/ pc = "labels" /\ pc' = "match"
          \/ pc = "match" /\ pc' \in {"backup", "blocked", "failed"}
          \/ pc = "backup" /\ pc' \in {"prepared", "failed"}
          \/ pc = "prepared" /\ pc' = "pull"
      BY <1>1 DEF ShowPage, Inspect, ReadLabels, MatchLabels, BackupEvidence, EnterTry,
         Refused, Forward, Rollback
    <2>2. QED
      BY <2>1, PhaseValues, PhaseTransitions DEF Mutating
  <1>2. CASE \/ Pull \/ Resolve \/ Stop \/ Rename \/ ParseTemplate \/ ReplaceTemplate
             \/ Create \/ Get \/ ReloadCreated
    <2>1. pc \in Mutating /\ pc' \in Mutating \cup {"start", "rb_remove", "rb_restore"}
      <3> USE DEF Mutating, Forward, Rollback, DockerCall, LosesReply, Refused
      <3>1. CASE Pull \/ Resolve \/ Stop
        BY <3>1 DEF Pull, Resolve, Stop
      <3>2. CASE Rename \/ ParseTemplate \/ ReplaceTemplate
        BY <3>2 DEF Rename, ParseTemplate, ReplaceTemplate
      <3>3. CASE Create \/ Get \/ ReloadCreated
        BY <3>3 DEF Create, Get, ReloadCreated
      <3>4. QED
        BY <1>2, <3>1, <3>2, <3>3
    <2>2. QED
      BY <2>1, PhaseValues, PhaseTransitions DEF Verifying, Rollback
  <1>3. CASE Start \/ Poll \/ RemoveOld
    <2>1. pc \in Verifying /\ pc' \in Verifying \cup {"succeeded", "rb_remove"}
      <3> USE DEF Verifying, Forward, Rollback, DockerCall, LosesReply, Refused
      <3>1. CASE Start
        BY <3>1 DEF Start
      <3>2. CASE Poll
        BY <3>2 DEF Poll
      <3>3. CASE RemoveOld
        BY <3>3 DEF RemoveOld
      <3>4. QED
        BY <1>3, <3>1, <3>2, <3>3
    <2>2. QED
      BY <2>1, PhaseValues, PhaseTransitions DEF Rollback
  <1>4. CASE \/ RemoveCreated \/ TruncateTemplate \/ WriteTemplate \/ ReloadOld
             \/ RenameBack \/ StartOld \/ CheckOld
    <2>1. pc \in Rollback /\ pc' \in Rollback \cup {"rolled_back", "rollback_failed"}
      <3> USE DEF Forward, Rollback, DockerCall, LosesReply, Refused
      <3>1. CASE RemoveCreated \/ TruncateTemplate \/ WriteTemplate
        BY <3>1 DEF RemoveCreated, TruncateTemplate, WriteTemplate
      <3>2. CASE ReloadOld \/ RenameBack
        BY <3>2 DEF ReloadOld, RenameBack
      <3>3. CASE StartOld \/ CheckOld
        BY <3>3 DEF StartOld, CheckOld
      <3>4. QED
        BY <1>4, <3>1, <3>2, <3>3
    <2>2. QED
      BY <2>1, PhaseValues, PhaseTransitions
  <1>5. CASE \/ EditorParse \/ EditorReplace \/ OperatorStop \/ HealthChange
             \/ TagMove \/ Crash \/ UNCHANGED vars
    <2>1. UNCHANGED pc
      BY <1>5 DEF EditorParse, EditorReplace, OperatorStop, HealthChange, TagMove, Crash, vars
    <2>2. QED
      BY <2>1, PhaseTransitions
  <1>6. QED
    BY <1>1, <1>2, <1>3, <1>4, <1>5 DEF Next, UpdaterStep

\* The runtime implements ExecutionLifecycle (domain/state_machine.py:46-54).
THEOREM RuntimeFollowsLifecycle == Spec => LifecycleSpec
  <1>1. [Next]_vars => [Lifecycle!Next]_(PhaseOf(pc))
    BY LifecycleStep
  <1>2. QED
    BY LifecycleInit, <1>1, PTL DEF Spec, LifecycleSpec, Lifecycle!Spec

=============================================================================
