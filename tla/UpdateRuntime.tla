----------------------------- MODULE UpdateRuntime -----------------------------
(***************************************************************************)
(* docker_runtime.execute_update: one update of one container, from the    *)
(* page on which the operator confirms the live revision to the replaced   *)
(* container or the end of the rollback.  One action per Docker or file    *)
(* call, because between two of them the label editor (another thread of   *)
(* the same process), the operator, the containers themselves and other    *)
(* users of the Docker host may act.  The Docker daemon and the file       *)
(* system are external; they are modelled from the calls the code makes.   *)
(***************************************************************************)
EXTENDS Naturals, FiniteSets

CONSTANTS
    CurrentRef, TargetRef,  \* image references: the running one, the candidate
    OldImage,               \* image id of the running container
    Images,                 \* image ids TargetRef may resolve to
    MaxPolls,               \* health polls before giving up (12 in the code)
    MaxRefusals,            \* bound: calls that fail without taking effect
    MaxLostReplies,         \* bound: calls that take effect and still raise
    MaxHealthChanges,       \* bound: health changes of the containers
    MaxOperatorStops,       \* bound: containers stopped by the operator
    MaxTagMoves,            \* bound: pulls of TargetRef by others on the host
    MaxEdits,               \* bound: label edits of the template
    MayCrash                \* whether the updater process may die

NoImage == "no image"

ASSUME RuntimeAssumption ==
    /\ NoImage \notin Images
    /\ MaxPolls \in Nat \ {0}
    /\ MaxEdits \in Nat
    /\ MayCrash \in BOOLEAN

VARIABLES
    pc,         \* the next call of execute_update
    alive,      \* the updater process runs
    old, new,   \* the two containers: the original and its replacement
    tag,        \* image id TargetRef names in the local image store
    template,   \* the dockerMan template file
    parsed,     \* `tree` of replace_template_repository
    backup,     \* template.xml in the backup directory
    confirmed,  \* live revision the operator confirmed
    desired,    \* `desired_labels`
    targetId,   \* `target_id`
    after,      \* image id in the snapshot `after` that passed _healthy
    polls,      \* iterations of the health loop
    editor,     \* label editor: its position and the template it parsed
    edits, moves, stops, changes,  \* how often the environment has acted
    refused, lost                  \* the calls that failed, by kind

calls == <<refused, lost>>
env == <<tag, editor, edits, moves, stops, changes>>
files == <<template, parsed, backup>>
locals == <<confirmed, desired, targetId, after, polls>>
vars == <<pc, alive, old, new, files, locals, env, calls>>

---------------------------------------------------------------------------
\* Containers and files

Up == {"starting", "healthy", "unhealthy"}   \* Docker status "running"
Started == {"starting", "healthy"}           \* with and without a health check

RuntimeLabels == 0   \* version of the policy labels the container runs with

Template(repo, labels) == [repo |-> repo, labels |-> labels, whole |-> TRUE]
NoFile == [repo |-> CurrentRef, labels |-> 0, whole |-> FALSE]

\* LiveEvidence.revision: the live state and the template's hash.  Name and
\* image do not change while the original holds the name.
Revision == [up |-> old.run \in Up, template |-> template]

Forward == {"pull", "resolve", "stop", "rename", "parse", "replace", "create",
            "get", "reload", "start", "poll", "remove"}
Rollback == {"rb_remove", "rb_restore", "rb_restoring", "rb_reload",
             "rb_rename", "rb_start", "rb_check"}
Preflight == {"page", "inspect", "labels", "match", "backup", "prepared"}
Final == {"succeeded", "rolled_back", "rollback_failed", "blocked", "failed"}

\* Mutant of Handler: the rename stands outside the try block.
RenameOutsideTry(step) ==
    CASE step \in {"reload", "start", "poll", "remove"} -> "rb_remove"
      [] step = "rename" -> "failed"
      [] step \in Forward \ {"rename", "reload", "start", "poll", "remove"} -> "rb_restore"
      [] step \in Rollback -> "rollback_failed"
      [] step \in {"inspect", "labels"} -> "blocked"
      [] OTHER -> "failed"

\* Mutant of Handler: a rollback that fails is tried again.
RollbackRetried(step) ==
    CASE step \in {"reload", "start", "poll", "remove"} -> "rb_remove"
      [] step \in (Forward \cup Rollback) \ {"reload", "start", "poll", "remove"} -> "rb_restore"
      [] step \in {"inspect", "labels"} -> "blocked"
      [] OTHER -> "failed"

\* Where an exception of a call is handled.  `created` is assigned by "get",
\* so a failure up to and including it skips the removal.
Handler(step) ==
    CASE step \in {"reload", "start", "poll", "remove"} -> "rb_remove"
      [] step \in Forward \ {"reload", "start", "poll", "remove"} -> "rb_restore"
      [] step \in Rollback -> "rollback_failed"
      [] step \in {"inspect", "labels"} -> "blocked"
      [] OTHER -> "failed"

Init ==
    /\ pc = "page" /\ alive = TRUE
    /\ \E run \in Started \cup {"exited"} : old = [run |-> run, name |-> "live"]
    /\ new = [run |-> "none", image |-> NoImage]
    /\ tag \in Images
    /\ template = Template(CurrentRef, RuntimeLabels)
    /\ parsed = NoFile /\ backup = NoFile
    /\ confirmed = [up |-> FALSE, template |-> template]
    /\ desired = RuntimeLabels /\ targetId = NoImage /\ after = NoImage
    /\ polls = 0 /\ editor = [at |-> "idle", seen |-> template]
    /\ edits = 0 /\ moves = 0 /\ stops = 0 /\ changes = 0
    /\ refused = {} /\ lost = {}

---------------------------------------------------------------------------
\* One external call

At(step) == alive /\ pc = step

Raise(step) == pc' = Handler(step)

\* The call fails without taking effect.
Refused(step) ==
    /\ Cardinality(refused) < MaxRefusals
    /\ refused' = refused \cup {step}
    /\ Raise(step)
    /\ UNCHANGED <<old, new, lost>>

\* The call takes effect, but its reply is lost (the client's 180 s timeout).
LosesReply(step, oldAfter, newAfter) ==
    /\ Cardinality(lost) < MaxLostReplies
    /\ lost' = lost \cup {step}
    /\ old' = oldAfter /\ new' = newAfter
    /\ Raise(step)
    /\ UNCHANGED refused

\* A call of the Docker API; the daemon answers with an error when the call is
\* not possible in its state.
DockerCall(step, possible, oldAfter, newAfter, next) ==
    /\ At(step)
    /\ \/ /\ possible
          /\ old' = oldAfter /\ new' = newAfter /\ pc' = next
          /\ UNCHANGED calls
       \/ possible /\ LosesReply(step, oldAfter, newAfter)
       \/ ~possible /\ Raise(step) /\ UNCHANGED <<old, new, calls>>
       \/ Refused(step)

---------------------------------------------------------------------------
\* Checks before the mutation

ShowPage ==
    /\ At("page")
    /\ template.whole /\ template.repo = CurrentRef
    /\ confirmed' = Revision
    /\ pc' = "inspect"
    /\ UNCHANGED <<alive, old, new, files, desired, targetId, after, polls, env, calls>>

\* Mutant of LiveAsConfirmed: the state is compared, but not required.
LiveAsConfirmedOnly ==
    /\ template.repo = CurrentRef
    /\ Revision = confirmed
    /\ TargetRef # CurrentRef

LiveAsConfirmed ==
    /\ old.run \in Up
    /\ template.repo = CurrentRef
    /\ Revision = confirmed
    /\ TargetRef # CurrentRef

Inspect ==
    /\ At("inspect")
    /\ \/ LiveAsConfirmed /\ pc' = "labels" /\ UNCHANGED <<old, new, calls>>
       \/ ~LiveAsConfirmed /\ Raise("inspect") /\ UNCHANGED <<old, new, calls>>
       \/ Refused("inspect")
    /\ UNCHANGED <<alive, files, locals, env>>

\* template_labels reads the file a second time.
ReadLabels ==
    /\ At("labels")
    /\ desired' = template.labels
    /\ pc' = "match"
    /\ UNCHANGED <<alive, old, new, files, confirmed, targetId, after, polls, env, calls>>

\* Mutant of MatchLabels: the mutation starts without a backup.
MatchLabelsWithoutBackup ==
    /\ At("match")
    /\ \/ /\ pc' = IF desired = RuntimeLabels THEN "pull" ELSE "blocked"
          /\ UNCHANGED <<old, new, calls>>
       \/ Refused("match")
    /\ UNCHANGED <<alive, files, locals, env>>

MatchLabels ==
    /\ At("match")
    /\ \/ /\ pc' = IF desired = RuntimeLabels THEN "backup" ELSE "blocked"
          /\ UNCHANGED <<old, new, calls>>
       \/ Refused("match")
    /\ UNCHANGED <<alive, files, locals, env>>

\* Mutant of BackupEvidence: the template is not copied.
BackupWithoutTemplate ==
    /\ At("backup")
    /\ \/ pc' = "prepared" /\ UNCHANGED <<old, new, calls>>
       \/ Refused("backup")
    /\ UNCHANGED <<alive, files, locals, env>>

BackupEvidence ==
    /\ At("backup")
    /\ \/ backup' = template /\ pc' = "prepared" /\ UNCHANGED <<old, new, calls>>
       \/ Refused("backup") /\ UNCHANGED backup
    /\ UNCHANGED <<alive, template, parsed, locals, env>>

EnterTry ==
    /\ At("prepared")
    /\ pc' = "pull"
    /\ UNCHANGED <<alive, old, new, files, locals, env, calls>>

---------------------------------------------------------------------------
\* The mutation (the first `try`)

Pull ==
    /\ DockerCall("pull", TRUE, old, new, "resolve")
    /\ IF pc' = "resolve" THEN tag' \in Images ELSE UNCHANGED tag
    /\ UNCHANGED <<alive, files, locals, editor, edits, moves, stops, changes>>

Resolve ==
    /\ At("resolve")
    /\ \/ /\ targetId' = tag
          /\ pc' = IF tag = OldImage THEN Handler("resolve") ELSE "stop"
          /\ UNCHANGED <<old, new, calls>>
       \/ Refused("resolve") /\ UNCHANGED targetId
    /\ UNCHANGED <<alive, files, confirmed, desired, after, polls, env>>

\* Mutant of Stop: the original keeps running while it is renamed.
StopForgotten ==
    /\ DockerCall("stop", TRUE, old, new, "rename")
    /\ UNCHANGED <<alive, files, locals, env>>

Stop ==
    /\ DockerCall("stop", TRUE, [old EXCEPT !.run = "exited"], new, "rename")
    /\ UNCHANGED <<alive, files, locals, env>>

Rename ==
    /\ DockerCall("rename", TRUE, [old EXCEPT !.name = "held"], new, "parse")
    /\ UNCHANGED <<alive, files, locals, env>>

\* replace_template_repository, up to its os.replace.
ParseTemplate ==
    /\ At("parse")
    /\ \/ parsed' = template /\ pc' = "replace" /\ UNCHANGED <<old, new, calls>>
       \/ Refused("parse") /\ UNCHANGED parsed
    /\ UNCHANGED <<alive, template, backup, locals, env>>

\* Mutant of ReplaceTemplate: the tree is written before its text is assigned.
ReplaceBeforeAssignment ==
    /\ At("replace")
    /\ \/ template' = parsed /\ pc' = "create" /\ UNCHANGED <<old, new, calls>>
       \/ Refused("replace") /\ UNCHANGED template
    /\ UNCHANGED <<alive, parsed, backup, locals, env>>

ReplaceTemplate ==
    /\ At("replace")
    /\ \/ /\ template' = [parsed EXCEPT !.repo = TargetRef]
          /\ pc' = "create"
          /\ UNCHANGED <<old, new, calls>>
       \/ Refused("replace") /\ UNCHANGED template
    /\ UNCHANGED <<alive, parsed, backup, locals, env>>

\* The replacement gets the original's configuration, labels included.
Create ==
    /\ DockerCall("create", TRUE, old, [run |-> "created", image |-> tag], "get")
    /\ UNCHANGED <<alive, files, locals, env>>

\* Mutant of Get: the original is removed as soon as the replacement exists.
GetRemovesOld ==
    /\ DockerCall("get", TRUE, [old EXCEPT !.run = "gone"], new, "reload")
    /\ UNCHANGED <<alive, files, locals, env>>

Get ==
    /\ DockerCall("get", TRUE, old, new, "reload")
    /\ UNCHANGED <<alive, files, locals, env>>

ReloadCreated ==
    /\ DockerCall("reload", desired = RuntimeLabels, old, new, "start")
    /\ UNCHANGED <<alive, files, locals, env>>

Start ==
    /\ \E run \in Started :
         DockerCall("start", TRUE, old, [new EXCEPT !.run = run], "poll")
    /\ UNCHANGED <<alive, files, locals, env>>

\* Mutant of Poll: the loop runs once more than the bound.
PollOnceMore ==
    /\ At("poll")
    /\ \/ /\ new.run = "healthy"
          /\ after' = new.image
          /\ pc' = IF new.image = targetId THEN "remove" ELSE Handler("poll")
          /\ UNCHANGED <<old, new, polls, calls>>
       \/ /\ new.run # "healthy"
          /\ polls' = polls + 1
          /\ pc' = IF polls' <= MaxPolls THEN "poll" ELSE Handler("poll")
          /\ UNCHANGED <<old, new, after, calls>>
       \/ Refused("poll") /\ UNCHANGED <<after, polls>>
    /\ UNCHANGED <<alive, files, confirmed, desired, targetId, env>>

\* Mutant of Poll: the replacement's image is not compared.
PollWithoutIdentity ==
    /\ At("poll")
    /\ \/ /\ new.run = "healthy"
          /\ after' = new.image
          /\ pc' = "remove"
          /\ UNCHANGED <<old, new, polls, calls>>
       \/ /\ new.run # "healthy"
          /\ polls' = polls + 1
          /\ pc' = IF polls' < MaxPolls THEN "poll" ELSE Handler("poll")
          /\ UNCHANGED <<old, new, after, calls>>
       \/ Refused("poll") /\ UNCHANGED <<after, polls>>
    /\ UNCHANGED <<alive, files, confirmed, desired, targetId, env>>

\* One iteration of the health loop, with the identity check that follows it.
Poll ==
    /\ At("poll")
    /\ \/ /\ new.run = "healthy"
          /\ after' = new.image
          /\ pc' = IF new.image = targetId THEN "remove" ELSE Handler("poll")
          /\ UNCHANGED <<old, new, polls, calls>>
       \/ /\ new.run # "healthy"
          /\ polls' = polls + 1
          /\ pc' = IF polls' < MaxPolls THEN "poll" ELSE Handler("poll")
          /\ UNCHANGED <<old, new, after, calls>>
       \/ Refused("poll") /\ UNCHANGED <<after, polls>>
    /\ UNCHANGED <<alive, files, confirmed, desired, targetId, env>>

RemoveOld ==
    /\ DockerCall("remove", TRUE, [old EXCEPT !.run = "gone"], new, "succeeded")
    /\ UNCHANGED <<alive, files, locals, env>>

---------------------------------------------------------------------------
\* The rollback (the `except`); any failure ends it

RemoveCreated ==
    /\ DockerCall("rb_remove", new.run # "none", old,
                  [run |-> "none", image |-> NoImage], "rb_restore")
    /\ UNCHANGED <<alive, files, locals, env>>

\* Mutant of TruncateTemplate: the template is not restored.
RestoreForgotten ==
    /\ At("rb_restore")
    /\ pc' = "rb_reload"
    /\ UNCHANGED <<alive, old, new, calls, files, locals, env>>

\* shutil.copy2 truncates the template, then writes the saved one.
TruncateTemplate ==
    /\ At("rb_restore")
    /\ \/ /\ template' = [template EXCEPT !.whole = FALSE]
          /\ pc' = "rb_restoring"
          /\ UNCHANGED <<old, new, calls>>
       \/ Refused("rb_restore") /\ UNCHANGED template
    /\ UNCHANGED <<alive, parsed, backup, locals, env>>

\* Mutant of WriteTemplate: the new template is written back.
WriteNewTemplate ==
    /\ At("rb_restoring")
    /\ \/ /\ template' = [template EXCEPT !.whole = TRUE]
          /\ pc' = "rb_reload"
          /\ UNCHANGED <<old, new, calls>>
       \/ Refused("rb_restoring") /\ UNCHANGED template
    /\ UNCHANGED <<alive, parsed, backup, locals, env>>

\* A template replaced since the truncation is another file: the rest of the
\* copy goes to the unlinked one.
WriteTemplate ==
    /\ At("rb_restoring")
    /\ \/ /\ template' = IF template.whole THEN template ELSE backup
          /\ pc' = "rb_reload"
          /\ UNCHANGED <<old, new, calls>>
       \/ Refused("rb_restoring") /\ UNCHANGED template
    /\ UNCHANGED <<alive, parsed, backup, locals, env>>

ReloadOld ==
    /\ DockerCall("rb_reload", old.run # "gone", old, new, "rb_rename")
    /\ UNCHANGED <<alive, files, locals, env>>

\* The daemon refuses a name that is taken, and the container's own name.
RenameBack ==
    /\ DockerCall("rb_rename", old.name = "held" /\ new.run = "none",
                  [old EXCEPT !.name = "live"], new, "rb_start")
    /\ UNCHANGED <<alive, files, locals, env>>

StartOld ==
    /\ \E run \in Started :
         DockerCall("rb_start", TRUE, [old EXCEPT !.run = run], new, "rb_check")
    /\ UNCHANGED <<alive, files, locals, env>>

CheckOld ==
    /\ DockerCall("rb_check", old.run = "healthy", old, new, "rolled_back")
    /\ UNCHANGED <<alive, files, locals, env>>

UpdaterStep ==
    \/ ShowPage \/ Inspect \/ ReadLabels \/ MatchLabels \/ BackupEvidence
    \/ EnterTry
    \/ Pull \/ Resolve \/ Stop \/ Rename \/ ParseTemplate \/ ReplaceTemplate
    \/ Create \/ Get \/ ReloadCreated \/ Start \/ Poll \/ RemoveOld
    \/ RemoveCreated \/ TruncateTemplate \/ WriteTemplate \/ ReloadOld
    \/ RenameBack \/ StartOld \/ CheckOld

---------------------------------------------------------------------------
\* The environment

\* apply_policy_labels, up to its os.replace; a torn file does not parse.
EditorParse ==
    /\ alive /\ editor.at = "idle" /\ edits < MaxEdits
    /\ template.whole
    /\ editor' = [at |-> "parsed", seen |-> template]
    /\ UNCHANGED <<pc, alive, old, new, files, locals, tag, edits, moves, stops, changes, calls>>

EditorReplace ==
    /\ alive /\ editor.at = "parsed"
    /\ edits' = edits + 1
    /\ template' = [editor.seen EXCEPT !.labels = edits + 1]
    /\ editor' = [at |-> "idle", seen |-> editor.seen]
    /\ UNCHANGED <<pc, alive, old, new, parsed, backup, locals, tag, moves, stops, changes, calls>>

\* The operator stops whatever container has the name.
OperatorStop ==
    /\ stops < MaxOperatorStops
    /\ stops' = stops + 1
    /\ \/ /\ old.name = "live" /\ old.run \in Up
          /\ old' = [old EXCEPT !.run = "exited"] /\ UNCHANGED new
       \/ /\ new.run \in Up
          /\ new' = [new EXCEPT !.run = "exited"] /\ UNCHANGED old
    /\ UNCHANGED <<pc, alive, files, locals, tag, editor, edits, moves, changes, calls>>

\* A running container becomes healthy or unhealthy, or exits.
HealthChange ==
    /\ changes < MaxHealthChanges
    /\ changes' = changes + 1
    /\ \E run \in {"healthy", "unhealthy", "exited"} :
         \/ old.run \in Up \ {run} /\ old' = [old EXCEPT !.run = run] /\ UNCHANGED new
         \/ new.run \in Up \ {run} /\ new' = [new EXCEPT !.run = run] /\ UNCHANGED old
    /\ UNCHANGED <<pc, alive, files, locals, tag, editor, edits, moves, stops, calls>>

\* Another user of the host pulls TargetRef after its registry moved it.
TagMove ==
    /\ moves < MaxTagMoves
    /\ moves' = moves + 1
    /\ tag' \in Images \ {tag}
    /\ UNCHANGED <<pc, alive, old, new, files, locals, editor, edits, stops, changes, calls>>

Crash ==
    /\ MayCrash /\ alive /\ pc \notin Final
    /\ alive' = FALSE
    /\ UNCHANGED <<pc, old, new, files, locals, env, calls>>

Next ==
    \/ UpdaterStep
    \/ EditorParse \/ EditorReplace
    \/ OperatorStop \/ HealthChange \/ TagMove \/ Crash

Spec == Init /\ [][Next]_vars

\* The request thread runs until it returns; no other step is forced.
FairSpec == Spec /\ WF_vars(UpdaterStep)

---------------------------------------------------------------------------
\* Properties

TemplateFile ==
    [repo : {CurrentRef, TargetRef}, labels : 0 .. MaxEdits, whole : BOOLEAN]

\* Every variable of the model keeps its type (execute_update's locals, the two
\* containers, the template and its copies).
TypeOK ==
    /\ pc \in Preflight \cup Forward \cup Rollback \cup Final
    /\ alive \in BOOLEAN
    /\ old \in [run : Up \cup {"exited", "gone"}, name : {"live", "held"}]
    /\ new \in [run : Up \cup {"none", "created", "exited"},
                image : Images \cup {NoImage}]
    /\ tag \in Images
    /\ template \in TemplateFile /\ parsed \in TemplateFile /\ backup \in TemplateFile
    /\ confirmed \in [up : BOOLEAN, template : TemplateFile]
    /\ desired \in 0 .. MaxEdits
    /\ targetId \in Images \cup {NoImage} /\ after \in Images \cup {NoImage}
    /\ polls \in 0 .. MaxPolls
    /\ editor \in [at : {"idle", "parsed"}, seen : TemplateFile]
    /\ edits \in 0 .. MaxEdits
    /\ moves \in Nat /\ stops \in Nat /\ changes \in Nat
    /\ refused \subseteq Preflight \cup Forward \cup Rollback
    /\ lost \subseteq Forward \cup Rollback

\* The original is removed only for a replacement that was seen healthy and
\* runs the image the pull resolved to (old.remove after the checks of `after`).
OldRemovedOnlyForVerified ==
    old.run = "gone" =>
        /\ after # NoImage /\ after = targetId /\ targetId # OldImage
        /\ new.run # "none" => new.image = targetId

\* The original and its replacement never run at the same time, rollback and
\* lost replies included: they share volumes and ports.
NeverBothUp == ~ (old.run \in Up /\ new.run \in Up)

\* Unless a reply was lost, one of the two containers always exists.
SomeContainerKept == lost = {} => old.run # "gone" \/ new.run # "none"

\* "rollback=succeeded" is reported only with the original back under its name,
\* no replacement, and the saved template back unless a label edit replaced it.
RollbackHonest ==
    pc = "rolled_back" =>
        /\ old.name = "live" /\ old.run # "gone" /\ new.run = "none"
        /\ template.whole
        /\ edits = 0 => template = backup

\* "rollback=failed", with every call of the rollback accepted and no reply
\* lost, leaves the template restored and the original under its name, unless
\* the replacement was created and never found (client.containers.get failed).
RollbackFailureExplained ==
    pc = "rollback_failed" /\ lost = {} /\ refused \cap Rollback = {} =>
        /\ edits = 0 => template = backup
        /\ old.name = "live" \/ ("get" \in refused /\ new.run = "created")

\* "succeeded" is returned only with the original gone, the verified replacement
\* in place and the template at the target, unless a label edit replaced it.
SuccessConsistent ==
    pc = "succeeded" =>
        /\ old.run = "gone" /\ new.run # "none" /\ new.image = targetId
        /\ template.whole
        /\ edits = 0 => template = [backup EXCEPT !.repo = TargetRef]

\* Whenever the updater has changed something, even if it dies at that point,
\* the backup directory holds a whole template with the original reference.
MutationRecoverable ==
    \/ old.name = "held" \/ old.run = "gone" \/ new.run # "none"
    \/ ~ template.whole \/ template.repo # CurrentRef
    => backup.whole /\ backup.repo = CurrentRef

\* An update refused before the try block has touched neither the containers
\* nor the template's reference.
RefusalTouchesNothing ==
    pc \in {"blocked", "failed"} =>
        /\ old.name = "live" /\ new.run = "none"
        /\ template.whole /\ template.repo = CurrentRef
        /\ stops = 0 /\ changes = 0 => old.run \in Started \/ ~ confirmed.up

\* README.md:32, "Stopped containers are never updated or started": an update
\* confirmed while the container was down
\* leaves it down, under its name, and its template at the original reference.
StoppedLeftAlone ==
    pc # "page" /\ ~ confirmed.up =>
        /\ old.name = "live" /\ old.run = "exited" /\ new.run = "none"
        /\ template.whole /\ template.repo = CurrentRef

\* execute_update returns or raises unless its process dies.
Terminates == <>(pc \in Final \/ ~ alive)

\* The lifecycle state of the domain layer that each step stands for.
PhaseOf(step) ==
    CASE step = "page"                             -> "queued"
      [] step = "inspect"                          -> "claimed"
      [] step \in {"labels", "match", "backup"}    -> "preflight"
      [] step = "prepared"                         -> "backup_prepared"
      [] step \in {"start", "poll", "remove"}      -> "verifying"
      [] step \in Forward \ {"start", "poll", "remove"} -> "mutation_started"
      [] step \in Rollback                         -> "rollback_started"
      [] step = "rollback_failed"                  -> "needs_attention"
      [] OTHER                                     -> step

Lifecycle == INSTANCE ExecutionLifecycle WITH state <- PhaseOf(pc)

\* The runtime follows domain/state_machine.py's execution transition table.
LifecycleSpec == Lifecycle!Spec

\* docker_runtime.py:286, "retain instant rollback until success": when every
\* call of the rollback is accepted and the original's health is undisturbed,
\* the rollback ends with the original running.
RollbackRestores ==
    (/\ pc \in {"rolled_back", "rollback_failed"}
     /\ lost = {} /\ refused \cap Rollback = {} /\ changes = 0 /\ stops = 0)
    => old.run \in Up

\* docker_runtime.py:286 again: until success there is a container to return to.
SomeContainerAlwaysKept == old.run # "gone" \/ new.run # "none"

\* label_edit.py:151, "preserve everything else": a label edit does not change
\* the repository a successful update wrote.
LabelEditPreservesRepository ==
    pc = "succeeded" => template.repo = TargetRef

=============================================================================
