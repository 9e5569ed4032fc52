# Container Updater in TLA+

A model of the updater in `src/unraid_updater`: the update of a container with
its rollback, the service that lets requests execute updates, the scans that turn
WUD's reports into candidates, the policy that decides which candidates an
operator may approve, the label editor and the audit trail, and how long releases are
held. TLC checks each module on a small instance; TLAPS proves the
most important properties for every value of the constants. Paths below are
relative to `src/unraid_updater` unless they start with `docs/` or are `README.md`.

## 1. Inventory

| Component | State | Operations | Talks to |
|---|---|---|---|
| Update runtime, `docker_runtime.py` | none of its own; two containers, the dockerMan template, a backup directory | `execute_update`, `inspect_live`, `backup_evidence`, `replace_template_repository`, `inventory` | Docker daemon, template files; called by the service and the scans |
| Execution lifecycle, `domain/state_machine.py` | transition tables | `transition_execution`, `transition` | nothing calls it; it states what an execution may go through |
| Update service, `service.py` | in the database | `execute`, `reconcile_rows`, `decide`, projections | gate, leases, database, runtime |
| Gate and leases, `execution_gate.py` | `execution_leases`, `execution_operations` | `check_gate`, `acquire_lease`, `release_lease`, `record_operation`, `get_operation` | SQLite, each call a connection of its own |
| Database, `db.py` | scans, candidates, approvals, executions, controls, overrides, settings, audit events | one method per statement, each a transaction of its own | every component |
| Scheduler, `scheduler.py` | `_LOCK` | `run_scan`, cron job | service |
| WUD adapter, `wud.py` | none | `get_containers`, `normalize`, `scan` | WUD over HTTP, database, policies |
| Label policy and holds, `vnext_policy.py` | labels of template and container | `LabelPolicy.from_labels`, `change_class`, `hold_decision` | `normalize`, label editor, `evaluate_candidate` |
| Policy settings, `policy_config.py` | `application_settings.risk_gates` | `normalized_gates`, `validate_tags` | `normalize`, web forms |
| Label editor, `label_edit.py` | dockerMan template | `apply_policy_labels` | web form; shares the template with the runtime |
| Web application, `web.py` | sessions, login attempts | routes; sync handlers, one thread per request | all of the above |
| Audit trail, `db.py:353`, `evidence.py` | `audit_events`, `audit.jsonl` | `audit`, `append_audit`, `verify_audit` | written by everything, read by log pages |
| Resolver, `resolver/`; domain policy and models, `domain/` | none | `resolve_timestamp`, `change_class`; `best_flavored_tag`, `bump_type`, `classify` | `hold_decision`; tests |
| Research, `research*.py` | `research_assessments` | `assess`, `save_research` | GitHub, an LLM |
| Portainer, importer, CLI, configuration, migration, `scripts/merge_unraid_template.py` | none or a file | pure functions, read-only HTTP, start-up | - |

How they interact: the scheduler and the `/scans` route fetch WUD's rows and the
Docker inventory and write candidates; policy routes store a setting and scan
again. The operator approves an `approval_ready` candidate and confirms the live
revision on its page; the execute route calls `UpdaterService.execute`, which checks
approval, gate and pause, looks up the operation, takes the container's lease, and
runs `execute_update` between `start_execution` and `finish_execution`. All of this
happens in threads of one process on one SQLite file. No lock spans two database
calls, except the scheduler's around its own scans, and none protects the template.

What is hard here: a Docker call that fails or whose reply is lost anywhere in an
update or in its rollback; the process dying between two of them; a label edit
during an update; requests that repeat a confirmation, or outlive their lease;
decisions read in one transaction and used in a later one; scans that overlap, fail
half way, or have read settings that have changed since; candidates that come back
after they were superseded; changes whose audit event is written later, by another
connection, or not at all; a template that Unraid, the label editor and the runtime
rewrite as a whole; dates of releases, lines and candidates that move independently.

What makes each component correct:

- *Runtime*: the original is removed only for a verified replacement; never both
  run; one exists; success and rollback are reported truthfully; what a crash
  leaves can be repaired from the backup; a refusal changes nothing; it ends.
- *Service, gate, leases*: one mutation per container at a time; one confirmation
  is applied at most once; replays and recorded outcomes are true; every request
  returns; no lease blocks for ever.
- *Scans*: after a scan the active candidates are those of its rows; overlapping
  scans that agree converge; the lock is released; a scan that fails says so; a
  superseded approval does not come back.
- *Policies*: nothing beyond the documented boundary becomes approval-ready; override
  and gates decide nothing where there are labels of the new format; a changed setting
  takes effect.
- *Label editor and audit trail*: a save leaves the labels of the form and everything that
  is not the updater's; the chains break only where requests overlap; no event is false or
  written twice; complete events tell the state.
- *Holds*: an eligible target has been out for its hold, soak and hold agree, and a patch
  on top of a held update does not end the hold earlier.

## 2. Modules

| Module | Models | Proofs |
|---|---|---|
| `ExecutionLifecycle` | the execution transition table of `domain/state_machine.py`; the abstract specification of an update | |
| `UpdateRuntime` | `execute_update` call by call, with its environment; implements `ExecutionLifecycle` | `UpdateRuntimeProofs` |
| `Confirmations` | the abstract specification of executions: a confirmed operation is applied at most once, and recorded and reported only when it was | |
| `ExecutionService` | `UpdaterService.execute` in concurrent requests, with leases, operations, executions, decisions, pauses, time, crashes; implements `Confirmations` | `ExecutionServiceProofs` |
| `CandidateScan` | `run_scan`, `reconcile_rows`, `wud.scan` on the candidates table | `CandidateScanProofs` |
| `CandidateEligibility` | `normalize` with labels, overrides, gates and pause, read by two scanning threads while requests change them | `CandidateEligibilityProofs` |
| `TemplateLabels` | the label editor's functions on a template | `TemplateLabelsProofs` |
| `AdminRequests` | `apply_policy_labels`, pauses, decisions and logins in concurrent requests with their events in `audit_events` and `audit.jsonl` | `AdminRequestsProofs` |
| `ReleaseHold` | `evaluate_candidate` with `hold_decision` and `resolve_timestamp`, and the domain's `classify` and `bump_type`, while tags appear and days pass | `ReleaseHoldProofs` |
| `MCExecutionService`, `MCCandidateScan`, `MCCandidateEligibility`, `MCAdminRequests`, `MCReleaseHold` | instances for TLC: symmetry, small sets, templates, tags | |

A mutant, marked as such in its comment, is a definition a plausible bug would turn
its successor into; each property is broken by one of them.

### UpdateRuntime

`pc` names the next Docker or file call of `execute_update`, from the page that
shows the live revision (`page`) through the preflight, the try block (`Forward`),
the except clause (`Rollback`) to the outcome. `DockerCall` is one call: it takes
effect; or it is refused (`MaxRefusals`) and the exception goes to `Handler`; or it
takes effect and its reply is lost (`MaxLostReplies`), as happens at the client's
180 s timeout. A container is its run state (health included) and, for the
original, its name; the template is its repository, the version of its labels, and
whether it is whole, since `write_bytes` truncates before it writes. The
environment edits labels (a parse and a replace in another request), stops the
original, changes health, moves the tag to another image, and kills the process.
`docker_runtime.py`'s container names and image references are taken as valid, and
template and original have the policy labels of version 0 at the start.

### ExecutionService

One action per call that opens a connection: `ReadCandidate`, `ReadApproval`,
`ReadControls` (with `check_gate`), `GetOperation`, `AcquireLease` (reclaims what
expired, in one `BEGIN IMMEDIATE`), `CheckRunning` and `InsertExecution` (the SELECT
and INSERT of `start_execution`), `Inspect` (the live revision is compared),
`MutateOk`/`MutateFail`, `FinishOk`, `RecordOk`, `AuditOk`, the except clause
(`FailFinish`, `FailRecord`, `FailAudit`) and the finally clause (`Release`).
`execute_update` is abstracted to the inspection and an outcome; what happens in
between is `UpdateRuntime`. Its check that the target differs from what is running
is left out: a target already running is an outcome that fails. The operation id
hashes candidate and live revision; candidate revision and id are one `cand`.
`Decide` is one action although `record_decision` reads and writes in two
connections. Time is counted in ticks for leases and approvals. A crash leaves
rows and leases where they are, and may leave a container changed.

Refinement: in `Confirmations` a request asks for an operation (it was confirmed), the
operation is applied (`MutateOk`, or a crash in its middle), recorded (`RecordOk`),
possibly retracted (a late retry records its failure over it, `FailRecord`), and told
(the answer, or a replay). The rest stutters. `Retract` is what the code does, not
what it should do; see section 5.

### CandidateScan

Scans are processes: `Fetch` (which takes the scheduler's lock, or not for a
manual scan), `StartScan`, `ReadControls`, `UpsertCandidate` and `Supersede` per
row, `ResolveMissing`, `FinishScan`, `Audit`, or `Raise` and `FinishFailed`. A
candidate is identified by its revision hash, here container, target and whether
`normalize` found it ready. The initial table is whatever earlier scans may have
left. Policies are a constant set `Eligible`.

### CandidateEligibility

`Normalize` is `wud.normalize`: valid vNext labels (`VnextItem`), malformed ones
(`InvalidItem`), or override, v0.7.1 labels and gate (`LegacyItem`). `NormalizedGates`,
`Valid`, `Semver`, `ChangeClass`, `TargetImage` are the functions of those names. Label
values are words, the three optional labels one key. Two threads scan, the scheduler's
and that of a policy request; each reads controls, override and gates one by one, in its
own order. Requests change override, gates or labels and scan; the pause does not scan;
the operator edits the template by hand; the container is recreated, after which its
labels are the template's. WUD knows the labels of the container as it last looked at it
(`watched`, `WudWatch`), and `Merged` puts the template's over the container's and those
over WUD's. Only one request of the web changes a policy at a time, database faults are
left to `CandidateScan`, and the container is in the inventory under the name WUD gives
it.

### TemplateLabels and AdminRequests

A template is the arguments of its `ExtraParams`, as `shlex` splits them, and its legacy
`<Label>` nodes. An argument is a label, `--label k=v` or `--label=k=v`, or any other
token; nothing else of the XML is touched by the editor. A key may have a blank before
it: `LabelsOf` strips it, as `label_edit.py:87` does, and `Unowned` does not, as
`label_edit.py:133` and `141` do not. `Sift(s, S)` is the one loop of the editor, over
arguments and over sorted keys: what belongs to `S` is kept, in its order. Label saves
go through `Parse`, `ReadBefore` (the second parse, and the split that may refuse),
`Backup` and `Replace`; pauses through `ChangeControl`; decisions through
`RecordDecision`. Only then come the events: `SelectLast` and `InsertEvent` of
`db.audit`, which Python's sqlite3 runs without a transaction around the SELECT, and for
the service's own event `ReadTail` and `AppendLine` of `append_audit` when an evidence
root is configured. A decision is audited twice, by `record_decision` and by the
service. Logins stand for the events without a change. A hash is the number of the
record it was computed from. A line of the file holds the records written into it
(`of`), whether it parses (`whole`) and whether it has its newline (`ended`);
`WritePart` is a write that stops anywhere, also just before the newline, and `Write`
then joins the next record to that line. Unraid may rewrite the template, calls raise,
and the process may die. `done`, `disturbed` and `overlap` are history: which changes
took place, which saves were disturbed, and where two requests crossed. The scan that
follows a save is in `CandidateEligibility`.

### ReleaseHold

`evaluate_candidate`, `hold_decision`, `classify` and `bump_type` are library functions
that tests call and no route does; the module says what they would answer for the
candidates that the program records. A tag is what the regular expressions make of it:
a version or none, whether its third component is left out, and whether its suffix is a
semantic version's. Tags are published, days pass, a source names any published tag, older,
equal or newer, as the candidate's target, or none (`Record`), and targets are installed.
As `upsert_candidate` does, `Record` stores target, soak and `first_seen` as they are
given: WUD gives no `first_seen`, and of a report it is assumed that the day it names lies
between the tag's appearance and today. `best_flavored_tag` is not part of the model, as
it chooses no target of the program. The operators carry the functions' names; the three
classifiers `ChangeClass`, `ResolverClass`, `BumpType` differ as the code's three do.
`EvaluateCandidate` takes the dates of line and target from its caller, and `Classify` the
change, as the code does: the properties quantify over the dates of the line and over
whether `first_seen` may stand in for that of the target, and take the change from
`bump_type`. Release dates are those of the registry or missing, days are whole, and
`override_days` comes from the row.

## 3. Runs

| Run | Shows | Bounds |
|---|---|---|
| `runtime_faults` | the ten invariants of an update, that it ends, and that it implements `ExecutionLifecycle` | two refused calls, one lost reply, two health changes, one operator stop, one tag move, one label edit, two polls, a crash |
| `execution_lease` | mutual exclusion, one running row, truthful rows, while leases outlast executions | three requests on two candidates of one container, one crash |
| `execution_retry` | at most one application per confirmation, honest replays, that requests return and leases end, even when leases run out; that `execute` implements `Confirmations` | two requests on one candidate, two live revisions, two pauses, one status change by a scan, one database fault, one crash |
| `scan_scheduled` | a scheduled scan leaves exactly its rows active | two scheduled scans, one container, two targets, one change of WUD, pause, approval, fault and crash |
| `scan_overlap` | a manual and a scheduled scan that agree converge; the lock is released; a failed scan is reported | two containers, one pause, fault and crash |
| `eligibility_policy` | the boundary, that override and gates decide nothing beside labels of the new format, and that changes take effect | one container, four label sets, three rows, two overrides, two gate forms, two changes |
| `admin_requests` | label saves leave the labels of the form, those overlooked for a blank, and the rest; events are chained, true, complete, and tell the state | two requests of any kind, two forms, four templates (all sorts of labels, blanks before keys, an empty one with a node, two that cannot be parsed), one edit by Unraid, fault and crash |
| `release_hold` | eligible targets were out for their hold, soak and hold agree, a patch on top of a held update does not shorten its hold | four tags (1.0.0, 2.0, 2.0.1, and version-1.1.0, which is no plain semantic version), any of them a target at any time, three days, holds of zero to two days, soaks of one to three, a row with and without an override |

| Run that finds a violation | The code |
|---|---|
| `runtime_rollback`: `RollbackRestores` | a failed pull, resolution, stop or rename makes the rollback rename the original to the name it already has; Docker refuses, and the stopped original is not started |
| `runtime_lost`: `SomeContainerAlwaysKept` | the original's removal succeeds, its reply is lost, and the rollback removes the replacement |
| `runtime_label_edit`: `LabelEditPreservesRepository` | a label edit that parsed before the update writes the old repository back |
| `scan_approval`: `ApprovalInvalidated` | a superseded candidate comes back with its approval |

Why the bounds are enough. A second refused call is needed to fail a rollback
after a failed update, and there is no third, as that ends it. Two
polls give the loop a first, a last and a repeated iteration (the code has twelve,
and the proofs cover every number). Three requests are needed for one to hold, one
to wait and one to come after a reclaimed lease; two with a fault suffice for what
one confirmation can do. Two live revisions let a request find a revision that is
neither the confirmed one nor the one that replaced it. Two scans overlap; a third
adds nothing that the free initial table does not contain. Two changes let a
setting be changed while a scan that has read it is under way, and again before it
ends; the four label sets are the branches of `normalize`. Two requests are enough
for one to step between any two steps of another, and the events of a decision already
outnumber those of one request; the templates have foreign, owned, unknown, repeated and
blank labels in both representations. The tags give every class of change, known and
unknown, updates and downgrades, 2.0.1 after 2.0 while 1.0.0 is installed, and, with three
days, deadlines before, on and after the boundary. What TLAPS proves does
not depend on any of this.

`CHECK_DEADLOCK FALSE`: requests and scans are finite in number and end, days are
bounded; the system may then be idle. `CandidateEligibility`, whose scheduler goes on,
is checked for deadlock.

Fairness. `UpdateRuntime`: the request thread goes on (`WF` of `UpdaterStep`); each
Docker call ends because the client has a timeout. `ExecutionService`: each request
thread goes on, since its handlers are synchronous and have threads of their own,
and time passes. `CandidateScan`: scans that have begun go on; nothing forces one to
begin. `CandidateEligibility`: the cron trigger fires again and again, scans go on,
and WUD, if asked for ever, answers sometimes (`SF`); requests and the environment
are never forced. `AdminRequests` and `ReleaseHold` state safety only.

## 4. Proofs

All are for every number of requests, candidates, containers, scans, reports,
polls, tags, days, faults and crashes; the assumptions are those named in the modules.
They say that bounds are numbers, that the marks for "nothing" are not values, and
that `None` is no target; only `ReleaseHold` assumes more (below).

*UpdateRuntime* (`RuntimeAssumption`). The safety properties of an update are not
inductive: that the original is removed only for a verified replacement depends on where
every earlier call left both containers. The invariant `IInv` says, per step, where the
original is and whether the replacement exists (`ContainersInv`), how the two relate at
every step (`PairInv`), what has been resolved and verified (`ImagesInv`), which calls
are within bounds (`CountersInv`), and what the template, its parsed copy and its backup
contain (`FilesInv`, `UneditedInv`); two parts cover the undisturbed original
(`UndisturbedInv`) and a replacement that was created and never found (`OrphanInv`). One
proof step per action gives `TypeCorrect`, `RemovalIsVerified`,
`MutualExclusionOfContainers`, `ContainerSurvives`, `RollbackIsHonest`,
`RollbackFailure`, `SuccessIsConsistent`, `BackupBeforeMutation`, `RefusalIsHarmless`
and `StoppedIsLeftAlone`. `RuntimeFollowsLifecycle` maps each step to a transition of
the table or to a stutter.

*ExecutionService* (`ServiceAssumption`). `RequestInv` relates a request's position
to its row, its inspected revision and whether it applied its update; applied
updates lie below the live revision, so nothing confirmed before can pass the
inspection again, which is why `AtMostOnce` needs no lease. `RowInv` follows the row
while no database call fails. Under `~AllowOverrun`, `LeaseInv` gives each request past
the gate an unexpired lease, `LeaseExcludes` follows from it, and `RunningInv` carries
the SELECT of `start_execution` over to its INSERT (`OneRunning`). `ReplayIsHonest`
and `RowsTellOutcome` follow as well. `ServiceKeepsPromise` maps every step to one of
`Confirmations`: the guard of `Apply`, that nobody has applied the operation yet, is
`RequestInv`'s order of live revisions, and those of `Record` and `Tell` are
`ReplayHonest`.

*CandidateScan* (`ScanAssumption`). `LockInv`: the scheduled scan in progress owns the
lock. `SeenInv`: what it has seen are rows of its own snapshot. `PublishInv`: without
manual scans these stay active. Together they give `ScheduledScanPublishes`. `AgreeInv`
is about any scans: as long as none has failed or died and all that have read the
controls agree, none undoes another's writes, and one that has resolved the missing
candidates leaves exactly its own active. Agreement now implies agreement before, since
snapshot and controls are settled and failures final, which makes it inductive and gives
`AgreementConverges`.

*CandidateEligibility* (`EligibilityAssumption`). The lemma `Normalized` says what
`normalize` returns on any input; `ChangeOfReferences` says that it never classifies
the change of a container with valid vNext labels, because `semver` does not match
an image reference. `BoundaryHolds` follows as the active rows are all normalized
ones, whatever mixture of old and new settings a scan has read; `LabelsDecide` compares
the item a scan made with the one `normalize` returns for every other override and gates
(lemma `LabelsAlone`), and says of malformed labels that they make nothing ready. It does
not depend on what `ChangeOfReferences` says of valid ones.
`SavesTakeEffect` needs to know what a scan that nothing disturbed has read: `AloneInv`
says, step by step, that what it has read so far is still what is stored, and that the
active row is its own item once it has written it.

*AdminRequests* (`AdminAssumption`). For `RecordsChained` the invariant says that, while
no two requests have overlapped in a log, one that is between reading and writing has
read the last record; the flags `overlap` are raised by the very step that breaks this.
`RecordsHonest` follows each request through its events: what is recorded at a step has
been passed by it, so that no event is written twice and none is missing at the end; a
record of the file is spoiled only where it was joined to a line of another request.
`Undisturbed` keeps the tree that a save has parsed equal to the file until somebody else
writes, which with the facts on `Saved` below gives `SavesAreExact`. For `TrailIsCurrent`,
`Telling` says who is to be believed while a change has no event yet: changes that did
not cross are pending one at a time, and the state shows the pending one, or else the
last of the trail. A change that fails or dies between commit and event ends this for
good, as the theorem's condition on `done` does.

*TemplateLabels* (`TemplateAssumption`: the updater's keys and the foreign ones differ).
`Sift` is a recursive function over sequences of any length. The library's induction
rules take operators, which the provers cannot instantiate; its theorem that a
well-founded relation has minimal elements (`WFMin`) takes a set. `NatSetInduction` and
`SeqSetInduction` are induction over sets, derived from it, and with them `SiftDefined`
shows that the recursion has a solution and `SiftAppend` how it unfolds. From there:
sifting keeps order and elements, distributes over concatenation, and can be done in one
go. `SavedLabelsReadBack`, `SavedKeepsOthers` and `LastSaveDecides` are then statements
about every template and every set of labels. The first says that the labels read back
are those of the form over the `Overlooked` ones, which `ExtraParams` has with a blank
before the key.

*ReleaseHold* (`HoldAssumption`; `ReadyWasHeld` and `RetargetingKeepsHold` also use
`DefaultsAssumption`, that holds rise from patch to major and no soak is shorter than
its hold, as the defaults in `service.py:158` and `domain/models.py:44` have it; with
other settings they disagree). The invariant: a date that is written down, in the
registry or in the row, is never before the tag's own. `HoldIsRespected` follows because
the later deadline counts, `ReadyWasHeld` because a soak from `first_seen` covers the
hold from the publication. `ClassifiersAgree` compares the three classifiers on every
pair of tags. `RetargetingKeepsHold` compares deadlines. Nothing orders the targets that
sources name, so the property itself says which pairs it compares: the first an update,
the second of known class, not older and dated no earlier. The second's change from the
installed version is then of the same or a higher component (`HoldsGrow`), its hold at
least as long, and its later deadline no earlier (`DeadlinesGrow`).

Only model-checked: the liveness properties (`Terminates`, `RequestReturns`,
`LeaseEnds`, `LockReleased`, `ScanReported`, `PolicyTakesEffect`), as liveness under
fairness is beyond this prover. Every invariant and every action property that a passing
run checks is also a theorem.

## 5. What the code does otherwise than its documents say

Four such points have runs (section 3). Others were met while modelling and have none:

- `execution_gate.py:107`, "retries cannot create a second operation": the operation is
  read (`service.py:273`) before the lease is taken (`service.py:279`). A retry that read
  it before the first request succeeded takes the lease afterwards, is stopped by the
  changed live revision, and overwrites "succeeded" with "failed" (`Retract`).
- `docs/vnext-design-and-implementation.md:161`, "one newest valid active target per
  container": `/scans` does not take the scheduler's lock. A manual and a scheduled
  scan that overlap while WUD's target moves each resolve the other's candidate, and a
  container with an update may end without an active one.
- `README.md:32`, "Stopped containers are never updated or started": the state is read
  once, before backup and pull; one stopped in between is replaced and started.
- `service.py:279`: leases of 900 s are not renewed. Pull and health checks may last
  longer, and then a second request mutates the container (`ExclusiveMutation` is
  stated for leases that outlast executions; `AppliedOnce` holds without).
- `docs/vnext-design-and-implementation.md:461`, crash recovery: nothing looks at
  executions at start-up. A crash leaves a row running, and `start_execution` then
  refuses that candidate for ever.
- `docs/vnext-design-and-implementation.md:350`, single-use approvals: an approval stays
  valid for 24 hours, also after an execution and after a deferral
  (`state_machine.py:87` would let the deferral count; `db.active_approval` does not).
- `docs/vnext-design-and-implementation.md:563`: older candidates are superseded row
  by row, before the scan is complete.
- `wud.py:94`: containers with `policy=auto` never become approval-ready
  (lemma `ChangeOfReferences`). `docs/vnext-design-and-implementation.md:106` gives labels the last word, and 4.2
  classifies unknown changes as major.
- `policy_config.py:30`, "never executable by this updater": when WUD does not answer
  while an override of critical risk is saved, `web.py:298` passes, and the old
  candidate stays approval-ready and executable until a later scan.
- `docs/vnext-design-and-implementation.md:577`, audit chaining: `db.audit` selects the
  last hash without a write lock, so that two concurrent events may name the same
  predecessor; `append_audit` reads and appends without any lock. A write that lost only
  its newline still parses, so the next record is joined to its line and can no longer be
  read. A change is committed
  before its event: a fault or a crash between them leaves a change without one. With an
  evidence root, a line of `audit.jsonl` that was torn makes every later decision and
  execution raise after it has taken effect.
- `service.py:102`: when reading the controls fails, the scan stays running.
- `docs/vnext-design-and-implementation.md:165-188`: the hold of the exact target counts
  with the class from the line's release to it. `hold_decision` uses the class from the
  installed version for both dates, which is longer, never shorter.
- `vnext_policy.py:134` and `144`: an unknown class of change or two missing dates give no
  deadline, and `HoldDecision.eligible` is then true: a tag that is no
  plain semantic version, such as `version-1.1.0`, is eligible on the day it appears.
  `docs/vnext-design-and-implementation.md:229` wants the unknown treated as major.
- `service.py:165`: the override of a hold is taken from the candidate's `soak_days`,
  into which no code writes the label `hold-days`, and for which 0 is "none". The web
  application configures neither global holds nor an evidence root.
- `service.py:316` accepts the decision "rejected", which `record_decision` refuses, and
  refuses "revoked", which it accepts.
- `label_edit.py:87` and `133`: an argument `--label " io.jmengit.upgrade.hold-days=7"` is
  read as a policy label and not removed as one. Where the form leaves that key empty, the
  label outlives every save (`Overlooked`), against `label_edit.py:151`, "Atomically
  replace updater labels". Saving removes every label below the prefix,
  the legacy risk label included, which the form does not show.

## 6. Not modelled

Sessions, CSRF and the login limiter (`web.py`); research and LLM analysis (stored as
advice, read by no decision); Portainer (inventory only); the importer, the CLI,
configuration and migration; the template merge script; JSON projections other than
`audit.jsonl`; `resolver/flavor.py`, `release_identity`, `best_flavored_tag` and the flavor
functions, which nothing or only tests call and which choose no target; the
redaction and the verification of audit files, which only read; the contents of
templates beyond repository and labels. Reasons stand in `PROJECT.json`.

## 7. Plan

Done, in this order: `ExecutionLifecycle`, `UpdateRuntime` and its proofs;
`ExecutionService` and its proofs; `CandidateScan` and its proofs;
`CandidateEligibility`, `TemplateLabels`, `AdminRequests` and `ReleaseHold` with their
proofs; `Confirmations` with the proof that
`ExecutionService` implements it.

Left, most important first:

1. *Service over runtime*: a module that composes `ExecutionService` with
   `UpdateRuntime`'s outcomes (rolled back, rollback failed, died in between), so that
   rows and operations are compared with the containers themselves.
2. *Candidate lifecycle*: the candidate table of `domain/state_machine.py` against what
   the scans do to `candidates.status`.
