# Kvist: a TLA+ verification project

Kvist is a workspace of command line programs around *components*: directories
with documents that state intent, a queue of tasks (`TODOS.yaml`) and the
evidence of the attempts agents made at them. This project models the parts
that decide what may happen to a task and what survives a crash (`maerg`, the
`kvist` command itself), how a person steers a running model session (`sav`,
`skott`), and how the vendored dependencies of a project are replaced while
tools read them (`dependencies`).

## Inventory

| Part | State it keeps | Operations | What is hard | What makes it correct |
| --- | --- | --- | --- | --- |
| Task lifecycle (`maerg/src/task_commands.rs`, `agent_outcome.rs`, `task_queue.rs`) | `TODOS.yaml`; one append-only journal per task; the outcome of the running command | transition, run, pre-spawn fence, recover, finalize accept/block, unlock | a crash or failed write between any two durable steps; evidence read by later commands; attempts of other tasks | dependency order, no replay of an unresolved agent run, recoverable fences, journals whose records agree, final completion |
| Operation lock (`TaskLock`) | the lock file, quarantined lock files | create, revalidate, release, unlock, takeover by recover | other processes between any two file-system calls | one owner at a time, a live owner's lock is not taken |
| Continuous runs (`continuous.rs`) | the ledger `continuous.json`: phase, active item, baseline, effects, pending checkpoint | run, resume, review, finish checkpoint | crash between ledger, queue and branch; a person edits, commits and reschedules meanwhile | what the ledger calls done is committed, nothing of unknown origin is, a retained checkpoint settles |
| VCS checkpoints (`checkpoint.rs`, `checkpoint/process.rs`) | prepared commit, branch, index, index lock and its owner file | capture, prepare, validate, reprepare, finish | external commits and staging, crash around publication | the branch only grows, staging survives, a published checkpoint is recognised |
| Decision transactions (`decisions/**`) | plan, pending journal, queue and documents | plan, apply, resume | several files replaced in one approved step | all or nothing across a crash; others stay out |
| Component acceptance, acceptance commits (`accept`, `vcs_commit.rs`) | accepted baseline, pending commit records | accept, commit-accepted | signing fails after the decision is stored | stored decisions stay, commit can be repeated |
| Repair (`repair*.rs`) | staged documents and backups | plan, apply, roll back | partial replacement | evidence is preserved |
| bark (`bark/**`) | background runs, workspace locks, a shell journal | start, observe, cancel | process exit races observation | runs are reported once |
| Agent sequences, authoring (`agent/**`, `authoring/**`) | budgets, transcript, applied edits | turn, retry, apply | cancellation, limits | budgets hold across repair rounds |
| Guided sessions (`sav/src/runtime`, `skott/src/run.rs`) | the control mailbox, the conversation, the watcher of an operation | submit, edit, withdraw, cancel, stop; claim, deliver, request, dispatch, answer | three threads and a provider; guidance races requests, tools, answers and the end of a prompt | messages become what the person is told, nothing irreversible happens over waiting guidance |
| Vendored dependencies (`dependencies`) | tree, resolver configuration, receipt, publication fence, operation lock, private stages | check, lease, provision, publish | three files replaced one after the other under readers; crash; removed locks | readiness never mixes publications, a leased tree stays, the last registry survives |
| galla, blad, rest of sav and skott | sandbox; nothing durable; model servers; executor, session log, TUI | see `PROJECT.json` | system calls | see `PROJECT.json` |

Parts interact through files. Every command of a component takes its operation
lock, reads queue and journals, and writes them one durable step at a time; the
lock is revalidated before each write. A run calls the agent (host model turns,
effects in the sandbox) and the verification command in between. A continuous
run holds one lock for all its steps and calls the same code. A pending decision
transaction, an unresolved attempt or a recovery fence keeps every other queue
writer of the component out. Inside a session, threads share the mailbox under
one mutex and a few flags; commands that provision and tools that read the
vendored tree meet in directory locks and in the files under `.kvist`.

## Modules

| Module | Stands for |
| --- | --- |
| `TaskLifecycle` | queue, journals and commands of one component, under an abstract lock |
| `MCTaskLifecycle` | its small instances |
| `TaskLifecycleProofs` | type correctness, dependency order, final completion |
| `TaskJournalProofs` | what queue, journals and the running command say of each other; no replay, recovery, acceptance |
| `TaskLock` | the lock file itself, one step per file-system call |
| `MCTaskLock` | its instance and symmetry |
| `TaskLockProofs` | exclusive ownership, protection of live owners |
| `DecisionTransaction` | the application of approved decision plans to one component |
| `AtomicDecision` | what such an application promises: all outputs at once |
| `MCDecision` | a small instance of `DecisionTransaction` |
| `DecisionProofs` | the inductive invariant of `DecisionTransaction`, its safety |
| `DecisionRefinement` | `DecisionTransaction` implements `AtomicDecision` |
| `GitCheckpoint` | worktree, branch, index and index lock, and the steps that publish a prepared commit |
| `ContinuousRun` | the run that uses them: ledger, queue, review, a person in the same repository |
| `MCContinuous` | its instance: two items, one of them rescheduled |
| `ContinuousProofs` | the inductive invariant of both, all their safety and action properties |
| `ControlMailbox` | the mailbox between a person and a running prompt |
| `GuidedRun` | the session worker, the turn loop, the watcher thread, the person |
| `MCGuided` | its instances |
| `GuidedProofs` | true notices, cancellation, guidance before every irreversible step |
| `VendorPublication` | the vendored tree, its controls, commands that read and replace them |
| `MCVendor` | its instance and symmetry |
| `VendorProofs` | leases, the retained registry, coherent readiness |

### TaskLifecycle

State: `queue` is `TODOS.yaml` (status, recovery fence, acceptance, disposition
and reason of each task); `events` the versioned records of all journals as a
set, with `latest` (the attempt the last one names) and `trailing` (the journal
ends in an unversioned `prepared`) for the two places where the code looks at
their order; `prepared` the fields of the prepared records, the digest of the
intended queue being that queue; `tail` how a journal ends (in whole lines, in a
record without its newline, or so that `read_attempt_journal` refuses it);
`lock` and `lockTag` the operation lock and the
attempt whose evidence digests it; `pc` and `local` the command that holds it,
`appended` whether its last step was an append. `launched`, `rejected` and
`faults` are history.

An action is the work between two durable writes, the write included:
`TransitionBegin` takes the lock, checks the gates and appends `prepared`,
`TransitionReplace` replaces the queue, `TransitionCommit` appends `committed`.
`transition_locked` is also how a run starts and settles its task, so a run goes
through the same steps (`local.then` says where it continues). Likewise
`RunBegin` ... `FinishDone` for `execute_task_under_lock`, `Fence*` for
`fence_pre_spawn_failure`, `Recover*` for `recover`, `Accept*` and `Block*` for
`finalize`. `Fail` is an error of a write (the command returns and releases its
lock), `Crash` the death of the process (the lock stays). A refused command
changes nothing and is no step.

`append_encoded_attempt` writes a record and then its newline, and truncates
nothing when it fails. Every action with an append ends in `Append`, and `Tear`
may follow it: the newline is missing (`open`) or part of the record is
(`unreadable`), and the command failed or died. A record without its newline is
read as any other; a record appended behind it shares its line and makes the
journal unreadable, as does the append that passes the limits on bytes or
events, which only the readers check; which append that is, is left open.
Nothing makes such a journal readable again. Every gate reads the journals of
all tasks (`Assessable`), so one of them closes the component; `SettleRefused`
and `RecoverRefused` are what a command under way does when it meets the journal
it has spoilt itself.

Abstracted: the agent and the verification command are free choices of an
outcome; digests are the values digested; timestamps, tags, prompts, scopes and
messages are left out. Project, VCS and intent stay current; a blocked task makes
the component not current, as `validate_context` says. `validate_context` runs
under the lock for a run, but only before it for a fence and an acceptance:
those two have no such guard.

### TaskLock

A process is one command and creates at most one lock file, so the file is named
by its process. `path` is the file at the lock path, `quarantine[p]` what `p`
renamed away, `retained[p]` what a breaker read. `alive` is what `/proc` shows.
Owner steps: create without overwriting, read back, revalidate, write, release.
Breaker steps (`remove_stale_path`, `recover_path`): read, look at the owner,
rename, check what was renamed, remove or link back. Every process may take any
role and die between any two calls.

The two modules meet in `lock`: `TaskLifecycle` lets one command at a time go
ahead, which is what `ExclusiveUnlessOverlapped` says of `TaskLock`.

### DecisionTransaction and AtomicDecision

State: `files` are the bytes of the captured inputs, `1..NumFiles` being the
controlled files in the order of their names (`TODOS.yaml` is the last) and `0`
everything a plan binds but never writes (source, tests, evidence, configuration,
the parent's contract, the discussion); `plans` the retained plans, each with the
captured bytes and its outputs; `pending` is `pending.json`; `receipts` the plans
with an applied receipt; `evidence` what the attempt journals and the ledger of a
continuous run leave open; `lock` the operation lock. `capture::guards` is
`Guards(q)`, a predicate of a queue: `Live` are the contents of `TODOS.yaml` with
a task in progress or fenced, which it always refuses; `Reopening` those with a
task pending whose attempt was observed, was disposed of by nothing and is
settled by its status alone, which it refuses under the evidence `"status"`.
`Verified` evaluates it on the queue that is there, be it the one the decision
itself wrote, and on the captured one, as `capture::verify` does. A plan may have
`Reopening` contents as its output (`Resolve` makes a blocked task pending), but
not `Live` ones. Each command has its step `pc`, its `plan`, the journal
it holds in memory (`known`), the current output (`at`) and its lock (`token`).
`written` (files holding bytes of a decision without receipt) and `raced` (an
editor saved between a last read and the rename or receipt it was read for) are
history.

`StartApply` is `apply` up to the lock and reads the journal, as the code does,
*before* the lock is taken; `LockForApply` creates the lock or takes over the dead
one the journal names; `Begin` ... `ClearPending` are `apply_locked` with one step
per durable write and one for every read on which a later write depends
(`Reread`, `Persist` and `ReadBack` are `replace_controlled`). `Fail` is an error
of any call, after which the lock is released, `Crash` the death of the process.
A call that takes effect and then fails (a rename followed by a failed sync) is
the step and then `Fail`. `StartTask`, `EnsureNoPending` and `TaskWrite` are every
ordinary command that writes under the lock (transition, run, recover, accept,
repair, discussion); repair looks for a pending decision before it takes the lock
and compares its snapshot of `.kvist` again under it, which amounts to the same.
Ordinary commands change the evidence with the queue. `OvertakeLedger` is the
planning of another decision, which takes no lock and may put back a ledger that
a run had settled (see `PlannerSave` below). `Edit` is a person's editor, which
heeds no lock and changes bytes only.

Abstracted: capture and `verify` read all inputs in one step; taking, breaking
and releasing the lock are single steps (`TaskLock` has the others); identities,
tags and digests are the values they stand for, so a journal equals the one in
memory exactly when their authentication tags are equal; a nonce is never used
again.

`AtomicDecision` has three steps: prepare a plan from what is there, edit a file,
apply a plan (once, over exactly the captured bytes or its own). The refinement
mapping shows the outputs of a decision without receipt as what the plan captured
(`Visible`): whoever respects the fence cannot tell the difference. Nothing is
promised once an editor raced a rename.

### GitCheckpoint and ContinuousRun

State: `worktree` is the component's inventory on disk (queue, source, review
index), which is what `capture` returns and all a checkpoint may contain;
`commits` and `head` the history of the attached branch, each tree having that
inventory and `other`, the rest of the repository; `index` what is staged;
`indexLock` and `owner` the file `index.lock` and the owner file that lets a
later run prove the lock its own. `ledger` is `continuous.json`, `mem` the copy
of the running command, `pc`, `task` and `resumed` where it is; `loaded` and
`draft` are the ledger a decision command loaded and the one it will save.
`discarded`, `unknown`, `touched` and `overtaken` are history.

`StartFresh` and `StartRetained` are `run_locked` up to the orphan recovery;
`RecoverOrphan`, `CheckEffects`, `Rebaseline` what a retained ledger goes
through; `FinishItem` ... `RecordOutcome` the main loop, which reads the queue
again in every round; `Prepare` ... `Settle` are `create_checkpoint` and
`finish_checkpoint`, with `Lock`, `WriteOwner`, `Verify`, `AdvanceBranch` and
`Install` for the steps of `checkpoint::finish` that others can see. Every
`Refuse...` action is an error of the code and ends the command. `Fail` is a
failed call, `Crash` the death of the process; `RecordOutcome` stores any
outcome of a task, whose inside is `TaskLifecycle`. The person edits, restores,
stages, commits, reschedules, revises the intent, resolves blocked tasks,
reapproves the configuration and removes a stale `index.lock`.

`decision_preflight` is reached without the lock when a decision is planned
(`capture` looks for a lock file and takes none). `PlannerLoad`,
`PlannerPrepare` and `PlannerSave` are its load, what
`recover_orphaned_checkpoint` does up to the save, and the save, which replaces
whatever the file holds by then; a run may take any steps in between.
`PlannerQuits` is every other way it ends. `overtaken` says that it saved over a
ledger other than the one it loaded, or while a run held its own copy. An apply
goes through the same code under the lock, which is the case of no run in
between. One decision command at a time is planned.

Abstracted: digests are the values digested; commit messages, signing and
paths; `advance` is a compare-and-swap, as `git update-ref` is. One branch stays
checked out, and the queue is not rescheduled while a task itself runs.

### ControlMailbox and GuidedRun

`mailbox` is the state behind the mailbox's mutex, and each of its operations one
step. `run` holds the locals of `run_controlled` and `drive_turn`, `operation`
the watcher thread's flags, `cancelled` the prompt's token, `context` the user
messages of the conversation. `ack` and `noticed` record what the person was told.

The worker's actions follow `start_with_controls` (`TakePrompt`, `RecordPrompt`,
`Return`), `run_controlled` (`Begin`, `DrainAtEnd`, `EndPrompt`),
`deliver_guidance` (`ClaimGuidance`, `AnnounceClaim`, `Push`), `drive_turn`
(`StartAttempt` ... `Backoff`) and the tool batch (`RecordDispatch` ...
`EndBatch`). `ReadSteered` and `ReadToken` are two steps, as are the watcher's
`Watch` and `Fire`: those are reads of shared flags without a common lock. The
provider may stream, stay quiet, answer or fail as it likes; a tool does
anything. A call of the recorder or the event sink may fail, and always does
once the session is stopped.

Abstracted: message texts are "as submitted" or "as edited"; byte limits, token
and wall-time budgets, loop detection and compaction; a deadline is the
`Interrupt` it causes. Prompt senders live as long as the session.

### VendorPublication

Provisioning operations are numbered, and the number names the tree, the
configuration, the receipt and the operation lock an operation makes. `vendor`
is the tree in place, `staged` the trees in private stages, of dead operations
too, `contents` the lock file each was populated for, `fence` and `lockFile`
the two files that announce a writer, `cargoLock` content and identity of
`Cargo.lock`. A command's locals are in `proc`: what it read first, what its
first look at the controls found, its lease or its exclusive locks. `committed`
is history.

A check is `SeeFence`, `SeeWriter`, `SeeManifest`, `SeeConfig`, the lease, the
catalogue, and the same looks again (`confirm_controls`), each its own step.
`Provision` ... `Validate` are `provision_with` up to the publication,
`CheckBeforeFence` ... `ClearFence` are `Publication::commit`. `GiveUp` is a
condition of the code that does not hold, `Fail` a failed call or a
cancellation, `FailToClear` the failures whose fence stays. The directory locks
(`flock`) vanish with their process, files do not. A lock and the look whether
the directory is still in place are one step: a lock on a directory that was
moved away hinders nobody.

Abstracted: packages are compared by name and version only, as the catalogue
does, and the instance gives both lock files the same ones; the resolver tables
bind to every graph. The destination is the default one and the graph has
external packages. `Reconcile` is what the error asks a person to do, from the
stage the fence names, with no command running; `RemoveLock` takes away any
operation lock, also one whose owner lives.

## Runs

| Run | Instance | Shows |
| --- | --- | --- |
| `dependencies` | a task and one that depends on it, 1 attempt each, 1 repair round, 1 fault | types, `DependenciesFirst`, `RunCanSettle`, `ReadableIsAssessable`, `CompletedIsFinal` |
| `siblings` | two independent tasks without verification, 1 attempt each, 1 fault | `NoReplay`, `FenceStaysRecoverable` |
| `attempts` | one task, 2 attempts, 1 fault, with fairness | `NoLaunchRecovered`, `AcceptanceCanBeRepeated`, `FailureIsRecovered`, `CommandsEnd` |
| `human_block` | one task, 1 attempt, 1 fault | violation: a stored human block is overwritten |
| `lock` | 5 processes, symmetric | `ExclusiveUnlessOverlapped`, `LiveLockSurvives`, `LiveOwnerKeepsPath` |
| `lock_overlap` | 5 processes, symmetric | violation: two writers after two breakers overlapped |
| `decision` | 2 commands, 1 plan, 2 files with 3 contents (one live, one reopening), 1 edit, 3 faults, 1 ordinary command or overtaking planner, with fairness | types, `HalfAppliedIsFenced`, `SoleTransaction`, `NoMutualFence`, `RecordedWritesStand`, `Atomic`, `RecoveryCompletes` |
| `continuous` | 3 tasks in 2 items, every policy, 2 acts of a person or of a planned decision, 2 faults, with fairness | types, `CompletedItemsCommitted`, `CheckpointsHoldWholeItems`, `PublishedIsKnown`, `NoUnknownEffects`, `ItemCheckpointRetriable`, `BranchOnlyGrows`, `StagingKept`, `PendingSettles` |
| `component_retry` | the same under the component policy, 1 fault, nobody else | violation: the repeated run refuses the files of its own checkpoint |
| `guided` | 3 messages, a mailbox of 2, 2 attempts, 2 turns, 2 tools, 1 fault, with fairness | types, `DispositionsAreTrue`, `CancelStaysWithItsPrompt`, `ActsOnAllGuidance`, `GuidanceSettles` |
| `withdrawal` | 2 messages, no fault | violation: a withdrawal makes the prompt fail as cancelled |
| `vendor` | 2 commands, 3 publications, 2 lock files, 1 act of a person, 2 faults, symmetric | types, `ReadyIsCoherent`, `LeaseKeepsTree`, `RegistryRetained` |

Bounds. One attempt per task is enough to relate tasks to each other, two to
relate an attempt to a later one of the same task; the exhausted identity is
reached in both. One fault interrupts any one command anywhere, and the command
that follows is then explored in full; a torn line is one fault, and the append
that spoils it needs none. `dependencies` was also checked once with a second
fault, which interrupts the recovery from the first (2.1 million states), and
holds. Verification after a run is explored in
`dependencies` and `attempts`; it writes nothing a sibling reads but the records
of its own attempt. One human reason suffices because the
reason only has to differ from none and from a run's. Five processes are the
least with which two breakers, a dead owner and two new owners meet.
For decisions, two files are the least with which an application can be half
done; two commands race over the one plan; the second fault interrupts the
recovery from the first, the third the repetition after that. Three contents let
a queue be calm, live or reopening; the theorems cover any number of contents
and plans. Five lock files suffice because
the lock path, the journal on disk and those in the memory of two commands
remember at most four. All files may start with the same contents, since a file is only compared
with itself.
For a continuous run, an item of two tasks is the least that can be half done,
a task that is scheduled later the least that changes the definition under a
run; two acts of a person suffice for an edit or a staging and the commit of
it, or for a commit and the decision planned after it; two faults for a failed
checkpoint whose repetition fails too. For a
session, a mailbox of two is full after two messages, and the third message is
either a second prompt or guidance that finds it full; two attempts are one
retry, two turns the last one allowed and one more. For the vendored tree, three
publications let two operations race over a tree that an earlier one left; the
second fault interrupts what follows the first. Two acts of a person with one
fault (5.7 million states) were checked too and hold.
`CHECK_DEADLOCK FALSE`: when attempts or faults are used up, or all processes
have exited, the system really stops.

Fairness (`FairSpec`): a command under way goes on (`WF` of `Proceed`: the
process is scheduled, or it fails or crashes, which the bound makes rare); the
operator follows the guidance the program prints, i.e. unlocks a stale lock and
recovers a recorded no-launch failure (`WF` of `Unlock` and `RecoverBegin`).
Nothing else is assumed to be started. For decisions likewise: a command under
way goes on, a stale lock is unlocked, and the error every ordinary command
reports on a pending decision is heeded (`RepeatApply`). `ContinuousRun`: the
command goes on, and the person repeats it (`Step` has its starts), which is
what its errors ask for; nothing is assumed of edits and commits. `GuidedRun`:
the worker and the watcher thread are scheduled, tools end and the event channel
is drained; nothing is assumed of the provider, which may stay quiet for ever,
or of the person.

Exceptions. Some properties hold only up to a case in which the code really
fails, and name it. A journal that nobody can read any more (`AllReadable`)
leaves a recorded failure unrecovered and a run's conclusion unstored. A decision
that reopens an attempt by its own queue (`Reopens`, `Wedged`) is not completed
by repetition, nor is one whose inputs changed (`Changed`). A ledger that a
planner saved over (`overtaken`) need not know what was published, completed or
left unrecorded. These cases are described under "Found on the way". The others
of the reasons in `NeedsPerson` are refusals the code means to make.
`CancelStaysWithItsPrompt`: a cancellation carries no prompt identity, so what is
shown is that none is left over for the next prompt.

### Disagreements with the documents

* `HumanBlockIsFinal`: `finalize ... block` stores its decision in the queue and
  then appends it to the journal; `finalize ... accept` looks for it only in the
  journal. If the append is lost, reopening the task and accepting the same
  attempt overwrites the stored decision.
* `ExclusiveWrites`: two breakers that read the same stale lock; the slower one
  renames the lock of the owner that came after the faster one, and until it is
  linked back a third command can create its own.
* `CheckpointRetriable`: under the component policy the review index is written
  before the checkpoint and the digest of the effects is taken after it. If the
  checkpoint fails, the repeated run takes its own review for a foreign change
  and refuses, where the contract promises a retry. The item policy records the
  digest first and has no such gap (`ItemCheckpointRetriable`).
* `InterruptionIsNotFailure`: the watcher interrupts an operation because
  guidance waits and then reads the mailbox a second time to remember why; if the
  message was withdrawn in between, or the driver looks before the watcher is
  done, the prompt fails as cancelled.

Found on the way and not given a run:

* A journal line torn by a crash or a failed write (`task_commands.rs:1174`), or
  an append past the limits that only readers check (1288, 1353), closes the
  component for good: the next record shares the torn line, and every gate then
  refuses (1359). `maerg/REQUIREMENTS.md:406-408` and
  `docs/runtime-selection.md:237` and `267` promise that the repeated command
  finishes an interrupted recording, which it does when the whole record, or
  none of it, was written.
* A decision that makes a blocked task pending (`tasks.rs:105-107`) reopens an
  attempt that was observed and that only the status settled, such as one whose
  block was stored and not recorded. The guards pass on the captured queue and
  fail on the decision's own (`capture.rs:469`): the apply stops at
  `transaction.rs:407` after it wrote the queue, every repetition at 355, and
  task recovery refuses because `pending.json` is there. `Wedged` names the case.
* Planning a decision recovers an orphaned checkpoint without the operation lock
  (`capture.rs:42-53`, `continuous.rs:488-563`) and saves the ledger over whatever
  a run saved since (756-769). If the run re-prepared, published and settled the
  same checkpoint, HEAD is then a checkpoint the ledger does not know, and a
  pending decision finds a ledger that is not paused (`overtaken`).

* The error for an unresolved attempt always names `finalize ... block`, which a
  fenced task refuses (`maerg/REQUIREMENTS.md:394`).
* `replace_controlled` reads the file for the last time and then renames over it;
  what an editor saved in between is lost (`maerg/CONTRACT.md:403-405`). `Atomic`
  promises nothing once that happened (`raced`).
* An orphaned checkpoint whose work a person committed by hand has nothing left
  to commit: every repeated run refuses it. `PendingSettles` names the case.
* `provision_with` makes the directory `sandbox-cargo` before the publication and
  leaves it behind when that fails before anything was published; a project
  without external packages that was ready is then reported as not ready. The
  model's graphs have external packages.
* Two projects that share a custom destination have two operation locks; a tree
  that appeared after `previous` was looked up is replaced without a lock on it.
  The model has the default destination.

## Proofs

Checked by TLAPS for every value of the constants.

`TaskLockProofs`: `TypeCorrect`; `ExclusiveLocking`, from an inductive invariant
that says where the file of each process can be (an owner's file is at the path
unless breakers overlapped, a breaker past its check holds a dead file, at most
one breaker is between reading and renaming unless `overlapped`);
`LiveOwnerProtected` from the same invariant; `LiveLockKept` from one that does
not mention `overlapped`.

`TaskLifecycleProofs`: `TypeCorrect`, with `AttemptChosen` as strengthening (the
steps after an attempt was chosen have one). `DependencyOrder` needs
`PendingWrite`: a command checks a transition one or more durable steps before it
replaces the queue, so the invariant says that what it checked still holds at
the write. `QueueWrites` then shows that every step leaves the queue alone or
rewrites one entry that is not completed, advancing it only on a completed
chain, and both `DependencyOrder` and `CompletionFinal` follow from that. The
assumptions are those of `LifecycleAssumption` (tasks exist, dependencies are
tasks; they need not even be acyclic) and `NoLockAssumption`.

`TaskJournalProofs`: `JInv` adds four parts to the invariant above. `Journals`
says which records an attempt's journal can have together, and that of all
attempts of a task only the latest may be open (`Closed`: the journal alone tells
how it ended). `Acceptances` ties an acceptance in the queue to the latest
attempt of a completed task. `Failures` says that a failure before the launch
that is not recovered finds everything as `task recover` wants it, and that no
command but its recovery is under way meanwhile; hence there is at most one.
`Holder` says what the command under way relies on since it last looked: the
other tasks are recovered, its own attempt is the latest, the queue is the one
its evidence binds. The gates are only evaluated when a command begins; the
proof is that no later step of it, and no crash between its writes, undoes what
they established. `Journals` speaks of the records alone; whether they can still
be read is a separate conjunct of every gate (`AttemptsRecovered` is
`AttemptsResolved` of a readable journal), so that a torn line closes gates and
leaves the invariant alone. From `JInv` follow `NoAgentReplayed`, `RecoveredNeverLaunched`,
`FailureRecoverable`, `JournalsAssessable`, `RunSettles` and
`AcceptanceRepeatable`; `FailureRecoverable` and `RunSettles` promise open gates
while the journals can be read. TLC checked `JInv` on the instances of the three runs
before it was proved.

`DecisionProofs`: the inductive invariant `Inv` adds to the types that a command
past the lock owns it (`HoldsLock`), that an apply's journal in memory, which may
be stale until `save_journal` compared it under the lock, is the one on disk from
then on and has no receipt until the apply writes one (`KnowsJournal`), that an
ordinary command past its fence excludes a journal and a journal is only created
for a plan whose captured queue the guards pass and whose own queue they pass or
which reopens an attempt (`KeepsFence`, `Journaled`; `PlansCalm`: no plan makes a
task live), and that bytes without a receipt belong to the pending journal
(`Partial`). `evidence` changes only where no journal is, or to `"overtaken"`,
which both exclude. From it follow `JournalExclusive`, `HalfAppliedFenced`,
`NeverBothFenced` and, as an action property, `WritesStand` (the transaction
does not replace a recorded file again; an editor still may), for any number of
commands, files, plans and faults; the assumptions are those of `DecisionAssumption` and `NoJournalAssumption`.

`DecisionRefinement`: `AtomicApplication`. Beside `Inv` it needs that what was
checked last before a write still holds while nobody raced (`RefInv`). Only the
receipt maps to `Apply`, edits and ordinary writes map to `Edit`, everything
else stutters.

`ContinuousProofs`: `Inv` relates ledger, memory, branch, index and files.
`InMemory`: the command's copy of the ledger differs from the file only until an
adopted definition is saved, and never in what a checkpoint depends on. `Sound`
holds of both copies: the pending checkpoint is a commit on its parent that
completes what it is made for, items that are done stay committed even if a
person commits whatever is staged, an unchanged inventory means that the active
item is committed, the ledger knows a head that is a checkpoint. `IndexHeld`:
what is staged stays as it was compared until the index is installed.
`UnknownKept`: sources nobody vouched for are in no commit unless a person
committed them, and while they are in the worktree the ledger does not know
them. `FullInv` adds the planner (`Planned`): the ledger it loaded and the one it
will save stay `Grounded`, the part of `Sound` that survives everything a run or
a person does meanwhile because commits are only added and the branch only grows
(`Extended`). Saving that ledger keeps `Inv` in full when it is still the one on
disk and no run is under way, and otherwise sets `overtaken`, on which the rest
is conditional. All safety and action properties of the run `continuous` follow;
`TypeCorrect`, `WholeItems`, `Retriable`, `OnlyGrows` and `StagingStays` hold
whatever the planner overtook. The
assumptions are those of `ContinuousAssumption` (every task has an item) and
`NothingAssumption` (what stands for no ledger or checkpoint is none). The
attempt to prove
`NoUnknownEffects` showed that the history variable `unknown` also named sources
that were already in a commit, to which a person had restored a file while a
task ran: `CommittedSources` are left out now, and the property names the commit
a person makes of such sources.

`GuidedProofs`: `ControlInv` bounds the mailbox and the driver's locals;
`MessageInv` says where a message can be and what was said of it: every accepted
message is pending, claimed, dropped, reported or about to be (`NoneLost`),
pending guidance was neither delivered nor reported (`PendingUntouched`), a
claim knows whether its text is in the context (`ClaimsTrue`), notices given and
prepared are true (`NoticesTrue`). `NoticesAreTrue`, `CancelStays` and
`TypeCorrect` follow, and `ActsOnGuidance` from the fact that from a request to
the end of its turn nothing is added to the context.

`VendorProofs`: `Inv` says that the locks on trees exclude each other and the
leases, that the fence belongs to one command, that the tree an operation locked
is in place while the operation still has its lock file (`LockHolderSeesTree`:
unless an operation whose lock was taken away replaced it, and then its fence
stays), and that tree, configuration and receipt are one publication whenever
the fence is away (`CoherentUnlessFenced`), which is what the second look of a
check pins (`SecondLook`). `LeasedTreeStays`, `LastRegistryRetained` and
`ReadyCoherent` follow, also for locks that a person removed.

Every invariant and every action property of a passing run is a theorem. Only
model-checked: the liveness properties (`FailureIsRecovered`, `CommandsEnd`,
`RecoveryCompletes`, `PendingSettles`, `GuidanceSettles`), because fairness and
`ENABLED` are outside the prover.

## Plan

1. `TaskLifecycle` and `TaskLock`, with proofs (done).
2. Decision transactions, and the atomic specification they implement, with
   proofs (done); a composition with `TaskLifecycle`, whose queue writers and
   evidence are `TaskWrite` and `evidence` here, is left.
3. Continuous run and checkpoint, guided sessions, vendored dependencies, with
   proofs (done).
4. Acceptance commits and repair transactions, two more users of the
   stage-and-replace pattern; bark's background runs, skott's session log.
5. An abstract lock that `TaskLock` implements while breakers do not overlap, and
   an abstract publication for `VendorPublication`.

## Not modelled

* Acceptance commits, repair, bark, the session log: see the plan.
* `blad` (rendering), configuration, discovery, status, help, wizard, the TUI and
  other presentation: no state outlives a command, or it is text.
* `galla`: namespaces, mounts and seccomp, whose meaning lies in the operating
  system.
* Agents and authoring: what a model writes is text, its outcome a free choice
  of the models. Transports and the supervisor of model servers: protocols of
  other programs, a reply is a free choice of `GuidedRun`.
