---------------------------- MODULE ContinuousRun ----------------------------
(***************************************************************************)
(* A bare `task run` of one component (task_commands/continuous.rs): the   *)
(* ready tasks are run one after the other under the operation lock, and   *)
(* completed items are committed as unaccepted checkpoints.  The ledger    *)
(* .kvist/continuous.json carries the run across failures, crashes and     *)
(* interruptions; a person edits, stages, commits, reschedules and         *)
(* reapproves at any time, and repeats the command.                        *)
(*                                                                         *)
(* Every step ends with the last durable write before the next read of the *)
(* repository, so that a crash or a person can come between any two.       *)
(***************************************************************************)
EXTENDS GitCheckpoint

CONSTANTS
    NumTasks,     \* tasks, in queue order
    ItemOf,       \* the lifecycle item of a task
    Scheduled,    \* the tasks of the queue at first
    Policy,       \* commit frequencies a configuration may choose
    NoItem, NoLedger, NoReview,
    MaxActs,      \* what a person does besides repeating the command
    MaxFaults     \* crashes, failed calls, interruptions, failed tasks

Task == 1..NumTasks
Item == {ItemOf[t] : t \in Task}

ASSUME ContinuousAssumption ==
    /\ NumTasks \in Nat /\ Scheduled \subseteq Task
    /\ DOMAIN ItemOf = Task /\ \A t \in Task : ItemOf[t] # NoItem
    /\ Policy \subseteq {"item", "component", "manual"}
    /\ MaxActs \in Nat /\ MaxFaults \in Nat

VARIABLES
    config,       \* task_run.commit and the identity of its approval
    revision,     \* of the intent the queue was authored against
    ledger,       \* .kvist/continuous.json
    mem,          \* the ledger the running command holds
    pc, task,     \* its step and the task it runs
    resumed,      \* the checkpoint it publishes was retained by an earlier one
    loaded, draft,  \* the ledger a decision command loaded, and what it will save
    versions,     \* contents of src written so far
    discarded,    \* history: items whose checkpoint was dropped as superseded
    unknown,      \* history: sources left by a task whose outcome was not saved
    touched,      \* history: a person changed the files while a command ran
    overtaken,    \* history: a decision command saved over the ledger of a run
    acts, faults  \* how much of the bounds is used

intent == <<config, revision>>
process == <<mem, pc, task, resumed>>
planner == <<loaded, draft, overtaken>>
history == <<discarded, unknown, touched>>
bounds == <<acts, faults>>
vars == <<git, intent, ledger, process, planner, history, versions, bounds>>

---------------------------------------------------------------------------
(* The queue and the files, as functions of an inventory *)

Status == {"pending", "open", "blocked", "completed"}

Queued(w) == DOMAIN w.todo
Completed(w, t) == t \in Queued(w) /\ w.todo[t] = "completed"
ItemTasks(w, i) == {t \in Queued(w) : ItemOf[t] = i}
Items(w) == {ItemOf[t] : t \in Queued(w)}
ItemCompleted(w, i) == \A t \in ItemTasks(w, i) : Completed(w, t)
AllCompleted(w) == \A t \in Queued(w) : Completed(w, t)
Ready(w) == {t \in Queued(w) : w.todo[t] = "pending"}

\* definition_digest: all of the queue but its lifecycle.
Definition == <<Queued(worktree), revision>>

\* effect_digest: source and reviews, not the queue.
Effects == <<worktree.src, worktree.review>>

\* record_final_state: the review index names the queue and the source.
Reviewed == [worktree EXCEPT !.review = <<worktree.todo, worktree.src>>]

---------------------------------------------------------------------------
(* The ledger *)

Automatic(l) == l.policy # "manual"

Fresh ==
    [phase |-> "running", policy |-> config.commit, identity |-> config.identity,
     definition |-> Definition, active |-> NoItem,
     done |-> IF config.commit = "item"
              THEN {i \in Items(worktree) : ItemCompleted(worktree, i)} ELSE {},
     baseline |-> worktree, expected |-> head, effects |-> Effects,
     pending |-> NoCheckpoint]

Running == pc # "idle"

\* One act of a person, a planning command included.
Act == acts < MaxActs /\ acts' = acts + 1

Save(l) == mem' = l /\ ledger' = l

Goto(there) == pc' = there

\* Return from run_locked, and release the operation lock.
Leave == pc' = "idle" /\ mem' = NoLedger /\ task' = 0 /\ resumed' = FALSE

\* Without another save, for the most part to refuse.
Stop ==
    /\ Leave
    /\ UNCHANGED <<git, intent, ledger, history, versions, bounds>>

Pause ==
    /\ ledger' = [mem EXCEPT !.phase = "paused"]
    /\ Leave

\* What a step that only moves on and may save leaves alone.
Quiet == UNCHANGED <<git, intent, task, resumed, history, versions, bounds>>
SaveAndGoto(l, there) == Save(l) /\ Goto(there) /\ Quiet

---------------------------------------------------------------------------
(* Starting *)

\* An awaiting-approval ledger gives way to a fresh run when unfinished work
\* was authored.
Replaceable(l) ==
    /\ l.phase = "awaiting" /\ l.pending = NoCheckpoint
    /\ l.definition # Definition
    /\ ~AllCompleted(worktree)

Retained == ledger # NoLedger /\ ~Replaceable(ledger)

\* item_groups: between the tasks of an unfinished item no other item has
\* an unfinished task.
Contiguous ==
    \A t, u, v \in Queued(worktree) :
        /\ t < u /\ u < v /\ ItemOf[t] = ItemOf[v] /\ ItemOf[u] # ItemOf[t]
        /\ ~ItemCompleted(worktree, ItemOf[t])
        => Completed(worktree, u)

\* ensure_component_attempts_recovered, then item_groups.
CanStart ==
    /\ pc = "idle"
    /\ \A t \in Queued(worktree) : worktree.todo[t] # "open"
    /\ config.commit = "item" => Contiguous

StartFresh ==
    /\ CanStart /\ ~Retained
    /\ config.commit = "manual" \/ Clean
    /\ SaveAndGoto(Fresh, "begun")

\* A paused run adopts a changed definition; a run without a pending
\* checkpoint adopts a changed approval.
Adopted(l) ==
    LET redefined ==
            IF l.definition = Definition THEN l
            ELSE [l EXCEPT !.definition = Definition, !.active = NoItem,
                           !.done = {i \in @ : ItemCompleted(worktree, i)}]
    IN  [redefined EXCEPT !.identity = config.identity]

StartRetained ==
    /\ CanStart /\ Retained
    /\ ledger.policy = config.commit
    /\ \/ ledger.definition = Definition
       \/ ledger.phase = "paused" /\ ledger.pending = NoCheckpoint
    /\ ledger.identity = config.identity \/ ledger.pending = NoCheckpoint
    /\ mem' = Adopted(ledger)
    /\ Goto("recover")
    /\ UNCHANGED ledger /\ Quiet

---------------------------------------------------------------------------
(* recover_orphaned_checkpoint *)

\* The tasks whose completion the checkpoint is about.
Finished(l) ==
    {t \in l.definition[1] : l.active \in {NoItem, ItemOf[t]}}

Rebased(l) == [l EXCEPT !.pending = Prepared]

\* The checkpoint is prepared again; Rebased(l) is saved.
Reprepare(l) ==
    /\ CanReprepare(l.pending)
    /\ CreatePrepared(Finished(l))
    /\ UNCHANGED <<worktree, head, index, indexLock, owner, history>>

\* Drop the checkpoint, pause, take what is there as the new baseline.  The
\* recorded HEAD is kept.
Superseded(l) ==
    [l EXCEPT !.pending = NoCheckpoint, !.phase = "paused",
              !.baseline = worktree, !.effects = Effects]

\* The worktree moved on; Superseded(l) is saved.
Discard(l) ==
    /\ worktree # l.pending.after
    /\ discarded' = discarded \cup {l.active}
    /\ UNCHANGED <<git, unknown, touched>>

Moved(l) == l.pending # NoCheckpoint /\ Orphaned(l.pending)

RecoverOrphan ==
    /\ pc = "recover"
    /\ IF Moved(mem)
       THEN \/ Reprepare(mem) /\ Save(Rebased(mem))
            \/ Discard(mem) /\ Save(Superseded(mem))
       ELSE UNCHANGED <<git, ledger, mem, history>>
    /\ Goto("effects")
    /\ UNCHANGED <<intent, task, resumed, versions, bounds>>

\* No change of the inventory is left to commit.
RefuseOrphan ==
    /\ pc = "recover" /\ Moved(mem)
    /\ worktree = mem.pending.after /\ ~CanReprepare(mem.pending)
    /\ Stop

---------------------------------------------------------------------------
(* decision_preflight: a decision command meets a retained ledger.  Planning  *)
(* finds no lock file when it starts and takes no lock: a run may come        *)
(* between any two of these steps.  An apply takes them under the lock.       *)

Planning == loaded # NoLedger

\* load; without a pending checkpoint nothing is recovered.
PlannerLoad ==
    /\ Act /\ ~Planning
    /\ ledger # NoLedger /\ ledger.pending # NoCheckpoint
    /\ loaded' = ledger
    /\ UNCHANGED <<git, intent, ledger, process, draft, overtaken, history, versions, faults>>

\* recover_orphaned_checkpoint up to its save.
PlannerPrepare ==
    /\ Planning /\ draft = NoLedger /\ Moved(loaded)
    /\ \/ Reprepare(loaded) /\ draft' = Rebased(loaded)
       \/ /\ worktree # loaded.pending.after
          /\ draft' = Superseded(loaded)
          /\ UNCHANGED <<git, history>>
    /\ UNCHANGED <<intent, ledger, process, loaded, overtaken, versions, bounds>>

\* save replaces the file, whatever it holds by now.
PlannerSave ==
    /\ draft # NoLedger
    /\ ledger' = draft
    /\ discarded' = IF draft.pending = NoCheckpoint THEN discarded \cup {draft.active}
                                                    ELSE discarded
    /\ overtaken' = (overtaken \/ Running \/ ledger # loaded)
    /\ loaded' = NoLedger /\ draft' = NoLedger
    /\ UNCHANGED <<git, intent, process, unknown, touched, versions, bounds>>

\* It has nothing to recover, refuses, fails or dies.
PlannerQuits ==
    /\ Planning
    /\ loaded' = NoLedger /\ draft' = NoLedger
    /\ UNCHANGED <<git, intent, ledger, process, overtaken, history, versions, bounds>>

---------------------------------------------------------------------------
(* Resuming *)

EffectsAsRecorded(l) == l.phase = "paused" \/ l.effects = Effects

CheckEffects ==
    /\ pc = "effects" /\ EffectsAsRecorded(mem)
    /\ Goto("baseline")
    /\ UNCHANGED <<mem, ledger>> /\ Quiet

RefuseEffects ==
    /\ pc = "effects" /\ ~EffectsAsRecorded(mem)
    /\ Stop

\* Mutant: the baseline is refreshed although work is uncommitted.
RebaselineDirty ==
    /\ pc = "baseline"
    /\ SaveAndGoto(IF mem.pending = NoCheckpoint
                   THEN [mem EXCEPT !.baseline = worktree, !.expected = head]
                   ELSE mem, "begun")

\* HEAD moved and everything is committed: start over from it.
Rebaseline ==
    /\ pc = "baseline"
    /\ SaveAndGoto(IF /\ mem.pending = NoCheckpoint /\ Automatic(mem)
                      /\ Clean /\ head # mem.expected
                   THEN [mem EXCEPT !.baseline = worktree, !.expected = head]
                   ELSE mem, "begun")

Begun ==
    /\ pc = "begun"
    /\ resumed' = (mem.pending # NoCheckpoint)
    /\ Goto(IF resumed' THEN "publish" ELSE "loop")
    /\ UNCHANGED <<git, intent, ledger, mem, task, history, versions, bounds>>

Interrupt ==
    /\ pc \in {"begun", "loop"} /\ faults < MaxFaults
    /\ Pause
    /\ faults' = faults + 1
    /\ UNCHANGED <<git, intent, history, versions, acts>>

---------------------------------------------------------------------------
(* The loop *)

SameDefinition == mem.definition = Definition

RefuseDefinition ==
    /\ pc = "loop" /\ ~SameDefinition
    /\ Stop

\* Mutant: one completed task completes the item.
ItemHasProgress ==
    mem.active # NoItem /\ \E t \in ItemTasks(worktree, mem.active) : Completed(worktree, t)

ItemIsDone == mem.active # NoItem /\ ItemCompleted(worktree, mem.active)

\* The active item is completed, or with it the component: then the review
\* index is written, and its digest saved, before the checkpoint.
FinishItem ==
    /\ pc = "loop" /\ SameDefinition /\ ItemIsDone
    /\ IF AllCompleted(worktree)
       THEN worktree' = Reviewed /\ Goto("reviewed")
       ELSE UNCHANGED worktree /\ Goto("checkpoint")
    /\ UNCHANGED <<commits, head, index, indexLock, owner, intent,
                   ledger, mem, task, resumed, history, versions, bounds>>

\* Mutant: the digest of the review index is not recorded.
SaveUnreviewed == pc = "reviewed" /\ SaveAndGoto(mem, "checkpoint")

SaveReviewed ==
    /\ pc = "reviewed"
    /\ SaveAndGoto([mem EXCEPT !.effects = Effects], "checkpoint")

\* All tasks are completed: the review index, then the component's checkpoint.
FinishComponent ==
    /\ pc = "loop" /\ SameDefinition /\ ~ItemIsDone /\ AllCompleted(worktree)
    /\ mem.phase # "awaiting"
    /\ worktree' = Reviewed
    /\ Goto(IF mem.policy = "component" THEN "checkpoint" ELSE "await")
    /\ UNCHANGED <<commits, head, index, indexLock, owner, intent,
                   ledger, mem, task, resumed, history, versions, bounds>>

Await ==
    /\ pc = "await"
    /\ ledger' = [mem EXCEPT !.phase = "awaiting", !.effects = Effects]
    /\ Leave
    /\ UNCHANGED <<git, intent, history, versions, bounds>>

AlreadyAwaiting ==
    /\ pc = "loop" /\ SameDefinition /\ ~ItemIsDone /\ AllCompleted(worktree)
    /\ mem.phase = "awaiting"
    /\ Stop

\* Ready tasks the active item leaves to choose from.
Eligible ==
    {t \in Ready(worktree) : mem.active \in {NoItem, ItemOf[t]}}

NothingReady ==
    /\ pc = "loop" /\ SameDefinition /\ ~ItemIsDone /\ ~AllCompleted(worktree)
    /\ Eligible = {}
    /\ Pause
    /\ UNCHANGED <<git, intent, history, versions, bounds>>

\* Mutant: a paused run stays paused while it works.
SelectTaskPaused ==
    /\ pc = "loop" /\ SameDefinition /\ ~ItemIsDone
    /\ Eligible # {}
    /\ task' = CHOOSE t \in Eligible : \A u \in Eligible : t <= u
    /\ Save([mem EXCEPT !.effects = Effects,
                        !.active = IF mem.policy = "item"
                                   THEN ItemOf[task'] ELSE NoItem])
    /\ Goto("start")
    /\ UNCHANGED <<git, intent, resumed, history, versions, bounds>>

SelectTask ==
    /\ pc = "loop" /\ SameDefinition /\ ~ItemIsDone
    /\ Eligible # {}
    /\ task' = CHOOSE t \in Eligible : \A u \in Eligible : t <= u
    /\ Save([mem EXCEPT !.phase = "running", !.effects = Effects,
                        !.active = IF mem.policy = "item"
                                   THEN ItemOf[task'] ELSE NoItem])
    /\ Goto("start")
    /\ UNCHANGED <<git, intent, resumed, history, versions, bounds>>

---------------------------------------------------------------------------
(* run_task_under_lock, reduced from module TaskLifecycle to what it does to *)
(* the files: the attempt opens and its agent writes, then the task ends     *)

WriteTodo(t, s) == [worktree EXCEPT !.todo[t] = s]

TaskStarts ==
    /\ pc = "start"
    /\ worktree' = [WriteTodo(task, "open") EXCEPT !.src = versions + 1]
    /\ versions' = versions + 1
    /\ Goto("task")
    /\ UNCHANGED <<commits, head, index, indexLock, owner, intent,
                   ledger, mem, task, resumed, history, bounds>>

TaskEnds ==
    /\ pc = "task"
    /\ \E s \in {"open", "blocked", "completed"} :
          /\ s # "completed" => faults < MaxFaults
          /\ faults' = IF s = "completed" THEN faults ELSE faults + 1
          /\ worktree' = WriteTodo(task, s)
    /\ Goto("ran")
    /\ UNCHANGED <<commits, head, index, indexLock, owner, intent,
                   ledger, mem, task, resumed, history, versions, acts>>

\* An error of the run pauses even when the task was completed.
RecordOutcome(ok) ==
    /\ pc = "ran"
    /\ LET l == [mem EXCEPT !.effects = Effects]
       IN  IF ok /\ Completed(worktree, task)
           THEN /\ Save([l EXCEPT !.phase = "running"])
                /\ Goto("loop") /\ task' = 0 /\ UNCHANGED resumed
           ELSE ledger' = [l EXCEPT !.phase = "paused"] /\ Leave
    /\ faults' = IF ok THEN faults ELSE faults + 1
    /\ UNCHANGED <<git, intent, history, versions, acts>>

---------------------------------------------------------------------------
(* create_checkpoint and finish_checkpoint *)

Checkpointed == IF mem.policy = "item" THEN "item" ELSE "await"

NothingToCheckpoint ==
    /\ pc = "checkpoint" /\ worktree = mem.baseline
    /\ Goto(Checkpointed)
    /\ UNCHANGED <<mem, ledger>> /\ Quiet

\* Mutant: the ledger is not saved before the branch advances.
PrepareUnsaved ==
    /\ pc = "checkpoint" /\ worktree # mem.baseline
    /\ CanPrepare(mem.expected, mem.baseline)
    /\ CreatePrepared(Finished(mem))
    /\ mem' = Rebased(mem)
    /\ resumed' = FALSE
    /\ Goto("publish")
    /\ UNCHANGED <<worktree, head, index, indexLock, owner, intent, ledger,
                   task, history, versions, bounds>>

Prepare ==
    /\ pc = "checkpoint" /\ worktree # mem.baseline
    /\ CanPrepare(mem.expected, mem.baseline)
    /\ CreatePrepared(Finished(mem))
    /\ Save(Rebased(mem))
    /\ resumed' = FALSE
    /\ Goto("publish")
    /\ UNCHANGED <<worktree, head, index, indexLock, owner, intent, task,
                   history, versions, bounds>>

RefusePrepare ==
    /\ pc = "checkpoint" /\ worktree # mem.baseline
    /\ ~CanPrepare(mem.expected, mem.baseline)
    /\ Stop

\* A person committed after the checkpoint was prepared.
ReprepareToPublish ==
    /\ pc = "publish" /\ Orphaned(mem.pending)
    /\ Reprepare(mem) /\ Save(Rebased(mem))
    /\ Goto("publish")
    /\ UNCHANGED <<intent, task, resumed, versions, bounds>>

RefuseReprepare ==
    /\ pc = "publish" /\ Orphaned(mem.pending) /\ ~CanReprepare(mem.pending)
    /\ Stop

PublishStep(here, there, step) ==
    /\ pc = here
    /\ step
    /\ Goto(there)
    /\ UNCHANGED <<intent, ledger, mem, task, resumed, history, versions, bounds>>

Lock == PublishStep("publish", "locked", LockIndex(mem.pending))
Own == PublishStep("locked", "owned", SetOwner(mem.pending, "empty"))
WriteOwner == PublishStep("owned", "verify", SetOwner(mem.pending, "written"))
Verify == PublishStep("verify", "advance", CanPublish(mem.pending) /\ UNCHANGED git)
AdvanceBranch == PublishStep("advance", "install", Advance(mem.pending))
Install == PublishStep("install", "settle", InstallIndex(mem.pending))

\* Steps that hold index.lock, so that a refusal removes it.
Locked == {"locked", "owned", "verify", "advance", "install", "settle"}

\* An error: without the lock nothing was done, with it Drop removes its files.
FailRun ==
    /\ Leave
    /\ IF pc \in Locked THEN DropLock(mem.pending) ELSE UNCHANGED <<indexLock, owner>>
    /\ UNCHANGED <<worktree, commits, head, index, intent, ledger, history,
                   versions, acts>>

RefusePublication ==
    /\ \/ pc = "publish" /\ ~Orphaned(mem.pending) /\ ~CanLockIndex(mem.pending)
       \/ pc = "verify" /\ ~CanPublish(mem.pending)
       \/ pc = "advance" /\ ~CanAdvance(mem.pending)
       \/ pc = "install" /\ head # mem.pending.commit
    /\ FailRun
    /\ UNCHANGED faults

\* Back in finish_checkpoint: the ledger forgets the checkpoint only when
\* HEAD, index and worktree all hold it.
CanSettle == Clean /\ head = mem.pending.commit

Settle ==
    /\ pc = "settle" /\ CanSettle
    /\ Save([mem EXCEPT !.expected = head, !.baseline = worktree,
                        !.effects = Effects, !.pending = NoCheckpoint])
    /\ DropLock(mem.pending)
    /\ Goto(IF resumed THEN "loop" ELSE Checkpointed)
    /\ UNCHANGED <<worktree, commits, head, index, intent, task, resumed,
                   history, versions, bounds>>

RefuseSettle ==
    /\ pc = "settle" /\ ~CanSettle
    /\ FailRun
    /\ UNCHANGED faults

\* Mutant: the active item is cleared before it is inserted.
RecordNoItem ==
    /\ pc = "item"
    /\ SaveAndGoto([mem EXCEPT !.done = @ \cup {NoItem}, !.active = NoItem], "loop")

\* checkpoint_item
RecordItem ==
    /\ pc = "item"
    /\ SaveAndGoto([mem EXCEPT !.done = @ \cup {mem.active}, !.active = NoItem], "loop")

---------------------------------------------------------------------------
(* Faults *)

\* A failed or timed out Git command, or a file that cannot be written.
Fail ==
    /\ pc \in Locked /\ faults < MaxFaults
    /\ FailRun
    /\ faults' = faults + 1

CommittedSources == {commits[c].inv.src : c \in DOMAIN commits}

\* The process dies, or an error stops it where it holds no lock.
Crash ==
    /\ pc # "idle" /\ faults < MaxFaults
    /\ Leave
    /\ faults' = faults + 1
    /\ unknown' = IF pc \in {"task", "ran"}
                  THEN unknown \cup ({worktree.src} \ ({mem.effects[1]} \cup CommittedSources))
                  ELSE unknown
    /\ UNCHANGED <<git, intent, ledger, discarded, touched, versions, acts>>

---------------------------------------------------------------------------
(* What a person does *)

Edits(w) ==
    /\ w # worktree
    /\ worktree' = w
    /\ touched' = (touched \/ Running)
    /\ UNCHANGED <<commits, head, index, indexLock, owner, ledger, process,
                   discarded, unknown, faults>>

Edit ==
    /\ Act
    /\ Edits([worktree EXCEPT !.src = versions + 1])
    /\ versions' = versions + 1
    /\ UNCHANGED intent

\* git checkout of source and reviews.
Restore ==
    /\ Act
    /\ Edits([worktree EXCEPT !.src = Tree(head).inv.src,
                              !.review = Tree(head).inv.review])
    /\ UNCHANGED <<intent, versions>>

\* TODOS.yaml gets another task.
Schedule ==
    /\ Act /\ pc \notin {"start", "task", "ran"}
    /\ \E t \in Task \ Queued(worktree) :
          Edits([worktree EXCEPT !.todo = [u \in Queued(worktree) \cup {t} |->
                    IF u = t THEN "pending" ELSE worktree.todo[u]]])
    /\ UNCHANGED <<intent, versions>>

\* The tasks are authored anew against another revision of the intent.
Revise ==
    /\ Act /\ ~Running
    /\ revision' = revision + 1
    /\ UNCHANGED <<git, config, ledger, process, history, versions, faults>>

\* task recover, or an unblocking transition, under the operation lock.
Resolve ==
    /\ Act /\ ~Running
    /\ \E t \in Queued(worktree) :
          /\ worktree.todo[t] \in {"open", "blocked"}
          /\ Edits(WriteTodo(t, "pending"))
    /\ UNCHANGED <<intent, versions>>

Reapprove ==
    /\ Act /\ ~Running
    /\ \E p \in Policy : config' = [commit |-> p, identity |-> config.identity + 1]
    /\ UNCHANGED <<git, revision, ledger, process, history, versions, faults>>

GitCommand ==
    /\ Act
    /\ \/ Stage([index EXCEPT !.inv = worktree])
       \/ Stage([index EXCEPT !.other = acts + 2])
       \/ Commit
       \/ ~Running /\ RemoveIndexLock
    /\ UNCHANGED <<intent, ledger, process, history, versions, faults>>

---------------------------------------------------------------------------
Init ==
    /\ worktree = [todo |-> [t \in Scheduled |-> "pending"], src |-> 0,
                   review |-> NoReview]
    /\ commits = <<NewCommit(0, [inv |-> worktree, other |-> 0], {})>>
    /\ head = 1
    /\ index \in [inv : {worktree}, other : {0, 1}]  \* unrelated staging
    /\ indexLock = NoCheckpoint /\ owner = <<>>
    /\ config \in [commit : Policy, identity : {0}]
    /\ revision = 0
    /\ ledger = NoLedger /\ mem = NoLedger
    /\ pc = "idle" /\ task = 0 /\ resumed = FALSE
    /\ versions = 0
    /\ loaded = NoLedger /\ draft = NoLedger
    /\ discarded = {} /\ unknown = {} /\ touched = FALSE /\ overtaken = FALSE
    /\ acts = 0 /\ faults = 0

\* What the running command does.
RunStep ==
    \/ StartFresh \/ StartRetained
    \/ RecoverOrphan \/ RefuseOrphan \/ CheckEffects \/ RefuseEffects
    \/ Rebaseline \/ Begun
    \/ RefuseDefinition \/ FinishItem \/ SaveReviewed
    \/ FinishComponent \/ Await \/ AlreadyAwaiting
    \/ NothingReady \/ SelectTask \/ TaskStarts \/ TaskEnds \/ RecordOutcome(TRUE)
    \/ NothingToCheckpoint \/ Prepare \/ RefusePrepare
    \/ ReprepareToPublish \/ RefuseReprepare
    \/ Lock \/ Own \/ WriteOwner \/ Verify \/ AdvanceBranch \/ Install
    \/ RefusePublication \/ Settle \/ RefuseSettle \/ RecordItem

RunFault == Interrupt \/ (faults < MaxFaults /\ RecordOutcome(FALSE)) \/ Fail \/ Crash

PersonActs ==
    \/ Edit \/ Restore \/ Schedule \/ Revise \/ Resolve
    \/ Reapprove \/ GitCommand

Step == RunStep /\ UNCHANGED planner
Fault == RunFault /\ UNCHANGED planner
Person == PersonActs /\ UNCHANGED planner
Planner == PlannerLoad \/ PlannerPrepare \/ PlannerSave \/ PlannerQuits

Next == Step \/ Fault \/ Person \/ Planner

Spec == Init /\ [][Next]_vars

\* A command that runs goes on, and a person repeats one that stopped.
Fairness == WF_vars(Step)
FairSpec == Spec /\ Fairness
---------------------------------------------------------------------------
Queue == UNION {[S -> Status] : S \in SUBSET Task}
Review == {NoReview} \cup (Queue \X Nat)
Inventory == [todo : Queue, src : Nat, review : Review]
PreparedCommit == [commit : Nat, parent : Nat, after : Inventory]

Ledger ==
    [phase : {"running", "paused", "awaiting"}, policy : Policy, identity : Nat,
     definition : (SUBSET Task) \X Nat, active : Item \cup {NoItem},
     done : SUBSET Item, baseline : Inventory, expected : Nat,
     effects : Nat \X Review, pending : PreparedCommit \cup {NoCheckpoint}]

ASSUME NothingAssumption ==
    NoCheckpoint \notin Nat \cup PreparedCommit /\ NoLedger \notin Ledger

RunTypeOK ==
    /\ worktree \in Inventory
    /\ index \in [inv : Inventory, other : Nat]
    /\ commits \in Seq([parent : Nat, inv : Inventory, other : Nat,
                        tasks : SUBSET Task])
    /\ head \in DOMAIN commits
    /\ indexLock \in DOMAIN commits \cup {NoCheckpoint}
    /\ DOMAIN owner \subseteq DOMAIN commits
    /\ config \in [commit : Policy, identity : Nat] /\ revision \in Nat
    /\ ledger \in Ledger \cup {NoLedger} /\ mem \in Ledger \cup {NoLedger}
    /\ pc \in Locked \cup {"idle", "recover", "effects", "baseline", "begun",
                           "loop", "reviewed", "checkpoint", "await", "start",
                           "task", "ran", "publish", "item"}
    /\ task \in Task \cup {0} /\ resumed \in BOOLEAN
    /\ versions \in Nat /\ acts \in Nat /\ faults \in Nat
    /\ discarded \subseteq Item \cup {NoItem} /\ unknown \subseteq Nat
    /\ touched \in BOOLEAN

PlannerTypeOK ==
    /\ loaded \in Ledger \cup {NoLedger} /\ draft \in Ledger \cup {NoLedger}
    /\ overtaken \in BOOLEAN

TypeOK == RunTypeOK /\ PlannerTypeOK

Pending == ledger # NoLedger /\ ledger.pending # NoCheckpoint

\* The checkpoints on the branch.
Checkpoints ==
    {c \in DOMAIN commits : commits[c].tasks # {} /\ c \in Ancestors(head)}

\* A person committed the source.
ByPerson(src) ==
    \E c \in DOMAIN commits : commits[c].tasks = {} /\ commits[c].inv.src = src

---------------------------------------------------------------------------
(* Properties *)

\* An item the ledger calls completed is committed: HEAD's queue has all its
\* tasks completed, whatever failed, crashed or was committed by a person on
\* the way, except for an item whose checkpoint was discarded, and unless a
\* decision command saved the ledger it had loaded over a later one.
CompletedItemsCommitted ==
    ledger # NoLedger /\ ~overtaken =>
        \A i \in ledger.done \ discarded :
            \A t \in ledger.definition[1] :
                ItemOf[t] = i => Completed(Tree(head).inv, t)

\* A checkpoint on the branch holds all tasks of its item (of the component,
\* for that policy) completed, as the definition the run adopted names them,
\* although the queue is read again after the item was found complete.
CheckpointsHoldWholeItems ==
    \A c \in Checkpoints :
        \A t \in commits[c].tasks : Completed(commits[c].inv, t)

\* When a checkpoint is the tip of the branch, the ledger on disk knows it: as
\* its HEAD, or as its pending checkpoint, so that a repeated run recognizes
\* it instead of committing the same work again.  A decision command being
\* planned, which takes no lock, does not break this unless it saves the ledger
\* it had loaded over a later one, or while a run holds its own.
PublishedIsKnown ==
    head \in Checkpoints /\ ~overtaken =>
        \/ ledger.expected = head
        \/ Pending /\ ledger.pending.commit = head

\* Sources a task left behind when the run died before its outcome was saved
\* are in no checkpoint, unless a person committed them: recovery does not
\* infer that they are safe, as long as its ledger was not saved over.
NoUnknownEffects ==
    ~overtaken => \A c \in Checkpoints :
        commits[c].inv.src \in unknown => ByPerson(commits[c].inv.src)

\* The branch only grows, one commit at a time, over whatever a person
\* committed meanwhile; a checkpoint changes the inventory and nothing else.
BranchOnlyGrows ==
    [][head' # head =>
          LET c == commits'[head']
          IN  /\ c.parent = head
              /\ c.tasks # {} => c.inv # Tree(head).inv /\ c.other = Tree(head).other]_vars

\* Staging survives: a run replaces only staged contents that HEAD or its
\* parent holds, and never what is staged outside of the inventory.
StagingKept ==
    [][index' # index /\ acts' = acts =>
          /\ index'.other = index.other
          /\ index.inv \in {commits[c].inv : c \in {head, commits[head].parent}}]_vars

\* A repeated run does not take the files of its own retained checkpoint for
\* foreign changes, when nobody touched them while a command ran.
CheckpointRetriable ==
    /\ pc = "idle" /\ Pending /\ ~touched
    /\ worktree = ledger.pending.after
    => EffectsAsRecorded(ledger)

\* CheckpointRetriable for the default policy, whose review index is recorded
\* before the checkpoint is prepared.
ItemCheckpointRetriable ==
    Pending /\ ledger.policy = "item" => CheckpointRetriable

\* The reasons for which a run leaves its retained checkpoint to a person.
NeedsPerson ==
    LET p == ledger.pending IN
    \/ ~EffectsAsRecorded(ledger)
    \/ worktree # p.after
    \/ IF Orphaned(p) THEN worktree = Tree(head).inv \/ index.inv # Tree(head).inv
                      ELSE ~StagedAsPrepared(p)
    \/ ledger.definition # Definition
    \/ ledger.policy # config.commit \/ ledger.identity # config.identity
    \/ /\ pc = "idle"
       /\ IF p.commit \in DOMAIN owner THEN owner[p.commit] = "empty"
                                        ELSE indexLock # NoCheckpoint

\* A retained checkpoint is published by repeating the run, after any crash
\* and on top of foreign commits, or one of the listed reasons asks for a
\* person: files, staging, definition or approval changed, the work already
\* committed by hand, or an index.lock without a complete owner file.
PendingSettles == Pending ~> (~Pending \/ NeedsPerson)
=============================================================================
