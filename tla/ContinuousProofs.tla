-------------------------- MODULE ContinuousProofs --------------------------
(***************************************************************************)
(* Proofs about continuous runs and their checkpoints: for any number of   *)
(* tasks and items, any commit policies, and any number of faults and acts *)
(* of a person, the branch only grows, checkpoints hold whole items and no *)
(* effects nobody vouched for, what the ledger calls committed is, staged  *)
(* contents survive, and a retained checkpoint can be published.  A        *)
(* decision command being planned interleaves with all of it; what only    *)
(* holds while it saved over no later ledger is conditional on overtaken.  *)
(***************************************************************************)
EXTENDS ContinuousRun, TLAPS, SequenceTheorems, WellFoundedInduction

---------------------------------------------------------------------------
(* The inductive invariant *)

\* Steps of a run that has no pending checkpoint, and of one that has.
Working == {"loop", "reviewed", "checkpoint", "await", "start", "task", "ran", "item"}
Publishing == {"publish"} \cup Locked

\* The command's copy of the ledger: it differs from the file only before the
\* adopted definition is saved, and never in what a checkpoint depends on,
\* unless a decision command saved over the file.
InMemory ==
    /\ pc = "idle" <=> mem = NoLedger
    /\ mem # NoLedger => ledger # NoLedger
    /\ mem # NoLedger /\ ~overtaken =>
          /\ mem.phase = ledger.phase /\ mem.policy = ledger.policy
          /\ mem.baseline = ledger.baseline /\ mem.expected = ledger.expected
          /\ mem.effects = ledger.effects /\ mem.pending = ledger.pending
          /\ mem.pending # NoCheckpoint =>
                mem.definition = ledger.definition /\ mem.active = ledger.active
    /\ pc \notin {"idle", "recover", "effects", "baseline"} => overtaken \/ mem = ledger
    /\ pc \in Working => mem.pending = NoCheckpoint
    /\ pc \in Publishing => mem.pending # NoCheckpoint

\* A task that runs is one of the definition and not completed before it ends.
Executing ==
    /\ pc \in {"start", "task", "ran"} =>
          /\ task \in Queued(worktree) /\ task \in mem.definition[1]
          /\ mem.phase = "running"
    /\ pc \in {"start", "task"} => ~Completed(worktree, task)

\* What is staged stays as it was compared until the index is installed.
IndexHeld ==
    /\ pc \in {"locked", "owned", "verify", "advance", "install"} =>
          indexLock = mem.pending.commit
    /\ pc \in {"advance", "install"} => StagedAsPrepared(mem.pending)

\* Tasks stay completed: every other copy of the queue is behind the worktree's.
Behind(w) == \A t \in Task : Completed(w, t) => Completed(worktree, t)

\* All commit objects, published or not, are as they should be.
Objects ==
    /\ Behind(index.inv)
    /\ \A c \in DOMAIN commits :
          /\ commits[c].parent < c
          /\ Behind(commits[c].inv)
          /\ \A t \in commits[c].tasks : Completed(commits[c].inv, t)
    /\ commits[head].tasks # {} => ledger # NoLedger

\* The pending checkpoint is a commit on top of its parent that changes the
\* inventory only and completes what it is made for.
PendingPrepared(l) ==
    l.pending # NoCheckpoint =>
        LET p == l.pending
        IN  /\ p.commit \in DOMAIN commits /\ p.parent \in DOMAIN commits
            /\ p.parent <= head
            /\ commits[p.commit].parent = p.parent
            /\ commits[p.commit].inv = p.after
            /\ commits[p.commit].other = commits[p.parent].other
            /\ p.after # commits[p.parent].inv
            /\ \A t \in Finished(l) : Completed(p.after, t)
            /\ \A t \in Task : Completed(commits[p.parent].inv, t) => Completed(p.after, t)

\* Tasks are completed only under a definition that names them.
OnlyDefined(l) == overtaken \/ \A t \in Task : Completed(worktree, t) => t \in l.definition[1]

\* A commit of whatever is staged keeps the task completed, while the ledger
\* was not saved over.
Committed(t) == overtaken \/ (Completed(Tree(head).inv, t) /\ Completed(index.inv, t))

ItemCommitted(l, i) == \A t \in l.definition[1] : ItemOf[t] = i => Committed(t)

DoneCommitted(l) == \A i \in l.done \ discarded : ItemCommitted(l, i)

\* An unchanged inventory means that the active item is committed.
ActiveCommitted(l) ==
    l.active \notin discarded \cup {NoItem} =>
        \/ \E t \in l.definition[1] : ItemOf[t] = l.active /\ ~Completed(l.baseline, t)
        \/ ItemCommitted(l, l.active)

KnowsHead(l) ==
    commits[head].tasks # {} /\ ~overtaken =>
        \/ l.expected = head
        \/ l.pending # NoCheckpoint /\ l.pending.commit = head

\* Without a person's edits the effects of a checkpoint are the recorded ones.
KnowsEffects(l) ==
    ~touched /\ l.pending # NoCheckpoint /\ l.policy = "item" =>
        \/ l.phase = "paused"
        \/ l.effects = <<l.pending.after.src, l.pending.after.review>>

Sound(l) ==
    /\ PendingPrepared(l) /\ Behind(l.baseline) /\ OnlyDefined(l)
    /\ DoneCommitted(l) /\ ActiveCommitted(l) /\ KnowsHead(l) /\ KnowsEffects(l)

\* The part that also holds of a ledger loaded some time ago.
Grounded(l) == PendingPrepared(l) /\ Behind(l.baseline) /\ KnowsEffects(l)

Ledgers == /\ ledger # NoLedger => Sound(ledger)
           /\ mem # NoLedger => Sound(mem)

\* From finding an item completed to recording it.
ItemInHand ==
    /\ pc \in {"reviewed", "checkpoint"} =>
          \A t \in Finished(mem) : Completed(worktree, t)
    /\ pc = "reviewed" => mem.active # NoItem
    /\ pc = "checkpoint" /\ mem.policy = "item" => mem.active # NoItem
    /\ pc \in Publishing /\ ~resumed /\ mem.policy = "item" => mem.active # NoItem
    /\ pc = "item" => /\ mem.active # NoItem
                      /\ mem.active \notin discarded => ItemCommitted(mem, mem.active)

\* Unknown sources are in no commit, and while they are in the worktree the
\* ledger does not know them.
Unrecorded(src) ==
    /\ src \notin CommittedSources
    /\ worktree.src = src =>
          /\ ledger # NoLedger /\ ledger.phase = "running"
          /\ ledger.effects[1] # src /\ ledger.pending = NoCheckpoint
          /\ pc \in {"idle", "recover", "effects"}

\* A person vouched for the source, or the ledger was saved over.
Excused(src) == overtaken \/ ByPerson(src)

UnknownKept ==
    /\ worktree.src \in 0 .. versions \cup CommittedSources
    /\ \A src \in unknown : src <= versions
    /\ \A src \in unknown : Excused(src) \/ Unrecorded(src)

\* Without a person's edits the recorded effects are the files'.
EffectsKnown ==
    /\ ~touched
    /\ \/ pc \in {"baseline", "begun", "loop", "item"}
       \/ pc = "checkpoint" /\ mem.policy = "item"
    => EffectsAsRecorded(mem)

Inv ==
    /\ RunTypeOK /\ InMemory /\ Executing /\ IndexHeld /\ Objects /\ Ledgers
    /\ ItemInHand /\ UnknownKept /\ EffectsKnown

---------------------------------------------------------------------------
(* Ledgers and inventories *)

LEMMA QueueTyped ==
    ASSUME NEW q
    PROVE  q \in Queue <=> q \in [DOMAIN q -> Status] /\ DOMAIN q \subseteq Task
  BY DEF Queue

LEMMA InventoryTyped ==
    ASSUME NEW w \in Inventory
    PROVE  /\ w.todo \in [Queued(w) -> Status] /\ Queued(w) \subseteq Task
           /\ w.todo \in Queue /\ w.src \in Nat /\ w.review \in Review
  BY QueueTyped DEF Inventory, Queued

\* A person or a task writes source, reviews or the queue.
LEMMA Written ==
    ASSUME NEW w \in Inventory
    PROVE  /\ \A n \in Nat : /\ [w EXCEPT !.src = n] \in Inventory
                             /\ [w EXCEPT !.src = n].todo = w.todo
                             /\ [w EXCEPT !.src = n].src = n
           /\ \A r \in Review : /\ [w EXCEPT !.review = r] \in Inventory
                                /\ [w EXCEPT !.review = r].todo = w.todo
                                /\ [w EXCEPT !.review = r].src = w.src
           /\ \A q \in Queue : /\ [w EXCEPT !.todo = q] \in Inventory
                               /\ [w EXCEPT !.todo = q].todo = q
                               /\ [w EXCEPT !.todo = q].src = w.src
  BY DEF Inventory

LEMMA LedgerFields ==
    ASSUME NEW l \in Ledger
    PROVE  /\ l.phase \in {"running", "paused", "awaiting"} /\ l.policy \in Policy
           /\ l.identity \in Nat
           /\ l.definition[1] \subseteq Task /\ l.definition \in (SUBSET Task) \X Nat
           /\ l.active \in Item \cup {NoItem} /\ l.done \subseteq Item
           /\ l.baseline \in Inventory /\ l.expected \in Nat
           /\ l.effects \in Nat \X Review
           /\ l.pending \in PreparedCommit \cup {NoCheckpoint}
           /\ l # NoLedger
  BY NothingAssumption DEF Ledger

LEMMA PendingFields ==
    ASSUME NEW l \in Ledger, l.pending # NoCheckpoint
    PROVE  /\ l.pending \in PreparedCommit
           /\ l.pending.commit \in Nat /\ l.pending.parent \in Nat
           /\ l.pending.after \in Inventory
  BY LedgerFields DEF PreparedCommit

---------------------------------------------------------------------------
(* What a save changes of the ledger *)

LEMMA SetPhase ==
    ASSUME NEW l \in Ledger, NEW phase \in {"running", "paused", "awaiting"}
    PROVE  LET n == [l EXCEPT !.phase = phase]
           IN  /\ n \in Ledger /\ n.phase = phase
               /\ n.policy = l.policy /\ n.definition = l.definition
               /\ n.active = l.active /\ n.done = l.done
               /\ n.baseline = l.baseline /\ n.expected = l.expected
               /\ n.effects = l.effects /\ n.pending = l.pending
  BY DEF Ledger

LEMMA SetPending ==
    ASSUME NEW l \in Ledger, NEW p \in PreparedCommit
    PROVE  LET n == [l EXCEPT !.pending = p]
           IN  /\ n \in Ledger /\ n.pending = p
               /\ n.phase = l.phase /\ n.policy = l.policy /\ n.definition = l.definition
               /\ n.active = l.active /\ n.done = l.done
               /\ n.baseline = l.baseline /\ n.expected = l.expected
               /\ n.effects = l.effects
  BY DEF Ledger

LEMMA SetSuperseded ==
    ASSUME NEW l \in Ledger, worktree \in Inventory
    PROVE  LET n == Superseded(l)
           IN  /\ n \in Ledger /\ n.pending = NoCheckpoint /\ n.phase = "paused"
               /\ n.baseline = worktree /\ n.effects = Effects
               /\ n.policy = l.policy /\ n.definition = l.definition
               /\ n.active = l.active /\ n.done = l.done /\ n.expected = l.expected
  BY InventoryTyped DEF Ledger, Superseded, Effects

LEMMA SetEffects ==
    ASSUME NEW l \in Ledger, NEW e \in Nat \X Review
    PROVE  LET n == [l EXCEPT !.effects = e]
           IN  /\ n \in Ledger /\ n.effects = e
               /\ n.phase = l.phase /\ n.policy = l.policy /\ n.definition = l.definition
               /\ n.active = l.active /\ n.done = l.done
               /\ n.baseline = l.baseline /\ n.expected = l.expected
               /\ n.pending = l.pending
  BY DEF Ledger

LEMMA SetSettled ==
    ASSUME NEW l \in Ledger, NEW c \in Nat, NEW w \in Inventory, NEW e \in Nat \X Review
    PROVE  LET n == [l EXCEPT !.expected = c, !.baseline = w, !.effects = e,
                              !.pending = NoCheckpoint]
           IN  /\ n \in Ledger /\ n.expected = c /\ n.baseline = w /\ n.effects = e
               /\ n.pending = NoCheckpoint
               /\ n.phase = l.phase /\ n.policy = l.policy /\ n.definition = l.definition
               /\ n.active = l.active /\ n.done = l.done
  BY DEF Ledger

LEMMA SetDone ==
    ASSUME NEW l \in Ledger, NEW i \in Item
    PROVE  LET n == [l EXCEPT !.done = @ \cup {i}, !.active = NoItem]
           IN  /\ n \in Ledger /\ n.done = l.done \cup {i} /\ n.active = NoItem
               /\ n.phase = l.phase /\ n.policy = l.policy /\ n.definition = l.definition
               /\ n.baseline = l.baseline /\ n.expected = l.expected
               /\ n.effects = l.effects /\ n.pending = l.pending
  BY DEF Ledger

LEMMA SetAdopted ==
    ASSUME NEW l \in Ledger, worktree \in Inventory, config.identity \in Nat, revision \in Nat
    PROVE  LET n == Adopted(l)
           IN  /\ n \in Ledger
               /\ n.phase = l.phase /\ n.policy = l.policy
               /\ n.baseline = l.baseline /\ n.expected = l.expected
               /\ n.effects = l.effects /\ n.pending = l.pending
               /\ l.definition = Definition =>
                     n.definition = l.definition /\ n.active = l.active /\ n.done = l.done
               /\ l.definition # Definition =>
                     /\ n.definition = Definition /\ n.active = NoItem
                     /\ n.done = {i \in l.done : ItemCompleted(worktree, i)}
  <1>1. Definition \in (SUBSET Task) \X Nat
        BY InventoryTyped DEF Definition
  <1> HIDE DEF Definition
  <1>2. CASE l.definition = Definition
        BY <1>2 DEF Ledger, Adopted
  <1>3. CASE l.definition # Definition
    <2> DEFINE kept == {i \in l.done : ItemCompleted(worktree, i)}
               n == [l EXCEPT !.definition = Definition, !.active = NoItem, !.done = kept]
    <2>1. kept \subseteq Item
          BY LedgerFields
    <2>2. Adopted(l) = [n EXCEPT !.identity = config.identity]
          BY <1>3 DEF Adopted
    <2> HIDE DEF kept
    <2>3. /\ n \in Ledger /\ n.definition = Definition /\ n.active = NoItem /\ n.done = kept
          /\ n.phase = l.phase /\ n.policy = l.policy
          /\ n.baseline = l.baseline /\ n.expected = l.expected
          /\ n.effects = l.effects /\ n.pending = l.pending
          BY <2>1, <1>1 DEF Ledger
    <2> HIDE DEF n
    <2>4. /\ [n EXCEPT !.identity = config.identity] \in Ledger
          /\ [n EXCEPT !.identity = config.identity].definition = n.definition
          /\ [n EXCEPT !.identity = config.identity].active = n.active
          /\ [n EXCEPT !.identity = config.identity].done = n.done
          /\ [n EXCEPT !.identity = config.identity].phase = n.phase
          /\ [n EXCEPT !.identity = config.identity].policy = n.policy
          /\ [n EXCEPT !.identity = config.identity].baseline = n.baseline
          /\ [n EXCEPT !.identity = config.identity].expected = n.expected
          /\ [n EXCEPT !.identity = config.identity].effects = n.effects
          /\ [n EXCEPT !.identity = config.identity].pending = n.pending
          BY <2>3 DEF Ledger
    <2> QED BY <1>3, <2>2, <2>3, <2>4 DEF kept
  <1> QED BY <1>2, <1>3

LEMMA FreshFields ==
    ASSUME RunTypeOK
    PROVE  /\ Fresh \in Ledger
           /\ Fresh.definition = Definition /\ Fresh.active = NoItem
           /\ \A i \in Fresh.done : config.commit = "item" /\ ItemCompleted(worktree, i)
           /\ Fresh.baseline = worktree /\ Fresh.expected = head
           /\ Fresh.pending = NoCheckpoint /\ Fresh.effects = Effects
           /\ Fresh.policy = config.commit
  <1> DEFINE done == IF config.commit = "item"
                     THEN {i \in Items(worktree) : ItemCompleted(worktree, i)} ELSE {}
  <1>1. /\ worktree \in Inventory /\ head \in Nat /\ revision \in Nat
        /\ config.commit \in Policy /\ config.identity \in Nat
        BY LenProperties DEF RunTypeOK
  <1>2. Definition \in (SUBSET Task) \X Nat /\ Effects \in Nat \X Review
        BY <1>1, InventoryTyped DEF Definition, Effects
  <1>3. done \subseteq Item
        BY <1>1, InventoryTyped DEF Items, Item
  <1>4. \A i \in done : config.commit = "item" /\ ItemCompleted(worktree, i)
        OBVIOUS
  <1>5. Fresh = [phase |-> "running", policy |-> config.commit, identity |-> config.identity,
                 definition |-> Definition, active |-> NoItem, done |-> done,
                 baseline |-> worktree, expected |-> head, effects |-> Effects,
                 pending |-> NoCheckpoint]
        BY DEF Fresh
  <1> HIDE DEF done, Definition, Effects
  <1> QED BY <1>1, <1>2, <1>3, <1>4, <1>5 DEF Ledger

---------------------------------------------------------------------------
(* The steps, by what they change *)

\* The command leaves; the ledger stays as it was saved.
Leaves ==
    \/ RefuseOrphan \/ RefuseEffects \/ RefuseDefinition \/ AlreadyAwaiting
    \/ RefusePrepare \/ RefuseReprepare \/ RefusePublication \/ RefuseSettle
    \/ Fail \/ Crash

\* The ledger in memory stays.
Moves ==
    \/ CheckEffects \/ Begun \/ NothingToCheckpoint \/ Lock \/ Own \/ WriteOwner \/ Verify

\* The ledger is saved and the run goes on, or leaves.
Saves ==
    \/ StartFresh \/ StartRetained \/ Rebaseline \/ SaveReviewed \/ SelectTask
    \/ RecordOutcome(TRUE) \/ Settle \/ RecordItem
    \/ Interrupt \/ Await \/ NothingReady \/ (faults < MaxFaults /\ RecordOutcome(FALSE))

\* The inventory's files are written.
Writes ==
    \/ FinishItem \/ FinishComponent \/ TaskStarts \/ TaskEnds
    \/ Edit \/ Restore \/ Schedule \/ Resolve

\* A commit is prepared, or a pending one discarded.
Prepares == RecoverOrphan \/ Prepare \/ ReprepareToPublish

\* Branch, index and settings.
Publishes == AdvanceBranch \/ Install \/ GitCommand \/ Revise \/ Reapprove

Runs == Leaves \/ Moves \/ Saves \/ Writes \/ Prepares \/ Publishes

LEMMA Steps == Next => (Runs /\ UNCHANGED planner) \/ Planner
  <1>1. RunStep \/ RunFault \/ PersonActs => Runs
        BY DEF RunStep, RunFault, PersonActs, Runs, Leaves, Moves, Saves, Writes, Prepares, Publishes
  <1> QED BY <1>1 DEF Next, Step, Fault, Person

---------------------------------------------------------------------------
(* Steps that leave files, branch, index and ledger alone *)

\* A ledger is judged by files, branch, index and two of the histories.
LEMMA SameSound ==
    ASSUME UNCHANGED <<worktree, commits, head, index, discarded, touched, overtaken>>
    PROVE  \A l : Sound(l) => Sound(l)'
  BY DEF Sound, PendingPrepared, Behind, OnlyDefined, DoneCommitted, ActiveCommitted,
         ItemCommitted, Committed, KnowsHead, KnowsEffects, Finished, Completed, Queued, Tree

LEMMA SameUnknown ==
    ASSUME UNCHANGED <<commits, ledger, unknown, versions, overtaken>>, worktree'.src = worktree.src,
           UnknownKept,
           pc' \in {"idle", "recover", "effects"} \/ pc \notin {"idle", "recover", "effects"}
    PROVE  UnknownKept'
  <1>1. ASSUME NEW src \in unknown PROVE Excused(src)' \/ Unrecorded(src)'
    <2>1. CASE Excused(src)
          BY <2>1 DEF Excused, ByPerson
    <2>2. CASE Unrecorded(src)
          BY <2>2 DEF Unrecorded, CommittedSources
    <2> QED BY <2>1, <2>2 DEF UnknownKept
  <1> QED BY <1>1 DEF UnknownKept, CommittedSources

\* Whoever is gone has no ledger in memory.
LEMMA Left ==
    ASSUME Inv, UNCHANGED overtaken, Leave, unknown' \subseteq Nat, UnknownKept',
           UNCHANGED <<worktree, commits, head, index, ledger, config, revision, discarded,
                       touched, versions>>,
           indexLock' \in DOMAIN commits \cup {NoCheckpoint}, DOMAIN owner' \subseteq DOMAIN commits,
           acts' \in Nat, faults' \in Nat
    PROVE  Inv'
  <1>1. pc' = "idle" /\ mem' = NoLedger /\ task' = 0 /\ resumed' = FALSE
        BY DEF Leave
  <1>2. RunTypeOK'
        BY <1>1 DEF Inv, RunTypeOK
  <1>3. InMemory' /\ Executing' /\ IndexHeld' /\ ItemInHand' /\ EffectsKnown'
        BY <1>1 DEF InMemory, Executing, IndexHeld, ItemInHand, EffectsKnown, Working,
                    Publishing, Locked
  <1>4. Objects'
        BY DEF Inv, Objects, Behind, Completed, Queued
  <1>5. Ledgers'
        BY <1>1, SameSound DEF Inv, Ledgers
  <1> QED BY <1>2, <1>3, <1>4, <1>5 DEF Inv

LEMMA DropLockTyped ==
    ASSUME Inv, FailRun
    PROVE  /\ indexLock' \in DOMAIN commits \cup {NoCheckpoint}
           /\ DOMAIN owner' \subseteq DOMAIN commits
  BY DEF FailRun, DropLock, Forget, Inv, RunTypeOK

\* What a crashed task left behind is unknown.
LEMMA CrashInTask ==
    ASSUME Inv, UNCHANGED overtaken, Crash, pc \in {"task", "ran"}
    PROVE  UnknownKept'
  <1>1. /\ UNCHANGED <<worktree, commits, ledger, versions>> /\ pc' = "idle"
        /\ unknown' = unknown \cup ({worktree.src} \ ({mem.effects[1]} \cup CommittedSources))
        BY DEF Crash, Leave, git
  <1>2. /\ ledger # NoLedger /\ (overtaken \/ ledger = mem) /\ mem.phase = "running"
        /\ mem.pending = NoCheckpoint
        BY DEF Inv, InMemory, Executing, Working
  <1>3. ASSUME NEW src \in unknown' PROVE Excused(src)' \/ Unrecorded(src)'
    <2>1. CASE Excused(src)
          BY <2>1, <1>1 DEF Excused, ByPerson
    <2>2. CASE Unrecorded(src)
          BY <2>2, <1>1 DEF Unrecorded, CommittedSources
    <2>3. CASE src \notin unknown
      <3>1. src = worktree.src /\ src # mem.effects[1] /\ src \notin CommittedSources
            BY <2>3, <1>1, <1>3
      <3>2. CASE overtaken
            BY <3>2 DEF Excused
      <3>3. CASE ledger = mem
            BY <3>1, <3>3, <1>1, <1>2 DEF Unrecorded, CommittedSources
      <3> QED BY <3>2, <3>3, <1>2
    <2> QED BY <2>1, <2>2, <2>3 DEF Inv, UnknownKept
  <1>4. /\ worktree'.src \in 0 .. versions' \cup CommittedSources'
        /\ \A src \in unknown' : src <= versions'
        BY <1>1 DEF Inv, UnknownKept, CommittedSources
  <1> QED BY <1>3, <1>4 DEF UnknownKept

LEMMA InvLeaves ==
    ASSUME Inv, UNCHANGED overtaken, Leaves
    PROVE  Inv'
  <1>1. /\ acts \in Nat /\ faults \in Nat /\ unknown \subseteq Nat /\ UnknownKept
        /\ indexLock \in DOMAIN commits \cup {NoCheckpoint}
        /\ DOMAIN owner \subseteq DOMAIN commits
        BY DEF Inv, RunTypeOK
  <1>2. CASE Stop
    <2>1. UnknownKept'
          BY <1>1, <1>2, SameUnknown DEF Stop, Leave, git, history
    <2> QED BY <1>1, <1>2, <2>1, Left DEF Stop, git, intent, history, bounds
  <1>3. CASE FailRun /\ faults' \in Nat
    <2>1. UnknownKept'
          BY <1>1, <1>3, SameUnknown DEF FailRun, Leave, history
    <2> QED BY <1>1, <1>3, <2>1, DropLockTyped, Left DEF FailRun, intent, history
  <1>4. CASE Crash
    <2>1. unknown' \subseteq Nat
      <3>1. worktree.src \in Nat
            BY InventoryTyped DEF Inv, RunTypeOK
      <3> QED BY <3>1, <1>1, <1>4 DEF Crash
    <2>2. UnknownKept'
      <3>1. CASE pc \in {"task", "ran"}
            BY <3>1, <1>4, CrashInTask
      <3>2. CASE pc \notin {"task", "ran"}
            BY <3>2, <1>1, <1>4, SameUnknown DEF Crash, Leave, git
      <3> QED BY <3>1, <3>2
    <2> QED BY <1>1, <1>4, <2>1, <2>2, Left DEF Crash, git, intent
  <1> QED BY <1>1, <1>2, <1>3, <1>4
          DEF Leaves, RefuseOrphan, RefuseEffects, RefuseDefinition, AlreadyAwaiting,
              RefusePrepare, RefuseReprepare, RefusePublication, RefuseSettle, Fail

\* What a step that only moves on keeps.
LEMMA OnTheMove ==
    ASSUME Inv, UNCHANGED overtaken, Moves
    PROVE  /\ UNCHANGED <<worktree, commits, head, index, ledger, mem, config, revision, task,
                          discarded, unknown, touched, versions, acts, faults>>
           /\ Objects' /\ Ledgers'
  <1>1. UNCHANGED <<worktree, commits, head, index, ledger, mem, config, revision, task,
                    discarded, unknown, touched, versions, acts, faults>>
    <2>1. CASE CheckEffects \/ Begun \/ NothingToCheckpoint
          BY <2>1 DEF CheckEffects, Begun, NothingToCheckpoint, Quiet, git, intent, history, bounds
    <2>2. CASE Lock \/ Own \/ WriteOwner \/ Verify
          BY <2>2 DEF Lock, Own, WriteOwner, Verify, PublishStep, LockIndex, SetOwner, git,
                      intent, history, bounds
    <2> QED BY <2>1, <2>2 DEF Moves
  <1>2. Objects'
        BY <1>1 DEF Inv, Objects, Behind, Completed, Queued
  <1>3. Ledgers'
        BY <1>1, SameSound DEF Inv, Ledgers
  <1> QED BY <1>1, <1>2, <1>3

\* A running command holds a well typed ledger, the one on disk after "begun".
LEMMA MemTyped ==
    ASSUME Inv, pc # "idle"
    PROVE  /\ mem \in Ledger /\ ledger \in Ledger
           /\ mem.pending # NoCheckpoint =>
                 /\ mem.pending.commit \in DOMAIN commits
                 /\ mem.pending.parent \in DOMAIN commits
                 /\ mem.pending.commit # NoCheckpoint
  <1>1. mem \in Ledger /\ ledger \in Ledger /\ mem # NoLedger
        BY DEF Inv, InMemory, RunTypeOK
  <1>2. mem.pending # NoCheckpoint =>
                 /\ mem.pending.commit \in DOMAIN commits
                 /\ mem.pending.parent \in DOMAIN commits
        BY <1>1 DEF Inv, Ledgers, Sound, PendingPrepared
  <1>3. \A c \in DOMAIN commits : c # NoCheckpoint
        BY LenProperties, NothingAssumption DEF Inv, RunTypeOK
  <1> QED BY <1>1, <1>2, <1>3

LEMMA InvCheckEffects ==
    ASSUME Inv, UNCHANGED overtaken, CheckEffects
    PROVE  Inv'
  <1>1. /\ pc = "effects" /\ pc' = "baseline" /\ UNCHANGED <<resumed, indexLock, owner>>
        /\ EffectsAsRecorded(mem)
        BY DEF CheckEffects, Goto, Quiet, git
  <1>2. /\ UNCHANGED <<worktree, commits, head, index, ledger, mem, config, revision, task,
                       discarded, unknown, touched, versions, acts, faults>>
        /\ Objects' /\ Ledgers'
        BY OnTheMove DEF Moves
  <1>3. RunTypeOK'
        BY <1>1, <1>2 DEF Inv, RunTypeOK
  <1>4. InMemory' /\ Executing' /\ IndexHeld' /\ ItemInHand'
        BY <1>1, <1>2 DEF Inv, InMemory, Executing, IndexHeld, ItemInHand, Working,
                          Publishing, Locked
  <1>5. EffectsKnown'
        BY <1>1, <1>2 DEF EffectsKnown, EffectsAsRecorded, Effects
  <1>6. UnknownKept'
    <2>1. ASSUME NEW src \in unknown PROVE Excused(src)' \/ Unrecorded(src)'
      <3>1. CASE Excused(src)
            BY <3>1, <1>2 DEF Excused, ByPerson
      <3>2. CASE Unrecorded(src) /\ ~overtaken
        <4>1. mem.effects = ledger.effects /\ mem.phase = ledger.phase
              BY <1>1, <3>2 DEF Inv, InMemory
        <4>2. worktree.src # src
              BY <4>1, <1>1, <3>2 DEF Unrecorded, EffectsAsRecorded, Effects
        <4> QED BY <4>2, <3>2, <1>2 DEF Unrecorded, CommittedSources
      <3> QED BY <3>1, <3>2 DEF Inv, UnknownKept, Excused
    <2> QED BY <2>1, <1>2 DEF Inv, UnknownKept, CommittedSources
  <1> QED BY <1>2, <1>3, <1>4, <1>5, <1>6 DEF Inv

LEMMA InvBegun ==
    ASSUME Inv, UNCHANGED overtaken, Begun
    PROVE  Inv'
  <1>1. /\ pc = "begun" /\ resumed' = (mem.pending # NoCheckpoint)
        /\ pc' = IF resumed' THEN "publish" ELSE "loop"
        /\ UNCHANGED <<indexLock, owner>>
        BY DEF Begun, Goto, git
  <1>2. /\ UNCHANGED <<worktree, commits, head, index, ledger, mem, config, revision, task,
                       discarded, unknown, touched, versions, acts, faults>>
        /\ Objects' /\ Ledgers'
        BY OnTheMove DEF Moves
  <1>3. RunTypeOK'
        BY <1>1, <1>2 DEF Inv, RunTypeOK
  <1>4. InMemory' /\ Executing' /\ IndexHeld'
        BY <1>1, <1>2 DEF Inv, InMemory, Executing, IndexHeld, Working, Publishing, Locked
  <1>5. ItemInHand'
        BY <1>1, <1>2 DEF ItemInHand, Publishing, Locked
  <1>6. EffectsKnown'
        BY <1>1, <1>2 DEF Inv, EffectsKnown, EffectsAsRecorded, Effects
  <1>7. UnknownKept'
        BY <1>1, <1>2, SameUnknown DEF Inv
  <1> QED BY <1>2, <1>3, <1>4, <1>5, <1>6, <1>7 DEF Inv

\* Nothing changed since the baseline: then the active item is committed.
LEMMA InvNothingToCheckpoint ==
    ASSUME Inv, UNCHANGED overtaken, NothingToCheckpoint
    PROVE  Inv'
  <1>1. /\ pc = "checkpoint" /\ worktree = mem.baseline
        /\ pc' = IF mem.policy = "item" THEN "item" ELSE "await"
        /\ UNCHANGED <<resumed, indexLock, owner>>
        BY DEF NothingToCheckpoint, Checkpointed, Goto, Quiet, git
  <1>2. /\ UNCHANGED <<worktree, commits, head, index, ledger, mem, config, revision, task,
                       discarded, unknown, touched, versions, acts, faults>>
        /\ Objects' /\ Ledgers'
        BY OnTheMove DEF Moves
  <1>3. RunTypeOK'
        BY <1>1, <1>2 DEF Inv, RunTypeOK
  <1>4. InMemory' /\ Executing' /\ IndexHeld'
        BY <1>1, <1>2 DEF Inv, InMemory, Executing, IndexHeld, Working, Publishing, Locked
  <1>5. ASSUME mem.policy = "item", mem.active \notin discarded
        PROVE  ItemCommitted(mem, mem.active)
    <2>1. mem.active # NoItem /\ \A t \in Finished(mem) : Completed(mem.baseline, t)
          BY <1>1, <1>5 DEF Inv, ItemInHand
    <2>2. \A t \in mem.definition[1] : ItemOf[t] = mem.active => Completed(mem.baseline, t)
          BY <2>1 DEF Finished
    <2>3. ActiveCommitted(mem)
          BY <1>1, MemTyped, LedgerFields DEF Inv, Ledgers, Sound
    <2> QED BY <2>1, <2>2, <2>3, <1>5 DEF ActiveCommitted
  <1>6. ItemInHand'
    <2>1. pc' = "item" => mem.active # NoItem
          BY <1>1 DEF Inv, ItemInHand
    <2>2. (mem.active \notin discarded => ItemCommitted(mem, mem.active)) =>
          (mem'.active \notin discarded' => ItemCommitted(mem, mem.active)')
          BY <1>2 DEF ItemCommitted, Committed, Tree, Completed, Queued
    <2> QED BY <2>1, <2>2, <1>1, <1>2, <1>5 DEF ItemInHand, Publishing, Locked
  <1>7. EffectsKnown'
        BY <1>1, <1>2 DEF Inv, EffectsKnown, EffectsAsRecorded, Effects
  <1>8. UnknownKept'
        BY <1>1, <1>2, SameUnknown DEF Inv
  <1> QED BY <1>2, <1>3, <1>4, <1>6, <1>7, <1>8 DEF Inv

\* Taking the index lock and comparing once more.
LEMMA InvLocking ==
    ASSUME Inv, UNCHANGED overtaken, Lock \/ Own \/ WriteOwner \/ Verify
    PROVE  Inv'
  <1>1. /\ pc \in {"publish", "locked", "owned", "verify"}
        /\ pc' \in {"locked", "owned", "verify", "advance"}
        /\ UNCHANGED resumed
        BY DEF Lock, Own, WriteOwner, Verify, PublishStep, Goto
  <1>2. /\ UNCHANGED <<worktree, commits, head, index, ledger, mem, config, revision, task,
                       discarded, unknown, touched, versions, acts, faults>>
        /\ Objects' /\ Ledgers'
        BY OnTheMove DEF Moves
  <1>3. mem.pending.commit \in DOMAIN commits
        BY <1>1, MemTyped DEF Inv, InMemory, Publishing, Locked
  <1>4. indexLock' = mem.pending.commit
        BY DEF Lock, Own, WriteOwner, Verify, PublishStep, LockIndex, SetOwner, git,
               Inv, IndexHeld
  <1>5. DOMAIN owner' \subseteq DOMAIN commits
        BY <1>3, SMTT(30) DEF Lock, Own, WriteOwner, Verify, PublishStep, LockIndex, SetOwner, Forget, git,
                    Inv, RunTypeOK
  <1>6. RunTypeOK'
        BY <1>1, <1>2, <1>3, <1>4, <1>5 DEF Inv, RunTypeOK, Locked
  <1>7. InMemory' /\ Executing' /\ ItemInHand'
        BY <1>1, <1>2 DEF Inv, InMemory, Executing, ItemInHand, Working, Publishing, Locked
  <1>8. IndexHeld'
    <2>1. pc' = "advance" => StagedAsPrepared(mem.pending)
          BY DEF Lock, Own, WriteOwner, Verify, PublishStep, Goto, CanPublish
    <2>2. StagedAsPrepared(mem.pending) => StagedAsPrepared(mem.pending)'
          BY <1>2 DEF StagedAsPrepared, Tree
    <2> QED BY <1>1, <1>2, <1>4, <2>1, <2>2 DEF IndexHeld
  <1>9. EffectsKnown'
        BY <1>1 DEF EffectsKnown
  <1>10. UnknownKept'
        BY <1>1, <1>2, SameUnknown DEF Inv
  <1> QED BY <1>2, <1>6, <1>7, <1>8, <1>9, <1>10 DEF Inv

LEMMA InvMoves ==
    ASSUME Inv, UNCHANGED overtaken, Moves
    PROVE  Inv'
  BY InvCheckEffects, InvBegun, InvNothingToCheckpoint, InvLocking DEF Moves

---------------------------------------------------------------------------
(* Steps that save the ledger *)

\* Phase and effects matter for a pending checkpoint only.
LEMMA SoundAlike ==
    ASSUME NEW l, Sound(l), NEW n,
           n.definition = l.definition, n.active = l.active, n.done = l.done,
           n.baseline = l.baseline, n.expected = l.expected, n.pending = l.pending,
           n.policy = l.policy,
           \/ n.pending = NoCheckpoint \/ n.phase = "paused"
           \/ n.phase = l.phase /\ n.effects = l.effects
    PROVE  Sound(n)
  BY DEF Sound, PendingPrepared, Behind, OnlyDefined, DoneCommitted, ActiveCommitted,
         ItemCommitted, KnowsHead, KnowsEffects, Finished

LEMMA SavedSound ==
    ASSUME Inv, UNCHANGED overtaken, NEW n \in Ledger, Sound(n), ledger' = n, mem' \in {n, NoLedger},
           UNCHANGED <<worktree, commits, head, index, discarded, touched>>
    PROVE  Objects' /\ Ledgers'
  <1>1. Objects'
        BY LedgerFields DEF Inv, Objects, Behind, Completed, Queued
  <1>2. Ledgers'
        BY SameSound DEF Ledgers
  <1> QED BY <1>1, <1>2

\* The ledger is saved as the run leaves.
LEMMA SavedAndLeft ==
    ASSUME Inv, UNCHANGED overtaken, NEW n \in Ledger, Sound(n), ledger' = n, Leave,
           pc \notin {"idle", "recover", "effects"},
           UNCHANGED <<worktree, commits, head, index, indexLock, owner, config, revision,
                       discarded, unknown, touched, versions>>,
           acts' \in Nat, faults' \in Nat
    PROVE  Inv'
  <1>1. pc' = "idle" /\ mem' = NoLedger /\ task' = 0 /\ resumed' = FALSE
        BY DEF Leave
  <1>2. RunTypeOK'
        BY <1>1 DEF Inv, RunTypeOK
  <1>3. InMemory' /\ Executing' /\ IndexHeld' /\ ItemInHand' /\ EffectsKnown'
        BY <1>1 DEF InMemory, Executing, IndexHeld, ItemInHand, EffectsKnown, Working,
                    Publishing, Locked
  <1>4. Objects' /\ Ledgers'
        BY <1>1, SavedSound
  <1>5. UnknownKept'
    <2>1. ASSUME NEW src \in unknown PROVE Excused(src)' \/ Unrecorded(src)'
      <3>1. CASE Excused(src)
            BY <3>1 DEF Excused, ByPerson
      <3>2. CASE Unrecorded(src)
        <4>1. worktree.src # src
              BY <3>2 DEF Unrecorded
        <4> QED BY <4>1, <3>2 DEF Unrecorded, CommittedSources
      <3> QED BY <3>1, <3>2 DEF Inv, UnknownKept
    <2> QED BY <2>1 DEF Inv, UnknownKept, CommittedSources
  <1> QED BY <1>2, <1>3, <1>4, <1>5 DEF Inv

LEMMA EffectsTyped ==
    ASSUME Inv
    PROVE  Effects \in Nat \X Review
  BY InventoryTyped DEF Inv, RunTypeOK, Effects

\* Interrupted, blocked, failed or waiting for approval.
LEMMA InvPauses ==
    ASSUME Inv, UNCHANGED overtaken,
           \/ Interrupt \/ Await \/ NothingReady \/ \E ok \in BOOLEAN : RecordOutcome(ok) /\ Leave
    PROVE  Inv'
  <1>1. pc \in {"begun", "loop", "await", "ran"} /\ Leave
        BY DEF Interrupt, Await, NothingReady, RecordOutcome, Pause
  <1>2. mem \in Ledger /\ Sound(mem) /\ Effects \in Nat \X Review
        BY <1>1, MemTyped, LedgerFields, EffectsTyped DEF Inv, Ledgers
  <1>3. UNCHANGED <<worktree, commits, head, index, indexLock, owner, config, revision,
                    discarded, unknown, touched, versions>>
        BY DEF Interrupt, Await, NothingReady, RecordOutcome, git, intent, history, bounds
  <1>4. acts' \in Nat /\ faults' \in Nat
    <2>1. acts \in Nat /\ faults \in Nat
          BY DEF Inv, RunTypeOK
    <2> QED BY <2>1 DEF Interrupt, Await, NothingReady, RecordOutcome, bounds
  <1>5. CASE Interrupt \/ NothingReady
    <2> DEFINE n == [mem EXCEPT !.phase = "paused"]
    <2>1. ledger' = n
          BY <1>5 DEF Interrupt, NothingReady, Pause
    <2>2. n \in Ledger /\ Sound(n)
          BY <1>2, SetPhase, SoundAlike
    <2> QED BY <1>1, <1>3, <1>4, <2>1, <2>2, SavedAndLeft
  <1>6. CASE Await
    <2> DEFINE e == [mem EXCEPT !.effects = Effects]
               n == [mem EXCEPT !.phase = "awaiting", !.effects = Effects]
    <2>1. ledger' = n /\ mem.pending = NoCheckpoint
          BY <1>6 DEF Await, Inv, InMemory, Working
    <2>2. /\ n \in Ledger
          /\ n.policy = mem.policy /\ n.definition = mem.definition
          /\ n.active = mem.active /\ n.done = mem.done
          /\ n.baseline = mem.baseline /\ n.expected = mem.expected
          /\ n.pending = mem.pending
          BY <1>2 DEF Ledger
    <2>3. Sound(n)
      <3> HIDE DEF n
      <3> QED BY <1>2, <2>1, <2>2, SoundAlike
    <2> QED BY <1>1, <1>3, <1>4, <2>1, <2>2, <2>3, SavedAndLeft
  <1>7. CASE \E ok \in BOOLEAN : RecordOutcome(ok) /\ Leave
    <2> DEFINE l == [mem EXCEPT !.effects = Effects]
               n == [l EXCEPT !.phase = "paused"]
    <2>1. pc = "ran" /\ pc' = "idle" /\ mem.pending = NoCheckpoint
          BY <1>7 DEF RecordOutcome, Leave, Inv, InMemory, Working
    <2>2. ledger' = n
          BY <1>7, <2>1 DEF RecordOutcome, Goto
    <2>3. /\ l \in Ledger
          /\ l.policy = mem.policy /\ l.definition = mem.definition
          /\ l.active = mem.active /\ l.done = mem.done
          /\ l.baseline = mem.baseline /\ l.expected = mem.expected
          /\ l.pending = mem.pending
          BY <1>2, SetEffects
    <2>4. Sound(l)
      <3> HIDE DEF l
      <3> QED BY <1>2, <2>1, <2>3, SoundAlike
    <2>5. n \in Ledger /\ Sound(n)
      <3> HIDE DEF l
      <3> QED BY <2>3, <2>4, SetPhase, SoundAlike
    <2> QED BY <1>1, <1>3, <1>4, <2>2, <2>5, SavedAndLeft
  <1> QED BY <1>5, <1>6, <1>7

LEMMA UnknownElsewhere ==
    ASSUME UnknownKept, UNCHANGED <<worktree, commits, unknown, versions, overtaken>>,
           overtaken \/ \A src \in unknown : Unrecorded(src) => worktree.src # src
    PROVE  UnknownKept'
  <1>1. ASSUME NEW src \in unknown PROVE Excused(src)' \/ Unrecorded(src)'
    <2>1. CASE Excused(src)
          BY <2>1 DEF Excused, ByPerson
    <2>2. CASE Unrecorded(src) /\ ~overtaken
          BY <2>2 DEF Unrecorded, CommittedSources
    <2> QED BY <2>1, <2>2 DEF UnknownKept, Excused
  <1> QED BY <1>1 DEF UnknownKept, CommittedSources

\* What a step that saves and goes on leaves alone.
SavesOn(n) ==
    /\ ledger' = n /\ mem' = n
    /\ UNCHANGED <<worktree, commits, head, index, config, revision, discarded, unknown,
                   touched, versions, acts, faults>>

LEMMA SavedOn ==
    ASSUME Inv, UNCHANGED overtaken, NEW n \in Ledger, Sound(n), SavesOn(n),
           pc \notin {"idle", "recover", "effects"}
    PROVE  Objects' /\ Ledgers' /\ UnknownKept'
  <1>1. Objects' /\ Ledgers'
        BY SavedSound DEF SavesOn
  <1>2. UnknownKept'
        BY UnknownElsewhere DEF Inv, SavesOn, Unrecorded
  <1> QED BY <1>1, <1>2

LEMMA InvStartFresh ==
    ASSUME Inv, UNCHANGED overtaken, StartFresh
    PROVE  Inv'
  <1>1. /\ pc = "idle" /\ pc' = "begun" /\ ~Retained
        /\ config.commit = "manual" \/ Clean
        /\ SavesOn(Fresh) /\ UNCHANGED <<indexLock, owner, task, resumed>>
        BY DEF StartFresh, CanStart, SaveAndGoto, Save, Goto, Quiet, SavesOn, git, intent,
               history, bounds
  <1>2. /\ Fresh \in Ledger
        /\ Fresh.definition = Definition /\ Fresh.active = NoItem
        /\ \A i \in Fresh.done : config.commit = "item" /\ ItemCompleted(worktree, i)
        /\ Fresh.baseline = worktree /\ Fresh.expected = head
        /\ Fresh.pending = NoCheckpoint /\ Fresh.effects = Effects
        BY FreshFields DEF Inv
  <1> HIDE DEF Fresh
  <1>4. DoneCommitted(Fresh)
    <2>1. ASSUME NEW i \in Fresh.done, NEW t \in Fresh.definition[1], ItemOf[t] = i
          PROVE  Committed(t)
      <3>1. Clean /\ ItemCompleted(worktree, i)
            BY <1>1, <1>2, <2>1
      <3>2. t \in ItemTasks(worktree, i)
            BY <1>2, <2>1 DEF Definition, ItemTasks
      <3>3. Completed(worktree, t)
            BY <3>1, <3>2 DEF ItemCompleted
      <3> QED BY <3>1, <3>3 DEF Clean, Committed
    <2> QED BY <2>1 DEF DoneCommitted, ItemCommitted
  <1>5. OnlyDefined(Fresh)
        BY <1>2 DEF OnlyDefined, Definition, Completed
  <1>6. Sound(Fresh)
        BY <1>2, <1>4, <1>5 DEF Sound, PendingPrepared, Behind, ActiveCommitted, KnowsHead,
                                KnowsEffects
  <1>7. Objects' /\ Ledgers'
        BY <1>1, <1>2, <1>6, SavedSound DEF SavesOn
  <1>8. RunTypeOK'
        BY <1>1, <1>2 DEF Inv, RunTypeOK, SavesOn
  <1>9. Fresh # NoLedger
        BY <1>2, LedgerFields
  <1>10. InMemory' /\ Executing' /\ IndexHeld' /\ ItemInHand'
         BY <1>1, <1>2, <1>9 DEF InMemory, Executing, IndexHeld, ItemInHand, Working,
                                 Publishing, Locked, SavesOn
  <1>11. EffectsKnown'
         BY <1>1, <1>2 DEF EffectsKnown, EffectsAsRecorded, Effects, SavesOn
  <1>12. UnknownKept'
    <2>1. \A src \in unknown : Unrecorded(src) => worktree.src # src
          BY <1>1 DEF Unrecorded, Retained, Replaceable
    <2> QED BY <1>1, <2>1, UnknownElsewhere DEF Inv, SavesOn
  <1> QED BY <1>7, <1>8, <1>10, <1>11, <1>12 DEF Inv

\* An adopted definition keeps only items whose tasks, the new ones included,
\* are completed.
LEMMA AdoptedSound ==
    ASSUME Inv, ledger # NoLedger,
           ledger.definition = Definition \/ ledger.pending = NoCheckpoint
    PROVE  Sound(Adopted(ledger))
  <1> DEFINE n == Adopted(ledger)
  <1>1. /\ ledger \in Ledger /\ Sound(ledger) /\ worktree \in Inventory
        /\ config.identity \in Nat /\ revision \in Nat
        BY DEF Inv, RunTypeOK, Ledgers
  <1>2. /\ n \in Ledger
        /\ n.phase = ledger.phase /\ n.policy = ledger.policy
        /\ n.baseline = ledger.baseline /\ n.expected = ledger.expected
        /\ n.effects = ledger.effects /\ n.pending = ledger.pending
        /\ ledger.definition = Definition =>
              n.definition = ledger.definition /\ n.active = ledger.active /\ n.done = ledger.done
        /\ ledger.definition # Definition =>
              /\ n.definition = Definition /\ n.active = NoItem
              /\ n.done = {i \in ledger.done : ItemCompleted(worktree, i)}
        BY <1>1, SetAdopted
  <1> HIDE DEF n
  <1>3. CASE ledger.definition = Definition
        BY <1>1, <1>2, <1>3, SoundAlike DEF n
  <1>4. CASE ledger.definition # Definition
    <2>1. DoneCommitted(n)
      <3>1. ASSUME ~overtaken,
                   NEW i \in n.done \ discarded, NEW t \in n.definition[1], ItemOf[t] = i
            PROVE  Committed(t)
        <4>1. i \in ledger.done \ discarded /\ ItemCompleted(worktree, i)
              BY <1>2, <1>4, <3>1
        <4>2. t \in ItemTasks(worktree, i)
              BY <1>2, <1>4, <3>1 DEF Definition, ItemTasks
        <4>3. Completed(worktree, t) /\ t \in Task
              BY <1>1, <4>1, <4>2, InventoryTyped DEF ItemCompleted, ItemTasks
        <4>4. t \in ledger.definition[1]
              BY <1>1, <3>1, <4>3 DEF Sound, OnlyDefined
        <4> QED BY <1>1, <3>1, <4>1, <4>4 DEF Sound, DoneCommitted, ItemCommitted
      <3>2. overtaken => \A t : Committed(t)
            BY DEF Committed
      <3> QED BY <3>1, <3>2 DEF DoneCommitted, ItemCommitted
    <2>2. OnlyDefined(n)
          BY <1>2, <1>4 DEF OnlyDefined, Definition, Completed
    <2>3. n.pending = NoCheckpoint /\ n.active = NoItem
          BY <1>2, <1>4
    <2>4. Behind(n.baseline) /\ KnowsHead(n)
          BY <1>1, <1>2 DEF Sound, KnowsHead
    <2> QED BY <2>1, <2>2, <2>3, <2>4 DEF Sound, PendingPrepared, ActiveCommitted, KnowsEffects, n
  <1> QED BY <1>3, <1>4

LEMMA InvStartRetained ==
    ASSUME Inv, UNCHANGED overtaken, StartRetained
    PROVE  Inv'
  <1> DEFINE n == Adopted(ledger)
  <1>1. /\ pc = "idle" /\ pc' = "recover" /\ ledger # NoLedger /\ mem' = n
        /\ ledger.definition = Definition \/ ledger.pending = NoCheckpoint
        /\ UNCHANGED <<worktree, commits, head, index, indexLock, owner, config, revision,
                       ledger, task, resumed, discarded, unknown, touched, versions, acts,
                       faults>>
        BY DEF StartRetained, CanStart, Retained, Goto, Quiet, git, intent, history, bounds
  <1>2. /\ ledger \in Ledger /\ Sound(ledger) /\ worktree \in Inventory
        /\ config.identity \in Nat /\ revision \in Nat
        BY <1>1 DEF Inv, RunTypeOK, Ledgers
  <1>3. /\ n \in Ledger
        /\ n.phase = ledger.phase /\ n.policy = ledger.policy
        /\ n.baseline = ledger.baseline /\ n.expected = ledger.expected
        /\ n.effects = ledger.effects /\ n.pending = ledger.pending
        /\ ledger.definition = Definition =>
              n.definition = ledger.definition /\ n.active = ledger.active
        BY <1>2, SetAdopted
  <1>4. Sound(n)
        BY <1>1, AdoptedSound
  <1> HIDE DEF n
  <1>5. n # NoLedger
        BY <1>3, LedgerFields
  <1>6. RunTypeOK'
        BY <1>1, <1>3 DEF Inv, RunTypeOK
  <1>7. InMemory' /\ Executing' /\ IndexHeld' /\ ItemInHand' /\ EffectsKnown'
        BY <1>1, <1>3, <1>5 DEF InMemory, Executing, IndexHeld, ItemInHand, EffectsKnown,
                                Working, Publishing, Locked
  <1>8. Objects'
        BY <1>1 DEF Inv, Objects, Behind, Completed, Queued
  <1>9. Ledgers'
        BY <1>1, <1>2, <1>4, SameSound DEF Ledgers
  <1>10. UnknownKept'
        BY <1>1, SameUnknown DEF Inv
  <1> QED BY <1>6, <1>7, <1>8, <1>9, <1>10 DEF Inv

LEMMA InvRebaseline ==
    ASSUME Inv, UNCHANGED overtaken, Rebaseline
    PROVE  Inv'
  <1> DEFINE moved == /\ mem.pending = NoCheckpoint /\ Automatic(mem)
                      /\ Clean /\ head # mem.expected
             n == IF moved THEN [mem EXCEPT !.baseline = worktree, !.expected = head] ELSE mem
  <1>1. /\ pc = "baseline" /\ pc' = "begun" /\ SavesOn(n)
        /\ UNCHANGED <<indexLock, owner, task, resumed>>
        BY DEF Rebaseline, SaveAndGoto, Save, Goto, Quiet, SavesOn, git, intent, history, bounds
  <1>2. /\ mem \in Ledger /\ Sound(mem) /\ worktree \in Inventory /\ head \in Nat
    <2>1. mem \in Ledger /\ Sound(mem)
          BY <1>1, MemTyped, LedgerFields DEF Inv, Ledgers
    <2>2. worktree \in Inventory /\ head \in Nat
          BY LenProperties DEF Inv, RunTypeOK
    <2> QED BY <2>1, <2>2
  <1>3. /\ n \in Ledger
        /\ n.phase = mem.phase /\ n.policy = mem.policy /\ n.definition = mem.definition
        /\ n.active = mem.active /\ n.done = mem.done
        /\ n.effects = mem.effects /\ n.pending = mem.pending
        /\ IF moved THEN n.baseline = worktree /\ n.expected = head ELSE n = mem
    <2>1. CASE moved
      <3> DEFINE m == [mem EXCEPT !.baseline = worktree, !.expected = head]
      <3>1. /\ m \in Ledger /\ m.baseline = worktree /\ m.expected = head
            /\ m.phase = mem.phase /\ m.policy = mem.policy /\ m.definition = mem.definition
            /\ m.active = mem.active /\ m.done = mem.done
            /\ m.effects = mem.effects /\ m.pending = mem.pending
            BY <1>2 DEF Ledger
      <3>2. n = m
            BY <2>1
      <3> HIDE DEF m, n, moved
      <3> QED BY <2>1, <3>1, <3>2
    <2>2. CASE ~moved
          BY <1>2, <2>2
    <2> QED BY <2>1, <2>2
  <1>4. moved => Clean /\ mem.pending = NoCheckpoint
        OBVIOUS
  <1> HIDE DEF n, moved
  <1>5. Sound(n)
    <2>1. CASE moved
      <3>1. PendingPrepared(n) /\ Behind(n.baseline) /\ KnowsHead(n) /\ KnowsEffects(n)
            BY <1>3, <1>4, <2>1 DEF PendingPrepared, Behind, KnowsHead, KnowsEffects
      <3>2. OnlyDefined(n) /\ DoneCommitted(n)
            BY <1>2, <1>3 DEF Sound, OnlyDefined, DoneCommitted, ItemCommitted
      <3>3. \A t : Completed(n.baseline, t) => Committed(t)
            BY <1>3, <1>4, <2>1 DEF Clean, Committed
      <3>4. ActiveCommitted(n)
            BY <3>3 DEF ActiveCommitted, ItemCommitted
      <3> QED BY <3>1, <3>2, <3>4 DEF Sound
    <2>2. CASE ~moved
          BY <1>2, <1>3, <2>2
    <2> QED BY <2>1, <2>2
  <1>6. Objects' /\ Ledgers' /\ UnknownKept'
        BY <1>1, <1>3, <1>5, SavedOn
  <1>7. RunTypeOK'
        BY <1>1, <1>3 DEF Inv, RunTypeOK, SavesOn
  <1>8. n # NoLedger
        BY <1>3, LedgerFields
  <1>9. InMemory' /\ Executing' /\ IndexHeld' /\ ItemInHand'
        BY <1>1, <1>8 DEF InMemory, Executing, IndexHeld, ItemInHand, Working, Publishing,
                          Locked, SavesOn
  <1>10. EffectsKnown'
        BY <1>1, <1>3 DEF Inv, EffectsKnown, EffectsAsRecorded, Effects, SavesOn
  <1> QED BY <1>6, <1>7, <1>9, <1>10 DEF Inv

LEMMA InvSaveReviewed ==
    ASSUME Inv, UNCHANGED overtaken, SaveReviewed
    PROVE  Inv'
  <1> DEFINE n == [mem EXCEPT !.effects = Effects]
  <1>1. /\ pc = "reviewed" /\ pc' = "checkpoint" /\ SavesOn(n)
        /\ UNCHANGED <<indexLock, owner, task, resumed>>
        BY DEF SaveReviewed, SaveAndGoto, Save, Goto, Quiet, SavesOn, git, intent, history, bounds
  <1>2. /\ mem \in Ledger /\ Sound(mem) /\ Effects \in Nat \X Review
        /\ mem.pending = NoCheckpoint
        BY <1>1, MemTyped, LedgerFields, EffectsTyped DEF Inv, Ledgers, InMemory, Working
  <1>3. /\ n \in Ledger /\ n.effects = Effects
        /\ n.phase = mem.phase /\ n.policy = mem.policy /\ n.definition = mem.definition
        /\ n.active = mem.active /\ n.done = mem.done
        /\ n.baseline = mem.baseline /\ n.expected = mem.expected
        /\ n.pending = mem.pending /\ n # NoLedger
        BY <1>2, SetEffects, LedgerFields
  <1> HIDE DEF n
  <1>4. Sound(n)
        BY <1>2, <1>3, SoundAlike
  <1>5. Objects' /\ Ledgers' /\ UnknownKept'
        BY <1>1, <1>3, <1>4, SavedOn
  <1>6. RunTypeOK'
        BY <1>1, <1>3 DEF Inv, RunTypeOK, SavesOn
  <1>7. InMemory' /\ Executing' /\ IndexHeld'
        BY <1>1, <1>2, <1>3 DEF InMemory, Executing, IndexHeld, Working, Publishing, Locked, SavesOn
  <1>8. ItemInHand'
        BY <1>1, <1>3 DEF Inv, ItemInHand, Finished, Completed, Queued, Publishing, Locked, SavesOn
  <1>9. EffectsKnown'
        BY <1>1, <1>3 DEF EffectsKnown, EffectsAsRecorded, Effects, SavesOn
  <1> QED BY <1>5, <1>6, <1>7, <1>8, <1>9 DEF Inv

\* Some task is the first one.
LEMMA Smallest ==
    ASSUME NEW S, S \subseteq Nat, S # {}
    PROVE  \E t \in S : \A u \in S : t <= u
  <1> DEFINE R == {p \in Nat \X Nat : p[1] < p[2]}
  <1>1. IsWellFoundedOn(R, Nat)
        BY NatLessThanWellFounded DEF OpToRel
  <1>2. PICK t \in S : \A u \in S : <<u, t>> \notin R
    <2> HIDE DEF R
    <2> QED BY <1>1, WFMin
  <1>3. \A u \in S : <<u, t>> \notin R => t <= u
        OBVIOUS
  <1> QED BY <1>2, <1>3

LEMMA InvSelectTask ==
    ASSUME Inv, UNCHANGED overtaken, SelectTask
    PROVE  Inv'
  <1> DEFINE i == IF mem.policy = "item" THEN ItemOf[task'] ELSE NoItem
             n == [mem EXCEPT !.phase = "running", !.effects = Effects, !.active = i]
  <1>1. /\ pc = "loop" /\ pc' = "start" /\ SavesOn(n) /\ SameDefinition
        /\ task' \in Eligible /\ UNCHANGED <<indexLock, owner, resumed>>
    <2>1. Eligible # {} /\ task' = CHOOSE t \in Eligible : \A u \in Eligible : t <= u
          BY DEF SelectTask
    <2>2. Eligible \subseteq Nat
          BY InventoryTyped DEF Inv, RunTypeOK, Eligible, Ready, Task
    <2>3. \E t \in Eligible : \A u \in Eligible : t <= u
          BY <2>1, <2>2, Smallest
    <2>4. task' \in Eligible
          BY <2>1, <2>3
    <2> QED BY <2>4 DEF SelectTask, Save, Goto, SavesOn, git, intent, history, bounds
  <1>2. /\ mem \in Ledger /\ Sound(mem) /\ Effects \in Nat \X Review
        /\ mem.pending = NoCheckpoint
        BY <1>1, MemTyped, LedgerFields, EffectsTyped DEF Inv, Ledgers, InMemory, Working
  <1>3. /\ task' \in Task /\ task' \in Queued(worktree) /\ ~Completed(worktree, task')
        /\ task' \in mem.definition[1]
    <2>1. worktree \in Inventory
          BY DEF Inv, RunTypeOK
    <2>2. task' \in Queued(worktree) /\ worktree.todo[task'] = "pending"
          BY <1>1 DEF Eligible, Ready
    <2> QED BY <1>1, <2>1, <2>2, InventoryTyped DEF Completed, SameDefinition, Definition
  <1>4. i \in Item \cup {NoItem} /\ (mem.policy = "item" => i = ItemOf[task'])
        /\ (mem.policy # "item" => i = NoItem)
        BY <1>3 DEF Item
  <1> HIDE DEF i
  <1>5. /\ n \in Ledger /\ n.phase = "running" /\ n.active = i
        /\ n.policy = mem.policy /\ n.definition = mem.definition
        /\ n.done = mem.done /\ n.baseline = mem.baseline
        /\ n.expected = mem.expected /\ n.pending = mem.pending /\ n # NoLedger
    <2>1. /\ n \in Ledger /\ n.phase = "running" /\ n.active = i
          /\ n.policy = mem.policy /\ n.definition = mem.definition
          /\ n.done = mem.done /\ n.baseline = mem.baseline
          /\ n.expected = mem.expected /\ n.pending = mem.pending
          BY <1>2, <1>4 DEF Ledger
    <2> HIDE DEF n
    <2> QED BY <2>1, LedgerFields
  <1> HIDE DEF n
  <1>6. Sound(n)
    <2>1. /\ PendingPrepared(n) /\ Behind(n.baseline) /\ OnlyDefined(n) /\ DoneCommitted(n)
          /\ KnowsHead(n) /\ KnowsEffects(n)
          BY <1>2, <1>5 DEF Sound, PendingPrepared, OnlyDefined, DoneCommitted, ItemCommitted,
                            KnowsHead, KnowsEffects
    <2>2. ~Completed(n.baseline, task')
          BY <2>1, <1>3 DEF Behind
    <2>3. ActiveCommitted(n)
          BY <2>2, <1>3, <1>4, <1>5 DEF ActiveCommitted
    <2> QED BY <2>1, <2>3 DEF Sound
  <1>7. Objects' /\ Ledgers' /\ UnknownKept'
        BY <1>1, <1>5, <1>6, SavedOn
  <1>8. RunTypeOK'
        BY <1>1, <1>3, <1>5 DEF Inv, RunTypeOK, SavesOn
  <1>9. InMemory' /\ IndexHeld' /\ ItemInHand' /\ EffectsKnown'
        BY <1>1, <1>2, <1>5 DEF InMemory, IndexHeld, ItemInHand, EffectsKnown, Working,
                                Publishing, Locked, SavesOn
  <1>10. Executing'
        BY <1>1, <1>3, <1>5 DEF Executing, Queued, Completed, SavesOn
  <1> QED BY <1>7, <1>8, <1>9, <1>10 DEF Inv

LEMMA InvRecordOutcome ==
    ASSUME Inv, UNCHANGED overtaken, NEW ok \in BOOLEAN, RecordOutcome(ok), ~Leave
    PROVE  Inv'
  <1> DEFINE l == [mem EXCEPT !.effects = Effects]
             n == [l EXCEPT !.phase = "running"]
  <1>1. /\ pc = "ran" /\ pc' = "loop" /\ SavesOn(n) /\ task' = 0
        /\ UNCHANGED <<indexLock, owner, resumed>>
        BY DEF RecordOutcome, Save, Goto, SavesOn, git, intent, history
  <1>2. /\ mem \in Ledger /\ Sound(mem) /\ Effects \in Nat \X Review
        /\ mem.pending = NoCheckpoint
        BY <1>1, MemTyped, LedgerFields, EffectsTyped DEF Inv, Ledgers, InMemory, Working
  <1>3. /\ l \in Ledger /\ l.effects = Effects
        /\ l.phase = mem.phase /\ l.policy = mem.policy /\ l.definition = mem.definition
        /\ l.active = mem.active /\ l.done = mem.done
        /\ l.baseline = mem.baseline /\ l.expected = mem.expected
        /\ l.pending = mem.pending
        BY <1>2, SetEffects
  <1> HIDE DEF l
  <1>4. /\ n \in Ledger /\ n.effects = Effects /\ n.policy = mem.policy
        /\ n.definition = mem.definition /\ n.active = mem.active /\ n.done = mem.done
        /\ n.baseline = mem.baseline /\ n.expected = mem.expected
        /\ n.pending = mem.pending /\ n # NoLedger
        BY <1>3, SetPhase, LedgerFields
  <1> HIDE DEF n
  <1>5. Sound(n)
        BY <1>2, <1>4, SoundAlike
  <1>6. Objects' /\ Ledgers' /\ UnknownKept'
        BY <1>1, <1>4, <1>5, SavedOn
  <1>7. RunTypeOK'
        BY <1>1, <1>4 DEF Inv, RunTypeOK, SavesOn
  <1>8. InMemory' /\ Executing' /\ IndexHeld' /\ ItemInHand'
        BY <1>1, <1>2, <1>4 DEF InMemory, Executing, IndexHeld, ItemInHand, Working,
                                Publishing, Locked, SavesOn
  <1>9. EffectsKnown'
        BY <1>1, <1>4 DEF EffectsKnown, EffectsAsRecorded, Effects, SavesOn
  <1> QED BY <1>6, <1>7, <1>8, <1>9 DEF Inv

LEMMA InvRecordItem ==
    ASSUME Inv, UNCHANGED overtaken, RecordItem
    PROVE  Inv'
  <1> DEFINE n == [mem EXCEPT !.done = @ \cup {mem.active}, !.active = NoItem]
  <1>1. /\ pc = "item" /\ pc' = "loop" /\ SavesOn(n)
        /\ UNCHANGED <<indexLock, owner, task, resumed>>
        BY DEF RecordItem, SaveAndGoto, Save, Goto, Quiet, SavesOn, git, intent, history, bounds
  <1>2. /\ mem \in Ledger /\ Sound(mem) /\ mem.pending = NoCheckpoint
        /\ mem.active \in Item
        /\ mem.active \notin discarded => ItemCommitted(mem, mem.active)
        BY <1>1, MemTyped, LedgerFields DEF Inv, Ledgers, InMemory, Working, ItemInHand
  <1>3. /\ n \in Ledger /\ n.done = mem.done \cup {mem.active} /\ n.active = NoItem
        /\ n.phase = mem.phase /\ n.policy = mem.policy /\ n.definition = mem.definition
        /\ n.baseline = mem.baseline /\ n.expected = mem.expected
        /\ n.effects = mem.effects /\ n.pending = mem.pending /\ n # NoLedger
        BY <1>2, SetDone, LedgerFields, ZenonT(60)
  <1> HIDE DEF n
  <1>4. Sound(n)
    <2>1. DoneCommitted(n)
          BY <1>2, <1>3 DEF Sound, DoneCommitted, ItemCommitted
    <2> QED BY <2>1, <1>2, <1>3 DEF Sound, PendingPrepared, OnlyDefined, ActiveCommitted,
                                    KnowsHead, KnowsEffects
  <1>5. Objects' /\ Ledgers' /\ UnknownKept'
        BY <1>1, <1>3, <1>4, SavedOn
  <1>6. RunTypeOK'
        BY <1>1, <1>3 DEF Inv, RunTypeOK, SavesOn
  <1>7. InMemory' /\ Executing' /\ IndexHeld' /\ ItemInHand'
        BY <1>1, <1>2, <1>3 DEF InMemory, Executing, IndexHeld, ItemInHand, Working,
                                Publishing, Locked, SavesOn
  <1>8. EffectsKnown'
        BY <1>1, <1>3 DEF Inv, EffectsKnown, EffectsAsRecorded, Effects, SavesOn
  <1> QED BY <1>5, <1>6, <1>7, <1>8 DEF Inv

\* What a pending checkpoint completes is committed once HEAD and index hold it.
LEMMA SettledCommitted ==
    ASSUME Inv, pc = "settle", CanSettle
    PROVE  \A t \in Finished(mem) : Committed(t)
  <1>1. mem \in Ledger /\ Sound(mem) /\ mem.pending # NoCheckpoint
        BY MemTyped, LedgerFields DEF Inv, Ledgers, InMemory, Publishing, Locked
  <1>2. /\ Tree(head).inv = mem.pending.after /\ index.inv = Tree(head).inv
        /\ \A t \in Finished(mem) : Completed(mem.pending.after, t)
        BY <1>1 DEF Sound, PendingPrepared, CanSettle, Clean, Tree
  <1> QED BY <1>2 DEF Committed

LEMMA InvSettle ==
    ASSUME Inv, UNCHANGED overtaken, Settle
    PROVE  Inv'
  <1> DEFINE n == [mem EXCEPT !.expected = head, !.baseline = worktree,
                              !.effects = Effects, !.pending = NoCheckpoint]
  <1>1. /\ pc = "settle" /\ CanSettle /\ SavesOn(n) /\ DropLock(mem.pending)
        /\ pc' = IF resumed THEN "loop" ELSE IF mem.policy = "item" THEN "item" ELSE "await"
        /\ UNCHANGED <<task, resumed>>
        BY DEF Settle, Save, Goto, Checkpointed, SavesOn, intent, history, bounds
  <1>2. /\ mem \in Ledger /\ Sound(mem) /\ worktree \in Inventory /\ head \in Nat
        /\ Effects \in Nat \X Review
    <2>1. mem \in Ledger /\ Sound(mem)
          BY <1>1, MemTyped, LedgerFields DEF Inv, Ledgers
    <2>2. worktree \in Inventory /\ head \in Nat
          BY LenProperties DEF Inv, RunTypeOK
    <2> QED BY <2>1, <2>2, EffectsTyped
  <1>3. /\ n \in Ledger /\ n.expected = head /\ n.baseline = worktree /\ n.effects = Effects
        /\ n.pending = NoCheckpoint
        /\ n.phase = mem.phase /\ n.policy = mem.policy /\ n.definition = mem.definition
        /\ n.active = mem.active /\ n.done = mem.done
        BY <1>2 DEF Ledger
  <1> HIDE DEF n
  <1>4. \A t \in n.definition[1] : n.active \in {NoItem, ItemOf[t]} => Committed(t)
        BY <1>1, <1>3, SettledCommitted DEF Finished
  <1>5. ItemCommitted(n, n.active)
        BY <1>4 DEF ItemCommitted
  <1>6. Sound(n)
    <2>1. PendingPrepared(n) /\ Behind(n.baseline) /\ KnowsHead(n) /\ KnowsEffects(n)
          BY <1>3 DEF PendingPrepared, Behind, KnowsHead, KnowsEffects
    <2>2. OnlyDefined(n) /\ DoneCommitted(n)
          BY <1>2, <1>3 DEF Sound, OnlyDefined, DoneCommitted, ItemCommitted
    <2> QED BY <2>1, <2>2, <1>5 DEF Sound, ActiveCommitted
  <1>7. Objects' /\ Ledgers' /\ UnknownKept'
        BY <1>1, <1>3, <1>6, SavedOn
  <1>8. /\ indexLock' \in DOMAIN commits \cup {NoCheckpoint}
        /\ DOMAIN owner' \subseteq DOMAIN commits
        BY <1>1 DEF DropLock, Forget, Inv, RunTypeOK
  <1>9. RunTypeOK'
        BY <1>1, <1>3, <1>8 DEF Inv, RunTypeOK, SavesOn
  <1>10. n # NoLedger
        BY <1>3, LedgerFields
  <1>11. InMemory' /\ Executing' /\ IndexHeld'
        BY <1>1, <1>3, <1>10 DEF InMemory, Executing, IndexHeld, Working, Publishing, Locked,
                                 SavesOn
  <1>12. ItemInHand'
    <2>1. pc' = "item" => n.active # NoItem
          BY <1>1, <1>3 DEF Inv, ItemInHand, Publishing, Locked
    <2>3. \A t \in n.definition[1] : ItemOf[t] = n.active => Committed(t)'
          BY <1>1, <1>5 DEF ItemCommitted, Committed, Tree, Completed, Queued, SavesOn
    <2>4. ItemCommitted(mem, mem.active)'
          BY <1>1, <2>3 DEF ItemCommitted, SavesOn
    <2> QED BY <1>1, <2>1, <2>4 DEF ItemInHand, Publishing, Locked, SavesOn
  <1>13. EffectsKnown'
        BY <1>1, <1>3 DEF EffectsKnown, EffectsAsRecorded, Effects, SavesOn
  <1> QED BY <1>7, <1>9, <1>11, <1>12, <1>13 DEF Inv

LEMMA InvSaves ==
    ASSUME Inv, UNCHANGED overtaken, Saves
    PROVE  Inv'
  <1>1. ASSUME NEW ok \in BOOLEAN, RecordOutcome(ok) PROVE Inv'
        BY <1>1, InvPauses, InvRecordOutcome
  <1> QED BY <1>1, InvStartFresh, InvStartRetained, InvRebaseline, InvSaveReviewed,
             InvSelectTask, InvSettle, InvRecordItem, InvPauses DEF Saves

---------------------------------------------------------------------------
(* Steps that write the inventory's files *)

\* No task loses its completion.
NoneLost == \A t \in Task : Completed(worktree, t) => Completed(worktree', t)

\* No task loses its completion, and only a task of the run gains it.
LEMMA Rewritten ==
    ASSUME Inv, UNCHANGED overtaken, NEW w \in Inventory, worktree' = w,
           UNCHANGED <<commits, head, index, ledger, mem, discarded>>, touched => touched',
           \A t \in Task : Completed(worktree, t) => Completed(w, t),
           \A t \in Task : Completed(w, t) =>
              \/ Completed(worktree, t)
              \/ overtaken
              \/ mem = ledger /\ t \in mem.definition[1]
    PROVE  Objects' /\ Ledgers' /\ NoneLost
  <1>1. \A v : Behind(v) => Behind(v)'
        BY DEF Behind, Completed, Queued
  <1>2. Objects'
        BY <1>1 DEF Inv, Objects, Completed, Queued
  <1>3. ASSUME NEW l, Sound(l), l = ledger \/ l = mem
        PROVE  Sound(l)'
    <2>1. OnlyDefined(l)'
          BY <1>3 DEF Sound, OnlyDefined, Completed, Queued
    <2>2. Behind(l.baseline)'
          BY <1>1, <1>3 DEF Sound
    <2>3. PendingPrepared(l)' /\ KnowsHead(l)' /\ KnowsEffects(l)'
          BY <1>3 DEF Sound, PendingPrepared, KnowsHead, KnowsEffects, Finished, Completed, Queued
    <2>4. DoneCommitted(l)' /\ ActiveCommitted(l)'
          BY <1>3 DEF Sound, DoneCommitted, ActiveCommitted, ItemCommitted, Committed, Tree,
                      Completed, Queued
    <2> QED BY <2>1, <2>2, <2>3, <2>4 DEF Sound
  <1>4. Ledgers'
        BY <1>3 DEF Inv, Ledgers
  <1> QED BY <1>2, <1>4 DEF NoneLost

\* The same queue completes the same tasks.
LEMMA SameQueue ==
    ASSUME NEW v, NEW w, w.todo = v.todo
    PROVE  Queued(w) = Queued(v) /\ \A t : Completed(w, t) <=> Completed(v, t)
  BY DEF Completed, Queued

LEMMA ReviewedTyped ==
    ASSUME Inv
    PROVE  Reviewed \in Inventory /\ Reviewed.todo = worktree.todo /\ Reviewed.src = worktree.src
  <1>1. worktree \in Inventory /\ <<worktree.todo, worktree.src>> \in Review
        BY InventoryTyped DEF Inv, RunTypeOK, Review
  <1> QED BY <1>1, Written DEF Reviewed

\* The review index is written when the item, or the component, is completed.
LEMMA InvFinish ==
    ASSUME Inv, UNCHANGED overtaken, FinishItem \/ FinishComponent
    PROVE  Inv' /\ NoneLost
  <1>1. /\ pc = "loop" /\ SameDefinition
        /\ UNCHANGED <<commits, head, index, indexLock, owner, config, revision, ledger, mem,
                       task, resumed, discarded, unknown, touched, versions, acts, faults>>
        BY DEF FinishItem, FinishComponent, intent, history, bounds
  <1>2. \/ /\ FinishItem /\ ItemIsDone
           /\ \/ worktree' = Reviewed /\ pc' = "reviewed"
              \/ worktree' = worktree /\ pc' = "checkpoint"
        \/ /\ AllCompleted(worktree) /\ worktree' = Reviewed
           /\ \/ pc' = "checkpoint" /\ mem.policy = "component"
              \/ pc' = "await"
        BY DEF FinishItem, FinishComponent, Goto
  <1>3. /\ worktree' \in Inventory /\ worktree'.src = worktree.src
        /\ worktree'.todo = worktree.todo
        BY <1>2, ReviewedTyped DEF Inv, RunTypeOK
  <1>4. /\ Queued(worktree)' = Queued(worktree)
        /\ \A t : Completed(worktree, t)' <=> Completed(worktree, t)
        BY <1>3 DEF Completed, Queued
  <1>5. Objects' /\ Ledgers' /\ NoneLost
    <2>1. \A t \in Task : Completed(worktree', t) <=> Completed(worktree, t)
          BY <1>3 DEF Completed, Queued
    <2> QED BY <1>1, <1>3, <2>1, Rewritten
  <1>6. UnknownKept'
        BY <1>1, <1>3, SameUnknown DEF Inv
  <1>7. pc' \in {"reviewed", "checkpoint", "await"}
        BY <1>2
  <1>8. RunTypeOK'
        BY <1>1, <1>3, <1>7 DEF Inv, RunTypeOK
  <1>9. InMemory' /\ Executing' /\ IndexHeld'
        BY <1>1, <1>7 DEF Inv, InMemory, Executing, IndexHeld, Working, Publishing, Locked
  <1>10. ItemInHand'
    <2>1. mem.definition[1] = Queued(worktree)
          BY <1>1 DEF SameDefinition, Definition
    <2>2. CASE ItemIsDone /\ FinishItem
      <3>1. mem.active # NoItem /\ \A t \in Finished(mem) : Completed(worktree, t)
            BY <2>1, <2>2 DEF ItemIsDone, Finished, ItemCompleted, ItemTasks
      <3>2. \A t \in Finished(mem)' : Completed(worktree, t)'
            BY <1>1, <1>4, <3>1 DEF Finished
      <3> QED BY <1>1, <1>7, <3>1, <3>2 DEF ItemInHand, Publishing, Locked
    <2>3. CASE AllCompleted(worktree) /\ ~(pc' = "reviewed") /\
               ~(pc' = "checkpoint" /\ mem.policy = "item")
      <3>1. \A t \in Finished(mem) : Completed(worktree, t)
            BY <2>1, <2>3 DEF AllCompleted, Finished
      <3>2. \A t \in Finished(mem)' : Completed(worktree, t)'
            BY <1>1, <1>4, <3>1 DEF Finished
      <3> QED BY <1>1, <1>7, <2>3, <3>2 DEF ItemInHand, Publishing, Locked
    <2> QED BY <1>2, <2>2, <2>3
  <1>11. EffectsKnown'
    <2>1. CASE worktree' = worktree
          BY <1>1, <1>7, <2>1 DEF Inv, EffectsKnown, EffectsAsRecorded, Effects
    <2>2. CASE ~(pc' = "checkpoint" /\ mem.policy = "item")
          BY <1>1, <1>7, <2>2 DEF EffectsKnown
    <2> QED BY <1>2, <2>1, <2>2
  <1> QED BY <1>5, <1>6, <1>8, <1>9, <1>10, <1>11 DEF Inv

\* A new entry of a task in the queue.
LEMMA QueueWritten ==
    ASSUME NEW w \in Inventory, NEW t \in Queued(w), NEW s \in Status
    PROVE  LET v == [w EXCEPT !.todo[t] = s]
           IN  /\ v \in Inventory /\ v.src = w.src /\ Queued(v) = Queued(w)
               /\ \A u \in Queued(w) : v.todo[u] = IF u = t THEN s ELSE w.todo[u]
  <1> DEFINE q == [w.todo EXCEPT ![t] = s]
  <1>1. w.todo \in [Queued(w) -> Status] /\ Queued(w) \subseteq Task
        BY InventoryTyped
  <1>2. /\ q \in [Queued(w) -> Status] /\ DOMAIN q = Queued(w)
        /\ \A u \in Queued(w) : q[u] = IF u = t THEN s ELSE w.todo[u]
        BY <1>1
  <1>3. q \in Queue
        BY <1>1, <1>2, QueueTyped
  <1>4. [w EXCEPT !.todo[t] = s] = [w EXCEPT !.todo = q]
        BY DEF Inventory
  <1> HIDE DEF q
  <1>5. /\ [w EXCEPT !.todo = q] \in Inventory /\ [w EXCEPT !.todo = q].todo = q
        /\ [w EXCEPT !.todo = q].src = w.src
        BY <1>3, Written
  <1> QED BY <1>2, <1>4, <1>5 DEF Queued

\* Contents written for the first time are not unknown ones.
LEMMA UnknownFresh ==
    ASSUME Inv, UNCHANGED overtaken, worktree'.src = versions + 1, versions' = versions + 1,
           UNCHANGED <<commits, unknown>>
    PROVE  UnknownKept'
  <1>1. versions \in Nat /\ unknown \subseteq Nat /\ UnknownKept
        BY DEF Inv, RunTypeOK
  <1>2. /\ \A src \in unknown : src <= versions' /\ src # worktree'.src
        /\ worktree'.src \in 0 .. versions'
        BY <1>1 DEF UnknownKept
  <1>3. ASSUME NEW src \in unknown PROVE Excused(src)' \/ Unrecorded(src)'
    <2>1. CASE Excused(src)
          BY <2>1 DEF Excused, ByPerson
    <2>2. CASE Unrecorded(src)
          BY <2>2, <1>2 DEF Unrecorded, CommittedSources
    <2> QED BY <1>1, <2>1, <2>2 DEF UnknownKept
  <1> QED BY <1>2, <1>3 DEF UnknownKept

LEMMA InvTaskStarts ==
    ASSUME Inv, UNCHANGED overtaken, TaskStarts
    PROVE  Inv' /\ NoneLost
  <1> DEFINE v == WriteTodo(task, "open")
             w == [v EXCEPT !.src = versions + 1]
  <1>1. /\ pc = "start" /\ pc' = "task" /\ worktree' = w /\ versions' = versions + 1
        /\ UNCHANGED <<commits, head, index, indexLock, owner, config, revision, ledger, mem,
                       task, resumed, discarded, unknown, touched, acts, faults>>
        BY DEF TaskStarts, Goto, intent, history, bounds
  <1>2. /\ worktree \in Inventory /\ versions \in Nat /\ task \in Queued(worktree)
        /\ ~Completed(worktree, task) /\ Queued(worktree) \subseteq Task
        BY <1>1, InventoryTyped DEF Inv, RunTypeOK, Executing
  <1>3. /\ v \in Inventory /\ Queued(v) = Queued(worktree)
        /\ \A u \in Queued(worktree) : v.todo[u] = IF u = task THEN "open" ELSE worktree.todo[u]
        BY <1>2, QueueWritten DEF WriteTodo, Status
  <1> HIDE DEF v
  <1>4. w \in Inventory /\ w.todo = v.todo /\ w.src = versions + 1
    <2>1. versions + 1 \in Nat
          BY <1>2
    <2> QED BY <1>3, <2>1, Written
  <1> HIDE DEF w
  <1>5. /\ Queued(w) = Queued(worktree)
        /\ \A t : Completed(w, t) <=> Completed(worktree, t)
        BY <1>2, <1>3, <1>4 DEF Queued, Completed
  <1>6. Objects' /\ Ledgers' /\ NoneLost
        BY <1>1, <1>4, <1>5, Rewritten
  <1>7. UnknownKept'
        BY <1>1, <1>4, UnknownFresh
  <1>8. RunTypeOK'
        BY <1>1, <1>2, <1>4, SMTT(30) DEF Inv, RunTypeOK
  <1>9. InMemory' /\ IndexHeld' /\ ItemInHand' /\ EffectsKnown'
        BY <1>1 DEF Inv, InMemory, IndexHeld, ItemInHand, EffectsKnown, Working, Publishing, Locked
  <1>10. Executing'
    <2>1. task \in Queued(worktree)' /\ ~Completed(worktree, task)'
          BY <1>1, <1>2, <1>5 DEF Queued, Completed
    <2> QED BY <1>1, <2>1 DEF Inv, Executing
  <1> QED BY <1>6, <1>7, <1>8, <1>9, <1>10 DEF Inv

LEMMA InvTaskEnds ==
    ASSUME Inv, UNCHANGED overtaken, TaskEnds
    PROVE  Inv' /\ NoneLost
  <1>1. /\ pc = "task" /\ pc' = "ran"
        /\ UNCHANGED <<commits, head, index, indexLock, owner, config, revision, ledger, mem,
                       task, resumed, discarded, unknown, touched, versions, acts>>
        BY DEF TaskEnds, Goto, intent, history, bounds
  <1>2. PICK s \in {"open", "blocked", "completed"} :
           worktree' = WriteTodo(task, s) /\ faults' \in {faults, faults + 1}
        BY DEF TaskEnds
  <1>3. /\ worktree \in Inventory /\ task \in Queued(worktree)
        /\ ~Completed(worktree, task) /\ Queued(worktree) \subseteq Task
        /\ task \in mem.definition[1] /\ (overtaken \/ mem = ledger)
        BY <1>1, InventoryTyped DEF Inv, RunTypeOK, Executing, InMemory
  <1> DEFINE w == WriteTodo(task, s)
  <1>4. /\ w \in Inventory /\ Queued(w) = Queued(worktree) /\ w.src = worktree.src
        /\ \A u \in Queued(worktree) : w.todo[u] = IF u = task THEN s ELSE worktree.todo[u]
    <2>1. s \in Status
          BY DEF Status
    <2> QED BY <1>3, <2>1, QueueWritten DEF WriteTodo
  <1>5. worktree' = w
        BY <1>2
  <1> HIDE DEF w
  <1>6. /\ \A t : Completed(worktree, t) => Completed(w, t)
        /\ \A t : Completed(w, t) => Completed(worktree, t) \/ t = task
        BY <1>3, <1>4 DEF Completed
  <1>7. Objects' /\ Ledgers' /\ NoneLost
        BY <1>1, <1>3, <1>4, <1>5, <1>6, Rewritten
  <1>8. UnknownKept'
        BY <1>1, <1>4, <1>5, SameUnknown DEF Inv
  <1>9. RunTypeOK'
    <2>1. faults' \in Nat
          BY <1>2 DEF Inv, RunTypeOK
    <2> QED BY <1>1, <1>4, <1>5, <2>1 DEF Inv, RunTypeOK
  <1>10. InMemory' /\ IndexHeld' /\ ItemInHand' /\ EffectsKnown'
        BY <1>1 DEF Inv, InMemory, IndexHeld, ItemInHand, EffectsKnown, Working, Publishing, Locked
  <1>11. Executing'
    <2>1. task \in Queued(worktree)'
          BY <1>1, <1>3, <1>4, <1>5 DEF Queued
    <2> QED BY <1>1, <2>1 DEF Inv, Executing
  <1> QED BY <1>7, <1>8, <1>9, <1>10, <1>11 DEF Inv

\* A person's writes: while a command runs they are remembered in touched.
LEMMA InvEdits ==
    ASSUME Inv, UNCHANGED overtaken, NEW w \in Inventory, Edits(w), UNCHANGED <<config, revision>>,
           acts' \in Nat, versions' \in Nat, UnknownKept',
           Queued(worktree) \subseteq Queued(w),
           \A t : Completed(w, t) <=> Completed(worktree, t)
    PROVE  Inv' /\ NoneLost
  <1>1. /\ worktree' = w /\ touched' = (touched \/ Running)
        /\ UNCHANGED <<commits, head, index, indexLock, owner, ledger, mem, pc, task, resumed,
                       discarded, unknown, faults>>
        BY DEF Edits, process
  <1>2. Objects' /\ Ledgers' /\ NoneLost
        BY <1>1, Rewritten
  <1>3. touched' \in BOOLEAN
        BY <1>1 DEF Inv, RunTypeOK
  <1>4. RunTypeOK'
        BY <1>1, <1>3 DEF Inv, RunTypeOK
  <1>5. InMemory' /\ IndexHeld'
        BY <1>1 DEF Inv, InMemory, IndexHeld, StagedAsPrepared, Tree
  <1>6. Executing'
        BY <1>1 DEF Inv, Executing, Queued, Completed
  <1>7. ItemInHand'
    <2>1. \A t : Completed(worktree, t)' <=> Completed(worktree, t)
          BY <1>1 DEF Completed, Queued
    <2>2. Finished(mem)' = Finished(mem)
          BY <1>1 DEF Finished
    <2>3. ItemCommitted(mem, mem.active) => ItemCommitted(mem, mem.active)'
          BY <1>1 DEF ItemCommitted, Committed, Tree, Completed, Queued
    <2> QED BY <1>1, <2>1, <2>2, <2>3 DEF Inv, ItemInHand
  <1>8. EffectsKnown'
    <2>1. pc # "idle" => touched'
          BY <1>1 DEF Running
    <2> QED BY <1>1, <2>1 DEF EffectsKnown
  <1> QED BY <1>2, <1>4, <1>5, <1>6, <1>7, <1>8 DEF Inv

LEMMA InvEdit ==
    ASSUME Inv, UNCHANGED overtaken, Edit
    PROVE  Inv' /\ NoneLost
  <1> DEFINE w == [worktree EXCEPT !.src = versions + 1]
  <1>1. /\ Edits(w) /\ versions' = versions + 1 /\ UNCHANGED <<config, revision>>
        /\ acts' = acts + 1
        BY DEF Edit, Act, intent
  <1>2. worktree \in Inventory /\ versions + 1 \in Nat /\ acts + 1 \in Nat
        BY DEF Inv, RunTypeOK
  <1>3. w \in Inventory /\ w.todo = worktree.todo /\ w.src = versions + 1
        BY <1>2, Written
  <1> HIDE DEF w
  <1>4. Queued(w) = Queued(worktree) /\ \A t : Completed(w, t) <=> Completed(worktree, t)
        BY <1>3, SameQueue
  <1>5. UnknownKept'
        BY <1>1, <1>3, UnknownFresh DEF Edits
  <1> QED BY <1>1, <1>2, <1>3, <1>4, <1>5, InvEdits

Object == [parent : Nat, inv : Inventory, other : Nat, tasks : SUBSET Task]

LEMMA ObjectTyped ==
    ASSUME Inv, NEW c \in DOMAIN commits
    PROVE  /\ commits[c].parent \in Nat /\ commits[c].inv \in Inventory
           /\ commits[c].other \in Nat /\ commits[c].tasks \subseteq Task
  <1>1. commits \in Seq(Object)
        BY DEF Inv, RunTypeOK, Object
  <1>2. commits[c] \in Object
        BY <1>1, LenProperties
  <1> QED BY <1>2 DEF Object

LEMMA InvRestore ==
    ASSUME Inv, UNCHANGED overtaken, Restore
    PROVE  Inv' /\ NoneLost
  <1> DEFINE s == Tree(head).inv.src
             r == Tree(head).inv.review
             w == [worktree EXCEPT !.src = s, !.review = r]
  <1>1. /\ Edits(w) /\ UNCHANGED <<versions, config, revision>> /\ acts' = acts + 1
        BY DEF Restore, Act, intent
  <1>2. worktree \in Inventory /\ versions \in Nat /\ acts + 1 \in Nat
        BY DEF Inv, RunTypeOK
  <1>3. s \in Nat /\ r \in Review /\ s \in CommittedSources
    <2>1. head \in DOMAIN commits /\ commits[head].inv \in Inventory
          BY ObjectTyped DEF Inv, RunTypeOK
    <2> QED BY <2>1, InventoryTyped DEF Tree, CommittedSources
  <1> HIDE DEF s, r
  <1>4. w \in Inventory /\ w.todo = worktree.todo /\ w.src = s
        BY <1>2, <1>3 DEF Inventory
  <1> HIDE DEF w
  <1>5. Queued(w) = Queued(worktree) /\ \A t : Completed(w, t) <=> Completed(worktree, t)
        BY <1>4, SameQueue
  <1>6. UnknownKept'
    <2>1. UNCHANGED <<commits, unknown, versions>> /\ worktree' = w
          BY <1>1 DEF Edits
    <2>2. ASSUME NEW src \in unknown PROVE Excused(src)' \/ Unrecorded(src)'
      <3>1. CASE Excused(src)
            BY <3>1, <2>1 DEF Excused, ByPerson
      <3>2. CASE Unrecorded(src)
            BY <3>2, <2>1, <1>3, <1>4 DEF Unrecorded, CommittedSources
      <3> QED BY <3>1, <3>2 DEF Inv, UnknownKept
    <2> QED BY <2>1, <2>2, <1>3, <1>4 DEF Inv, UnknownKept, CommittedSources
  <1> QED BY <1>1, <1>2, <1>4, <1>5, <1>6, InvEdits

LEMMA InvSchedule ==
    ASSUME Inv, UNCHANGED overtaken, Schedule
    PROVE  Inv' /\ NoneLost
  <1>1. PICK t \in Task \ Queued(worktree) :
           Edits([worktree EXCEPT !.todo = [u \in Queued(worktree) \cup {t} |->
                     IF u = t THEN "pending" ELSE worktree.todo[u]]])
        BY DEF Schedule
  <1> DEFINE q == [u \in Queued(worktree) \cup {t} |->
                     IF u = t THEN "pending" ELSE worktree.todo[u]]
             w == [worktree EXCEPT !.todo = q]
  <1>2. Edits(w) /\ UNCHANGED <<versions, config, revision>> /\ acts' = acts + 1
        BY <1>1 DEF Schedule, Act, intent
  <1>3. worktree \in Inventory /\ versions \in Nat /\ acts + 1 \in Nat
        BY DEF Inv, RunTypeOK
  <1>4. /\ worktree.todo \in [Queued(worktree) -> Status] /\ Queued(worktree) \subseteq Task
        /\ "pending" \in Status
        BY <1>3, InventoryTyped DEF Status
  <1>5. q \in [Queued(worktree) \cup {t} -> Status] /\ DOMAIN q = Queued(worktree) \cup {t}
        BY <1>4
  <1>6. q \in Queue
        BY <1>4, <1>5, QueueTyped
  <1>7. q[t] = "pending" /\ \A u \in Queued(worktree) : q[u] = worktree.todo[u]
        OBVIOUS
  <1> HIDE DEF q
  <1>8. w \in Inventory /\ w.todo = q /\ w.src = worktree.src
        BY <1>3, <1>6, Written
  <1> HIDE DEF w
  <1>9. Queued(worktree) \subseteq Queued(w)
        BY <1>5, <1>8 DEF Queued
  <1>10. ASSUME NEW u PROVE Completed(w, u) <=> Completed(worktree, u)
        BY <1>5, <1>7, <1>8 DEF Completed, Queued
  <1>11. UnknownKept'
    <2>1. UNCHANGED <<commits, ledger, unknown, versions, pc>> /\ worktree' = w
          BY <1>2 DEF Edits, process
    <2> QED BY <2>1, <1>8, SameUnknown DEF Inv
  <1> QED BY <1>2, <1>3, <1>8, <1>9, <1>10, <1>11, InvEdits

LEMMA InvResolve ==
    ASSUME Inv, UNCHANGED overtaken, Resolve
    PROVE  Inv' /\ NoneLost
  <1>1. PICK t \in Queued(worktree) : /\ worktree.todo[t] \in {"open", "blocked"}
                                      /\ Edits(WriteTodo(t, "pending"))
        BY DEF Resolve
  <1> DEFINE w == WriteTodo(t, "pending")
  <1>2. Edits(w) /\ UNCHANGED <<versions, config, revision>> /\ acts' = acts + 1
        BY <1>1 DEF Resolve, Act, intent
  <1>3. worktree \in Inventory /\ versions \in Nat /\ acts + 1 \in Nat /\ "pending" \in Status
        BY DEF Inv, RunTypeOK, Status
  <1>4. /\ w \in Inventory /\ w.src = worktree.src /\ Queued(w) = Queued(worktree)
        /\ \A u \in Queued(worktree) : w.todo[u] = IF u = t THEN "pending" ELSE worktree.todo[u]
        BY <1>3, QueueWritten DEF WriteTodo
  <1> HIDE DEF w
  <1>5. \A u : Completed(w, u) <=> Completed(worktree, u)
        BY <1>1, <1>4 DEF Completed
  <1>6. UnknownKept'
    <2>1. UNCHANGED <<commits, ledger, unknown, versions, pc>> /\ worktree' = w
          BY <1>2 DEF Edits, process
    <2> QED BY <2>1, <1>4, SameUnknown DEF Inv
  <1> QED BY <1>2, <1>3, <1>4, <1>5, <1>6, InvEdits

LEMMA InvWrites ==
    ASSUME Inv, UNCHANGED overtaken, Writes
    PROVE  Inv' /\ NoneLost
  BY InvFinish, InvTaskStarts, InvTaskEnds, InvEdit, InvRestore, InvSchedule, InvResolve
     DEF Writes

---------------------------------------------------------------------------
(* Steps that create commits *)

\* A new commit object leaves the others alone.
LEMMA NewObject ==
    ASSUME Inv, NEW c \in Object, commits' = Append(commits, c)
    PROVE  /\ commits' \in Seq(Object)
           /\ DOMAIN commits' = DOMAIN commits \cup {Len(commits) + 1}
           /\ Len(commits) + 1 \in Nat \ DOMAIN commits
           /\ \A d \in DOMAIN commits : d \in Nat /\ d < Len(commits) + 1
           /\ commits'[Len(commits) + 1] = c
           /\ \A d \in DOMAIN commits : commits'[d] = commits[d]
  <1>1. commits \in Seq(Object)
        BY DEF Inv, RunTypeOK, Object
  <1>2. DOMAIN commits = 1 .. Len(commits) /\ Len(commits) \in Nat
        BY <1>1, LenProperties
  <1>3. /\ commits' \in Seq(Object) /\ Len(commits') = Len(commits) + 1
        /\ commits'[Len(commits) + 1] = c
        /\ \A d \in 1 .. Len(commits) : commits'[d] = commits[d]
        BY <1>1, AppendProperties
  <1>4. DOMAIN commits' = 1 .. Len(commits) + 1
        BY <1>3, LenProperties
  <1> QED BY <1>2, <1>3, <1>4

LEMMA SoundWithObject ==
    ASSUME Inv, UNCHANGED overtaken, NEW c \in Object, commits' = Append(commits, c),
           UNCHANGED <<worktree, head, index, discarded, touched>>
    PROVE  \A l : Sound(l) => Sound(l)'
  <1>1. \A d \in DOMAIN commits : d \in DOMAIN commits' /\ commits'[d] = commits[d]
        BY NewObject
  <1>2. head \in DOMAIN commits
        BY DEF Inv, RunTypeOK
  <1>3. ASSUME NEW l, Sound(l) PROVE Sound(l)'
    <2>1. PendingPrepared(l)'
          BY <1>1, <1>3 DEF Sound, PendingPrepared, Finished, Completed, Queued
    <2>2. Behind(l.baseline)' /\ OnlyDefined(l)' /\ KnowsEffects(l)'
          BY <1>3 DEF Sound, Behind, OnlyDefined, KnowsEffects, Completed, Queued
    <2>3. KnowsHead(l)'
          BY <1>1, <1>2, <1>3 DEF Sound, KnowsHead
    <2>4. DoneCommitted(l)' /\ ActiveCommitted(l)'
          BY <1>1, <1>2, <1>3 DEF Sound, DoneCommitted, ActiveCommitted, ItemCommitted,
                                  Committed, Tree, Completed, Queued
    <2> QED BY <2>1, <2>2, <2>3, <2>4 DEF Sound
  <1> QED BY <1>3

\* The commit of a checkpoint: what it is made for is completed in the files.
LEMMA CheckpointObject ==
    ASSUME Inv, NEW l \in Ledger, CreatePrepared(Finished(l)), worktree' = worktree
    PROVE  \E c \in Object : /\ commits' = Append(commits, c)
                             /\ c.parent = head /\ c.inv = worktree
                             /\ c.other = commits[head].other /\ c.tasks = Finished(l)
  <1> DEFINE c == [parent |-> head, inv |-> worktree, other |-> commits[head].other,
                   tasks |-> Finished(l)]
  <1>1. commits' = Append(commits, c)
        BY DEF CreatePrepared, NewCommit, Tree
  <1>2. head \in DOMAIN commits /\ head \in Nat /\ worktree \in Inventory
        BY LenProperties DEF Inv, RunTypeOK
  <1>3. commits[head].other \in Nat /\ Finished(l) \subseteq Task
        BY <1>2, ObjectTyped, LedgerFields DEF Finished
  <1>4. c \in Object
        BY <1>2, <1>3 DEF Object
  <1> QED BY <1>1, <1>4

\* The new commit, and the ledger that is about to name it.
LEMMA PreparedGrounded ==
    ASSUME Inv, UNCHANGED overtaken,
           NEW l \in Ledger, Grounded(l), CreatePrepared(Finished(l)),
           UNCHANGED <<worktree, head, index, discarded, touched>>,
           worktree # Tree(head).inv,
           \A t \in Finished(l) : Completed(worktree, t),
           ~touched /\ l.policy = "item" => l.phase = "paused" \/ l.effects = Effects,
           NEW n, n = Rebased(l), ledger' = NoLedger => ledger = NoLedger
    PROVE  /\ n \in Ledger /\ n # NoLedger
           /\ n.pending # NoCheckpoint
           /\ n.phase = l.phase /\ n.policy = l.policy /\ n.definition = l.definition
           /\ n.active = l.active /\ n.done = l.done
           /\ n.baseline = l.baseline /\ n.expected = l.expected
           /\ n.effects = l.effects
           /\ Grounded(n)' /\ Objects'
           /\ commits' \in Seq(Object) /\ DOMAIN commits \subseteq DOMAIN commits'
           /\ \A d \in DOMAIN commits : commits'[d] = commits[d]
           /\ head \in DOMAIN commits /\ head \in DOMAIN commits'
           /\ CommittedSources' = CommittedSources \cup {worktree.src}
           /\ \A src : Excused(src) => Excused(src)'
  <1>1. PICK c \in Object : /\ commits' = Append(commits, c)
                            /\ c.parent = head /\ c.inv = worktree
                            /\ c.other = commits[head].other /\ c.tasks = Finished(l)
        BY CheckpointObject
  <1> DEFINE k == Len(commits) + 1
  <1>2. /\ commits' \in Seq(Object)
        /\ DOMAIN commits' = DOMAIN commits \cup {k}
        /\ k \in Nat \ DOMAIN commits
        /\ commits'[k] = c
        /\ \A d \in DOMAIN commits : commits'[d] = commits[d]
        /\ \A d \in DOMAIN commits : d \in Nat /\ d < k
        BY <1>1, NewObject
  <1>3. Prepared = [commit |-> k, parent |-> head, after |-> worktree]
        BY DEF Prepared
  <1> HIDE DEF k
  <1>4. head \in DOMAIN commits /\ head \in Nat /\ worktree \in Inventory
        BY LenProperties DEF Inv, RunTypeOK
  <1>5. /\ Prepared \in PreparedCommit /\ Prepared.commit = k /\ Prepared.parent = head
        /\ Prepared.after = worktree
        BY <1>2, <1>3, <1>4 DEF PreparedCommit
  <1>6. /\ n \in Ledger /\ n.pending = Prepared
        /\ n.phase = l.phase /\ n.policy = l.policy /\ n.definition = l.definition
        /\ n.active = l.active /\ n.done = l.done
        /\ n.baseline = l.baseline /\ n.expected = l.expected
        /\ n.effects = l.effects
    <2>1. n = [l EXCEPT !.pending = Prepared]
          BY DEF Rebased
    <2> HIDE DEF Prepared
    <2> QED BY <1>5, <2>1, SetPending
  <1> HIDE DEF Prepared
  <1>7. n # NoLedger /\ n.pending # NoCheckpoint
        BY <1>5, <1>6, LedgerFields, NothingAssumption
  <1>8. Finished(n) = Finished(l)
        BY <1>6 DEF Finished
  <1>9. Grounded(n)'
    <2>1. \A t \in Task : Completed(commits[head].inv, t) => Completed(worktree, t)
          BY <1>4 DEF Inv, Objects, Behind
    <2>2. PendingPrepared(n)'
      <3>1. /\ commits'[k].parent = head /\ commits'[k].inv = worktree
            /\ commits'[k].other = commits'[head].other /\ worktree # commits'[head].inv
            /\ k \in DOMAIN commits' /\ head \in DOMAIN commits' /\ head <= head'
            BY <1>1, <1>2, <1>4 DEF Tree
      <3>2. /\ \A t \in Finished(n) : Completed(worktree, t)
            /\ \A t \in Task : Completed(commits'[head].inv, t) => Completed(worktree, t)
            BY <1>2, <1>4, <1>8, <2>1
      <3> QED BY <1>5, <1>6, <3>1, <3>2 DEF PendingPrepared, Finished, Completed, Queued
    <2>3. Behind(n.baseline)'
          BY <1>6 DEF Grounded, Behind, Completed, Queued
    <2>4. KnowsEffects(n)'
          BY <1>5, <1>6 DEF KnowsEffects, Effects
    <2> QED BY <2>2, <2>3, <2>4 DEF Grounded
  <1>10. Objects'
    <2>1. \A d \in DOMAIN commits : /\ commits[d].parent < d /\ Behind(commits[d].inv)
                                    /\ \A t \in commits[d].tasks : Completed(commits[d].inv, t)
          BY DEF Inv, Objects
    <2>2. c.parent < k /\ Behind(c.inv) /\ \A t \in c.tasks : Completed(c.inv, t)
          BY <1>1, <1>2, <1>4 DEF Behind
    <2>3. \A d \in DOMAIN commits' :
             /\ commits'[d].parent < d
             /\ Behind(commits'[d].inv)
             /\ \A t \in commits'[d].tasks : Completed(commits'[d].inv, t)
          BY <1>2, <2>1, <2>2
    <2>4. Behind(index.inv)
          BY DEF Inv, Objects
    <2>5. commits'[head'].tasks # {} => ledger' # NoLedger
          BY <1>2, <1>4 DEF Inv, Objects
    <2> QED BY <2>3, <2>4, <2>5 DEF Objects, Behind, Completed, Queued
  <1>11. CommittedSources' = CommittedSources \cup {worktree.src}
        BY <1>1, <1>2 DEF CommittedSources
  <1>12. \A src : Excused(src) => Excused(src)'
        BY <1>2 DEF Excused, ByPerson
  <1> QED BY <1>2, <1>4, <1>6, <1>7, <1>9, <1>10, <1>11, <1>12

\* The ledger with the new checkpoint, saved after its commit was created.
LEMMA PreparedSound ==
    ASSUME Inv, UNCHANGED overtaken, NEW l \in Ledger, Sound(l), CreatePrepared(Finished(l)),
           UNCHANGED <<worktree, head, index, discarded, touched>>,
           worktree # Tree(head).inv,
           \A t \in Finished(l) : Completed(worktree, t),
           l.pending = NoCheckpoint \/ Orphaned(l.pending),
           ~touched /\ l.policy = "item" => l.phase = "paused" \/ l.effects = Effects,
           NEW n, n = Rebased(l), ledger' = n
    PROVE  /\ n \in Ledger /\ n # NoLedger
           /\ n.pending # NoCheckpoint
           /\ n.phase = l.phase /\ n.policy = l.policy /\ n.definition = l.definition
           /\ n.active = l.active /\ n.done = l.done
           /\ n.baseline = l.baseline /\ n.expected = l.expected
           /\ n.effects = l.effects
           /\ Sound(ledger)' /\ Objects'
           /\ commits' \in Seq(Object) /\ DOMAIN commits \subseteq DOMAIN commits'
           /\ head \in DOMAIN commits'
           /\ CommittedSources' = CommittedSources \cup {worktree.src}
           /\ \A src : Excused(src) => Excused(src)'
  <1>1. PICK c \in Object : commits' = Append(commits, c)
        BY CheckpointObject
  <1>2. Grounded(l)
        BY DEF Sound, Grounded
  <1>3. n \in Ledger
    <2>1. Prepared \in PreparedCommit
      <3>1. Len(commits) + 1 \in Nat /\ head \in Nat /\ worktree \in Inventory
            BY LenProperties, SMTT(30) DEF Inv, RunTypeOK
      <3> QED BY <3>1 DEF Prepared, PreparedCommit
    <2> HIDE DEF Prepared
    <2> QED BY <2>1, SetPending DEF Rebased
  <1>4. ledger' # NoLedger
        BY <1>3, LedgerFields
  <1>5. /\ n \in Ledger /\ n # NoLedger
        /\ n.pending # NoCheckpoint
        /\ n.phase = l.phase /\ n.policy = l.policy /\ n.definition = l.definition
        /\ n.active = l.active /\ n.done = l.done
        /\ n.baseline = l.baseline /\ n.expected = l.expected
        /\ n.effects = l.effects
        /\ Grounded(n)' /\ Objects'
        /\ commits' \in Seq(Object) /\ DOMAIN commits \subseteq DOMAIN commits'
        /\ \A d \in DOMAIN commits : commits'[d] = commits[d]
        /\ head \in DOMAIN commits /\ head \in DOMAIN commits'
        /\ CommittedSources' = CommittedSources \cup {worktree.src}
        /\ \A src : Excused(src) => Excused(src)'
        BY <1>2, <1>4, PreparedGrounded
  <1>6. Sound(l)'
        BY <1>1, SoundWithObject
  <1>7. Sound(n)'
    <2>1. OnlyDefined(n)'
          BY <1>5, <1>6 DEF Sound, OnlyDefined
    <2>2. DoneCommitted(n)' /\ ActiveCommitted(n)'
          BY <1>5, <1>6 DEF Sound, DoneCommitted, ActiveCommitted, ItemCommitted
    <2>3. KnowsHead(n)'
      <3>1. commits[head].tasks # {} /\ ~overtaken => l.expected = head
            BY DEF Sound, KnowsHead, Orphaned
      <3> QED BY <3>1, <1>5 DEF KnowsHead
    <2> QED BY <1>5, <2>1, <2>2, <2>3 DEF Sound, Grounded
  <1> QED BY <1>5, <1>7

\* No unknown source gets into the new commit.
LEMMA UnknownPrepared ==
    ASSUME Inv, UNCHANGED overtaken, UNCHANGED <<worktree, unknown, versions>>,
           CommittedSources' = CommittedSources \cup {worktree.src},
           \A src : Excused(src) => Excused(src)',
           overtaken \/ \A src \in unknown : Unrecorded(src) => worktree.src # src
    PROVE  UnknownKept'
  <1>1. ASSUME NEW src \in unknown PROVE Excused(src)' \/ Unrecorded(src)'
    <2>1. CASE Unrecorded(src) /\ ~overtaken
      <3>1. src \notin CommittedSources' /\ worktree'.src # src
            BY <2>1 DEF Unrecorded
      <3> QED BY <3>1 DEF Unrecorded
    <2>2. overtaken => Excused(src)'
          BY DEF Excused
    <2> QED BY <2>1, <2>2 DEF Inv, UnknownKept
  <1> QED BY <1>1 DEF Inv, UnknownKept

LEMMA InvPrepare ==
    ASSUME Inv, UNCHANGED overtaken, Prepare
    PROVE  Inv'
  <1> DEFINE n == Rebased(mem)
  <1>1. /\ pc = "checkpoint" /\ pc' = "publish" /\ mem' = n /\ ledger' = n
        /\ resumed' = FALSE /\ CreatePrepared(Finished(mem))
        /\ worktree # Tree(head).inv
        /\ UNCHANGED <<worktree, head, index, indexLock, owner, config, revision, task,
                       discarded, unknown, touched, versions, acts, faults>>
        BY DEF Prepare, CanPrepare, Save, Goto, intent, history, bounds
  <1>2. /\ mem \in Ledger /\ Sound(mem) /\ mem.pending = NoCheckpoint
        /\ \A t \in Finished(mem) : Completed(worktree, t)
        /\ mem.policy = "item" => mem.active # NoItem
        /\ ~touched /\ mem.policy = "item" => mem.phase = "paused" \/ mem.effects = Effects
    <2>1. mem \in Ledger /\ Sound(mem)
          BY <1>1, MemTyped, LedgerFields DEF Inv, Ledgers
    <2>2. /\ mem.pending = NoCheckpoint
          /\ \A t \in Finished(mem) : Completed(worktree, t)
          /\ mem.policy = "item" => mem.active # NoItem
          BY <1>1 DEF Inv, InMemory, Working, ItemInHand
    <2>3. ~touched /\ mem.policy = "item" => mem.phase = "paused" \/ mem.effects = Effects
          BY <1>1 DEF Inv, EffectsKnown, EffectsAsRecorded
    <2> QED BY <2>1, <2>2, <2>3
  <1> HIDE DEF n
  <1>3. /\ n \in Ledger /\ n # NoLedger /\ n.pending # NoCheckpoint
        /\ n.policy = mem.policy /\ n.active = mem.active
        /\ Sound(ledger)' /\ Objects'
        /\ commits' \in Seq(Object) /\ DOMAIN commits \subseteq DOMAIN commits'
        /\ head \in DOMAIN commits'
        /\ CommittedSources' = CommittedSources \cup {worktree.src}
        /\ \A src : Excused(src) => Excused(src)'
        BY <1>1, <1>2, PreparedSound DEF n
  <1>4. Ledgers'
        BY <1>1, <1>3 DEF Ledgers
  <1>5. UnknownKept'
        BY <1>1, <1>3, UnknownPrepared DEF Unrecorded
  <1>6. RunTypeOK'
        BY <1>1, <1>3 DEF Inv, RunTypeOK, Object
  <1>7. InMemory' /\ Executing' /\ IndexHeld' /\ ItemInHand' /\ EffectsKnown'
        BY <1>1, <1>2, <1>3 DEF InMemory, Executing, IndexHeld, ItemInHand, EffectsKnown,
                                Working, Publishing, Locked
  <1> QED BY <1>3, <1>4, <1>5, <1>6, <1>7 DEF Inv

\* An orphaned checkpoint that is prepared again has the files of the first one.
LEMMA RepreparedSound ==
    ASSUME Inv, UNCHANGED overtaken, NEW l \in Ledger, Sound(l), l.pending # NoCheckpoint, Orphaned(l.pending),
           Reprepare(l), NEW n, n = Rebased(l), ledger' = n
    PROVE  /\ n \in Ledger /\ n # NoLedger
           /\ n.pending # NoCheckpoint
           /\ n.phase = l.phase /\ n.policy = l.policy /\ n.definition = l.definition
           /\ n.active = l.active /\ n.done = l.done
           /\ n.baseline = l.baseline /\ n.expected = l.expected
           /\ n.effects = l.effects
           /\ Sound(ledger)' /\ Objects'
           /\ commits' \in Seq(Object) /\ DOMAIN commits \subseteq DOMAIN commits'
           /\ head \in DOMAIN commits'
           /\ CommittedSources' = CommittedSources \cup {worktree.src}
           /\ \A src : Excused(src) => Excused(src)'
           /\ UNCHANGED <<worktree, head, index, indexLock, owner, discarded, unknown, touched>>
  <1>1. /\ worktree = l.pending.after /\ worktree # Tree(head).inv
        /\ CreatePrepared(Finished(l))
        /\ UNCHANGED <<worktree, head, index, indexLock, owner, discarded, unknown, touched>>
        BY DEF Reprepare, CanReprepare, history
  <1>2. \A t \in Finished(l) : Completed(worktree, t)
        BY <1>1 DEF Sound, PendingPrepared
  <1>3. ~touched /\ l.policy = "item" => l.phase = "paused" \/ l.effects = Effects
        BY <1>1 DEF Sound, KnowsEffects, Effects
  <1> QED BY <1>1, <1>2, <1>3, PreparedSound

LEMMA InvReprepareToPublish ==
    ASSUME Inv, UNCHANGED overtaken, ReprepareToPublish
    PROVE  Inv'
  <1> DEFINE n == Rebased(mem)
  <1>1. /\ pc = "publish" /\ pc' = "publish" /\ mem' = n /\ ledger' = n
        /\ Orphaned(mem.pending) /\ Reprepare(mem)
        /\ UNCHANGED <<config, revision, task, resumed, versions, acts, faults>>
        BY DEF ReprepareToPublish, Save, Goto, intent, bounds
  <1>2. mem \in Ledger /\ Sound(mem) /\ mem.pending # NoCheckpoint
        BY <1>1, MemTyped, LedgerFields DEF Inv, Ledgers, InMemory, Publishing
  <1> HIDE DEF n
  <1>3. /\ n \in Ledger /\ n # NoLedger /\ n.pending # NoCheckpoint
        /\ n.policy = mem.policy /\ n.active = mem.active
        /\ Sound(ledger)' /\ Objects'
        /\ commits' \in Seq(Object) /\ DOMAIN commits \subseteq DOMAIN commits'
        /\ head \in DOMAIN commits'
        /\ CommittedSources' = CommittedSources \cup {worktree.src}
        /\ \A src : Excused(src) => Excused(src)'
        /\ UNCHANGED <<worktree, head, index, indexLock, owner, discarded, unknown, touched>>
        BY <1>1, <1>2, RepreparedSound DEF n
  <1>4. Ledgers'
        BY <1>1, <1>3 DEF Ledgers
  <1>5. UnknownKept'
        BY <1>1, <1>3, UnknownPrepared DEF Unrecorded
  <1>6. RunTypeOK'
        BY <1>1, <1>3 DEF Inv, RunTypeOK, Object
  <1>7. InMemory' /\ Executing' /\ IndexHeld' /\ ItemInHand' /\ EffectsKnown'
        BY <1>1, <1>2, <1>3 DEF Inv, InMemory, Executing, IndexHeld, ItemInHand, EffectsKnown,
                                Working, Publishing, Locked
  <1> QED BY <1>3, <1>4, <1>5, <1>6, <1>7 DEF Inv

\* A discarded checkpoint: the item that was active no longer counts.
LEMMA SupersededSound ==
    ASSUME Inv, UNCHANGED overtaken, NEW l \in Ledger, Sound(l), l.pending # NoCheckpoint, Orphaned(l.pending),
           Discard(l), NEW n, n = Superseded(l)
    PROVE  /\ n \in Ledger /\ n # NoLedger
           /\ n.pending = NoCheckpoint /\ n.phase = "paused"
           /\ n.policy = l.policy /\ n.definition = l.definition /\ n.active = l.active
           /\ n.baseline = worktree /\ n.expected = l.expected /\ n.effects = Effects
           /\ Sound(n)'
           /\ discarded' = discarded \cup {l.active}
           /\ UNCHANGED <<worktree, commits, head, index, indexLock, owner, unknown, touched>>
  <1>1. /\ discarded' = discarded \cup {l.active}
        /\ UNCHANGED <<worktree, commits, head, index, indexLock, owner, unknown, touched>>
        BY DEF Discard, git
  <1>2. /\ n \in Ledger /\ n.pending = NoCheckpoint /\ n.phase = "paused"
        /\ n.baseline = worktree /\ n.effects = Effects
        /\ n.policy = l.policy /\ n.definition = l.definition
        /\ n.active = l.active /\ n.done = l.done /\ n.expected = l.expected
        BY SetSuperseded DEF Inv, RunTypeOK
  <1>3. n # NoLedger
        BY <1>2, LedgerFields
  <1>4. PendingPrepared(n)' /\ KnowsEffects(n)' /\ Behind(n.baseline)'
        BY <1>1, <1>2 DEF PendingPrepared, KnowsEffects, Behind, Completed, Queued
  <1>5. OnlyDefined(n)' /\ KnowsHead(n)'
        BY <1>1, <1>2 DEF Sound, OnlyDefined, KnowsHead, Orphaned, Completed, Queued
  <1>6. DoneCommitted(n)' /\ ActiveCommitted(n)'
        BY <1>1, <1>2 DEF Sound, DoneCommitted, ActiveCommitted, ItemCommitted, Committed, Tree,
                          Completed, Queued
  <1> QED BY <1>1, <1>2, <1>3, <1>4, <1>5, <1>6 DEF Sound

\* A checkpoint of the ledger on disk is dropped.
LEMMA DiscardedSound ==
    ASSUME Inv, UNCHANGED overtaken, NEW l \in Ledger, Sound(l), l.pending # NoCheckpoint, Orphaned(l.pending),
           Discard(l), ledger # NoLedger, overtaken \/ ledger.pending = l.pending,
           ledger' = Superseded(l), mem' \in {ledger', NoLedger}, versions' = versions
    PROVE  Objects' /\ Ledgers' /\ UnknownKept' /\ discarded' \subseteq Item \cup {NoItem}
  <1>1. PICK n : n = Superseded(l)
        OBVIOUS
  <1>2. /\ n \in Ledger /\ n # NoLedger /\ Sound(n)'
        /\ discarded' = discarded \cup {l.active}
        /\ UNCHANGED <<worktree, commits, head, index, indexLock, owner, unknown, touched>>
        BY <1>1, SupersededSound
  <1>3. Sound(ledger)'
        BY <1>1, <1>2
  <1>4. Objects'
        BY <1>1, <1>2 DEF Inv, Objects, Behind, Completed, Queued
  <1>5. Ledgers'
        BY <1>1, <1>2, <1>3 DEF Ledgers
  <1>6. UnknownKept'
    <2>1. overtaken \/ \A src \in unknown : Unrecorded(src) => worktree.src # src
          BY DEF Unrecorded
    <2> QED BY <1>2, <2>1, UnknownElsewhere DEF Inv
  <1>7. discarded' \subseteq Item \cup {NoItem}
        BY <1>2, LedgerFields DEF Inv, RunTypeOK
  <1> QED BY <1>4, <1>5, <1>6, <1>7

\* Before anything else a resumed run deals with an orphaned checkpoint.
LEMMA InvRecoverOrphan ==
    ASSUME Inv, UNCHANGED overtaken, RecoverOrphan
    PROVE  Inv'
  <1>1. /\ pc = "recover" /\ pc' = "effects"
        /\ UNCHANGED <<config, revision, task, resumed, versions, acts, faults>>
        BY DEF RecoverOrphan, Goto, intent, bounds
  <1>2. /\ mem \in Ledger /\ ledger \in Ledger /\ mem # NoLedger /\ ledger # NoLedger
        /\ Sound(mem) /\ (overtaken \/ mem.pending = ledger.pending)
        BY <1>1, MemTyped, LedgerFields DEF Inv, InMemory, Ledgers
  <1>3. CASE ~Moved(mem)
    <2>1. UNCHANGED <<worktree, commits, head, index, indexLock, owner, ledger, mem,
                      discarded, unknown, touched>>
          BY <1>3 DEF RecoverOrphan, git, history
    <2>2. RunTypeOK'
          BY <1>1, <2>1 DEF Inv, RunTypeOK
    <2>3. InMemory' /\ Executing' /\ IndexHeld' /\ ItemInHand' /\ EffectsKnown'
          BY <1>1, <2>1 DEF Inv, InMemory, Executing, IndexHeld, ItemInHand, EffectsKnown,
                            Working, Publishing, Locked
    <2>4. Objects'
          BY <2>1 DEF Inv, Objects, Behind, Completed, Queued
    <2>5. Ledgers'
          BY <2>1, SameSound DEF Inv, Ledgers
    <2>6. UnknownKept'
          BY <1>1, <2>1, SameUnknown DEF Inv
    <2> QED BY <2>2, <2>3, <2>4, <2>5, <2>6 DEF Inv
  <1>4. CASE Moved(mem) /\ Reprepare(mem) /\ Save(Rebased(mem))
    <2>1. PICK n : n = Rebased(mem)
          OBVIOUS
    <2>2. ledger' = n /\ mem' = n /\ mem.pending # NoCheckpoint /\ Orphaned(mem.pending)
          BY <1>4, <2>1 DEF Save, Moved
    <2>3. /\ n \in Ledger /\ n # NoLedger
          /\ Sound(ledger)' /\ Objects'
          /\ commits' \in Seq(Object) /\ DOMAIN commits \subseteq DOMAIN commits'
          /\ head \in DOMAIN commits'
          /\ CommittedSources' = CommittedSources \cup {worktree.src}
          /\ \A src : Excused(src) => Excused(src)'
          /\ UNCHANGED <<worktree, head, index, indexLock, owner, discarded, unknown, touched>>
          BY <1>2, <1>4, <2>1, <2>2, RepreparedSound
    <2>4. Ledgers'
          BY <2>2, <2>3 DEF Ledgers
    <2>5. UnknownKept'
          BY <1>1, <1>2, <2>2, <2>3, UnknownPrepared DEF Unrecorded
    <2>6. RunTypeOK'
          BY <1>1, <2>2, <2>3 DEF Inv, RunTypeOK, Object
    <2>7. InMemory' /\ Executing' /\ IndexHeld' /\ ItemInHand' /\ EffectsKnown'
          BY <1>1, <2>2, <2>3 DEF InMemory, Executing, IndexHeld, ItemInHand, EffectsKnown,
                                  Working, Publishing, Locked
    <2> QED BY <2>3, <2>4, <2>5, <2>6, <2>7 DEF Inv
  <1>5. CASE Moved(mem) /\ Discard(mem) /\ Save(Superseded(mem))
    <2>1. /\ ledger' = Superseded(mem) /\ mem' = ledger'
          /\ mem.pending # NoCheckpoint /\ Orphaned(mem.pending)
          BY <1>5 DEF Save, Moved
    <2>2. /\ Objects' /\ Ledgers' /\ UnknownKept' /\ discarded' \subseteq Item \cup {NoItem}
          BY <1>1, <1>2, <1>5, <2>1, DiscardedSound
    <2>3. /\ ledger' \in Ledger /\ ledger' # NoLedger
          /\ UNCHANGED <<worktree, commits, head, index, indexLock, owner, unknown, touched>>
          BY <1>2, <1>5, <2>1, SupersededSound
    <2>4. RunTypeOK'
          BY <1>1, <2>1, <2>2, <2>3 DEF Inv, RunTypeOK
    <2>5. InMemory' /\ Executing' /\ IndexHeld' /\ ItemInHand' /\ EffectsKnown'
          BY <1>1, <2>1, <2>3 DEF InMemory, Executing, IndexHeld, ItemInHand, EffectsKnown,
                                  Working, Publishing, Locked
    <2> QED BY <2>2, <2>4, <2>5 DEF Inv
  <1> QED BY <1>3, <1>4, <1>5 DEF RecoverOrphan

LEMMA InvPrepares ==
    ASSUME Inv, UNCHANGED overtaken, Prepares
    PROVE  Inv'
  BY InvRecoverOrphan, InvPrepare, InvReprepareToPublish DEF Prepares

---------------------------------------------------------------------------
(* Steps that change the branch, the index or the settings *)

\* Objects stay, and what is committed stays committed.
Kept ==
    /\ UNCHANGED <<worktree, discarded, touched, overtaken>>
    /\ \A d \in DOMAIN commits : d \in DOMAIN commits' /\ commits'[d] = commits[d]
    /\ \A n \in Nat : n <= head => n <= head'
    /\ \A t \in Task : Committed(t) => Committed(t)'

\* The order of branch positions.
LEMMA HeadOrder ==
    ASSUME Inv, head' = head \/ (head' \in DOMAIN commits' /\ head' \in Nat /\ head < head')
    PROVE  \A n \in Nat : n <= head => n <= head'
  <1>1. head \in Nat
        BY LenProperties DEF Inv, RunTypeOK
  <1> QED BY <1>1

LEMMA KeptSound ==
    ASSUME Kept, NEW l \in Ledger, Sound(l), KnowsHead(l)'
    PROVE  Sound(l)' /\ \A i : ItemCommitted(l, i) => ItemCommitted(l, i)'
  <1>1. \A i : ItemCommitted(l, i) => ItemCommitted(l, i)'
    <2> SUFFICES ASSUME NEW i, ItemCommitted(l, i), NEW t \in l.definition[1], ItemOf[t] = i
                 PROVE  Committed(t)'
        BY DEF ItemCommitted
    <2>1. t \in Task /\ Committed(t)
          BY LedgerFields DEF ItemCommitted
    <2> QED BY <2>1 DEF Kept
  <1>2. PendingPrepared(l)'
        BY PendingFields DEF Kept, Sound, PendingPrepared, Finished, Completed, Queued
  <1>3. Behind(l.baseline)' /\ OnlyDefined(l)' /\ KnowsEffects(l)'
        BY DEF Kept, Sound, Behind, OnlyDefined, KnowsEffects, Completed, Queued
  <1>4. DoneCommitted(l)'
        BY <1>1 DEF Kept, Sound, DoneCommitted
  <1>5. ActiveCommitted(l)'
    <2> SUFFICES ASSUME l.active \notin discarded \cup {NoItem}
                 PROVE  \/ \E t \in l.definition[1] :
                              ItemOf[t] = l.active /\ ~Completed(l.baseline, t)
                        \/ ItemCommitted(l, l.active)'
        BY DEF Kept, ActiveCommitted, Completed, Queued
    <2> QED BY <1>1 DEF Sound, ActiveCommitted
  <1> QED BY <1>1, <1>2, <1>3, <1>4, <1>5 DEF Sound

\* compare-and-swap: the checkpoint is built on what HEAD is, so that it
\* completes all that HEAD completes.
LEMMA InvAdvanceBranch ==
    ASSUME Inv, UNCHANGED overtaken, AdvanceBranch
    PROVE  Inv'
  <1> DEFINE p == mem.pending
  <1>1. /\ pc = "advance" /\ pc' = "install" /\ head' = p.commit
        /\ head \in {p.parent, p.commit}
        /\ UNCHANGED <<worktree, commits, index, indexLock, owner, config, revision, ledger,
                       mem, task, resumed, discarded, unknown, touched, versions, acts, faults>>
        BY DEF AdvanceBranch, PublishStep, Advance, CanAdvance, Orphaned, Goto, intent,
               history, bounds
  <1>2. /\ mem \in Ledger /\ mem # NoLedger /\ Sound(mem)
        /\ ledger \in Ledger /\ ledger # NoLedger /\ Sound(ledger)
        /\ overtaken \/ mem = ledger
        /\ p # NoCheckpoint
        BY <1>1, MemTyped, LedgerFields DEF Inv, Ledgers, InMemory, Publishing, Locked
  <1>3. /\ p.commit \in DOMAIN commits /\ commits[p.commit].inv = p.after
        /\ commits[p.commit].parent = p.parent
        /\ \A t \in Task : Completed(commits[p.parent].inv, t) => Completed(p.after, t)
        BY <1>2 DEF Sound, PendingPrepared
  <1> HIDE DEF p
  <1>4. Kept
    <2>1. ASSUME NEW t \in Task, Committed(t), ~overtaken PROVE Committed(t)'
      <3>1. Completed(commits[head].inv, t) /\ Completed(index.inv, t)
            BY <2>1 DEF Committed, Tree
      <3>2. Completed(commits[p.commit].inv, t)
            BY <1>1, <1>3, <3>1
      <3> QED BY <1>1, <3>1, <3>2 DEF Committed, Tree, Completed, Queued
    <2>2. overtaken => \A t : Committed(t)'
          BY DEF Committed
    <2>3. head' = head \/ (head' \in DOMAIN commits' /\ head' \in Nat /\ head < head')
      <3>1. commits[p.commit].parent < p.commit
            BY <1>3 DEF Inv, Objects
      <3>2. p.commit \in Nat
            BY <1>2, PendingFields DEF p
      <3> QED BY <1>1, <1>3, <3>1, <3>2
    <2> QED BY <1>1, <2>1, <2>2, <2>3, HeadOrder DEF Kept
  <1>5. Sound(mem)'
    <2>1. KnowsHead(mem)'
          BY <1>1, <1>2 DEF KnowsHead, p
    <2>2. PICK l : l = mem
          OBVIOUS
    <2>3. l \in Ledger /\ Sound(l) /\ KnowsHead(l)' /\ mem' = l
          BY <1>1, <1>2, <2>1, <2>2
    <2>4. Sound(l)'
          BY <1>4, <2>3, KeptSound
    <2> QED BY <2>3, <2>4
  <1>6. Ledgers'
    <2>1. KnowsHead(ledger)'
          BY <1>1, <1>2 DEF KnowsHead, p
    <2>2. PICK l : l = ledger
          OBVIOUS
    <2>3. l \in Ledger /\ Sound(l) /\ KnowsHead(l)' /\ ledger' = l
          BY <1>1, <1>2, <2>1, <2>2
    <2>4. Sound(l)'
          BY <1>4, <2>3, KeptSound
    <2>5. Sound(ledger)'
          BY <2>3, <2>4
    <2> QED BY <1>5, <2>5 DEF Ledgers
  <1>7. Objects'
        BY <1>1, <1>2 DEF Inv, Objects, Behind, Completed, Queued
  <1>8. RunTypeOK'
        BY <1>1, <1>3 DEF Inv, RunTypeOK, Locked
  <1>9. InMemory' /\ Executing' /\ EffectsKnown'
        BY <1>1 DEF Inv, InMemory, Executing, EffectsKnown, Working, Publishing, Locked
  <1>10. ItemInHand'
        BY <1>1 DEF Inv, ItemInHand, Publishing, Locked
  <1>11. IndexHeld'
        BY <1>1 DEF Inv, IndexHeld, StagedAsPrepared, Tree, p
  <1>12. UnknownKept'
        BY <1>1, SameUnknown DEF Inv
  <1> QED BY <1>6, <1>7, <1>8, <1>9, <1>10, <1>11, <1>12 DEF Inv

LEMMA InvInstall ==
    ASSUME Inv, UNCHANGED overtaken, Install
    PROVE  Inv'
  <1> DEFINE p == mem.pending
  <1>1. /\ pc = "install" /\ pc' = "settle" /\ head = p.commit
        /\ index' = [index EXCEPT !.inv = p.after] /\ indexLock' = NoCheckpoint
        /\ UNCHANGED <<worktree, commits, head, owner, config, revision, ledger,
                       mem, task, resumed, discarded, unknown, touched, versions, acts, faults>>
        BY DEF Install, PublishStep, InstallIndex, Goto, intent, history, bounds
  <1>2. /\ mem \in Ledger /\ mem # NoLedger /\ Sound(mem)
        /\ ledger \in Ledger /\ ledger # NoLedger /\ Sound(ledger)
        /\ p # NoCheckpoint
        BY <1>1, MemTyped, LedgerFields DEF Inv, Ledgers, InMemory, Publishing, Locked
  <1>3. /\ commits[head].inv = p.after /\ p.after \in Inventory
        BY <1>1, <1>2, PendingFields DEF Sound, PendingPrepared
  <1> HIDE DEF p
  <1>4. /\ index' \in [inv : Inventory, other : Nat] /\ index'.inv = p.after
        BY <1>1, <1>3 DEF Inv, RunTypeOK
  <1>5. Kept
    <2>1. ASSUME NEW t \in Task, Committed(t), ~overtaken PROVE Committed(t)'
      <3>1. Completed(commits[head].inv, t)
            BY <2>1 DEF Committed, Tree
      <3> QED BY <1>1, <1>3, <1>4, <3>1 DEF Committed, Tree, Completed, Queued
    <2>2. overtaken => \A t : Committed(t)'
          BY DEF Committed
    <2> QED BY <1>1, <2>1, <2>2 DEF Kept
  <1>6. Sound(mem)'
    <2>1. KnowsHead(mem)'
          BY <1>1, <1>2 DEF KnowsHead, Sound
    <2>2. PICK l : l = mem
          OBVIOUS
    <2>3. l \in Ledger /\ Sound(l) /\ KnowsHead(l)' /\ mem' = l
          BY <1>1, <1>2, <2>1, <2>2
    <2>4. Sound(l)'
          BY <1>5, <2>3, KeptSound
    <2> QED BY <2>3, <2>4
  <1>7. Ledgers'
    <2>1. KnowsHead(ledger)'
          BY <1>1, <1>2 DEF KnowsHead, Sound
    <2>2. PICK l : l = ledger
          OBVIOUS
    <2>3. l \in Ledger /\ Sound(l) /\ KnowsHead(l)' /\ ledger' = l
          BY <1>1, <1>2, <2>1, <2>2
    <2>4. Sound(l)'
          BY <1>5, <2>3, KeptSound
    <2>5. Sound(ledger)'
          BY <2>3, <2>4
    <2> QED BY <1>6, <2>5 DEF Ledgers
  <1>8. Objects'
    <2>1. Behind(p.after)
          BY <1>3 DEF Inv, Objects, RunTypeOK
    <2> QED BY <1>1, <1>2, <1>4, <2>1 DEF Inv, Objects, Behind, Completed, Queued
  <1>9. RunTypeOK'
        BY <1>1, <1>4 DEF Inv, RunTypeOK, Locked
  <1>10. InMemory' /\ Executing' /\ EffectsKnown' /\ IndexHeld'
        BY <1>1 DEF Inv, InMemory, Executing, EffectsKnown, IndexHeld, Working, Publishing, Locked
  <1>11. ItemInHand'
        BY <1>1 DEF Inv, ItemInHand, Publishing, Locked
  <1>12. UnknownKept'
        BY <1>1, SameUnknown DEF Inv
  <1> QED BY <1>7, <1>8, <1>9, <1>10, <1>11, <1>12 DEF Inv

\* A person works with Git or changes settings, and leaves the run alone.
LEMMA Aside ==
    ASSUME Inv, UNCHANGED overtaken, Kept, UNCHANGED <<ledger, mem, pc, task, resumed>>,
           \A l : KnowsHead(l) => KnowsHead(l)',
           RunTypeOK', IndexHeld', Objects', UnknownKept'
    PROVE  Inv'
  <1>1. UNCHANGED <<worktree, discarded, touched>>
        BY DEF Kept
  <1>2. \A l \in Ledger : /\ Sound(l) => Sound(l)'
                          /\ Sound(l) => \A i : ItemCommitted(l, i) => ItemCommitted(l, i)'
    <2> SUFFICES ASSUME NEW l \in Ledger, Sound(l)
                 PROVE  Sound(l)' /\ \A i : ItemCommitted(l, i) => ItemCommitted(l, i)'
        OBVIOUS
    <2>1. KnowsHead(l)'
          BY DEF Sound
    <2> QED BY <2>1, KeptSound
  <1>3. Ledgers'
        BY <1>2 DEF Inv, RunTypeOK, Ledgers
  <1>4. InMemory' /\ Executing' /\ EffectsKnown'
        BY <1>1 DEF Inv, InMemory, Executing, EffectsKnown, EffectsAsRecorded, Effects,
                    Completed, Queued
  <1>5. ItemInHand'
    <2>1. pc = "item" /\ mem.active \notin discarded => ItemCommitted(mem, mem.active)'
      <3> SUFFICES ASSUME pc = "item", mem.active \notin discarded
                   PROVE  ItemCommitted(mem, mem.active)'
          OBVIOUS
      <3>1. mem \in Ledger /\ Sound(mem) /\ ItemCommitted(mem, mem.active)
            BY MemTyped, LedgerFields DEF Inv, Ledgers, ItemInHand
      <3>2. PICK l, i : l = mem /\ i = mem.active
            OBVIOUS
      <3>3. ItemCommitted(l, i)'
            BY <1>2, <3>1, <3>2
      <3> QED BY <3>2, <3>3
    <2> QED BY <1>1, <2>1 DEF Inv, ItemInHand, Finished, Completed, Queued
  <1> QED BY <1>3, <1>4, <1>5 DEF Inv

\* Staging takes over the queue of the worktree, which is ahead.
LEMMA InvStage ==
    ASSUME Inv, UNCHANGED overtaken, NEW tree \in [inv : Inventory, other : Nat], Stage(tree),
           tree.inv \in {worktree, index.inv}, acts' \in Nat,
           UNCHANGED <<config, revision, ledger, mem, pc, task, resumed, discarded, unknown,
                       touched, versions, faults>>
    PROVE  Inv'
  <1>1. /\ indexLock = NoCheckpoint /\ index' = tree
        /\ UNCHANGED <<worktree, commits, head, indexLock, owner>>
        BY DEF Stage
  <1>2. \A t \in Task : Completed(index.inv, t) => Completed(tree.inv, t)
        BY DEF Inv, Objects, Behind
  <1>3. Behind(tree.inv)
        BY DEF Inv, Objects, Behind
  <1>4. Kept
    <2>1. ASSUME NEW t \in Task, Committed(t), ~overtaken PROVE Committed(t)'
      <3>1. Completed(commits[head].inv, t) /\ Completed(tree.inv, t)
            BY <1>2, <2>1 DEF Committed, Tree
      <3> QED BY <1>1, <3>1 DEF Committed, Tree, Completed, Queued
    <2>2. overtaken => \A t : Committed(t)'
          BY DEF Committed
    <2> QED BY <1>1, <2>1, <2>2 DEF Kept
  <1>5. \A l : KnowsHead(l) => KnowsHead(l)'
        BY <1>1 DEF KnowsHead
  <1>6. RunTypeOK'
        BY <1>1 DEF Inv, RunTypeOK
  <1>7. Objects'
        BY <1>1, <1>3 DEF Inv, Objects, Behind, Completed, Queued
  <1>8. UnknownKept'
        BY <1>1, SameUnknown DEF Inv
  <1>9. IndexHeld'
    <2>1. pc \notin {"locked", "owned", "verify", "advance", "install"}
          BY <1>1, MemTyped DEF Inv, IndexHeld, InMemory, Publishing, Locked
    <2> QED BY <2>1 DEF IndexHeld
  <1> QED BY <1>4, <1>5, <1>6, <1>7, <1>8, <1>9, Aside

\* A person's commit has what is staged, which is behind the worktree and
\* completes what is committed.
LEMMA InvCommit ==
    ASSUME Inv, UNCHANGED overtaken, Commit, acts' \in Nat,
           UNCHANGED <<config, revision, ledger, mem, pc, task, resumed, discarded, unknown,
                       touched, versions, faults>>
    PROVE  Inv'
  <1> DEFINE c == [parent |-> head, inv |-> index.inv, other |-> index.other, tasks |-> {}]
             k == Len(commits) + 1
  <1>1. /\ indexLock = NoCheckpoint /\ commits' = Append(commits, c) /\ head' = k
        /\ UNCHANGED <<worktree, index, indexLock, owner>>
        BY DEF Commit, NewCommit
  <1>2. /\ head \in DOMAIN commits /\ head \in Nat
        /\ index.inv \in Inventory /\ index.other \in Nat
        BY LenProperties DEF Inv, RunTypeOK
  <1>3. c \in Object /\ c.inv = index.inv /\ c.tasks = {} /\ c.parent = head
        BY <1>2 DEF Object
  <1> HIDE DEF c
  <1>4. /\ commits' \in Seq(Object)
        /\ DOMAIN commits' = DOMAIN commits \cup {k}
        /\ k \in Nat \ DOMAIN commits /\ head < k
        /\ commits'[k] = c
        /\ \A d \in DOMAIN commits : commits'[d] = commits[d]
        BY <1>1, <1>2, <1>3, NewObject
  <1> HIDE DEF k
  <1>5. commits'[head'].inv = index.inv /\ commits'[head'].tasks = {}
        BY <1>1, <1>3, <1>4
  <1>6. Kept
    <2>1. ASSUME NEW t \in Task, Committed(t), ~overtaken PROVE Committed(t)'
      <3>1. Completed(index.inv, t)
            BY <2>1 DEF Committed
      <3> QED BY <1>1, <1>5, <3>1 DEF Committed, Tree, Completed, Queued
    <2>2. overtaken => \A t : Committed(t)'
          BY DEF Committed
    <2>3. head' = head \/ (head' \in DOMAIN commits' /\ head' \in Nat /\ head < head')
          BY <1>1, <1>2, <1>4
    <2> QED BY <1>1, <1>4, <2>1, <2>2, <2>3, HeadOrder DEF Kept
  <1>7. \A l : KnowsHead(l) => KnowsHead(l)'
        BY <1>5 DEF KnowsHead
  <1>8. RunTypeOK'
        BY <1>1, <1>4 DEF Inv, RunTypeOK, Object
  <1>9. Objects'
    <2>1. /\ Behind(index.inv)
          /\ \A d \in DOMAIN commits : /\ commits[d].parent < d /\ Behind(commits[d].inv)
                                       /\ \A t \in commits[d].tasks : Completed(commits[d].inv, t)
          BY DEF Inv, Objects
    <2>2. \A d \in DOMAIN commits' :
             /\ commits'[d].parent < d /\ Behind(commits'[d].inv)
             /\ \A t \in commits'[d].tasks : Completed(commits'[d].inv, t)
          BY <1>3, <1>4, <2>1
    <2> QED BY <1>1, <1>5, <2>1, <2>2 DEF Objects, Behind, Completed, Queued
  <1>10. UnknownKept'
    <2>1. CommittedSources' = CommittedSources \cup {index.inv.src}
          BY <1>3, <1>4 DEF CommittedSources
    <2>2. Excused(index.inv.src)'
          BY <1>1, <1>3, <1>4 DEF Excused, ByPerson
    <2>3. \A src : Excused(src) => Excused(src)'
          BY <1>4 DEF Excused, ByPerson
    <2>4. ASSUME NEW src \in unknown PROVE Excused(src)' \/ Unrecorded(src)'
      <3>1. CASE src = index.inv.src
            BY <3>1, <1>1, <2>2
      <3>2. CASE src # index.inv.src /\ Unrecorded(src)
            BY <3>2, <1>1, <2>1 DEF Unrecorded
      <3>3. CASE Excused(src)
            BY <3>3, <2>3
      <3> QED BY <3>1, <3>2, <3>3 DEF Inv, UnknownKept
    <2> QED BY <1>1, <2>1, <2>4 DEF Inv, UnknownKept
  <1>11. IndexHeld'
    <2>1. pc \notin {"locked", "owned", "verify", "advance", "install"}
          BY <1>1, MemTyped DEF Inv, IndexHeld, InMemory, Publishing, Locked
    <2> QED BY <2>1 DEF IndexHeld
  <1> QED BY <1>6, <1>7, <1>8, <1>9, <1>10, <1>11, Aside

\* Everything of Git but its locks stays.
LEMMA InvSettings ==
    ASSUME Inv, UNCHANGED overtaken, acts' \in Nat,
           UNCHANGED <<worktree, commits, head, index, owner, ledger, mem, pc, task, resumed,
                       discarded, unknown, touched, versions, faults>>,
           config' \in [commit : Policy, identity : Nat], revision' \in Nat,
           \/ indexLock' = indexLock
           \/ pc = "idle" /\ indexLock' = NoCheckpoint
    PROVE  Inv'
  <1>1. Kept
        BY DEF Kept, Committed, Tree, Completed, Queued
  <1>2. \A l : KnowsHead(l) => KnowsHead(l)'
        BY DEF KnowsHead
  <1>3. RunTypeOK'
        BY DEF Inv, RunTypeOK
  <1>4. Objects'
        BY DEF Inv, Objects, Behind, Completed, Queued
  <1>5. UnknownKept'
        BY SameUnknown DEF Inv
  <1>6. IndexHeld'
        BY DEF Inv, IndexHeld, StagedAsPrepared, Tree
  <1> QED BY <1>1, <1>2, <1>3, <1>4, <1>5, <1>6, Aside

LEMMA InvPublishes ==
    ASSUME Inv, UNCHANGED overtaken, Publishes
    PROVE  Inv'
  <1> SUFFICES ASSUME GitCommand \/ Revise \/ Reapprove PROVE Inv'
      BY InvAdvanceBranch, InvInstall DEF Publishes
  <1>1. /\ acts' \in Nat
        /\ UNCHANGED <<ledger, mem, pc, task, resumed, discarded, unknown, touched, versions,
                       faults>>
    <2>1. /\ acts' = acts + 1
          /\ UNCHANGED <<ledger, mem, pc, task, resumed, discarded, unknown, touched, versions,
                         faults>>
          BY DEF GitCommand, Revise, Reapprove, Act, process, history
    <2> QED BY <2>1, SMTT(30) DEF Inv, RunTypeOK
  <1>2. CASE GitCommand
    <2>1. UNCHANGED <<config, revision>>
          BY <1>2 DEF GitCommand, intent
    <2>2. CASE Stage([index EXCEPT !.inv = worktree])
      <3>1. /\ [index EXCEPT !.inv = worktree] \in [inv : Inventory, other : Nat]
            /\ [index EXCEPT !.inv = worktree].inv = worktree
            BY DEF Inv, RunTypeOK
      <3> QED BY <1>1, <2>1, <2>2, <3>1, InvStage
    <2>3. CASE Stage([index EXCEPT !.other = acts + 2])
      <3>1. acts + 2 \in Nat
            BY SMTT(30) DEF Inv, RunTypeOK
      <3>2. /\ [index EXCEPT !.other = acts + 2] \in [inv : Inventory, other : Nat]
            /\ [index EXCEPT !.other = acts + 2].inv = index.inv
            BY <3>1 DEF Inv, RunTypeOK
      <3> QED BY <1>1, <2>1, <2>3, <3>2, InvStage
    <2>4. CASE Commit
          BY <1>1, <2>1, <2>4, InvCommit
    <2>5. CASE ~Running /\ RemoveIndexLock
          BY <1>1, <2>1, <2>5, InvSettings DEF Running, RemoveIndexLock, Inv, RunTypeOK
    <2> QED BY <1>2, <2>2, <2>3, <2>4, <2>5 DEF GitCommand
  <1>3. CASE Revise
    <2>1. /\ UNCHANGED <<worktree, commits, head, index, indexLock, owner, config>>
          /\ revision' \in Nat
          BY <1>3, SMTT(30) DEF Revise, git, Inv, RunTypeOK
    <2> QED BY <1>1, <2>1, InvSettings DEF Inv, RunTypeOK
  <1>4. CASE Reapprove
    <2>1. /\ UNCHANGED <<worktree, commits, head, index, indexLock, owner, revision>>
          /\ config' \in [commit : Policy, identity : Nat]
          BY <1>4, SMTT(30) DEF Reapprove, git, Inv, RunTypeOK
    <2> QED BY <1>1, <2>1, InvSettings DEF Inv, RunTypeOK
  <1> QED BY <1>2, <1>3, <1>4

---------------------------------------------------------------------------
(* The branch *)

\* Only the compare-and-swap and a person's commit move the branch, only the
\* installation and a person's staging the index.
LEMMA BranchAndIndex ==
    ASSUME [Next]_vars
    PROVE  /\ head' # head => AdvanceBranch \/ (Commit /\ GitCommand)
           /\ index' # index => Install \/ GitCommand
  <1>1. CASE UNCHANGED vars
        BY <1>1 DEF vars, git
  <1>2. CASE Leaves
        BY <1>2 DEF Leaves, RefuseOrphan, RefuseEffects, RefuseDefinition, AlreadyAwaiting,
                    RefusePrepare, RefuseReprepare, RefusePublication, RefuseSettle, Fail, Crash,
                    Stop, FailRun, git
  <1>3. CASE Moves
        BY <1>3 DEF Moves, CheckEffects, Begun, NothingToCheckpoint, Quiet, Lock, Own, WriteOwner,
                    Verify, PublishStep, LockIndex, SetOwner, git
  <1>4. CASE Saves
        BY <1>4 DEF Saves, StartFresh, StartRetained, Rebaseline, SaveReviewed, SelectTask,
                    RecordOutcome, Settle, RecordItem, Interrupt, Await, NothingReady,
                    SaveAndGoto, Quiet, git
  <1>5. CASE Writes
        BY <1>5 DEF Writes, FinishItem, FinishComponent, TaskStarts, TaskEnds, Edit, Restore,
                    Schedule, Resolve, Edits
  <1>6. CASE Prepares
        BY <1>6 DEF Prepares, RecoverOrphan, Prepare, ReprepareToPublish, Reprepare, Discard, git
  <1>7. CASE Publishes
    <2>1. CASE AdvanceBranch
          BY <2>1 DEF AdvanceBranch, PublishStep, Advance
    <2>2. CASE Install
          BY <2>2 DEF Install, PublishStep, InstallIndex
    <2>3. CASE GitCommand
          BY <2>3 DEF GitCommand, Stage, RemoveIndexLock
    <2>4. CASE Revise \/ Reapprove
          BY <2>4 DEF Revise, Reapprove, git
    <2> QED BY <1>7, <2>1, <2>2, <2>3, <2>4 DEF Publishes
  <1>8. CASE Planner
        BY <1>8 DEF Planner, PlannerLoad, PlannerPrepare, PlannerSave, PlannerQuits, Reprepare, git
  <1> QED BY <1>1, <1>2, <1>3, <1>4, <1>5, <1>6, <1>7, <1>8, Steps DEF Runs

\* What BranchOnlyGrows says of a step.
Grows ==
    head' # head =>
        LET c == commits'[head']
        IN  /\ c.parent = head
            /\ c.tasks # {} => c.inv # Tree(head).inv /\ c.other = Tree(head).other

LEMMA StepGrows ==
    ASSUME Inv, [Next]_vars
    PROVE  Grows
  <1> SUFFICES ASSUME head' # head
               PROVE  /\ commits'[head'].parent = head
                      /\ commits'[head'].tasks # {} =>
                            /\ commits'[head'].inv # commits[head].inv
                            /\ commits'[head'].other = commits[head].other
      BY DEF Grows, Tree
  <1>1. CASE AdvanceBranch
    <2> DEFINE p == mem.pending
    <2>1. /\ pc = "advance" /\ head' = p.commit /\ head = p.parent /\ commits' = commits
          BY <1>1 DEF AdvanceBranch, PublishStep, Advance, CanAdvance, Orphaned
    <2>2. Sound(mem) /\ p # NoCheckpoint
          BY <2>1, MemTyped, LedgerFields DEF Inv, Ledgers, InMemory, Publishing, Locked
    <2>3. /\ commits[p.commit].parent = p.parent /\ commits[p.commit].inv = p.after
          /\ commits[p.commit].other = commits[p.parent].other
          /\ p.after # commits[p.parent].inv
          BY <2>2 DEF Sound, PendingPrepared
    <2> QED BY <2>1, <2>3
  <1>2. CASE Commit
    <2> DEFINE c == [parent |-> head, inv |-> index.inv, other |-> index.other, tasks |-> {}]
    <2>1. commits' = Append(commits, c) /\ head' = Len(commits) + 1
          BY <1>2 DEF Commit, NewCommit
    <2>2. c \in Object /\ c.parent = head /\ c.tasks = {}
      <3>1. head \in Nat /\ index.inv \in Inventory /\ index.other \in Nat
            BY LenProperties DEF Inv, RunTypeOK
      <3> QED BY <3>1 DEF Object
    <2> HIDE DEF c
    <2>3. commits'[Len(commits) + 1] = c
          BY <2>1, <2>2, NewObject
    <2> QED BY <2>1, <2>2, <2>3
  <1> QED BY <1>1, <1>2, BranchAndIndex

---------------------------------------------------------------------------
(* A decision that is being planned *)

\* Commits, completions and a person's edits stay, and the branch grows.
Extended ==
    /\ NoneLost /\ (touched => touched')
    /\ \A d \in DOMAIN commits : d \in DOMAIN commits' /\ commits'[d] = commits[d]
    /\ head' # head => commits'[head'].parent = head

LEMMA RunsExtend ==
    ASSUME Inv, UNCHANGED planner, Runs
    PROVE  Extended
  <1>1. UNCHANGED overtaken
        BY DEF planner
  <1>2. head' # head => commits'[head'].parent = head
    <2>1. Next \/ UNCHANGED vars
      <3>1. Leaves => RunStep \/ RunFault
            BY DEF Leaves, RunStep, RunFault
      <3>2. Moves => RunStep
            BY DEF Moves, RunStep
      <3>3. Saves => RunStep \/ RunFault
            BY DEF Saves, RunStep, RunFault
      <3>4. Writes => RunStep \/ PersonActs
            BY DEF Writes, RunStep, PersonActs
      <3>5. Prepares => RunStep
            BY DEF Prepares, RunStep
      <3>6. Publishes => RunStep \/ PersonActs
            BY DEF Publishes, RunStep, PersonActs
      <3> QED BY <3>1, <3>2, <3>3, <3>4, <3>5, <3>6 DEF Runs, Next, Step, Fault, Person
    <2> QED BY <2>1, StepGrows DEF Grows
  <1>3. CASE Leaves
    <2>1. UNCHANGED <<worktree, commits, touched>>
          BY <1>3 DEF Leaves, RefuseOrphan, RefuseEffects, RefuseDefinition, AlreadyAwaiting,
                      RefusePrepare, RefuseReprepare, RefusePublication, RefuseSettle, Fail,
                      Crash, Stop, FailRun, git, history
    <2> QED BY <1>2, <2>1 DEF Extended, NoneLost
  <1>4. CASE Moves
    <2>1. UNCHANGED <<worktree, commits, touched>>
          BY <1>1, <1>4, OnTheMove
    <2> QED BY <1>2, <2>1 DEF Extended, NoneLost
  <1>5. CASE Saves
    <2>1. UNCHANGED <<worktree, commits, touched>>
          BY <1>5 DEF Saves, StartFresh, StartRetained, Rebaseline, SaveReviewed, SelectTask,
                      RecordOutcome, Settle, RecordItem, Interrupt, Await, NothingReady,
                      SaveAndGoto, Quiet, git, history
    <2> QED BY <1>2, <2>1 DEF Extended, NoneLost
  <1>6. CASE Writes
    <2>1. commits' = commits
          BY <1>6 DEF Writes, FinishItem, FinishComponent, TaskStarts, TaskEnds, Edit, Restore,
                      Schedule, Resolve, Edits
    <2>2. touched' = touched \/ touched' = (touched \/ Running)
          BY <1>6 DEF Writes, FinishItem, FinishComponent, TaskStarts, TaskEnds, Edit, Restore,
                      Schedule, Resolve, Edits, history
    <2>3. touched => touched'
          BY <2>2, Zenon
    <2> QED BY <1>1, <1>2, <1>6, <2>1, <2>3, InvWrites DEF Extended
  <1>7. CASE Prepares
    <2>1. UNCHANGED <<worktree, touched>>
          BY <1>7 DEF Prepares, RecoverOrphan, Prepare, ReprepareToPublish, Reprepare, Discard,
                      git, history
    <2>2. commits' = commits \/ (CreatePrepared(Finished(mem)) /\ pc # "idle")
          BY <1>7 DEF Prepares, RecoverOrphan, Prepare, ReprepareToPublish, Reprepare, Discard, git
    <2>3. \A d \in DOMAIN commits : d \in DOMAIN commits' /\ commits'[d] = commits[d]
      <3>1. CASE commits' = commits
            BY <3>1
      <3>2. CASE CreatePrepared(Finished(mem)) /\ pc # "idle"
        <4>1. PICK c \in Object : commits' = Append(commits, c)
              BY <2>1, <3>2, MemTyped, CheckpointObject
        <4> QED BY <4>1, NewObject
      <3> QED BY <2>2, <3>1, <3>2
    <2> QED BY <1>2, <2>1, <2>3 DEF Extended, NoneLost
  <1>8. CASE Publishes
    <2>1. UNCHANGED <<worktree, touched>>
          BY <1>8 DEF Publishes, AdvanceBranch, Install, PublishStep, Advance, InstallIndex,
                      GitCommand, Stage, Commit, RemoveIndexLock, Revise, Reapprove, git, history
    <2>2. commits' = commits \/ Commit
          BY <1>8 DEF Publishes, AdvanceBranch, Install, PublishStep, Advance, InstallIndex,
                      GitCommand, Stage, RemoveIndexLock, Revise, Reapprove, git
    <2>3. \A d \in DOMAIN commits : d \in DOMAIN commits' /\ commits'[d] = commits[d]
      <3>1. CASE commits' = commits
            BY <3>1
      <3>2. CASE Commit
        <4> DEFINE c == [parent |-> head, inv |-> index.inv, other |-> index.other, tasks |-> {}]
        <4>1. commits' = Append(commits, c)
              BY <3>2 DEF Commit, NewCommit
        <4>2. c \in Object
          <5>1. head \in Nat /\ index.inv \in Inventory /\ index.other \in Nat
                BY LenProperties DEF Inv, RunTypeOK
          <5> QED BY <5>1 DEF Object
        <4> HIDE DEF c
        <4> QED BY <4>1, <4>2, NewObject
      <3> QED BY <2>2, <3>1, <3>2
    <2> QED BY <1>2, <2>1, <2>3 DEF Extended, NoneLost
  <1> QED BY <1>3, <1>4, <1>5, <1>6, <1>7, <1>8 DEF Runs

\* HEAD never comes back to a commit it has left behind.
LEMMA ExtendedHead ==
    ASSUME Inv, Inv', Extended
    PROVE  /\ head \in Nat /\ head' \in Nat
           /\ head' = head \/ (head < head' /\ commits'[head'].parent = head)
  <1>1. head \in Nat /\ head' \in Nat
    <2>1. commits \in Seq(Object) /\ head \in DOMAIN commits
          BY DEF Inv, RunTypeOK, Object
    <2>2. commits' \in Seq(Object) /\ head' \in DOMAIN commits'
          BY DEF Inv, RunTypeOK, Object
    <2> QED BY <2>1, <2>2, LenProperties
  <1>2. commits'[head'].parent < head'
        BY DEF Inv, Objects, RunTypeOK
  <1> QED BY <1>1, <1>2 DEF Extended

LEMMA ExtendedGrounded ==
    ASSUME Inv, Inv', Extended, NEW l \in Ledger, Grounded(l)
    PROVE  Grounded(l)'
  <1>1. PendingPrepared(l)'
    <2> SUFFICES ASSUME l.pending # NoCheckpoint PROVE PendingPrepared(l)'
        BY DEF PendingPrepared
    <2> DEFINE p == l.pending
    <2>1. /\ p.commit \in DOMAIN commits /\ p.parent \in DOMAIN commits
          /\ p.parent <= head
          /\ commits[p.commit].parent = p.parent
          /\ commits[p.commit].inv = p.after
          /\ commits[p.commit].other = commits[p.parent].other
          /\ p.after # commits[p.parent].inv
          /\ \A t \in Finished(l) : Completed(p.after, t)
          /\ \A t \in Task : Completed(commits[p.parent].inv, t) => Completed(p.after, t)
          BY DEF Grounded, PendingPrepared
    <2>2. p.parent <= head'
          BY <2>1, ExtendedHead, PendingFields
    <2>3. /\ p.commit \in DOMAIN commits' /\ p.parent \in DOMAIN commits'
          /\ commits'[p.commit] = commits[p.commit] /\ commits'[p.parent] = commits[p.parent]
          BY <2>1 DEF Extended
    <2> QED BY <2>1, <2>2, <2>3 DEF PendingPrepared, Finished, Completed, Queued
  <1>2. Behind(l.baseline)'
        BY DEF Extended, NoneLost, Grounded, Behind, Completed, Queued
  <1>3. KnowsEffects(l)'
        BY DEF Extended, Grounded, KnowsEffects
  <1> QED BY <1>1, <1>2, <1>3 DEF Grounded

\* What the planner will save differs from what it loaded in the checkpoint
\* only, and HEAD has left that checkpoint behind.
Drafted(l, n) ==
    /\ Grounded(n)
    /\ n.definition = l.definition /\ n.active = l.active /\ n.done = l.done
    /\ n.expected = l.expected
    /\ n.pending # NoCheckpoint => n.baseline = l.baseline
    /\ l.pending.parent < head /\ l.pending.commit # head

Planned ==
    /\ loaded # NoLedger => loaded.pending # NoCheckpoint /\ Grounded(loaded)
    /\ draft # NoLedger => loaded # NoLedger /\ Drafted(loaded, draft)

FullInv == Inv /\ PlannerTypeOK /\ Planned

LEMMA DraftedKept ==
    ASSUME Inv, Inv', Extended, NEW l \in Ledger, Grounded(l), l.pending # NoCheckpoint,
           NEW n \in Ledger, Drafted(l, n)
    PROVE  Drafted(l, n)'
  <1>1. Grounded(n)'
        BY ExtendedGrounded DEF Drafted
  <1>2. /\ l.pending.parent < head /\ l.pending.commit # head
        /\ l.pending.commit \in DOMAIN commits
        /\ commits[l.pending.commit].parent = l.pending.parent /\ l.pending.parent \in Nat
        BY PendingFields DEF Drafted, Grounded, PendingPrepared
  <1>3. l.pending.parent < head'
        BY <1>2, ExtendedHead
  <1>4. l.pending.commit # head'
    <2>1. commits'[l.pending.commit] = commits[l.pending.commit]
          BY <1>2 DEF Extended
    <2> QED BY <1>2, <2>1, ExtendedHead
  <1> QED BY <1>1, <1>3, <1>4 DEF Drafted

LEMMA PlannedKept ==
    ASSUME FullInv, Inv', Extended, UNCHANGED <<loaded, draft>>
    PROVE  Planned'
  <1>1. ASSUME loaded # NoLedger PROVE Grounded(loaded)'
    <2>1. PICK l : l = loaded
          OBVIOUS
    <2>2. l \in Ledger /\ Grounded(l) /\ loaded' = l
          BY <1>1, <2>1 DEF FullInv, Planned, PlannerTypeOK
    <2>3. Grounded(l)'
          BY <2>2, ExtendedGrounded DEF FullInv
    <2> QED BY <2>2, <2>3
  <1>2. ASSUME draft # NoLedger PROVE Drafted(loaded, draft)'
    <2>1. PICK l, n : l = loaded /\ n = draft
          OBVIOUS
    <2>2. /\ l \in Ledger /\ Grounded(l) /\ l.pending # NoCheckpoint
          /\ n \in Ledger /\ Drafted(l, n) /\ loaded' = l /\ draft' = n
          BY <1>2, <2>1 DEF FullInv, Planned, PlannerTypeOK
    <2>3. Drafted(l, n)'
          BY <2>2, DraftedKept DEF FullInv
    <2> QED BY <2>2, <2>3
  <1> QED BY <1>1, <1>2 DEF FullInv, Planned

\* Nothing of the run and of the repository changes.
LEMMA RunAside ==
    ASSUME Inv, UNCHANGED <<git, intent, ledger, process, history, versions, faults, overtaken>>,
           acts' \in Nat
    PROVE  Inv' /\ Extended
  <1>1. UNCHANGED <<worktree, commits, head, index, indexLock, owner, config, revision, ledger,
                    mem, pc, task, resumed, discarded, unknown, touched, versions, faults>>
        BY DEF git, intent, process, history
  <1>2. Inv'
        BY <1>1, InvSettings DEF Inv, RunTypeOK
  <1>3. Extended
        BY <1>1 DEF Extended, NoneLost
  <1> QED BY <1>2, <1>3

LEMMA PlannerLoads ==
    ASSUME FullInv, PlannerLoad
    PROVE  FullInv'
  <1>1. /\ acts' = acts + 1 /\ acts \in Nat /\ loaded = NoLedger
        /\ ledger # NoLedger /\ ledger.pending # NoCheckpoint
        /\ loaded' = ledger /\ draft' = draft /\ overtaken' = overtaken
        BY DEF PlannerLoad, Act, Planning, FullInv, Inv, RunTypeOK
  <1>2. Inv'
        BY <1>1, RunAside DEF PlannerLoad, FullInv
  <1>3. ledger \in Ledger /\ Grounded(ledger) /\ draft = NoLedger
        BY <1>1 DEF FullInv, Inv, RunTypeOK, Ledgers, Sound, Grounded, Planned
  <1>4. Grounded(loaded)'
    <2>1. PICK l : l = ledger
          OBVIOUS
    <2>2. Grounded(l)' /\ loaded' = l
          BY <1>1, <1>2, <1>3, <2>1, RunAside, ExtendedGrounded DEF PlannerLoad, FullInv
    <2> QED BY <2>2
  <1>5. Planned' /\ PlannerTypeOK'
        BY <1>1, <1>3, <1>4 DEF FullInv, Planned, PlannerTypeOK
  <1> QED BY <1>2, <1>5 DEF FullInv

LEMMA PlannerLeaves ==
    ASSUME FullInv, PlannerQuits
    PROVE  FullInv'
  <1>1. loaded' = NoLedger /\ draft' = NoLedger /\ overtaken' = overtaken /\ acts' \in Nat
        BY DEF PlannerQuits, bounds, FullInv, Inv, RunTypeOK
  <1>2. Inv'
        BY <1>1, RunAside DEF PlannerQuits, bounds, FullInv
  <1>3. Planned' /\ PlannerTypeOK'
        BY <1>1 DEF FullInv, Planned, PlannerTypeOK
  <1> QED BY <1>2, <1>3 DEF FullInv

\* The commit a planner creates changes nothing for the run.
LEMMA InvReprepared ==
    ASSUME Inv, NEW l \in Ledger, Grounded(l), l.pending # NoCheckpoint, Reprepare(l),
           UNCHANGED <<intent, ledger, process, versions, bounds, overtaken>>,
           NEW n, n = Rebased(l)
    PROVE  /\ Inv' /\ Extended
           /\ n \in Ledger /\ Grounded(n)'
           /\ n.definition = l.definition /\ n.active = l.active /\ n.done = l.done
           /\ n.expected = l.expected /\ n.baseline = l.baseline
  <1>1. /\ worktree = l.pending.after /\ worktree # Tree(head).inv
        /\ CreatePrepared(Finished(l))
        /\ UNCHANGED <<worktree, head, index, indexLock, owner, discarded, unknown, touched,
                       config, revision, ledger, mem, pc, task, resumed, versions, acts, faults>>
        BY DEF Reprepare, CanReprepare, history, intent, process, bounds
  <1>2. \A t \in Finished(l) : Completed(worktree, t)
        BY <1>1 DEF Grounded, PendingPrepared
  <1>3. ~touched /\ l.policy = "item" => l.phase = "paused" \/ l.effects = Effects
        BY <1>1 DEF Grounded, KnowsEffects, Effects
  <1>4. /\ n \in Ledger /\ n.definition = l.definition /\ n.active = l.active
        /\ n.done = l.done /\ n.baseline = l.baseline /\ n.expected = l.expected
        /\ Grounded(n)' /\ Objects'
        /\ commits' \in Seq(Object) /\ DOMAIN commits \subseteq DOMAIN commits'
        /\ \A d \in DOMAIN commits : commits'[d] = commits[d]
        /\ head \in DOMAIN commits /\ head \in DOMAIN commits'
        /\ CommittedSources' = CommittedSources \cup {worktree.src}
        /\ \A src : Excused(src) => Excused(src)'
        BY <1>1, <1>2, <1>3, PreparedGrounded
  <1>5. Extended
        BY <1>1, <1>4 DEF Extended, NoneLost
  <1>6. Ledgers'
    <2>1. PICK c \in Object : commits' = Append(commits, c)
          BY <1>1, CheckpointObject
    <2>2. \A k : Sound(k) => Sound(k)'
          BY <1>1, <2>1, SoundWithObject
    <2> QED BY <1>1, <2>2 DEF Inv, Ledgers
  <1>7. UnknownKept'
    <2>1. worktree.src \in CommittedSources
          BY <1>1 DEF Grounded, PendingPrepared, CommittedSources
    <2>2. CommittedSources' = CommittedSources
          BY <1>4, <2>1
    <2>3. ASSUME NEW src \in unknown PROVE Excused(src)' \/ Unrecorded(src)'
      <3>1. CASE Excused(src)
            BY <1>4, <3>1
      <3>2. CASE Unrecorded(src)
            BY <1>1, <2>2, <3>2 DEF Unrecorded
      <3> QED BY <3>1, <3>2 DEF Inv, UnknownKept
    <2> QED BY <1>1, <2>2, <2>3 DEF Inv, UnknownKept
  <1>8. RunTypeOK'
        BY <1>1, <1>4 DEF Inv, RunTypeOK, Object
  <1>9. InMemory' /\ Executing' /\ EffectsKnown'
        BY <1>1 DEF Inv, InMemory, Executing, EffectsKnown, EffectsAsRecorded, Effects,
                    Completed, Queued
  <1>10. IndexHeld'
    <2>1. pc \in {"advance", "install"} => mem.pending.parent \in DOMAIN commits
          BY MemTyped DEF Inv, InMemory, Publishing, Locked
    <2> QED BY <1>1, <1>4, <2>1 DEF Inv, IndexHeld, StagedAsPrepared, Tree
  <1>11. ItemInHand'
    <2>1. \A t : Committed(t) => Committed(t)'
          BY <1>1, <1>4 DEF Committed, Tree, Completed, Queued
    <2>2. ItemCommitted(mem, mem.active) => ItemCommitted(mem, mem.active)'
          BY <1>1, <2>1 DEF ItemCommitted
    <2> QED BY <1>1, <2>2 DEF Inv, ItemInHand, Finished, Completed, Queued
  <1> QED BY <1>4, <1>5, <1>6, <1>7, <1>8, <1>9, <1>10, <1>11 DEF Inv

LEMMA PlannerPrepares ==
    ASSUME FullInv, PlannerPrepare
    PROVE  FullInv'
  <1>1. /\ loaded \in Ledger /\ loaded # NoLedger /\ Grounded(loaded)
        /\ loaded.pending # NoCheckpoint /\ Orphaned(loaded.pending)
        /\ loaded' = loaded /\ overtaken' = overtaken
        BY DEF PlannerPrepare, Planning, Moved, FullInv, Planned, PlannerTypeOK
  <1>2. loaded.pending.parent < head /\ loaded.pending.commit # head
    <2>1. loaded.pending.parent <= head
          BY <1>1 DEF Grounded, PendingPrepared
    <2>2. loaded.pending.parent \in Nat /\ head \in Nat
          BY <1>1, PendingFields, LenProperties DEF FullInv, Inv, RunTypeOK
    <2> QED BY <1>1, <2>1, <2>2 DEF Orphaned
  <1>3. PICK l : l = loaded
        OBVIOUS
  <1>4. CASE Reprepare(loaded) /\ draft' = Rebased(loaded)
    <2>1. PICK n : n = Rebased(l)
          OBVIOUS
    <2>2. /\ Inv' /\ Extended
          /\ n \in Ledger /\ Grounded(n)'
          /\ n.definition = l.definition /\ n.active = l.active /\ n.done = l.done
          /\ n.expected = l.expected /\ n.baseline = l.baseline
          BY <1>1, <1>3, <1>4, <2>1, InvReprepared DEF PlannerPrepare, FullInv
    <2>3. head' = head
          BY <1>4 DEF Reprepare
    <2>4. Grounded(l)'
          BY <1>1, <1>3, <2>2, ExtendedGrounded DEF FullInv
    <2>5. Drafted(l, n)'
          BY <1>2, <1>3, <2>2, <2>3 DEF Drafted
    <2>6. loaded' = l /\ draft' = n
          BY <1>1, <1>3, <1>4, <2>1
    <2>7. Planned' /\ PlannerTypeOK'
          BY <1>1, <1>3, <2>2, <2>4, <2>5, <2>6 DEF Planned, PlannerTypeOK, FullInv
    <2> QED BY <2>2, <2>7 DEF FullInv
  <1>5. CASE draft' = Superseded(loaded) /\ UNCHANGED <<git, history>>
    <2>1. PICK n : n = Superseded(l)
          OBVIOUS
    <2>2. /\ n \in Ledger /\ n.pending = NoCheckpoint
          /\ n.baseline = worktree /\ n.definition = l.definition
          /\ n.active = l.active /\ n.done = l.done /\ n.expected = l.expected
          BY <1>1, <1>3, <2>1, SetSuperseded DEF FullInv, Inv, RunTypeOK
    <2>3. Inv' /\ Extended
      <3>1. acts' \in Nat /\ faults' = faults
            BY DEF PlannerPrepare, bounds, FullInv, Inv, RunTypeOK
      <3> QED BY <1>1, <1>5, <3>1, RunAside DEF PlannerPrepare, FullInv
    <2>4. Grounded(l)'
          BY <1>1, <1>3, <2>3, ExtendedGrounded DEF FullInv
    <2>5. worktree' = worktree /\ head' = head
          BY <1>5 DEF git
    <2>6. Grounded(n)'
          BY <2>2, <2>5 DEF Grounded, PendingPrepared, KnowsEffects, Behind, Completed, Queued
    <2>7. Drafted(l, n)'
          BY <1>2, <1>3, <2>2, <2>5, <2>6 DEF Drafted
    <2>8. loaded' = l /\ draft' = n
          BY <1>1, <1>3, <1>5, <2>1
    <2>9. Planned' /\ PlannerTypeOK'
          BY <1>1, <1>3, <2>2, <2>4, <2>7, <2>8 DEF Planned, PlannerTypeOK, FullInv
    <2> QED BY <2>3, <2>9 DEF FullInv
  <1> QED BY <1>4, <1>5 DEF PlannerPrepare

\* A ledger that was saved over, or whose run was, is at least grounded.
LEMMA OvertakenSound ==
    ASSUME NEW l, Grounded(l)', overtaken'
    PROVE  Sound(l)'
  <1>1. \A t : Committed(t)'
        BY DEF Committed
  <1>2. DoneCommitted(l)' /\ ActiveCommitted(l)'
        BY <1>1 DEF DoneCommitted, ActiveCommitted, ItemCommitted
  <1> QED BY <1>2 DEF Grounded, Sound, OnlyDefined, KnowsHead

\* Saved over the ledger it was made from, while no run is under way, the
\* draft is as good as that ledger.
LEMMA DraftSound ==
    ASSUME Inv, NEW l \in Ledger, l.pending # NoCheckpoint, Sound(l), NEW n, Drafted(l, n),
           ~overtaken, Grounded(n)',
           UNCHANGED <<worktree, commits, head, index, touched, overtaken>>,
           discarded' = IF n.pending = NoCheckpoint THEN discarded \cup {n.active} ELSE discarded
    PROVE  Sound(n)'
  <1>1. OnlyDefined(n)'
        BY DEF Sound, Drafted, OnlyDefined, Completed, Queued
  <1>2. KnowsHead(n)'
        BY DEF Sound, Drafted, KnowsHead
  <1>3. \A t : Committed(t) => Committed(t)'
        BY DEF Committed, Tree, Completed, Queued
  <1>4. DoneCommitted(n)'
        BY <1>3 DEF Sound, Drafted, DoneCommitted, ItemCommitted
  <1>5. ActiveCommitted(n)'
    <2>1. CASE n.pending = NoCheckpoint
          BY <2>1 DEF ActiveCommitted
    <2>2. CASE n.pending # NoCheckpoint
          BY <1>3, <2>2 DEF Sound, Drafted, ActiveCommitted, ItemCommitted, Completed, Queued
    <2> QED BY <2>1, <2>2
  <1> QED BY <1>1, <1>2, <1>4, <1>5 DEF Sound, Grounded

LEMMA PlannerSaves ==
    ASSUME FullInv, PlannerSave
    PROVE  FullInv'
  <1>1. /\ draft \in Ledger /\ draft # NoLedger /\ loaded \in Ledger /\ loaded # NoLedger
        /\ loaded.pending # NoCheckpoint /\ Drafted(loaded, draft) /\ Grounded(draft)
        BY DEF PlannerSave, FullInv, Planned, PlannerTypeOK, Drafted
  <1>2. /\ ledger' = draft /\ loaded' = NoLedger /\ draft' = NoLedger
        /\ discarded' = IF draft.pending = NoCheckpoint THEN discarded \cup {draft.active}
                                                        ELSE discarded
        /\ overtaken' = (overtaken \/ Running \/ ledger # loaded)
        /\ UNCHANGED <<worktree, commits, head, index, indexLock, owner, config, revision,
                       mem, pc, task, resumed, unknown, touched, versions, acts, faults>>
        BY DEF PlannerSave, git, intent, process, bounds
  <1>3. Inv
        BY DEF FullInv
  <1>4. RunTypeOK'
    <2>1. discarded' \subseteq Item \cup {NoItem}
          BY <1>1, <1>2, <1>3, LedgerFields DEF Inv, RunTypeOK
    <2> QED BY <1>1, <1>2, <1>3, <2>1 DEF Inv, RunTypeOK
  <1>5. Planned' /\ PlannerTypeOK'
    <2>1. overtaken' \in BOOLEAN
          BY <1>2 DEF FullInv, PlannerTypeOK
    <2> QED BY <1>2, <2>1 DEF Planned, PlannerTypeOK
  <1>6. Executing' /\ IndexHeld' /\ EffectsKnown'
        BY <1>2, <1>3 DEF Inv, Executing, IndexHeld, EffectsKnown, EffectsAsRecorded, Effects,
                          StagedAsPrepared, Tree, Completed, Queued
  <1>7. Objects'
        BY <1>1, <1>2, <1>3 DEF Inv, Objects, Behind, Completed, Queued
  <1>8. \A l : Grounded(l) => Grounded(l)'
        BY <1>2 DEF Grounded, PendingPrepared, Behind, KnowsEffects, Finished, Completed, Queued
  <1>9. CASE overtaken'
    <2>1. InMemory'
          BY <1>1, <1>2, <1>3, <1>9 DEF Inv, InMemory
    <2>2. Ledgers'
      <3>1. mem # NoLedger => Grounded(mem)
            BY <1>3 DEF Inv, Ledgers, Sound, Grounded
      <3>2. Grounded(ledger)' /\ (mem # NoLedger => Grounded(mem)')
            BY <1>1, <1>2, <1>8, <3>1
      <3>3. PICK a, b : a = ledger' /\ b = mem'
            OBVIOUS
      <3>4. Grounded(a)' /\ (b # NoLedger => Grounded(b)')
            BY <1>2, <3>2, <3>3
      <3>5. Sound(a)' /\ (b # NoLedger => Sound(b)')
            BY <1>9, <3>4, OvertakenSound
      <3> QED BY <3>3, <3>5 DEF Ledgers
    <2>3. ItemInHand'
      <3>1. \A t : Committed(t)'
            BY <1>9 DEF Committed
      <3>2. ItemCommitted(mem, mem.active)'
            BY <3>1 DEF ItemCommitted
      <3> QED BY <1>2, <1>3, <3>2 DEF Inv, ItemInHand, Finished, Completed, Queued
    <2>4. UnknownKept'
      <3>1. \A src : Excused(src)'
            BY <1>9 DEF Excused
      <3> QED BY <1>2, <1>3, <3>1 DEF Inv, UnknownKept, CommittedSources
    <2> QED BY <1>4, <1>5, <1>6, <1>7, <2>1, <2>2, <2>3, <2>4 DEF FullInv, Inv
  <1>10. CASE ~overtaken'
    <2>1. ~overtaken /\ pc = "idle" /\ ledger = loaded /\ mem = NoLedger /\ overtaken' = overtaken
      <3>1. ~overtaken /\ ~Running /\ ledger = loaded
            BY <1>2, <1>10, Zenon
      <3>2. overtaken' = overtaken
            BY <1>2, <1>10, <3>1 DEF FullInv, PlannerTypeOK
      <3> QED BY <1>3, <3>1, <3>2 DEF Running, Inv, InMemory
    <2>2. InMemory' /\ ItemInHand'
          BY <1>2, <2>1 DEF InMemory, ItemInHand, Working, Publishing, Locked
    <2>3. Ledgers'
      <3>1. PICK l, n : l = loaded /\ n = draft
            OBVIOUS
      <3>2. Sound(l)
            BY <1>1, <1>3, <2>1, <3>1 DEF Inv, Ledgers
      <3>3. Sound(n)'
            BY <1>1, <1>2, <1>3, <1>8, <2>1, <3>1, <3>2, DraftSound
      <3> QED BY <1>2, <2>1, <3>1, <3>3 DEF Ledgers
    <2>4. UnknownKept'
      <3>1. \A src \in unknown : Unrecorded(src) => worktree.src # src
            BY <1>1, <2>1 DEF Unrecorded
      <3> QED BY <1>2, <1>3, <2>1, <3>1, UnknownElsewhere DEF Inv
    <2> QED BY <1>4, <1>5, <1>6, <1>7, <2>2, <2>3, <2>4 DEF FullInv, Inv
  <1> QED BY <1>9, <1>10

---------------------------------------------------------------------------
(* The invariant *)

LEMMA InvInit == Init => FullInv
  <1> SUFFICES ASSUME Init PROVE FullInv
      OBVIOUS
  <1> DEFINE w == [todo |-> [t \in Scheduled |-> "pending"], src |-> 0, review |-> NoReview]
             c == [parent |-> 0, inv |-> w, other |-> 0, tasks |-> {}]
  <1>1. /\ worktree = w /\ commits = <<c>> /\ head = 1
        /\ index \in [inv : {w}, other : {0, 1}]
        /\ indexLock = NoCheckpoint /\ owner = <<>>
        /\ config \in [commit : Policy, identity : {0}] /\ revision = 0
        /\ ledger = NoLedger /\ mem = NoLedger
        /\ pc = "idle" /\ task = 0 /\ resumed = FALSE /\ versions = 0
        /\ loaded = NoLedger /\ draft = NoLedger /\ overtaken = FALSE
        /\ discarded = {} /\ unknown = {} /\ touched = FALSE /\ acts = 0 /\ faults = 0
        BY DEF Init, NewCommit
  <1>2. /\ w \in Inventory /\ w.src = 0 /\ w.todo \in [Scheduled -> {"pending"}]
    <2>1. [t \in Scheduled |-> "pending"] \in Queue
          BY QueueTyped, ContinuousAssumption DEF Status
    <2> QED BY <2>1 DEF Inventory, Review
  <1>3. \A t : ~Completed(w, t)
        BY <1>2 DEF Completed, Queued
  <1> HIDE DEF w
  <1>4. c \in Object /\ c.inv = w /\ c.tasks = {} /\ c.parent = 0
        BY <1>2 DEF Object
  <1> HIDE DEF c
  <1>5. commits \in Seq(Object) /\ DOMAIN commits = {1} /\ commits[1] = c
        BY <1>1, <1>4
  <1>6. index \in [inv : Inventory, other : Nat] /\ index.inv = w
        BY <1>1, <1>2
  <1>7. RunTypeOK
    <2>1. DOMAIN owner = {}
          BY <1>1
    <2>2. config \in [commit : Policy, identity : Nat]
          BY <1>1
    <2>3. /\ discarded \subseteq Item \cup {NoItem} /\ unknown \subseteq Nat /\ touched \in BOOLEAN
          /\ resumed \in BOOLEAN
          BY <1>1
    <2>4. commits \in Seq([parent : Nat, inv : Inventory, other : Nat, tasks : SUBSET Task])
          BY <1>5 DEF Object
    <2>5. /\ worktree \in Inventory /\ head \in DOMAIN commits
          /\ DOMAIN owner \subseteq DOMAIN commits
          BY <1>1, <1>2, <1>5, <2>1
    <2> QED BY <1>1, <1>6, <2>2, <2>3, <2>4, <2>5 DEF RunTypeOK
  <1>8. InMemory /\ Executing /\ IndexHeld /\ ItemInHand /\ EffectsKnown /\ Ledgers
        BY <1>1 DEF InMemory, Executing, IndexHeld, ItemInHand, EffectsKnown, Ledgers, Working,
                    Publishing, Locked
  <1>9. Objects
        BY <1>1, <1>3, <1>4, <1>5, <1>6 DEF Objects, Behind
  <1>10. UnknownKept
        BY <1>1, <1>2 DEF UnknownKept
  <1>11. PlannerTypeOK /\ Planned
        BY <1>1 DEF PlannerTypeOK, Planned
  <1> QED BY <1>7, <1>8, <1>9, <1>10, <1>11 DEF Inv, FullInv

LEMMA InvNext == FullInv /\ [Next]_vars => FullInv'
  <1> SUFFICES ASSUME FullInv, [Next]_vars PROVE FullInv'
      OBVIOUS
  <1>1. CASE UNCHANGED vars
    <2>1. /\ UNCHANGED <<git, intent, ledger, process, history, versions, faults, overtaken>>
          /\ acts' \in Nat /\ UNCHANGED <<loaded, draft>>
          BY <1>1 DEF vars, planner, bounds, FullInv, Inv, RunTypeOK
    <2>2. Inv' /\ Extended
          BY <2>1, RunAside DEF FullInv
    <2> QED BY <2>1, <2>2, PlannedKept DEF FullInv, PlannerTypeOK
  <1>2. CASE Runs /\ UNCHANGED planner
    <2>1. UNCHANGED <<loaded, draft, overtaken>> /\ Inv
          BY <1>2 DEF planner, FullInv
    <2>2. Inv'
          BY <1>2, <2>1, InvLeaves, InvMoves, InvSaves, InvWrites, InvPrepares, InvPublishes DEF Runs
    <2>3. Extended
          BY <1>2, <2>1, RunsExtend
    <2> QED BY <2>1, <2>2, <2>3, PlannedKept DEF FullInv, PlannerTypeOK
  <1>3. CASE Planner
        BY <1>3, PlannerLoads, PlannerPrepares, PlannerSaves, PlannerLeaves DEF Planner
  <1> QED BY <1>1, <1>2, <1>3, Steps

\* Through every crash, failure, edit and commit: what is in the ledger is
\* consistent with branch, index and files.
THEOREM Invariant == Spec => []FullInv
  BY InvInit, InvNext, PTL DEF Spec

\* The variables of a run, of its ledger and of the repository keep their types.
THEOREM TypeCorrect == Spec => []TypeOK
  <1>1. FullInv => TypeOK
        BY DEF FullInv, Inv, TypeOK
  <1> QED BY <1>1, Invariant, PTL

\* create_checkpoint, checkpoint_item: an item that the ledger calls completed
\* is committed, unless its checkpoint was discarded, as long as no decision
\* command saved over the ledger of a run.
THEOREM DoneIsCommitted == Spec => []CompletedItemsCommitted
  <1>1. FullInv => CompletedItemsCommitted
        BY DEF FullInv, Inv, Ledgers, Sound, DoneCommitted, ItemCommitted, Committed,
               CompletedItemsCommitted
  <1> QED BY <1>1, Invariant, PTL

\* prepare, reprepare: no checkpoint on the branch holds a part of an item.
THEOREM WholeItems == Spec => []CheckpointsHoldWholeItems
  <1>1. FullInv => CheckpointsHoldWholeItems
        BY DEF FullInv, Inv, Objects, CheckpointsHoldWholeItems, Checkpoints
  <1> QED BY <1>1, Invariant, PTL

\* finish_checkpoint and decision_preflight: the branch never advances to a
\* checkpoint that the ledger on disk does not know, and a decision command
\* that plans without the lock makes the ledger forget it only by saving over
\* what a run saved, or while one is under way.
THEOREM PublishedKnown == Spec => []PublishedIsKnown
  <1>1. FullInv => PublishedIsKnown
        BY DEF FullInv, Inv, Objects, Ledgers, Sound, KnowsHead, PublishedIsKnown, Checkpoints, Pending
  <1> QED BY <1>1, Invariant, PTL

\* ensure_effects_unchanged: what a task left behind whose outcome was not
\* saved gets into a commit only through a commit a person made, as long as
\* no decision command saved over the ledger of a run.
THEOREM UnknownStaysOut == Spec => []NoUnknownEffects
  <1>1. FullInv => NoUnknownEffects
    <2> SUFFICES ASSUME FullInv, ~overtaken, NEW c \in Checkpoints, commits[c].inv.src \in unknown
                 PROVE  ByPerson(commits[c].inv.src)
        BY DEF NoUnknownEffects
    <2>1. commits[c].inv.src \in CommittedSources
          BY DEF Checkpoints, CommittedSources
    <2> QED BY <2>1 DEF FullInv, Inv, UnknownKept, Unrecorded, Excused
  <1> QED BY <1>1, Invariant, PTL

\* resume: the files of a retained checkpoint of the default policy are not
\* taken for foreign changes.
THEOREM Retriable == Spec => []ItemCheckpointRetriable
  <1>1. FullInv => ItemCheckpointRetriable
        BY DEF FullInv, Inv, Ledgers, Sound, KnowsEffects, ItemCheckpointRetriable, CheckpointRetriable,
               Pending, EffectsAsRecorded, Effects
  <1> QED BY <1>1, Invariant, PTL

---------------------------------------------------------------------------
(* What a step may never do *)

\* update-ref with the expected old value: the branch only grows, whoever
\* commits meanwhile.
THEOREM OnlyGrows == Spec => BranchOnlyGrows
  <1>1. FullInv /\ [Next]_vars => [Grows]_vars
        BY StepGrows DEF FullInv
  <1>2. FullInv /\ [Next]_vars =>
           [head' # head =>
               LET c == commits'[head']
               IN  /\ c.parent = head
                   /\ c.tasks # {} =>
                         c.inv # Tree(head).inv /\ c.other = Tree(head).other]_vars
        BY <1>1 DEF Grows
  <1> QED BY <1>2, Invariant, PTL DEF Spec, BranchOnlyGrows

\* What StagingKept says of a step.
KeepsStaging ==
    index' # index /\ acts' = acts =>
        /\ index'.other = index.other
        /\ index.inv \in {commits[c].inv : c \in {head, commits[head].parent}}

LEMMA StepKeepsStaging ==
    ASSUME Inv, [Next]_vars
    PROVE  KeepsStaging
  <1> SUFFICES ASSUME index' # index, acts' = acts
               PROVE  /\ index'.other = index.other
                      /\ \/ index.inv = commits[head].inv
                         \/ index.inv = commits[commits[head].parent].inv
      BY DEF KeepsStaging
  <1>1. ~GitCommand
        BY DEF GitCommand, Act, Inv, RunTypeOK
  <1>2. Install
        BY <1>1, BranchAndIndex
  <1> DEFINE p == mem.pending
  <1>3. /\ pc = "install" /\ head = p.commit /\ index' = [index EXCEPT !.inv = p.after]
        BY <1>2 DEF Install, PublishStep, InstallIndex
  <1>4. index'.other = index.other
        BY <1>3 DEF Inv, RunTypeOK
  <1>5. Sound(mem) /\ p # NoCheckpoint /\ StagedAsPrepared(p)
        BY <1>3, MemTyped, LedgerFields DEF Inv, Ledgers, InMemory, IndexHeld, Publishing, Locked
  <1>6. commits[head].parent = p.parent /\ commits[head].inv = p.after
        BY <1>3, <1>5 DEF Sound, PendingPrepared
  <1> QED BY <1>4, <1>5, <1>6 DEF StagedAsPrepared, Tree

\* finish: the index is installed only over what was compared under its lock,
\* and what is staged outside of the inventory stays.
THEOREM StagingStays == Spec => StagingKept
  <1>1. FullInv /\ [Next]_vars =>
           [index' # index /\ acts' = acts =>
               /\ index'.other = index.other
               /\ index.inv \in {commits[c].inv : c \in {head, commits[head].parent}}]_vars
        BY StepKeepsStaging DEF KeepsStaging, FullInv
  <1> QED BY <1>1, Invariant, PTL DEF Spec, StagingKept
=============================================================================
