------------------------- MODULE DecisionTransaction -------------------------
(***************************************************************************)
(* The application of an approved decision plan to one component           *)
(* (task_commands/decisions/engine): several controlled files are replaced *)
(* under the operation lock, with a journal (pending.json) that fences the *)
(* ordinary writers and lets a repetition of the same plan carry on after  *)
(* a crash or an error at any point, and a receipt that makes a further    *)
(* repetition a no-op.                                                     *)
(*                                                                         *)
(* A process is one kvist command at a time; the operation lock is the one *)
(* of module TaskLock, with its acquisition, takeover, release and breaking*)
(* as single steps.  The bytes of a file are a version.                    *)
(***************************************************************************)
EXTENDS Naturals, Sequences, FiniteSets

CONSTANTS
    Proc,       \* the commands that may run at the same time
    NumFiles,   \* controlled files, numbered in name order; the last is TODOS.yaml
    Version,    \* contents of a file
    Live,       \* contents of TODOS.yaml with a task in progress or fenced
    Reopening,  \* contents of TODOS.yaml with the task pending whose attempt
                \* was settled by nothing but its status
    Token,      \* lock files, each with its own nonce
    NoToken,    \* no lock file
    NoJournal,  \* no pending.json
    MaxPlans, MaxEdits, MaxFaults, MaxTasks   \* bounds of a run

ASSUME DecisionAssumption ==
    /\ NumFiles \in Nat \ {0}
    /\ Live \subseteq Version /\ Reopening \subseteq Version
    /\ NoToken \notin Token
    /\ {MaxPlans, MaxEdits, MaxFaults, MaxTasks} \subseteq Nat

VARIABLES
    files,      \* the captured inputs
    plans,      \* <id>.json of every plan, the id being the position here
    pending,    \* pending.json
    receipts,   \* the plans with an <id>.applied.json
    evidence,   \* what the attempt journals and the continuous ledger leave open
    lock,       \* the file at the lock path
    pc, plan, known, at, token,  \* of a process: step, plan, journal it holds
                                 \* in memory, current output, lock it created
    written,    \* history: files with the bytes the pending decision wrote
    raced,      \* history: an editor saved between a last read and its rename
    edits, faults, tasks         \* how much of the bounds is used

disk == <<files, plans, pending, receipts, evidence>>
history == <<written, raced>>
bounds == <<edits, faults, tasks>>
vars == <<disk, lock, pc, plan, known, at, token, history, bounds>>

---------------------------------------------------------------------------
\* 0 stands for everything a plan captures and never writes: source, tests,
\* evidence, configuration, the parent's contract, the decision's discussion.
Captured == 0..NumFiles
Controlled == 1..NumFiles
Queue == NumFiles

Outputs(i) == DOMAIN plans[i].after
Before(i, f) == plans[i].before[f]
After(i, f) == plans[i].after[f]

\* Steps between the journal's adoption and its receipt.
Working == {"output", "reread", "persist", "readback", "record", "finish", "receipt"}
Locked == Working \cup {"begin", "create", "adopt", "clear", "check", "write", "release"}
PC == Locked \cup {"idle", "lock"}

Journal ==
    [plan : Nat, completed : SUBSET Controlled, lock : Token]
ASSUME NoJournalAssumption == NoJournal \notin Journal

\* "status": an attempt was observed, nothing disposed of it, and only the
\* status of its task settles it (is_fully_recovered).  "open": an attempt is
\* unresolved under any status, or a continuous run is under way.
\* "overtaken": the ledger a run had settled was put back by a planner.
Evidence == {"settled", "status", "open", "overtaken"}

Plan ==
    [before : [Captured -> Version],
     after : UNION {[S -> Version] : S \in SUBSET Controlled}]

TypeOK ==
    /\ files \in [Captured -> Version]
    /\ plans \in Seq(Plan)
    /\ pending \in Journal \cup {NoJournal}
    /\ receipts \subseteq DOMAIN plans
    /\ evidence \in Evidence
    /\ lock \in Token \cup {NoToken}
    /\ pc \in [Proc -> PC]
    /\ plan \in [Proc -> Nat]
    /\ known \in [Proc -> Journal \cup {NoJournal}]
    /\ at \in [Proc -> Captured]
    /\ token \in [Proc -> Token \cup {NoToken}]
    /\ written \in SUBSET Controlled
    /\ raced \in BOOLEAN
    /\ edits \in Nat /\ faults \in Nat /\ tasks \in Nat

Init ==
    /\ files \in [Captured -> Version]
    /\ plans = <<>>
    /\ pending = NoJournal
    /\ receipts = {}
    /\ evidence \in {"settled", "status"}
    /\ lock = NoToken
    /\ pc = [p \in Proc |-> "idle"]
    /\ plan = [p \in Proc |-> 0]
    /\ known = [p \in Proc |-> NoJournal]
    /\ at = [p \in Proc |-> 0]
    /\ token = [p \in Proc |-> NoToken]
    /\ written = {} /\ raced = FALSE
    /\ edits = 0 /\ faults = 0 /\ tasks = 0

At(p, here) == pc[p] = here
Goto(p, there) == pc' = [pc EXCEPT ![p] = there]

---------------------------------------------------------------------------
(* The operation lock *)

\* The owner of a lock file is dead: no process that runs created it.
Dead(k) == \A p \in Proc : token[p] # k

\* A nonce is never used twice, so a new lock differs from every lock that a
\* journal, on disk or in memory, still remembers.
Remembered ==
    {lock} \cup {token[p] : p \in Proc} \cup
    {j.lock : j \in ({pending} \cup {known[p] : p \in Proc}) \ {NoJournal}}

Take(p) ==
    /\ Token \ Remembered # {}
    /\ lock' = CHOOSE k \in Token : k \notin Remembered
    /\ token' = [token EXCEPT ![p] = lock']

\* The process ends and forgets what it knew.
Leave(p) ==
    /\ Goto(p, "idle")
    /\ plan' = [plan EXCEPT ![p] = 0]
    /\ known' = [known EXCEPT ![p] = NoJournal]
    /\ at' = [at EXCEPT ![p] = 0]
    /\ token' = [token EXCEPT ![p] = NoToken]

\* lock.release(), whether the command succeeded or failed.
Release(p) ==
    /\ At(p, "release")
    /\ lock' = NoToken
    /\ Leave(p)
    /\ UNCHANGED <<disk, history, bounds>>

\* task unlock: it removes the lock of a dead owner and only then reports the
\* pending decision.
Unlock ==
    /\ lock # NoToken /\ Dead(lock)
    /\ lock' = NoToken
    /\ UNCHANGED <<disk, pc, plan, known, at, token, history, bounds>>

---------------------------------------------------------------------------
(* Preparing a plan *)

\* guards, on a queue: no task in progress or fenced, every attempt recovered
\* as far as its task's status in this queue tells, no continuous run.
Guards(q) ==
    /\ q \notin Live
    /\ evidence \notin {"open", "overtaken"}
    /\ evidence = "status" => q \notin Reopening

\* capture and prepare take no lock but refuse a pending decision, a lock
\* file and what guards refuses.  A document is an output only if it changes;
\* the queue always is, because the selected task leaves its pause: it becomes
\* pending or is withdrawn, no task is started or fenced.
Prepare ==
    /\ Len(plans) < MaxPlans
    /\ pending = NoJournal /\ lock = NoToken /\ Guards(files[Queue])
    /\ \E S \in SUBSET Controlled :
         /\ Queue \in S
         /\ \E after \in [S -> Version] :
              /\ \A f \in S : after[f] # files[f]
              /\ \A f \in S : after[f] \notin Live
              /\ plans' = Append(plans, [before |-> files, after |-> after])
    /\ UNCHANGED <<files, pending, receipts, evidence, lock, pc, plan, known, at, token,
                   history, bounds>>

---------------------------------------------------------------------------
(* Applying a plan *)

\* Mutant: the guards on live and fenced tasks are dropped.
VerifiedUnguarded(i, recovery) ==
    \A f \in Captured :
        \/ files[f] = Before(i, f)
        \/ recovery /\ f \in Outputs(i) /\ files[f] = After(i, f)

\* capture::verify: the guards are evaluated on the queue that is there, which
\* may be the one this decision wrote, and on the captured one.
Verified(i, recovery) ==
    /\ \A f \in Captured :
           \/ files[f] = Before(i, f)
           \/ recovery /\ f \in Outputs(i) /\ files[f] = After(i, f)
    /\ Guards(files[Queue]) /\ Guards(Before(i, Queue))

\* require_outputs
OutputsWritten(i) == \A f \in Outputs(i) : files[f] = After(i, f)

\* apply up to the lock: the journal is read before the lock is taken.
StartApply(p, i) ==
    /\ At(p, "idle")
    /\ pending # NoJournal => pending.plan = i
    /\ plan' = [plan EXCEPT ![p] = i]
    /\ known' = [known EXCEPT ![p] = pending]
    /\ Goto(p, "lock")
    /\ UNCHANGED <<disk, lock, at, token, history, bounds>>

\* Mutant: the owner of the lock the journal names is not looked up.
MayTakeOverLive(p) == known[p] # NoJournal /\ lock = known[p].lock

\* TaskLock::recover_for_context takes over the dead lock the journal names.
MayTakeOver(p) == known[p] # NoJournal /\ lock = known[p].lock /\ Dead(lock)

LockForApply(p) ==
    /\ At(p, "lock")
    /\ \/ /\ lock = NoToken \/ MayTakeOver(p)
          /\ Take(p)
          /\ Goto(p, "begin")
          /\ UNCHANGED <<plan, known, at>>
       \/ /\ lock # NoToken /\ ~MayTakeOver(p)
          /\ Leave(p)
          /\ UNCHANGED lock
    /\ UNCHANGED <<disk, history, bounds>>

\* Mutant: a receipt is taken to mean that the journal is gone too.
BeginReceiptEnds(p) ==
    LET recovery == known[p] # NoJournal
    IN  /\ At(p, "begin")
        /\ Goto(p, IF plan[p] \in receipts \/ ~Verified(plan[p], recovery) THEN "release"
                   ELSE IF recovery THEN "adopt" ELSE "create")
        /\ UNCHANGED <<disk, lock, plan, known, at, token, history, bounds>>

\* The top of apply_locked: a receipt leaves at most the journal to remove.
Begin(p) ==
    LET i == plan[p]
        recovery == known[p] # NoJournal
    IN  /\ At(p, "begin")
        /\ Goto(p, IF i \in receipts
                   THEN IF recovery /\ Verified(i, TRUE) /\ OutputsWritten(i)
                        THEN "clear" ELSE "release"
                   ELSE CASE ~Verified(i, recovery) -> "release"
                          [] recovery -> "adopt"
                          [] OTHER -> "create")
        /\ UNCHANGED <<disk, lock, plan, known, at, token, history, bounds>>

SetJournal(p, j) ==
    /\ pending' = j
    /\ known' = [known EXCEPT ![p] = j]

\* save_journal(new): write_new refuses when there is a journal.
CreateJournal(p) ==
    /\ At(p, "create")
    /\ \/ /\ pending = NoJournal
          /\ SetJournal(p, [plan |-> plan[p], completed |-> {}, lock |-> token[p]])
          /\ Goto(p, "adopt")
       \/ /\ pending # NoJournal
          /\ Goto(p, "release")
          /\ UNCHANGED <<pending, known>>
    /\ UNCHANGED <<files, plans, receipts, evidence, lock, plan, at, token, history, bounds>>

\* The next output in name order.
Rest(i, f) == {g \in Outputs(i) : g > f}

\* Mutant: the loop counts past the last output.
AdvancePast(p, f) ==
    LET rest == Rest(plan[p], f)
    IN  /\ at' = [at EXCEPT ![p] = IF rest = {} THEN f + 1
                                   ELSE CHOOSE g \in rest : \A h \in rest : g <= h]
        /\ Goto(p, IF rest = {} THEN "finish" ELSE "output")

Advance(p, f) ==
    LET rest == Rest(plan[p], f)
    IN  /\ at' = [at EXCEPT ![p] = IF rest = {} THEN 0
                                   ELSE CHOOSE g \in rest : \A h \in rest : g <= h]
        /\ Goto(p, IF rest = {} THEN "finish" ELSE "output")

\* save_journal: the journal on disk must be the one this process holds.
SaveJournal(p, j, f) ==
    \/ /\ pending = known[p]
       /\ SetJournal(p, j)
       /\ Advance(p, f)
    \/ /\ pending # known[p]
       /\ Goto(p, "release")
       /\ UNCHANGED <<pending, known, at>>

\* The journal names the new lock before anything is replaced.
Adopt(p) ==
    /\ At(p, "adopt")
    /\ SaveJournal(p, [known[p] EXCEPT !.lock = token[p]], 0)
    /\ UNCHANGED <<files, plans, receipts, evidence, lock, plan, token, history, bounds>>

\* Mutant: a recorded write that is no longer there is made again.
CheckOutputAgain(p) ==
    LET i == plan[p]
        f == at[p]
    IN  /\ At(p, "output")
        /\ Goto(p, CASE ~Verified(i, TRUE) -> "release"
                     [] Verified(i, TRUE) /\ files[f] = After(i, f) -> "record"
                     [] OTHER -> "reread")
        /\ UNCHANGED <<disk, lock, plan, known, at, token, history, bounds>>

\* One output of the loop.
CheckOutput(p) ==
    LET i == plan[p]
        f == at[p]
    IN  /\ At(p, "output")
        /\ Goto(p, CASE ~Verified(i, TRUE) -> "release"
                     [] Verified(i, TRUE) /\ files[f] = After(i, f) -> "record"
                     [] OTHER -> IF f \in known[p].completed THEN "release" ELSE "reread")
        /\ UNCHANGED <<disk, lock, plan, known, at, token, history, bounds>>

\* replace_controlled: read again, rename, read back.
Reread(p) ==
    /\ At(p, "reread")
    /\ Goto(p, IF files[at[p]] = Before(plan[p], at[p]) THEN "persist" ELSE "release")
    /\ UNCHANGED <<disk, lock, plan, known, at, token, history, bounds>>

Persist(p) ==
    LET f == at[p]
    IN  /\ At(p, "persist")
        /\ files' = [files EXCEPT ![f] = After(plan[p], f)]
        /\ written' = written \cup {f}
        /\ Goto(p, "readback")
        /\ UNCHANGED <<plans, pending, receipts, evidence, lock, plan, known, at, token, raced,
                       bounds>>

ReadBack(p) ==
    /\ At(p, "readback")
    /\ Goto(p, IF files[at[p]] = After(plan[p], at[p]) THEN "record" ELSE "release")
    /\ UNCHANGED <<disk, lock, plan, known, at, token, history, bounds>>

Record(p) ==
    /\ At(p, "record")
    /\ SaveJournal(p, [known[p] EXCEPT !.completed = @ \cup {at[p]}], at[p])
    /\ UNCHANGED <<files, plans, receipts, evidence, lock, plan, token, history, bounds>>

\* Mutant: the progress in the journal is taken for the files.
FinishUnread(p) ==
    /\ At(p, "finish")
    /\ Goto(p, "receipt")
    /\ UNCHANGED <<disk, lock, plan, known, at, token, history, bounds>>

Finish(p) ==
    /\ At(p, "finish")
    /\ Goto(p, IF Verified(plan[p], TRUE) /\ OutputsWritten(plan[p])
               THEN "receipt" ELSE "release")
    /\ UNCHANGED <<disk, lock, plan, known, at, token, history, bounds>>

WriteReceipt(p) ==
    /\ At(p, "receipt")
    /\ receipts' = receipts \cup {plan[p]}
    /\ written' = {}
    /\ Goto(p, "clear")
    /\ UNCHANGED <<files, plans, pending, evidence, lock, plan, known, at, token, raced, bounds>>

\* clear_pending reads the journal again before it removes it.
ClearPending(p) ==
    /\ At(p, "clear")
    /\ pending' = IF pending # NoJournal /\ pending.plan = plan[p] THEN NoJournal ELSE pending
    /\ Goto(p, "release")
    /\ UNCHANGED <<files, plans, receipts, evidence, lock, plan, known, at, token,
                   history, bounds>>

---------------------------------------------------------------------------
(* Everybody else *)

\* An ordinary command (transition, run, accept, repair, discuss) under the
\* lock: ensure_no_pending, then writes.
StartTask(p) ==
    /\ At(p, "idle") /\ lock = NoToken
    /\ tasks < MaxTasks
    /\ tasks' = tasks + 1
    /\ Take(p)
    /\ Goto(p, "check")
    /\ UNCHANGED <<disk, plan, known, at, history, edits, faults>>

\* Mutant: the command relies on the lock alone.
EnsureLockOnly(p) ==
    /\ At(p, "check")
    /\ Goto(p, "write")
    /\ UNCHANGED <<disk, lock, plan, known, at, token, history, bounds>>

\* ensure_no_pending
EnsureNoPending(p) ==
    /\ At(p, "check")
    /\ Goto(p, IF pending = NoJournal THEN "write" ELSE "release")
    /\ UNCHANGED <<disk, lock, plan, known, at, token, history, bounds>>

\* Live contents are contents of the queue.
Change(f, v) ==
    /\ v \in Live => f = Queue
    /\ files' = [files EXCEPT ![f] = v]
    /\ written' = written \ {f}

TaskWrite(p) ==
    /\ At(p, "write")
    /\ \/ /\ edits < MaxEdits
          /\ edits' = edits + 1
          /\ \E f \in Captured, v \in Version : Change(f, v)
          /\ evidence' \in Evidence \ {"overtaken"}
          /\ UNCHANGED pc
       \/ /\ Goto(p, "release")
          /\ UNCHANGED <<files, written, evidence, edits>>
    /\ UNCHANGED <<plans, pending, receipts, lock, plan, known, at, token, raced,
                   faults, tasks>>

\* Planning another decision takes no lock: its check_ledger may put back a
\* ledger with the checkpoint that a run settled meanwhile (PlannerSave of
\* module ContinuousRun).
OvertakeLedger ==
    /\ tasks < MaxTasks
    /\ tasks' = tasks + 1
    /\ evidence' = "overtaken"
    /\ UNCHANGED <<files, plans, pending, receipts, lock, pc, plan, known, at, token,
                   history, edits, faults>>

\* The file has been read for the last time before the rename that replaces it,
\* or all files before the receipt.
LastRead(f) == \E p \in Proc : (At(p, "persist") /\ at[p] = f) \/ At(p, "receipt")

\* A person saves a file, with no regard for any lock.
Edit ==
    /\ edits < MaxEdits
    /\ edits' = edits + 1
    /\ \E f \in Captured, v \in Version :
         /\ v # files[f]
         /\ Change(f, v)
         /\ raced' = (raced \/ LastRead(f))
    /\ UNCHANGED <<plans, pending, receipts, evidence, lock, pc, plan, known, at, token,
                   faults, tasks>>

\* A file-system call fails; the command releases its lock.
Fail(p) ==
    /\ pc[p] \in Locked \ {"release"}
    /\ faults < MaxFaults
    /\ faults' = faults + 1
    /\ Goto(p, "release")
    /\ UNCHANGED <<disk, lock, plan, known, at, token, history, edits, tasks>>

\* The process dies; its lock file stays.
Crash(p) ==
    /\ pc[p] \in Locked
    /\ faults < MaxFaults
    /\ faults' = faults + 1
    /\ Leave(p)
    /\ UNCHANGED <<disk, lock, history, edits, tasks>>

---------------------------------------------------------------------------
\* What a command that was started does next, unless it fails.
Proceed(p) ==
    \/ LockForApply(p) \/ Begin(p) \/ CreateJournal(p) \/ Adopt(p)
    \/ CheckOutput(p) \/ Reread(p) \/ Persist(p) \/ ReadBack(p) \/ Record(p)
    \/ Finish(p) \/ WriteReceipt(p) \/ ClearPending(p)
    \/ EnsureNoPending(p) \/ TaskWrite(p) \/ Release(p)

Next ==
    \/ Prepare \/ Edit \/ Unlock \/ OvertakeLedger
    \/ \E p \in Proc :
         \/ \E i \in DOMAIN plans : StartApply(p, i)
         \/ StartTask(p) \/ Proceed(p) \/ Fail(p) \/ Crash(p)

\* The error an ordinary command reports on a pending decision tells the
\* operator to repeat its apply.
RepeatApply == \E p \in Proc, i \in DOMAIN plans : pending # NoJournal /\ StartApply(p, i)

Spec == Init /\ [][Next]_vars

Fairness ==
    /\ \A p \in Proc : WF_vars(Proceed(p))
    /\ WF_vars(Unlock)
    /\ WF_vars(RepeatApply)

FairSpec == Spec /\ Fairness

---------------------------------------------------------------------------
(* Correctness *)

\* maerg/CONTRACT.md, "a persisted decision transaction fences all ordinary
\* task/acceptance/repair writers": while some file has the bytes of a decision
\* that has no receipt yet, its journal is on disk and no ordinary command is
\* past its fence, after any crash, failed call, unlock or takeover.
HalfAppliedIsFenced ==
    written # {} =>
        /\ pending # NoJournal /\ pending.plan \notin receipts
        /\ \A p \in Proc : pc[p] # "write"

\* Two applies never work on one journal: whoever replaces files holds the
\* lock, and the journal it read before it took the lock is still the one on
\* disk, although others may have recovered, finished or started meanwhile.
SoleTransaction ==
    \A p \in Proc :
        pc[p] \in Working =>
            lock = token[p] /\ pending = known[p] /\ pending.plan = plan[p]

\* The decision makes a task pending whose attempt only its status settled:
\* with its queue in place the attempt is open again.
Reopens(i) == evidence = "status" /\ After(i, Queue) \in Reopening

\* The guards hold on the captured queue and on the decision's own.
Compatible(i) ==
    /\ Guards(Before(i, Queue))
    /\ Guards(After(i, Queue)) \/ Reopens(i)

\* No mutual wedge: a pending decision makes task recovery refuse, and what
\* guards refuses makes the apply refuse.  Nothing an ordinary command does
\* brings the two together, with the captured queue or with the decision's own;
\* only a decision that itself reopens an attempt does, and a planner that
\* overtook a run.
NoMutualFence ==
    pending # NoJournal /\ evidence # "overtaken" => Compatible(pending.plan)

\* "a recorded completed write was externally reverted; recovery refuses to
\* clobber it" (transaction.rs): no output is replaced again once the journal
\* on disk records it.
RecordedWritesStand ==
    [][\A f \in written' \ written : f \notin pending.completed]_vars

\* What a reader may rely on: the outputs not yet covered by a receipt count as
\* what the plan captured.
Visible ==
    [f \in Captured |-> IF f \in written THEN Before(pending.plan, f) ELSE files[f]]

Abstract == INSTANCE AtomicDecision WITH doc <- Visible, applied <- receipts

\* Applying a plan in many steps, with crashes, failures, takeovers and several
\* commands at once, is an atomic application to whoever respects the fence.
Atomic == Abstract!Spec

\* The files are not those from which the journal's plan may carry on: an
\* input has other bytes, or a recorded output does not have its bytes.
Changed ==
    LET i == pending.plan IN
    \/ \E f \in Captured :
           /\ files[f] # Before(i, f)
           /\ f \in Outputs(i) => files[f] # After(i, f)
    \/ \E f \in pending.completed : files[f] # After(i, f)

\* The decision's queue is in place and keeps every repetition out.
Wedged ==
    LET i == pending.plan IN files[Queue] = After(i, Queue) /\ Reopens(i)

\* A pending decision does not stay for ever: repeating its apply, and
\* unlocking what a crash left locked, completes it unless its inputs changed,
\* its own queue reopened an attempt, or a planner overtook a run.
RecoveryCompletes ==
    []<>(pending = NoJournal \/ Changed \/ Wedged \/ evidence = "overtaken")
=============================================================================
