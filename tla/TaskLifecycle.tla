--------------------------- MODULE TaskLifecycle ---------------------------
(***************************************************************************)
(* The life of the tasks of one Kvist component (maerg/src/task_commands): *)
(* the canonical queue TODOS.yaml, the append-only attempt journal of each *)
(* task, the component's operation lock, and the commands that change them *)
(* - transition, run, recover, finalize accept, finalize block, unlock.    *)
(*                                                                         *)
(* Every durable write (an atomic replacement of the queue, a line of a    *)
(* journal) is a step of its own, so a process can die or fail between any *)
(* two of them, and in the middle of a line, which no command repairs.     *)
(* The lock serialises commands (TaskLock shows when), hence at most one   *)
(* command is under way and pc, task, attempt... are the local state of    *)
(* the process that holds the lock.                                        *)
(***************************************************************************)
EXTENDS Naturals, FiniteSets

CONSTANTS
    Task,            \* the task identities of the queue
    DependsOn,       \* depends_on of each task
    Implementation,  \* the tasks of kind Implementation (verified after a run)
    MaxAttempts,     \* MAX_ATTEMPT_EVENTS: attempt identities per task
    MaxRepairs,      \* MAX_VERIFICATION_REPAIR_ROUNDS
    HumanReason,     \* reasons a human may give for blocking
    MaxFaults        \* bound on crashes and I/O errors

ASSUME LifecycleAssumption ==
    /\ Task # {}
    /\ DependsOn \in [Task -> SUBSET Task]
    /\ Implementation \subseteq Task
    /\ MaxAttempts \in Nat /\ MaxRepairs \in Nat /\ MaxFaults \in Nat
    /\ HumanReason \subseteq STRING
    /\ {"none", "run"} \cap HumanReason = {}

VARIABLES
    queue,      \* TODOS.yaml
    events,     \* the versioned records of the attempt journals
    prepared,   \* the fields of the "prepared" records
    latest,     \* the attempt the last versioned record of a journal names
    trailing,   \* tasks whose journal ends in an unversioned "prepared"
    tail,       \* how the file of each journal ends
    lock,       \* the operation lock file: "free", "held" or "stale"
    lockTag,    \* the attempt whose prepared record digests this lock, if the
                \* lock names its task: a continuous run's lock names none
    pc,         \* the next durable step of the lock holder, or "idle"
    local,      \* the lock holder's task, attempt, target...
    appended,   \* the lock holder's last step appended to its task's journal
    launched,   \* history: attempts whose agent was started
    rejected,   \* history: attempts a human block decision was stored for
    faults      \* crashes and I/O errors so far

stored == <<queue, events, prepared, latest, trailing>>
locks == <<lock, lockTag>>
process == <<pc, local, appended>>
history == <<launched, rejected, faults>>
vars == <<stored, tail, locks, process, history>>

---------------------------------------------------------------------------
(* Types *)

Status == {"pending", "in-progress", "blocked", "awaiting-decision", "completed"}
Attempt == 1..MaxAttempts
NoAttempt == 0
Reason == {"none", "run"} \cup HumanReason

TaskRecord ==
    [status : Status,
     fence : Attempt \cup {NoAttempt},          \* recovery_state
     acceptance : Attempt \cup {NoAttempt},     \* acceptance_id
     disposition : {"none", "accept", "block"},
     reason : Reason]                           \* blocked_reason

Queue == [Task -> TaskRecord]
NoQueue == <<>>     \* no digest is bound

\* What a versioned journal record says.  "disposed" is the mark that an
\* unversioned "committed" record leaves on the active attempt.
Phase == {"prepared", "agent-execution", "verification-repair",
          "execution-finished", "verification-finished",
          "pending-human-disposition", "accepted", "blocked",
          "pre-spawn-failure", "recovery-prepared", "recovered", "disposed"}

Event == [task : Task, attempt : Attempt, phase : Phase, reason : Reason]

Prepared == [pre : Status, post : Queue \cup {NoQueue}]

\* A journal ends in whole lines; or its last record is there without the
\* newline; or read_attempt_journal refuses it, for a line that is no record
\* or for its size.
Tail == {"whole", "open", "unreadable"}

PC == {"idle", "t-replace", "t-commit", "prepare", "launch", "record", "verify",
       "finish-execution", "finish-verification", "finish-pending", "finish-done",
       "settle",
       "f-replace", "f-record", "rec-replace", "rec-record",
       "a-record", "b-record", "release"}

\* A run of one exact task, or one step of a continuous component run.
Mode == {"single", "continuous"}

Local == [task : Task, attempt : Attempt \cup {NoAttempt}, pre : Status,
          target : Status, reason : Reason, then : {"release", "prepare"},
          mode : Mode, repairs : 0..MaxRepairs]

TypeOK ==
    /\ queue \in Queue
    /\ events \subseteq Event
    /\ prepared \in [Task \X Attempt -> Prepared]
    /\ latest \in [Task -> Attempt \cup {NoAttempt}]
    /\ trailing \subseteq Task
    /\ tail \in [Task -> Tail]
    /\ lock \in {"free", "held", "stale"}
    /\ lockTag \subseteq Task \X Attempt
    /\ pc \in PC
    /\ local \in Local
    /\ appended \in BOOLEAN
    /\ launched \subseteq Task \X Attempt
    /\ rejected \subseteq Task \X Attempt
    /\ faults \in 0..MaxFaults
---------------------------------------------------------------------------
(* The attempt journals *)

Rec(t, a, p) == [task |-> t, attempt |-> a, phase |-> p, reason |-> "none"]
BlockRec(t, a, r) == [Rec(t, a, "blocked") EXCEPT !.reason = r]

Has(t, a, p) == Rec(t, a, p) \in events
HumanBlocked(t, a) == \E r \in Reason : BlockRec(t, a, r) \in events

\* The attempt identities some versioned record of t's journal uses.
Used(t) == {a \in Attempt : \E e \in events : e.task = t /\ e.attempt = a}

\* Mutant: an identity that is already used may be taken again.
NextAttemptReused(t, a) == a \in Attempt /\ 1..(a - 1) \subseteq Used(t)

\* next_attempt_id: the first identity no record uses.
NextAttempt(t, a) == a \in Attempt \ Used(t) /\ 1..(a - 1) \subseteq Used(t)

Observed(t, a) ==
    \E p \in {"agent-execution", "verification-repair",
              "execution-finished", "verification-finished"} : Has(t, a, p)

LifecycleAdvanced(t, a) ==
    \/ Has(t, a, "pending-human-disposition")
    \/ Has(t, a, "accepted")
    \/ HumanBlocked(t, a)

\* The chain that proves an attempt ended before its runner was launched.
NoLaunchChain(t, a) ==
    \A p \in {"prepared", "pre-spawn-failure", "recovery-prepared", "recovered"} :
        Has(t, a, p)

Settled == {"blocked", "completed", "awaiting-decision"}

\* AssessedAttempt::is_fully_recovered
FullyRecovered(t, a, status) ==
    \/ LifecycleAdvanced(t, a)
    \/ Has(t, a, "disposed")
    \/ Observed(t, a) /\ status \in Settled
    \/ NoLaunchChain(t, a)

\* read_attempt_journal returns the records.
Readable(t) == tail[t] # "unreadable"

\* assess_attempt_journal accepts what was read: validate_prepared_attempt.
Assessable(t) ==
    /\ Readable(t)
    /\ \A a \in Used(t) :
          Has(t, a, "prepared") =>
              prepared[<<t, a>>].pre \in {"pending", "in-progress", "awaiting-decision"}

\* append_encoded_attempt: the record, then its newline, at the end of the
\* file.  A record behind one without a newline is on the same line, and the
\* limits on bytes and events bind the readers only: which record is the one
\* that passes them is left open.
Append(t) ==
    /\ \E end \in IF tail[t] = "whole" THEN {"whole", "unreadable"} ELSE {"unreadable"} :
          tail' = [tail EXCEPT ![t] = end]
    /\ appended' = TRUE

NoAppend == appended' = FALSE /\ UNCHANGED tail

\* ensure_task_attempt_recovered
AttemptsRecovered(t, permitted) ==
    /\ t \notin trailing
    /\ Assessable(t)
    /\ \A a \in Used(t) \ {permitted} : FullyRecovered(t, a, queue[t].status)

\* Mutant: the attempt being settled or recovered is not excepted.
ComponentRecoveredNoException(t0, a0) ==
    \A t \in Task : queue[t].fence = NoAttempt /\ AttemptsRecovered(t, NoAttempt)

\* ensure_component_attempts_recovered_except: the attempt a0 of task t0 is
\* the one that may still be unresolved (NoAttempt: none may).
ComponentRecoveredExcept(t0, a0) ==
    \A t \in Task :
        LET permitted == IF t = t0 THEN a0 ELSE NoAttempt
        IN  /\ queue[t].fence \in {NoAttempt, permitted}
            /\ AttemptsRecovered(t, permitted)

\* Mutant: only recovery fences are looked at, not the journals.
ComponentUnfenced == \A t \in Task : queue[t].fence = NoAttempt

ComponentRecovered == \A t \in Task : queue[t].fence = NoAttempt /\ AttemptsRecovered(t, NoAttempt)

\* Mutant: finalization does not look at the other tasks.
OthersIgnored(t0) == TRUE

\* ensure_other_task_attempts_recovered
OthersRecovered(t0) ==
    \A t \in Task \ {t0} : queue[t].fence = NoAttempt /\ AttemptsRecovered(t, NoAttempt)

---------------------------------------------------------------------------
(* The task queue *)

\* TaskStatus::can_transition_to
CanTransition ==
    {<<"pending", "in-progress">>, <<"pending", "blocked">>,
     <<"in-progress", "pending">>, <<"in-progress", "blocked">>,
     <<"in-progress", "completed">>, <<"in-progress", "awaiting-decision">>,
     <<"blocked", "pending">>, <<"blocked", "in-progress">>,
     <<"awaiting-decision", "pending">>, <<"awaiting-decision", "in-progress">>}

\* The dependency chain of t: the least set that holds its dependencies and
\* theirs (the worklist of transitive_dependencies_completed).
DependencyChain(t) ==
    {u \in Task : \A S \in SUBSET Task :
        (DependsOn[t] \subseteq S /\ \A v \in S : DependsOn[v] \subseteq S) => u \in S}

ChainCompleted(t) == \A u \in DependencyChain(t) : queue[u].status = "completed"

\* Mutant: the dependency chain is not looked at.
ValidTransitionAnyOrder(t, target, r) ==
    /\ <<queue[t].status, target>> \in CanTransition
    /\ (r # "none") <=> (target \in {"blocked", "awaiting-decision"})

\* validate_transition; r is "none" exactly when no reason is given.
ValidTransition(t, target, r) ==
    /\ <<queue[t].status, target>> \in CanTransition
    /\ target = "in-progress" => ChainCompleted(t)
    /\ (r # "none") <=> (target \in {"blocked", "awaiting-decision"})

TaskIsReady(t) == queue[t].status = "pending" /\ ChainCompleted(t)

\* Mutant: whatever the status, an unfenced task can be fenced.
CanFenceAnyStatus(t) == queue[t].fence = NoAttempt

CanFencePreSpawn(t) ==
    TaskIsReady(t) \/ (queue[t].status = "in-progress" /\ queue[t].fence = NoAttempt)

\* Mutant: a blocked task does not stop a run.
ComponentAlwaysCurrent == TRUE

\* validate_context: a blocked task makes the component blocked, not current.
\* Project, VCS and intent are taken to stay current.
ComponentCurrent == \A t \in Task : queue[t].status # "blocked"

\* The queue fence_pre_spawn_failure intends, and the one recover restores.
FencedQueue(q, t, a) == [q EXCEPT ![t].status = "in-progress", ![t].fence = a]
RecoveredQueue(q, t, pre) == [q EXCEPT ![t].status = pre, ![t].fence = NoAttempt]

---------------------------------------------------------------------------
(* Locking and the end of a command *)

NoLocal == [task |-> CHOOSE t \in Task : TRUE, attempt |-> NoAttempt,
            pre |-> "pending", target |-> "pending", reason |-> "none",
            then |-> "release", mode |-> "single", repairs |-> 0]

For(t) == [NoLocal EXCEPT !.task = t]

Acquire(tag) ==
    /\ pc = "idle" /\ lock = "free"
    /\ lock' = "held" /\ lockTag' = tag

Step(next) == pc' = next /\ UNCHANGED <<lock, lockTag>>

\* lock.release() when the command is over, with or without an error.
Release ==
    /\ pc = "release"
    /\ lock' = "free" /\ lockTag' = {}
    /\ pc' = "idle" /\ local' = NoLocal /\ NoAppend
    /\ UNCHANGED <<stored, history>>

\* A write fails: the command returns the error and releases its lock.
Fail ==
    /\ pc \notin {"idle", "release"} /\ faults < MaxFaults
    /\ faults' = faults + 1
    /\ lock' = "free" /\ lockTag' = {}
    /\ pc' = "idle" /\ local' = NoLocal /\ NoAppend
    /\ UNCHANGED <<stored, launched, rejected>>

\* The process dies: its lock file stays behind.  A process that dies before its
\* first durable write leaves nothing but the lock.
Crash ==
    /\ pc # "idle" \/ lock = "free"
    /\ faults < MaxFaults
    /\ faults' = faults + 1
    /\ lock' = "stale"
    /\ pc' = "idle" /\ local' = NoLocal /\ NoAppend
    /\ UNCHANGED <<stored, lockTag, launched, rejected>>

\* The append just made did not write the whole line, and the command failed
\* or died with it: nothing truncates the file again.  The newline is missing,
\* or part of the record, and then what the record says is lost with the rest
\* of the journal, which nobody can read any more.
Tear ==
    /\ appended /\ faults < MaxFaults
    /\ faults' = faults + 1
    /\ \E end \in {"open", "unreadable"} :
          tail' = [tail EXCEPT ![local.task] = IF @ = "whole" THEN end ELSE @]
    /\ \/ lock' = "free" /\ lockTag' = {}
       \/ lock' = "stale" /\ UNCHANGED lockTag
    /\ pc' = "idle" /\ local' = NoLocal /\ appended' = FALSE
    /\ UNCHANGED <<stored, launched, rejected>>

\* Mutant: a stale lock some prepared record digests is never removed.
UnlockUnbound ==
    /\ lock = "stale" /\ lockTag = {}
    /\ lock' = "free" /\ lockTag' = {}
    /\ UNCHANGED <<stored, tail, process, history>>

\* task unlock
Unlock ==
    /\ lock = "stale"
    /\ lock' = "free" /\ lockTag' = {}
    /\ UNCHANGED <<stored, tail, process, history>>

---------------------------------------------------------------------------
(* task transition, and the transition_locked that a run shares with it *)

TransitionBegin(t, target, r) ==
    /\ Acquire({})
    /\ ComponentRecovered
    /\ ValidTransition(t, target, r)
    /\ trailing' = trailing \cup {t}
    /\ pc' = "t-replace"
    /\ local' = [For(t) EXCEPT !.pre = queue[t].status, !.target = target, !.reason = r]
    /\ Append(t)
    /\ UNCHANGED <<queue, events, prepared, latest, history>>

TransitionReplace ==
    /\ pc = "t-replace"
    /\ queue' = [queue EXCEPT ![local.task].status = local.target,
                              ![local.task].reason = local.reason]
    /\ Step("t-commit")
    /\ NoAppend
    /\ UNCHANGED <<events, prepared, latest, trailing, local, history>>

\* The committed record disposes the active attempt if it was observed.
DisposedBy(t, from, to) ==
    {Rec(t, a, "disposed") : a \in {b \in Attempt :
        b = latest[t] /\ Observed(t, b) /\ {from, to} \cap Settled # {}}}

TransitionCommit ==
    /\ pc = "t-commit"
    /\ trailing' = trailing \ {local.task}
    /\ events' = events \cup DisposedBy(local.task, local.pre, local.target)
    /\ Step(local.then)
    /\ Append(local.task)
    /\ UNCHANGED <<queue, prepared, latest, local, history>>

---------------------------------------------------------------------------
(* task run *)

RunBegin(t, mode) ==
    /\ Acquire({})
    /\ ComponentCurrent
    /\ ComponentRecovered
    /\ local' = [For(t) EXCEPT !.pre = queue[t].status, !.target = "in-progress",
                               !.then = "prepare", !.mode = mode]
    /\ \/ /\ ValidTransition(t, "in-progress", "none")
          /\ trailing' = trailing \cup {t}
          /\ pc' = "t-replace" /\ Append(t)
       \/ /\ queue[t].status = "in-progress" /\ queue[t].fence = NoAttempt
          /\ pc' = "prepare" /\ NoAppend
          /\ UNCHANGED trailing
    /\ UNCHANGED <<queue, events, prepared, latest, history>>

RunPrepare ==
    /\ pc = "prepare"
    /\ LET t == local.task IN
       \/ \E a \in Attempt :
            /\ Readable(t) /\ NextAttempt(t, a)
            /\ events' = events \cup {Rec(t, a, "prepared")}
            /\ prepared' = [prepared EXCEPT ![<<t, a>>] = [pre |-> local.pre, post |-> NoQueue]]
            /\ latest' = [latest EXCEPT ![t] = a]
            /\ lockTag' = IF local.mode = "continuous" THEN {} ELSE {<<t, a>>}
            /\ local' = [local EXCEPT !.attempt = a, !.pre = "in-progress"]
            /\ pc' = "launch" /\ Append(t)
       \/ /\ ~Readable(t) \/ Used(t) = Attempt     \* no bounded identity is left
          /\ pc' = "release" /\ NoAppend
          /\ UNCHANGED <<events, prepared, latest, lockTag, local>>
    /\ UNCHANGED <<queue, trailing, lock, history>>

Launch ==
    /\ pc = "launch"
    /\ launched' = launched \cup {<<local.task, local.attempt>>}
    /\ Step("record")
    /\ NoAppend
    /\ UNCHANGED <<stored, local, rejected, faults>>

\* How a run leaves the task in progress: the transition it will make.
Settle(target) ==
    /\ local' = [local EXCEPT !.target = target, !.then = "release",
                              !.reason = IF target = "completed" THEN "none" ELSE "run",
                              !.mode = "single", !.repairs = 0]
    /\ Step("settle")

\* attempt.record("agent-execution"): every outcome is recorded first.
RecordExecution(outcome) ==
    /\ pc = "record"
    /\ events' = events \cup {Rec(local.task, local.attempt, "agent-execution")}
    /\ CASE outcome = "decision" -> Settle("awaiting-decision")
         [] outcome = "failure" -> Settle("blocked")
         [] outcome = "success" ->
                IF local.task \in Implementation
                THEN Step("verify") /\ UNCHANGED local
                ELSE Settle("completed")
    /\ Append(local.task)
    /\ UNCHANGED <<queue, prepared, latest, trailing, history>>

Verified ==
    /\ pc = "verify"
    /\ Step("finish-execution")
    /\ NoAppend
    /\ UNCHANGED <<stored, local, history>>

\* Verification cannot be repaired, recurs unchanged, has used its rounds, or
\* the authoring sequence was interrupted.
VerificationBlocks ==
    /\ pc = "verify"
    /\ Settle("blocked")
    /\ NoAppend
    /\ UNCHANGED <<stored, history>>

\* Mutant: one repair round more than the bound.
RepairVerificationOnceMore(outcome) ==
    /\ pc = "verify" /\ local.repairs <= MaxRepairs
    /\ events' = events \cup {Rec(local.task, local.attempt, "verification-repair")}
    /\ local' = [local EXCEPT !.repairs = @ + 1]
    /\ Step("verify")
    /\ Append(local.task)
    /\ UNCHANGED <<queue, prepared, latest, trailing, history>>

RepairVerification(outcome) ==
    /\ pc = "verify" /\ local.repairs < MaxRepairs
    /\ events' = events \cup {Rec(local.task, local.attempt, "verification-repair")}
    /\ CASE outcome = "decision" -> Settle("awaiting-decision")
         [] outcome = "failure" -> Settle("blocked")
         [] outcome = "success" ->
                /\ local' = [local EXCEPT !.repairs = @ + 1]
                /\ Step("verify")
    /\ Append(local.task)
    /\ UNCHANGED <<queue, prepared, latest, trailing, history>>

\* The evidence of a verified run, one record at a time.
AppendFinished(from, phase, to) ==
    /\ pc = from
    /\ events' = events \cup {Rec(local.task, local.attempt, phase)}
    /\ Step(to)
    /\ Append(local.task)
    /\ UNCHANGED <<queue, prepared, latest, trailing, local, history>>

FinishEvidence ==
    \/ AppendFinished("finish-execution", "execution-finished", "finish-verification")
    \/ AppendFinished("finish-verification", "verification-finished",
                      IF local.mode = "continuous" THEN "finish-done" ELSE "finish-pending")
    \/ AppendFinished("finish-pending", "pending-human-disposition", "finish-done")

\* completion_boundary finds the sequence interrupted.
FinishInterrupted ==
    /\ pc \in {"finish-execution", "finish-verification", "finish-pending", "finish-done"}
    /\ Settle("blocked")
    /\ NoAppend
    /\ UNCHANGED <<stored, history>>

\* A single run leaves the task in progress for a human; a continuous one
\* completes it.
FinishDone ==
    /\ pc = "finish-done"
    /\ IF local.mode = "continuous" THEN Settle("completed") ELSE Step("release") /\ UNCHANGED local
    /\ NoAppend
    /\ UNCHANGED <<stored, history>>

CanSettle ==
    /\ ComponentRecoveredExcept(local.task, local.attempt)
    /\ ValidTransition(local.task, local.target, local.reason)

SettleBegin ==
    /\ pc = "settle" /\ CanSettle
    /\ trailing' = trailing \cup {local.task}
    /\ Step("t-replace") /\ Append(local.task)
    /\ UNCHANGED <<queue, events, prepared, latest, local, history>>

\* transition_locked refuses; the task stays in progress.
SettleRefused ==
    /\ pc = "settle" /\ ~CanSettle
    /\ Step("release") /\ NoAppend
    /\ UNCHANGED <<stored, local, history>>

---------------------------------------------------------------------------
(* The runner's descriptor cannot be opened: the task is fenced *)

\* As for acceptance below, validate_context ran before the lock was taken.
FenceBegin(t, a) ==
    /\ Acquire({<<t, a>>})
    /\ CanFencePreSpawn(t)
    /\ ComponentRecovered
    /\ NextAttempt(t, a)
    /\ events' = events \cup {Rec(t, a, "prepared")}
    /\ prepared' = [prepared EXCEPT ![<<t, a>>] =
                        [pre |-> queue[t].status, post |-> FencedQueue(queue, t, a)]]
    /\ latest' = [latest EXCEPT ![t] = a]
    /\ pc' = "f-replace"
    /\ local' = [For(t) EXCEPT !.attempt = a]
    /\ Append(t)
    /\ UNCHANGED <<queue, trailing, history>>

FenceReplace ==
    /\ pc = "f-replace"
    /\ queue' = FencedQueue(queue, local.task, local.attempt)
    /\ Step("f-record")
    /\ NoAppend
    /\ UNCHANGED <<events, prepared, latest, trailing, local, history>>

FenceRecord ==
    /\ pc = "f-record"
    /\ events' = events \cup {Rec(local.task, local.attempt, "pre-spawn-failure")}
    /\ latest' = [latest EXCEPT ![local.task] = local.attempt]
    /\ Step("release")
    /\ Append(local.task)
    /\ UNCHANGED <<queue, prepared, trailing, local, history>>

---------------------------------------------------------------------------
(* task recover --disposition execution-did-not-start *)

\* ensure_task_attempt_is_recovery_candidate and preflight_recovery_evidence
RecoveryCandidate(t, a) ==
    /\ \/ queue[t].status = "in-progress" /\ queue[t].fence = a
       \/ queue[t].fence = NoAttempt /\ queue[t].status \in {"pending", "in-progress"}
    /\ Has(t, a, "prepared") /\ Has(t, a, "pre-spawn-failure")
    /\ ~Observed(t, a) /\ ~LifecycleAdvanced(t, a)

Fenced(t, a) == queue[t].fence = a /\ queue = prepared[<<t, a>>].post
Unfenced(t, a) == queue = RecoveredQueue(prepared[<<t, a>>].post, t, prepared[<<t, a>>].pre)

\* Mutant: a recovery that lost its last append cannot be resumed.
RecoverBeginNoResume(t, a) ==
    /\ pc = "idle"
    /\ lock = "free" \/ (lock = "stale" /\ lockTag = {<<t, a>>})
    /\ RecoveryCandidate(t, a) /\ ComponentRecoveredExcept(t, a) /\ Fenced(t, a)
    /\ prepared[<<t, a>>].pre \in {"pending", "in-progress"}
    /\ lock' = "held" /\ lockTag' = {}
    /\ local' = [For(t) EXCEPT !.attempt = a]
    /\ events' = events \cup {Rec(t, a, "recovery-prepared")}
    /\ latest' = [latest EXCEPT ![t] = a]
    /\ pc' = "rec-replace"
    /\ Append(t)
    /\ UNCHANGED <<queue, prepared, trailing, history>>

RecoverBegin(t, a) ==
    /\ pc = "idle"
    /\ lock = "free" \/ (lock = "stale" /\ lockTag = {<<t, a>>})
    /\ RecoveryCandidate(t, a)
    /\ ComponentRecoveredExcept(t, a)
    /\ prepared[<<t, a>>].pre \in {"pending", "in-progress"}
    /\ lock' = "held" /\ lockTag' = {}
    /\ local' = [For(t) EXCEPT !.attempt = a]
    /\ \/ /\ ~Has(t, a, "recovery-prepared") /\ Fenced(t, a)
          /\ events' = events \cup {Rec(t, a, "recovery-prepared")}
          /\ latest' = [latest EXCEPT ![t] = a]
          /\ pc' = "rec-replace" /\ Append(t)
       \/ /\ Has(t, a, "recovery-prepared") /\ Fenced(t, a)
          /\ pc' = "rec-replace" /\ NoAppend
          /\ UNCHANGED <<events, latest>>
       \/ /\ Has(t, a, "recovery-prepared") /\ Unfenced(t, a) /\ ~Has(t, a, "recovered")
          /\ pc' = "rec-record" /\ NoAppend
          /\ UNCHANGED <<events, latest>>
    /\ UNCHANGED <<queue, prepared, trailing, history>>

\* The evidence is read again after recovery-prepared was appended.
RecoverReplace ==
    /\ pc = "rec-replace" /\ Readable(local.task)
    /\ queue' = RecoveredQueue(queue, local.task, prepared[<<local.task, local.attempt>>].pre)
    /\ Step("rec-record")
    /\ NoAppend
    /\ UNCHANGED <<events, prepared, latest, trailing, local, history>>

RecoverRefused ==
    /\ pc = "rec-replace" /\ ~Readable(local.task)
    /\ Step("release") /\ NoAppend
    /\ UNCHANGED <<stored, local, history>>

RecoverRecord ==
    /\ pc = "rec-record"
    /\ events' = events \cup {Rec(local.task, local.attempt, "recovered")}
    /\ latest' = [latest EXCEPT ![local.task] = local.attempt]
    /\ Step("release")
    /\ Append(local.task)
    /\ UNCHANGED <<queue, prepared, trailing, local, history>>

---------------------------------------------------------------------------
(* task finalize ... accept | block *)

\* Mutant: an attempt older than the latest may be finalized.
FinalizableOlder(t, a) ==
    /\ Has(t, a, "prepared")
    /\ queue[t].fence = NoAttempt
    /\ Readable(t) /\ OthersRecovered(t)
    /\ ~Has(t, a, "recovery-prepared") /\ ~Has(t, a, "recovered")

\* validate_finalization_identity, and no recovery fence or decision.
Finalizable(t, a) ==
    /\ latest[t] = a /\ Has(t, a, "prepared")
    /\ queue[t].fence = NoAttempt
    /\ Readable(t) /\ OthersRecovered(t)
    /\ ~Has(t, a, "recovery-prepared") /\ ~Has(t, a, "recovered")

AlreadyAccepted(t, a) ==
    /\ queue[t].status = "completed" /\ queue[t].disposition = "accept"
    /\ queue[t].acceptance = a

AcceptGuard(t, a) ==
    /\ Finalizable(t, a)
    /\ ~HumanBlocked(t, a)
    /\ AlreadyAccepted(t, a) \/ ValidTransition(t, "completed", "none")

\* validate_context ran before the lock was taken and is not repeated.  The
\* initial queue is current, so a command that validated it then may get here
\* in any later state: the component need not be current any more.
AcceptBegin(t, a) ==
    /\ Acquire({})
    /\ AcceptGuard(t, a)
    /\ local' = [For(t) EXCEPT !.attempt = a]
    /\ \/ /\ ~AlreadyAccepted(t, a)      \* a recorded change no longer matches the disk
          /\ queue' = [queue EXCEPT ![t].fence = a]
          /\ pc' = "release"
       \/ /\ ~AlreadyAccepted(t, a)
          /\ queue' = [queue EXCEPT ![t].status = "completed", ![t].acceptance = a,
                                    ![t].disposition = "accept"]
          /\ pc' = "a-record"
       \/ /\ AlreadyAccepted(t, a)
          /\ pc' = "a-record"
          /\ UNCHANGED queue
    /\ NoAppend
    /\ UNCHANGED <<events, prepared, latest, trailing, history>>

AcceptRecord ==
    /\ pc = "a-record"
    /\ events' = events \cup {Rec(local.task, local.attempt, "accepted")}
    /\ trailing' = IF Has(local.task, local.attempt, "accepted") THEN trailing
                   ELSE trailing \ {local.task}
    /\ IF Has(local.task, local.attempt, "accepted") THEN NoAppend ELSE Append(local.task)
    /\ Step("release")
    /\ UNCHANGED <<queue, prepared, latest, local, history>>

AlreadyBlocked(t, r) ==
    queue[t].status = "blocked" /\ queue[t].disposition = "block" /\ queue[t].reason = r

BlockGuard(t, a, r) ==
    /\ Finalizable(t, a)
    /\ ~Has(t, a, "accepted")
    /\ \A s \in Reason \ {r} : BlockRec(t, a, s) \notin events
    /\ AlreadyBlocked(t, r) \/ ValidTransition(t, "blocked", r)

BlockBegin(t, a, r) ==
    /\ Acquire({})
    /\ BlockGuard(t, a, r)
    /\ queue' = [queue EXCEPT ![t].status = "blocked", ![t].reason = r,
                              ![t].disposition = "block"]
    /\ rejected' = rejected \cup {<<t, a>>}
    /\ local' = [For(t) EXCEPT !.attempt = a, !.reason = r]
    /\ pc' = "b-record"
    /\ NoAppend
    /\ UNCHANGED <<events, prepared, latest, trailing, launched, faults>>

BlockRecord ==
    /\ pc = "b-record"
    /\ LET record == BlockRec(local.task, local.attempt, local.reason) IN
       /\ events' = events \cup {record}
       /\ trailing' = IF record \in events THEN trailing ELSE trailing \ {local.task}
       /\ IF record \in events THEN NoAppend ELSE Append(local.task)
    /\ Step("release")
    /\ UNCHANGED <<queue, prepared, latest, local, history>>

---------------------------------------------------------------------------
Init ==
    /\ queue = [t \in Task |-> [status |-> "pending", fence |-> NoAttempt,
                                acceptance |-> NoAttempt, disposition |-> "none",
                                reason |-> "none"]]
    /\ events = {}
    /\ prepared = [x \in Task \X Attempt |-> [pre |-> "pending", post |-> NoQueue]]
    /\ latest = [t \in Task |-> NoAttempt]
    /\ trailing = {}
    /\ tail = [t \in Task |-> "whole"] /\ appended = FALSE
    /\ lock = "free" /\ lockTag = {}
    /\ pc = "idle" /\ local = NoLocal
    /\ launched = {} /\ rejected = {} /\ faults = 0

Outcome == {"success", "failure", "decision"}

\* A command a human starts.
Command ==
    \E t \in Task :
        \/ \E target \in Status, r \in {"none"} \cup HumanReason : TransitionBegin(t, target, r)
        \/ \E mode \in Mode : RunBegin(t, mode)
        \/ \E a \in Attempt :
            \/ FenceBegin(t, a)
            \/ RecoverBegin(t, a)
            \/ AcceptBegin(t, a)
            \/ \E r \in HumanReason : BlockBegin(t, a, r)

\* The lock holder's next step.
Proceed ==
    \/ TransitionReplace \/ TransitionCommit
    \/ RunPrepare \/ Launch \/ Verified \/ VerificationBlocks
    \/ \E outcome \in Outcome : RecordExecution(outcome) \/ RepairVerification(outcome)
    \/ FinishEvidence \/ FinishInterrupted \/ FinishDone \/ SettleBegin \/ SettleRefused
    \/ FenceReplace \/ FenceRecord
    \/ RecoverReplace \/ RecoverRefused \/ RecoverRecord
    \/ AcceptRecord \/ BlockRecord
    \/ Release

Next == Command \/ Proceed \/ Unlock \/ Fail \/ Crash \/ Tear

Spec == Init /\ [][Next]_vars

\* The operator follows the printed guidance: a stale lock is unlocked and a
\* recorded no-launch failure recovered.  A command under way proceeds.
Fairness ==
    /\ WF_vars(Proceed)
    /\ WF_vars(Unlock)
    /\ \A t \in Task, a \in Attempt : WF_vars(RecoverBegin(t, a))

FairSpec == Spec /\ Fairness

---------------------------------------------------------------------------
(* Correctness *)

\* Dependencies first: a task is in progress, waits for a decision or is
\* completed only when its whole dependency chain is completed, although
\* fencing, recovery and acceptance also rewrite the queue.
DependenciesFirst ==
    \A t \in Task :
        queue[t].status \in {"in-progress", "awaiting-decision", "completed"}
            => ChainCompleted(t)

\* No replay: while a run is on its way to an agent, or the agent's result on
\* its way to the journal, every other attempt ever launched in the component
\* is disposed in a journal.  Of another task only, a conclusion that reached
\* the queue alone (the append after it was lost) is enough; and then the
\* agent of that attempt is known to have ended.
NoReplay ==
    pc \in {"launch", "record", "verify"} =>
        \A x \in launched \ {<<local.task, local.attempt>>} :
            \/ Has(x[1], x[2], "disposed") \/ LifecycleAdvanced(x[1], x[2])
            \/ x[1] # local.task /\ Observed(x[1], x[2]) /\ queue[x[1]].status \in Settled

\* execution-did-not-start is never recorded for an attempt whose agent was
\* started, and no recovered identity is ever launched.
NoLaunchRecovered ==
    \A x \in launched : ~Has(x[1], x[2], "recovery-prepared") /\ ~Has(x[1], x[2], "pre-spawn-failure")

\* The journals of the component can be read: no torn line was written on, and
\* none passed the limits.
AllReadable == \A t \in Task : Readable(t)

\* A recorded no-launch failure stays recoverable: once the lock is free,
\* task recover finds exactly the queue its evidence binds, whatever commands,
\* crashes and interrupted recoveries of this or another task came between
\* (finalizing one task must not invalidate another attempt's recovery); and
\* its gate is open as long as the journals of the component can be read.
FenceStaysRecoverable ==
    pc = "idle" =>
        \A t \in Task, a \in Attempt :
            (Has(t, a, "pre-spawn-failure") /\ ~Has(t, a, "recovered")) =>
                /\ RecoveryCandidate(t, a)
                /\ AllReadable => ComponentRecoveredExcept(t, a)
                /\ Fenced(t, a) \/ (Has(t, a, "recovery-prepared") /\ Unfenced(t, a))

\* A journal that read_attempt_journal can read is one assess_attempt_journal
\* accepts: no sequence of commands, crashes and torn lines (a record whose
\* newline is missing still counts) writes records that contradict each other.
\* Each versioned record follows the records it must follow, a human decides
\* one way only, and the status a prepared record binds is an admissible one;
\* a journal that breaks this fences its component for good.
ReadableIsAssessable ==
    \A t \in Task : Readable(t) =>
        /\ Assessable(t)
        /\ \A a \in Used(t) :
            /\ Has(t, a, "prepared")
            /\ Has(t, a, "pre-spawn-failure") => ~Observed(t, a)
            /\ Has(t, a, "recovery-prepared") => Has(t, a, "pre-spawn-failure")
            /\ Has(t, a, "recovered") => Has(t, a, "recovery-prepared")
            /\ ~(Has(t, a, "accepted") /\ HumanBlocked(t, a))

\* A run that has observed its agent can store what it concluded: the
\* transition that settles the task is a legal one, and its gates are open
\* unless a journal of the component can no longer be read.
RunCanSettle ==
    pc = "settle" =>
        /\ AllReadable => ComponentRecoveredExcept(local.task, local.attempt)
        /\ ValidTransition(local.task, local.target, local.reason)

\* An acceptance whose evidence append was lost can be repeated: the
\* accepted attempt remains the latest one, unfenced and without a decision
\* the repeated command would take for a conflict.
AcceptanceCanBeRepeated ==
    \A t \in Task, a \in Attempt :
        (queue[t].acceptance = a /\ ~Has(t, a, "accepted")) =>
            /\ AlreadyAccepted(t, a)
            /\ latest[t] = a /\ queue[t].fence = NoAttempt
            /\ ~HumanBlocked(t, a) /\ ~Has(t, a, "recovery-prepared")

\* Completion and its acceptance are final.
CompletedIsFinal ==
    [][\A t \in Task : queue[t].status = "completed" =>
            /\ queue'[t].status = "completed"
            /\ queue'[t].acceptance = queue[t].acceptance]_vars

\* Every recorded no-launch failure is recovered in the end, and its fence
\* lifted, across crashes in the recovery itself, unless a journal of the
\* component became unreadable: a recovery whose recovery-prepared lost only
\* its newline is resumed, but its last record then spoils the line.
FailureIsRecovered ==
    \A t \in Task, a \in Attempt :
        Has(t, a, "pre-spawn-failure") ~>
            \/ Has(t, a, "recovered") /\ queue[t].fence # a
            \/ ~AllReadable

\* Every command ends, and its lock does not stay behind.
CommandsEnd == (lock # "free") ~> (lock = "free")

\* maerg/REQUIREMENTS.md: finalization must not overwrite a conflicting human
\* disposition, i.e. an attempt a human rejected is never accepted.
HumanBlockIsFinal ==
    \A x \in rejected : queue[x[1]].acceptance # x[2]

===========================================================================
