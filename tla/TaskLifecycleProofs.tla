------------------------- MODULE TaskLifecycleProofs -------------------------
(***************************************************************************)
(* What TaskLifecycle promises for every set of tasks, every dependency    *)
(* relation and every bound on attempts, repairs and faults.               *)
(***************************************************************************)
EXTENDS TaskLifecycle, TLAPS

---------------------------------------------------------------------------
(* Type correctness *)

\* A process at one of these steps has chosen an attempt.
InAttempt ==
    {"launch", "record", "verify", "finish-execution", "finish-verification",
     "finish-pending", "finish-done", "f-replace", "f-record",
     "rec-replace", "rec-record", "a-record", "b-record"}

AttemptChosen == pc \in InAttempt => local.attempt \in Attempt

TypeInv == TypeOK /\ AttemptChosen

\* The local state every command starts from is well typed.
LEMMA LocalType == NoLocal \in Local /\ \A t \in Task : For(t) \in Local /\ For(t).attempt = NoAttempt
<1>1. (CHOOSE t \in Task : TRUE) \in Task
      BY LifecycleAssumption
<1>2. NoLocal \in Local
      BY <1>1, LifecycleAssumption DEF NoLocal, Local, Mode, Status, Reason, NoAttempt
<1> QED BY <1>2 DEF For, NoLocal, Local

\* The empty journals and the pending queue are well typed.
LEMMA TypeInit == Init => TypeInv
<1> SUFFICES ASSUME Init PROVE TypeInv
    OBVIOUS
<1>1. tail \in [Task -> Tail] /\ appended \in BOOLEAN
      BY DEF Init, Tail
<1> QED BY <1>1, LocalType, LifecycleAssumption
        DEF Init, TypeInv, TypeOK, AttemptChosen, InAttempt, Queue, TaskRecord, Status, Reason,
            NoAttempt, Prepared, PC

\* A journal record of a known task, attempt and phase is well typed ...
LEMMA RecType ==
    \A t \in Task, a \in Attempt, p \in Phase : Rec(t, a, p) \in Event
BY DEF Rec, Event, Reason

\* ... and so is a block disposition with its reason.
LEMMA BlockRecType ==
    \A t \in Task, a \in Attempt, r \in Reason : BlockRec(t, a, r) \in Event
BY DEF BlockRec, Rec, Event, Phase

\* Every rewriting of one queue entry by a command yields a well-typed queue.
LEMMA QueueType ==
    ASSUME NEW q \in Queue, NEW t \in Task
    PROVE  /\ \A s \in Status, r \in Reason :
                [q EXCEPT ![t].status = s, ![t].reason = r] \in Queue
           /\ \A r \in Reason :
                [q EXCEPT ![t].status = "blocked", ![t].reason = r, ![t].disposition = "block"] \in Queue
           /\ \A a \in Attempt :
                /\ [q EXCEPT ![t].fence = a] \in Queue
                /\ [q EXCEPT ![t].status = "completed", ![t].acceptance = a,
                             ![t].disposition = "accept"] \in Queue
                /\ FencedQueue(q, t, a) \in Queue
           /\ \A s \in Status : RecoveredQueue(q, t, s) \in Queue
<1>1. \A x \in TaskRecord : [q EXCEPT ![t] = x] \in Queue
      BY DEF Queue
<1>2. q[t] \in TaskRecord
      BY DEF Queue
<1>3. ASSUME NEW s \in Status, NEW r \in Reason
      PROVE  [q EXCEPT ![t].status = s, ![t].reason = r] \in Queue
  <2>1. [q[t] EXCEPT !.status = s, !.reason = r] \in TaskRecord
        BY <1>2 DEF TaskRecord
  <2> QED BY <1>1, <2>1
<1>4. ASSUME NEW r \in Reason
      PROVE  [q EXCEPT ![t].status = "blocked", ![t].reason = r, ![t].disposition = "block"] \in Queue
  <2>1. [q[t] EXCEPT !.status = "blocked", !.reason = r, !.disposition = "block"] \in TaskRecord
        BY <1>2 DEF TaskRecord, Status
  <2> QED BY <1>1, <2>1
<1>5. ASSUME NEW a \in Attempt
      PROVE  /\ [q EXCEPT ![t].fence = a] \in Queue
             /\ [q EXCEPT ![t].status = "completed", ![t].acceptance = a,
                          ![t].disposition = "accept"] \in Queue
             /\ FencedQueue(q, t, a) \in Queue
  <2>1. [q[t] EXCEPT !.fence = a] \in TaskRecord
        BY <1>2 DEF TaskRecord
  <2>2. [q[t] EXCEPT !.status = "completed", !.acceptance = a, !.disposition = "accept"] \in TaskRecord
        BY <1>2 DEF TaskRecord, Status
  <2>3. [q[t] EXCEPT !.status = "in-progress", !.fence = a] \in TaskRecord
        BY <1>2 DEF TaskRecord, Status
  <2> QED BY <1>1, <2>1, <2>2, <2>3 DEF FencedQueue
<1>6. ASSUME NEW s \in Status PROVE RecoveredQueue(q, t, s) \in Queue
  <2>1. [q[t] EXCEPT !.status = s, !.fence = NoAttempt] \in TaskRecord
        BY <1>2 DEF TaskRecord
  <2> QED BY <1>1, <2>1 DEF RecoveredQueue
<1> QED BY <1>3, <1>4, <1>5, <1>6

\* Choosing an attempt for the running command is well typed.
LEMMA LocalAttemptType ==
    ASSUME NEW x \in Local, NEW a \in Attempt
    PROVE  /\ [x EXCEPT !.attempt = a] \in Local /\ [x EXCEPT !.attempt = a].attempt = a
           /\ [x EXCEPT !.attempt = a, !.pre = "in-progress"] \in Local
           /\ [x EXCEPT !.attempt = a, !.pre = "in-progress"].attempt = a
BY DEF Local, Status

\* Choosing a transition for the running command is well typed.
LEMMA LocalTargetType ==
    ASSUME NEW x \in Local, NEW s \in Status
    PROVE  /\ \A u \in Status, r \in Reason : [x EXCEPT !.pre = s, !.target = u, !.reason = r] \in Local
           /\ \A m \in Mode : [x EXCEPT !.pre = s, !.target = "in-progress",
                                        !.then = "prepare", !.mode = m] \in Local
           /\ \A r \in Reason : [x EXCEPT !.target = s, !.then = "release", !.reason = r,
                                          !.mode = "single", !.repairs = 0] \in Local
<1>1. ASSUME NEW u \in Status, NEW r \in Reason
      PROVE  [x EXCEPT !.pre = s, !.target = u, !.reason = r] \in Local
      BY DEF Local
<1>2. ASSUME NEW m \in Mode
      PROVE  [x EXCEPT !.pre = s, !.target = "in-progress", !.then = "prepare", !.mode = m] \in Local
      BY DEF Local, Status
<1>3. ASSUME NEW r \in Reason
      PROVE  [x EXCEPT !.target = s, !.then = "release", !.reason = r,
                       !.mode = "single", !.repairs = 0] \in Local
  <2>1. 0 \in 0..MaxRepairs
        BY LifecycleAssumption
  <2>2. [x EXCEPT !.target = s, !.then = "release", !.reason = r] \in Local
        BY DEF Local
  <2>3. \A y \in Local : [y EXCEPT !.mode = "single", !.repairs = 0] \in Local
        BY <2>1 DEF Local, Mode
  <2> QED BY <2>2, <2>3 DEF Local
<1> QED BY <1>1, <1>2, <1>3

\* Every durable step of every command keeps the state well typed.
LEMMA TypeNext == TypeInv /\ [Next]_vars => TypeInv'
<1> SUFFICES ASSUME TypeInv, [Next]_vars PROVE TypeInv'
    OBVIOUS
<1> USE DEF TypeInv, TypeOK, AttemptChosen, InAttempt, PC, stored, locks, history
<1>0. /\ local.task \in Task /\ local.pre \in Status /\ local.target \in Status
      /\ local.reason \in Reason /\ local.then \in {"release", "prepare"}
      /\ \A t \in Task : queue[t].status \in Status
      BY DEF Local, Queue, TaskRecord
<1>t. /\ \A t : Append(t) => tail' \in [Task -> Tail] /\ appended' \in BOOLEAN
      /\ NoAppend => tail' \in [Task -> Tail] /\ appended' \in BOOLEAN
      BY DEF Append, NoAppend, Tail
<1> USE <1>t
<1>a. ASSUME NEW target \in Status, Settle(target)
      PROVE  local' \in Local /\ pc' = "settle" /\ UNCHANGED locks
  <2> DEFINE r == IF target = "completed" THEN "none" ELSE "run"
  <2>1. r \in Reason
        BY DEF Reason
  <2>2. local' = [local EXCEPT !.target = target, !.then = "release", !.reason = r,
                               !.mode = "single", !.repairs = 0]
        BY <1>a DEF Settle
  <2> HIDE DEF r
  <2>3. local' \in Local
        BY <2>1, <2>2, LocalTargetType
  <2>4. pc' = "settle" /\ UNCHANGED locks
        BY <1>a DEF Settle, Step
  <2> QED BY <2>3, <2>4
<1>1. ASSUME NEW t \in Task, NEW target \in Status, NEW r \in Reason, TransitionBegin(t, target, r)
      PROVE  TypeInv'
  <2>1. local' \in Local
        BY <1>0, <1>1, LocalType, LocalTargetType DEF TransitionBegin
  <2> QED BY <2>1, <1>1 DEF TransitionBegin, Acquire
<1>2. CASE TransitionReplace
  <2>1. queue' \in Queue
        BY <1>0, <1>2, QueueType DEF TransitionReplace
  <2> QED BY <2>1, <1>2 DEF TransitionReplace, Step
<1>3. CASE TransitionCommit
  <2>1. DisposedBy(local.task, local.pre, local.target) \subseteq Event
        BY <1>0, RecType DEF DisposedBy, Phase
  <2> QED BY <2>1, <1>0, <1>3 DEF TransitionCommit, Step
<1>4. ASSUME NEW t \in Task, NEW mode \in Mode, RunBegin(t, mode) PROVE TypeInv'
  <2>1. local' \in Local
        BY <1>0, <1>4, LocalType, LocalTargetType DEF RunBegin
  <2> QED BY <2>1, <1>4 DEF RunBegin, Acquire
<1>5. CASE RunPrepare
  <2>1. CASE pc' = "release" /\ NoAppend
             /\ UNCHANGED <<events, prepared, latest, lockTag, local>>
        BY <2>1, <1>5 DEF RunPrepare
  <2>2. ASSUME NEW a \in Attempt,
               events' = events \cup {Rec(local.task, a, "prepared")},
               prepared' = [prepared EXCEPT ![<<local.task, a>>] = [pre |-> local.pre, post |-> NoQueue]],
               latest' = [latest EXCEPT ![local.task] = a],
               lockTag' = IF local.mode = "continuous" THEN {} ELSE {<<local.task, a>>},
               local' = [local EXCEPT !.attempt = a, !.pre = "in-progress"],
               pc' = "launch", Append(local.task)
        PROVE  TypeInv'
    <3>1. events' \subseteq Event
          BY <1>0, <2>2, RecType DEF Phase
    <3>2. local' \in Local /\ local'.attempt \in Attempt
          BY <2>2, LocalAttemptType
    <3>3. [pre |-> local.pre, post |-> NoQueue] \in Prepared
          BY <1>0 DEF Prepared
    <3>4. prepared' \in [Task \X Attempt -> Prepared]
          BY <1>0, <2>2, <3>3
    <3>5. latest' \in [Task -> Attempt \cup {NoAttempt}] /\ lockTag' \subseteq Task \X Attempt
          BY <1>0, <2>2
    <3> QED BY <2>2, <1>5, <3>1, <3>2, <3>4, <3>5 DEF RunPrepare
  <2> QED BY <1>5, <2>1, <2>2 DEF RunPrepare
<1>6. CASE Launch
      BY <1>0, <1>6 DEF Launch, Step
<1>7. ASSUME NEW outcome \in Outcome, RecordExecution(outcome) PROVE TypeInv'
  <2>1. events' \subseteq Event
        BY <1>0, <1>7, RecType DEF RecordExecution, Phase
  <2>2. (\E target \in Status : Settle(target)) \/ (Step("verify") /\ UNCHANGED local)
        BY <1>7 DEF RecordExecution, Outcome, Status
  <2> QED BY <1>7, <1>a, <2>1, <2>2 DEF RecordExecution, Step
<1>8. CASE Verified \/ VerificationBlocks
  <2>1. CASE Verified
        BY <2>1 DEF Verified, Step
  <2>2. CASE VerificationBlocks
        BY <1>a, <2>2 DEF VerificationBlocks, Status
  <2> QED BY <1>8, <2>1, <2>2
<1>9. ASSUME NEW outcome \in Outcome, RepairVerification(outcome) PROVE TypeInv'
  <2>1. events' \subseteq Event
        BY <1>0, <1>9, RecType DEF RepairVerification, Phase
  <2>2. \/ \E target \in Status : Settle(target)
        \/ Step("verify") /\ local' = [local EXCEPT !.repairs = @ + 1]
        BY <1>9 DEF RepairVerification, Outcome, Status
  <2>3. local.repairs < MaxRepairs
        BY <1>9 DEF RepairVerification
  <2>4. CASE \E target \in Status : Settle(target)
        BY <1>9, <1>a, <2>1, <2>4 DEF RepairVerification
  <2>5. CASE Step("verify") /\ local' = [local EXCEPT !.repairs = @ + 1]
    <3>1. local' \in Local /\ local'.attempt = local.attempt
          BY <2>3, <2>5 , LifecycleAssumption DEF Local
    <3> QED BY <1>9, <2>1, <2>5, <3>1 DEF RepairVerification, Step
  <2> QED BY <2>2, <2>4, <2>5
<1>10. CASE FinishEvidence
      BY <1>0, <1>10, RecType DEF FinishEvidence, AppendFinished, Step, Phase
<1>11. CASE FinishInterrupted \/ FinishDone
  <2>1. CASE \E target \in Status : Settle(target)
        BY <1>11, <1>a, <2>1 DEF FinishInterrupted, FinishDone
  <2>2. CASE Step("release") /\ UNCHANGED local
        BY <1>11, <2>2 DEF FinishInterrupted, FinishDone, Step
  <2> QED BY <1>11, <2>1, <2>2 DEF FinishInterrupted, FinishDone, Status
<1>12. CASE SettleBegin \/ SettleRefused \/ RecoverRefused
      BY <1>0, <1>12 DEF SettleBegin, SettleRefused, RecoverRefused, Step
<1>13. ASSUME NEW t \in Task, NEW a \in Attempt, FenceBegin(t, a) PROVE TypeInv'
  <2>1. events' \subseteq Event
        BY <1>13, RecType DEF FenceBegin, Phase
  <2>2. local' \in Local /\ local'.attempt \in Attempt
    <3>1. For(t) \in Local
          BY LocalType
    <3>2. local' = [For(t) EXCEPT !.attempt = a]
          BY <1>13 DEF FenceBegin
    <3> QED BY <3>1, <3>2, LocalAttemptType
  <2>3. FencedQueue(queue, t, a) \in Queue
        BY QueueType
  <2>4. [pre |-> queue[t].status, post |-> FencedQueue(queue, t, a)] \in Prepared
        BY <1>0, <2>3 DEF Prepared
  <2>5. prepared' \in [Task \X Attempt -> Prepared]
        BY <1>13, <2>4 DEF FenceBegin
  <2> QED BY <1>13, <2>1, <2>2, <2>5 DEF FenceBegin, Acquire
<1>14. CASE FenceReplace \/ FenceRecord
  <2>1. CASE FenceReplace
    <3>1. queue' \in Queue
          BY <1>0, <2>1, QueueType DEF FenceReplace
    <3> QED BY <2>1, <3>1 DEF FenceReplace, Step
  <2>2. CASE FenceRecord
    <3>1. events' \subseteq Event
          BY <1>0, <2>2, RecType DEF FenceRecord, Phase
    <3> QED BY <1>0, <2>2, <3>1 DEF FenceRecord, Step
  <2> QED BY <1>14, <2>1, <2>2
<1>15. ASSUME NEW t \in Task, NEW a \in Attempt, RecoverBegin(t, a) PROVE TypeInv'
  <2>1. events' \subseteq Event
        BY <1>15, RecType DEF RecoverBegin, Phase
  <2>2. local' \in Local /\ local'.attempt \in Attempt
    <3>1. For(t) \in Local
          BY LocalType
    <3>2. local' = [For(t) EXCEPT !.attempt = a]
          BY <1>15 DEF RecoverBegin
    <3> QED BY <3>1, <3>2, LocalAttemptType
  <2>3. latest' \in [Task -> Attempt \cup {NoAttempt}] /\ pc' \in {"rec-replace", "rec-record"}
        BY <1>15 DEF RecoverBegin
  <2> QED BY <1>15, <2>1, <2>2, <2>3 DEF RecoverBegin
<1>16. CASE RecoverReplace \/ RecoverRecord
  <2>1. CASE RecoverReplace
    <3>1. prepared[<<local.task, local.attempt>>].pre \in Status
          BY <1>0, <2>1 DEF RecoverReplace, Prepared
    <3>2. queue' \in Queue
          BY <1>0, <2>1, <3>1, QueueType DEF RecoverReplace
    <3> QED BY <2>1, <3>2 DEF RecoverReplace, Step
  <2>2. CASE RecoverRecord
    <3>1. events' \subseteq Event
          BY <1>0, <2>2, RecType DEF RecoverRecord, Phase
    <3> QED BY <1>0, <2>2, <3>1 DEF RecoverRecord, Step
  <2> QED BY <1>16, <2>1, <2>2
<1>17. ASSUME NEW t \in Task, NEW a \in Attempt, AcceptBegin(t, a) PROVE TypeInv'
  <2>1. queue' \in Queue
    <3>1. \/ queue' = queue
          \/ queue' = [queue EXCEPT ![t].fence = a]
          \/ queue' = [queue EXCEPT ![t].status = "completed", ![t].acceptance = a,
                                    ![t].disposition = "accept"]
          BY <1>17 DEF AcceptBegin
    <3>2. [queue EXCEPT ![t].fence = a] \in Queue
          BY QueueType
    <3>3. [queue EXCEPT ![t].status = "completed", ![t].acceptance = a,
                        ![t].disposition = "accept"] \in Queue
          BY QueueType
    <3> QED BY <3>1, <3>2, <3>3 DEF TypeInv, TypeOK
  <2>2. local' \in Local /\ local'.attempt \in Attempt
    <3>1. For(t) \in Local
          BY LocalType
    <3>2. local' = [For(t) EXCEPT !.attempt = a]
          BY <1>17 DEF AcceptBegin
    <3> QED BY <3>1, <3>2, LocalAttemptType
  <2> QED BY <1>17, <2>1, <2>2 DEF AcceptBegin, Acquire
<1>18. ASSUME NEW t \in Task, NEW a \in Attempt, NEW r \in Reason, BlockBegin(t, a, r) PROVE TypeInv'
  <2>1. queue' \in Queue
        BY <1>18, QueueType DEF BlockBegin
  <2>2. local' \in Local /\ local'.attempt \in Attempt
    <3>1. For(t) \in Local
          BY LocalType
    <3>2. local' = [For(t) EXCEPT !.attempt = a, !.reason = r]
          BY <1>18 DEF BlockBegin
    <3>3. /\ [For(t) EXCEPT !.attempt = a, !.reason = r] \in Local
          /\ [For(t) EXCEPT !.attempt = a, !.reason = r].attempt = a
          BY <3>1 DEF Local
    <3> QED BY <3>2, <3>3
  <2> QED BY <1>18, <2>1, <2>2 DEF BlockBegin, Acquire
<1>19. CASE AcceptRecord \/ BlockRecord
      BY <1>0, <1>19, RecType, BlockRecType DEF AcceptRecord, BlockRecord, Step, Phase
<1>20. CASE Release \/ Fail \/ Crash \/ Tear \/ Unlock
  <2>1. tail' \in [Task -> Tail] /\ appended' \in BOOLEAN
        BY <1>20 DEF Release, Fail, Crash, Tear, Unlock, process, Tail
  <2> QED BY <1>20, <2>1, LocalType, LifecycleAssumption
          DEF Release, Fail, Crash, Tear, Unlock, process
<1>21. CASE UNCHANGED vars
      BY <1>21 DEF vars, process
<1> QED BY <1>1, <1>2, <1>3, <1>4, <1>5, <1>6, <1>7, <1>8, <1>9, <1>10, <1>11, <1>12, <1>13,
           <1>14, <1>15, <1>16, <1>17, <1>18, <1>19, <1>20, <1>21 DEF Next, Command, Proceed, Reason

\* The queue, the journals, the lock and the running command are always well
\* typed: in particular every versioned record names a task and an attempt in
\* bounds, and a run never exceeds its repair rounds.
THEOREM TypeCorrect == Spec => []TypeOK
<1>1. TypeInv => TypeOK
      BY DEF TypeInv
<1> QED BY TypeInit, TypeNext, <1>1, PTL DEF Spec

---------------------------------------------------------------------------
(* Dependencies first, and completion for good *)

\* The statuses a task takes only on a completed dependency chain.
Advanced == {"in-progress", "awaiting-decision", "completed"}

\* DependenciesFirst is not inductive: a command checks its transition when it
\* starts and replaces the queue one or more durable steps later.  What it
\* checked still holds when it writes.
PendingWrite ==
    /\ pc = "t-replace" =>
        /\ queue[local.task].status # "completed"
        /\ local.target \in Advanced => ChainCompleted(local.task)
    /\ pc = "f-replace" =>
        /\ queue[local.task].status # "completed"
        /\ ChainCompleted(local.task)
    /\ pc = "rec-replace" =>
        /\ queue[local.task].status = "in-progress"
        /\ prepared[<<local.task, local.attempt>>].pre \in {"pending", "in-progress"}

DepInv == TypeInv /\ DependenciesFirst /\ PendingWrite

\* One entry of the queue is rewritten, not a completed one, and to an
\* advanced status only on a completed chain.
GuardedRewrite ==
    \E t \in Task :
        /\ queue[t].status # "completed"
        /\ \A u \in Task \ {t} : queue'[u] = queue[u]
        /\ queue'[t].status \in Advanced => ChainCompleted(t)

\* validate_transition establishes what PendingWrite keeps.
LEMMA ValidTransitionGuards ==
    ASSUME DependenciesFirst, NEW t \in Task, NEW target, NEW r, ValidTransition(t, target, r)
    PROVE  /\ queue[t].status # "completed"
           /\ target \in Advanced => ChainCompleted(t)
<1>1. <<queue[t].status, target>> \in CanTransition /\ (target = "in-progress" => ChainCompleted(t))
      BY DEF ValidTransition
<1>2. queue[t].status # "completed"
      BY <1>1 DEF CanTransition
<1>3. target \in {"awaiting-decision", "completed"} => queue[t].status = "in-progress"
      BY <1>1 DEF CanTransition
<1> QED BY <1>1, <1>2, <1>3 DEF DependenciesFirst, Advanced

\* A queue with one entry replaced keeps the others.
LEMMA OthersKept ==
    ASSUME NEW q \in Queue, NEW t \in Task
    PROVE  \A x : /\ \A u \in Task \ {t} : [q EXCEPT ![t] = x][u] = q[u]
                  /\ [q EXCEPT ![t] = x][t] = x
BY DEF Queue

\* No step touches the queue but by a guarded rewriting.
LEMMA QueueWrites == DepInv /\ [Next]_vars => UNCHANGED queue \/ GuardedRewrite
<1> SUFFICES ASSUME DepInv, [Next]_vars PROVE UNCHANGED queue \/ GuardedRewrite
    OBVIOUS
<1>0. queue \in Queue /\ local.task \in Task /\ (\A t \in Task : queue[t] \in TaskRecord)
      BY DEF DepInv, TypeInv, TypeOK, Local, Queue
<1>1. CASE TransitionReplace
  <2>1. /\ queue[local.task].status # "completed"
        /\ local.target \in Advanced => ChainCompleted(local.task)
        BY <1>1 DEF TransitionReplace, DepInv, PendingWrite
  <2>2. queue' = [queue EXCEPT ![local.task] =
                    [queue[local.task] EXCEPT !.status = local.target, !.reason = local.reason]]
        BY <1>1, <1>0 DEF TransitionReplace
  <2>3. [queue[local.task] EXCEPT !.status = local.target, !.reason = local.reason].status = local.target
        BY <1>0 DEF TaskRecord
  <2>4. queue'[local.task].status = local.target /\ \A u \in Task \ {local.task} : queue'[u] = queue[u]
        BY <1>0, <2>2, <2>3, OthersKept
  <2> QED BY <1>0, <2>1, <2>4 DEF GuardedRewrite
<1>2. CASE FenceReplace
  <2>1. queue[local.task].status # "completed" /\ ChainCompleted(local.task)
        BY <1>2 DEF FenceReplace, DepInv, PendingWrite
  <2>2. queue' = [queue EXCEPT ![local.task] =
                    [queue[local.task] EXCEPT !.status = "in-progress", !.fence = local.attempt]]
        BY <1>2, <1>0 DEF FenceReplace, FencedQueue
  <2>3. \A u \in Task \ {local.task} : queue'[u] = queue[u]
        BY <1>0, <2>2, OthersKept
  <2> QED BY <1>0, <2>1, <2>3 DEF GuardedRewrite
<1>3. CASE RecoverReplace
  <2>1. queue[local.task].status = "in-progress"
        BY <1>3 DEF RecoverReplace, DepInv, PendingWrite
  <2>2. ChainCompleted(local.task)
        BY <1>0, <2>1 DEF DepInv, DependenciesFirst
  <2>3. queue' = [queue EXCEPT ![local.task] =
                    [queue[local.task] EXCEPT !.status = prepared[<<local.task, local.attempt>>].pre,
                                              !.fence = NoAttempt]]
        BY <1>3, <1>0 DEF RecoverReplace, RecoveredQueue
  <2>4. \A u \in Task \ {local.task} : queue'[u] = queue[u]
        BY <1>0, <2>3, OthersKept
  <2> QED BY <1>0, <2>1, <2>2, <2>4 DEF GuardedRewrite
<1>4. ASSUME NEW t \in Task, NEW a \in Attempt, AcceptBegin(t, a)
      PROVE  UNCHANGED queue \/ GuardedRewrite
  <2>1. CASE AlreadyAccepted(t, a)
        BY <1>4, <2>1 DEF AcceptBegin
  <2>2. CASE ~AlreadyAccepted(t, a)
    <3>1. ValidTransition(t, "completed", "none")
          BY <1>4, <2>2 DEF AcceptBegin, AcceptGuard
    <3>2. queue[t].status # "completed" /\ ChainCompleted(t)
          BY <3>1, ValidTransitionGuards DEF DepInv, Advanced
    <3>3. \/ queue' = [queue EXCEPT ![t] = [queue[t] EXCEPT !.fence = a]]
          \/ queue' = [queue EXCEPT ![t] = [queue[t] EXCEPT !.status = "completed", !.acceptance = a,
                                                            !.disposition = "accept"]]
          BY <1>4, <2>2, <1>0 DEF AcceptBegin
    <3>4. \A u \in Task \ {t} : queue'[u] = queue[u]
          BY <1>0, <3>3, OthersKept
    <3> QED BY <3>2, <3>4 DEF GuardedRewrite
  <2> QED BY <2>1, <2>2
<1>5. ASSUME NEW t \in Task, NEW a \in Attempt, NEW r \in HumanReason, BlockBegin(t, a, r)
      PROVE  GuardedRewrite
  <2>1. queue[t].status # "completed"
    <3>1. CASE AlreadyBlocked(t, r)
          BY <3>1 DEF AlreadyBlocked
    <3>2. CASE ValidTransition(t, "blocked", r)
          BY <3>2, ValidTransitionGuards DEF DepInv
    <3> QED BY <1>5, <3>1, <3>2 DEF BlockBegin, BlockGuard
  <2>2. queue' = [queue EXCEPT ![t] = [queue[t] EXCEPT !.status = "blocked", !.reason = r,
                                                       !.disposition = "block"]]
        BY <1>5, <1>0 DEF BlockBegin
  <2>3. [queue[t] EXCEPT !.status = "blocked", !.reason = r, !.disposition = "block"].status = "blocked"
        BY <1>0 DEF TaskRecord
  <2>4. queue'[t].status = "blocked" /\ \A u \in Task \ {t} : queue'[u] = queue[u]
        BY <1>0, <2>2, <2>3, OthersKept
  <2> QED BY <2>1, <2>4 DEF GuardedRewrite, Advanced
<1>6. ASSUME NEW t \in Task, NEW a \in Attempt, FenceBegin(t, a) \/ RecoverBegin(t, a)
      PROVE  UNCHANGED queue
      BY <1>6 DEF FenceBegin, RecoverBegin
<1>7. ASSUME NEW t \in Task, NEW target, NEW r, TransitionBegin(t, target, r) PROVE UNCHANGED queue
      BY <1>7 DEF TransitionBegin
<1>8. ASSUME NEW t \in Task, NEW mode, RunBegin(t, mode) PROVE UNCHANGED queue
      BY <1>8 DEF RunBegin
<1>9. ASSUME NEW outcome, RecordExecution(outcome) \/ RepairVerification(outcome) PROVE UNCHANGED queue
      BY <1>9 DEF RecordExecution, RepairVerification
<1>10. CASE \/ TransitionCommit \/ RunPrepare \/ Launch \/ Verified \/ VerificationBlocks
            \/ FinishEvidence \/ FinishInterrupted \/ FinishDone \/ SettleBegin \/ SettleRefused
            \/ FenceRecord \/ RecoverRefused \/ RecoverRecord \/ AcceptRecord \/ BlockRecord \/ Release
      BY <1>10 DEF TransitionCommit, RunPrepare, Launch, Verified, VerificationBlocks, FinishEvidence,
            AppendFinished, FinishInterrupted, FinishDone, SettleBegin, SettleRefused, FenceRecord,
            RecoverRefused, RecoverRecord,
            AcceptRecord, BlockRecord, Release, stored
<1>11. CASE Unlock \/ Fail \/ Crash \/ Tear \/ UNCHANGED vars
      BY <1>11 DEF Unlock, Fail, Crash, Tear, vars, stored
<1> QED BY <1>1, <1>2, <1>3, <1>4, <1>5, <1>6, <1>7, <1>8, <1>9, <1>10, <1>11
        DEF Next, Command, Proceed

\* A guarded rewriting keeps every advanced task on a completed chain: no
\* member of a completed chain is the task rewritten.
LEMMA RewriteKeepsOrder == DependenciesFirst /\ GuardedRewrite => DependenciesFirst'
<1> SUFFICES ASSUME DependenciesFirst, NEW t \in Task,
                    queue[t].status # "completed",
                    \A u \in Task \ {t} : queue'[u] = queue[u],
                    queue'[t].status \in Advanced => ChainCompleted(t),
                    NEW u \in Task, queue'[u].status \in Advanced
             PROVE  ChainCompleted(u)'
    BY DEF GuardedRewrite, DependenciesFirst, Advanced
<1>1. ChainCompleted(u)
  <2>1. CASE u = t
        BY <2>1
  <2>2. CASE u # t
        BY <2>2 DEF DependenciesFirst, Advanced
  <2> QED BY <2>1, <2>2
<1>2. DependencyChain(u) \subseteq Task
      BY DEF DependencyChain
<1> QED BY <1>1, <1>2 DEF ChainCompleted

\* What a command checked before it prepared a write still holds at the write:
\* nobody else rewrites the queue, and the holder writes once per check.
LEMMA PendingNext == DepInv /\ [Next]_vars => PendingWrite'
<1> SUFFICES ASSUME DepInv, [Next]_vars PROVE PendingWrite'
    OBVIOUS
<1> DEFINE Writing == {"t-replace", "f-replace", "rec-replace"}
<1>a. ASSUME pc' \notin Writing PROVE PendingWrite'
      BY <1>a DEF PendingWrite
<1>b. local \in Local /\ \A t \in Task : For(t) \in Local
      BY LocalType DEF DepInv, TypeInv, TypeOK
<1>1. ASSUME NEW t \in Task, NEW target \in Status, NEW r, ValidTransition(t, target, r),
             UNCHANGED queue, pc' = "t-replace", local'.task = t, local'.target = target
      PROVE  PendingWrite'
  <2>1. queue[t].status # "completed" /\ (target \in Advanced => ChainCompleted(t))
        BY <1>1, ValidTransitionGuards DEF DepInv
  <2>2. ChainCompleted(t) => ChainCompleted(local.task)'
        BY <1>1 DEF ChainCompleted
  <2> QED BY <1>1, <2>1, <2>2 DEF PendingWrite
<1>2. ASSUME NEW t \in Task, NEW target \in Status, NEW r, TransitionBegin(t, target, r)
      PROVE  PendingWrite'
  <2>1. local'.task = t /\ local'.target = target
        BY <1>2, <1>b DEF TransitionBegin, For, NoLocal
  <2> QED BY <1>1, <1>2, <2>1 DEF TransitionBegin
<1>3. ASSUME NEW t \in Task, NEW mode, RunBegin(t, mode) PROVE PendingWrite'
  <2>1. local'.task = t /\ local'.target = "in-progress"
        BY <1>3, <1>b DEF RunBegin, For, NoLocal
  <2>2. CASE pc' = "prepare"
        BY <2>2, <1>a
  <2>3. CASE ValidTransition(t, "in-progress", "none") /\ pc' = "t-replace"
        BY <1>1, <1>3, <2>1, <2>3 DEF RunBegin, Status
  <2> QED BY <1>3, <2>2, <2>3 DEF RunBegin
<1>4. CASE SettleBegin
  <2>1. local.task \in Task /\ local.target \in Status
        BY <1>b DEF Local
  <2> QED BY <1>1, <1>4, <2>1 DEF SettleBegin, CanSettle, Step
<1>5. ASSUME NEW t \in Task, NEW a \in Attempt, FenceBegin(t, a) PROVE PendingWrite'
  <2>1. local'.task = t
        BY <1>5, <1>b DEF FenceBegin, For, NoLocal
  <2>2. queue[t].status # "completed" /\ ChainCompleted(t)
        BY <1>5 DEF FenceBegin, CanFencePreSpawn, TaskIsReady, DepInv, DependenciesFirst
  <2>3. ChainCompleted(t) => ChainCompleted(local.task)'
        BY <1>5, <2>1 DEF FenceBegin, ChainCompleted
  <2> QED BY <1>5, <2>1, <2>2, <2>3 DEF FenceBegin, PendingWrite
<1>6. ASSUME NEW t \in Task, NEW a \in Attempt, RecoverBegin(t, a) PROVE PendingWrite'
  <2>1. local'.task = t /\ local'.attempt = a
        BY <1>6, <1>b DEF RecoverBegin, For, NoLocal
  <2>2. CASE pc' = "rec-record"
        BY <2>2, <1>a
  <2>3. CASE Fenced(t, a) /\ pc' = "rec-replace"
    <3>1. a # NoAttempt
          BY LifecycleAssumption DEF Attempt, NoAttempt
    <3>2. queue[t].status = "in-progress"
          BY <1>6, <2>3, <3>1 DEF RecoverBegin, RecoveryCandidate, Fenced
    <3> QED BY <1>6, <2>1, <2>3, <3>2 DEF RecoverBegin, PendingWrite
  <2> QED BY <1>6, <2>2, <2>3 DEF RecoverBegin
<1>7. ASSUME NEW t \in Task, NEW a \in Attempt, NEW r, AcceptBegin(t, a) \/ BlockBegin(t, a, r)
      PROVE  PendingWrite'
      BY <1>7, <1>a DEF AcceptBegin, BlockBegin
<1>8. CASE TransitionCommit
  <2>1. local.then \in {"release", "prepare"}
        BY <1>b DEF Local
  <2> QED BY <1>8, <1>a, <2>1 DEF TransitionCommit, Step
<1>9. ASSUME NEW outcome \in Outcome, RecordExecution(outcome) \/ RepairVerification(outcome)
      PROVE  PendingWrite'
      BY <1>9, <1>a DEF RecordExecution, RepairVerification, Settle, Step, Outcome
<1>10. CASE \/ TransitionReplace \/ FenceReplace \/ RecoverReplace \/ Launch \/ Verified
            \/ VerificationBlocks \/ FinishInterrupted \/ FinishDone \/ SettleRefused
            \/ FenceRecord \/ RecoverRefused \/ RecoverRecord \/ AcceptRecord \/ BlockRecord
      BY <1>10, <1>a DEF TransitionReplace, FenceReplace, RecoverReplace, Launch, Verified,
            VerificationBlocks, FinishInterrupted, FinishDone, SettleRefused,
            FenceRecord, RecoverRefused, RecoverRecord, AcceptRecord, BlockRecord, Settle, Step
<1>11. CASE RunPrepare \/ FinishEvidence \/ Release \/ Fail \/ Crash \/ Tear
      BY <1>11, <1>a DEF RunPrepare, FinishEvidence, AppendFinished, Step, Release, Fail, Crash, Tear
<1>12. CASE Unlock \/ UNCHANGED vars
      BY <1>12 DEF DepInv, PendingWrite, ChainCompleted, Unlock, vars, stored, process
<1> QED BY <1>2, <1>3, <1>4, <1>5, <1>6, <1>7, <1>8, <1>9, <1>10, <1>11, <1>12, LifecycleAssumption
        DEF Next, Command, Proceed

\* It holds at first ...
LEMMA DepInit == Init => DepInv
<1>1. Init => DependenciesFirst /\ PendingWrite
      BY DEF Init, DependenciesFirst, PendingWrite
<1> QED BY <1>1, TypeInit DEF DepInv

\* ... and every step keeps it.
LEMMA DepNext == DepInv /\ [Next]_vars => DepInv'
<1> SUFFICES ASSUME DepInv, [Next]_vars PROVE DepInv'
    OBVIOUS
<1>1. TypeInv'
      BY TypeNext DEF DepInv
<1>2. DependenciesFirst'
  <2>1. CASE UNCHANGED queue
        BY <2>1 DEF DepInv, DependenciesFirst, ChainCompleted
  <2>2. CASE GuardedRewrite
        BY <2>2, RewriteKeepsOrder DEF DepInv
  <2> QED BY <2>1, <2>2, QueueWrites
<1> QED BY <1>1, <1>2, PendingNext DEF DepInv

\* The strengthened invariant is inductive.
LEMMA DepInductive == Spec => []DepInv
BY DepInit, DepNext, PTL DEF Spec

\* Dependencies first, for every dependency relation: no sequence of commands,
\* crashes and failed writes advances a task whose dependency chain is not
\* completed, through transitions, runs, fences, recoveries or acceptances.
THEOREM DependencyOrder == Spec => []DependenciesFirst
<1>1. DepInv => DependenciesFirst
      BY DEF DepInv
<1> QED BY <1>1, DepInductive, PTL

\* Completion is final: no command, crash or recovery takes a completed task
\* back or rebinds the attempt it was accepted for.
THEOREM CompletionFinal == Spec => CompletedIsFinal
<1> DEFINE Final == \A t \in Task : queue[t].status = "completed" =>
                        /\ queue'[t].status = "completed"
                        /\ queue'[t].acceptance = queue[t].acceptance
<1>1. DepInv /\ [Next]_vars => [Final]_vars
  <2> SUFFICES ASSUME DepInv, [Next]_vars PROVE Final
      OBVIOUS
  <2>1. CASE UNCHANGED queue
        BY <2>1
  <2>2. CASE GuardedRewrite
        BY <2>2 DEF GuardedRewrite
  <2> QED BY <2>1, <2>2, QueueWrites
<1> QED BY <1>1, DepInductive, PTL DEF Spec, CompletedIsFinal
==============================================================================
