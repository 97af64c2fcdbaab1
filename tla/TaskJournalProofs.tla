-------------------------- MODULE TaskJournalProofs --------------------------
(***************************************************************************)
(* Proofs about the attempt journals of TaskLifecycle, for any number of   *)
(* tasks, attempts and faults, torn lines and passed limits included: what *)
(* can be read of a journal is consistent, no agent is started over an     *)
(* attempt whose end is unknown, a failure before the launch stays         *)
(* recoverable and is never one of a started agent, a run can store what   *)
(* it concluded, and an interrupted acceptance can be repeated.  The       *)
(* recovery and the settlement are promised as long as the journals can be *)
(* read: the invariant speaks of the records, the gates of the files too.  *)
(***************************************************************************)
EXTENDS TaskLifecycleProofs

---------------------------------------------------------------------------
(* The inductive invariant *)

\* The journal alone says what became of the attempt, whatever the queue says.
Closed(t, a) == LifecycleAdvanced(t, a) \/ Has(t, a, "disposed") \/ NoLaunchChain(t, a)

\* A recorded failure before the launch that still has to be recovered.
NotStarted(t, a) == Has(t, a, "pre-spawn-failure") /\ ~Has(t, a, "recovered")

\* Each record follows those it must follow; attempts are taken in order, and
\* only the latest one may be open.
Journal(t, a) ==
    /\ a \in Used(t) => Has(t, a, "prepared") /\ (Closed(t, a) \/ latest[t] = a)
    /\ Has(t, a, "prepared") =>
          prepared[<<t, a>>].pre \in {"pending", "in-progress", "awaiting-decision"}
    /\ <<t, a>> \in launched => Has(t, a, "prepared")
    /\ Has(t, a, "pre-spawn-failure") =>
          /\ ~Observed(t, a) /\ <<t, a>> \notin launched
          /\ prepared[<<t, a>>].pre \in {"pending", "in-progress"}
          /\ prepared[<<t, a>>].post \in Queue
    /\ Has(t, a, "disposed") => Observed(t, a)
    /\ Has(t, a, "recovery-prepared") => Has(t, a, "pre-spawn-failure")
    /\ Has(t, a, "recovered") => Has(t, a, "recovery-prepared") /\ queue[t].fence # a
    /\ ~(Has(t, a, "accepted") /\ HumanBlocked(t, a))

Journals == \A t \in Task, a \in Attempt : Journal(t, a)

\* An acceptance is bound to the latest attempt of a completed task.
Acceptances ==
    \A t \in Task, a \in Attempt :
        queue[t].acceptance = a =>
            /\ AlreadyAccepted(t, a)
            /\ latest[t] = a /\ queue[t].fence = NoAttempt
            /\ ~HumanBlocked(t, a) /\ ~Has(t, a, "recovery-prepared")

\* What the gates of the commands check of the records, whether or not the
\* journal files can be read.
Admissible(t) ==
    \A a \in Used(t) :
        Has(t, a, "prepared") =>
            prepared[<<t, a>>].pre \in {"pending", "in-progress", "awaiting-decision"}

AttemptsResolved(t, permitted) ==
    /\ t \notin trailing
    /\ Admissible(t)
    /\ \A a \in Used(t) \ {permitted} : FullyRecovered(t, a, queue[t].status)

OthersResolved(t0) ==
    \A t \in Task \ {t0} : queue[t].fence = NoAttempt /\ AttemptsResolved(t, NoAttempt)

ResolvedExcept(t0, a0) ==
    \A t \in Task :
        LET permitted == IF t = t0 THEN a0 ELSE NoAttempt
        IN  /\ queue[t].fence \in {NoAttempt, permitted}
            /\ AttemptsResolved(t, permitted)

\* task recover would find everything as it must be.
CanRecover(t, a) ==
    /\ RecoveryCandidate(t, a)
    /\ ResolvedExcept(t, a)
    /\ Fenced(t, a) \/ (Has(t, a, "recovery-prepared") /\ Unfenced(t, a))

\* Nothing but its own recovery runs while a failure has to be recovered.
Failures ==
    \A t \in Task, a \in Attempt :
        NotStarted(t, a) =>
            /\ pc \in {"idle", "release", "rec-replace", "rec-record"}
            /\ CanRecover(t, a)

\* The attempts of t other than a.
OthersClosed(t, a) == \A b \in Used(t) \ {a} : Closed(t, b)

InProgress(t) ==
    queue[t].status = "in-progress" /\ queue[t].fence = NoAttempt /\ t \notin trailing

\* From the launch to the transition that settles the task.
Running == {"launch", "record", "verify", "finish-execution", "finish-verification",
            "finish-pending", "finish-done", "settle"}

\* The command that holds the lock, for its task t and its attempt a.
Transitioning(t) ==
    /\ pc \in {"t-replace", "t-commit"} /\ local.then = "prepare" =>
          /\ local.target = "in-progress" /\ local.pre \in {"pending", "awaiting-decision"}
          /\ queue[t].fence = NoAttempt
          /\ \A b \in Used(t) : Closed(t, b) \/ (Observed(t, b) /\ local.pre \in Settled)
          /\ pc = "t-commit" => queue[t].status = "in-progress"
    /\ pc = "prepare" =>
          /\ InProgress(t) /\ OthersClosed(t, NoAttempt)
          /\ local.pre \in {"pending", "in-progress", "awaiting-decision"}

InRun(t, a) ==
    /\ pc \in Running =>
          /\ InProgress(t) /\ OthersClosed(t, a) /\ ~Has(t, a, "pre-spawn-failure")
    /\ pc = "settle" =>
          /\ local.target \in {"blocked", "completed", "awaiting-decision"}
          /\ local.reason = (IF local.target = "completed" THEN "none" ELSE "run")
          /\ local.then = "release"

InFence(t, a) ==
    /\ pc \in {"f-replace", "f-record"} =>
          /\ t \notin trailing /\ OthersClosed(t, a) /\ <<t, a>> \notin launched
          /\ ~Observed(t, a) /\ ~LifecycleAdvanced(t, a) /\ ~Has(t, a, "pre-spawn-failure")
          /\ prepared[<<t, a>>].pre \in {"pending", "in-progress"}
          /\ prepared[<<t, a>>].post \in Queue
    /\ pc = "f-replace" => prepared[<<t, a>>].post = FencedQueue(queue, t, a)
    /\ pc = "f-record" =>
          /\ queue = prepared[<<t, a>>].post
          /\ queue[t].status = "in-progress" /\ queue[t].fence = a

InRecovery(t, a) ==
    /\ pc \in {"rec-replace", "rec-record"} =>
          NotStarted(t, a) /\ Has(t, a, "recovery-prepared")
    /\ pc = "rec-replace" => Fenced(t, a)
    /\ pc = "rec-record" => Unfenced(t, a)

InFinalization(t, a) ==
    /\ pc = "a-record" => queue[t].status = "completed" /\ ~HumanBlocked(t, a)
    /\ pc = "b-record" => queue[t].status = "blocked" /\ ~Has(t, a, "accepted")

HolderOf(t, a) ==
    /\ pc # "idle" => OthersResolved(t)
    /\ pc \in InAttempt \cup {"settle"} =>
          a \in Attempt /\ Has(t, a, "prepared") /\ latest[t] = a
    /\ Transitioning(t) /\ InRun(t, a) /\ InFence(t, a) /\ InRecovery(t, a)
    /\ InFinalization(t, a)

Holder == HolderOf(local.task, local.attempt)

JInv == DepInv /\ Journals /\ Acceptances /\ Failures /\ Holder

---------------------------------------------------------------------------
(* The gates: the records, and journals that can be read *)

LEMMA GateResolves ==
    /\ \A t, p : AttemptsRecovered(t, p) <=> Readable(t) /\ AttemptsResolved(t, p)
    /\ ComponentRecovered =>
          \A t \in Task : queue[t].fence = NoAttempt /\ AttemptsResolved(t, NoAttempt)
    /\ \A t : OthersRecovered(t) => OthersResolved(t)
    /\ \A t \in Task : \A a : ComponentRecoveredExcept(t, a) => ResolvedExcept(t, a)
    /\ \A t \in Task : \A a : ResolvedExcept(t, a) /\ AllReadable => ComponentRecoveredExcept(t, a)
  <1>1. \A t, p : AttemptsRecovered(t, p) <=> Readable(t) /\ AttemptsResolved(t, p)
        BY DEF AttemptsRecovered, AttemptsResolved, Assessable, Admissible
  <1>2. ComponentRecovered =>
          \A t \in Task : queue[t].fence = NoAttempt /\ AttemptsResolved(t, NoAttempt)
        BY <1>1 DEF ComponentRecovered
  <1>3. \A t : OthersRecovered(t) => OthersResolved(t)
        BY <1>1 DEF OthersRecovered, OthersResolved
  <1>4. \A t \in Task : \A a : ComponentRecoveredExcept(t, a) => ResolvedExcept(t, a)
        BY <1>1 DEF ComponentRecoveredExcept, ResolvedExcept
  <1>5. \A t \in Task : \A a : ResolvedExcept(t, a) /\ AllReadable => ComponentRecoveredExcept(t, a)
        BY <1>1 DEF ComponentRecoveredExcept, ResolvedExcept, AllReadable
  <1> QED BY <1>1, <1>2, <1>3, <1>4, <1>5

---------------------------------------------------------------------------
(* Records *)

LEMMA NoAttemptIsNone == NoAttempt \notin Attempt
  BY LifecycleAssumption DEF NoAttempt, Attempt

\* What one more record changes.
LEMMA AddRec ==
    ASSUME NEW t \in Task, NEW a \in Attempt, NEW p \in Phase \ {"blocked"},
           events' = events \cup {Rec(t, a, p)}
    PROVE  /\ \A u, b, q : Has(u, b, q)' <=> Has(u, b, q) \/ (u = t /\ b = a /\ q = p)
           /\ \A u, b : HumanBlocked(u, b)' <=> HumanBlocked(u, b)
           /\ \A u : Used(u)' = Used(u) \cup (IF u = t THEN {a} ELSE {})
  <1>1. \A u, b, q : (Rec(u, b, q) = Rec(t, a, p)) <=> (u = t /\ b = a /\ q = p)
        BY DEF Rec
  <1>2. \A u, b, r : BlockRec(u, b, r) # Rec(t, a, p)
        BY DEF Rec, BlockRec
  <1>3. Rec(t, a, p).task = t /\ Rec(t, a, p).attempt = a
        BY DEF Rec
  <1>4. \A u, b, q : Has(u, b, q)' <=> Has(u, b, q) \/ (u = t /\ b = a /\ q = p)
        BY <1>1 DEF Has
  <1>5. \A u, b : HumanBlocked(u, b)' <=> HumanBlocked(u, b)
        BY <1>2 DEF HumanBlocked
  <1>6. \A u : Used(u)' = Used(u) \cup (IF u = t THEN {a} ELSE {})
        BY <1>3 DEF Used
  <1> QED BY <1>4, <1>5, <1>6

LEMMA AddBlockRec ==
    ASSUME NEW t \in Task, NEW a \in Attempt, NEW r \in Reason,
           events' = events \cup {BlockRec(t, a, r)}
    PROVE  /\ \A u, b : \A q \in Phase \ {"blocked"} : Has(u, b, q)' <=> Has(u, b, q)
           /\ \A u, b : HumanBlocked(u, b)' <=> HumanBlocked(u, b) \/ (u = t /\ b = a)
           /\ \A u : Used(u)' = Used(u) \cup (IF u = t THEN {a} ELSE {})
  <1>1. /\ BlockRec(t, a, r).task = t /\ BlockRec(t, a, r).attempt = a
        /\ BlockRec(t, a, r).phase = "blocked" /\ BlockRec(t, a, r).reason = r
        BY DEF Rec, BlockRec
  <1>2. \A u, b, s : /\ BlockRec(u, b, s).task = u /\ BlockRec(u, b, s).attempt = b
                     /\ Rec(u, b, s).phase = s
        BY DEF Rec, BlockRec
  <1>3. \A u, b : \A q \in Phase \ {"blocked"} : Rec(u, b, q) # BlockRec(t, a, r)
        BY <1>1, <1>2
  <1>4. \A u, b : \A q \in Phase \ {"blocked"} : Has(u, b, q)' <=> Has(u, b, q)
        BY <1>3 DEF Has
  <1>5. \A u, b : HumanBlocked(u, b)' <=> HumanBlocked(u, b) \/ (u = t /\ b = a)
        BY <1>1, <1>2 DEF HumanBlocked
  <1>6. \A u : Used(u)' = Used(u) \cup (IF u = t THEN {a} ELSE {})
        BY <1>1 DEF Used
  <1> QED BY <1>4, <1>5, <1>6

\* The mark of a committed transition.
LEMMA AddDisposed ==
    ASSUME NEW t \in Task, NEW from, NEW to, events' = events \cup DisposedBy(t, from, to)
    PROVE  /\ \A u, b, q : Has(u, b, q)' <=>
                 \/ Has(u, b, q)
                 \/ /\ u = t /\ b \in Attempt /\ b = latest[t] /\ q = "disposed"
                    /\ Observed(t, b) /\ {from, to} \cap Settled # {}
           /\ \A u, b : HumanBlocked(u, b)' <=> HumanBlocked(u, b)
           /\ \A u : Used(u)' = Used(u)
  <1>1. \A u, b, q : Rec(u, b, q) \in DisposedBy(t, from, to) <=>
                 /\ u = t /\ b \in Attempt /\ b = latest[t] /\ q = "disposed"
                 /\ Observed(t, b) /\ {from, to} \cap Settled # {}
    <2>1. \A u, b, q, c : (Rec(u, b, q) = Rec(t, c, "disposed")) <=>
                              (u = t /\ b = c /\ q = "disposed")
          BY DEF Rec
    <2> QED BY <2>1 DEF DisposedBy
  <1>2. \A u, b, r : BlockRec(u, b, r) \notin DisposedBy(t, from, to)
    <2>1. \A u, b, r, c : BlockRec(u, b, r) # Rec(t, c, "disposed")
          BY DEF Rec, BlockRec
    <2> QED BY <2>1 DEF DisposedBy
  <1>3. \A e \in DisposedBy(t, from, to) :
           e.task = t /\ e.attempt \in Attempt /\ Observed(t, e.attempt)
    <2>1. \A c : Rec(t, c, "disposed").task = t /\ Rec(t, c, "disposed").attempt = c
          BY DEF Rec
    <2> QED BY <2>1 DEF DisposedBy
  <1>4. \A b \in Attempt : Observed(t, b) => b \in Used(t)
    <2>1. \A b, p : Rec(t, b, p).task = t /\ Rec(t, b, p).attempt = b
          BY DEF Rec
    <2> QED BY <2>1 DEF Observed, Has, Used
  <1>5. \A u, b, q : Has(u, b, q)' <=>
                 \/ Has(u, b, q)
                 \/ /\ u = t /\ b \in Attempt /\ b = latest[t] /\ q = "disposed"
                    /\ Observed(t, b) /\ {from, to} \cap Settled # {}
        BY <1>1 DEF Has
  <1>6. \A u, b : HumanBlocked(u, b)' <=> HumanBlocked(u, b)
        BY <1>2 DEF HumanBlocked
  <1>7. \A u : Used(u)' = Used(u)
        BY <1>3, <1>4 DEF Used
  <1> QED BY <1>5, <1>6, <1>7

\* A record is one of a used attempt.
LEMMA HasUsed ==
    /\ \A t, p : \A a \in Attempt : Has(t, a, p) => a \in Used(t)
    /\ \A t : \A a \in Attempt : HumanBlocked(t, a) => a \in Used(t)
  <1>1. \A t, a, p : Rec(t, a, p).task = t /\ Rec(t, a, p).attempt = a
        BY DEF Rec
  <1>2. \A t, a, r : BlockRec(t, a, r).task = t /\ BlockRec(t, a, r).attempt = a
        BY DEF Rec, BlockRec
  <1> QED BY <1>1, <1>2 DEF Has, HumanBlocked, Used

---------------------------------------------------------------------------
(* What a step leaves of the journals *)

\* The records of an attempt, as the definitions above see them.
SameRecords(t, a) ==
    /\ \A q \in Phase \ {"blocked"} : Has(t, a, q)' <=> Has(t, a, q)
    /\ HumanBlocked(t, a)' <=> HumanBlocked(t, a)

LEMMA SameAttempt ==
    ASSUME NEW t, NEW a, SameRecords(t, a)
    PROVE  /\ Observed(t, a)' <=> Observed(t, a)
           /\ LifecycleAdvanced(t, a)' <=> LifecycleAdvanced(t, a)
           /\ NoLaunchChain(t, a)' <=> NoLaunchChain(t, a)
           /\ Closed(t, a)' <=> Closed(t, a)
           /\ NotStarted(t, a)' <=> NotStarted(t, a)
           /\ \A s : FullyRecovered(t, a, s)' <=> FullyRecovered(t, a, s)
  <1>1. /\ Observed(t, a)' <=> Observed(t, a)
        /\ LifecycleAdvanced(t, a)' <=> LifecycleAdvanced(t, a)
        /\ NoLaunchChain(t, a)' <=> NoLaunchChain(t, a)
        /\ Has(t, a, "disposed")' <=> Has(t, a, "disposed")
        /\ NotStarted(t, a)' <=> NotStarted(t, a)
        BY DEF SameRecords, Observed, LifecycleAdvanced, NoLaunchChain, NotStarted, Phase
  <1> QED BY <1>1 DEF Closed, FullyRecovered

\* Records are only added.
LEMMA ClosedStays ==
    ASSUME events \subseteq events'
    PROVE  /\ \A t, a, p : Has(t, a, p) => Has(t, a, p)'
           /\ \A t, a : Closed(t, a) => Closed(t, a)'
  <1>1. \A t, a, p : Has(t, a, p) => Has(t, a, p)'
        BY DEF Has
  <1>2. \A t, a : HumanBlocked(t, a) => HumanBlocked(t, a)'
        BY DEF HumanBlocked
  <1> QED BY <1>1, <1>2 DEF Closed, LifecycleAdvanced, NoLaunchChain

\* What a step of a command on t leaves alone.
Elsewhere(t) ==
    \A u \in Task \ {t} :
        /\ queue'[u] = queue[u] /\ (u \in trailing' <=> u \in trailing)
        /\ Used(u)' = Used(u)
        /\ \A b \in Attempt : prepared'[<<u, b>>] = prepared[<<u, b>>] /\ SameRecords(u, b)

LEMMA OthersStay ==
    ASSUME NEW t \in Task, OthersResolved(t), Elsewhere(t)
    PROVE  OthersResolved(t)'
  <1> SUFFICES ASSUME NEW u \in Task \ {t}
               PROVE  /\ queue'[u].fence = NoAttempt
                      /\ u \notin trailing'
                      /\ \A b \in Used(u)' :
                            /\ Has(u, b, "prepared")' => prepared'[<<u, b>>].pre \in
                                  {"pending", "in-progress", "awaiting-decision"}
                            /\ b # NoAttempt => FullyRecovered(u, b, queue[u].status)'
      BY DEF OthersResolved, AttemptsResolved, Admissible
  <1>1. queue'[u] = queue[u] /\ (u \in trailing' <=> u \in trailing) /\ Used(u)' = Used(u)
        BY DEF Elsewhere
  <1>2. queue[u].fence = NoAttempt /\ u \notin trailing
        BY DEF OthersResolved, AttemptsResolved
  <1>3. ASSUME NEW b \in Used(u)
        PROVE  /\ Has(u, b, "prepared")' => prepared'[<<u, b>>].pre \in
                                  {"pending", "in-progress", "awaiting-decision"}
               /\ b # NoAttempt => FullyRecovered(u, b, queue[u].status)'
    <2>1. b \in Attempt
          BY DEF Used
    <2>2. prepared'[<<u, b>>] = prepared[<<u, b>>] /\ SameRecords(u, b)
          BY <2>1 DEF Elsewhere
    <2>3. Has(u, b, "prepared")' <=> Has(u, b, "prepared")
          BY <2>2 DEF SameRecords, Phase
    <2>4. /\ Has(u, b, "prepared") => prepared[<<u, b>>].pre \in
                                  {"pending", "in-progress", "awaiting-decision"}
          /\ b # NoAttempt => FullyRecovered(u, b, queue[u].status)
          BY DEF OthersResolved, AttemptsResolved, Admissible
    <2>5. PICK s : s = queue[u].status
          OBVIOUS
    <2>6. FullyRecovered(u, b, s)' <=> FullyRecovered(u, b, s)
          BY <2>2, SameAttempt
    <2>7. FullyRecovered(u, b, s)' => FullyRecovered(u, b, queue[u].status)'
          BY <1>1, <2>5 DEF FullyRecovered
    <2> QED BY <2>2, <2>3, <2>4, <2>5, <2>6, <2>7
  <1> QED BY <1>1, <1>2, <1>3

---------------------------------------------------------------------------
(* Failures that have to be recovered *)

\* There is none.
NoFailure == \A t \in Task, a \in Attempt : ~NotStarted(t, a)

LEMMA NotStartedOpen ==
    ASSUME Journals, Failures, NEW t \in Task, NEW a \in Attempt, NotStarted(t, a)
    PROVE  /\ \A s : ~FullyRecovered(t, a, s)
           /\ ~Closed(t, a) /\ a \in Used(t) /\ latest[t] = a
  <1>1. Journal(t, a) /\ RecoveryCandidate(t, a) /\ Has(t, a, "pre-spawn-failure")
        /\ ~Has(t, a, "recovered")
        BY DEF Journals, Failures, CanRecover, NotStarted
  <1>2. ~Observed(t, a) /\ ~LifecycleAdvanced(t, a) /\ ~Has(t, a, "disposed")
        BY <1>1 DEF RecoveryCandidate, Journal
  <1>3. ~NoLaunchChain(t, a)
        BY <1>1 DEF NoLaunchChain
  <1>4. a \in Used(t)
        BY <1>1, HasUsed
  <1> QED BY <1>1, <1>2, <1>3, <1>4 DEF Closed, FullyRecovered, Journal

LEMMA RecoveredNoFailure ==
    ASSUME Journals, Failures, ComponentRecovered
    PROVE  NoFailure
  <1> SUFFICES ASSUME NEW t \in Task, NEW a \in Attempt, NotStarted(t, a)
               PROVE  FALSE
      BY DEF NoFailure
  <1>1. a \in Used(t) /\ ~FullyRecovered(t, a, queue[t].status)
        BY NotStartedOpen
  <1> QED BY <1>1, NoAttemptIsNone, GateResolves DEF AttemptsResolved

\* Only one failure at a time.
LEMMA OneFailure ==
    ASSUME Journals, Failures, NEW t \in Task, NEW a \in Attempt, OthersResolved(t),
           a = latest[t]
    PROVE  \A u \in Task, b \in Attempt : NotStarted(u, b) => u = t /\ b = a
  <1> SUFFICES ASSUME NEW u \in Task, NEW b \in Attempt, NotStarted(u, b)
               PROVE  u = t /\ b = a
      OBVIOUS
  <1>1. b \in Used(u) /\ ~FullyRecovered(u, b, queue[u].status) /\ latest[u] = b
        BY NotStartedOpen
  <1>2. u = t
        BY <1>1, NoAttemptIsNone DEF OthersResolved, AttemptsResolved
  <1> QED BY <1>1, <1>2

\* Whatever is finalized is not such a failure.
LEMMA FinalizableNoFailure ==
    ASSUME Journals, Failures, NEW t \in Task, NEW a \in Attempt, Finalizable(t, a)
    PROVE  NoFailure /\ ~Has(t, a, "pre-spawn-failure")
  <1>1. /\ OthersResolved(t) /\ a = latest[t] /\ queue[t].fence = NoAttempt
        /\ ~Has(t, a, "recovery-prepared") /\ ~Has(t, a, "recovered")
        BY GateResolves DEF Finalizable
  <1>2. ~NotStarted(t, a)
    <2> SUFFICES ASSUME NotStarted(t, a) PROVE FALSE
        OBVIOUS
    <2>1. Fenced(t, a)
          BY <1>1 DEF Failures, CanRecover
    <2> QED BY <1>1, <2>1, NoAttemptIsNone DEF Fenced
  <1>3. NoFailure
        BY <1>1, <1>2, OneFailure DEF NoFailure
  <1> QED BY <1>1, <1>2, <1>3 DEF NotStarted

LEMMA BusyNoFailure ==
    ASSUME Failures, pc \notin {"idle", "release", "rec-replace", "rec-record"}
    PROVE  NoFailure
  BY DEF Failures, NoFailure

LEMMA NoFailureLater ==
    ASSUME NoFailure'
    PROVE  Failures'
  BY DEF NoFailure, Failures

---------------------------------------------------------------------------
(* Steps that write neither journal nor queue *)

LEMMA JournalsStay ==
    ASSUME Journals, Acceptances, UNCHANGED <<queue, events, prepared, latest, launched>>
    PROVE  /\ Journals' /\ Acceptances' /\ (NoFailure => NoFailure')
           /\ \A t : Used(t)' = Used(t)
           /\ \A t, a : SameRecords(t, a)
  <1>1. \A t, a, p : Has(t, a, p)' <=> Has(t, a, p)
        BY DEF Has
  <1>2. \A t, a : HumanBlocked(t, a)' <=> HumanBlocked(t, a)
        BY DEF HumanBlocked
  <1>3. \A t, a : SameRecords(t, a)
        BY <1>1, <1>2 DEF SameRecords
  <1>4. \A t : Used(t)' = Used(t)
        BY DEF Used
  <1>5. ASSUME NEW t \in Task, NEW a \in Attempt PROVE Journal(t, a)'
    <2>1. (Observed(t, a)' <=> Observed(t, a)) /\ (Closed(t, a)' <=> Closed(t, a))
          BY <1>3, SameAttempt
    <2>2. Journal(t, a)
          BY DEF Journals
    <2> QED BY <1>1, <1>2, <1>4, <2>1, <2>2 DEF Journal
  <1>6. Journals'
        BY <1>5 DEF Journals
  <1>7. Acceptances'
        BY <1>1, <1>2 DEF Acceptances, AlreadyAccepted
  <1>8. NoFailure => NoFailure'
        BY <1>1 DEF NoFailure, NotStarted
  <1> QED BY <1>3, <1>4, <1>6, <1>7, <1>8

LEMMA FailuresStay ==
    ASSUME Failures, UNCHANGED <<queue, events, prepared, latest, trailing>>,
           pc' \in {"idle", "release", "rec-replace", "rec-record"}
    PROVE  Failures'
  BY DEF Failures, CanRecover, NotStarted, RecoveryCandidate, ResolvedExcept,
         AttemptsResolved, Admissible, FullyRecovered, Fenced, Unfenced, Observed,
         LifecycleAdvanced, NoLaunchChain, HumanBlocked, Has, Used

LEMMA HolderIdle ==
    ASSUME pc' = "idle"
    PROVE  Holder'
  BY DEF Holder, HolderOf, Transitioning, InRun, InFence, InRecovery, InFinalization, InAttempt,
         Running

LEMMA HolderFor ==
    ASSUME NEW t, NEW a, local'.task = t, local'.attempt = a, HolderOf(t, a)'
    PROVE  Holder'
  BY DEF Holder

LEMMA StopsKept ==
    ASSUME JInv, [Next]_vars, Release \/ Fail \/ Crash \/ Tear \/ Unlock \/ UNCHANGED vars
    PROVE  JInv'
  <1>1. DepInv'
        BY DepNext DEF JInv
  <1>2. UNCHANGED <<queue, events, prepared, latest, trailing, launched>>
        BY DEF Release, Fail, Crash, Tear, Unlock, vars, stored, history
  <1>3. Journals' /\ Acceptances'
        BY <1>2, JournalsStay DEF JInv
  <1>4. CASE pc' = "idle"
    <2>1. Failures'
          BY <1>2, <1>4, FailuresStay DEF JInv
    <2> QED BY <1>1, <1>3, <1>4, <2>1, HolderIdle DEF JInv
  <1>5. CASE UNCHANGED process
    <2>1. UNCHANGED <<pc, local>>
          BY <1>5 DEF process
    <2>2. Failures'
          BY <1>2, <2>1 DEF JInv, Failures, CanRecover, NotStarted, RecoveryCandidate,
             ResolvedExcept, AttemptsResolved, Admissible, FullyRecovered, Fenced,
             Unfenced, Observed, LifecycleAdvanced, NoLaunchChain, HumanBlocked, Has, Used
    <2>3. Holder'
      <3>1. \A t : Used(t)' = Used(t) /\ \A a : SameRecords(t, a)
            BY <1>2, JournalsStay DEF JInv
      <3>2. \A t, a, p : Has(t, a, p)' <=> Has(t, a, p)
            BY <1>2 DEF Has
      <3>3. \A t, a : HumanBlocked(t, a)' <=> HumanBlocked(t, a)
            BY <1>2 DEF HumanBlocked
      <3>4. PICK t, a : t = local.task /\ a = local.attempt
            OBVIOUS
      <3>5. HolderOf(t, a)
            BY <3>4 DEF JInv, Holder
      <3>6. HolderOf(t, a)'
        <4>1. t \in Task
              BY <3>4 DEF JInv, DepInv, TypeInv, TypeOK, Local
        <4>2. Elsewhere(t)
              BY <1>2, <3>1 DEF Elsewhere
        <4>3. pc' # "idle" => OthersResolved(t)'
              BY <2>1, <3>5, <4>1, <4>2, OthersStay DEF HolderOf
        <4>4. \A b : (Closed(t, b)' <=> Closed(t, b)) /\ (Observed(t, b)' <=> Observed(t, b))
                     /\ (LifecycleAdvanced(t, b)' <=> LifecycleAdvanced(t, b))
                     /\ (NotStarted(t, b)' <=> NotStarted(t, b))
              BY <3>1, SameAttempt
        <4>5. Transitioning(t)' /\ InRun(t, a)'
              BY <1>2, <2>1, <3>1, <3>2, <3>5, <4>4 DEF HolderOf, Transitioning, InRun, InProgress,
                                                OthersClosed
        <4>6. InFence(t, a)' /\ InRecovery(t, a)' /\ InFinalization(t, a)'
              BY <1>2, <2>1, <3>1, <3>2, <3>3, <3>5, <4>4 DEF HolderOf, InFence, InRecovery,
                 InFinalization, OthersClosed, Fenced, Unfenced
        <4> QED BY <1>2, <2>1, <3>2, <3>5, <4>3, <4>5, <4>6 DEF HolderOf
      <3> QED BY <2>1, <3>4, <3>6, HolderFor
    <2> QED BY <1>1, <1>3, <2>2, <2>3 DEF JInv
  <1> QED BY <1>4, <1>5 DEF Release, Fail, Crash, Tear, Unlock, vars, process

---------------------------------------------------------------------------
(* Steps that append a record of the attempt in hand *)

LEMMA Appended ==
    ASSUME Journals, Acceptances, NEW t \in Task, NEW a \in Attempt,
           NEW p \in Phase \ {"blocked", "prepared"}, events' = events \cup {Rec(t, a, p)},
           UNCHANGED <<queue, prepared, latest, launched>>, Has(t, a, "prepared")
    PROVE  /\ \A u \in Task, b \in Attempt : (u # t \/ b # a) => SameRecords(u, b) /\ Journal(u, b)'
           /\ \A u : Used(u)' = Used(u)
           /\ \A q : Has(t, a, q)' <=> Has(t, a, q) \/ q = p
           /\ HumanBlocked(t, a)' <=> HumanBlocked(t, a)
           /\ p # "recovery-prepared" => Acceptances'
           /\ \A u, b : Closed(u, b) => Closed(u, b)'
  <1>1. /\ \A u, b, q : Has(u, b, q)' <=> Has(u, b, q) \/ (u = t /\ b = a /\ q = p)
        /\ \A u, b : HumanBlocked(u, b)' <=> HumanBlocked(u, b)
        /\ \A u : Used(u)' = Used(u) \cup (IF u = t THEN {a} ELSE {})
        BY AddRec
  <1>2. \A u : Used(u)' = Used(u)
        BY <1>1, HasUsed
  <1>3. ASSUME NEW u \in Task, NEW b \in Attempt, u # t \/ b # a
        PROVE  SameRecords(u, b) /\ Journal(u, b)'
    <2>1. SameRecords(u, b)
          BY <1>1, <1>3 DEF SameRecords
    <2>2. (Observed(u, b)' <=> Observed(u, b)) /\ (Closed(u, b)' <=> Closed(u, b))
          BY <2>1, SameAttempt
    <2>3. Journal(u, b)
          BY DEF Journals
    <2>4. /\ Has(u, b, "prepared")' <=> Has(u, b, "prepared")
          /\ Has(u, b, "pre-spawn-failure")' <=> Has(u, b, "pre-spawn-failure")
          /\ Has(u, b, "disposed")' <=> Has(u, b, "disposed")
          /\ Has(u, b, "recovery-prepared")' <=> Has(u, b, "recovery-prepared")
          /\ Has(u, b, "recovered")' <=> Has(u, b, "recovered")
          /\ Has(u, b, "accepted")' <=> Has(u, b, "accepted")
          BY <1>1, <1>3
    <2>5. Journal(u, b)'
          BY <1>1, <1>2, <2>2, <2>3, <2>4 DEF Journal
    <2> QED BY <2>1, <2>5
  <1>4. p # "recovery-prepared" => Acceptances'
        BY <1>1 DEF Acceptances, AlreadyAccepted
  <1>5. \A u, b : Closed(u, b) => Closed(u, b)'
        BY ClosedStays
  <1> QED BY <1>1, <1>2, <1>3, <1>4, <1>5

\* A run records what it observes.
RunPhase == {"agent-execution", "verification-repair", "execution-finished",
             "verification-finished", "pending-human-disposition"}

LEMMA RunAppends ==
    ASSUME Journals, Acceptances, NEW t \in Task, NEW a \in Attempt,
           NEW p \in RunPhase, events' = events \cup {Rec(t, a, p)},
           UNCHANGED <<queue, prepared, latest, launched, trailing>>, Has(t, a, "prepared"),
           latest[t] = a, ~Has(t, a, "pre-spawn-failure"), NoFailure
    PROVE  /\ Journals' /\ Acceptances' /\ Failures' /\ Elsewhere(t)
           /\ \A u : Used(u)' = Used(u)
           /\ \A u, b : Closed(u, b) => Closed(u, b)'
           /\ Has(t, a, "prepared")' /\ ~Has(t, a, "pre-spawn-failure")'
  <1>1. p \in Phase \ {"blocked", "prepared"}
        BY DEF RunPhase, Phase
  <1>2. /\ \A u \in Task, b \in Attempt : (u # t \/ b # a) => SameRecords(u, b) /\ Journal(u, b)'
        /\ \A u : Used(u)' = Used(u)
        /\ \A q : Has(t, a, q)' <=> Has(t, a, q) \/ q = p
        /\ HumanBlocked(t, a)' <=> HumanBlocked(t, a)
        /\ p # "recovery-prepared" => Acceptances'
        /\ \A u, b : Closed(u, b) => Closed(u, b)'
        BY <1>1, Appended
  <1>3. Journal(t, a)'
    <2>1. Journal(t, a) /\ Has(t, a, "prepared")
          BY DEF Journals
    <2>2. /\ Has(t, a, "prepared")' /\ ~Has(t, a, "pre-spawn-failure")'
          /\ ~Has(t, a, "recovery-prepared")' /\ ~Has(t, a, "recovered")'
          /\ (Has(t, a, "disposed")' <=> Has(t, a, "disposed"))
          /\ (Has(t, a, "accepted")' <=> Has(t, a, "accepted"))
          BY <1>2, <2>1 DEF RunPhase, Journal
    <2>3. Observed(t, a) => Observed(t, a)'
          BY <1>2 DEF Observed
    <2> QED BY <1>2, <2>1, <2>2, <2>3 DEF Journal
  <1>4. Journals'
        BY <1>2, <1>3 DEF Journals
  <1>5. Acceptances'
        BY <1>2 DEF RunPhase
  <1>6. Elsewhere(t)
        BY <1>2 DEF Elsewhere
  <1>7. Failures'
    <2>1. ASSUME NEW u \in Task, NEW b \in Attempt PROVE ~NotStarted(u, b)'
      <3>1. CASE u # t \/ b # a
            BY <1>2, <3>1, SameAttempt DEF NoFailure
      <3>2. CASE u = t /\ b = a
            BY <1>2, <3>2 DEF NotStarted, RunPhase
      <3> QED BY <3>1, <3>2
    <2> QED BY <2>1, NoFailureLater DEF NoFailure
  <1> QED BY <1>2, <1>4, <1>5, <1>6, <1>7 DEF RunPhase

---------------------------------------------------------------------------
(* A run *)

LEMMA SettleLocal ==
    ASSUME JInv, NEW target, Settle(target)
    PROVE  /\ local'.task = local.task /\ local'.attempt = local.attempt
           /\ local'.target = target /\ local'.then = "release"
           /\ local'.reason = (IF target = "completed" THEN "none" ELSE "run")
           /\ pc' = "settle"
  <1>1. local \in Local
        BY DEF JInv, DepInv, TypeInv, TypeOK
  <1> QED BY <1>1 DEF Settle, Step, Local

\* How a step of a run goes on.
GoesOn(t, a) ==
    /\ local'.task = t /\ local'.attempt = a
    /\ pc' \in Running \cup {"release"}
    /\ pc' = "settle" =>
          /\ local'.target \in {"blocked", "completed", "awaiting-decision"}
          /\ local'.reason = (IF local'.target = "completed" THEN "none" ELSE "run")
          /\ local'.then = "release"

LEMMA RunGoesOn ==
    ASSUME JInv, NEW t \in Task, NEW a \in Attempt, HolderOf(t, a),
           pc \in Running, GoesOn(t, a), Elsewhere(t),
           UNCHANGED <<queue, latest, trailing>>, Used(t)' = Used(t),
           \A b : Closed(t, b) => Closed(t, b)',
           Has(t, a, "prepared")', ~Has(t, a, "pre-spawn-failure")'
    PROVE  Holder'
  <1>1. pc # "idle"
        BY DEF Running
  <1>2. OthersResolved(t)'
        BY <1>1, OthersStay DEF HolderOf
  <1>3. /\ InProgress(t) /\ OthersClosed(t, a) /\ latest[t] = a
        BY DEF HolderOf, InRun, Running, InAttempt
  <1>4. InRun(t, a)'
    <2>1. InProgress(t)' /\ OthersClosed(t, a)'
          BY <1>3 DEF InProgress, OthersClosed
    <2> QED BY <2>1 DEF InRun, GoesOn
  <1>5. Transitioning(t)' /\ InFence(t, a)' /\ InRecovery(t, a)' /\ InFinalization(t, a)'
        BY DEF GoesOn, Running, Transitioning, InFence, InRecovery, InFinalization
  <1>6. HolderOf(t, a)'
        BY <1>2, <1>3, <1>4, <1>5 DEF HolderOf
  <1> QED BY <1>6, HolderFor DEF GoesOn

\* What holds while a run has an attempt in hand.
LEMMA RunHas ==
    ASSUME JInv, pc \in Running, NEW t, t = local.task, NEW a, a = local.attempt
    PROVE  /\ t \in Task /\ a \in Attempt /\ HolderOf(t, a) /\ local \in Local
           /\ Has(t, a, "prepared") /\ latest[t] = a /\ ~Has(t, a, "pre-spawn-failure")
           /\ NoFailure
  <1>1. local \in Local /\ t \in Task
        BY DEF JInv, DepInv, TypeInv, TypeOK, Local
  <1>2. HolderOf(t, a)
        BY DEF JInv, Holder
  <1>3. /\ a \in Attempt /\ Has(t, a, "prepared") /\ latest[t] = a
        /\ ~Has(t, a, "pre-spawn-failure")
        BY <1>2 DEF HolderOf, InRun, Running, InAttempt
  <1>4. NoFailure
        BY BusyNoFailure DEF JInv, Running
  <1> QED BY <1>1, <1>2, <1>3, <1>4

LEMMA RunMoves ==
    ASSUME JInv, [Next]_vars,
           Verified \/ VerificationBlocks \/ FinishInterrupted \/ FinishDone \/ SettleRefused
    PROVE  JInv'
  <1>1. PICK t, a : t = local.task /\ a = local.attempt
        OBVIOUS
  <1>2. /\ pc \in Running /\ UNCHANGED <<queue, events, prepared, latest, trailing, launched>>
        BY DEF Verified, VerificationBlocks, FinishInterrupted, FinishDone, SettleRefused, Running,
               stored, history
  <1>3. /\ t \in Task /\ a \in Attempt /\ HolderOf(t, a)
        /\ Has(t, a, "prepared") /\ ~Has(t, a, "pre-spawn-failure") /\ NoFailure
        BY <1>1, <1>2, RunHas
  <1>4. GoesOn(t, a)
    <2>1. CASE \E target \in {"blocked", "completed"} : Settle(target)
          BY <1>1, <2>1, SettleLocal DEF GoesOn, Running
    <2>2. CASE pc' \in {"finish-execution", "release"} /\ UNCHANGED local
          BY <1>1, <2>2 DEF GoesOn, Running
    <2> QED BY <2>1, <2>2 DEF Verified, VerificationBlocks, FinishInterrupted, FinishDone,
               SettleRefused, Step
  <1>5. /\ Journals' /\ Acceptances' /\ NoFailure'
        /\ \A u : Used(u)' = Used(u)
        /\ \A u, b : SameRecords(u, b)
        BY <1>2, <1>3, JournalsStay DEF JInv
  <1>6. Holder'
    <2>1. Elsewhere(t)
          BY <1>2, <1>5 DEF Elsewhere
    <2>2. \A b : Closed(t, b) => Closed(t, b)'
          BY <1>5, SameAttempt
    <2>3. Has(t, a, "prepared")' /\ ~Has(t, a, "pre-spawn-failure")'
          BY <1>3, <1>5 DEF SameRecords, Phase
    <2> QED BY <1>2, <1>3, <1>4, <1>5, <2>1, <2>2, <2>3, RunGoesOn
  <1> QED BY <1>5, <1>6, DepNext, NoFailureLater DEF JInv

LEMMA RunRecords ==
    ASSUME JInv, [Next]_vars, NEW outcome \in Outcome,
           RecordExecution(outcome) \/ RepairVerification(outcome) \/ FinishEvidence
    PROVE  JInv'
  <1>1. PICK t, a : t = local.task /\ a = local.attempt
        OBVIOUS
  <1>2. /\ pc \in Running /\ UNCHANGED <<queue, prepared, latest, trailing, launched>>
        BY DEF RecordExecution, RepairVerification, FinishEvidence, AppendFinished, Running, history
  <1>3. /\ t \in Task /\ a \in Attempt /\ HolderOf(t, a) /\ local \in Local
        /\ Has(t, a, "prepared") /\ ~Has(t, a, "pre-spawn-failure") /\ NoFailure /\ latest[t] = a
        BY <1>1, <1>2, RunHas
  <1>4. PICK p \in RunPhase : events' = events \cup {Rec(t, a, p)}
        BY <1>1 DEF RecordExecution, RepairVerification, FinishEvidence, AppendFinished, RunPhase
  <1>5. GoesOn(t, a)
    <2>1. CASE \E target \in {"blocked", "completed", "awaiting-decision"} : Settle(target)
          BY <1>1, <2>1, SettleLocal DEF GoesOn, Running
    <2>2. CASE pc' = "verify" /\ (UNCHANGED local \/ local' = [local EXCEPT !.repairs = @ + 1])
          BY <1>1, <1>3, <2>2 DEF GoesOn, Running, Local
    <2>3. CASE FinishEvidence
          BY <1>1, <2>3 DEF FinishEvidence, AppendFinished, Step, GoesOn, Running
    <2> QED BY <2>1, <2>2, <2>3 DEF RecordExecution, RepairVerification, Step, Outcome
  <1>6. /\ Journals' /\ Acceptances' /\ Failures' /\ Elsewhere(t)
        /\ \A u : Used(u)' = Used(u)
        /\ \A u, b : Closed(u, b) => Closed(u, b)'
        /\ Has(t, a, "prepared")' /\ ~Has(t, a, "pre-spawn-failure")'
        BY <1>2, <1>3, <1>4, RunAppends DEF JInv
  <1>7. Holder'
        BY <1>2, <1>3, <1>5, <1>6, RunGoesOn
  <1> QED BY <1>6, <1>7, DepNext DEF JInv

\* The agent of an attempt without any failure record is started.
LEMMA RunLaunches ==
    ASSUME JInv, [Next]_vars, Launch
    PROVE  JInv'
  <1>1. PICK t, a : t = local.task /\ a = local.attempt
        OBVIOUS
  <1>2. /\ pc = "launch" /\ pc' = "record" /\ launched' = launched \cup {<<t, a>>}
        /\ UNCHANGED <<queue, events, prepared, latest, trailing, local>>
        BY <1>1 DEF Launch, Step, stored
  <1>3. /\ t \in Task /\ a \in Attempt /\ HolderOf(t, a)
        /\ Has(t, a, "prepared") /\ ~Has(t, a, "pre-spawn-failure") /\ NoFailure
        BY <1>1, <1>2, RunHas DEF Running
  <1>4. /\ \A u, b, q : Has(u, b, q)' <=> Has(u, b, q)
        /\ \A u, b : HumanBlocked(u, b)' <=> HumanBlocked(u, b)
        /\ \A u : Used(u)' = Used(u)
        BY <1>2 DEF Has, HumanBlocked, Used
  <1>5. \A u, b : SameRecords(u, b)
        BY <1>4 DEF SameRecords
  <1>6. Journals'
    <2> SUFFICES ASSUME NEW u \in Task, NEW b \in Attempt PROVE Journal(u, b)'
        BY DEF Journals
    <2>1. (Observed(u, b)' <=> Observed(u, b)) /\ (Closed(u, b)' <=> Closed(u, b))
          BY <1>5, SameAttempt
    <2>2. Journal(u, b)
          BY DEF JInv, Journals
    <2>3. <<u, b>> \in launched' => <<u, b>> \in launched \/ (u = t /\ b = a)
          BY <1>2
    <2> QED BY <1>2, <1>3, <1>4, <2>1, <2>2, <2>3 DEF Journal
  <1>7. Acceptances'
        BY <1>2, <1>4 DEF JInv, Acceptances, AlreadyAccepted
  <1>8. Failures'
        BY <1>3, <1>4, NoFailureLater DEF NoFailure, NotStarted
  <1>9. Holder'
    <2>1. Elsewhere(t)
          BY <1>2, <1>4, <1>5 DEF Elsewhere
    <2>2. \A b : Closed(t, b) => Closed(t, b)'
          BY <1>5, SameAttempt
    <2>3. GoesOn(t, a)
          BY <1>1, <1>2 DEF GoesOn, Running
    <2> QED BY <1>2, <1>3, <1>4, <2>1, <2>2, <2>3, RunGoesOn DEF Running
  <1> QED BY <1>6, <1>7, <1>8, <1>9, DepNext DEF JInv

---------------------------------------------------------------------------
(* Transitions, and the beginning of a run *)

\* A status that is not settled leaves it to the journal to close attempts.
LEMMA RecoveredClosed ==
    ASSUME NEW t \in Task, NEW p, AttemptsResolved(t, p), queue[t].status \notin Settled
    PROVE  OthersClosed(t, p)
  BY DEF AttemptsResolved, FullyRecovered, Closed, OthersClosed

LEMMA RecoveredOthers ==
    ASSUME ComponentRecovered, NEW t \in Task
    PROVE  /\ OthersResolved(t) /\ AttemptsResolved(t, NoAttempt) /\ t \notin trailing
           /\ queue[t].fence = NoAttempt
  BY GateResolves DEF OthersResolved, AttemptsResolved

\* At most the mark of a transition that begins is added.
LEMMA Begins ==
    ASSUME JInv, [Next]_vars, NEW t \in Task, NEW a,
           UNCHANGED <<queue, events, prepared, latest, launched>>,
           trailing' \in {trailing, trailing \cup {t}},
           OthersResolved(t), NoFailure,
           local'.task = t, local'.attempt = a,
           pc' \in {"t-replace", "prepare"}, Transitioning(t)'
    PROVE  JInv'
  <1>1. /\ Journals' /\ Acceptances' /\ NoFailure'
        /\ \A u : Used(u)' = Used(u)
        /\ \A u, b : SameRecords(u, b)
        BY JournalsStay DEF JInv
  <1>2. Elsewhere(t)
        BY <1>1 DEF Elsewhere
  <1>3. OthersResolved(t)'
        BY <1>2, OthersStay
  <1>4. HolderOf(t, a)'
        BY <1>3 DEF HolderOf, InRun, InFence, InRecovery, InFinalization, InAttempt, Running
  <1> QED BY <1>1, <1>4, DepNext, NoFailureLater, HolderFor DEF JInv

LEMMA ForFields ==
    ASSUME NEW t \in Task
    PROVE  /\ For(t) \in Local /\ For(t).task = t /\ For(t).then = "release"
           /\ For(t).attempt = NoAttempt
  <1>1. NoLocal \in Local /\ For(t) \in Local
        BY LocalType
  <1> QED BY <1>1 DEF For, NoLocal

LEMMA TransitionBegins ==
    ASSUME JInv, [Next]_vars, NEW t \in Task, NEW target, NEW r, TransitionBegin(t, target, r)
    PROVE  JInv'
  <1>1. /\ UNCHANGED <<queue, events, prepared, latest, launched>>
        /\ trailing' = trailing \cup {t} /\ pc' = "t-replace" /\ ComponentRecovered
        /\ local' = [For(t) EXCEPT !.pre = queue[t].status, !.target = target, !.reason = r]
        BY DEF TransitionBegin, history
  <1>2. OthersResolved(t) /\ NoFailure
        BY <1>1, RecoveredOthers, RecoveredNoFailure DEF JInv
  <1>3. local'.task = t /\ local'.attempt = NoAttempt /\ local'.then = "release"
        BY <1>1, ForFields DEF Local
  <1>4. Transitioning(t)'
        BY <1>1, <1>3 DEF Transitioning
  <1> QED BY <1>1, <1>2, <1>3, <1>4, Begins

LEMMA RunBegins ==
    ASSUME JInv, [Next]_vars, NEW t \in Task, NEW mode, RunBegin(t, mode)
    PROVE  JInv'
  <1>1. /\ UNCHANGED <<queue, events, prepared, latest, launched>>
        /\ ComponentRecovered /\ ComponentCurrent
        /\ local' = [For(t) EXCEPT !.pre = queue[t].status, !.target = "in-progress",
                                   !.then = "prepare", !.mode = mode]
        /\ \/ /\ ValidTransition(t, "in-progress", "none")
              /\ trailing' = trailing \cup {t} /\ pc' = "t-replace"
           \/ /\ queue[t].status = "in-progress"
              /\ trailing' = trailing /\ pc' = "prepare"
        BY DEF RunBegin, history
  <1>2. /\ OthersResolved(t) /\ NoFailure /\ AttemptsResolved(t, NoAttempt)
        /\ t \notin trailing /\ queue[t].fence = NoAttempt
        BY <1>1, RecoveredOthers, RecoveredNoFailure DEF JInv
  <1>3. /\ local'.task = t /\ local'.attempt = NoAttempt /\ local'.then = "prepare"
        /\ local'.target = "in-progress" /\ local'.pre = queue[t].status
        BY <1>1, ForFields DEF Local
  <1>4. /\ \A u : Used(u)' = Used(u)
        /\ \A u, b : SameRecords(u, b)
        BY <1>1, JournalsStay DEF JInv
  <1>5. \A b : (Closed(t, b)' <=> Closed(t, b)) /\ (Observed(t, b)' <=> Observed(t, b))
        BY <1>4, SameAttempt
  <1>6. CASE ValidTransition(t, "in-progress", "none") /\ trailing' = trailing \cup {t}
             /\ pc' = "t-replace"
    <2>1. queue[t].status \in {"pending", "awaiting-decision"}
          BY <1>1, <1>6 DEF ValidTransition, CanTransition, ComponentCurrent
    <2>2. ASSUME NEW b \in Used(t)
          PROVE  Closed(t, b) \/ (Observed(t, b) /\ queue[t].status \in Settled)
      <3>1. b \in Attempt
            BY DEF Used
      <3>2. FullyRecovered(t, b, queue[t].status)
            BY <1>2, <3>1, NoAttemptIsNone DEF AttemptsResolved
      <3> QED BY <3>2 DEF FullyRecovered, Closed
    <2>3. Transitioning(t)'
          BY <1>1, <1>2, <1>3, <1>4, <1>5, <1>6, <2>1, <2>2 DEF Transitioning
    <2> QED BY <1>1, <1>2, <1>3, <1>6, <2>3, Begins
  <1>7. CASE queue[t].status = "in-progress" /\ trailing' = trailing /\ pc' = "prepare"
    <2>1. OthersClosed(t, NoAttempt)
          BY <1>2, <1>7, RecoveredClosed DEF Settled
    <2>2. OthersClosed(t, NoAttempt)' /\ InProgress(t)'
          BY <1>1, <1>2, <1>4, <1>5, <1>7, <2>1 DEF OthersClosed, InProgress
    <2>3. Transitioning(t)'
          BY <1>3, <1>7, <2>2 DEF Transitioning
    <2> QED BY <1>1, <1>2, <1>3, <1>7, <2>3, Begins
  <1> QED BY <1>1, <1>6, <1>7

LEMMA SettleBegins ==
    ASSUME JInv, [Next]_vars, SettleBegin
    PROVE  JInv'
  <1>1. PICK t, a : t = local.task /\ a = local.attempt
        OBVIOUS
  <1>2. /\ pc = "settle" /\ pc' = "t-replace" /\ trailing' = trailing \cup {t}
        /\ UNCHANGED <<queue, events, prepared, latest, launched, local>>
        BY <1>1 DEF SettleBegin, Step, history
  <1>3. /\ t \in Task /\ HolderOf(t, a) /\ NoFailure
        BY <1>1, <1>2, RunHas DEF Running
  <1>4. OthersResolved(t) /\ local.then = "release"
        BY <1>2, <1>3 DEF HolderOf, InRun
  <1>5. Transitioning(t)'
        BY <1>2, <1>4 DEF Transitioning
  <1> QED BY <1>1, <1>2, <1>3, <1>4, <1>5, Begins

---------------------------------------------------------------------------
(* Steps that write the queue *)

\* One entry of the queue is replaced.
LEMMA QueueFields ==
    ASSUME TypeOK, NEW t \in Task, NEW x, queue' = [queue EXCEPT ![t] = x]
    PROVE  queue'[t] = x /\ \A u \in Task \ {t} : queue'[u] = queue[u]
  BY DEF TypeOK, Queue

LEMMA QueueWritten ==
    ASSUME Journals, UNCHANGED <<events, prepared, latest, launched>>,
           \A t \in Task, a \in Attempt : Has(t, a, "recovered") => queue'[t].fence # a
    PROVE  /\ Journals' /\ (NoFailure => NoFailure')
           /\ \A t : Used(t)' = Used(t)
           /\ \A t, a : SameRecords(t, a)
           /\ \A t, a, p : Has(t, a, p)' <=> Has(t, a, p)
           /\ \A t, a : HumanBlocked(t, a)' <=> HumanBlocked(t, a)
  <1>1. \A t, a, p : Has(t, a, p)' <=> Has(t, a, p)
        BY DEF Has
  <1>2. \A t, a : HumanBlocked(t, a)' <=> HumanBlocked(t, a)
        BY DEF HumanBlocked
  <1>3. \A t, a : SameRecords(t, a)
        BY <1>1, <1>2 DEF SameRecords
  <1>4. \A t : Used(t)' = Used(t)
        BY DEF Used
  <1>5. ASSUME NEW t \in Task, NEW a \in Attempt PROVE Journal(t, a)'
    <2>1. (Observed(t, a)' <=> Observed(t, a)) /\ (Closed(t, a)' <=> Closed(t, a))
          BY <1>3, SameAttempt
    <2>2. Journal(t, a) /\ (Has(t, a, "recovered") => queue'[t].fence # a)
          BY DEF Journals
    <2>3. Used(t)' = Used(t) /\ (HumanBlocked(t, a)' <=> HumanBlocked(t, a))
          BY <1>2, <1>4
    <2>4. UNCHANGED <<prepared, latest, launched>>
          OBVIOUS
    <2> QED BY <1>1, <2>1, <2>2, <2>3, <2>4 DEF Journal
  <1>6. Journals'
        BY <1>5 DEF Journals
  <1>7. NoFailure => NoFailure'
        BY <1>1 DEF NoFailure, NotStarted
  <1> QED BY <1>1, <1>2, <1>3, <1>4, <1>6, <1>7

LEMMA TransitionReplaces ==
    ASSUME JInv, [Next]_vars, TransitionReplace
    PROVE  JInv'
  <1>1. PICK t, a : t = local.task /\ a = local.attempt
        OBVIOUS
  <1>2. /\ pc = "t-replace" /\ pc' = "t-commit"
        /\ UNCHANGED <<events, prepared, latest, trailing, launched, local>>
        /\ queue' = [queue EXCEPT ![t].status = local.target, ![t].reason = local.reason]
        BY <1>1 DEF TransitionReplace, Step, history
  <1>3. /\ TypeOK /\ t \in Task /\ queue[t] \in TaskRecord /\ queue[t].status # "completed"
        BY <1>1, <1>2 DEF JInv, DepInv, TypeInv, TypeOK, Local, Queue, PendingWrite
  <1>4. PICK x : x = [queue[t] EXCEPT !.status = local.target, !.reason = local.reason]
        OBVIOUS
  <1>5. /\ x.status = local.target /\ x.fence = queue[t].fence
        /\ x.acceptance = queue[t].acceptance
        BY <1>3, <1>4 DEF TaskRecord
  <1>6. queue' = [queue EXCEPT ![t] = x]
        BY <1>2, <1>3, <1>4 DEF TypeOK, Queue
  <1>7. queue'[t] = x /\ \A u \in Task \ {t} : queue'[u] = queue[u]
        BY <1>3, <1>6, QueueFields
  <1>8. /\ Journals' /\ (NoFailure => NoFailure')
        /\ \A u : Used(u)' = Used(u)
        /\ \A u, b : SameRecords(u, b)
        /\ \A u, b, p : Has(u, b, p)' <=> Has(u, b, p)
        /\ \A u, b : HumanBlocked(u, b)' <=> HumanBlocked(u, b)
    <2>1. \A u \in Task, b \in Attempt : Has(u, b, "recovered") => queue[u].fence # b
          BY DEF JInv, Journals, Journal
    <2>2. \A u \in Task : queue'[u].fence = queue[u].fence
          BY <1>5, <1>7
    <2>3. Journals
          BY DEF JInv
    <2> QED BY <1>2, <2>1, <2>2, <2>3, QueueWritten
  <1>9. NoFailure
        BY <1>2, BusyNoFailure DEF JInv
  <1>10. Acceptances'
    <2> SUFFICES ASSUME NEW u \in Task, NEW b \in Attempt, queue'[u].acceptance = b
                 PROVE  /\ AlreadyAccepted(u, b)'
                        /\ latest'[u] = b /\ queue'[u].fence = NoAttempt
                        /\ ~HumanBlocked(u, b)' /\ ~Has(u, b, "recovery-prepared")'
        BY DEF Acceptances
    <2>1. queue[u].acceptance = b
          BY <1>5, <1>7
    <2>2. /\ AlreadyAccepted(u, b) /\ latest[u] = b /\ queue[u].fence = NoAttempt
          /\ ~HumanBlocked(u, b) /\ ~Has(u, b, "recovery-prepared")
          BY <2>1 DEF JInv, Acceptances
    <2>3. u # t
          BY <1>3, <2>2 DEF AlreadyAccepted
    <2> QED BY <1>2, <1>7, <1>8, <2>2, <2>3 DEF AlreadyAccepted
  <1>11. Elsewhere(t)
        BY <1>2, <1>7, <1>8 DEF Elsewhere
  <1>12. HolderOf(t, a)'
    <2>1. HolderOf(t, a)
          BY <1>1 DEF JInv, Holder
    <2>2. OthersResolved(t)'
          BY <1>2, <1>3, <1>11, <2>1, OthersStay DEF HolderOf
    <2>3. \A b : (Closed(t, b)' <=> Closed(t, b)) /\ (Observed(t, b)' <=> Observed(t, b))
          BY <1>8, SameAttempt
    <2>4. Transitioning(t)'
          BY <1>2, <1>5, <1>7, <1>8, <2>1, <2>3 DEF HolderOf, Transitioning
    <2> QED BY <1>2, <2>2, <2>4 DEF HolderOf, InRun, InFence, InRecovery, InFinalization,
               InAttempt, Running
  <1> QED BY <1>1, <1>2, <1>8, <1>9, <1>10, <1>12, DepNext, NoFailureLater, HolderFor DEF JInv

\* The committed record disposes the attempt that settled.
LEMMA TransitionCommits ==
    ASSUME JInv, [Next]_vars, TransitionCommit
    PROVE  JInv'
  <1>1. PICK t, a, from, to :
            t = local.task /\ a = local.attempt /\ from = local.pre /\ to = local.target
        OBVIOUS
  <1>2. /\ pc = "t-commit" /\ pc' = local.then /\ trailing' = trailing \ {t}
        /\ events' = events \cup DisposedBy(t, from, to)
        /\ UNCHANGED <<queue, prepared, latest, launched, local>>
        BY <1>1 DEF TransitionCommit, Step, history
  <1>3. /\ t \in Task /\ local.then \in {"release", "prepare"} /\ HolderOf(t, a)
        BY <1>1 DEF JInv, DepInv, TypeInv, TypeOK, Local, Holder
  <1>4. /\ \A u, b, q : Has(u, b, q)' <=>
                 \/ Has(u, b, q)
                 \/ /\ u = t /\ b \in Attempt /\ b = latest[t] /\ q = "disposed"
                    /\ Observed(t, b) /\ {from, to} \cap Settled # {}
        /\ \A u, b : HumanBlocked(u, b)' <=> HumanBlocked(u, b)
        /\ \A u : Used(u)' = Used(u)
        BY <1>2, <1>3, AddDisposed
  <1>5. /\ \A u, b, q : q # "disposed" => (Has(u, b, q)' <=> Has(u, b, q))
        /\ \A u, b : Has(u, b, "disposed")' => Has(u, b, "disposed") \/ Observed(u, b)
        /\ \A u, b, q : u # t => (Has(u, b, q)' <=> Has(u, b, q))
        BY <1>4
  <1>6. \A u, b : Observed(u, b)' <=> Observed(u, b)
        BY <1>5 DEF Observed
  <1>7. \A u, b : Closed(u, b) => Closed(u, b)'
        BY <1>2, ClosedStays
  <1>8. Journals'
    <2> SUFFICES ASSUME NEW u \in Task, NEW b \in Attempt PROVE Journal(u, b)'
        BY DEF Journals
    <2>1. Journal(u, b)
          BY DEF JInv, Journals
    <2>2. Closed(u, b) => Closed(u, b)'
          BY <1>7
    <2>3. Used(u)' = Used(u) /\ (HumanBlocked(u, b)' <=> HumanBlocked(u, b))
          /\ (Observed(u, b)' <=> Observed(u, b))
          BY <1>4, <1>6
    <2>4. /\ Has(u, b, "prepared")' <=> Has(u, b, "prepared")
          /\ Has(u, b, "pre-spawn-failure")' <=> Has(u, b, "pre-spawn-failure")
          /\ Has(u, b, "recovery-prepared")' <=> Has(u, b, "recovery-prepared")
          /\ Has(u, b, "recovered")' <=> Has(u, b, "recovered")
          /\ Has(u, b, "accepted")' <=> Has(u, b, "accepted")
          /\ Has(u, b, "disposed")' => Has(u, b, "disposed") \/ Observed(u, b)
          BY <1>5
    <2> QED BY <1>2, <2>1, <2>2, <2>3, <2>4 DEF Journal
  <1>9. Acceptances'
        BY <1>2, <1>4, <1>5 DEF JInv, Acceptances, AlreadyAccepted
  <1>10. NoFailure /\ NoFailure'
    <2>1. NoFailure
          BY <1>2, BusyNoFailure DEF JInv
    <2> QED BY <1>5, <2>1 DEF NoFailure, NotStarted
  <1>11. Elsewhere(t)
        BY <1>2, <1>4, <1>5 DEF Elsewhere, SameRecords
  <1>12. OthersResolved(t)'
        BY <1>2, <1>3, <1>11, OthersStay DEF HolderOf
  <1>13. Transitioning(t)'
    <2> SUFFICES ASSUME pc' = "prepare"
                 PROVE  /\ InProgress(t)' /\ OthersClosed(t, NoAttempt)'
                        /\ local'.pre \in {"pending", "in-progress", "awaiting-decision"}
        BY <1>2, <1>3 DEF Transitioning
    <2>1. /\ local.pre \in {"pending", "awaiting-decision"}
          /\ queue[t].fence = NoAttempt /\ queue[t].status = "in-progress"
          /\ \A b \in Used(t) : Closed(t, b) \/ (Observed(t, b) /\ from \in Settled)
          BY <1>1, <1>2, <1>3 DEF HolderOf, Transitioning
    <2>2. InProgress(t)'
          BY <1>2, <2>1 DEF InProgress
    <2>3. ASSUME NEW b \in Used(t) PROVE Closed(t, b)'
      <3>1. b \in Attempt
            BY DEF Used
      <3>2. CASE Closed(t, b)
            BY <1>7, <3>2
      <3>3. CASE ~Closed(t, b) /\ Observed(t, b) /\ from \in Settled
        <4>1. latest[t] = b
              BY <1>3, <3>1, <3>3 DEF JInv, Journals, Journal
        <4>2. Has(t, b, "disposed")'
              BY <1>4, <3>1, <3>3, <4>1
        <4> QED BY <4>2 DEF Closed
      <3> QED BY <2>1, <3>2, <3>3
    <2>4. OthersClosed(t, NoAttempt)'
          BY <1>4, <2>3 DEF OthersClosed
    <2> QED BY <1>2, <2>1, <2>2, <2>4
  <1>14. HolderOf(t, a)'
        BY <1>2, <1>3, <1>12, <1>13 DEF HolderOf, InRun, InFence, InRecovery, InFinalization,
               InAttempt, Running
  <1> QED BY <1>1, <1>2, <1>8, <1>9, <1>10, <1>14, DepNext, NoFailureLater, HolderFor DEF JInv

---------------------------------------------------------------------------
(* A new attempt *)

LEMMA NewAttempt ==
    ASSUME JInv, NEW t \in Task, NEW a \in Attempt \ Used(t), NEW y,
           events' = events \cup {Rec(t, a, "prepared")},
           prepared' = [prepared EXCEPT ![<<t, a>>] = y],
           latest' = [latest EXCEPT ![t] = a],
           UNCHANGED <<queue, trailing, launched>>,
           y.pre \in {"pending", "in-progress", "awaiting-decision"},
           OthersClosed(t, NoAttempt), NoFailure, queue[t].status # "completed"
    PROVE  /\ Journals' /\ Acceptances' /\ Failures' /\ Elsewhere(t) /\ OthersClosed(t, a)'
           /\ Has(t, a, "prepared")' /\ latest'[t] = a /\ prepared'[<<t, a>>] = y
           /\ <<t, a>> \notin launched
           /\ \A q \in Phase \ {"prepared"} : ~Has(t, a, q)'
           /\ ~HumanBlocked(t, a)'
  <1>1. TypeOK
        BY DEF JInv, DepInv, TypeInv
  <1>2. "prepared" \in Phase \ {"blocked"}
        BY DEF Phase
  <1>3. /\ \A u, b, q : Has(u, b, q)' <=> Has(u, b, q) \/ (u = t /\ b = a /\ q = "prepared")
        /\ \A u, b : HumanBlocked(u, b)' <=> HumanBlocked(u, b)
        /\ \A u : Used(u)' = Used(u) \cup (IF u = t THEN {a} ELSE {})
        BY <1>2, AddRec
  <1>4. /\ \A q : ~Has(t, a, q)
        /\ ~HumanBlocked(t, a)
        BY HasUsed
  <1>5. /\ \A q \in Phase \ {"prepared"} : ~Has(t, a, q)'
        /\ ~HumanBlocked(t, a)' /\ Has(t, a, "prepared")'
        BY <1>3, <1>4
  <1>6. /\ latest'[t] = a /\ \A u \in Task \ {t} : latest'[u] = latest[u]
        /\ prepared'[<<t, a>>] = y
        /\ \A u \in Task, b \in Attempt : (u # t \/ b # a) =>
              prepared'[<<u, b>>] = prepared[<<u, b>>]
    <2>1. /\ latest \in [Task -> Attempt \cup {NoAttempt}]
          /\ prepared \in [Task \X Attempt -> Prepared]
          BY <1>1 DEF TypeOK
    <2>2. <<t, a>> \in Task \X Attempt
          OBVIOUS
    <2>3. \A u \in Task, b \in Attempt :
             <<u, b>> \in Task \X Attempt /\ ((u # t \/ b # a) => <<u, b>> # <<t, a>>)
          OBVIOUS
    <2>4. latest'[t] = a /\ \A u \in Task \ {t} : latest'[u] = latest[u]
          BY <2>1
    <2>5. prepared'[<<t, a>>] = y
          BY <2>1, <2>2
    <2>6. \A z \in Task \X Attempt : z # <<t, a>> => prepared'[z] = prepared[z]
          BY <2>1
    <2> QED BY <2>3, <2>4, <2>5, <2>6
  <1>7. \A u \in Task, b \in Attempt : (u # t \/ b # a) =>
            /\ SameRecords(u, b)
            /\ \A q : Has(u, b, q)' <=> Has(u, b, q)
        BY <1>3 DEF SameRecords
  <1>8. <<t, a>> \notin launched
        BY <1>4 DEF JInv, Journals, Journal
  <1>9. ASSUME NEW u \in Task, NEW b \in Attempt, u # t \/ b # a
        PROVE  Journal(u, b)'
    <2>1. (Observed(u, b)' <=> Observed(u, b)) /\ (Closed(u, b)' <=> Closed(u, b))
          BY <1>7, <1>9, SameAttempt
    <2>2. Journal(u, b)
          BY DEF JInv, Journals
    <2>3. b \in Used(u)' <=> b \in Used(u)
          BY <1>3, <1>9
    <2>4. u = t => (b \in Used(u) => Closed(u, b))
          BY NoAttemptIsNone DEF OthersClosed
    <2>5. \A q : Has(u, b, q)' <=> Has(u, b, q)
          BY <1>7, <1>9
    <2>6. /\ prepared'[<<u, b>>] = prepared[<<u, b>>]
          /\ HumanBlocked(u, b)' <=> HumanBlocked(u, b)
          /\ u # t => latest'[u] = latest[u]
          BY <1>3, <1>6, <1>9
    <2> QED BY <2>1, <2>2, <2>3, <2>4, <2>5, <2>6 DEF Journal
  <1>10. Journal(t, a)'
    <2>1. /\ ~Has(t, a, "pre-spawn-failure")' /\ ~Has(t, a, "recovery-prepared")'
          /\ ~Has(t, a, "disposed")' /\ ~Has(t, a, "recovered")' /\ ~Has(t, a, "accepted")'
          BY <1>5 DEF Phase
    <2> QED BY <1>5, <1>6, <2>1 DEF Journal
  <1>11. Journals'
        BY <1>9, <1>10 DEF Journals
  <1>12. Acceptances'
    <2> SUFFICES ASSUME NEW u \in Task, NEW b \in Attempt, queue[u].acceptance = b
                 PROVE  /\ AlreadyAccepted(u, b)'
                        /\ latest'[u] = b /\ queue[u].fence = NoAttempt
                        /\ ~HumanBlocked(u, b)' /\ ~Has(u, b, "recovery-prepared")'
        BY DEF Acceptances
    <2>1. /\ AlreadyAccepted(u, b) /\ latest[u] = b /\ queue[u].fence = NoAttempt
          /\ ~HumanBlocked(u, b) /\ ~Has(u, b, "recovery-prepared")
          BY DEF JInv, Acceptances
    <2>2. u # t
          BY <2>1 DEF AlreadyAccepted
    <2> QED BY <1>3, <1>6, <1>7, <2>1, <2>2 DEF AlreadyAccepted
  <1>13. Failures'
    <2>1. ASSUME NEW u \in Task, NEW b \in Attempt PROVE ~NotStarted(u, b)'
          BY <1>3 DEF NoFailure, NotStarted
    <2> QED BY <2>1, NoFailureLater DEF NoFailure
  <1>14. Elsewhere(t)
        BY <1>3, <1>6, <1>7 DEF Elsewhere
  <1>15. OthersClosed(t, a)'
    <2> SUFFICES ASSUME NEW b \in Used(t) \ {a} PROVE Closed(t, b)'
        BY <1>3 DEF OthersClosed
    <2>1. b \in Attempt
          BY DEF Used
    <2>2. Closed(t, b)
          BY <2>1, NoAttemptIsNone DEF OthersClosed
    <2> QED BY <1>7, <2>1, <2>2, SameAttempt
  <1> QED BY <1>5, <1>6, <1>8, <1>11, <1>12, <1>13, <1>14, <1>15

LEMMA RunPrepares ==
    ASSUME JInv, [Next]_vars, RunPrepare
    PROVE  JInv'
  <1>1. PICK t, a0 : t = local.task /\ a0 = local.attempt
        OBVIOUS
  <1>2. pc = "prepare" /\ UNCHANGED <<queue, trailing, launched>>
        BY DEF RunPrepare, history
  <1>3. /\ t \in Task /\ local \in Local /\ HolderOf(t, a0)
        BY <1>1 DEF JInv, DepInv, TypeInv, TypeOK, Local, Holder
  <1>4. NoFailure
        BY <1>2, BusyNoFailure DEF JInv
  <1>5. /\ InProgress(t) /\ OthersClosed(t, NoAttempt) /\ OthersResolved(t)
        /\ local.pre \in {"pending", "in-progress", "awaiting-decision"}
        BY <1>2, <1>3 DEF HolderOf, Transitioning
  <1>6. ASSUME NEW a \in Attempt, NextAttempt(t, a), events' = events \cup {Rec(t, a, "prepared")},
               prepared' = [prepared EXCEPT ![<<t, a>>] = [pre |-> local.pre, post |-> NoQueue]],
               latest' = [latest EXCEPT ![t] = a],
               local' = [local EXCEPT !.attempt = a, !.pre = "in-progress"], pc' = "launch"
        PROVE  JInv'
    <2>1. PICK y : y = [pre |-> local.pre, post |-> NoQueue]
          OBVIOUS
    <2>2. y.pre \in {"pending", "in-progress", "awaiting-decision"}
          BY <1>5, <2>1
    <2>3. a \in Attempt \ Used(t) /\ queue[t].status # "completed"
          BY <1>5, <1>6 DEF NextAttempt, InProgress
    <2>4. /\ Journals' /\ Acceptances' /\ Failures' /\ Elsewhere(t) /\ OthersClosed(t, a)'
          /\ Has(t, a, "prepared")' /\ latest'[t] = a
          /\ \A q \in Phase \ {"prepared"} : ~Has(t, a, q)'
      <3>1. prepared' = [prepared EXCEPT ![<<t, a>>] = y]
            BY <1>6, <2>1
      <3> QED BY <1>2, <1>3, <1>4, <1>5, <1>6, <2>2, <2>3, <3>1, NewAttempt
    <2>5. local'.task = t /\ local'.attempt = a
          BY <1>1, <1>3, <1>6 DEF Local
    <2>6. HolderOf(t, a)'
      <3>1. OthersResolved(t)'
            BY <1>3, <1>5, <2>4, OthersStay
      <3>2. InRun(t, a)'
        <4>1. ~Has(t, a, "pre-spawn-failure")'
              BY <2>4 DEF Phase
        <4>2. InProgress(t)'
              BY <1>2, <1>5 DEF InProgress
        <4> QED BY <1>6, <2>4, <4>1, <4>2 DEF InRun
      <3> QED BY <1>6, <2>4, <3>1, <3>2 DEF HolderOf, Transitioning, InFence, InRecovery,
                 InFinalization
    <2> QED BY <2>4, <2>5, <2>6, DepNext, HolderFor DEF JInv
  <1>7. ASSUME pc' = "release", UNCHANGED <<events, prepared, latest, local>>
        PROVE  JInv'
    <2>1. /\ Journals' /\ Acceptances' /\ NoFailure'
          /\ \A u : Used(u)' = Used(u)
          /\ \A u, b : SameRecords(u, b)
          BY <1>2, <1>4, <1>7, JournalsStay DEF JInv
    <2>2. Elsewhere(t)
          BY <1>2, <1>7, <2>1 DEF Elsewhere
    <2>3. OthersResolved(t)'
          BY <1>3, <1>5, <2>2, OthersStay
    <2>4. HolderOf(t, a0)'
          BY <1>7, <2>3 DEF HolderOf, Transitioning, InRun, InFence, InRecovery, InFinalization,
             InAttempt, Running
    <2> QED BY <1>1, <1>7, <2>1, <2>4, DepNext, NoFailureLater, HolderFor DEF JInv
  <1> QED BY <1>1, <1>6, <1>7 DEF RunPrepare

LEMMA FenceBegins ==
    ASSUME JInv, [Next]_vars, NEW t \in Task, NEW a \in Attempt, FenceBegin(t, a)
    PROVE  JInv'
  <1>1. /\ CanFencePreSpawn(t) /\ ComponentRecovered /\ NextAttempt(t, a)
        /\ events' = events \cup {Rec(t, a, "prepared")}
        /\ prepared' = [prepared EXCEPT ![<<t, a>>] =
                            [pre |-> queue[t].status, post |-> FencedQueue(queue, t, a)]]
        /\ latest' = [latest EXCEPT ![t] = a]
        /\ pc' = "f-replace" /\ local' = [For(t) EXCEPT !.attempt = a]
        /\ UNCHANGED <<queue, trailing, launched>>
        BY DEF FenceBegin, history
  <1>2. /\ OthersResolved(t) /\ NoFailure /\ AttemptsResolved(t, NoAttempt)
        /\ t \notin trailing
        BY <1>1, RecoveredOthers, RecoveredNoFailure DEF JInv
  <1>3. queue[t].status \in {"pending", "in-progress"}
        BY <1>1 DEF CanFencePreSpawn, TaskIsReady
  <1>4. OthersClosed(t, NoAttempt)
        BY <1>2, <1>3, RecoveredClosed DEF Settled
  <1>5. PICK y : y = [pre |-> queue[t].status, post |-> FencedQueue(queue, t, a)]
        OBVIOUS
  <1>6. y.pre = queue[t].status /\ y.post = FencedQueue(queue, t, a)
        BY <1>5
  <1>7. y.post \in Queue
    <2>1. queue \in Queue
          BY DEF JInv, DepInv, TypeInv, TypeOK
    <2>2. FencedQueue(queue, t, a) \in Queue
          BY <2>1, QueueType
    <2> QED BY <1>6, <2>2
  <1>8. /\ Journals' /\ Acceptances' /\ Failures' /\ Elsewhere(t) /\ OthersClosed(t, a)'
        /\ Has(t, a, "prepared")' /\ latest'[t] = a /\ prepared'[<<t, a>>] = y
        /\ <<t, a>> \notin launched
        /\ \A q \in Phase \ {"prepared"} : ~Has(t, a, q)'
        /\ ~HumanBlocked(t, a)'
    <2>1. prepared' = [prepared EXCEPT ![<<t, a>>] = y]
          BY <1>1, <1>5
    <2>2. a \in Attempt \ Used(t)
          BY <1>1 DEF NextAttempt
    <2> QED BY <1>1, <1>2, <1>3, <1>4, <1>6, <2>1, <2>2, NewAttempt
  <1>9. local'.task = t /\ local'.attempt = a
        BY <1>1, ForFields DEF Local
  <1>10. HolderOf(t, a)'
    <2>1. OthersResolved(t)'
          BY <1>2, <1>8, OthersStay
    <2>2. ~Observed(t, a)' /\ ~LifecycleAdvanced(t, a)' /\ ~Has(t, a, "pre-spawn-failure")'
          BY <1>8 DEF Observed, LifecycleAdvanced, Phase
    <2>3. InFence(t, a)'
          BY <1>1, <1>2, <1>3, <1>6, <1>7, <1>8, <2>2 DEF InFence
    <2> QED BY <1>1, <1>8, <2>1, <2>3 DEF HolderOf, Transitioning, InRun, InRecovery,
               InFinalization, Running
  <1> QED BY <1>8, <1>9, <1>10, DepNext, HolderFor DEF JInv

---------------------------------------------------------------------------
(* A failure before the launch, and its recovery *)

\* When task recover finds all but its own attempt recovered.
LEMMA RecoveredExcept ==
    ASSUME NEW t \in Task, NEW a \in Attempt, Journals', OthersResolved(t)', OthersClosed(t, a)',
           t \notin trailing', queue'[t].fence \in {NoAttempt, a}
    PROVE  ResolvedExcept(t, a)'
  <1>1. \A u \in Task \ {t} : queue'[u].fence = NoAttempt /\ AttemptsResolved(u, NoAttempt)'
        BY DEF OthersResolved
  <1>2. AttemptsResolved(t, a)'
    <2>1. Admissible(t)'
      <3>1. \A b \in Used(t)' : b \in Attempt
            BY DEF Used
      <3> QED BY <3>1 DEF Admissible, Journals, Journal
    <2>2. \A b \in Used(t)' \ {a} : Closed(t, b)'
          BY DEF OthersClosed
    <2> QED BY <2>1, <2>2 DEF AttemptsResolved, FullyRecovered, Closed
  <1> QED BY <1>1, <1>2 DEF ResolvedExcept

LEMMA ExceptGives ==
    ASSUME NEW t \in Task, NEW a \in Attempt, ResolvedExcept(t, a)
    PROVE  OthersResolved(t) /\ AttemptsResolved(t, a) /\ t \notin trailing
  BY DEF ResolvedExcept, OthersResolved, AttemptsResolved

\* What is known of a failure that has to be recovered.
LEMMA FailureHas ==
    ASSUME JInv, NEW t \in Task, NEW a \in Attempt, NotStarted(t, a)
    PROVE  /\ Journal(t, a) /\ CanRecover(t, a) /\ OthersResolved(t) /\ OthersClosed(t, a)
           /\ t \notin trailing /\ latest[t] = a /\ Has(t, a, "prepared")
           /\ queue[t].status \in {"pending", "in-progress"}
           /\ prepared[<<t, a>>].pre \in {"pending", "in-progress"}
           /\ prepared[<<t, a>>].post \in Queue
           /\ \A u \in Task, b \in Attempt : NotStarted(u, b) => u = t /\ b = a
           /\ \A b \in Attempt : queue[t].acceptance # b
  <1>1. Journal(t, a) /\ CanRecover(t, a) /\ Has(t, a, "pre-spawn-failure")
        BY DEF JInv, Journals, Failures, NotStarted
  <1>2. OthersResolved(t) /\ AttemptsResolved(t, a) /\ t \notin trailing
        BY <1>1, ExceptGives DEF CanRecover
  <1>3. queue[t].status \in {"pending", "in-progress"} /\ Has(t, a, "prepared")
        BY <1>1 DEF CanRecover, RecoveryCandidate
  <1>4. OthersClosed(t, a)
        BY <1>2, <1>3, RecoveredClosed DEF Settled
  <1>5. latest[t] = a
        BY NotStartedOpen DEF JInv
  <1>6. \A u \in Task, b \in Attempt : NotStarted(u, b) => u = t /\ b = a
        BY <1>2, <1>5, OneFailure DEF JInv
  <1>7. \A b \in Attempt : queue[t].acceptance # b
        BY <1>3 DEF JInv, Acceptances, AlreadyAccepted
  <1> QED BY <1>1, <1>2, <1>3, <1>4, <1>5, <1>6, <1>7 DEF Journal

LEMMA FenceReplaces ==
    ASSUME JInv, [Next]_vars, FenceReplace
    PROVE  JInv'
  <1>1. PICK t, a : t = local.task /\ a = local.attempt
        OBVIOUS
  <1>2. /\ pc = "f-replace" /\ pc' = "f-record" /\ queue' = FencedQueue(queue, t, a)
        /\ UNCHANGED <<events, prepared, latest, trailing, launched, local>>
        BY <1>1 DEF FenceReplace, Step, history
  <1>3. /\ t \in Task /\ TypeOK /\ queue[t] \in TaskRecord /\ HolderOf(t, a)
        /\ queue[t].status # "completed"
        BY <1>1, <1>2 DEF JInv, DepInv, TypeInv, TypeOK, Local, Queue, Holder, PendingWrite
  <1>4. /\ a \in Attempt /\ Has(t, a, "prepared") /\ latest[t] = a
        /\ OthersResolved(t) /\ InFence(t, a)
        BY <1>2, <1>3 DEF HolderOf, InAttempt
  <1>5. PICK x : x = [queue[t] EXCEPT !.status = "in-progress", !.fence = a]
        OBVIOUS
  <1>6. x.status = "in-progress" /\ x.fence = a /\ x.acceptance = queue[t].acceptance
        BY <1>3, <1>5 DEF TaskRecord
  <1>7. queue' = [queue EXCEPT ![t] = x]
        BY <1>2, <1>3, <1>5 DEF TypeOK, Queue, FencedQueue
  <1>8. queue'[t] = x /\ \A u \in Task \ {t} : queue'[u] = queue[u]
        BY <1>3, <1>7, QueueFields
  <1>9. /\ Journals' /\ NoFailure'
        /\ \A u : Used(u)' = Used(u)
        /\ \A u, b : SameRecords(u, b)
        /\ \A u, b, p : Has(u, b, p)' <=> Has(u, b, p)
        /\ \A u, b : HumanBlocked(u, b)' <=> HumanBlocked(u, b)
    <2>1. ~Has(t, a, "recovered")
          BY <1>2, <1>3, <1>4 DEF JInv, Journals, Journal, InFence
    <2>2. \A u \in Task, b \in Attempt : Has(u, b, "recovered") => queue'[u].fence # b
      <3>1. \A u \in Task, b \in Attempt : Has(u, b, "recovered") => queue[u].fence # b
            BY DEF JInv, Journals, Journal
      <3>2. \A u \in Task \ {t} : queue'[u].fence = queue[u].fence
            BY <1>8
      <3>3. queue'[t].fence = a
            BY <1>6, <1>8
      <3> QED BY <2>1, <3>1, <3>2, <3>3
    <2>3. NoFailure
          BY <1>2, BusyNoFailure DEF JInv
    <2> QED BY <1>2, <2>2, <2>3, QueueWritten DEF JInv
  <1>10. Acceptances'
    <2> SUFFICES ASSUME NEW u \in Task, NEW b \in Attempt, queue'[u].acceptance = b
                 PROVE  /\ AlreadyAccepted(u, b)'
                        /\ latest'[u] = b /\ queue'[u].fence = NoAttempt
                        /\ ~HumanBlocked(u, b)' /\ ~Has(u, b, "recovery-prepared")'
        BY DEF Acceptances
    <2>1. queue[u].acceptance = b
          BY <1>6, <1>8
    <2>2. /\ AlreadyAccepted(u, b) /\ latest[u] = b /\ queue[u].fence = NoAttempt
          /\ ~HumanBlocked(u, b) /\ ~Has(u, b, "recovery-prepared")
          BY <2>1 DEF JInv, Acceptances
    <2>3. u # t
          BY <1>3, <2>2 DEF AlreadyAccepted
    <2> QED BY <1>2, <1>8, <1>9, <2>2, <2>3 DEF AlreadyAccepted
  <1>11. HolderOf(t, a)'
    <2>1. Elsewhere(t)
          BY <1>2, <1>8, <1>9 DEF Elsewhere
    <2>2. OthersResolved(t)'
          BY <1>3, <1>4, <2>1, OthersStay
    <2>3. \A b : /\ Closed(t, b)' <=> Closed(t, b)
                 /\ Observed(t, b)' <=> Observed(t, b)
                 /\ LifecycleAdvanced(t, b)' <=> LifecycleAdvanced(t, b)
          BY <1>9, SameAttempt
    <2>4. /\ t \notin trailing /\ OthersClosed(t, a) /\ <<t, a>> \notin launched
          /\ ~Observed(t, a) /\ ~LifecycleAdvanced(t, a) /\ ~Has(t, a, "pre-spawn-failure")
          /\ prepared[<<t, a>>].pre \in {"pending", "in-progress"}
          /\ prepared[<<t, a>>].post \in Queue /\ queue' = prepared[<<t, a>>].post
          BY <1>2, <1>4 DEF InFence
    <2>5. OthersClosed(t, a)'
          BY <1>9, <2>3, <2>4 DEF OthersClosed
    <2>6. InFence(t, a)'
          BY <1>2, <1>6, <1>8, <1>9, <2>3, <2>4, <2>5 DEF InFence
    <2> QED BY <1>2, <1>4, <1>9, <2>2, <2>6 DEF HolderOf, Transitioning, InRun, InRecovery,
               InFinalization, Running
  <1> QED BY <1>1, <1>2, <1>9, <1>10, <1>11, DepNext, NoFailureLater, HolderFor DEF JInv

LEMMA FenceRecords ==
    ASSUME JInv, [Next]_vars, FenceRecord
    PROVE  JInv'
  <1>1. PICK t, a : t = local.task /\ a = local.attempt
        OBVIOUS
  <1>2. /\ pc = "f-record" /\ pc' = "release"
        /\ events' = events \cup {Rec(t, a, "pre-spawn-failure")}
        /\ latest' = [latest EXCEPT ![t] = a]
        /\ UNCHANGED <<queue, prepared, trailing, launched, local>>
        BY <1>1 DEF FenceRecord, Step, history
  <1>3. /\ t \in Task /\ TypeOK /\ HolderOf(t, a)
        BY <1>1 DEF JInv, DepInv, TypeInv, TypeOK, Local, Holder
  <1>4. /\ a \in Attempt /\ Has(t, a, "prepared") /\ latest[t] = a
        /\ OthersResolved(t) /\ InFence(t, a)
        BY <1>2, <1>3 DEF HolderOf, InAttempt
  <1>5. latest' = latest
        BY <1>2, <1>3, <1>4 DEF TypeOK
  <1>6. "pre-spawn-failure" \in Phase \ {"blocked", "prepared"}
        BY DEF Phase
  <1>7. /\ \A u \in Task, b \in Attempt : (u # t \/ b # a) => SameRecords(u, b) /\ Journal(u, b)'
        /\ \A u : Used(u)' = Used(u)
        /\ \A q : Has(t, a, q)' <=> Has(t, a, q) \/ q = "pre-spawn-failure"
        /\ HumanBlocked(t, a)' <=> HumanBlocked(t, a)
        /\ Acceptances'
        /\ \A u, b : Closed(u, b) => Closed(u, b)'
    <2>1. Journals /\ Acceptances
          BY DEF JInv
    <2> QED BY <1>2, <1>3, <1>4, <1>5, <1>6, <2>1, Appended
  <1>8. /\ t \notin trailing /\ OthersClosed(t, a) /\ <<t, a>> \notin launched
        /\ ~Observed(t, a) /\ ~LifecycleAdvanced(t, a)
        /\ prepared[<<t, a>>].pre \in {"pending", "in-progress"}
        /\ prepared[<<t, a>>].post \in Queue
        /\ queue = prepared[<<t, a>>].post
        /\ queue[t].status = "in-progress" /\ queue[t].fence = a
        BY <1>2, <1>4 DEF InFence
  <1>9. ~Observed(t, a)' /\ ~LifecycleAdvanced(t, a)'
        BY <1>7, <1>8 DEF Observed, LifecycleAdvanced
  <1>10. Journals'
    <2>1. Journal(t, a)
          BY <1>3, <1>4 DEF JInv, Journals
    <2>2. /\ Has(t, a, "prepared")'
          /\ Has(t, a, "disposed")' => Has(t, a, "disposed")
          /\ Has(t, a, "recovery-prepared")' => Has(t, a, "recovery-prepared")
          /\ Has(t, a, "recovered")' => Has(t, a, "recovered")
          /\ Has(t, a, "accepted")' => Has(t, a, "accepted")
          /\ Has(t, a, "pre-spawn-failure")'
          BY <1>4, <1>7
    <2>3. Has(t, a, "recovered") => Has(t, a, "recovery-prepared")
          BY <2>1 DEF Journal
    <2>4. Has(t, a, "recovery-prepared") => Has(t, a, "recovery-prepared")'
          BY <1>7
    <2>5. Journal(t, a)'
          BY <1>2, <1>4, <1>5, <1>7, <1>8, <1>9, <2>1, <2>2, <2>3, <2>4 DEF Journal
    <2> QED BY <1>7, <2>5 DEF Journals
  <1>11. Elsewhere(t)
        BY <1>2, <1>7 DEF Elsewhere
  <1>12. OthersResolved(t)'
        BY <1>3, <1>4, <1>11, OthersStay
  <1>13. CanRecover(t, a)'
    <2>1. OthersClosed(t, a)'
          BY <1>7, <1>8 DEF OthersClosed
    <2>2. ResolvedExcept(t, a)'
          BY <1>2, <1>3, <1>4, <1>8, <1>10, <1>12, <2>1, RecoveredExcept
    <2>3. RecoveryCandidate(t, a)'
          BY <1>2, <1>4, <1>7, <1>8, <1>9 DEF RecoveryCandidate
    <2>4. Fenced(t, a)'
          BY <1>2, <1>8 DEF Fenced
    <2> QED BY <2>2, <2>3, <2>4 DEF CanRecover
  <1>14. Failures'
    <2>1. NoFailure
          BY <1>2, BusyNoFailure DEF JInv
    <2>2. \A u \in Task, b \in Attempt : NotStarted(u, b)' => u = t /\ b = a
          BY <1>7, <2>1, SameAttempt DEF NoFailure
    <2> QED BY <1>2, <1>13, <2>2 DEF Failures
  <1>15. HolderOf(t, a)'
        BY <1>2, <1>12 DEF HolderOf, Transitioning, InRun, InFence, InRecovery, InFinalization,
           InAttempt, Running
  <1> QED BY <1>1, <1>2, <1>7, <1>10, <1>14, <1>15, DepNext, HolderFor DEF JInv

LEMMA RecoverBegins ==
    ASSUME JInv, [Next]_vars, NEW t \in Task, NEW a \in Attempt, RecoverBegin(t, a)
    PROVE  JInv'
  <1>1. /\ RecoveryCandidate(t, a) /\ local' = [For(t) EXCEPT !.attempt = a]
        /\ UNCHANGED <<queue, prepared, trailing, launched>>
        /\ \/ /\ ~Has(t, a, "recovery-prepared") /\ Fenced(t, a)
              /\ events' = events \cup {Rec(t, a, "recovery-prepared")}
              /\ latest' = [latest EXCEPT ![t] = a] /\ pc' = "rec-replace"
           \/ /\ Has(t, a, "recovery-prepared") /\ Fenced(t, a)
              /\ pc' = "rec-replace" /\ UNCHANGED <<events, latest>>
           \/ /\ Has(t, a, "recovery-prepared") /\ Unfenced(t, a) /\ ~Has(t, a, "recovered")
              /\ pc' = "rec-record" /\ UNCHANGED <<events, latest>>
        BY DEF RecoverBegin, history
  <1>2. NotStarted(t, a)
    <2>1. Has(t, a, "pre-spawn-failure") /\ Journal(t, a)
          BY <1>1 DEF RecoveryCandidate, JInv, Journals
    <2> QED BY <1>1, <2>1 DEF NotStarted, Journal, Fenced
  <1>3. /\ Journal(t, a) /\ CanRecover(t, a) /\ OthersResolved(t) /\ OthersClosed(t, a)
        /\ t \notin trailing /\ latest[t] = a /\ Has(t, a, "prepared")
        /\ \A u \in Task, b \in Attempt : NotStarted(u, b) => u = t /\ b = a
        /\ \A b \in Attempt : queue[t].acceptance # b
        BY <1>2, FailureHas
  <1>4. local'.task = t /\ local'.attempt = a
        BY <1>1, ForFields DEF Local
  <1>5. latest' = latest
        BY <1>1, <1>3 DEF JInv, DepInv, TypeInv, TypeOK
  <1>6. CASE UNCHANGED events
    <2>1. /\ Journals' /\ Acceptances'
          /\ \A u : Used(u)' = Used(u)
          /\ \A u, b : SameRecords(u, b)
          BY <1>1, <1>5, <1>6, JournalsStay DEF JInv
    <2>2. Failures'
          BY <1>1, <1>5, <1>6, FailuresStay DEF JInv
    <2>3. Elsewhere(t)
          BY <1>1, <2>1 DEF Elsewhere
    <2>4. OthersResolved(t)'
          BY <1>3, <2>3, OthersStay
    <2>5. /\ Has(t, a, "prepared")' /\ Has(t, a, "recovery-prepared")' /\ NotStarted(t, a)'
          /\ pc' = "rec-replace" => Fenced(t, a)'
          /\ pc' = "rec-record" => Unfenced(t, a)'
      <3>1. Has(t, a, "recovery-prepared") \/ Rec(t, a, "recovery-prepared") \in events'
            BY <1>1
      <3> QED BY <1>1, <1>2, <1>3, <1>6, <3>1 DEF Has, NotStarted, Fenced, Unfenced
    <2>6. HolderOf(t, a)'
          BY <1>1, <1>3, <1>5, <2>4, <2>5 DEF HolderOf, Transitioning, InRun, InFence, InRecovery,
             InFinalization, Running
    <2> QED BY <1>4, <2>1, <2>2, <2>6, DepNext, HolderFor DEF JInv
  <1>7. CASE /\ Fenced(t, a) /\ events' = events \cup {Rec(t, a, "recovery-prepared")}
             /\ pc' = "rec-replace"
    <2>1. "recovery-prepared" \in Phase \ {"blocked", "prepared"}
          BY DEF Phase
    <2>2. /\ \A u \in Task, b \in Attempt : (u # t \/ b # a) => SameRecords(u, b) /\ Journal(u, b)'
          /\ \A u : Used(u)' = Used(u)
          /\ \A q : Has(t, a, q)' <=> Has(t, a, q) \/ q = "recovery-prepared"
          /\ HumanBlocked(t, a)' <=> HumanBlocked(t, a)
          /\ \A u, b : Closed(u, b) => Closed(u, b)'
      <3>1. Journals /\ Acceptances
            BY DEF JInv
      <3> QED BY <1>1, <1>3, <1>5, <1>7, <2>1, <3>1, Appended
    <2>3. /\ Observed(t, a)' <=> Observed(t, a)
          /\ LifecycleAdvanced(t, a)' <=> LifecycleAdvanced(t, a)
          /\ NotStarted(t, a)'
          BY <1>2, <2>2 DEF Observed, LifecycleAdvanced, NotStarted
    <2>4. Journals'
      <3>1. /\ Has(t, a, "prepared")' /\ Has(t, a, "pre-spawn-failure")'
            /\ Has(t, a, "disposed")' => Has(t, a, "disposed")
            /\ ~Has(t, a, "recovered")'
            /\ Has(t, a, "accepted")' => Has(t, a, "accepted")
            BY <1>2, <1>3, <2>2 DEF NotStarted
      <3>2. Has(t, a, "prepared") /\ Has(t, a, "pre-spawn-failure")
            BY <1>2, <1>3 DEF NotStarted
      <3>3. Journal(t, a)'
            BY <1>1, <1>3, <1>5, <2>2, <2>3, <3>1, <3>2 DEF Journal
      <3> QED BY <2>2, <3>3 DEF Journals
    <2>5. Acceptances'
      <3> SUFFICES ASSUME NEW u \in Task, NEW b \in Attempt, queue[u].acceptance = b
                   PROVE  /\ AlreadyAccepted(u, b)'
                          /\ latest'[u] = b /\ queue'[u].fence = NoAttempt
                          /\ ~HumanBlocked(u, b)' /\ ~Has(u, b, "recovery-prepared")'
          BY <1>1 DEF Acceptances
      <3>1. u # t
            BY <1>3
      <3>2. /\ AlreadyAccepted(u, b) /\ latest[u] = b /\ queue[u].fence = NoAttempt
            /\ ~HumanBlocked(u, b) /\ ~Has(u, b, "recovery-prepared")
            BY DEF JInv, Acceptances
      <3>3. SameRecords(u, b)
            BY <2>2, <3>1
      <3> QED BY <1>1, <1>5, <3>2, <3>3 DEF AlreadyAccepted, SameRecords, Phase
    <2>6. Elsewhere(t)
          BY <1>1, <2>2 DEF Elsewhere
    <2>7. OthersResolved(t)'
          BY <1>3, <2>6, OthersStay
    <2>8. OthersClosed(t, a)'
          BY <1>3, <2>2 DEF OthersClosed
    <2>9. CanRecover(t, a)'
      <3>1. queue'[t].fence \in {NoAttempt, a}
            BY <1>1 DEF RecoveryCandidate
      <3>2. ResolvedExcept(t, a)'
            BY <1>1, <1>3, <2>4, <2>7, <2>8, <3>1, RecoveredExcept
      <3>3. RecoveryCandidate(t, a)'
            BY <1>1, <2>2, <2>3 DEF RecoveryCandidate
      <3>4. Fenced(t, a)'
            BY <1>1, <1>7 DEF Fenced
      <3> QED BY <3>2, <3>3, <3>4 DEF CanRecover
    <2>10. Failures'
      <3>1. \A u \in Task, b \in Attempt : NotStarted(u, b)' => u = t /\ b = a
            BY <1>3, <2>2, SameAttempt
      <3> QED BY <1>7, <2>9, <3>1 DEF Failures
    <2>11. HolderOf(t, a)'
      <3>1. Fenced(t, a)'
            BY <1>1, <1>7 DEF Fenced
      <3>2. Has(t, a, "recovery-prepared")' /\ Has(t, a, "prepared")'
            BY <1>3, <2>2
      <3> QED BY <1>3, <1>5, <1>7, <2>3, <2>7, <3>1, <3>2 DEF HolderOf, Transitioning, InRun,
                 InFence, InRecovery, InFinalization, Running
    <2> QED BY <1>4, <2>4, <2>5, <2>10, <2>11, DepNext, HolderFor DEF JInv
  <1> QED BY <1>1, <1>6, <1>7

LEMMA RecoverReplaces ==
    ASSUME JInv, [Next]_vars, RecoverReplace
    PROVE  JInv'
  <1>1. PICK t, a, pre : t = local.task /\ a = local.attempt /\ pre = prepared[<<t, a>>].pre
        OBVIOUS
  <1>2. /\ pc = "rec-replace" /\ pc' = "rec-record" /\ queue' = RecoveredQueue(queue, t, pre)
        /\ UNCHANGED <<events, prepared, latest, trailing, launched, local>>
        BY <1>1 DEF RecoverReplace, Step, history
  <1>3. /\ t \in Task /\ TypeOK /\ queue[t] \in TaskRecord /\ HolderOf(t, a)
        BY <1>1 DEF JInv, DepInv, TypeInv, TypeOK, Local, Queue, Holder
  <1>4. /\ a \in Attempt /\ NotStarted(t, a) /\ Has(t, a, "recovery-prepared") /\ Fenced(t, a)
        BY <1>2, <1>3 DEF HolderOf, InAttempt, InRecovery
  <1>5. /\ Journal(t, a) /\ CanRecover(t, a) /\ OthersResolved(t) /\ OthersClosed(t, a)
        /\ t \notin trailing /\ latest[t] = a /\ Has(t, a, "prepared")
        /\ pre \in {"pending", "in-progress"}
        /\ \A u \in Task, b \in Attempt : NotStarted(u, b) => u = t /\ b = a
        /\ \A b \in Attempt : queue[t].acceptance # b
        BY <1>1, <1>3, <1>4, FailureHas
  <1>6. PICK x : x = [queue[t] EXCEPT !.status = pre, !.fence = NoAttempt]
        OBVIOUS
  <1>7. x.status = pre /\ x.fence = NoAttempt /\ x.acceptance = queue[t].acceptance
        BY <1>3, <1>6 DEF TaskRecord
  <1>8. queue' = [queue EXCEPT ![t] = x]
        BY <1>2, <1>3, <1>6 DEF TypeOK, Queue, RecoveredQueue
  <1>9. queue'[t] = x /\ \A u \in Task \ {t} : queue'[u] = queue[u]
        BY <1>3, <1>8, QueueFields
  <1>10. /\ Journals'
         /\ \A u : Used(u)' = Used(u)
         /\ \A u, b : SameRecords(u, b)
         /\ \A u, b, p : Has(u, b, p)' <=> Has(u, b, p)
         /\ \A u, b : HumanBlocked(u, b)' <=> HumanBlocked(u, b)
    <2>1. \A u \in Task, b \in Attempt : Has(u, b, "recovered") => queue[u].fence # b
          BY DEF JInv, Journals, Journal
    <2>2. \A u \in Task : queue'[u].fence \in {queue[u].fence, NoAttempt}
          BY <1>7, <1>9
    <2>3. Journals
          BY DEF JInv
    <2> QED BY <1>2, <2>1, <2>2, <2>3, NoAttemptIsNone, QueueWritten
  <1>11. Acceptances'
    <2> SUFFICES ASSUME NEW u \in Task, NEW b \in Attempt, queue'[u].acceptance = b
                 PROVE  /\ AlreadyAccepted(u, b)'
                        /\ latest'[u] = b /\ queue'[u].fence = NoAttempt
                        /\ ~HumanBlocked(u, b)' /\ ~Has(u, b, "recovery-prepared")'
        BY DEF Acceptances
    <2>1. u # t
          BY <1>5, <1>7, <1>9
    <2>2. /\ AlreadyAccepted(u, b) /\ latest[u] = b /\ queue[u].fence = NoAttempt
          /\ ~HumanBlocked(u, b) /\ ~Has(u, b, "recovery-prepared")
          BY <1>9, <2>1 DEF JInv, Acceptances
    <2> QED BY <1>2, <1>9, <1>10, <2>1, <2>2 DEF AlreadyAccepted
  <1>12. Elsewhere(t)
        BY <1>2, <1>9, <1>10 DEF Elsewhere
  <1>13. OthersResolved(t)'
        BY <1>3, <1>5, <1>12, OthersStay
  <1>14. /\ \A u, b : NotStarted(u, b)' <=> NotStarted(u, b)
         /\ \A b : Closed(t, b)' <=> Closed(t, b)
         /\ Observed(t, a)' <=> Observed(t, a)
         /\ LifecycleAdvanced(t, a)' <=> LifecycleAdvanced(t, a)
        BY <1>10, SameAttempt
  <1>15. Unfenced(t, a)'
        BY <1>1, <1>2, <1>4 DEF Fenced, Unfenced
  <1>16. CanRecover(t, a)'
    <2>1. OthersClosed(t, a)'
          BY <1>5, <1>10, <1>14 DEF OthersClosed
    <2>2. ResolvedExcept(t, a)'
          BY <1>2, <1>3, <1>4, <1>5, <1>7, <1>9, <1>10, <1>13, <2>1, RecoveredExcept
    <2>3. RecoveryCandidate(t, a)
          BY <1>5 DEF CanRecover
    <2>4. RecoveryCandidate(t, a)'
          BY <1>5, <1>7, <1>9, <1>10, <1>14, <2>3 DEF RecoveryCandidate
    <2> QED BY <1>4, <1>10, <1>15, <2>2, <2>4 DEF CanRecover
  <1>17. Failures'
        BY <1>2, <1>5, <1>14, <1>16 DEF Failures
  <1>18. HolderOf(t, a)'
        BY <1>2, <1>4, <1>5, <1>10, <1>13, <1>14, <1>15 DEF HolderOf, Transitioning, InRun,
           InFence, InRecovery, InFinalization, Running
  <1> QED BY <1>1, <1>2, <1>10, <1>11, <1>17, <1>18, DepNext, HolderFor DEF JInv

LEMMA RecoverStops ==
    ASSUME JInv, [Next]_vars, RecoverRefused
    PROVE  JInv'
  <1>1. PICK t, a : t = local.task /\ a = local.attempt
        OBVIOUS
  <1>2. /\ pc # "idle" /\ pc' = "release" /\ UNCHANGED local
        /\ UNCHANGED <<queue, events, prepared, latest, trailing, launched>>
        BY DEF RecoverRefused, Step, stored, history
  <1>3. t \in Task /\ OthersResolved(t)
        BY <1>1, <1>2 DEF JInv, DepInv, TypeInv, TypeOK, Local, Holder, HolderOf
  <1>4. /\ Journals' /\ Acceptances'
        /\ \A u : Used(u)' = Used(u)
        /\ \A u, b : SameRecords(u, b)
        BY <1>2, JournalsStay DEF JInv
  <1>5. Failures'
        BY <1>2, FailuresStay DEF JInv
  <1>6. OthersResolved(t)'
    <2>1. Elsewhere(t)
          BY <1>2, <1>4 DEF Elsewhere
    <2> QED BY <1>3, <2>1, OthersStay
  <1>7. HolderOf(t, a)'
        BY <1>2, <1>6 DEF HolderOf, Transitioning, InRun, InFence, InRecovery, InFinalization,
           InAttempt, Running
  <1>8. Holder'
        BY <1>1, <1>2, <1>7, HolderFor
  <1> QED BY <1>4, <1>5, <1>8, DepNext DEF JInv

LEMMA RecoverRecords ==
    ASSUME JInv, [Next]_vars, RecoverRecord
    PROVE  JInv'
  <1>1. PICK t, a : t = local.task /\ a = local.attempt
        OBVIOUS
  <1>2. /\ pc = "rec-record" /\ pc' = "release"
        /\ events' = events \cup {Rec(t, a, "recovered")}
        /\ latest' = [latest EXCEPT ![t] = a]
        /\ UNCHANGED <<queue, prepared, trailing, launched, local>>
        BY <1>1 DEF RecoverRecord, Step, history
  <1>3. /\ t \in Task /\ TypeOK /\ HolderOf(t, a)
        BY <1>1 DEF JInv, DepInv, TypeInv, TypeOK, Local, Holder
  <1>4. /\ a \in Attempt /\ NotStarted(t, a) /\ Has(t, a, "recovery-prepared") /\ Unfenced(t, a)
        BY <1>2, <1>3 DEF HolderOf, InAttempt, InRecovery
  <1>5. /\ Journal(t, a) /\ OthersResolved(t) /\ latest[t] = a /\ Has(t, a, "prepared")
        /\ prepared[<<t, a>>].post \in Queue
        /\ \A u \in Task, b \in Attempt : NotStarted(u, b) => u = t /\ b = a
        BY <1>3, <1>4, FailureHas
  <1>6. queue[t].fence = NoAttempt
    <2>1. PICK q, pre : q = prepared[<<t, a>>].post /\ pre = prepared[<<t, a>>].pre
          OBVIOUS
    <2>2. q[t] \in TaskRecord /\ q \in Queue
          BY <1>3, <1>5, <2>1 DEF Queue
    <2>3. [q[t] EXCEPT !.status = pre, !.fence = NoAttempt].fence = NoAttempt
          BY <2>2 DEF TaskRecord
    <2>4. RecoveredQueue(q, t, pre)[t] = [q[t] EXCEPT !.status = pre, !.fence = NoAttempt]
          BY <1>3, <2>2 DEF RecoveredQueue, Queue
    <2> QED BY <1>4, <2>1, <2>3, <2>4 DEF Unfenced
  <1>7. latest' = latest
        BY <1>2, <1>3, <1>5 DEF TypeOK
  <1>8. "recovered" \in Phase \ {"blocked", "prepared"}
        BY DEF Phase
  <1>9. /\ \A u \in Task, b \in Attempt : (u # t \/ b # a) => SameRecords(u, b) /\ Journal(u, b)'
        /\ \A u : Used(u)' = Used(u)
        /\ \A q : Has(t, a, q)' <=> Has(t, a, q) \/ q = "recovered"
        /\ HumanBlocked(t, a)' <=> HumanBlocked(t, a)
        /\ Acceptances'
    <2>1. Journals /\ Acceptances
          BY DEF JInv
    <2> QED BY <1>2, <1>3, <1>4, <1>5, <1>7, <1>8, <2>1, Appended
  <1>10. Observed(t, a)' <=> Observed(t, a)
        BY <1>9 DEF Observed
  <1>11. Journals'
    <2>1. /\ \A q : q # "recovered" => (Has(t, a, q)' <=> Has(t, a, q))
          BY <1>9
    <2>2. queue'[t].fence # a
          BY <1>2, <1>4, <1>6, NoAttemptIsNone
    <2>3. Journal(t, a)'
          BY <1>2, <1>4, <1>5, <1>7, <1>9, <1>10, <2>1, <2>2 DEF Journal
    <2> QED BY <1>9, <2>3 DEF Journals
  <1>12. NoFailure'
    <2>1. ~NotStarted(t, a)'
          BY <1>9 DEF NotStarted
    <2>2. \A u \in Task, b \in Attempt : NotStarted(u, b)' => u = t /\ b = a
          BY <1>5, <1>9, SameAttempt
    <2> QED BY <2>1, <2>2 DEF NoFailure
  <1>13. HolderOf(t, a)'
    <2>1. Elsewhere(t)
          BY <1>2, <1>9 DEF Elsewhere
    <2>2. OthersResolved(t)'
          BY <1>3, <1>5, <2>1, OthersStay
    <2> QED BY <1>2, <2>2 DEF HolderOf, Transitioning, InRun, InFence, InRecovery, InFinalization,
               InAttempt, Running
  <1> QED BY <1>1, <1>2, <1>9, <1>11, <1>12, <1>13, DepNext, NoFailureLater, HolderFor DEF JInv

---------------------------------------------------------------------------
(* Finalization *)

\* What is known of an attempt a human finalizes.
LEMMA FinalizableHas ==
    ASSUME JInv, NEW t \in Task, NEW a \in Attempt, Finalizable(t, a)
    PROVE  /\ NoFailure /\ latest[t] = a /\ Has(t, a, "prepared") /\ OthersResolved(t)
           /\ queue[t].fence = NoAttempt
           /\ ~Has(t, a, "recovery-prepared") /\ ~Has(t, a, "recovered")
           /\ queue \in Queue /\ queue[t] \in TaskRecord /\ TypeOK
  <1>1. NoFailure
        BY FinalizableNoFailure DEF JInv
  <1>2. queue \in Queue /\ queue[t] \in TaskRecord /\ TypeOK
        BY DEF JInv, DepInv, TypeInv, TypeOK, Queue
  <1> QED BY <1>1, <1>2, GateResolves DEF Finalizable

LEMMA AcceptBegins ==
    ASSUME JInv, [Next]_vars, NEW t \in Task, NEW a \in Attempt, AcceptBegin(t, a)
    PROVE  JInv'
  <1>1. /\ Finalizable(t, a) /\ ~HumanBlocked(t, a)
        /\ local' = [For(t) EXCEPT !.attempt = a]
        /\ UNCHANGED <<events, prepared, latest, trailing, launched>>
        BY DEF AcceptBegin, AcceptGuard, history
  <1>2. /\ NoFailure /\ latest[t] = a /\ Has(t, a, "prepared") /\ OthersResolved(t)
        /\ queue[t].fence = NoAttempt
        /\ ~Has(t, a, "recovery-prepared") /\ ~Has(t, a, "recovered")
        /\ queue \in Queue /\ queue[t] \in TaskRecord /\ TypeOK
        BY <1>1, FinalizableHas
  <1>3. local'.task = t /\ local'.attempt = a
        BY <1>1, ForFields DEF Local
  <1>4. PICK x : x \in {[queue[t] EXCEPT !.fence = a],
                        [queue[t] EXCEPT !.status = "completed", !.acceptance = a,
                                         !.disposition = "accept"], queue[t]}
              /\ queue' = [queue EXCEPT ![t] = x]
              /\ \/ pc' = "release" /\ x = [queue[t] EXCEPT !.fence = a] /\ ~AlreadyAccepted(t, a)
                 \/ pc' = "a-record" /\ x = [queue[t] EXCEPT !.status = "completed",
                                               !.acceptance = a, !.disposition = "accept"]
                 \/ pc' = "a-record" /\ x = queue[t] /\ AlreadyAccepted(t, a)
        BY <1>2 DEF AcceptBegin, Queue
  <1>5. queue'[t] = x /\ \A u \in Task \ {t} : queue'[u] = queue[u]
        BY <1>2, <1>4, QueueFields
  <1>6. /\ x.fence \in {NoAttempt, a}
        /\ pc' = "release" => x.acceptance = queue[t].acceptance /\ ~AlreadyAccepted(t, a)
        /\ pc' = "a-record" =>
              /\ x.status = "completed" /\ x.disposition = "accept" /\ x.acceptance = a
              /\ x.fence = NoAttempt
        /\ pc' \in {"release", "a-record"}
        BY <1>2, <1>4 DEF TaskRecord, AlreadyAccepted
  <1>7. /\ Journals' /\ NoFailure'
        /\ \A u : Used(u)' = Used(u)
        /\ \A u, b : SameRecords(u, b)
        /\ \A u, b, p : Has(u, b, p)' <=> Has(u, b, p)
        /\ \A u, b : HumanBlocked(u, b)' <=> HumanBlocked(u, b)
    <2>1. \A u \in Task \ {t}, b \in Attempt : Has(u, b, "recovered") => queue'[u].fence # b
          BY <1>5 DEF JInv, Journals, Journal
    <2>2. \A b \in Attempt : Has(t, b, "recovered") => queue'[t].fence # b
          BY <1>2, <1>5, <1>6, NoAttemptIsNone
    <2>3. Journals
          BY DEF JInv
    <2> QED BY <1>1, <1>2, <2>1, <2>2, <2>3, QueueWritten
  <1>8. Acceptances'
    <2> SUFFICES ASSUME NEW u \in Task, NEW b \in Attempt, queue'[u].acceptance = b
                 PROVE  /\ AlreadyAccepted(u, b)'
                        /\ latest'[u] = b /\ queue'[u].fence = NoAttempt
                        /\ ~HumanBlocked(u, b)' /\ ~Has(u, b, "recovery-prepared")'
        BY DEF Acceptances
    <2>1. queue[u].acceptance = b =>
              /\ AlreadyAccepted(u, b) /\ latest[u] = b /\ queue[u].fence = NoAttempt
              /\ ~HumanBlocked(u, b) /\ ~Has(u, b, "recovery-prepared")
          BY DEF JInv, Acceptances
    <2>2. CASE u # t
          BY <1>1, <1>5, <1>7, <2>1, <2>2 DEF AlreadyAccepted
    <2>3. CASE u = t /\ pc' = "release"
      <3>1. AlreadyAccepted(t, a)
            BY <1>2, <1>5, <1>6, <2>1, <2>3
      <3> QED BY <1>6, <2>3, <3>1
    <2>4. CASE u = t /\ pc' = "a-record"
          BY <1>1, <1>2, <1>5, <1>6, <1>7, <2>4 DEF AlreadyAccepted
    <2> QED BY <1>6, <2>2, <2>3, <2>4
  <1>9. HolderOf(t, a)'
    <2>1. Elsewhere(t)
          BY <1>1, <1>5, <1>7 DEF Elsewhere
    <2>2. OthersResolved(t)'
          BY <1>2, <2>1, OthersStay
    <2>3. InFinalization(t, a)'
          BY <1>1, <1>5, <1>6, <1>7 DEF InFinalization
    <2> QED BY <1>1, <1>2, <1>6, <1>7, <2>2, <2>3 DEF HolderOf, Transitioning, InRun, InFence,
               InRecovery, Running
  <1> QED BY <1>3, <1>7, <1>8, <1>9, DepNext, NoFailureLater, HolderFor DEF JInv

LEMMA AcceptRecords ==
    ASSUME JInv, [Next]_vars, AcceptRecord
    PROVE  JInv'
  <1>1. PICK t, a : t = local.task /\ a = local.attempt
        OBVIOUS
  <1>2. /\ pc = "a-record" /\ pc' = "release"
        /\ events' = events \cup {Rec(t, a, "accepted")}
        /\ trailing' \in {trailing, trailing \ {t}}
        /\ UNCHANGED <<queue, prepared, latest, launched, local>>
        BY <1>1 DEF AcceptRecord, Step, history
  <1>3. /\ t \in Task /\ HolderOf(t, a) /\ Journals /\ Acceptances
        BY <1>1 DEF JInv, DepInv, TypeInv, TypeOK, Local, Holder
  <1>4. /\ a \in Attempt /\ Has(t, a, "prepared") /\ latest[t] = a /\ ~HumanBlocked(t, a)
        /\ OthersResolved(t)
        BY <1>2, <1>3 DEF HolderOf, InAttempt, InFinalization
  <1>5. NoFailure
        BY <1>2, BusyNoFailure DEF JInv
  <1>6. "accepted" \in Phase \ {"blocked", "prepared"}
        BY DEF Phase
  <1>7. /\ \A u \in Task, b \in Attempt : (u # t \/ b # a) => SameRecords(u, b) /\ Journal(u, b)'
        /\ \A u : Used(u)' = Used(u)
        /\ \A q : Has(t, a, q)' <=> Has(t, a, q) \/ q = "accepted"
        /\ HumanBlocked(t, a)' <=> HumanBlocked(t, a)
        /\ Acceptances'
        BY <1>2, <1>3, <1>4, <1>6, Appended
  <1>8. Journals'
    <2>1. \A q : q # "accepted" => (Has(t, a, q)' <=> Has(t, a, q))
          BY <1>7
    <2>2. Observed(t, a)' <=> Observed(t, a)
          BY <1>7 DEF Observed
    <2>3. Journal(t, a)
          BY <1>3, <1>4 DEF Journals
    <2>4. Journal(t, a)'
          BY <1>2, <1>4, <1>7, <2>1, <2>2, <2>3 DEF Journal
    <2> QED BY <1>7, <2>4 DEF Journals
  <1>9. NoFailure'
    <2>1. ~NotStarted(t, a)'
          BY <1>3, <1>4, <1>5, <1>7 DEF NoFailure, NotStarted
    <2>2. \A u \in Task, b \in Attempt : NotStarted(u, b)' => u = t /\ b = a
          BY <1>5, <1>7, SameAttempt DEF NoFailure
    <2> QED BY <2>1, <2>2 DEF NoFailure
  <1>10. HolderOf(t, a)'
    <2>1. Elsewhere(t)
          BY <1>2, <1>7 DEF Elsewhere
    <2>2. OthersResolved(t)'
          BY <1>3, <1>4, <2>1, OthersStay
    <2> QED BY <1>2, <2>2 DEF HolderOf, Transitioning, InRun, InFence, InRecovery, InFinalization,
               InAttempt, Running
  <1> QED BY <1>1, <1>2, <1>7, <1>8, <1>9, <1>10, DepNext, NoFailureLater, HolderFor DEF JInv

LEMMA BlockBegins ==
    ASSUME JInv, [Next]_vars, NEW t \in Task, NEW a \in Attempt, NEW r, BlockBegin(t, a, r)
    PROVE  JInv'
  <1>1. /\ Finalizable(t, a) /\ ~Has(t, a, "accepted")
        /\ AlreadyBlocked(t, r) \/ ValidTransition(t, "blocked", r)
        /\ local' = [For(t) EXCEPT !.attempt = a, !.reason = r] /\ pc' = "b-record"
        /\ queue' = [queue EXCEPT ![t].status = "blocked", ![t].reason = r,
                                  ![t].disposition = "block"]
        /\ UNCHANGED <<events, prepared, latest, trailing, launched>>
        BY DEF BlockBegin, BlockGuard
  <1>2. /\ NoFailure /\ latest[t] = a /\ Has(t, a, "prepared") /\ OthersResolved(t)
        /\ queue \in Queue /\ queue[t] \in TaskRecord /\ TypeOK
        BY <1>1, FinalizableHas
  <1>3. local'.task = t /\ local'.attempt = a
        BY <1>1, ForFields DEF Local
  <1>4. queue[t].status # "completed"
        BY <1>1 DEF AlreadyBlocked, ValidTransition, CanTransition
  <1>5. PICK x : x = [queue[t] EXCEPT !.status = "blocked", !.reason = r, !.disposition = "block"]
        OBVIOUS
  <1>6. /\ x.status = "blocked" /\ x.fence = queue[t].fence
        /\ x.acceptance = queue[t].acceptance
        BY <1>2, <1>5 DEF TaskRecord
  <1>7. queue' = [queue EXCEPT ![t] = x]
        BY <1>1, <1>2, <1>5 DEF Queue
  <1>8. queue'[t] = x /\ \A u \in Task \ {t} : queue'[u] = queue[u]
        BY <1>2, <1>7, QueueFields
  <1>9. /\ Journals' /\ NoFailure'
        /\ \A u : Used(u)' = Used(u)
        /\ \A u, b : SameRecords(u, b)
        /\ \A u, b, p : Has(u, b, p)' <=> Has(u, b, p)
        /\ \A u, b : HumanBlocked(u, b)' <=> HumanBlocked(u, b)
    <2>1. \A u \in Task, b \in Attempt : Has(u, b, "recovered") => queue[u].fence # b
          BY DEF JInv, Journals, Journal
    <2>2. \A u \in Task : queue'[u].fence = queue[u].fence
          BY <1>6, <1>8
    <2>3. Journals
          BY DEF JInv
    <2> QED BY <1>1, <1>2, <2>1, <2>2, <2>3, QueueWritten
  <1>10. Acceptances'
    <2> SUFFICES ASSUME NEW u \in Task, NEW b \in Attempt, queue'[u].acceptance = b
                 PROVE  /\ AlreadyAccepted(u, b)'
                        /\ latest'[u] = b /\ queue'[u].fence = NoAttempt
                        /\ ~HumanBlocked(u, b)' /\ ~Has(u, b, "recovery-prepared")'
        BY DEF Acceptances
    <2>1. queue[u].acceptance = b
          BY <1>6, <1>8
    <2>2. /\ AlreadyAccepted(u, b) /\ latest[u] = b /\ queue[u].fence = NoAttempt
          /\ ~HumanBlocked(u, b) /\ ~Has(u, b, "recovery-prepared")
          BY <2>1 DEF JInv, Acceptances
    <2>3. u # t
          BY <1>4, <2>2 DEF AlreadyAccepted
    <2> QED BY <1>1, <1>8, <1>9, <2>2, <2>3 DEF AlreadyAccepted
  <1>11. HolderOf(t, a)'
    <2>1. Elsewhere(t)
          BY <1>1, <1>8, <1>9 DEF Elsewhere
    <2>2. OthersResolved(t)'
          BY <1>2, <2>1, OthersStay
    <2>3. InFinalization(t, a)'
          BY <1>1, <1>6, <1>8, <1>9 DEF InFinalization
    <2> QED BY <1>1, <1>2, <1>9, <2>2, <2>3 DEF HolderOf, Transitioning, InRun, InFence,
               InRecovery, Running
  <1> QED BY <1>3, <1>9, <1>10, <1>11, DepNext, NoFailureLater, HolderFor DEF JInv

LEMMA BlockRecords ==
    ASSUME JInv, [Next]_vars, BlockRecord
    PROVE  JInv'
  <1>1. PICK t, a, r : t = local.task /\ a = local.attempt /\ r = local.reason
        OBVIOUS
  <1>2. /\ pc = "b-record" /\ pc' = "release"
        /\ events' = events \cup {BlockRec(t, a, r)}
        /\ trailing' \in {trailing, trailing \ {t}}
        /\ UNCHANGED <<queue, prepared, latest, launched, local>>
        BY <1>1 DEF BlockRecord, Step, history
  <1>3. /\ t \in Task /\ r \in Reason /\ HolderOf(t, a)
        BY <1>1 DEF JInv, DepInv, TypeInv, TypeOK, Local, Holder
  <1>4. /\ a \in Attempt /\ Has(t, a, "prepared") /\ latest[t] = a /\ ~Has(t, a, "accepted")
        /\ queue[t].status = "blocked" /\ OthersResolved(t)
        BY <1>2, <1>3 DEF HolderOf, InAttempt, InFinalization
  <1>5. NoFailure
        BY <1>2, BusyNoFailure DEF JInv
  <1>6. /\ \A u, b : \A q \in Phase \ {"blocked"} : Has(u, b, q)' <=> Has(u, b, q)
        /\ \A u, b : HumanBlocked(u, b)' <=> HumanBlocked(u, b) \/ (u = t /\ b = a)
        /\ \A u : Used(u)' = Used(u)
    <2>1. /\ \A u, b : \A q \in Phase \ {"blocked"} : Has(u, b, q)' <=> Has(u, b, q)
          /\ \A u, b : HumanBlocked(u, b)' <=> HumanBlocked(u, b) \/ (u = t /\ b = a)
          /\ \A u : Used(u)' = Used(u) \cup (IF u = t THEN {a} ELSE {})
          BY <1>2, <1>3, <1>4, AddBlockRec
    <2>2. a \in Used(t)
          BY <1>4, HasUsed
    <2> QED BY <2>1, <2>2
  <1>7. \A u, b : /\ Has(u, b, "prepared")' <=> Has(u, b, "prepared")
                  /\ Has(u, b, "pre-spawn-failure")' <=> Has(u, b, "pre-spawn-failure")
                  /\ Has(u, b, "disposed")' <=> Has(u, b, "disposed")
                  /\ Has(u, b, "recovery-prepared")' <=> Has(u, b, "recovery-prepared")
                  /\ Has(u, b, "recovered")' <=> Has(u, b, "recovered")
                  /\ Has(u, b, "accepted")' <=> Has(u, b, "accepted")
                  /\ Observed(u, b)' <=> Observed(u, b)
        BY <1>6 DEF Phase, Observed
  <1>8. \A u, b : Closed(u, b) => Closed(u, b)'
        BY <1>2, ClosedStays
  <1>9. Journals'
    <2> SUFFICES ASSUME NEW u \in Task, NEW b \in Attempt PROVE Journal(u, b)'
        BY DEF Journals
    <2>1. Journal(u, b)
          BY DEF JInv, Journals
    <2>2. Closed(u, b) => Closed(u, b)'
          BY <1>8
    <2> QED BY <1>2, <1>4, <1>6, <1>7, <2>1, <2>2 DEF Journal
  <1>10. Acceptances'
    <2> SUFFICES ASSUME NEW u \in Task, NEW b \in Attempt, queue[u].acceptance = b
                 PROVE  /\ AlreadyAccepted(u, b)'
                        /\ latest'[u] = b /\ queue'[u].fence = NoAttempt
                        /\ ~HumanBlocked(u, b)' /\ ~Has(u, b, "recovery-prepared")'
        BY <1>2 DEF Acceptances
    <2>1. /\ AlreadyAccepted(u, b) /\ latest[u] = b /\ queue[u].fence = NoAttempt
          /\ ~HumanBlocked(u, b) /\ ~Has(u, b, "recovery-prepared")
          BY DEF JInv, Acceptances
    <2>2. u # t
          BY <1>4, <2>1 DEF AlreadyAccepted
    <2> QED BY <1>2, <1>6, <1>7, <2>1, <2>2 DEF AlreadyAccepted
  <1>11. NoFailure'
        BY <1>5, <1>7 DEF NoFailure, NotStarted
  <1>12. HolderOf(t, a)'
    <2>1. Elsewhere(t)
          BY <1>2, <1>6 DEF Elsewhere, SameRecords
    <2>2. OthersResolved(t)'
          BY <1>3, <1>4, <2>1, OthersStay
    <2> QED BY <1>2, <2>2 DEF HolderOf, Transitioning, InRun, InFence, InRecovery, InFinalization,
               InAttempt, Running
  <1> QED BY <1>1, <1>2, <1>9, <1>10, <1>11, <1>12, DepNext, NoFailureLater, HolderFor DEF JInv

---------------------------------------------------------------------------
(* The invariant, and what it says *)

LEMMA JournalInit == Init => JInv
  <1> SUFFICES ASSUME Init PROVE JInv
      OBVIOUS
  <1>1. DepInv
        BY DepInit
  <1>2. /\ events = {} /\ launched = {} /\ pc = "idle"
        /\ \A t \in Task : queue[t].acceptance = NoAttempt
        BY DEF Init
  <1>3. /\ \A t, a, p : ~Has(t, a, p)
        /\ \A t, a : ~HumanBlocked(t, a)
        /\ \A t : Used(t) = {}
        BY <1>2 DEF Has, HumanBlocked, Used
  <1>4. Journals
        BY <1>2, <1>3 DEF Journals, Journal
  <1>5. Acceptances
        BY <1>2, NoAttemptIsNone DEF Acceptances
  <1>6. Failures
        BY <1>3 DEF Failures, NotStarted
  <1>7. Holder
        BY <1>2 DEF Holder, HolderOf, Transitioning, InRun, InFence, InRecovery, InFinalization,
           InAttempt, Running
  <1> QED BY <1>1, <1>4, <1>5, <1>6, <1>7 DEF JInv

LEMMA JournalNext == JInv /\ [Next]_vars => JInv'
  <1> SUFFICES ASSUME JInv, [Next]_vars PROVE JInv'
      OBVIOUS
  <1>1. CASE Command
    <2>1. PICK t \in Task :
            \/ \E target \in Status, r \in {"none"} \cup HumanReason : TransitionBegin(t, target, r)
            \/ \E mode \in Mode : RunBegin(t, mode)
            \/ \E a \in Attempt :
                \/ FenceBegin(t, a)
                \/ RecoverBegin(t, a)
                \/ AcceptBegin(t, a)
                \/ \E r \in HumanReason : BlockBegin(t, a, r)
          BY <1>1 DEF Command
    <2>2. CASE \E target \in Status, r \in {"none"} \cup HumanReason : TransitionBegin(t, target, r)
          BY <2>2, TransitionBegins
    <2>3. CASE \E mode \in Mode : RunBegin(t, mode)
          BY <2>3, RunBegins
    <2>4. CASE \E a \in Attempt : FenceBegin(t, a)
          BY <2>4, FenceBegins
    <2>5. CASE \E a \in Attempt : RecoverBegin(t, a)
          BY <2>5, RecoverBegins
    <2>6. CASE \E a \in Attempt : AcceptBegin(t, a)
          BY <2>6, AcceptBegins
    <2>7. CASE \E a \in Attempt : \E r \in HumanReason : BlockBegin(t, a, r)
          BY <2>7, BlockBegins
    <2> QED BY <2>1, <2>2, <2>3, <2>4, <2>5, <2>6, <2>7
  <1>2. CASE Proceed
    <2>1. CASE TransitionReplace
          BY <2>1, TransitionReplaces
    <2>2. CASE TransitionCommit
          BY <2>2, TransitionCommits
    <2>3. CASE RunPrepare
          BY <2>3, RunPrepares
    <2>4. CASE Launch
          BY <2>4, RunLaunches
    <2>5. CASE Verified \/ VerificationBlocks \/ FinishInterrupted \/ FinishDone \/ SettleRefused
          BY <2>5, RunMoves
    <2>6. CASE \E outcome \in Outcome : RecordExecution(outcome) \/ RepairVerification(outcome)
          BY <2>6, RunRecords
    <2>7. CASE FinishEvidence
      <3>1. "success" \in Outcome
            BY DEF Outcome
      <3> QED BY <2>7, <3>1, RunRecords
    <2>8. CASE SettleBegin
          BY <2>8, SettleBegins
    <2>9. CASE FenceReplace
          BY <2>9, FenceReplaces
    <2>10. CASE FenceRecord
          BY <2>10, FenceRecords
    <2>11. CASE RecoverReplace
          BY <2>11, RecoverReplaces
    <2>12. CASE RecoverRecord
          BY <2>12, RecoverRecords
    <2>13. CASE AcceptRecord
          BY <2>13, AcceptRecords
    <2>14. CASE BlockRecord
          BY <2>14, BlockRecords
    <2>15. CASE Release
          BY <2>15, StopsKept
    <2>16. CASE RecoverRefused
          BY <2>16, RecoverStops
    <2> QED BY <1>2, <2>1, <2>2, <2>3, <2>4, <2>5, <2>6, <2>7, <2>8, <2>9, <2>10, <2>11, <2>12,
               <2>13, <2>14, <2>15, <2>16 DEF Proceed
  <1>3. CASE Unlock \/ Fail \/ Crash \/ Tear \/ UNCHANGED vars
        BY <1>3, StopsKept
  <1> QED BY <1>1, <1>2, <1>3 DEF Next

\* Journals, queue and the command under way agree in every reachable state:
\* what each durable write of task_commands leaves for the next command, after
\* a crash or an I/O error at any point, is what the commands rely on.
THEOREM JournalsAgree == Spec => []JInv
  BY JournalInit, JournalNext, PTL DEF Spec

LEMMA InvGives ==
    ASSUME JInv
    PROVE  /\ NoReplay /\ NoLaunchRecovered /\ FenceStaysRecoverable
           /\ ReadableIsAssessable /\ RunCanSettle /\ AcceptanceCanBeRepeated
  <1>1. NoReplay
    <2>1. PICK t, a : t = local.task /\ a = local.attempt
          OBVIOUS
    <2> SUFFICES ASSUME pc \in {"launch", "record", "verify"}, NEW x \in launched \ {<<t, a>>}
                 PROVE  \/ Has(x[1], x[2], "disposed") \/ LifecycleAdvanced(x[1], x[2])
                        \/ /\ x[1] # t /\ Observed(x[1], x[2])
                           /\ queue[x[1]].status \in Settled
        BY <2>1 DEF NoReplay
    <2>2. PICK u \in Task, b \in Attempt : x = <<u, b>>
          BY DEF JInv, DepInv, TypeInv, TypeOK
    <2>3. x[1] = u /\ x[2] = b /\ (u # t \/ b # a)
          BY <2>2
    <2>4. Has(u, b, "prepared") /\ ~Has(u, b, "pre-spawn-failure")
          BY <2>2 DEF JInv, Journals, Journal
    <2>5. b \in Used(u) /\ ~NoLaunchChain(u, b)
          BY <2>4, HasUsed DEF NoLaunchChain
    <2>6. HolderOf(t, a)
          BY <2>1 DEF JInv, Holder
    <2>7. OthersResolved(t) /\ OthersClosed(t, a)
          BY <2>6 DEF HolderOf, InRun, Running
    <2>8. CASE u = t
          BY <2>3, <2>5, <2>7, <2>8 DEF OthersClosed, Closed
    <2>9. CASE u # t
      <3>1. FullyRecovered(u, b, queue[u].status)
            BY <2>5, <2>7, <2>9, NoAttemptIsNone DEF OthersResolved, AttemptsResolved
      <3> QED BY <2>3, <2>5, <2>9, <3>1 DEF FullyRecovered
    <2> QED BY <2>8, <2>9
  <1>2. NoLaunchRecovered
    <2> SUFFICES ASSUME NEW x \in launched
                 PROVE  ~Has(x[1], x[2], "recovery-prepared") /\ ~Has(x[1], x[2], "pre-spawn-failure")
        BY DEF NoLaunchRecovered
    <2>1. PICK u \in Task, b \in Attempt : x = <<u, b>>
          BY DEF JInv, DepInv, TypeInv, TypeOK
    <2> QED BY <2>1 DEF JInv, Journals, Journal
  <1>3. FenceStaysRecoverable
        BY GateResolves DEF JInv, Failures, CanRecover, NotStarted, FenceStaysRecoverable
  <1>4. ReadableIsAssessable
    <2>1. \A t \in Task : \A a \in Used(t) : a \in Attempt
          BY DEF Used
    <2> QED BY <2>1 DEF JInv, Journals, Journal, ReadableIsAssessable, Assessable
  <1>5. RunCanSettle
    <2>1. PICK t, a : t = local.task /\ a = local.attempt
          OBVIOUS
    <2> SUFFICES ASSUME pc = "settle"
                 PROVE  /\ t \in Task /\ ResolvedExcept(t, a)
                        /\ ValidTransition(t, local.target, local.reason)
        BY <2>1, GateResolves DEF RunCanSettle
    <2>2. /\ t \in Task /\ a \in Attempt /\ HolderOf(t, a)
          BY <2>1, RunHas DEF Running
    <2>3. /\ OthersResolved(t) /\ InProgress(t) /\ OthersClosed(t, a)
          /\ local.target \in {"blocked", "completed", "awaiting-decision"}
          /\ local.reason = (IF local.target = "completed" THEN "none" ELSE "run")
          BY <2>2 DEF HolderOf, InRun, Running
    <2>4. ValidTransition(t, local.target, local.reason)
          BY <2>3 DEF InProgress, ValidTransition, CanTransition
    <2>5. AttemptsResolved(t, a)
      <3>1. Admissible(t)
        <4>1. \A b \in Used(t) : b \in Attempt
              BY DEF Used
        <4> QED BY <2>2, <4>1 DEF Admissible, JInv, Journals, Journal
      <3> QED BY <2>3, <3>1 DEF AttemptsResolved, InProgress, OthersClosed, FullyRecovered, Closed
    <2> QED BY <2>2, <2>3, <2>4, <2>5 DEF ResolvedExcept, OthersResolved, InProgress
  <1>6. AcceptanceCanBeRepeated
        BY DEF JInv, Acceptances, AcceptanceCanBeRepeated
  <1> QED BY <1>1, <1>2, <1>3, <1>4, <1>5, <1>6

\* No agent is started again over work whose end nobody knows: run_task passes
\* its gates only when every attempt ever launched has a conclusion on disk.
THEOREM NoAgentReplayed == Spec => []NoReplay
  BY JournalsAgree, InvGives, PTL

\* task recover never declares "execution did not start" for an attempt whose
\* agent was started, and no identity it recovered is started later.
THEOREM RecoveredNeverLaunched == Spec => []NoLaunchRecovered
  BY JournalsAgree, InvGives, PTL

\* Whatever is interrupted in between, preflight_recovery_evidence accepts a
\* recorded pre-spawn failure until it is recovered, if the journals of the
\* component can be read.
THEOREM FailureRecoverable == Spec => []FenceStaysRecoverable
  BY JournalsAgree, InvGives, PTL

\* assess_attempt_journal never rejects the records of a journal that
\* read_attempt_journal could read, whatever lines were torn before.
THEOREM JournalsAssessable == Spec => []ReadableIsAssessable
  BY JournalsAgree, InvGives, PTL

\* The transition by which run_task stores its conclusion passes the checks
\* of transition_locked, so an observed execution is left undisposed only by
\* a fault or by a journal that passed the readers' limits.
THEOREM RunSettles == Spec => []RunCanSettle
  BY JournalsAgree, InvGives, PTL

\* finalize_task accept can be repeated after its evidence append was lost.
THEOREM AcceptanceRepeatable == Spec => []AcceptanceCanBeRepeated
  BY JournalsAgree, InvGives, PTL
=============================================================================
