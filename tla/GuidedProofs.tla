------------------------------ MODULE GuidedProofs ------------------------------
(***************************************************************************)
(* What GuidedRun promises for any capacity, number of messages, attempts, *)
(* turns, tools and failures: the state is well typed, what a person is    *)
(* told of a message is true, no tool and no answer overlooks guidance     *)
(* that was accepted, and a cancellation stays with its prompt.            *)
(***************************************************************************)
EXTENDS GuidedRun, SequenceTheorems, TLAPS

---------------------------------------------------------------------------
(* The inductive invariant: types and control *)

Claimed == [id : Id, delivered : BOOLEAN]

Outcome == {"none", "limit", "completed", "cancelled", "failed"}

\* The type of the driver's locals.
Locals ==
    [batch : Seq(Guidance), renewed : BOOLEAN, unattended : 0 .. MaxTurns,
     attempt : 1 .. (MaxAttempts + 1), requested : Nat,
     reply : Reply \cup {"none", "cancelled", "evidence"},
     tools : 0 .. MaxTools, event : BOOLEAN, interrupted : BOOLEAN,
     stopped : BOOLEAN, failure : {"none", "tool", "provider", "cancelled"},
     error : BOOLEAN, outcome : Outcome, closing : SUBSET (Id \X Final)]

\* Inside an attempt its number is within the policy.
Attempting == {"attempt", "start", "stream", "ended", "read", "join", "backoff"}

\* From the request to the end of the turn the context is as requested.
InTurn == Attempting \cup {"turn", "tools", "dispatch", "execute", "batch", "final"}

Fits(guidance, tasks, claimed) == guidance + tasks + claimed <= Capacity

MailboxInv ==
    /\ mailbox \in State
    /\ Fits(Len(mailbox.guidance), Len(mailbox.tasks), Len(mailbox.claimed))
    /\ Len(mailbox.withdrawn) <= Capacity

RunInv ==
    /\ pc \in Label /\ run \in Locals
    /\ pc \in Attempting => run.attempt <= MaxAttempts
    /\ pc \in {"tools", "dispatch", "execute"} => run.tools >= 1
    /\ run.requested <= Len(context)
    /\ pc \in InTurn => run.requested = Len(context)
    /\ run.outcome # "none" => pc \in {"finish", "end"}
    /\ run.closing # {} => pc = "end"
    /\ pc = "push" => run.batch # << >>

OperationInv ==
    /\ operation \in [watcher : {"off", "poll", "fire", "done"},
                      cancelled : BOOLEAN, steered : BOOLEAN]
    /\ operation.watcher # "off" => pc \in {"stream", "ended", "read", "join"}

RestTyped ==
    /\ cancelled \in BOOLEAN
    /\ context \in Seq(Guidance)
    /\ stopping \in 0 .. 3
    /\ ack \in [Id -> {"none", "task", "guidance", "edited", "withdrawn"}]
    /\ noticed \in [Id -> SUBSET Final]
    /\ faults \in 0 .. MaxFaults

ControlInv == MailboxInv /\ RunInv /\ OperationInv /\ RestTyped

---------------------------------------------------------------------------
(* The inductive invariant: the messages *)

Ids(messages) == {m.id : m \in Range(messages)}

Distinct(s) == \A i, j \in DOMAIN s : s[i].id = s[j].id => i = j

\* The text of an accepted message is the one last acknowledged.
AsAccepted(m) == Accepted(m.id) /\ (m.text = 1 <=> ack[m.id] = "edited")

Delivering == {"deliver", "push"}

\* Where a message is found agrees with what the person was told of it.
Acknowledged ==
    /\ \A id \in Id : id > mailbox.sequence => ack[id] = "none"
    /\ \A m \in Range(mailbox.tasks) : ack[m.id] = "task" /\ m.text = 0
    /\ \A m \in Range(mailbox.guidance) : AsAccepted(m)
    /\ \A e \in Range(mailbox.claimed) : Accepted(e.id)
    /\ \A id \in Range(mailbox.withdrawn) : ack[id] = "withdrawn"
    /\ \A id \in Range(mailbox.dropped) : Accepted(id)
    /\ \A m \in Range(context) : /\ ack[m.id] \in {"task", "guidance", "edited"}
                                 /\ m.text = 1 <=> ack[m.id] = "edited"
    /\ pc = "prompt" => \A m \in Range(run.batch) : ack[m.id] = "task" /\ m.text = 0
    /\ pc \in Delivering => \A m \in Range(run.batch) : AsAccepted(m)

\* The notices given so far are true, and so are the ones prepared.
Truthful(id, state) ==
    /\ state = "delivered" => id \in Ids(context)
    /\ state = "dropped" => Accepted(id) /\ id \notin Ids(context)
    /\ state = "withdrawn" => ack[id] = "withdrawn"

NoticesTrue ==
    /\ \A id \in Id : \A state \in noticed[id] : Truthful(id, state)
    /\ \A notice \in run.closing : Truthful(notice[1], notice[2])

\* Pending guidance was neither claimed nor delivered nor reported.
PendingUntouched ==
    /\ Distinct(mailbox.guidance)
    /\ \A m \in Range(mailbox.guidance) :
          /\ noticed[m.id] = {}
          /\ m.id \notin Ids(context) /\ m.id \notin Ids(mailbox.claimed)
          /\ m.id \notin Range(mailbox.dropped)
          /\ \A notice \in run.closing : notice[1] # m.id

\* A claim knows whether its text is in the context.
ClaimsTrue ==
    /\ \A e \in Range(mailbox.claimed) : e.delivered <=> e.id \in Ids(context)
    /\ \A id \in Range(mailbox.dropped) : id \notin Ids(context)

\* The batch being delivered is what is claimed.
BatchClaimed ==
    pc \in Delivering =>
        /\ Distinct(run.batch) /\ Distinct(mailbox.claimed)
        /\ Range(mailbox.claimed) =
              {[id |-> m.id, delivered |-> FALSE] : m \in Range(run.batch)}
        /\ \A m \in Range(run.batch) : noticed[m.id] = {}

\* No accepted message is lost.
NoneLost ==
    \A id \in Id :
        Accepted(id) => \/ noticed[id] # {}
                        \/ id \in Ids(mailbox.guidance)
                        \/ id \in Ids(mailbox.claimed)
                        \/ id \in Range(mailbox.dropped)
                        \/ \E notice \in run.closing : notice[1] = id

\* When nothing is pending, claimed or dropped.
Emptied ==
    /\ ~mailbox.active \/ mailbox.closed => mailbox.guidance = << >>
    /\ ~mailbox.closed => mailbox.dropped = << >>
    /\ pc \in {"wait", "return"} => ~mailbox.active /\ mailbox.dropped = << >>
    /\ pc \notin Delivering \cup {"finish"} => mailbox.claimed = << >>

MessageInv ==
    /\ Acknowledged /\ NoticesTrue /\ PendingUntouched /\ ClaimsTrue
    /\ BatchClaimed /\ NoneLost /\ Emptied

Inv == ControlInv /\ MessageInv /\ CancelStaysWithItsPrompt

---------------------------------------------------------------------------
(* Sequences of messages *)

\* What the range of a sequence and the identities in it are.
LEMMA RangeIds ==
    ASSUME NEW S, NEW s \in Seq(S)
    PROVE  /\ Range(s) \subseteq S
           /\ \A i \in DOMAIN s : s[i] \in Range(s)
           /\ \A m \in Range(s) : \E i \in DOMAIN s : s[i] = m
           /\ Range(IdsOf(s)) = Ids(s)
           /\ s = << >> <=> Range(s) = {}
  <1>1. s \in [1 .. Len(s) -> S] /\ DOMAIN s = 1 .. Len(s) /\ Len(s) \in Nat
        BY LenProperties
  <1>2. \A i \in DOMAIN s : s[i] \in Range(s)
        BY DEF Range
  <1>3. Range(s) \subseteq S /\ \A m \in Range(s) : \E i \in DOMAIN s : s[i] = m
        BY <1>1 DEF Range
  <1>4. Range(IdsOf(s)) = Ids(s)
        BY DEF Range, IdsOf, Ids
  <1>5. ASSUME s # << >> PROVE Range(s) # {}
    <2>1. Len(s) \in Nat \ {0}
          BY <1>5, EmptySeq
    <2>2. 1 \in DOMAIN s
          BY <2>1, <1>1
    <2> QED BY <2>2, <1>2
  <1>6. ASSUME s = << >> PROVE Range(s) = {}
        BY <1>6, <1>3
  <1> QED BY <1>2, <1>3, <1>4, <1>5, <1>6

LEMMA NoMessages ==
    Range(<< >>) = {} /\ Ids(<< >>) = {} /\ Distinct(<< >>) /\ Len(<< >>) = 0
  BY EmptySeq DEF Range, Ids, Distinct

\* A message of its own identity at the end.
LEMMA AppendMessage ==
    ASSUME NEW S, NEW s \in Seq(S), NEW m \in S
    PROVE  /\ Append(s, m) \in Seq(S) /\ Len(Append(s, m)) = Len(s) + 1
           /\ Range(Append(s, m)) = Range(s) \cup {m}
           /\ Distinct(s) /\ m.id \notin Ids(s) => Distinct(Append(s, m))
  <1> DEFINE t == Append(s, m)
  <1>1. /\ t \in Seq(S) /\ Len(t) = Len(s) + 1
        /\ \A i \in 1 .. Len(s) : t[i] = s[i]
        /\ t[Len(s) + 1] = m
        BY AppendProperties
  <1>2. DOMAIN s = 1 .. Len(s) /\ DOMAIN t = 1 .. Len(t) /\ Len(s) \in Nat
        BY <1>1, LenProperties
  <1> HIDE DEF t
  <1>3. Range(t) = Range(s) \cup {m}
        BY <1>1, <1>2 DEF Range
  <1>4. ASSUME Distinct(s), m.id \notin Ids(s) PROVE Distinct(t)
    <2>1. \A i \in 1 .. Len(s) : s[i].id # m.id
          BY <1>4, <1>2 DEF Ids, Range
    <2> QED BY <1>4, <2>1, <1>1, <1>2 DEF Distinct
  <1> QED BY <1>1, <1>3, <1>4 DEF t

\* Removing the message at a position removes its identity.
LEMMA RemoveMessage ==
    ASSUME NEW S, NEW s \in Seq(S), Distinct(s), NEW k \in DOMAIN s
    PROVE  /\ RemoveAt(s, k) \in Seq(S) /\ Len(RemoveAt(s, k)) = Len(s) - 1
           /\ Distinct(RemoveAt(s, k))
           /\ Range(RemoveAt(s, k)) = {m \in Range(s) : m.id # s[k].id}
  <1> DEFINE front == SubSeq(s, 1, k - 1)
             back == SubSeq(s, k + 1, Len(s))
             t == RemoveAt(s, k)
  <1>1. /\ DOMAIN s = 1 .. Len(s) /\ Len(s) \in Nat /\ k \in 1 .. Len(s)
        /\ \A i \in 1 .. Len(s) : s[i] \in S
        BY LenProperties
  <1>2. /\ front \in Seq(S) /\ Len(front) = k - 1
        /\ \A i \in 1 .. k - 1 : front[i] = s[i]
        BY <1>1, SubSeqProperties
  <1>3. /\ back \in Seq(S) /\ Len(back) = Len(s) - k
        /\ \A i \in 1 .. Len(s) - k : back[i] = s[k + i]
    <2>1. \A i \in k + 1 .. Len(s) : s[i] \in S
          BY <1>1
    <2>2. k + 1 \in Int /\ Len(s) \in Int
          BY <1>1
    <2>3. /\ back \in Seq(S) /\ Len(back) = IF k + 1 <= Len(s) THEN Len(s) - (k + 1) + 1 ELSE 0
          /\ \A i \in 1 .. Len(s) - (k + 1) + 1 : back[i] = s[(k + 1) + i - 1]
          BY <2>1, <2>2, SubSeqProperties
    <2> HIDE DEF back
    <2>4. Len(back) = Len(s) - k
      <3>1. CASE k < Len(s)
            BY <3>1, <2>3, <1>1
      <3>2. CASE k = Len(s)
            BY <3>2, <2>3, <1>1
      <3> QED BY <3>1, <3>2, <1>1
    <2>5. ASSUME NEW i \in 1 .. Len(s) - k PROVE back[i] = s[k + i]
      <3>1. i \in 1 .. Len(s) - (k + 1) + 1 /\ (k + 1) + i - 1 = k + i
            BY <1>1
      <3> QED BY <3>1, <2>3
    <2> QED BY <2>3, <2>4, <2>5
  <1>4. t = front \o back
        BY DEF RemoveAt
  <1> HIDE DEF front, back, t
  <1>5. /\ t \in Seq(S) /\ Len(t) = Len(front) + Len(back)
        /\ \A i \in 1 .. Len(front) + Len(back) :
              t[i] = IF i <= Len(front) THEN front[i] ELSE back[i - Len(front)]
        BY <1>2, <1>3, <1>4, ConcatProperties
  <1>6. Len(t) = Len(s) - 1 /\ DOMAIN t = 1 .. Len(t)
        BY <1>1, <1>2, <1>3, <1>5, LenProperties
  <1>7. ASSUME NEW i \in 1 .. Len(t)
        PROVE  t[i] = IF i < k THEN s[i] ELSE s[i + 1]
    <2>1. i \in 1 .. Len(front) + Len(back)
          BY <1>5
    <2>2. CASE i < k
          BY <2>1, <2>2, <1>1, <1>2, <1>5
    <2>3. CASE i >= k
      <3>1. t[i] = back[i - Len(front)] /\ i - Len(front) \in 1 .. Len(s) - k
            BY <2>1, <2>3, <1>1, <1>2, <1>3, <1>5, SMTT(30)
      <3>2. k + (i - Len(front)) = i + 1
            BY <2>1, <1>1, <1>2
      <3> QED BY <3>1, <3>2, <2>3, <1>1, <1>3, SMTT(30)
    <2> QED BY <2>2, <2>3, <1>1
  <1>8. Distinct(t)
    <2> SUFFICES ASSUME NEW i \in 1 .. Len(t), NEW j \in 1 .. Len(t), t[i].id = t[j].id
                 PROVE  i = j
        BY <1>6 DEF Distinct
    <2> DEFINE Was(n) == IF n < k THEN n ELSE n + 1
    <2>1. t[i] = s[Was(i)] /\ t[j] = s[Was(j)]
          BY <1>7
    <2>2. Was(i) \in DOMAIN s /\ Was(j) \in DOMAIN s
          BY <1>1, <1>6
    <2>3. Was(i) = Was(j)
          BY <2>1, <2>2 DEF Distinct
    <2> QED BY <2>3, <1>1, <1>6
  <1>9. Range(t) = {m \in Range(s) : m.id # s[k].id}
    <2>1. ASSUME NEW i \in 1 .. Len(t)
          PROVE  t[i] \in Range(s) /\ t[i].id # s[k].id
      <3> DEFINE n == IF i < k THEN i ELSE i + 1
      <3>1. t[i] = s[n]
            BY <1>7
      <3>2. n \in DOMAIN s /\ n # k
            BY <1>1, <1>6
      <3> QED BY <3>1, <3>2 DEF Range, Distinct
    <2>2. ASSUME NEW j \in 1 .. Len(s), s[j].id # s[k].id
          PROVE  \E i \in 1 .. Len(t) : t[i] = s[j]
      <3>1. CASE j < k
            BY <3>1, <1>1, <1>6, <1>7
      <3>2. CASE j > k
        <4>1. j - 1 \in 1 .. Len(t) /\ t[j - 1] = s[j]
              BY <3>2, <1>1, <1>6, <1>7
        <4> QED BY <4>1
      <3> QED BY <3>1, <3>2, <2>2, <1>1
    <2>3. Range(t) \subseteq {m \in Range(s) : m.id # s[k].id}
          BY <2>1, <1>6 DEF Range
    <2>4. ASSUME NEW m \in Range(s), m.id # s[k].id PROVE m \in Range(t)
      <3>1. PICK j \in 1 .. Len(s) : s[j] = m
            BY <1>1 DEF Range
      <3>2. PICK i \in 1 .. Len(t) : t[i] = s[j]
            BY <3>1, <2>2, <2>4
      <3> QED BY <3>1, <3>2, <1>6 DEF Range
    <2> QED BY <2>3, <2>4
  <1> QED BY <1>5, <1>6, <1>8, <1>9 DEF t

\* The same for the first message.
LEMMA TailMessage ==
    ASSUME NEW S, NEW s \in Seq(S), s # << >>
    PROVE  /\ Head(s) \in Range(s) /\ Head(s) \in S
           /\ Tail(s) \in Seq(S) /\ Len(Tail(s)) = Len(s) - 1
           /\ Range(Tail(s)) \subseteq Range(s)
           /\ Distinct(s) => /\ Distinct(Tail(s))
                             /\ Range(Tail(s)) = {m \in Range(s) : m.id # Head(s).id}
  <1>1. /\ DOMAIN s = 1 .. Len(s) /\ Len(s) \in Nat \ {0}
        BY LenProperties, EmptySeq
  <1>2. Head(s) = s[1]
        BY <1>1
  <1>3. /\ Tail(s) \in Seq(S) /\ Len(Tail(s)) = Len(s) - 1
        /\ \A i \in 1 .. Len(s) - 1 : Tail(s)[i] = s[i + 1]
        BY HeadTailProperties
  <1>4. DOMAIN Tail(s) = 1 .. Len(s) - 1
        BY <1>3, LenProperties
  <1>5. Head(s) \in Range(s) /\ Head(s) \in S
        BY <1>1, <1>2, HeadTailProperties DEF Range
  <1>6. Range(Tail(s)) \subseteq Range(s)
        BY <1>1, <1>3, <1>4 DEF Range
  <1>7. ASSUME Distinct(s)
        PROVE  /\ Distinct(Tail(s))
               /\ Range(Tail(s)) = {m \in Range(s) : m.id # Head(s).id}
    <2>1. Distinct(Tail(s))
          BY <1>7, <1>1, <1>3, <1>4 DEF Distinct
    <2>2. ASSUME NEW i \in 1 .. Len(s) - 1 PROVE Tail(s)[i].id # Head(s).id
          BY <1>7, <1>1, <1>2, <1>3 DEF Distinct
    <2>3. ASSUME NEW j \in 1 .. Len(s), s[j].id # Head(s).id
          PROVE  \E i \in 1 .. Len(s) - 1 : Tail(s)[i] = s[j]
      <3>1. j - 1 \in 1 .. Len(s) - 1 /\ Tail(s)[j - 1] = s[j]
            BY <2>3, <1>1, <1>2, <1>3
      <3> QED BY <3>1
    <2>4. Range(Tail(s)) \subseteq {m \in Range(s) : m.id # Head(s).id}
          BY <2>2, <1>4, <1>6 DEF Range
    <2>5. ASSUME NEW m \in Range(s), m.id # Head(s).id PROVE m \in Range(Tail(s))
      <3>1. PICK j \in 1 .. Len(s) : s[j] = m
            BY <1>1 DEF Range
      <3>2. PICK i \in 1 .. Len(s) - 1 : Tail(s)[i] = s[j]
            BY <3>1, <2>3, <2>5
      <3> QED BY <3>1, <3>2, <1>4 DEF Range
    <2> QED BY <2>1, <2>4, <2>5
  <1> QED BY <1>3, <1>5, <1>6, <1>7

\* Replacing the message at a position by another of its identity.
LEMMA ReplaceMessage ==
    ASSUME NEW S, NEW s \in Seq(S), Distinct(s), NEW k \in DOMAIN s,
           NEW m \in S, m.id = s[k].id
    PROVE  /\ [s EXCEPT ![k] = m] \in Seq(S) /\ Len([s EXCEPT ![k] = m]) = Len(s)
           /\ Distinct([s EXCEPT ![k] = m])
           /\ Range([s EXCEPT ![k] = m]) = {n \in Range(s) : n.id # m.id} \cup {m}
  <1> DEFINE t == [s EXCEPT ![k] = m]
  <1>1. DOMAIN s = 1 .. Len(s) /\ Len(s) \in Nat /\ k \in 1 .. Len(s)
        BY LenProperties
  <1>2. /\ t \in Seq(S) /\ Len(t) = Len(s)
        /\ \A j \in 1 .. Len(s) : t[j] = IF j = k THEN m ELSE s[j]
        BY <1>1, ExceptSeq
  <1>3. DOMAIN t = 1 .. Len(s)
        BY <1>2, LenProperties
  <1> HIDE DEF t
  <1>4. Distinct(t)
        BY <1>1, <1>2, <1>3 DEF Distinct
  <1>5. Range(t) = {n \in Range(s) : n.id # m.id} \cup {m}
        BY <1>1, <1>2, <1>3 DEF Range, Distinct
  <1> QED BY <1>2, <1>4, <1>5 DEF t

\* Room in the mailbox.
LEMMA Fitting ==
    ASSUME NEW g \in Nat, NEW t \in Nat, NEW c \in Nat
    PROVE  /\ Fits(g, t, 0) => Fits(0, t, g)
           /\ g + t + c < Capacity => Fits(g + 1, t, c) /\ Fits(g, t + 1, c)
  BY MailboxAssumption DEF Fits

LEMMA FittingLess ==
    ASSUME NEW g \in Nat, NEW t \in Nat, NEW c \in Nat, Fits(g, t, c),
           NEW g2 \in Nat, NEW t2 \in Nat, NEW c2 \in Nat, g2 <= g, t2 <= t, c2 <= c
    PROVE  Fits(g2, t2, c2)
  BY MailboxAssumption DEF Fits

---------------------------------------------------------------------------
(* The driver's locals: the ways a step of the driver ends *)

\* The locals outside of the end of a prompt.
LEMMA Midway ==
    ASSUME RunInv, pc \notin {"finish", "end"}
    PROVE  run.outcome = "none" /\ run.closing = {}
  BY DEF RunInv

LEMMA Leaves ==
    ASSUME RunInv, pc # "end", context' = context, Leave
    PROVE  RunInv'
  <1>1. run' \in Locals
        BY DEF RunInv, Leave, Locals
  <1>2. run' = [run EXCEPT !.error = TRUE] /\ pc' = "finish"
        BY DEF Leave, Goto
  <1>3. run'.requested = run.requested /\ run'.closing = run.closing
        BY <1>2 DEF RunInv, Locals
  <1> QED BY <1>1, <1>2, <1>3 DEF RunInv, Label, Attempting, InTurn

LEMMA Breaks ==
    ASSUME RunInv, pc # "end", context' = context, Break
    PROVE  RunInv'
  BY DEF RunInv, Break, Goto, Label, Attempting, InTurn

LEMMA Fails ==
    ASSUME RunInv, pc # "end", context' = context,
           NEW cause \in {"provider", "cancelled"}, Fail(cause)
    PROVE  RunInv'
  <1>1. run' \in Locals
        BY DEF RunInv, Fail, Locals
  <1>2. run' = [run EXCEPT !.failure = cause] /\ pc' = "finish"
        BY DEF Fail, Goto
  <1>3. run'.requested = run.requested /\ run'.closing = run.closing
        BY <1>2 DEF RunInv, Locals
  <1> QED BY <1>1, <1>2, <1>3 DEF RunInv, Label, Attempting, InTurn

LEMMA Restarts ==
    ASSUME RunInv, pc \notin {"finish", "end"}, context' = context,
           NEW attempt \in 1 .. (MaxAttempts + 1), Again(attempt)
    PROVE  RunInv'
  <1>a. run \in Locals /\ 0 \in 0 .. MaxTools /\ "none" \in Reply \cup {"none", "cancelled", "evidence"}
        BY GuidedRunAssumption DEF RunInv
  <1>b. run' = [run EXCEPT !.attempt = attempt, !.reply = "none", !.tools = 0,
                           !.event = FALSE, !.interrupted = FALSE, !.stopped = FALSE]
        BY DEF Again
  <1>1. run' \in Locals
        BY <1>a, <1>b DEF Locals
  <1>2. pc' = "loop"
        BY DEF Again, Goto
  <1>3. /\ run'.requested = run.requested /\ run'.closing = run.closing
        /\ run'.outcome = run.outcome
        BY DEF Again, RunInv, Locals
  <1> QED BY <1>1, <1>2, <1>3, Midway DEF RunInv, Label, Attempting, InTurn

\* The driver goes on with its locals, but for the ones listed.
LEMMA Moves ==
    ASSUME RunInv, pc \notin {"finish", "end"}, context' = context,
           pc' \in Label, run' \in Locals,
           run'.outcome = run.outcome, run'.closing = run.closing,
           pc' \in Attempting => run'.attempt <= MaxAttempts,
           pc' \in {"tools", "dispatch", "execute"} => run'.tools >= 1,
           \/ pc \in InTurn /\ run'.requested = run.requested
           \/ run'.requested = Len(context)
           \/ pc' \notin InTurn /\ run'.requested = run.requested,
           pc' = "push" => run'.batch # << >>
    PROVE  RunInv'
  <1>1. run'.outcome = "none" /\ run'.closing = {}
        BY Midway
  <1>2. run'.requested <= Len(context') /\ (pc' \in InTurn => run'.requested = Len(context'))
        BY DEF RunInv, Locals
  <1> QED BY <1>1, <1>2 DEF RunInv

\* The locals are those of no prompt, but for the ones listed.
LEMMA Resets ==
    ASSUME RunInv, context' \in Seq(Guidance), run' \in Locals,
           pc' \in {"prompt", "begin", "wait", "gone", "return", "stop"},
           run'.requested = 0, run'.outcome = "none", run'.closing = {}
    PROVE  RunInv'
  <1>1. Len(context') \in Nat
        BY LenProperties
  <1> QED BY <1>1 DEF RunInv, Label, Attempting, InTurn

LEMMA NoRunTyped == NoRun \in Locals
  BY GuidedRunAssumption, EmptySeq DEF NoRun, Locals, Outcome, Reply

---------------------------------------------------------------------------
(* The driver's locals: one step per action *)

LEMMA RunAtEnds ==
    ASSUME ControlInv,
           \/ TakePrompt \/ StopWaiting \/ RecordPrompt \/ Begin
           \/ DrainAtEnd \/ EndPrompt \/ Return \/ StopWorker
    PROVE  RunInv'
  <1> USE DEF ControlInv
  <1>0. run \in Locals /\ context \in Seq(Guidance)
        BY DEF RunInv, RestTyped
  <1>1. CASE TakePrompt
    <2>1. mailbox.tasks \in Seq(Guidance) /\ mailbox.tasks # << >>
          BY <1>1 DEF TakePrompt, CanTakeTask, MailboxInv, State
    <2>2. <<Head(mailbox.tasks)>> \in Seq(Guidance)
          BY <2>1, TailMessage
    <2>3. /\ run' = [NoRun EXCEPT !.batch = <<Head(mailbox.tasks)>>]
          /\ pc' = "prompt" /\ context' = context
          BY <1>1 DEF TakePrompt, Goto
    <2>4. run' \in Locals
          BY <2>2, <2>3, NoRunTyped DEF Locals
    <2>5. run'.requested = 0 /\ run'.outcome = "none" /\ run'.closing = {}
          BY <2>3 DEF NoRun
    <2> QED BY <2>3, <2>4, <2>5, <1>0, Resets
  <1>2. CASE StopWaiting
        BY <1>2, <1>0, Moves DEF StopWaiting, Goto, Label, Attempting, InTurn
  <1>3. CASE RecordPrompt
    <2>1. CASE pc' = "stop" /\ UNCHANGED <<run, context>>
          BY <2>1, <1>3, <1>0, Moves DEF RecordPrompt, Label, Attempting, InTurn
    <2>2. CASE pc' = "begin" /\ run' = NoRun /\ context' = context \o run.batch
      <3>1. context' \in Seq(Guidance)
            BY <2>2, <1>0, ConcatProperties DEF Locals
      <3>2. run'.requested = 0 /\ run'.outcome = "none" /\ run'.closing = {}
            BY <2>2 DEF NoRun
      <3> QED BY <3>1, <3>2, <2>2, NoRunTyped, Resets
    <2> QED BY <2>1, <2>2, <1>3 DEF RecordPrompt, Goto
  <1>4. CASE Begin
    <2>1. CASE pc' \in {"stop", "loop"} /\ UNCHANGED run
          BY <2>1, <1>4, <1>0, Moves DEF Begin, Label, Attempting, InTurn
    <2>2. CASE Leave
          BY <2>2, <1>4, Leaves DEF Begin
    <2> QED BY <2>1, <2>2, <1>4 DEF Begin, Goto, FailEvidence
  <1>5. CASE DrainAtEnd
    <2>1. /\ run' = [NoRun EXCEPT !.error = run.error, !.outcome = StoppingReason,
                                  !.requested = run.requested, !.closing = Closing]
          /\ pc' = "end" /\ context' = context
          BY <1>5 DEF DrainAtEnd, Goto
    <2>2. Closing \in SUBSET (Id \X Final)
      <3>1. mailbox.withdrawn \in Seq(Id) /\ mailbox.claimed \in Seq(Claimed)
            BY DEF MailboxInv, State, Claimed
      <3>2. Range(mailbox.withdrawn) \subseteq Id /\ Range(mailbox.claimed) \subseteq Claimed
            BY <3>1, RangeIds
      <3> QED BY <3>2 DEF Closing, Final, Claimed
    <2>3. StoppingReason \in Outcome
          BY <1>0 DEF StoppingReason, Outcome, Locals
    <2>4. run.error \in BOOLEAN /\ run.requested \in Nat
          BY <1>0 DEF Locals
    <2>5. run' \in Locals /\ run'.requested = run.requested
          BY <2>1, <2>2, <2>3, <2>4, NoRunTyped DEF Locals
    <2> QED BY <2>1, <2>5 DEF RunInv, Label, Attempting, InTurn
  <1>6. CASE EndPrompt
    <2>1. PICK error \in BOOLEAN : run' = [NoRun EXCEPT !.error = error]
      <3>1. run.error \in BOOLEAN
            BY <1>0 DEF Locals
      <3> QED BY <3>1, <1>6 DEF EndPrompt
    <2>2. pc' = "return" /\ context' = context
          BY <1>6 DEF EndPrompt, Goto
    <2>3. run' \in Locals
          BY <2>1, NoRunTyped DEF Locals
    <2>4. run'.requested = 0 /\ run'.outcome = "none" /\ run'.closing = {}
          BY <2>1 DEF NoRun
    <2> QED BY <2>2, <2>3, <2>4, <1>0, Resets
  <1>7. CASE Return \/ StopWorker
    <2>1. pc' \in {"stop", "wait", "gone"} /\ run' = NoRun /\ context' = context
          BY <1>7 DEF Return, StopWorker, Goto
    <2>2. run'.requested = 0 /\ run'.outcome = "none" /\ run'.closing = {}
          BY <2>1 DEF NoRun
    <2> QED BY <2>1, <2>2, <1>0, NoRunTyped, Resets
  <1> QED BY <1>1, <1>2, <1>3, <1>4, <1>5, <1>6, <1>7

LEMMA RunAtDelivery ==
    ASSUME ControlInv,
           TopOfLoop \/ ClaimGuidance \/ AnnounceClaim \/ Push \/ PrepareTurn
    PROVE  RunInv'
  <1> USE DEF ControlInv
  <1>0. run \in Locals /\ context \in Seq(Guidance) /\ run.batch \in Seq(Guidance)
        BY DEF RunInv, RestTyped, Locals
  <1>1. CASE TopOfLoop
    <2>1. pc = "loop" /\ context' = context
          BY <1>1 DEF TopOfLoop
    <2>2. CASE pc' = "claim" /\ UNCHANGED run
          BY <2>1, <2>2, <1>0, Moves DEF Label, Attempting, InTurn
    <2> QED BY <2>1, <2>2, <1>1, Breaks, Leaves DEF TopOfLoop, Goto, FailEvidence
  <1>2. CASE ClaimGuidance
    <2>1. /\ pc = "claim" /\ pc' = "deliver" /\ context' = context
          /\ run' = [run EXCEPT !.batch = Claimable, !.renewed = FALSE]
          BY <1>2 DEF ClaimGuidance, Goto
    <2>2. Claimable \in Seq(Guidance)
          BY EmptySeq DEF Claimable, MailboxInv, State
    <2>3. /\ run' \in Locals /\ run'.outcome = run.outcome /\ run'.closing = run.closing
          /\ run'.requested = run.requested
          BY <2>1, <2>2, <1>0 DEF Locals
    <2> QED BY <2>1, <2>3, Moves DEF Label, Attempting, InTurn
  <1>3. CASE AnnounceClaim
    <2>1. pc = "deliver" /\ context' = context /\ run.batch # << >>
          BY <1>3 DEF AnnounceClaim
    <2>2. CASE pc' = "push" /\ UNCHANGED run
          BY <2>1, <2>2, <1>0, Moves DEF Label, Attempting, InTurn
    <2>3. CASE pc' = pc /\ run' = [run EXCEPT !.batch = Tail(@)]
      <3>1. Tail(run.batch) \in Seq(Guidance)
            BY <1>0, <2>1, TailMessage
      <3>2. /\ run' \in Locals /\ run'.outcome = run.outcome /\ run'.closing = run.closing
            /\ run'.requested = run.requested
            BY <2>3, <3>1, <1>0 DEF Locals
      <3> QED BY <2>1, <2>3, <3>2, Moves DEF Label, Attempting, InTurn
    <2> QED BY <2>1, <2>2, <2>3, <1>3, Leaves DEF AnnounceClaim, Goto, FailEvidence
  <1>4. CASE Push
    <2> DEFINE message == Head(run.batch)
    <2>1. pc = "push" /\ run.batch # << >> /\ message \in Guidance
      <3>1. pc = "push" /\ run.batch # << >>
            BY <1>4 DEF Push, RunInv
      <3> QED BY <3>1, <1>0, TailMessage
    <2>2. context' \in Seq(Guidance) /\ Len(context) <= Len(context') /\ Len(context) \in Nat
      <3>1. context' = context \/ context' = Append(context, message)
            BY <1>4 DEF Push
      <3>2. Len(context) \in Nat /\ Append(context, message) \in Seq(Guidance)
            /\ Len(Append(context, message)) = Len(context) + 1
            BY <1>0, <2>1, AppendMessage
      <3> QED BY <3>1, <3>2, <1>0
    <2>3. /\ pc' \in {"deliver", "finish"} /\ run' \in Locals
          /\ run'.requested = run.requested /\ run'.closing = run.closing
          /\ pc' = "deliver" => run'.outcome = run.outcome
      <3>1. CASE /\ pc' = "deliver"
                 /\ run' = [run EXCEPT !.batch = Tail(@), !.renewed = @ \/ ~Stopped]
        <4>1. Tail(run.batch) \in Seq(Guidance) /\ (run.renewed \/ ~Stopped) \in BOOLEAN
              BY <1>0, <2>1, TailMessage
        <4> QED BY <3>1, <4>1, <1>0 DEF Locals
      <3>2. CASE Leave
            BY <3>2, <1>0 DEF Leave, Goto, Locals
      <3> QED BY <3>1, <3>2, <1>4 DEF Push, Goto, FailEvidence
    <2>4. run.closing = {} /\ run.outcome = "none"
          BY <2>1, Midway
    <2> QED BY <2>1, <2>2, <2>3, <2>4 DEF RunInv, Label, Attempting, InTurn, Locals
  <1>5. CASE PrepareTurn
    <2> DEFINE unattended == IF run.renewed THEN 0 ELSE run.unattended
               attempt == IF run.renewed THEN 1 ELSE run.attempt
    <2>1. pc = "deliver" /\ context' = context
          BY <1>5 DEF PrepareTurn
    <2>2. unattended \in 0 .. MaxTurns /\ attempt \in 1 .. (MaxAttempts + 1)
          BY <1>0, GuidedRunAssumption DEF Locals
    <2>3. CASE pc' = "finish" /\ run' = [run EXCEPT !.outcome = "limit"]
      <3>1. run' \in Locals /\ run'.requested = run.requested /\ run'.closing = run.closing
            BY <2>3, <1>0 DEF Locals, Outcome
      <3> QED BY <2>1, <2>3, <3>1, Midway DEF RunInv, Label, Attempting, InTurn
    <2>4. CASE /\ unattended < MaxTurns /\ attempt <= MaxAttempts /\ pc' = "attempt"
               /\ run' = [run EXCEPT !.unattended = unattended + 1, !.attempt = attempt,
                                     !.renewed = FALSE, !.requested = Len(context)]
      <3>1. unattended + 1 \in 0 .. MaxTurns /\ Len(context) \in Nat
            BY <2>2, <2>4, <1>0, GuidedRunAssumption
      <3> HIDE DEF unattended, attempt
      <3>2. /\ run' \in Locals /\ run'.outcome = run.outcome /\ run'.closing = run.closing
            /\ run'.requested = Len(context) /\ run'.attempt = attempt
            BY <2>2, <2>4, <3>1, <1>0 DEF Locals
      <3> QED BY <2>1, <2>4, <3>2, Moves DEF Label, Attempting, InTurn
    <2> QED BY <2>1, <2>3, <2>4, <1>5, Leaves DEF PrepareTurn, Goto, FailEvidence
  <1> QED BY <1>1, <1>2, <1>3, <1>4, <1>5

LEMMA RunInAttempt ==
    ASSUME ControlInv,
           \/ StartAttempt \/ StartOperation \/ StreamEvent \/ ReadSteered
           \/ ReadToken \/ JoinOperation \/ Backoff
           \/ \E reply \in Reply \cup {"cancelled"} : StreamReturns(reply)
    PROVE  RunInv'
  <1> USE DEF ControlInv
  <1>0. run \in Locals /\ (pc \in Attempting => run.attempt <= MaxAttempts)
        BY DEF RunInv
  <1>a. /\ run.attempt \in 1 .. (MaxAttempts + 1)
        /\ pc \in Attempting => run.attempt + 1 \in 1 .. (MaxAttempts + 1)
        BY <1>0, GuidedRunAssumption DEF Locals
  <1>b. ASSUME pc \in Attempting, pc' \in Attempting \cup {"turn"}, context' = context,
               run' \in Locals, run'.attempt <= MaxAttempts,
               run'.outcome = run.outcome, run'.closing = run.closing,
               run'.requested = run.requested
        PROVE  RunInv'
        BY <1>b, Moves DEF Label, Attempting, InTurn
  <1>1. CASE StartAttempt
    <2>1. pc = "attempt" /\ context' = context
          BY <1>1 DEF StartAttempt
    <2>2. CASE pc' = "start" /\ UNCHANGED run
          BY <2>1, <2>2, <1>0, <1>b DEF Attempting
    <2> QED BY <2>1, <2>2, <1>1, <1>a, Breaks, Leaves, Restarts
            DEF StartAttempt, Goto, FailEvidence
  <1>2. CASE StartOperation
    <2>1. pc = "start" /\ context' = context
          BY <1>2 DEF StartOperation
    <2>2. CASE pc' = "stream" /\ UNCHANGED run
          BY <2>1, <2>2, <1>0, <1>b DEF Attempting
    <2> QED BY <2>1, <2>2, <1>2, Breaks DEF StartOperation, Goto
  <1>3. CASE StreamEvent
    <2>1. pc = "stream" /\ pc' = "ended" /\ context' = context
          BY <1>3 DEF StreamEvent, Goto
    <2>2. PICK event \in BOOLEAN, reply \in {"cancelled", "evidence"} :
              run' = [run EXCEPT !.event = event, !.reply = reply]
      <3>1. CASE run' = [run EXCEPT !.event = HasPending, !.reply = "cancelled"]
            BY <3>1 DEF HasPending
      <3>2. CASE run' = [run EXCEPT !.reply = "evidence"]
        <4>1. run' = [run EXCEPT !.event = run.event, !.reply = "evidence"] /\ run.event \in BOOLEAN
              BY <3>2, <1>0 DEF Locals
        <4> QED BY <4>1
      <3> QED BY <3>1, <3>2, <1>3 DEF StreamEvent
    <2>3. /\ run' \in Locals /\ run'.attempt = run.attempt /\ run'.outcome = run.outcome
          /\ run'.closing = run.closing /\ run'.requested = run.requested
          BY <2>2, <1>0 DEF Locals
    <2> QED BY <2>1, <2>3, <1>0, <1>b DEF Attempting
  <1>4. ASSUME NEW reply \in Reply \cup {"cancelled"}, StreamReturns(reply) PROVE RunInv'
    <2>1. /\ pc = "stream" /\ pc' = "ended" /\ context' = context
          /\ run' = [run EXCEPT !.reply = reply]
          BY <1>4 DEF StreamReturns, Goto
    <2>2. /\ run' \in Locals /\ run'.attempt = run.attempt /\ run'.outcome = run.outcome
          /\ run'.closing = run.closing /\ run'.requested = run.requested
          BY <2>1, <1>4, <1>0 DEF Locals
    <2> QED BY <2>1, <2>2, <1>0, <1>b DEF Attempting
  <1>5. CASE ReadSteered
    <2>1. /\ pc = "ended" /\ pc' = "read" /\ context' = context
          /\ run' = [run EXCEPT !.interrupted = run.event \/ operation.steered]
          BY <1>5 DEF ReadSteered, Goto
    <2>2. (run.event \/ operation.steered) \in BOOLEAN
          OBVIOUS
    <2>3. /\ run' \in Locals /\ run'.attempt = run.attempt /\ run'.outcome = run.outcome
          /\ run'.closing = run.closing /\ run'.requested = run.requested
          BY <2>1, <2>2, <1>0 DEF Locals
    <2> QED BY <2>1, <2>3, <1>0, <1>b DEF Attempting
  <1>6. CASE ReadToken
    <2>1. /\ pc = "read" /\ pc' = "join" /\ context' = context
          /\ run' = [run EXCEPT !.stopped = operation.cancelled]
          BY <1>6 DEF ReadToken, Goto
    <2>2. operation.cancelled \in BOOLEAN
          BY DEF OperationInv
    <2>3. /\ run' \in Locals /\ run'.attempt = run.attempt /\ run'.outcome = run.outcome
          /\ run'.closing = run.closing /\ run'.requested = run.requested
          BY <2>1, <2>2, <1>0 DEF Locals
    <2> QED BY <2>1, <2>3, <1>0, <1>b DEF Attempting
  <1>7. CASE JoinOperation
    <2>1. pc = "join" /\ context' = context
          BY <1>7 DEF JoinOperation
    <2>2. CASE Settle
      <3>1. CASE UNCHANGED run /\ pc' = "turn"
            BY <3>1, <2>1, <1>0, <1>b DEF Attempting
      <3>2. CASE /\ run.attempt < MaxAttempts /\ pc' \in {"attempt", "backoff"}
                 /\ run' = [run EXCEPT !.attempt = @ + 1, !.reply = "none"]
        <4>1. run.attempt + 1 <= MaxAttempts /\ run.attempt + 1 \in 1 .. (MaxAttempts + 1)
              BY <3>2, <1>a, GuidedRunAssumption
        <4>2. /\ run' \in Locals /\ run'.attempt = run.attempt + 1 /\ run'.outcome = run.outcome
              /\ run'.closing = run.closing /\ run'.requested = run.requested
              BY <3>2, <4>1, <1>0 DEF Locals
        <4> QED BY <3>2, <4>1, <4>2, <2>1, <1>b DEF Attempting
      <3> QED BY <3>1, <3>2, <2>1, <2>2, Fails, Leaves DEF Settle, Goto, FailEvidence
    <2> QED BY <2>1, <2>2, <1>7, <1>a, Breaks, Leaves, Restarts
            DEF JoinOperation, FailEvidence, Attempting
  <1>8. CASE Backoff
    <2>1. pc = "backoff" /\ context' = context
          BY <1>8 DEF Backoff
    <2>2. CASE pc' = "attempt" /\ UNCHANGED run
          BY <2>1, <2>2, <1>0, <1>b DEF Attempting
    <2> QED BY <2>1, <2>2, <1>8, <1>a, Breaks, Restarts DEF Backoff, Goto
  <1> QED BY <1>1, <1>2, <1>3, <1>4, <1>5, <1>6, <1>7, <1>8

LEMMA RunInTurn ==
    ASSUME ControlInv,
           \/ AcceptTurn \/ RecordDispatch \/ Dispatch \/ Execute \/ EndBatch
           \/ Answer
    PROVE  RunInv'
  <1> USE DEF ControlInv
  <1>0. /\ run \in Locals /\ 1 \in 1 .. (MaxAttempts + 1)
        /\ pc \in {"tools", "dispatch", "execute"} => run.tools >= 1
        BY GuidedRunAssumption DEF RunInv
  <1>b. ASSUME pc \in {"turn", "tools", "dispatch", "execute"}, context' = context,
               pc' \in {"tools", "dispatch", "execute", "batch", "final"},
               run' \in Locals, pc' \in {"batch", "final"} \/ run'.tools >= 1,
               run'.outcome = run.outcome, run'.closing = run.closing,
               run'.requested = run.requested
        PROVE  RunInv'
        BY <1>b, Moves DEF Label, Attempting, InTurn
  <1>c. ASSUME pc \in {"tools", "dispatch"}, context' = context, RejectRest
        PROVE  RunInv'
    <2>1. CASE pc' = "batch" /\ run' = [run EXCEPT !.tools = 0]
      <3>1. /\ run' \in Locals /\ run'.outcome = run.outcome
            /\ run'.closing = run.closing /\ run'.requested = run.requested
            BY <2>1, <1>0, GuidedRunAssumption, SMTT(30) DEF Locals
      <3> QED BY <2>1, <3>1, <1>b, <1>c
    <2> QED BY <2>1, <1>c, Leaves DEF RejectRest, Goto, FailEvidence
  <1>1. CASE AcceptTurn
    <2>1. pc = "turn" /\ context' = context
          BY <1>1 DEF AcceptTurn
    <2>2. CASE pc' = "final" /\ run' = [run EXCEPT !.attempt = 1]
      <3>1. /\ run' \in Locals /\ run'.outcome = run.outcome
            /\ run'.closing = run.closing /\ run'.requested = run.requested
            BY <2>2, <1>0 DEF Locals
      <3> QED BY <2>1, <2>2, <3>1, <1>b
    <2>3. ASSUME NEW n \in 1 .. MaxTools, pc' = "tools",
                 run' = [run EXCEPT !.attempt = 1, !.tools = n]
          PROVE  RunInv'
      <3>1. n \in 0 .. MaxTools /\ n >= 1
            BY GuidedRunAssumption
      <3>2. /\ run' \in Locals /\ run'.outcome = run.outcome /\ run'.tools = n
            /\ run'.closing = run.closing /\ run'.requested = run.requested
            BY <2>3, <3>1, <1>0 DEF Locals
      <3> QED BY <2>1, <2>3, <3>1, <3>2, <1>b
    <2> QED BY <2>1, <2>2, <2>3, <1>1, <1>0, Breaks, Restarts, Fails DEF AcceptTurn, Goto
  <1>2. CASE RecordDispatch
    <2>1. pc = "tools" /\ context' = context
          BY <1>2 DEF RecordDispatch
    <2>2. CASE pc' = "dispatch" /\ UNCHANGED run
          BY <2>1, <2>2, <1>0, <1>b
    <2> QED BY <2>1, <2>2, <1>2, <1>c, Leaves DEF RecordDispatch, Goto, FailEvidence
  <1>3. CASE Dispatch
    <2>1. pc = "dispatch" /\ context' = context
          BY <1>3 DEF Dispatch
    <2>2. CASE pc' = "execute" /\ UNCHANGED run
          BY <2>1, <2>2, <1>0, <1>b
    <2> QED BY <2>1, <2>2, <1>3, <1>c DEF Dispatch, Goto
  <1>4. CASE Execute
    <2>1. pc = "execute" /\ context' = context
          BY <1>4 DEF Execute
    <2>2. ASSUME NEW failure \in {"none", "tool"},
                 pc' = IF run.tools = 1 THEN "batch" ELSE "tools",
                 run' = [run EXCEPT !.tools = @ - 1, !.failure = failure]
          PROVE  RunInv'
      <3>1. run.tools - 1 \in 0 .. MaxTools /\ (run.tools # 1 => run.tools - 1 >= 1)
            BY <2>1, <1>0, GuidedRunAssumption DEF Locals
      <3>2. /\ run' \in Locals /\ run'.outcome = run.outcome /\ run'.tools = run.tools - 1
            /\ run'.closing = run.closing /\ run'.requested = run.requested
            BY <2>2, <3>1, <1>0 DEF Locals
      <3> QED BY <2>1, <2>2, <3>1, <3>2, <1>b
    <2> QED BY <2>1, <2>2, <1>4, Leaves DEF Execute, Goto, FailEvidence
  <1>5. CASE EndBatch
    <2>1. pc = "batch" /\ context' = context
          BY <1>5 DEF EndBatch
    <2> QED BY <2>1, <1>5, <1>0, Leaves, Breaks, Restarts DEF EndBatch, FailEvidence
  <1>6. CASE Answer
    <2>1. pc = "final" /\ context' = context
          BY <1>6 DEF Answer
    <2>2. CASE pc' = "finish" /\ run' = [run EXCEPT !.outcome = "completed"]
      <3>1. run' \in Locals /\ run'.requested = run.requested /\ run'.closing = run.closing
            BY <2>2, <1>0 DEF Locals, Outcome
      <3> QED BY <2>1, <2>2, <3>1, Midway DEF RunInv, Label, Attempting, InTurn
    <2> QED BY <2>1, <2>2, <1>6, <1>0, Leaves, Breaks, Restarts DEF Answer, FailEvidence, Goto
  <1> QED BY <1>1, <1>2, <1>3, <1>4, <1>5, <1>6

\* Every step of the system, by the part of the system that takes it.
Delivery == TopOfLoop \/ ClaimGuidance \/ AnnounceClaim \/ Push \/ PrepareTurn

Attempts ==
    \/ StartAttempt \/ StartOperation \/ StreamEvent \/ ReadSteered
    \/ ReadToken \/ JoinOperation \/ Backoff
    \/ \E reply \in Reply \cup {"cancelled"} : StreamReturns(reply)

Turns ==
    \/ AcceptTurn \/ RecordDispatch \/ Dispatch \/ Execute \/ EndBatch \/ Answer

Ends ==
    \/ TakePrompt \/ StopWaiting \/ RecordPrompt \/ Begin
    \/ DrainAtEnd \/ EndPrompt \/ Return \/ StopWorker

Others ==
    \/ Watch \/ Fire \/ Submit \/ Cancel \/ Interrupt \/ StopSession
    \/ \E id \in Id : Edit(id) \/ Withdraw(id)

LEMMA Steps ==
    ASSUME Next
    PROVE  Ends \/ Delivery \/ Attempts \/ Turns \/ Others
  <1>1. StreamStops => \E reply \in Reply \cup {"cancelled"} : StreamReturns(reply)
        BY DEF StreamStops
  <1>2. Provider => Attempts
        BY DEF Provider, Attempts
  <1>3. Worker => Ends \/ Delivery \/ Attempts \/ Turns
        BY <1>1 DEF Worker, Ends, Delivery, Attempts, Turns
  <1>4. Watcher \/ Person => Others
        BY DEF Watcher, Person, Others
  <1> QED BY <1>2, <1>3, <1>4 DEF Next

LEMMA RunNext ==
    ASSUME ControlInv, Next
    PROVE  RunInv'
  <1>1. Others => UNCHANGED <<pc, run, context>>
        BY DEF Others, Watch, Fire, Submit, Cancel, Interrupt, StopSession, Edit, Withdraw,
               driver
  <1>2. CASE Others
        BY <1>1, <1>2 DEF ControlInv, RunInv
  <1> QED BY <1>2, Steps, RunAtEnds, RunAtDelivery, RunInAttempt, RunInTurn
          DEF Ends, Delivery, Attempts, Turns

---------------------------------------------------------------------------
(* The provider operation *)

LEMMA OperationNext ==
    ASSUME ControlInv, Next
    PROVE  OperationInv'
  <1> DEFINE During == {"stream", "ended", "read", "join"}
  <1> USE DEF ControlInv
  <1>0. OperationInv
        OBVIOUS
  <1>1. CASE Ends \/ Delivery \/ Turns
    <2>1. operation' = operation /\ pc \notin During
          BY <1>1 DEF Ends, Delivery, Turns, TakePrompt, StopWaiting, RecordPrompt, Begin,
                      DrainAtEnd, EndPrompt, Return, StopWorker, TopOfLoop, ClaimGuidance,
                      AnnounceClaim, Push, PrepareTurn, AcceptTurn, RecordDispatch, Dispatch,
                      Execute, EndBatch, Answer
    <2> QED BY <2>1, <1>0 DEF OperationInv
  <1>2. CASE Others
    <2>1. pc' = pc
          BY <1>2 DEF Others, Watch, Fire, Submit, Cancel, Interrupt, StopSession, Edit,
                      Withdraw, driver
    <2>2. CASE Watch \/ Fire
      <3>1. HasPending \in BOOLEAN
            BY DEF HasPending
      <3>2. operation.watcher \in {"poll", "fire"}
            BY <2>2 DEF Watch, Fire
      <3>3. \/ operation' = [operation EXCEPT !.watcher = "fire"]
            \/ operation' = [watcher |-> "done", cancelled |-> TRUE, steered |-> HasPending]
            BY <2>2 DEF Watch, Fire
      <3>4. CASE operation' = [operation EXCEPT !.watcher = "fire"]
            BY <2>1, <3>2, <3>4, <1>0 DEF OperationInv
      <3>5. CASE operation' = [watcher |-> "done", cancelled |-> TRUE, steered |-> HasPending]
            BY <2>1, <3>1, <3>2, <3>5, <1>0 DEF OperationInv
      <3> QED BY <3>3, <3>4, <3>5
    <2>3. ~(Watch \/ Fire) => operation' = operation
          BY <1>2 DEF Others, Submit, Cancel, Interrupt, StopSession, Edit, Withdraw, driver
    <2> QED BY <2>1, <2>2, <2>3, <1>0 DEF OperationInv
  <1>3. CASE Attempts
    <2>1. CASE StartAttempt \/ Backoff
          BY <2>1, <1>0 DEF StartAttempt, Backoff, OperationInv
    <2>2. CASE StartOperation
      <3>1. \/ operation' = [NoOperation EXCEPT !.watcher = "poll"] /\ pc' = "stream"
            \/ operation' = operation /\ pc = "start"
            BY <2>2 DEF StartOperation, Goto
      <3> QED BY <3>1, <1>0 DEF OperationInv, NoOperation
    <2>3. CASE StreamEvent
          BY <2>3, <1>0 DEF StreamEvent, OperationInv, Goto
    <2>4. CASE ReadSteered \/ ReadToken \/ \E reply \in Reply \cup {"cancelled"} : StreamReturns(reply)
          BY <2>4, <1>0 DEF ReadSteered, ReadToken, StreamReturns, OperationInv, Goto
    <2>5. CASE JoinOperation
      <3>1. operation' = NoOperation
            BY <2>5 DEF JoinOperation
      <3> QED BY <3>1 DEF OperationInv, NoOperation
    <2> QED BY <2>1, <2>2, <2>3, <2>4, <2>5, <1>3 DEF Attempts
  <1> QED BY <1>1, <1>2, <1>3, Steps

---------------------------------------------------------------------------
(* The other variables *)

\* An evidence call fails at most MaxFaults times.
LEMMA FaultsTyped ==
    ASSUME faults \in 0 .. MaxFaults, Recorded \/ Presented \/ EvidenceFails
    PROVE  faults' \in 0 .. MaxFaults
  BY GuidedRunAssumption DEF Recorded, Presented, EvidenceFails

LEMMA NotifyTyped ==
    ASSUME noticed \in [Id -> SUBSET Final], NEW ids, NEW state \in Final,
           Notify(ids, state)
    PROVE  noticed' \in [Id -> SUBSET Final]
  BY DEF Notify

LEMMA FaultsNext ==
    ASSUME RestTyped, Next
    PROVE  faults' \in 0 .. MaxFaults
  <1>0. faults \in 0 .. MaxFaults
        BY DEF RestTyped
  <1>1. CASE Others
        BY <1>1, <1>0 DEF Others, Watch, Fire, Submit, Cancel, Interrupt, StopSession, Edit,
                          Withdraw
  <1>2. CASE Ends
        BY <1>2, <1>0, FaultsTyped
           DEF Ends, TakePrompt, StopWaiting, RecordPrompt, Begin, DrainAtEnd, EndPrompt,
               Return, StopWorker, FailEvidence
  <1>3. CASE Delivery
        BY <1>3, <1>0, FaultsTyped
           DEF Delivery, TopOfLoop, ClaimGuidance, AnnounceClaim, Push, PrepareTurn,
               FailEvidence
  <1>4. CASE Attempts
        BY <1>4, <1>0, FaultsTyped
           DEF Attempts, StartAttempt, StartOperation, StreamEvent, ReadSteered, ReadToken,
               JoinOperation, Settle, Backoff, StreamReturns, FailEvidence
  <1>5. CASE Turns
        BY <1>5, <1>0, FaultsTyped
           DEF Turns, AcceptTurn, RecordDispatch, Dispatch, Execute, EndBatch, Answer,
               RejectRest, FailEvidence
  <1> QED BY <1>1, <1>2, <1>3, <1>4, <1>5, Steps

LEMMA CancelledNext ==
    ASSUME RestTyped, Next
    PROVE  cancelled' \in BOOLEAN
  <1>0. cancelled \in BOOLEAN
        BY DEF RestTyped
  <1>s. Stopped \in BOOLEAN
        BY DEF Stopped
  <1>1. CASE Others
        BY <1>1, <1>0, Zenon
           DEF Others, Watch, Fire, Submit, Cancel, Interrupt, StopSession, Edit, Withdraw
  <1>2. CASE Ends
        BY <1>2, <1>0, Zenon
           DEF Ends, TakePrompt, StopWaiting, RecordPrompt, Begin, DrainAtEnd, EndPrompt,
               Return, StopWorker
  <1>3. CASE Delivery
        BY <1>3, <1>0, <1>s, Zenon
           DEF Delivery, TopOfLoop, ClaimGuidance, AnnounceClaim, Push, PrepareTurn
  <1>4. CASE Attempts
        BY <1>4, <1>0, <1>s, Zenon
           DEF Attempts, StartAttempt, StartOperation, StreamEvent, ReadSteered, ReadToken,
               JoinOperation, Backoff, StreamReturns
  <1>5. CASE Turns
    <2>1. CASE Execute
      <3>1. \A failure \in {"none", "tool"} : (cancelled \/ failure = "none") \in BOOLEAN
            OBVIOUS
      <3>2. \/ cancelled' = cancelled
            \/ \E failure \in {"none", "tool"} : cancelled' = (cancelled \/ failure = "none")
            BY <2>1 DEF Execute
      <3> QED BY <3>1, <3>2, <1>0
    <2> QED BY <2>1, <1>5, <1>0, <1>s, Zenon
            DEF Turns, AcceptTurn, RecordDispatch, Dispatch, EndBatch, Answer
  <1> QED BY <1>1, <1>2, <1>3, <1>4, <1>5, Steps

LEMMA RestNext ==
    ASSUME ControlInv, Next
    PROVE  RestTyped'
  <1> USE DEF ControlInv
  <1>0. RestTyped /\ run \in Locals
        BY DEF RunInv
  <1>1. faults' \in 0 .. MaxFaults /\ cancelled' \in BOOLEAN
        BY <1>0, FaultsNext, CancelledNext
  <1>2. CASE Others
    <2>1. context' = context /\ noticed' = noticed
          BY <1>2 DEF Others, Watch, Fire, Submit, Cancel, Interrupt, StopSession, Edit, Withdraw
    <2>2. stopping' \in 0 .. 3
      <3>1. StopSession => stopping < 3 /\ stopping' = stopping + 1
            BY DEF StopSession
      <3>2. ~StopSession => stopping' = stopping
            BY <1>2 DEF Others, Watch, Fire, Submit, Cancel, Interrupt, Edit, Withdraw, person
      <3> QED BY <3>1, <3>2, <1>0 DEF RestTyped
    <2>3. ack' \in [Id -> {"none", "task", "guidance", "edited", "withdrawn"}]
          BY <1>2, <1>0 DEF Others, Watch, Fire, Submit, Cancel, Interrupt, StopSession, Edit,
                            Withdraw, person, RestTyped
    <2> QED BY <2>1, <2>2, <2>3, <1>0, <1>1 DEF RestTyped
  <1>3. CASE Attempts \/ Turns
    <2>1. UNCHANGED <<context, noticed, person>>
          BY <1>3 DEF Attempts, Turns, StartAttempt, StartOperation, StreamEvent, ReadSteered,
                      ReadToken, JoinOperation, Backoff, StreamReturns, AcceptTurn,
                      RecordDispatch, Dispatch, Execute, EndBatch, Answer
    <2> QED BY <2>1, <1>0, <1>1 DEF RestTyped, person
  <1>4. CASE Ends
    <2>1. UNCHANGED person
          BY <1>4 DEF Ends, TakePrompt, StopWaiting, RecordPrompt, Begin, DrainAtEnd,
                      EndPrompt, Return, StopWorker
    <2>2. context' \in Seq(Guidance)
      <3>1. context' = context \/ context' = context \o run.batch
            BY <1>4 DEF Ends, TakePrompt, StopWaiting, RecordPrompt, Begin, DrainAtEnd,
                        EndPrompt, Return, StopWorker
      <3>2. context \o run.batch \in Seq(Guidance)
            BY <1>0, ConcatProperties DEF RestTyped, Locals
      <3> QED BY <3>1, <3>2, <1>0 DEF RestTyped
    <2>3. CASE EndPrompt
      <3>1. run.closing \subseteq Id \X Final
            BY <1>0 DEF Locals
      <3>2. noticed' \in [Id -> SUBSET Final]
            BY <2>3, <3>1, <1>0 DEF EndPrompt, RestTyped, Final
      <3> QED BY <3>2, <2>1, <2>2, <1>0, <1>1 DEF RestTyped, person
    <2>4. ~EndPrompt => noticed' = noticed
          BY <1>4 DEF Ends, TakePrompt, StopWaiting, RecordPrompt, Begin, DrainAtEnd,
                      Return, StopWorker
    <2> QED BY <2>1, <2>2, <2>3, <2>4, <1>0, <1>1 DEF RestTyped, person
  <1>5. CASE Delivery
    <2>1. UNCHANGED person
          BY <1>5 DEF Delivery, TopOfLoop, ClaimGuidance, AnnounceClaim, Push, PrepareTurn
    <2>2. context' \in Seq(Guidance)
      <3>1. \/ context' = context
            \/ pc = "push" /\ context' = Append(context, Head(run.batch))
            BY <1>5 DEF Delivery, TopOfLoop, ClaimGuidance, AnnounceClaim, Push, PrepareTurn
      <3>2. pc = "push" => Head(run.batch) \in Guidance
            BY <1>0, TailMessage DEF RunInv, Locals
      <3> QED BY <3>1, <3>2, <1>0, AppendMessage DEF RestTyped
    <2>3. noticed' \in [Id -> SUBSET Final]
      <3>1. \/ noticed' = noticed
            \/ \E ids, state : state \in Final /\ Notify(ids, state)
            BY <1>5 DEF Delivery, TopOfLoop, ClaimGuidance, AnnounceClaim, Push, PrepareTurn,
                        Final
      <3> QED BY <3>1, <1>0, NotifyTyped DEF RestTyped
    <2> QED BY <2>1, <2>2, <2>3, <1>0, <1>1 DEF RestTyped, person
  <1> QED BY <1>2, <1>3, <1>4, <1>5, Steps

---------------------------------------------------------------------------
(* The messages: steps that move none of them *)

Empties == {"wait", "return"}

\* A step that leaves pending, claimed, dropped and delivered messages where
\* they are: it may take a task, forget withdrawals it reported, and change
\* whether a prompt is active.
LEMMA Unmoved ==
    ASSUME Inv, mailbox' \in State, context' = context, ack' = ack,
           mailbox'.guidance = mailbox.guidance, mailbox'.claimed = mailbox.claimed,
           mailbox'.dropped = mailbox.dropped, mailbox'.closed = mailbox.closed,
           mailbox'.sequence = mailbox.sequence,
           Range(mailbox'.tasks) \subseteq Range(mailbox.tasks),
           Len(mailbox'.tasks) <= Len(mailbox.tasks),
           Range(mailbox'.withdrawn) \subseteq Range(mailbox.withdrawn),
           Len(mailbox'.withdrawn) <= Len(mailbox.withdrawn),
           ~mailbox'.active => mailbox.guidance = << >>,
           run'.closing = run.closing,
           \A id \in Id : \/ noticed'[id] = noticed[id]
                          \/ /\ ack[id] = "withdrawn"
                             /\ noticed'[id] = noticed[id] \cup {"withdrawn"},
           pc' = "prompt" => \A m \in Range(run'.batch) : ack[m.id] = "task" /\ m.text = 0,
           pc' \in Delivering => pc \in Delivering /\ run'.batch = run.batch,
           pc' \in Empties => ~mailbox'.active /\ mailbox.dropped = << >>,
           pc' \notin Delivering \cup {"finish"} => mailbox.claimed = << >>
    PROVE  MailboxInv' /\ MessageInv'
  <1> USE DEF Inv, ControlInv, MessageInv
  <1>1. MailboxInv'
    <2>1. /\ Len(mailbox.tasks) \in Nat /\ Len(mailbox'.tasks) \in Nat
          /\ Len(mailbox.guidance) \in Nat /\ Len(mailbox.claimed) \in Nat
          /\ Len(mailbox.withdrawn) \in Nat /\ Len(mailbox'.withdrawn) \in Nat
          BY LenProperties DEF MailboxInv, State
    <2>2. /\ Len(mailbox.guidance) <= Len(mailbox.guidance)
          /\ Len(mailbox.claimed) <= Len(mailbox.claimed)
          BY <2>1
    <2>3. Fits(Len(mailbox.guidance), Len(mailbox'.tasks), Len(mailbox.claimed))
      <3>1. Fits(Len(mailbox.guidance), Len(mailbox.tasks), Len(mailbox.claimed))
            BY DEF MailboxInv
      <3> QED BY <2>1, <2>2, <3>1, FittingLess
    <2>4. Len(mailbox'.withdrawn) <= Capacity
          BY <2>1, MailboxAssumption DEF MailboxInv
    <2> QED BY <2>3, <2>4 DEF MailboxInv
  <1>a. /\ Range(mailbox.guidance) \subseteq Guidance /\ Range(run.batch) \subseteq Guidance
        BY RangeIds DEF MailboxInv, State, RunInv, Locals
  <1>b. ASSUME NEW m \in Guidance, Accepted(m.id) PROVE noticed'[m.id] = noticed[m.id]
        BY <1>b DEF Accepted, Guidance
  <1>2. Acknowledged'
        BY DEF Acknowledged, AsAccepted, Accepted, Delivering
  <1>3. NoticesTrue'
        BY DEF NoticesTrue, Truthful, Accepted
  <1>4. PendingUntouched'
        BY <1>a, <1>b DEF PendingUntouched, Acknowledged, AsAccepted
  <1>5. ClaimsTrue'
        BY DEF ClaimsTrue
  <1>6. BatchClaimed'
        BY <1>a, <1>b DEF BatchClaimed, Acknowledged, AsAccepted
  <1>7. NoneLost'
        BY DEF NoneLost, Accepted
  <1>8. Emptied'
        BY DEF Emptied, Empties
  <1> QED BY <1>1, <1>2, <1>3, <1>4, <1>5, <1>6, <1>7, <1>8

\* A step that does not concern the messages at all.
LEMMA Silent ==
    ASSUME Inv, UNCHANGED <<mailbox, context, ack, noticed>>, run'.closing = run.closing,
           pc' = "prompt" => pc = "prompt" /\ run'.batch = run.batch,
           pc' \in Delivering => pc \in Delivering /\ run'.batch = run.batch,
           pc' \in Empties => pc \in Empties,
           pc' \in Delivering \cup {"finish"} \/ pc \notin Delivering \cup {"finish"}
             \/ mailbox.claimed = << >>
    PROVE  MailboxInv' /\ MessageInv'
  <1>1. mailbox \in State /\ Emptied /\ Acknowledged
        BY DEF Inv, ControlInv, MessageInv, MailboxInv
  <1>2. Len(mailbox.tasks) \in Nat /\ Len(mailbox.withdrawn) \in Nat
        BY <1>1, LenProperties DEF State
  <1>3. /\ ~mailbox.active => mailbox.guidance = << >>
        /\ pc' \in Empties => ~mailbox.active /\ mailbox.dropped = << >>
        /\ pc' \notin Delivering \cup {"finish"} => mailbox.claimed = << >>
        BY <1>1 DEF Emptied, Empties
  <1>4. pc' = "prompt" => \A m \in Range(run'.batch) : ack[m.id] = "task" /\ m.text = 0
        BY <1>1 DEF Acknowledged
  <1> QED BY <1>1, <1>2, <1>3, <1>4, Unmoved

\* What the steps of an attempt and of a turn do to the messages: an answer may
\* leave the mailbox idle, nothing else.
LEMMA MessagesInAttempt ==
    ASSUME Inv, Attempts
    PROVE  MailboxInv' /\ MessageInv'
  <1>1. /\ pc \in Attempting /\ pc' \in Attempting \cup {"finish", "loop", "turn"}
        /\ UNCHANGED <<mailbox, context, noticed, person>>
    <2>1. CASE JoinOperation
          BY <2>1 DEF JoinOperation, Settle, FailEvidence, Leave, Fail, Break, Again, Goto,
                      Attempting
    <2>2. CASE ~JoinOperation
          BY <2>2 DEF Attempts, StartAttempt, StartOperation, StreamEvent, ReadSteered,
                      ReadToken, Backoff, StreamReturns, FailEvidence, Leave, Break, Again,
                      Goto, Attempting
    <2> QED BY <2>1, <2>2
  <1>2. run'.closing = run.closing
    <2>1. RunInv' /\ RunInv
          BY RunInAttempt DEF Inv, ControlInv, Attempts
    <2> QED BY <2>1, <1>1 DEF RunInv, Attempting
  <1> QED BY <1>1, <1>2, Silent DEF Attempting, Delivering, Empties, person

LEMMA MessagesInTurn ==
    ASSUME Inv, Turns
    PROVE  MailboxInv' /\ MessageInv'
  <1> DEFINE Turning == {"turn", "tools", "dispatch", "execute", "batch", "final"}
  <1>1. /\ pc \in Turning /\ pc' \in Turning \cup {"finish", "loop"}
        /\ UNCHANGED <<context, noticed, person>>
    <2>1. CASE Execute
          BY <2>1 DEF Execute, FailEvidence, Leave, Goto
    <2>2. CASE AcceptTurn
          BY <2>2 DEF AcceptTurn, Fail, Break, Again, Goto
    <2>3. CASE RecordDispatch \/ Dispatch
          BY <2>3 DEF RecordDispatch, Dispatch, RejectRest, FailEvidence, Leave, Goto
    <2>4. CASE EndBatch \/ Answer
          BY <2>4 DEF EndBatch, Answer, FailEvidence, Leave, Break, Again, Goto
    <2> QED BY <2>1, <2>2, <2>3, <2>4 DEF Turns
  <1>2. run'.closing = run.closing
    <2>1. RunInv' /\ RunInv
          BY RunInTurn DEF Inv, ControlInv, Turns
    <2> QED BY <2>1, <1>1 DEF RunInv
  <1>3. CASE mailbox' = mailbox
        BY <1>1, <1>2, <1>3, Silent DEF Delivering, Empties, person
  <1>4. CASE pc = "final" /\ ~HasPending /\ FinishIfIdle
    <2>1. mailbox \in State /\ Emptied
          BY DEF Inv, ControlInv, MessageInv, MailboxInv
    <2>2. mailbox' = [mailbox EXCEPT !.active = FALSE]
          BY <1>4 DEF FinishIfIdle
    <2>3. /\ mailbox' \in State
          /\ mailbox'.guidance = mailbox.guidance /\ mailbox'.claimed = mailbox.claimed
          /\ mailbox'.dropped = mailbox.dropped /\ mailbox'.closed = mailbox.closed
          /\ mailbox'.sequence = mailbox.sequence /\ mailbox'.tasks = mailbox.tasks
          /\ mailbox'.withdrawn = mailbox.withdrawn
          BY <2>1, <2>2 DEF State
    <2>4. Len(mailbox.tasks) \in Nat /\ Len(mailbox.withdrawn) \in Nat
          BY <2>1, LenProperties DEF State
    <2>5. mailbox.guidance = << >> /\ mailbox.claimed = << >>
          BY <2>1, <1>4 DEF Emptied, HasPending, Delivering
    <2> QED BY <1>1, <1>2, <2>3, <2>4, <2>5, Unmoved DEF Delivering, Empties, person
  <1>5. mailbox' = mailbox \/ (pc = "final" /\ ~HasPending /\ FinishIfIdle)
        BY DEF Turns, AcceptTurn, RecordDispatch, Dispatch, Execute, EndBatch, Answer
  <1> QED BY <1>3, <1>4, <1>5

---------------------------------------------------------------------------
(* The messages: the top of the loop *)

LEMMA MessagesAtTop ==
    ASSUME Inv, TopOfLoop \/ PrepareTurn
    PROVE  MailboxInv' /\ MessageInv'
  <1>0. mailbox \in State /\ Emptied /\ RunInv /\ RestTyped /\ Acknowledged /\ RunInv'
        BY RunAtDelivery DEF Inv, ControlInv, MessageInv, MailboxInv
  <1>1. CASE PrepareTurn
    <2>1. /\ pc = "deliver" /\ pc' \in {"finish", "attempt"} /\ run.batch = << >>
          /\ UNCHANGED <<mailbox, context, noticed, person>>
          BY <1>1 DEF PrepareTurn, FailEvidence, Leave, Goto
    <2>2. mailbox.claimed = << >>
      <3>1. mailbox.claimed \in Seq(Claimed)
            BY <1>0 DEF State, Claimed
      <3>2. Range(mailbox.claimed) =
               {[id |-> m.id, delivered |-> FALSE] : m \in Range(run.batch)}
            BY <2>1 DEF Inv, MessageInv, BatchClaimed, Delivering
      <3> QED BY <2>1, <3>1, <3>2, RangeIds, NoMessages
    <2>3. run'.closing = run.closing
          BY <2>1, <1>0 DEF RunInv
    <2> QED BY <2>1, <2>2, <2>3, Silent DEF Delivering, Empties, person
  <1>2. CASE TopOfLoop
    <2>1. /\ pc = "loop" /\ pc' \in {"finish", "claim"}
          /\ UNCHANGED <<context, person>>
          BY <1>2 DEF TopOfLoop, FailEvidence, Leave, Break, Goto
    <2>2. run'.closing = run.closing
          BY <2>1, <1>0 DEF RunInv
    <2>3. CASE UNCHANGED <<mailbox, noticed>>
          BY <2>1, <2>2, <2>3, Silent DEF Delivering, Empties, person
    <2>4. CASE DrainWithdrawals
      <3>1. mailbox' = [mailbox EXCEPT !.withdrawn = << >>]
            BY <2>4 DEF DrainWithdrawals
      <3>2. /\ mailbox' \in State /\ mailbox'.active = mailbox.active
            /\ mailbox'.guidance = mailbox.guidance /\ mailbox'.claimed = mailbox.claimed
            /\ mailbox'.dropped = mailbox.dropped /\ mailbox'.closed = mailbox.closed
            /\ mailbox'.sequence = mailbox.sequence /\ mailbox'.tasks = mailbox.tasks
            /\ mailbox'.withdrawn = << >>
            BY <3>1, <1>0, EmptySeq DEF State
      <3>3. /\ mailbox.withdrawn \in Seq(Id) /\ Len(mailbox.tasks) \in Nat
            /\ Len(mailbox.withdrawn) \in Nat
            BY <1>0, LenProperties DEF State
      <3> DEFINE Told(id) == \/ noticed'[id] = noticed[id]
                             \/ /\ ack[id] = "withdrawn"
                                /\ noticed'[id] = noticed[id] \cup {"withdrawn"}
      <3>4. \A id \in Id : Told(id)
        <4>1. CASE noticed' = noticed
              BY <4>1
        <4>2. ASSUME NEW ids, ids \subseteq Range(mailbox.withdrawn), Notify(ids, "withdrawn")
              PROVE  \A id \in Id : Told(id)
          <5>1. \A id \in ids : ack[id] = "withdrawn"
                BY <4>2, <1>0 DEF Acknowledged
          <5> QED BY <4>2, <5>1 DEF Notify
        <4>3. ASSUME NEW n \in 1 .. Len(mailbox.withdrawn)
              PROVE  Range(SubSeq(mailbox.withdrawn, 1, n)) \subseteq Range(mailbox.withdrawn)
          <5> DEFINE prefix == SubSeq(mailbox.withdrawn, 1, n)
          <5>1. \A i \in 1 .. n : mailbox.withdrawn[i] \in Id
                BY <3>3, LenProperties
          <5>2. prefix \in Seq(Id) /\ Len(prefix) = n /\ \A i \in 1 .. n : prefix[i] = mailbox.withdrawn[i]
                BY <5>1, <3>3, SubSeqProperties
          <5>3. DOMAIN prefix = 1 .. n /\ DOMAIN mailbox.withdrawn = 1 .. Len(mailbox.withdrawn)
                BY <5>2, <3>3, LenProperties
          <5> QED BY <5>2, <5>3, <3>3 DEF Range
        <4> QED BY <4>1, <4>2, <4>3, <1>2, <2>4 DEF TopOfLoop
      <3>5. ~mailbox.active => mailbox.guidance = << >>
            BY <1>0 DEF Emptied
      <3>6. mailbox.claimed = << >> /\ Range(mailbox'.withdrawn) = {} /\ Len(mailbox'.withdrawn) = 0
            BY <2>1, <1>0, <3>2, NoMessages DEF Emptied, Delivering
      <3> HIDE DEF DrainWithdrawals
      <3> QED BY <2>1, <2>2, <3>2, <3>3, <3>4, <3>5, <3>6, Unmoved
              DEF Delivering, Empties, person
    <2> QED BY <2>3, <2>4, <1>2 DEF TopOfLoop
  <1> QED BY <1>1, <1>2

\* What is pending becomes the batch, and is claimed.
LEMMA MessagesClaimed ==
    ASSUME Inv, ClaimGuidance
    PROVE  MailboxInv' /\ MessageInv'
  <1> USE DEF Inv, ControlInv, MessageInv
  <1>0. /\ mailbox \in State /\ RunInv' /\ RunInv /\ pc = "claim" /\ pc' = "deliver"
        /\ UNCHANGED <<context, ack, noticed>>
        BY RunAtDelivery DEF MailboxInv, ClaimGuidance, Goto, person
  <1>1. /\ mailbox.claimed = << >> /\ mailbox.guidance \in Seq(Guidance)
        /\ mailbox.tasks \in Seq(Guidance)
        BY <1>0 DEF Emptied, Delivering, State
  <1>2. Claimable = mailbox.guidance
        BY DEF Claimable, Emptied
  <1> DEFINE claims == [i \in DOMAIN mailbox.guidance |->
                           [id |-> mailbox.guidance[i].id, delivered |-> FALSE]]
  <1>3. mailbox' = [mailbox EXCEPT !.guidance = << >>, !.claimed = claims]
    <2>1. claims \in Seq(Claimed)
      <3>1. /\ DOMAIN mailbox.guidance = 1 .. Len(mailbox.guidance)
            /\ Len(mailbox.guidance) \in Nat
            /\ \A i \in DOMAIN mailbox.guidance : mailbox.guidance[i] \in Guidance
            BY <1>1, LenProperties
      <3>2. claims \in [1 .. Len(mailbox.guidance) -> Claimed]
            BY <3>1 DEF Guidance, Claimed
      <3> QED BY <3>1, <3>2
    <2>2. mailbox.claimed \o claims = claims
          BY <1>1, <2>1, ConcatEmptySeq
    <2>3. (IF mailbox.closed THEN mailbox.guidance ELSE << >>) = << >>
          BY DEF Emptied
    <2> QED BY <2>2, <2>3, <1>2 DEF ClaimGuidance, Claim
  <1>4. /\ claims \in Seq(Claimed) /\ Len(claims) = Len(mailbox.guidance)
        /\ DOMAIN claims = DOMAIN mailbox.guidance
        /\ Range(claims) = {[id |-> m.id, delivered |-> FALSE] : m \in Range(mailbox.guidance)}
        /\ Distinct(claims)
    <2>1. /\ DOMAIN mailbox.guidance = 1 .. Len(mailbox.guidance)
          /\ Len(mailbox.guidance) \in Nat
          /\ \A i \in DOMAIN mailbox.guidance : mailbox.guidance[i] \in Guidance
          BY <1>1, LenProperties
    <2>2. claims \in [1 .. Len(mailbox.guidance) -> Claimed]
          BY <2>1 DEF Guidance, Claimed
    <2>3. claims \in Seq(Claimed)
          BY <2>1, <2>2
    <2>4. Len(claims) = Len(mailbox.guidance)
          BY <2>1, <2>2, <2>3
    <2>5. Range(claims) = {[id |-> m.id, delivered |-> FALSE] : m \in Range(mailbox.guidance)}
          BY DEF Range
    <2>6. Distinct(claims)
          BY DEF PendingUntouched, Distinct
    <2> QED BY <2>3, <2>4, <2>5, <2>6
  <1> HIDE DEF claims
  <1>5. /\ mailbox' \in State /\ mailbox'.guidance = << >> /\ mailbox'.claimed = claims
        /\ mailbox'.tasks = mailbox.tasks /\ mailbox'.withdrawn = mailbox.withdrawn
        /\ mailbox'.dropped = mailbox.dropped /\ mailbox'.closed = mailbox.closed
        /\ mailbox'.sequence = mailbox.sequence /\ mailbox'.active = mailbox.active
        BY <1>0, <1>3, <1>4, EmptySeq DEF State, Claimed
  <1>6. run'.batch = mailbox.guidance /\ run'.closing = {} /\ run.closing = {}
        BY <1>0, <1>2 DEF ClaimGuidance, RunInv, Locals
  <1>7. Range(mailbox'.guidance) = {} /\ Range(mailbox.claimed) = {}
        BY <1>1, <1>5, RangeIds, EmptySeq
  <1>8. /\ Ids(claims) = Ids(mailbox.guidance)
        /\ \A e \in Range(claims) : ~e.delivered /\ \E m \in Range(mailbox.guidance) : e.id = m.id
    <2>1. ASSUME NEW e \in Range(claims)
          PROVE  ~e.delivered /\ \E m \in Range(mailbox.guidance) : e.id = m.id
      <3>1. PICK m \in Range(mailbox.guidance) : e = [id |-> m.id, delivered |-> FALSE]
            BY <1>4
      <3> QED BY <3>1
    <2>2. ASSUME NEW m \in Range(mailbox.guidance)
          PROVE  \E e \in Range(claims) : e.id = m.id
      <3>1. [id |-> m.id, delivered |-> FALSE] \in Range(claims)
            BY <1>4
      <3> QED BY <3>1
    <2> QED BY <2>1, <2>2 DEF Ids
  <1>11. MailboxInv'
    <2>1. Len(mailbox'.guidance) = 0 /\ Len(mailbox.claimed) = 0
          BY <1>1, <1>5, EmptySeq
    <2>2. Len(mailbox.guidance) \in Nat /\ Len(mailbox.tasks) \in Nat
          BY <1>1, LenProperties
    <2>3. Fits(0, Len(mailbox.tasks), Len(mailbox.guidance))
          BY <2>1, <2>2, Fitting DEF MailboxInv
    <2> QED BY <2>1, <2>3, <1>4, <1>5 DEF MailboxInv
  <1>12. Acknowledged'
         BY <1>0, <1>5, <1>6, <1>7, <1>8 DEF Acknowledged, AsAccepted, Accepted
  <1>13. NoticesTrue'
         BY <1>0, <1>6 DEF NoticesTrue, Truthful, Accepted
  <1>14. PendingUntouched'
         BY <1>5, <1>7, EmptySeq DEF PendingUntouched, Distinct
  <1>15. ClaimsTrue'
    <2>1. \A m \in Range(mailbox.guidance) : m.id \notin Ids(context)
          BY DEF PendingUntouched
    <2> QED BY <2>1, <1>0, <1>5, <1>8 DEF ClaimsTrue
  <1>16. BatchClaimed'
         BY <1>0, <1>4, <1>5, <1>6 DEF BatchClaimed, PendingUntouched
  <1>17. NoneLost'
    <2>1. Ids(mailbox.claimed) = {}
          BY <1>7 DEF Ids
    <2> QED BY <2>1, <1>0, <1>5, <1>6, <1>8 DEF NoneLost, Accepted
  <1>18. Emptied'
         BY <1>0, <1>5 DEF Emptied, Delivering
  <1> QED BY <1>11, <1>12, <1>13, <1>14, <1>15, <1>16, <1>17, <1>18

---------------------------------------------------------------------------
(* The messages: delivery of the batch *)

\* The message being delivered, and its claim.
LEMMA HeadClaim ==
    ASSUME Inv, pc \in Delivering, run.batch # << >>
    PROVE  LET h == Head(run.batch)
               k == ClaimOf(h.id)
           IN  /\ h \in Guidance /\ h \in Range(run.batch) /\ AsAccepted(h)
               /\ noticed[h.id] = {} /\ h.id \notin Ids(context)
               /\ k \in DOMAIN mailbox.claimed
               /\ mailbox.claimed[k] = [id |-> h.id, delivered |-> FALSE]
  <1> USE DEF Inv, ControlInv, MessageInv
  <1> DEFINE h == Head(run.batch)
             k == ClaimOf(h.id)
             claim == [id |-> h.id, delivered |-> FALSE]
  <1>1. run.batch \in Seq(Guidance) /\ mailbox.claimed \in Seq(Claimed)
        BY DEF RunInv, Locals, MailboxInv, State, Claimed
  <1>2. h \in Guidance /\ h \in Range(run.batch)
        BY <1>1, TailMessage
  <1>3. AsAccepted(h) /\ noticed[h.id] = {} /\ claim \in Range(mailbox.claimed)
        BY <1>2 DEF Acknowledged, BatchClaimed
  <1>4. PICK j \in DOMAIN mailbox.claimed : mailbox.claimed[j] = claim
        BY <1>1, <1>3, RangeIds
  <1>5. k \in DOMAIN mailbox.claimed /\ mailbox.claimed[k].id = h.id
        BY <1>4 DEF ClaimOf
  <1>6. k = j
        BY <1>4, <1>5 DEF BatchClaimed, Distinct
  <1>7. h.id \notin Ids(context)
    <2>1. claim.delivered <=> claim.id \in Ids(context)
          BY <1>3 DEF ClaimsTrue
    <2> QED BY <2>1
  <1> QED BY <1>2, <1>3, <1>4, <1>5, <1>6, <1>7

\* complete_claim forgets the claim of the message, and of no other.
LEMMA ClaimCompleted ==
    ASSUME Inv, pc \in Delivering, run.batch # << >>, CompleteClaim(Head(run.batch).id),
           run'.batch = Tail(run.batch)
    PROVE  LET h == Head(run.batch)
           IN  /\ MailboxInv'
               /\ \A f \in {"guidance", "tasks", "withdrawn", "dropped", "closed",
                            "sequence", "active"} : mailbox'[f] = mailbox[f]
               /\ Distinct(mailbox'.claimed) /\ Distinct(run'.batch)
               /\ Range(mailbox'.claimed) = {e \in Range(mailbox.claimed) : e.id # h.id}
               /\ Range(run'.batch) = {m \in Range(run.batch) : m.id # h.id}
               /\ Range(mailbox'.claimed) =
                     {[id |-> m.id, delivered |-> FALSE] : m \in Range(run'.batch)}
  <1> USE DEF Inv, ControlInv, MessageInv
  <1> DEFINE h == Head(run.batch)
             k == ClaimOf(h.id)
             rest == RemoveAt(mailbox.claimed, k)
  <1>1. /\ run.batch \in Seq(Guidance) /\ mailbox.claimed \in Seq(Claimed) /\ mailbox \in State
        /\ mailbox.guidance \in Seq(Guidance) /\ mailbox.tasks \in Seq(Guidance)
        BY DEF RunInv, Locals, MailboxInv, State, Claimed
  <1>2. Distinct(run.batch) /\ Distinct(mailbox.claimed)
        BY DEF BatchClaimed
  <1>3. k \in DOMAIN mailbox.claimed /\ mailbox.claimed[k].id = h.id
        BY HeadClaim
  <1>4. /\ rest \in Seq(Claimed) /\ Len(rest) = Len(mailbox.claimed) - 1 /\ Distinct(rest)
        /\ Range(rest) = {e \in Range(mailbox.claimed) : e.id # h.id}
    <2>1. /\ rest \in Seq(Claimed) /\ Len(rest) = Len(mailbox.claimed) - 1 /\ Distinct(rest)
          /\ Range(rest) = {e \in Range(mailbox.claimed) : e.id # mailbox.claimed[k].id}
          BY <1>1, <1>2, <1>3, RemoveMessage
    <2> QED BY <2>1, <1>3
  <1>5. mailbox' = [mailbox EXCEPT !.claimed = rest]
        BY DEF CompleteClaim
  <1> HIDE DEF rest
  <1>6. /\ mailbox' \in State /\ mailbox'.claimed = rest
        /\ \A f \in {"guidance", "tasks", "withdrawn", "dropped", "closed",
                     "sequence", "active"} : mailbox'[f] = mailbox[f]
        BY <1>1, <1>4, <1>5 DEF State, Claimed
  <1>7. MailboxInv'
    <2>1. /\ Len(mailbox.guidance) \in Nat /\ Len(mailbox.tasks) \in Nat
          /\ Len(mailbox.claimed) \in Nat /\ Len(rest) \in Nat
          BY <1>1, <1>4, LenProperties
    <2>2. /\ Len(mailbox.guidance) <= Len(mailbox.guidance)
          /\ Len(mailbox.tasks) <= Len(mailbox.tasks) /\ Len(rest) <= Len(mailbox.claimed)
          BY <2>1, <1>4
    <2>3. Fits(Len(mailbox.guidance), Len(mailbox.tasks), Len(mailbox.claimed))
          BY DEF MailboxInv
    <2>4. Fits(Len(mailbox.guidance), Len(mailbox.tasks), Len(rest))
          BY <2>1, <2>2, <2>3, FittingLess
    <2>5. /\ mailbox'.guidance = mailbox.guidance /\ mailbox'.tasks = mailbox.tasks
          /\ mailbox'.withdrawn = mailbox.withdrawn
          BY <1>6
    <2> QED BY <2>4, <2>5, <1>6 DEF MailboxInv
  <1>8. Distinct(run'.batch) /\ Range(run'.batch) = {m \in Range(run.batch) : m.id # h.id}
        BY <1>1, <1>2, TailMessage
  <1>9. Range(rest) = {[id |-> m.id, delivered |-> FALSE] : m \in Range(run'.batch)}
    <2>1. Range(mailbox.claimed) = {[id |-> m.id, delivered |-> FALSE] : m \in Range(run.batch)}
          BY DEF BatchClaimed
    <2> HIDE DEF h
    <2> QED BY <2>1, <1>4, <1>8
  <1> QED BY <1>4, <1>6, <1>7, <1>8, <1>9

\* mark_delivered changes the claim of the message.
LEMMA ClaimMarked ==
    ASSUME Inv, pc \in Delivering, run.batch # << >>, MarkDelivered(Head(run.batch).id)
    PROVE  LET h == Head(run.batch)
           IN  /\ MailboxInv'
               /\ \A f \in {"guidance", "tasks", "withdrawn", "dropped", "closed",
                            "sequence", "active"} : mailbox'[f] = mailbox[f]
               /\ Range(mailbox'.claimed) = {e \in Range(mailbox.claimed) : e.id # h.id}
                                              \cup {[id |-> h.id, delivered |-> TRUE]}
  <1> USE DEF Inv, ControlInv, MessageInv
  <1> DEFINE h == Head(run.batch)
             k == ClaimOf(h.id)
             marked == [id |-> h.id, delivered |-> TRUE]
             claims == [mailbox.claimed EXCEPT ![k] = marked]
  <1>1. /\ mailbox.claimed \in Seq(Claimed) /\ mailbox \in State
        BY DEF MailboxInv, State, Claimed
  <1>2. Distinct(mailbox.claimed)
        BY DEF BatchClaimed
  <1>3. /\ k \in DOMAIN mailbox.claimed
        /\ mailbox.claimed[k] = [id |-> h.id, delivered |-> FALSE] /\ h \in Guidance
        BY HeadClaim
  <1>4. marked \in Claimed /\ marked.id = mailbox.claimed[k].id
        BY <1>3 DEF Claimed, Guidance
  <1>5. /\ claims \in Seq(Claimed) /\ Len(claims) = Len(mailbox.claimed)
        /\ Range(claims) = {e \in Range(mailbox.claimed) : e.id # marked.id} \cup {marked}
    <2> HIDE DEF marked, k
    <2> QED BY <1>1, <1>2, <1>3, <1>4, ReplaceMessage
  <1>6. mailbox' = [mailbox EXCEPT !.claimed = claims]
    <2>1. ASSUME NEW e \in Claimed, NEW b \in BOOLEAN
          PROVE  [e EXCEPT !.delivered = b] = [id |-> e.id, delivered |-> b]
          BY DEF Claimed
    <2>2. mailbox.claimed[k] \in Claimed /\ mailbox.claimed[k].id = h.id
          BY <1>1, <1>3, LenProperties
    <2>3. [mailbox.claimed[k] EXCEPT !.delivered = TRUE] = marked
      <3>1. [mailbox.claimed[k] EXCEPT !.delivered = TRUE]
              = [id |-> mailbox.claimed[k].id, delivered |-> TRUE]
            BY <2>1, <2>2
      <3> QED BY <3>1, <2>2
    <2> QED BY <2>3 DEF MarkDelivered
  <1> HIDE DEF claims
  <1>7. /\ mailbox' \in State /\ mailbox'.claimed = claims
        /\ \A f \in {"guidance", "tasks", "withdrawn", "dropped", "closed",
                     "sequence", "active"} : mailbox'[f] = mailbox[f]
        BY <1>1, <1>5, <1>6 DEF State, Claimed
  <1>8. MailboxInv'
        BY <1>5, <1>7 DEF MailboxInv
  <1> QED BY <1>5, <1>7, <1>8

\* The message is delivered or dropped, and reported as such; its claim is
\* completed unless the notice fails.
LEMMA HeadSettled ==
    ASSUME Inv, pc \in Delivering, run.batch # << >>, ack' = ack,
           NEW state \in {"dropped", "delivered"}, Notify({Head(run.batch).id}, state),
           state = "dropped" => context' = context,
           state = "delivered" => ~mailbox.closed /\ context' = Append(context, Head(run.batch)),
           run'.closing = run.closing,
           \/ /\ pc' = "deliver" /\ run'.batch = Tail(run.batch)
              /\ CompleteClaim(Head(run.batch).id)
           \/ pc' = "finish" /\ state = "dropped" /\ mailbox' = mailbox
           \/ pc' = "finish" /\ state = "delivered" /\ MarkDelivered(Head(run.batch).id)
    PROVE  MailboxInv' /\ MessageInv'
  <1> USE DEF Inv, ControlInv, MessageInv
  <1> DEFINE h == Head(run.batch)
             Kept == {"guidance", "tasks", "withdrawn", "dropped", "closed", "sequence", "active"}
  <1>1. /\ h \in Guidance /\ h \in Range(run.batch) /\ AsAccepted(h) /\ Accepted(h.id)
        /\ h.id \in Id /\ noticed[h.id] = {} /\ h.id \notin Ids(context)
        BY HeadClaim DEF AsAccepted, Guidance
  <1>2. [id |-> h.id, delivered |-> FALSE] \in Range(mailbox.claimed) /\ h.id \in Ids(mailbox.claimed)
    <2>1. [id |-> h.id, delivered |-> FALSE] \in Range(mailbox.claimed)
          BY <1>1 DEF BatchClaimed
    <2> QED BY <2>1 DEF Ids
  <1>3. \A id \in Id : noticed'[id] = IF id = h.id THEN {state} ELSE noticed[id]
        BY <1>1 DEF Notify
  <1>4. run.closing = {} /\ run'.closing = {}
        BY DEF RunInv, Delivering
  <1>5. /\ Range(context') = IF state = "delivered" THEN Range(context) \cup {h} ELSE Range(context)
        /\ Ids(context') = IF state = "delivered" THEN Ids(context) \cup {h.id} ELSE Ids(context)
    <2>1. Range(context') = IF state = "delivered" THEN Range(context) \cup {h} ELSE Range(context)
      <3>1. context \in Seq(Guidance)
            BY DEF RestTyped
      <3>2. Range(Append(context, h)) = Range(context) \cup {h}
            BY <3>1, <1>1, AppendMessage
      <3> HIDE DEF h
      <3> QED BY <3>2 DEF h
    <2> QED BY <2>1 DEF Ids
  <1>6. /\ MailboxInv' /\ \A f \in Kept : mailbox'[f] = mailbox[f]
        /\ \A e \in Range(mailbox'.claimed) :
              \/ e \in Range(mailbox.claimed) /\ e.id # h.id
              \/ e = [id |-> h.id, delivered |-> state = "delivered"] /\ pc' = "finish"
        /\ \A e \in Range(mailbox.claimed) : e \in Range(mailbox'.claimed) \/ e.id = h.id
    <2>1. CASE pc' = "deliver"
      <3>1. CompleteClaim(h.id) /\ run'.batch = Tail(run.batch)
            BY <2>1
      <3>2. /\ MailboxInv' /\ \A f \in Kept : mailbox'[f] = mailbox[f]
            /\ Range(mailbox'.claimed) = {e \in Range(mailbox.claimed) : e.id # h.id}
            BY <3>1, ClaimCompleted
      <3> QED BY <3>2
    <2>2. CASE pc' = "finish" /\ state = "dropped"
      <3>1. mailbox' = mailbox
            BY <2>2
      <3>2. ASSUME NEW e \in Range(mailbox.claimed), e.id = h.id
            PROVE  e = [id |-> h.id, delivered |-> state = "delivered"]
        <4>1. PICK m \in Range(run.batch) : e = [id |-> m.id, delivered |-> FALSE]
              BY DEF BatchClaimed
        <4>2. (state = "delivered") = FALSE
              BY <2>2
        <4>3. m.id = h.id
              BY <4>1, <3>2
        <4> QED BY <4>1, <4>2, <4>3
      <3> QED BY <2>2, <3>1, <3>2 DEF MailboxInv
    <2>3. CASE pc' = "finish" /\ state = "delivered"
      <3>1. MarkDelivered(h.id) /\ (state = "delivered") = TRUE
            BY <2>3
      <3>2. /\ MailboxInv' /\ \A f \in Kept : mailbox'[f] = mailbox[f]
            /\ Range(mailbox'.claimed) = {e \in Range(mailbox.claimed) : e.id # h.id}
                                            \cup {[id |-> h.id, delivered |-> TRUE]}
            BY <3>1, ClaimMarked
      <3> QED BY <2>3, <3>1, <3>2
    <2> QED BY <2>1, <2>2, <2>3
  <1>7. /\ mailbox'.guidance = mailbox.guidance /\ mailbox'.tasks = mailbox.tasks
        /\ mailbox'.withdrawn = mailbox.withdrawn /\ mailbox'.dropped = mailbox.dropped
        /\ mailbox'.closed = mailbox.closed /\ mailbox'.sequence = mailbox.sequence
        /\ mailbox'.active = mailbox.active
        BY <1>6
  <1>8. ASSUME pc' = "deliver"
        PROVE  /\ Range(run'.batch) = {m \in Range(run.batch) : m.id # h.id}
               /\ Distinct(mailbox'.claimed) /\ Distinct(run'.batch)
               /\ Range(mailbox'.claimed) =
                     {[id |-> m.id, delivered |-> FALSE] : m \in Range(run'.batch)}
        BY <1>8, ClaimCompleted
  <1>9. /\ \A m \in Range(run.batch) : m.id \in Id
        /\ \A m \in Range(mailbox.guidance) : m.id \in Id /\ m.id # h.id
        /\ \A e \in Range(mailbox.claimed) : e.id \in Id
    <2>1. /\ Range(run.batch) \subseteq Guidance /\ Range(mailbox.guidance) \subseteq Guidance
          /\ Range(mailbox.claimed) \subseteq Claimed
      <3>1. /\ run.batch \in Seq(Guidance) /\ mailbox.guidance \in Seq(Guidance)
            /\ mailbox.claimed \in Seq(Claimed)
            BY DEF RunInv, Locals, MailboxInv, State, Claimed
      <3> QED BY <3>1, RangeIds
    <2> QED BY <2>1, <1>2 DEF Guidance, Claimed, PendingUntouched
  <1>c. \A e \in Range(mailbox'.claimed) : Accepted(e.id) /\ (e.delivered <=> e.id \in Ids(context'))
    <2>1. ASSUME NEW e \in Range(mailbox'.claimed)
          PROVE  Accepted(e.id) /\ (e.delivered <=> e.id \in Ids(context'))
      <3>1. CASE e \in Range(mailbox.claimed) /\ e.id # h.id
            BY <3>1, <1>5 DEF ClaimsTrue, Acknowledged
      <3>2. CASE e = [id |-> h.id, delivered |-> state = "delivered"]
            BY <3>2, <1>1, <1>5
      <3> QED BY <3>1, <3>2, <1>6
    <2> QED BY <2>1
  <1> HIDE DEF h, Kept
  <1>11. Acknowledged'
    <2>1. pc' \in Delivering => \A m \in Range(run'.batch) : AsAccepted(m)'
          BY <1>8 DEF Acknowledged, AsAccepted, Accepted, Delivering
    <2>2. \A m \in Range(context') : /\ ack[m.id] \in {"task", "guidance", "edited"}
                                     /\ m.text = 1 <=> ack[m.id] = "edited"
          BY <1>1, <1>5 DEF Acknowledged, AsAccepted, Accepted
    <2> QED BY <2>1, <2>2, <1>7, <1>c DEF Acknowledged, AsAccepted, Accepted
  <1>12. NoticesTrue'
    <2>1. ASSUME NEW id \in Id, NEW told \in noticed'[id] PROVE Truthful(id, told)'
      <3>1. CASE id = h.id
            BY <3>1, <2>1, <1>1, <1>3, <1>5 DEF Truthful, Accepted
      <3>2. CASE id # h.id
        <4>1. Truthful(id, told)
              BY <3>2, <2>1, <1>3 DEF NoticesTrue
        <4> QED BY <3>2, <4>1, <1>5 DEF Truthful, Accepted
      <3> QED BY <3>1, <3>2
    <2> QED BY <2>1, <1>4 DEF NoticesTrue
  <1>13. PendingUntouched'
    <2>1. ASSUME NEW m \in Range(mailbox.guidance)
          PROVE  m.id \notin Ids(mailbox'.claimed)
      <3>1. m.id # h.id /\ m.id \notin Ids(mailbox.claimed)
            BY <1>9 DEF PendingUntouched
      <3> QED BY <3>1, <1>6 DEF Ids
    <2> QED BY <2>1, <1>3, <1>4, <1>5, <1>7, <1>9 DEF PendingUntouched
  <1>14. ClaimsTrue'
    <2>1. \A id \in Range(mailbox.dropped) : id \notin Ids(context')
      <3>1. CASE state = "delivered"
            BY <3>1, NoMessages DEF Emptied
      <3>2. CASE state = "dropped"
            BY <3>2, <1>5 DEF ClaimsTrue
      <3> QED BY <3>1, <3>2
    <2> QED BY <2>1, <1>7, <1>c DEF ClaimsTrue
  <1>15. BatchClaimed'
         BY <1>3, <1>8, <1>9 DEF BatchClaimed, Delivering
  <1>16. NoneLost'
    <2>1. ASSUME NEW id \in Id, Accepted(id), id # h.id, id \in Ids(mailbox.claimed)
          PROVE  id \in Ids(mailbox'.claimed)
          BY <2>1, <1>6 DEF Ids
    <2> QED BY <2>1, <1>3, <1>4, <1>7 DEF NoneLost, Accepted
  <1>17. Emptied'
         BY <1>7 DEF Emptied, Delivering
  <1> QED BY <1>6, <1>11, <1>12, <1>13, <1>14, <1>15, <1>16, <1>17

LEMMA MessagesAtDelivery ==
    ASSUME Inv, Delivery
    PROVE  MailboxInv' /\ MessageInv'
  <1>0. RunInv /\ RunInv'
        BY RunAtDelivery DEF Inv, ControlInv, Delivery
  <1>1. CASE AnnounceClaim \/ Push
    <2>1. /\ pc \in Delivering /\ pc' \in Delivering \cup {"finish"} /\ run.batch # << >>
          /\ ack' = ack
          BY <1>1, <1>0 DEF AnnounceClaim, Push, FailEvidence, Leave, Goto, Delivering, person,
                            RunInv
    <2>2. run'.closing = run.closing
          BY <2>1, <1>0 DEF RunInv, Delivering
    <2>3. CASE UNCHANGED <<mailbox, noticed, context>> /\ (pc' = "finish" \/ run'.batch = run.batch)
          BY <2>1, <2>2, <2>3, Silent DEF Delivering, Empties
    <2>4. CASE AnnounceClaim
      <3>1. CASE /\ Notify({Head(run.batch).id}, "dropped")
                 /\ \/ /\ pc' = pc /\ run'.batch = Tail(run.batch)
                       /\ CompleteClaim(Head(run.batch).id)
                    \/ pc' = "finish" /\ mailbox' = mailbox
            BY <3>1, <2>1, <2>2, <2>4, HeadSettled DEF AnnounceClaim
      <3>2. run' = [run EXCEPT !.batch = Tail(@)] => run'.batch = Tail(run.batch)
            BY <1>0 DEF RunInv, Locals
      <3> QED BY <3>1, <3>2, <2>3, <2>4 DEF AnnounceClaim, FailEvidence, Leave, Goto
    <2>5. CASE Push
      <3>1. run' = [run EXCEPT !.batch = Tail(@), !.renewed = @ \/ ~Stopped]
              => run'.batch = Tail(run.batch)
            BY <1>0 DEF RunInv, Locals
      <3>2. CASE Stopped
        <4>1. /\ context' = context /\ Notify({Head(run.batch).id}, "dropped")
              /\ \/ /\ pc' = "deliver" /\ run'.batch = Tail(run.batch)
                    /\ CompleteClaim(Head(run.batch).id)
                 \/ pc' = "finish" /\ mailbox' = mailbox
              BY <3>1, <3>2, <2>5 DEF Push, FailEvidence, Leave, Goto
        <4> QED BY <4>1, <2>1, <2>2, HeadSettled
      <3>3. CASE ~Stopped
        <4>1. /\ context' = Append(context, Head(run.batch))
              /\ Notify({Head(run.batch).id}, "delivered")
              /\ \/ /\ pc' = "deliver" /\ run'.batch = Tail(run.batch)
                    /\ CompleteClaim(Head(run.batch).id)
                 \/ pc' = "finish" /\ MarkDelivered(Head(run.batch).id)
              BY <3>1, <3>3, <2>5 DEF Push, FailEvidence, Leave, Goto
        <4>2. ~mailbox.closed
              BY <3>3 DEF Stopped, IsShutdown
        <4> QED BY <4>1, <4>2, <2>1, <2>2, HeadSettled
      <3> QED BY <3>2, <3>3
    <2> QED BY <1>1, <2>4, <2>5
  <1> QED BY <1>1, MessagesAtTop, MessagesClaimed DEF Delivery

---------------------------------------------------------------------------
(* The messages: between prompts *)

\* The mailbox closes: what is pending is dropped.
LEMMA MessagesShutDown ==
    ASSUME Inv, Shutdown, UNCHANGED <<context, ack, noticed>>, run'.closing = run.closing,
           \/ pc' = pc /\ run' = run
           \/ pc = "stop" /\ pc' = "gone"
    PROVE  MailboxInv' /\ MessageInv'
  <1> USE DEF Inv, ControlInv, MessageInv
  <1> DEFINE ids == IdsOf(mailbox.guidance)
             all == mailbox.dropped \o ids
  <1>1. /\ mailbox \in State /\ mailbox.guidance \in Seq(Guidance)
        /\ mailbox.dropped \in Seq(Id) /\ mailbox.claimed \in Seq(Claimed)
        BY DEF MailboxInv, State, Claimed
  <1>2. ids \in Seq(Id) /\ Range(ids) = Ids(mailbox.guidance)
    <2>1. /\ DOMAIN mailbox.guidance = 1 .. Len(mailbox.guidance)
          /\ Len(mailbox.guidance) \in Nat
          /\ \A i \in DOMAIN mailbox.guidance : mailbox.guidance[i] \in Guidance
          BY <1>1, LenProperties
    <2>2. ids \in [1 .. Len(mailbox.guidance) -> Id]
          BY <2>1 DEF IdsOf, Guidance
    <2>3. ids \in Seq(Id)
          BY <2>1, <2>2
    <2> QED BY <2>3, <1>1, RangeIds
  <1>3. all \in Seq(Id) /\ Range(all) = Range(mailbox.dropped) \cup Ids(mailbox.guidance)
        BY <1>1, <1>2, ConcatProperties, RangeConcatenation
  <1>4. mailbox' = [mailbox EXCEPT !.closed = TRUE, !.tasks = << >>, !.guidance = << >>,
                                   !.withdrawn = << >>, !.dropped = all]
        BY DEF Shutdown
  <1> HIDE DEF all, ids
  <1>5. /\ mailbox' \in State /\ mailbox'.closed /\ mailbox'.tasks = << >>
        /\ mailbox'.guidance = << >> /\ mailbox'.withdrawn = << >> /\ mailbox'.dropped = all
        /\ mailbox'.claimed = mailbox.claimed /\ mailbox'.sequence = mailbox.sequence
        /\ mailbox'.active = mailbox.active
        BY <1>1, <1>3, <1>4, EmptySeq DEF State
  <1>6. MailboxInv'
    <2>1. /\ Len(mailbox.guidance) \in Nat /\ Len(mailbox.tasks) \in Nat
          /\ Len(mailbox.claimed) \in Nat /\ Len(<< >>) = 0
          BY <1>1, LenProperties, NoMessages DEF State
    <2>2. /\ 0 <= Len(mailbox.guidance) /\ 0 <= Len(mailbox.tasks) /\ 0 \in Nat
          /\ Len(mailbox.claimed) <= Len(mailbox.claimed) /\ 0 <= Capacity
          BY <2>1, MailboxAssumption
    <2>3. Fits(Len(mailbox.guidance), Len(mailbox.tasks), Len(mailbox.claimed))
          BY DEF MailboxInv
    <2>4. Fits(0, 0, Len(mailbox.claimed))
          BY <2>1, <2>2, <2>3, FittingLess
    <2> QED BY <2>1, <2>2, <2>4, <1>5 DEF MailboxInv
  <1>7. /\ Range(mailbox'.tasks) = {} /\ Range(mailbox'.guidance) = {} /\ Distinct(mailbox'.guidance)
        /\ Range(mailbox'.withdrawn) = {} /\ Ids(mailbox'.guidance) = {}
        BY <1>5, NoMessages
  <1>11. Acknowledged'
    <2>1. \A id \in Range(mailbox'.dropped) : Accepted(id)
          BY <1>3, <1>5 DEF Acknowledged, AsAccepted, Ids
    <2> QED BY <2>1, <1>5, <1>7 DEF Acknowledged, AsAccepted, Accepted, Delivering
  <1>12. NoticesTrue'
         BY DEF NoticesTrue, Truthful, Accepted
  <1>13. PendingUntouched'
         BY <1>7 DEF PendingUntouched
  <1>14. ClaimsTrue'
    <2>1. \A id \in Range(mailbox'.dropped) : id \notin Ids(context)
          BY <1>3, <1>5 DEF ClaimsTrue, PendingUntouched, Ids
    <2> QED BY <2>1, <1>5 DEF ClaimsTrue
  <1>15. BatchClaimed'
         BY <1>5 DEF BatchClaimed, Delivering
  <1>16. NoneLost'
         BY <1>3, <1>5, <1>7 DEF NoneLost, Accepted
  <1>17. Emptied'
    <2>1. CASE pc \in Empties
      <3>1. mailbox.guidance = << >> /\ mailbox.dropped = << >>
            BY <2>1 DEF Emptied, Empties
      <3>2. Range(all) = {}
            BY <3>1, <1>3, NoMessages
      <3>3. all = << >>
            BY <3>2, <1>3, RangeIds
      <3> QED BY <3>3, <1>5 DEF Emptied, Empties, Delivering
    <2>2. CASE pc \notin Empties
          BY <2>2, <1>5 DEF Emptied, Empties, Delivering
    <2> QED BY <2>1, <2>2
  <1> QED BY <1>6, <1>11, <1>12, <1>13, <1>14, <1>15, <1>16, <1>17

\* A prompt enters the context.
LEMMA MessagesPrompted ==
    ASSUME Inv, RecordPrompt
    PROVE  MailboxInv' /\ MessageInv'
  <1> USE DEF Inv, ControlInv, MessageInv
  <1>0. /\ pc = "prompt" /\ UNCHANGED <<mailbox, ack, noticed>> /\ RunInv /\ RunInv'
        /\ pc' \in {"stop", "begin"}
        BY RunAtEnds DEF RecordPrompt, person, Goto
  <1>1. run'.closing = {} /\ run.closing = {} /\ mailbox.claimed = << >>
        BY <1>0 DEF RunInv, Emptied, Delivering
  <1>2. CASE UNCHANGED context
        BY <1>0, <1>1, <1>2, Silent DEF Delivering, Empties
  <1>3. CASE context' = context \o run.batch
    <2>1. Range(context') = Range(context) \cup Range(run.batch)
          BY <1>0, <1>3, RangeConcatenation DEF RestTyped, RunInv, Locals
    <2>2. \A m \in Range(run.batch) : ack[m.id] = "task" /\ m.text = 0
          BY <1>0 DEF Acknowledged
    <2>3. \A id : Accepted(id) => (id \in Ids(context') <=> id \in Ids(context))
          BY <2>1, <2>2 DEF Ids, Accepted
    <2>4. \A id \in Ids(context) : id \in Ids(context')
          BY <2>1 DEF Ids
    <2>11. MailboxInv'
           BY <1>0 DEF MailboxInv
    <2>12. Acknowledged'
           BY <1>0, <1>1, <2>1, <2>2 DEF Acknowledged, AsAccepted, Accepted, Delivering
    <2>13. NoticesTrue'
           BY <1>0, <1>1, <2>3, <2>4 DEF NoticesTrue, Truthful, Accepted
    <2>14. PendingUntouched'
           BY <1>0, <1>1, <2>3 DEF PendingUntouched, Acknowledged, AsAccepted
    <2>15. ClaimsTrue'
           BY <1>0, <2>3 DEF ClaimsTrue, Acknowledged
    <2>16. BatchClaimed'
           BY <1>0 DEF BatchClaimed, Delivering
    <2>17. NoneLost'
           BY <1>0, <1>1 DEF NoneLost, Accepted
    <2>18. Emptied'
           BY <1>0, <1>1 DEF Emptied
    <2> QED BY <2>11, <2>12, <2>13, <2>14, <2>15, <2>16, <2>17, <2>18
  <1> QED BY <1>2, <1>3 DEF RecordPrompt

\* The claims become the notices the end of the prompt will give.
LEMMA MessagesDrained ==
    ASSUME Inv, DrainAtEnd
    PROVE  MailboxInv' /\ MessageInv'
  <1> USE DEF Inv, ControlInv, MessageInv
  <1>0. /\ pc = "finish" /\ pc' = "end" /\ UNCHANGED <<context, ack, noticed>>
        /\ RunInv /\ RunInv' /\ mailbox \in State
        BY RunAtEnds DEF DrainAtEnd, person, Goto, MailboxInv
  <1>1. run.closing = {} /\ run'.closing = Closing
    <2>1. run' = [NoRun EXCEPT !.error = run.error, !.outcome = StoppingReason,
                               !.requested = run.requested, !.closing = Closing]
          BY DEF DrainAtEnd
    <2> QED BY <2>1, <1>0 DEF RunInv, NoRun
  <1>2. mailbox' = [mailbox EXCEPT !.withdrawn = << >>, !.claimed = << >>]
        BY DEF DrainAtEnd, DrainClaims
  <1>3. /\ mailbox' \in State /\ mailbox'.withdrawn = << >> /\ mailbox'.claimed = << >>
        /\ mailbox'.guidance = mailbox.guidance /\ mailbox'.tasks = mailbox.tasks
        /\ mailbox'.dropped = mailbox.dropped /\ mailbox'.closed = mailbox.closed
        /\ mailbox'.sequence = mailbox.sequence /\ mailbox'.active = mailbox.active
        BY <1>0, <1>2, EmptySeq DEF State
  <1>4. /\ Range(mailbox'.withdrawn) = {} /\ Range(mailbox'.claimed) = {}
        /\ Ids(mailbox'.claimed) = {} /\ Len(mailbox'.claimed) = 0 /\ Len(mailbox'.withdrawn) = 0
        BY <1>3, NoMessages
  <1>5. \A notice \in Closing :
           /\ Truthful(notice[1], notice[2])
           /\ \/ notice[1] \in Range(mailbox.withdrawn)
              \/ notice[1] \in Ids(mailbox.claimed)
    <2>1. ASSUME NEW notice \in Closing, NEW id \in Range(mailbox.withdrawn),
                 notice = <<id, "withdrawn">>
          PROVE  Truthful(notice[1], notice[2]) /\ notice[1] = id
          BY <2>1 DEF Truthful, Acknowledged
    <2>2. ASSUME NEW notice \in Closing, NEW e \in Range(mailbox.claimed),
                 notice = <<e.id, IF e.delivered THEN "delivered" ELSE "dropped">>
          PROVE  Truthful(notice[1], notice[2]) /\ notice[1] = e.id
          BY <2>2 DEF Truthful, Acknowledged, ClaimsTrue
    <2> QED BY <2>1, <2>2 DEF Closing, Ids
  <1>6. \A e \in Range(mailbox.claimed) : \E notice \in Closing : notice[1] = e.id
    <2>1. ASSUME NEW e \in Range(mailbox.claimed)
          PROVE  \E notice \in Closing : notice[1] = e.id
      <3>1. <<e.id, IF e.delivered THEN "delivered" ELSE "dropped">> \in Closing
            BY DEF Closing
      <3> QED BY <3>1
    <2> QED BY <2>1
  <1>11. MailboxInv'
    <2>1. /\ Len(mailbox.guidance) \in Nat /\ Len(mailbox.tasks) \in Nat
          /\ Len(mailbox.claimed) \in Nat
          BY <1>0, LenProperties DEF State
    <2>2. /\ Len(mailbox.guidance) <= Len(mailbox.guidance) /\ 0 \in Nat
          /\ Len(mailbox.tasks) <= Len(mailbox.tasks) /\ 0 <= Len(mailbox.claimed)
          /\ 0 <= Capacity
          BY <2>1, MailboxAssumption
    <2>3. Fits(Len(mailbox.guidance), Len(mailbox.tasks), Len(mailbox.claimed))
          BY DEF MailboxInv
    <2>4. Fits(Len(mailbox.guidance), Len(mailbox.tasks), 0)
          BY <2>1, <2>2, <2>3, FittingLess
    <2> QED BY <2>2, <2>4, <1>3, <1>4 DEF MailboxInv
  <1>12. Acknowledged'
         BY <1>0, <1>3, <1>4 DEF Acknowledged, AsAccepted, Accepted, Delivering
  <1>13. NoticesTrue'
         BY <1>0, <1>1, <1>5 DEF NoticesTrue, Truthful, Accepted
  <1>14. PendingUntouched'
    <2>1. ASSUME NEW m \in Range(mailbox.guidance), NEW notice \in Closing
          PROVE  notice[1] # m.id
          BY <1>5 DEF PendingUntouched, Acknowledged, AsAccepted, Accepted
    <2> QED BY <2>1, <1>0, <1>1, <1>3, <1>4 DEF PendingUntouched
  <1>15. ClaimsTrue'
         BY <1>0, <1>3, <1>4 DEF ClaimsTrue
  <1>16. BatchClaimed'
         BY <1>0 DEF BatchClaimed, Delivering
  <1>17. NoneLost'
         BY <1>0, <1>1, <1>3, <1>6 DEF NoneLost, Accepted, Ids
  <1>18. Emptied'
         BY <1>0, <1>3 DEF Emptied
  <1> QED BY <1>11, <1>12, <1>13, <1>14, <1>15, <1>16, <1>17, <1>18

\* Every message still in the mailbox, and every claim, gets its notice.
LEMMA MessagesEnded ==
    ASSUME Inv, EndPrompt
    PROVE  MailboxInv' /\ MessageInv'
  <1> USE DEF Inv, ControlInv, MessageInv
  <1> DEFINE notices == run.closing \cup {<<id, "dropped">> : id \in EndedWithout}
  <1>0. /\ pc = "end" /\ pc' = "return" /\ UNCHANGED <<context, ack>>
        /\ RunInv /\ RunInv' /\ mailbox \in State /\ mailbox.claimed = << >>
        BY RunAtEnds DEF EndPrompt, person, Goto, MailboxInv, Emptied, Delivering
  <1>1. run'.closing = {}
        BY <1>0 DEF RunInv
  <1>2. mailbox' = [mailbox EXCEPT !.active = FALSE, !.owned = FALSE, !.withdrawn = << >>,
                                   !.guidance = << >>, !.dropped = << >>, !.claimed = << >>]
        BY DEF EndPrompt, EndRun
  <1>3. /\ mailbox' \in State /\ mailbox'.withdrawn = << >> /\ mailbox'.claimed = << >>
        /\ mailbox'.guidance = << >> /\ mailbox'.tasks = mailbox.tasks
        /\ mailbox'.dropped = << >> /\ mailbox'.closed = mailbox.closed
        /\ mailbox'.sequence = mailbox.sequence /\ mailbox'.active = FALSE
    <2>1. << >> \in Seq(Guidance) /\ << >> \in Seq(Id) /\ << >> \in Seq(Claimed)
          BY EmptySeq
    <2> QED BY <2>1, <1>0, <1>2 DEF State, Claimed
  <1>4. EndedWithout = Range(mailbox.dropped) \cup Ids(mailbox.guidance)
    <2>1. Range(mailbox.claimed) = {}
          BY <1>0, NoMessages
    <2>2. Range(IdsOf(mailbox.guidance)) = Ids(mailbox.guidance)
          BY <1>0, RangeIds DEF State
    <2> QED BY <2>1, <2>2 DEF EndedWithout
  <1>5. \A id \in EndedWithout : Truthful(id, "dropped")
        BY <1>4 DEF Truthful, Acknowledged, AsAccepted, ClaimsTrue, PendingUntouched, Ids
  <1>6. \A notice \in notices : Truthful(notice[1], notice[2])
        BY <1>5 DEF NoticesTrue
  <1>7. noticed' = [id \in Id |-> noticed[id] \cup
                       {n[2] : n \in {notice \in notices : notice[1] = id}}]
        BY DEF EndPrompt
  <1>8. /\ \A id \in Id : noticed[id] \subseteq noticed'[id]
        /\ \A id \in Id : \A state \in noticed'[id] :
              state \in noticed[id] \/ \E notice \in notices : notice[1] = id /\ notice[2] = state
        /\ \A id \in Id : \A notice \in notices : notice[1] = id => notice[2] \in noticed'[id]
    <2> HIDE DEF notices
    <2> QED BY <1>7
  <1>9. /\ Range(mailbox'.withdrawn) = {} /\ Range(mailbox'.claimed) = {}
        /\ Range(mailbox'.guidance) = {} /\ Range(mailbox'.dropped) = {}
        /\ Distinct(mailbox'.guidance)
        BY <1>3, NoMessages
  <1>11. MailboxInv'
    <2>1. /\ Len(mailbox.guidance) \in Nat /\ Len(mailbox.tasks) \in Nat
          /\ Len(mailbox.claimed) \in Nat
          BY <1>0, LenProperties DEF State
    <2>2. /\ 0 <= Len(mailbox.guidance) /\ 0 \in Nat
          /\ Len(mailbox.tasks) <= Len(mailbox.tasks) /\ 0 <= Len(mailbox.claimed)
          /\ 0 <= Capacity
          BY <2>1, MailboxAssumption
    <2>3. Fits(Len(mailbox.guidance), Len(mailbox.tasks), Len(mailbox.claimed))
          BY DEF MailboxInv
    <2>4. Fits(0, Len(mailbox.tasks), 0)
          BY <2>1, <2>2, <2>3, FittingLess
    <2>5. /\ Len(mailbox'.guidance) = 0 /\ Len(mailbox'.claimed) = 0 /\ Len(mailbox'.withdrawn) = 0
          BY <1>3, NoMessages
    <2> QED BY <2>2, <2>4, <2>5, <1>3 DEF MailboxInv
  <1>12. Acknowledged'
         BY <1>0, <1>3, <1>9 DEF Acknowledged, AsAccepted, Accepted, Delivering
  <1>13. NoticesTrue'
    <2>1. ASSUME NEW id \in Id, NEW state \in noticed'[id] PROVE Truthful(id, state)
          BY <1>6, <1>8 DEF NoticesTrue
    <2> QED BY <2>1, <1>0, <1>1 DEF NoticesTrue, Truthful, Accepted
  <1>14. PendingUntouched'
         BY <1>9 DEF PendingUntouched
  <1>15. ClaimsTrue'
         BY <1>9 DEF ClaimsTrue
  <1>16. BatchClaimed'
         BY <1>0 DEF BatchClaimed, Delivering
  <1>17. NoneLost'
    <2>1. ASSUME NEW id \in Id, Accepted(id) PROVE noticed'[id] # {}
      <3>1. CASE noticed[id] # {}
            BY <3>1, <1>8
      <3>2. CASE id \in EndedWithout
        <4>1. <<id, "dropped">> \in notices
              BY <3>2
        <4> QED BY <4>1, <1>8
      <3>3. CASE \E notice \in run.closing : notice[1] = id
            BY <3>3, <1>8
      <3>4. Ids(mailbox.claimed) = {}
            BY <1>0, NoMessages
      <3> QED BY <2>1, <3>1, <3>2, <3>3, <3>4, <1>4 DEF NoneLost
    <2> QED BY <2>1, <1>0 DEF NoneLost, Accepted
  <1>18. Emptied'
         BY <1>0, <1>3 DEF Emptied
  <1> QED BY <1>11, <1>12, <1>13, <1>14, <1>15, <1>16, <1>17, <1>18

LEMMA MessagesAtEnds ==
    ASSUME Inv, Ends
    PROVE  MailboxInv' /\ MessageInv'
  <1>0. /\ mailbox \in State /\ Emptied /\ Acknowledged /\ RunInv /\ RunInv'
        BY RunAtEnds DEF Inv, ControlInv, MessageInv, MailboxInv, Ends
  <1>a. /\ Len(mailbox.tasks) \in Nat /\ Len(mailbox.withdrawn) \in Nat
        /\ mailbox.tasks \in Seq(Guidance)
        BY <1>0, LenProperties DEF State
  <1>1. CASE TakePrompt
    <2>1. /\ pc = "wait" /\ pc' = "prompt" /\ UNCHANGED <<context, ack, noticed>>
          /\ mailbox.tasks # << >> /\ mailbox' = [mailbox EXCEPT !.tasks = Tail(@), !.active = TRUE]
          /\ run' = [NoRun EXCEPT !.batch = <<Head(mailbox.tasks)>>]
          BY <1>1 DEF TakePrompt, CanTakeTask, NextTask, Goto, person
    <2>2. /\ Head(mailbox.tasks) \in Range(mailbox.tasks) /\ Head(mailbox.tasks) \in Guidance
          /\ Tail(mailbox.tasks) \in Seq(Guidance)
          /\ Len(Tail(mailbox.tasks)) = Len(mailbox.tasks) - 1
          /\ Range(Tail(mailbox.tasks)) \subseteq Range(mailbox.tasks)
          BY <2>1, <1>a, TailMessage
    <2>3. /\ mailbox' \in State /\ mailbox'.active /\ mailbox'.tasks = Tail(mailbox.tasks)
          /\ mailbox'.guidance = mailbox.guidance /\ mailbox'.claimed = mailbox.claimed
          /\ mailbox'.dropped = mailbox.dropped /\ mailbox'.closed = mailbox.closed
          /\ mailbox'.sequence = mailbox.sequence /\ mailbox'.withdrawn = mailbox.withdrawn
          BY <2>1, <2>2, <1>0 DEF State
    <2>4. run'.closing = {} /\ run.closing = {} /\ run'.batch = <<Head(mailbox.tasks)>>
          BY <2>1, <1>0 DEF RunInv, NoRun
    <2>5. \A m \in Range(run'.batch) : ack[m.id] = "task" /\ m.text = 0
      <3>1. Range(<<Head(mailbox.tasks)>>) = {Head(mailbox.tasks)}
            BY DEF Range
      <3> QED BY <3>1, <2>2, <2>4, <1>0 DEF Acknowledged
    <2>6. mailbox.claimed = << >>
          BY <2>1, <1>0 DEF Emptied, Delivering
    <2>7. Len(mailbox'.tasks) <= Len(mailbox.tasks) /\ Len(mailbox'.withdrawn) <= Len(mailbox.withdrawn)
          BY <2>2, <2>3, <1>a
    <2> QED BY <2>1, <2>2, <2>3, <2>4, <2>5, <2>6, <2>7, Unmoved DEF Delivering, Empties
  <1>2. CASE StopWaiting
    <2>1. run' = run /\ pc = "wait" /\ pc' = "stop" /\ UNCHANGED <<mailbox, context, ack, noticed>>
          BY <1>2 DEF StopWaiting, Goto, person
    <2> QED BY <2>1, Silent DEF Delivering, Empties
  <1>3. CASE Begin
    <2>1. /\ pc = "begin" /\ pc' \in {"stop", "loop", "finish"} /\ UNCHANGED <<context, ack, noticed>>
          /\ mailbox' = mailbox \/ BeginRun
          BY <1>3 DEF Begin, FailEvidence, Leave, Goto, person
    <2>2. run'.closing = run.closing
          BY <2>1, <1>0 DEF RunInv
    <2>3. CASE mailbox' = mailbox
          BY <2>1, <2>2, <2>3, Silent DEF Delivering, Empties
    <2>4. CASE BeginRun
      <3>1. mailbox' = [mailbox EXCEPT !.active = TRUE, !.owned = TRUE]
            BY <2>4 DEF BeginRun
      <3>2. /\ mailbox' \in State /\ mailbox'.active /\ mailbox'.tasks = mailbox.tasks
            /\ mailbox'.guidance = mailbox.guidance /\ mailbox'.claimed = mailbox.claimed
            /\ mailbox'.dropped = mailbox.dropped /\ mailbox'.closed = mailbox.closed
            /\ mailbox'.sequence = mailbox.sequence /\ mailbox'.withdrawn = mailbox.withdrawn
            BY <3>1, <1>0 DEF State
      <3>3. mailbox.claimed = << >>
            BY <2>1, <1>0 DEF Emptied, Delivering
      <3> QED BY <2>1, <2>2, <3>2, <3>3, <1>a, Unmoved DEF Delivering, Empties
    <2> QED BY <2>1, <2>3, <2>4
  <1>4. CASE Return
    <2>1. /\ pc = "return" /\ pc' \in {"stop", "wait"}
          /\ UNCHANGED <<mailbox, context, ack, noticed>>
          BY <1>4 DEF Return, Goto, person
    <2>2. run'.closing = run.closing
          BY <2>1, <1>0 DEF RunInv
    <2> QED BY <2>1, <2>2, Silent DEF Delivering, Empties
  <1>5. CASE StopWorker
    <2>1. /\ pc = "stop" /\ pc' = "gone" /\ Shutdown /\ UNCHANGED <<context, ack, noticed>>
          BY <1>5 DEF StopWorker, Goto, person
    <2>2. run'.closing = run.closing
          BY <2>1, <1>0 DEF RunInv
    <2> QED BY <2>1, <2>2, MessagesShutDown
  <1> QED BY <1>1, <1>2, <1>3, <1>4, <1>5, MessagesPrompted, MessagesDrained, MessagesEnded
          DEF Ends

---------------------------------------------------------------------------
(* The messages: the person *)

\* A new identity is in no place yet.
LEMMA FreshMessage ==
    ASSUME Inv, mailbox.sequence < MaxMessages
    PROVE  LET id == mailbox.sequence + 1
           IN  /\ id \in Id /\ ack[id] = "none"
               /\ \A m \in Range(mailbox.tasks) \cup Range(mailbox.guidance)
                            \cup Range(mailbox.claimed) \cup Range(context) : m.id # id
               /\ id \notin Range(mailbox.withdrawn) /\ id \notin Range(mailbox.dropped)
               /\ pc \in Delivering \cup {"prompt"} => \A m \in Range(run.batch) : m.id # id
               /\ noticed[id] = {}
               /\ \A notice \in run.closing : notice[1] # id
  <1> USE DEF Inv, ControlInv, MessageInv
  <1> DEFINE id == mailbox.sequence + 1
  <1>1. mailbox.sequence \in 0 .. MaxMessages
        BY DEF MailboxInv, State
  <1>2. id \in Id /\ id > mailbox.sequence
        BY <1>1, MailboxAssumption DEF Id
  <1>3. ack[id] = "none"
        BY <1>2 DEF Acknowledged
  <1> HIDE DEF id
  <1>4. /\ \A m \in Range(mailbox.tasks) \cup Range(mailbox.guidance)
                     \cup Range(mailbox.claimed) \cup Range(context) : m.id # id
        /\ id \notin Range(mailbox.withdrawn) /\ id \notin Range(mailbox.dropped)
        BY <1>3 DEF Acknowledged, AsAccepted, Accepted
  <1>5. pc \in Delivering \cup {"prompt"} => \A m \in Range(run.batch) : m.id # id
        BY <1>3 DEF Acknowledged, AsAccepted, Accepted
  <1>6. id \notin Ids(context) /\ ~Accepted(id)
        BY <1>3, <1>4 DEF Ids, Accepted
  <1>7. \A state \in Final : ~Truthful(id, state)
        BY <1>3, <1>6 DEF Truthful, Final
  <1>8. noticed[id] \subseteq Final /\ run.closing \subseteq Id \X Final
        BY <1>2 DEF RestTyped, RunInv, Locals
  <1>9. /\ \A state \in noticed[id] : Truthful(id, state)
        /\ \A notice \in run.closing : Truthful(notice[1], notice[2])
        BY <1>2 DEF NoticesTrue
  <1>10. noticed[id] = {}
         BY <1>7, <1>8, <1>9
  <1>11. \A notice \in run.closing : notice[1] # id
         BY <1>7, <1>8, <1>9
  <1> QED BY <1>2, <1>3, <1>4, <1>5, <1>10, <1>11 DEF id

LEMMA MessagesSubmitted ==
    ASSUME Inv, Submit
    PROVE  MailboxInv' /\ MessageInv'
  <1> USE DEF Inv, ControlInv, MessageInv
  <1> DEFINE new == mailbox.sequence + 1
             message == [id |-> new, text |-> 0]
  <1>0. /\ UNCHANGED <<pc, run, context, noticed>> /\ mailbox \in State
        /\ mailbox.sequence < MaxMessages /\ ~mailbox.closed
        /\ mailbox.sequence \in 0 .. MaxMessages /\ ack \in [Id -> {"none", "task", "guidance", "edited", "withdrawn"}]
        /\ mailbox.guidance \in Seq(Guidance) /\ mailbox.tasks \in Seq(Guidance)
        /\ mailbox.claimed \in Seq(Claimed)
        /\ Len(mailbox.guidance) + Len(mailbox.tasks) + Len(mailbox.claimed) < Capacity
        BY DEF Submit, CanEnqueue, driver, MailboxInv, State, RestTyped, Claimed
  <1>1. /\ new \in Id /\ ack[new] = "none"
        /\ \A m \in Range(mailbox.tasks) \cup Range(mailbox.guidance)
                     \cup Range(mailbox.claimed) \cup Range(context) : m.id # new
        /\ new \notin Range(mailbox.withdrawn) /\ new \notin Range(mailbox.dropped)
        /\ pc \in Delivering \cup {"prompt"} => \A m \in Range(run.batch) : m.id # new
        /\ noticed[new] = {}
        /\ \A notice \in run.closing : notice[1] # new
        BY <1>0, FreshMessage
  <1>2. \A id \in Id : ack'[id] = IF id = new THEN IF mailbox.active THEN "guidance" ELSE "task"
                                              ELSE ack[id]
        BY <1>0 DEF Submit
  <1>3. /\ message \in Guidance /\ message.id = new /\ message.text = 0
        /\ Len(mailbox.guidance) \in Nat /\ Len(mailbox.tasks) \in Nat /\ Len(mailbox.claimed) \in Nat
        BY <1>0, <1>1, LenProperties DEF Guidance
  <1>4. /\ Append(mailbox.guidance, message) \in Seq(Guidance)
        /\ Len(Append(mailbox.guidance, message)) = Len(mailbox.guidance) + 1
        /\ Range(Append(mailbox.guidance, message)) = Range(mailbox.guidance) \cup {message}
        /\ Distinct(Append(mailbox.guidance, message))
    <2>1. Distinct(mailbox.guidance) /\ message.id \notin Ids(mailbox.guidance)
          BY <1>1, <1>3 DEF PendingUntouched, Ids
    <2> HIDE DEF message
    <2> QED BY <2>1, <1>0, <1>3, AppendMessage
  <1>5. /\ Append(mailbox.tasks, message) \in Seq(Guidance)
        /\ Len(Append(mailbox.tasks, message)) = Len(mailbox.tasks) + 1
        /\ Range(Append(mailbox.tasks, message)) = Range(mailbox.tasks) \cup {message}
        BY <1>0, <1>3, AppendMessage
  <1>6. /\ mailbox' \in State /\ mailbox'.sequence = new
        /\ mailbox'.active = mailbox.active /\ mailbox'.closed = mailbox.closed
        /\ mailbox'.claimed = mailbox.claimed /\ mailbox'.withdrawn = mailbox.withdrawn
        /\ mailbox'.dropped = mailbox.dropped
        /\ mailbox'.guidance = IF mailbox.active THEN Append(mailbox.guidance, message)
                                                 ELSE mailbox.guidance
        /\ mailbox'.tasks = IF mailbox.active THEN mailbox.tasks
                                              ELSE Append(mailbox.tasks, message)
    <2>1. mailbox' = IF mailbox.active
                     THEN [mailbox EXCEPT !.sequence = new,
                                          !.guidance = Append(mailbox.guidance, message)]
                     ELSE [mailbox EXCEPT !.sequence = new,
                                          !.tasks = Append(mailbox.tasks, message)]
          BY DEF Submit, Enqueue
    <2>2. new \in 0 .. MaxMessages
          BY <1>1 DEF Id
    <2> HIDE DEF new, message
    <2> QED BY <2>1, <2>2, <1>0, <1>4, <1>5 DEF State
  <1>7. MailboxInv'
    <2>1. /\ Fits(Len(mailbox.guidance) + 1, Len(mailbox.tasks), Len(mailbox.claimed))
          /\ Fits(Len(mailbox.guidance), Len(mailbox.tasks) + 1, Len(mailbox.claimed))
          BY <1>0, <1>3, Fitting
    <2>2. Fits(Len(mailbox'.guidance), Len(mailbox'.tasks), Len(mailbox'.claimed))
          BY <2>1, <1>4, <1>5, <1>6
    <2> QED BY <2>2, <1>6 DEF MailboxInv
  <1>8. /\ Range(mailbox'.guidance) \subseteq Range(mailbox.guidance) \cup {message}
        /\ Range(mailbox.guidance) \subseteq Range(mailbox'.guidance)
        /\ message \in Range(mailbox'.guidance) <=> mailbox.active
        /\ Range(mailbox'.tasks) \subseteq Range(mailbox.tasks) \cup {message}
        /\ message \in Range(mailbox'.tasks) <=> ~mailbox.active
        /\ Distinct(mailbox'.guidance)
    <2>1. message \notin Range(mailbox.guidance) /\ message \notin Range(mailbox.tasks)
          BY <1>1, <1>3
    <2> QED BY <2>1, <1>4, <1>5, <1>6 DEF PendingUntouched
  <1>9. /\ \A m \in Range(mailbox.guidance) \cup Range(mailbox.tasks) \cup Range(context)
                    \cup Range(mailbox.claimed) : m.id \in Id
        /\ \A m \in Range(run.batch) : m.id \in Id
        /\ Range(mailbox.withdrawn) \subseteq Id /\ Range(mailbox.dropped) \subseteq Id
        /\ \A notice \in run.closing : notice[1] \in Id
    <2>1. /\ Range(mailbox.guidance) \subseteq Guidance /\ Range(mailbox.tasks) \subseteq Guidance
          /\ Range(mailbox.claimed) \subseteq Claimed
          BY <1>0, RangeIds
    <2>2. /\ context \in Seq(Guidance) /\ run.batch \in Seq(Guidance)
          /\ mailbox.withdrawn \in Seq(Id) /\ mailbox.dropped \in Seq(Id)
          /\ run.closing \subseteq Id \X Final
          BY <1>0 DEF RestTyped, RunInv, Locals, State
    <2>3. /\ Range(context) \subseteq Guidance /\ Range(run.batch) \subseteq Guidance
          /\ Range(mailbox.withdrawn) \subseteq Id /\ Range(mailbox.dropped) \subseteq Id
          BY <2>2, RangeIds
    <2> QED BY <2>1, <2>2, <2>3 DEF Guidance, Claimed
  <1> HIDE DEF message
  <1>a. ASSUME NEW id \in Id, id # new PROVE ack'[id] = ack[id] /\ Accepted(id)' = Accepted(id)
        BY <1>a, <1>2 DEF Accepted
  <1>b. mailbox.active => ack'[new] = "guidance"
        BY <1>1, <1>2
  <1>c. ~mailbox.active => ack'[new] = "task"
        BY <1>1, <1>2
  <1> HIDE DEF new
  <1>11. Acknowledged'
    <2>1. \A id \in Id : id > mailbox'.sequence => ack'[id] = "none"
      <3>1. ASSUME NEW id \in Id, id > new PROVE id > mailbox.sequence /\ id # new
            BY <3>1, <1>0 DEF new, Id
      <3> QED BY <3>1, <1>6, <1>a DEF Acknowledged
    <2>2. \A m \in Range(mailbox'.tasks) : ack'[m.id] = "task" /\ m.text = 0
          BY <1>1, <1>3, <1>8, <1>9, <1>a, <1>c DEF Acknowledged
    <2>3. \A m \in Range(mailbox'.guidance) : AsAccepted(m)'
      <3>1. ASSUME NEW m \in Range(mailbox.guidance) PROVE AsAccepted(m)'
            BY <1>1, <1>9, <1>a DEF Acknowledged, AsAccepted
      <3>2. ASSUME NEW m, m = message, mailbox.active PROVE AsAccepted(m)'
            BY <3>2, <1>3, <1>b DEF AsAccepted, Accepted
      <3> QED BY <3>1, <3>2, <1>8
    <2>4. /\ \A e \in Range(mailbox'.claimed) : Accepted(e.id)'
          /\ \A id \in Range(mailbox'.withdrawn) : ack'[id] = "withdrawn"
          /\ \A id \in Range(mailbox'.dropped) : Accepted(id)'
          BY <1>1, <1>6, <1>9, <1>a DEF Acknowledged
    <2>5. \A m \in Range(context') : /\ ack'[m.id] \in {"task", "guidance", "edited"}
                                     /\ m.text = 1 <=> ack'[m.id] = "edited"
          BY <1>0, <1>1, <1>9, <1>a DEF Acknowledged
    <2>6. pc \in Delivering => \A m \in Range(run.batch) : AsAccepted(m)'
          BY <1>1, <1>9, <1>a DEF Acknowledged, AsAccepted
    <2>7. pc = "prompt" => \A m \in Range(run.batch) : ack'[m.id] = "task" /\ m.text = 0
          BY <1>1, <1>9, <1>a DEF Acknowledged
    <2> QED BY <2>1, <2>2, <2>3, <2>4, <2>5, <2>6, <2>7, <1>0 DEF Acknowledged
  <1>12. NoticesTrue'
    <2>1. ASSUME NEW id \in Id, id # new, NEW state, Truthful(id, state) PROVE Truthful(id, state)'
          BY <2>1, <1>0, <1>a DEF Truthful
    <2> QED BY <2>1, <1>0, <1>1, <1>9 DEF NoticesTrue
  <1>13. PendingUntouched'
    <2>1. new \notin Ids(context) /\ new \notin Ids(mailbox.claimed)
          BY <1>1 DEF Ids
    <2> QED BY <2>1, <1>0, <1>1, <1>3, <1>6, <1>8 DEF PendingUntouched
  <1>14. ClaimsTrue'
         BY <1>0, <1>6 DEF ClaimsTrue
  <1>15. BatchClaimed'
         BY <1>0, <1>6 DEF BatchClaimed
  <1>16. NoneLost'
    <2>1. \A id \in Ids(mailbox.guidance) : id \in Ids(mailbox'.guidance)
          BY <1>8 DEF Ids
    <2>2. mailbox.active => new \in Ids(mailbox'.guidance)
          BY <1>3, <1>8 DEF Ids
    <2>3. ASSUME NEW id \in Id, id = new, ~mailbox.active PROVE ~Accepted(id)'
          BY <2>3, <1>c DEF Accepted
    <2> QED BY <2>1, <2>2, <2>3, <1>0, <1>6, <1>a DEF NoneLost
  <1>17. Emptied'
         BY <1>0, <1>6 DEF Emptied
  <1> QED BY <1>7, <1>11, <1>12, <1>13, <1>14, <1>15, <1>16, <1>17

\* The pending message of an identity.
LEMMA PendingMessage ==
    ASSUME Inv, NEW id \in Id, Pending(id)
    PROVE  LET k == PositionOf(id)
           IN  /\ k \in DOMAIN mailbox.guidance /\ mailbox.guidance[k].id = id
               /\ mailbox.guidance[k] \in Range(mailbox.guidance) /\ Accepted(id)
               /\ noticed[id] = {} /\ id \notin Ids(context) /\ id \notin Ids(mailbox.claimed)
               /\ id \notin Range(mailbox.dropped) /\ id \notin Range(mailbox.withdrawn)
               /\ \A m \in Range(mailbox.tasks) : m.id # id
               /\ pc \in Delivering \cup {"prompt"} => \A m \in Range(run.batch) : m.id # id
               /\ \A notice \in run.closing : notice[1] # id
  <1> USE DEF Inv, ControlInv, MessageInv
  <1> DEFINE k == PositionOf(id)
  <1>1. \E i \in DOMAIN mailbox.guidance : mailbox.guidance[i].id = id
        BY DEF Pending, Range, IdsOf
  <1>2. k \in DOMAIN mailbox.guidance /\ mailbox.guidance[k].id = id
        BY <1>1 DEF PositionOf
  <1>3. mailbox.guidance[k] \in Range(mailbox.guidance)
        BY <1>2 DEF Range
  <1> HIDE DEF k
  <1>4. /\ Accepted(id) /\ noticed[id] = {} /\ id \notin Ids(context)
        /\ id \notin Ids(mailbox.claimed) /\ id \notin Range(mailbox.dropped)
        /\ \A notice \in run.closing : notice[1] # id
        BY <1>2, <1>3 DEF Acknowledged, AsAccepted, PendingUntouched
  <1>5. id \notin Range(mailbox.withdrawn) /\ \A m \in Range(mailbox.tasks) : m.id # id
        BY <1>4 DEF Acknowledged, Accepted
  <1>6. pc \in Delivering => \A m \in Range(run.batch) : m.id # id
    <2>1. ASSUME pc \in Delivering, NEW m \in Range(run.batch) PROVE m.id # id
      <3>1. [id |-> m.id, delivered |-> FALSE] \in Range(mailbox.claimed)
            BY <2>1 DEF BatchClaimed
      <3>2. m.id \in Ids(mailbox.claimed)
            BY <3>1 DEF Ids
      <3> QED BY <3>2, <1>4
    <2> QED BY <2>1
  <1>7. pc = "prompt" => \A m \in Range(run.batch) : m.id # id
        BY <1>4 DEF Acknowledged, Accepted
  <1> QED BY <1>2, <1>3, <1>4, <1>5, <1>6, <1>7 DEF k

\* The person changes what is pending under one identity: edits it, or takes it
\* back.
LEMMA PendingChanged ==
    ASSUME Inv, NEW id \in Id, Pending(id), UNCHANGED <<pc, run, context, noticed>>,
           MailboxInv', mailbox'.sequence = mailbox.sequence,
           mailbox'.active = mailbox.active, mailbox'.closed = mailbox.closed,
           mailbox'.tasks = mailbox.tasks, mailbox'.claimed = mailbox.claimed,
           mailbox'.dropped = mailbox.dropped,
           \A other \in Id : other # id => ack'[other] = ack[other],
           Distinct(mailbox'.guidance),
           {m \in Range(mailbox'.guidance) : m.id # id} = {m \in Range(mailbox.guidance) : m.id # id},
           \/ /\ ack'[id] = "edited" /\ mailbox'.withdrawn = mailbox.withdrawn
              /\ \E m \in Range(mailbox'.guidance) : m.id = id
              /\ \A m \in Range(mailbox'.guidance) : m.id = id => m.text = 1
           \/ /\ ack'[id] = "withdrawn" /\ \A m \in Range(mailbox'.guidance) : m.id # id
              /\ Range(mailbox'.withdrawn) = Range(mailbox.withdrawn) \cup {id}
    PROVE  MessageInv'
  <1> USE DEF Inv, ControlInv, MessageInv
  <1>1. /\ Accepted(id)
        /\ noticed[id] = {} /\ id \notin Ids(context) /\ id \notin Ids(mailbox.claimed)
        /\ id \notin Range(mailbox.dropped) /\ id \notin Range(mailbox.withdrawn)
        /\ \A m \in Range(mailbox.tasks) : m.id # id
        /\ pc \in Delivering \cup {"prompt"} => \A m \in Range(run.batch) : m.id # id
        /\ \A notice \in run.closing : notice[1] # id
        BY PendingMessage
  <1>2. /\ \A m \in Range(context) : m.id # id
        /\ \A e \in Range(mailbox.claimed) : e.id # id
        BY <1>1 DEF Ids
  <1>3. /\ \A m \in Range(mailbox.guidance) \cup Range(mailbox.tasks) \cup Range(context)
                    \cup Range(mailbox.claimed) : m.id \in Id
        /\ \A m \in Range(run.batch) : m.id \in Id
        /\ Range(mailbox.withdrawn) \subseteq Id /\ Range(mailbox.dropped) \subseteq Id
        /\ \A notice \in run.closing : notice[1] \in Id
    <2>1. /\ mailbox.guidance \in Seq(Guidance) /\ mailbox.tasks \in Seq(Guidance)
          /\ mailbox.claimed \in Seq(Claimed) /\ context \in Seq(Guidance)
          /\ run.batch \in Seq(Guidance) /\ mailbox.withdrawn \in Seq(Id)
          /\ mailbox.dropped \in Seq(Id) /\ run.closing \subseteq Id \X Final
          BY DEF MailboxInv, RestTyped, RunInv, Locals, State, Claimed
    <2>2. /\ Range(mailbox.guidance) \subseteq Guidance /\ Range(mailbox.tasks) \subseteq Guidance
          /\ Range(mailbox.claimed) \subseteq Claimed /\ Range(context) \subseteq Guidance
          /\ Range(run.batch) \subseteq Guidance
          /\ Range(mailbox.withdrawn) \subseteq Id /\ Range(mailbox.dropped) \subseteq Id
          BY <2>1, RangeIds
    <2> QED BY <2>1, <2>2 DEF Guidance, Claimed
  <1>4. ASSUME NEW other \in Id, other # id
        PROVE  ack'[other] = ack[other] /\ Accepted(other)' = Accepted(other)
        BY <1>4 DEF Accepted
  <1>5. \A m \in Range(mailbox'.guidance) : m.id # id => m \in Range(mailbox.guidance)
        OBVIOUS
  <1>11. Acknowledged'
    <2>1. \A other \in Id : other > mailbox'.sequence => ack'[other] = "none"
          BY <1>1, <1>4 DEF Acknowledged, Accepted
    <2>2. \A m \in Range(mailbox'.tasks) : ack'[m.id] = "task" /\ m.text = 0
          BY <1>1, <1>3, <1>4 DEF Acknowledged
    <2>3. ASSUME NEW m \in Range(mailbox'.guidance) PROVE AsAccepted(m)'
      <3>1. CASE m.id # id
            BY <3>1, <1>3, <1>4, <1>5 DEF Acknowledged, AsAccepted
      <3>2. CASE m.id = id
            BY <3>2 DEF AsAccepted, Accepted
      <3> QED BY <3>1, <3>2
    <2>4. /\ \A e \in Range(mailbox'.claimed) : Accepted(e.id)'
          /\ \A other \in Range(mailbox'.dropped) : Accepted(other)'
          BY <1>1, <1>2, <1>3, <1>4 DEF Acknowledged
    <2>5. \A other \in Range(mailbox'.withdrawn) : ack'[other] = "withdrawn"
          BY <1>1, <1>3, <1>4 DEF Acknowledged
    <2>6. \A m \in Range(context') : /\ ack'[m.id] \in {"task", "guidance", "edited"}
                                     /\ m.text = 1 <=> ack'[m.id] = "edited"
          BY <1>2, <1>3, <1>4 DEF Acknowledged
    <2>7. pc \in Delivering => \A m \in Range(run.batch) : AsAccepted(m)'
          BY <1>1, <1>3, <1>4 DEF Acknowledged, AsAccepted
    <2>8. pc = "prompt" => \A m \in Range(run.batch) : ack'[m.id] = "task" /\ m.text = 0
          BY <1>1, <1>3, <1>4 DEF Acknowledged
    <2> QED BY <2>1, <2>2, <2>3, <2>4, <2>5, <2>6, <2>7, <2>8 DEF Acknowledged
  <1>12. NoticesTrue'
    <2>1. ASSUME NEW other \in Id, other # id, NEW state, Truthful(other, state)
          PROVE  Truthful(other, state)'
          BY <2>1, <1>4 DEF Truthful
    <2> QED BY <2>1, <1>1, <1>3 DEF NoticesTrue
  <1>13. PendingUntouched'
         BY <1>1, <1>5 DEF PendingUntouched
  <1>14. ClaimsTrue'
         BY DEF ClaimsTrue
  <1>15. BatchClaimed'
         BY DEF BatchClaimed
  <1>16. NoneLost'
    <2>1. \A other \in Ids(mailbox.guidance) : other # id => other \in Ids(mailbox'.guidance)
          BY DEF Ids
    <2>2. ack'[id] = "edited" => id \in Ids(mailbox'.guidance)
          BY DEF Ids
    <2>3. Accepted(id)' => ack'[id] = "edited"
          BY DEF Accepted
    <2> QED BY <2>1, <2>2, <2>3, <1>4 DEF NoneLost
  <1>17. Emptied'
    <2>1. mailbox.active /\ ~mailbox.closed
          BY PendingMessage, NoMessages DEF Pending, Emptied
    <2> QED BY <2>1 DEF Emptied
  <1> QED BY <1>11, <1>12, <1>13, <1>14, <1>15, <1>16, <1>17

LEMMA MessagesEdited ==
    ASSUME Inv, NEW id \in Id, Edit(id)
    PROVE  MailboxInv' /\ MessageInv'
  <1> USE DEF Inv, ControlInv, MessageInv
  <1> DEFINE k == PositionOf(id)
             edited == [id |-> id, text |-> 1]
             pending == [mailbox.guidance EXCEPT ![k] = edited]
  <1>0. /\ Pending(id) /\ UNCHANGED <<pc, run, context, noticed>> /\ mailbox \in State
        /\ mailbox.guidance \in Seq(Guidance) /\ Distinct(mailbox.guidance)
        /\ ack \in [Id -> {"none", "task", "guidance", "edited", "withdrawn"}]
        /\ ack' = [ack EXCEPT ![id] = "edited"]
        BY DEF Edit, EditPending, driver, MailboxInv, State, PendingUntouched, RestTyped
  <1>1. k \in DOMAIN mailbox.guidance /\ mailbox.guidance[k].id = id
        BY <1>0, PendingMessage
  <1>2. mailbox.guidance[k] \in Guidance
        BY <1>0, <1>1, LenProperties
  <1>3. edited \in Guidance /\ edited.id = mailbox.guidance[k].id /\ edited.text = 1
        BY <1>1 DEF Guidance
  <1>4. [mailbox.guidance[k] EXCEPT !.text = 1] = edited
        BY <1>1, <1>2 DEF Guidance
  <1>5. mailbox' = [mailbox EXCEPT !.guidance = pending]
        BY <1>4 DEF Edit, EditPending
  <1>6. /\ pending \in Seq(Guidance) /\ Len(pending) = Len(mailbox.guidance) /\ Distinct(pending)
        /\ Range(pending) = {m \in Range(mailbox.guidance) : m.id # edited.id} \cup {edited}
    <2> HIDE DEF k, edited
    <2> QED BY <1>0, <1>1, <1>3, ReplaceMessage, SMTT(30)
  <1> HIDE DEF pending
  <1>7. /\ mailbox' \in State /\ mailbox'.guidance = pending
        /\ mailbox'.sequence = mailbox.sequence /\ mailbox'.active = mailbox.active
        /\ mailbox'.closed = mailbox.closed /\ mailbox'.tasks = mailbox.tasks
        /\ mailbox'.claimed = mailbox.claimed /\ mailbox'.dropped = mailbox.dropped
        /\ mailbox'.withdrawn = mailbox.withdrawn
        BY <1>0, <1>5, <1>6 DEF State
  <1>8. MailboxInv'
        BY <1>6, <1>7 DEF MailboxInv
  <1>9. ack'[id] = "edited" /\ \A other \in Id : other # id => ack'[other] = ack[other]
        BY <1>0
  <1>10. /\ {m \in Range(pending) : m.id # id} = {m \in Range(mailbox.guidance) : m.id # id}
         /\ \E m \in Range(pending) : m.id = id
         /\ \A m \in Range(pending) : m.id = id => m.text = 1
         BY <1>1, <1>3, <1>6
  <1>11. MessageInv'
    <2> HIDE DEF MessageInv, Inv, ControlInv
    <2> QED BY <1>0, <1>6, <1>7, <1>8, <1>9, <1>10, PendingChanged
  <1> QED BY <1>8, <1>11

LEMMA MessagesWithdrawn ==
    ASSUME Inv, NEW id \in Id, Withdraw(id)
    PROVE  MailboxInv' /\ MessageInv'
  <1> USE DEF Inv, ControlInv, MessageInv
  <1> DEFINE k == PositionOf(id)
             pending == RemoveAt(mailbox.guidance, k)
             withdrawn == Append(mailbox.withdrawn, id)
  <1>0. /\ Pending(id) /\ UNCHANGED <<pc, run, context, noticed>> /\ mailbox \in State
        /\ mailbox.guidance \in Seq(Guidance) /\ Distinct(mailbox.guidance)
        /\ mailbox.withdrawn \in Seq(Id) /\ Len(mailbox.withdrawn) < Capacity
        /\ ack \in [Id -> {"none", "task", "guidance", "edited", "withdrawn"}]
        /\ ack' = [ack EXCEPT ![id] = "withdrawn"]
        BY DEF Withdraw, WithdrawPending, driver, MailboxInv, State, PendingUntouched, RestTyped
  <1>1. k \in DOMAIN mailbox.guidance /\ mailbox.guidance[k].id = id
        BY <1>0, PendingMessage
  <1>2. mailbox' = [mailbox EXCEPT !.guidance = pending, !.withdrawn = withdrawn]
        BY DEF Withdraw, WithdrawPending
  <1>3. /\ pending \in Seq(Guidance) /\ Len(pending) = Len(mailbox.guidance) - 1
        /\ Distinct(pending)
        /\ Range(pending) = {m \in Range(mailbox.guidance) : m.id # mailbox.guidance[k].id}
    <2> HIDE DEF k
    <2> QED BY <1>0, <1>1, RemoveMessage
  <1>4. /\ withdrawn \in Seq(Id) /\ Len(withdrawn) = Len(mailbox.withdrawn) + 1
        /\ Range(withdrawn) = Range(mailbox.withdrawn) \cup {id}
        BY <1>0, AppendMessage
  <1> HIDE DEF pending, withdrawn
  <1>5. /\ mailbox' \in State /\ mailbox'.guidance = pending
        /\ mailbox'.sequence = mailbox.sequence /\ mailbox'.active = mailbox.active
        /\ mailbox'.closed = mailbox.closed /\ mailbox'.tasks = mailbox.tasks
        /\ mailbox'.claimed = mailbox.claimed /\ mailbox'.dropped = mailbox.dropped
        /\ mailbox'.withdrawn = withdrawn
        BY <1>0, <1>2, <1>3, <1>4 DEF State
  <1>6. MailboxInv'
    <2>1. /\ Len(mailbox.guidance) \in Nat /\ Len(mailbox.tasks) \in Nat
          /\ Len(mailbox.claimed) \in Nat /\ Len(pending) \in Nat /\ Len(mailbox.withdrawn) \in Nat
          BY <1>0, <1>3, LenProperties DEF State
    <2>2. /\ Len(pending) <= Len(mailbox.guidance) /\ Len(mailbox.tasks) <= Len(mailbox.tasks)
          /\ Len(mailbox.claimed) <= Len(mailbox.claimed)
          BY <2>1, <1>3
    <2>3. Fits(Len(mailbox.guidance), Len(mailbox.tasks), Len(mailbox.claimed))
          BY DEF MailboxInv
    <2>4. Fits(Len(pending), Len(mailbox.tasks), Len(mailbox.claimed))
          BY <2>1, <2>2, <2>3, FittingLess
    <2>5. Len(withdrawn) <= Capacity
          BY <2>1, <1>0, <1>4, MailboxAssumption
    <2> QED BY <2>4, <2>5, <1>5 DEF MailboxInv
  <1>7. ack'[id] = "withdrawn" /\ \A other \in Id : other # id => ack'[other] = ack[other]
        BY <1>0
  <1>8. /\ {m \in Range(pending) : m.id # id} = {m \in Range(mailbox.guidance) : m.id # id}
        /\ \A m \in Range(pending) : m.id # id
        BY <1>1, <1>3
  <1>9. MessageInv'
    <2> HIDE DEF MessageInv, Inv, ControlInv
    <2> QED BY <1>0, <1>3, <1>4, <1>5, <1>6, <1>7, <1>8, PendingChanged
  <1> QED BY <1>6, <1>9

LEMMA MessagesOfOthers ==
    ASSUME Inv, Others
    PROVE  MailboxInv' /\ MessageInv'
  <1>1. CASE Watch \/ Fire \/ Cancel \/ Interrupt
    <2>1. UNCHANGED <<mailbox, pc, run, context, ack, noticed>>
          BY <1>1 DEF Watch, Fire, Cancel, Interrupt, driver, person
    <2> QED BY <2>1, Silent
  <1>2. CASE StopSession
    <2>1. UNCHANGED <<pc, run, context, ack, noticed>> /\ (Shutdown \/ UNCHANGED mailbox)
          BY <1>2 DEF StopSession, driver
    <2> QED BY <2>1, Silent, MessagesShutDown
  <1> QED BY <1>1, <1>2, MessagesSubmitted, MessagesEdited, MessagesWithdrawn DEF Others

---------------------------------------------------------------------------
(* The theorems *)

LEMMA InvInit ==
    ASSUME Init
    PROVE  Inv
  <1> USE DEF Init
  <1>1. /\ mailbox = EmptyMailbox /\ << >> \in Seq(Guidance) /\ << >> \in Seq(Claimed)
        /\ << >> \in Seq(Id) /\ 0 \in 0 .. MaxMessages
        BY EmptySeq, MailboxAssumption
  <1>2. mailbox \in State
        BY <1>1 DEF EmptyMailbox, State, Claimed
  <1>3. /\ mailbox.sequence = 0 /\ ~mailbox.active /\ ~mailbox.closed
        /\ mailbox.tasks = << >> /\ mailbox.guidance = << >> /\ mailbox.claimed = << >>
        /\ mailbox.withdrawn = << >> /\ mailbox.dropped = << >>
        BY DEF EmptyMailbox
  <1>4. MailboxInv
    <2>1. Len(<< >>) = 0
          BY NoMessages
    <2>2. Fits(0, 0, 0) /\ 0 <= Capacity
          BY MailboxAssumption DEF Fits
    <2> QED BY <2>1, <2>2, <1>2, <1>3 DEF MailboxInv
  <1>5. RunInv
    <2>1. /\ run.requested = 0 /\ run.outcome = "none" /\ run.closing = {}
          BY DEF NoRun
    <2>2. Len(context) = 0 /\ run \in Locals
          BY NoMessages, NoRunTyped
    <2> QED BY <2>1, <2>2 DEF RunInv, Label, Attempting, InTurn
  <1>6. OperationInv
        BY DEF OperationInv, NoOperation
  <1>7. RestTyped
    <2>1. cancelled \in BOOLEAN
          OBVIOUS
    <2>2. context \in Seq(Guidance) /\ stopping \in 0 .. 3 /\ faults \in 0 .. MaxFaults
          BY GuidedRunAssumption
    <2>3. ack \in [Id -> {"none", "task", "guidance", "edited", "withdrawn"}]
          OBVIOUS
    <2>4. noticed \in [Id -> SUBSET Final]
          OBVIOUS
    <2> QED BY <2>1, <2>2, <2>3, <2>4 DEF RestTyped
  <1>8. Range(<< >>) = {} /\ Ids(<< >>) = {} /\ Distinct(<< >>)
        BY NoMessages
  <1>9. run.closing = {} /\ pc = "wait" /\ \A id \in Id : noticed[id] = {} /\ ack[id] = "none"
        BY DEF NoRun
  <1>10. Acknowledged
         BY <1>3, <1>8, <1>9 DEF Acknowledged, Delivering
  <1>11. NoticesTrue /\ PendingUntouched /\ ClaimsTrue
         BY <1>3, <1>8, <1>9 DEF NoticesTrue, PendingUntouched, ClaimsTrue
  <1>12. BatchClaimed /\ NoneLost /\ Emptied
         BY <1>3, <1>9 DEF BatchClaimed, Delivering, NoneLost, Accepted, Emptied
  <1>13. CancelStaysWithItsPrompt
         BY DEF CancelStaysWithItsPrompt
  <1> QED BY <1>4, <1>5, <1>6, <1>7, <1>10, <1>11, <1>12, <1>13
          DEF Inv, ControlInv, MessageInv

\* Nobody can cancel the next prompt before it starts.
LEMMA CancelNext ==
    ASSUME Inv, Next
    PROVE  CancelStaysWithItsPrompt'
  <1>1. /\ pc = "wait" /\ cancelled => stopping = 3
        /\ pc = "wait" => ~mailbox.active
        /\ stopping \in 0 .. 3
        BY DEF Inv, CancelStaysWithItsPrompt, MessageInv, Emptied, ControlInv, RestTyped
  <1>2. CASE Ends
    <2>1. pc' = "wait" => cancelled' = FALSE
          BY <1>2 DEF Ends, TakePrompt, StopWaiting, RecordPrompt, Begin, DrainAtEnd, EndPrompt,
                      Return, StopWorker, FailEvidence, Leave, Goto
    <2> QED BY <2>1 DEF CancelStaysWithItsPrompt
  <1>3. CASE Delivery
    <2>1. pc' # "wait"
          BY <1>3 DEF Delivery, TopOfLoop, ClaimGuidance, AnnounceClaim, Push, PrepareTurn,
                      FailEvidence, Leave, Break, Goto
    <2> QED BY <2>1 DEF CancelStaysWithItsPrompt
  <1>4. CASE Attempts
    <2>1. CASE JoinOperation
          BY <2>1 DEF JoinOperation, Settle, FailEvidence, Leave, Fail, Break, Again, Goto,
                      CancelStaysWithItsPrompt
    <2>2. CASE ~JoinOperation
          BY <1>4, <2>2 DEF Attempts, StartAttempt, StartOperation, StreamEvent, ReadSteered,
                      ReadToken, Backoff, StreamReturns, FailEvidence, Leave, Break, Again,
                      Goto, CancelStaysWithItsPrompt
    <2> QED BY <2>1, <2>2
  <1>5. CASE Turns
    <2>1. pc' # "wait"
          BY <1>5 DEF Turns, AcceptTurn, RecordDispatch, Dispatch, Execute, EndBatch, Answer,
                      RejectRest, FailEvidence, Leave, Fail, Break, Again, Goto
    <2> QED BY <2>1 DEF CancelStaysWithItsPrompt
  <1>6. CASE Others
    <2>1. pc' = pc
          BY <1>6 DEF Others, Watch, Fire, Submit, Cancel, Interrupt, StopSession, Edit,
                      Withdraw, driver
    <2>2. CASE Cancel \/ Interrupt
          BY <2>1, <2>2, <1>1 DEF Cancel, MayCancel, Interrupt, CancelStaysWithItsPrompt
    <2>3. CASE StopSession
      <3>1. /\ stopping < 3 /\ stopping' = stopping + 1
            /\ cancelled' => cancelled \/ stopping = 2
            BY <2>3 DEF StopSession
      <3>2. CASE stopping = 2
            BY <3>1, <3>2 DEF CancelStaysWithItsPrompt
      <3>3. CASE stopping # 2
        <4>1. stopping # 3
              BY <3>1, <1>1
        <4> QED BY <3>1, <3>3, <4>1, <2>1, <1>1 DEF CancelStaysWithItsPrompt
      <3> QED BY <3>2, <3>3
    <2>4. CASE Watch \/ Fire \/ Submit \/ \E id \in Id : Edit(id) \/ Withdraw(id)
      <3>1. UNCHANGED <<cancelled, stopping>>
            BY <2>4 DEF Watch, Fire, Submit, Edit, Withdraw, person
      <3> QED BY <2>1, <3>1, <1>1 DEF CancelStaysWithItsPrompt
    <2> QED BY <1>6, <2>2, <2>3, <2>4 DEF Others
  <1> QED BY <1>2, <1>3, <1>4, <1>5, <1>6, Steps

LEMMA InvNext ==
    ASSUME Inv, [Next]_vars
    PROVE  Inv'
  <1>1. CASE Next
    <2>1. RunInv' /\ OperationInv' /\ RestTyped'
          BY <1>1, RunNext, OperationNext, RestNext DEF Inv
    <2>2. MailboxInv' /\ MessageInv'
          BY <1>1, Steps, MessagesAtEnds, MessagesAtDelivery, MessagesInAttempt,
             MessagesInTurn, MessagesOfOthers
    <2> QED BY <1>1, <2>1, <2>2, CancelNext DEF Inv, ControlInv
  <1>2. CASE UNCHANGED vars
    <2>1. UNCHANGED <<mailbox, pc, run, operation, cancelled, context, stopping, ack, noticed,
                      faults>>
          BY <1>2 DEF vars, driver, person
    <2>2. ControlInv'
          BY <2>1 DEF Inv, ControlInv, MailboxInv, RunInv, OperationInv, RestTyped
    <2>3. MessageInv'
          BY <2>1, Silent
    <2>4. CancelStaysWithItsPrompt'
          BY <2>1 DEF Inv, CancelStaysWithItsPrompt
    <2> QED BY <2>2, <2>3, <2>4 DEF Inv
  <1> QED BY <1>1, <1>2

\* The invariant is one.
THEOREM Invariant == Spec => []Inv
  <1>1. Init => Inv
        BY InvInit
  <1>2. Inv /\ [Next]_vars => Inv'
        BY InvNext
  <1> QED BY <1>1, <1>2, PTL DEF Spec

\* The state is well formed: the mailbox never holds more messages than
\* CAPACITY nor more withdrawal notices, the watcher runs only during an
\* operation, and attempts go at most one past the retry policy's limit, for
\* every capacity, policy and number of turns, tools, messages and failures.
THEOREM TypeCorrect == Spec => []TypeOK
  <1>1. Inv => TypeOK
        BY DEF Inv, ControlInv, MailboxInv, Fits, RunInv, Locals, OperationInv, RestTyped, TypeOK
  <1> QED BY <1>1, Invariant, PTL

\* What a person is told of a message is true (deliver_guidance and the cleanup
\* of run_controlled): delivered is in the context with the text last
\* acknowledged, dropped and withdrawn are not, and after the prompt returned
\* every accepted message was accounted for.
THEOREM NoticesAreTrue == Spec => []DispositionsAreTrue
  <1>1. ASSUME Inv PROVE DispositionsAreTrue
    <2> USE <1>1 DEF Inv, ControlInv, MessageInv
    <2>1. context \in Seq(Guidance) /\ Range(context) \subseteq Guidance
          BY RangeIds DEF RestTyped
    <2>2. \A id : InContext(id) <=> id \in Ids(context)
          BY <2>1, RangeIds DEF InContext
    <2>3. ASSUME NEW id \in Id
          PROVE  /\ "delivered" \in noticed[id] => InContext(id)
                 /\ noticed[id] \cap {"dropped", "withdrawn"} # {} => ~InContext(id)
      <3>1. \A state \in noticed[id] : Truthful(id, state)
            BY DEF NoticesTrue
      <3>2. id \in Ids(context) => ack[id] # "withdrawn"
            BY DEF Ids, Acknowledged
      <3> QED BY <3>1, <3>2, <2>2 DEF Truthful
    <2>4. \A i \in DOMAIN context : /\ ack[context[i].id] # "withdrawn"
                                    /\ context[i].text = 1 <=> ack[context[i].id] = "edited"
      <3>1. \A i \in DOMAIN context : context[i] \in Range(context)
            BY <2>1, RangeIds
      <3> QED BY <3>1 DEF Acknowledged
    <2>5. ASSUME pc \in {"return", "wait"}, NEW id \in Id, Accepted(id) PROVE noticed[id] # {}
      <3>1. /\ mailbox.guidance = << >> /\ mailbox.claimed = << >> /\ mailbox.dropped = << >>
            /\ run.closing = {}
            BY <2>5 DEF Emptied, Delivering, RunInv
      <3> QED BY <2>5, <3>1, NoMessages DEF NoneLost
    <2> QED BY <2>3, <2>4, <2>5 DEF DispositionsAreTrue
  <1>2. Inv => DispositionsAreTrue
        BY <1>1
  <1> QED BY <1>2, Invariant, PTL

\* A cancellation stops the prompt it was meant for and no other: the worker
\* waits for the next prompt with its token armed (cancel_active, end_run).
THEOREM CancelStays == Spec => []CancelStaysWithItsPrompt
  <1>1. Inv => CancelStaysWithItsPrompt
        BY DEF Inv
  <1> QED BY <1>1, Invariant, PTL

\* With nothing pending in an open mailbox, the request of the turn held every
\* accepted message that was not dropped.
LEMMA AllHeeded ==
    ASSUME Inv, pc \in {"dispatch", "final"}, ~mailbox.closed, mailbox.guidance = << >>
    PROVE  \A id \in Id : Accepted(id) => Heeded(id)
  <1> USE DEF Inv, ControlInv, MessageInv
  <1>1. SUFFICES ASSUME NEW id \in Id, Accepted(id) PROVE Heeded(id)
        OBVIOUS
  <1>2. /\ mailbox.claimed = << >> /\ mailbox.dropped = << >> /\ run.closing = {}
        /\ run.requested = Len(context)
        BY DEF Emptied, Delivering, RunInv, InTurn
  <1>3. noticed[id] # {}
        BY <1>1, <1>2, NoMessages DEF NoneLost
  <1>4. PICK state \in noticed[id] : TRUE
        BY <1>3
  <1>5. Truthful(id, state) /\ state \in Final
        BY <1>4 DEF NoticesTrue, RestTyped
  <1>6. state = "dropped" \/ (state = "delivered" /\ id \in Ids(context))
    <2>1. ack[id] # "withdrawn"
          BY <1>1 DEF Accepted
    <2>2. state \in {"delivered", "withdrawn", "dropped"}
          BY <1>5 DEF Final
    <2> QED BY <2>1, <2>2, <1>5 DEF Truthful
  <1>7. CASE state = "dropped"
        BY <1>4, <1>7 DEF Heeded
  <1>8. CASE id \in Ids(context)
    <2>1. context \in Seq(Guidance)
          BY DEF RestTyped
    <2>2. SubSeq(context, 1, Len(context)) = context
          BY <2>1, SubSeqFull
    <2>3. Range(IdsOf(context)) = Ids(context)
          BY <2>1, RangeIds
    <2>4. SubSeq(context, 1, run.requested) = context
          BY <2>2, <1>2
    <2> QED BY <1>8, <2>3, <2>4 DEF Heeded
  <1> QED BY <1>6, <1>7, <1>8

\* No tool is dispatched, and no answer ends a prompt, on a reply to a request
\* that lacked guidance accepted by then (dispatch_ready, finish_if_idle).
THEOREM ActsOnGuidance == Spec => ActsOnAllGuidance
  <1> DEFINE Acts == \/ pc = "dispatch" /\ pc' = "execute"
                     \/ pc = "final" /\ run'.outcome = "completed" /\ ~mailbox.closed
  <1>1. ASSUME Inv, [Next]_vars, Acts
        PROVE  \A id \in Id : Accepted(id) => Heeded(id)
    <2> USE <1>1
    <2>1. CASE pc = "dispatch" /\ pc' = "execute"
      <3>1. Next /\ ~Others
            BY <2>1 DEF Others, Watch, Fire, Submit, Cancel, Interrupt, StopSession, Edit,
                        Withdraw, vars, driver
      <3>2. Ends \/ Delivery \/ Attempts \/ Turns
            BY <3>1, Steps
      <3>3. ~Ends /\ ~Delivery /\ ~Attempts
            BY <2>1 DEF Ends, TakePrompt, StopWaiting, RecordPrompt, Begin, DrainAtEnd,
                        EndPrompt, Return, StopWorker, Delivery, TopOfLoop, ClaimGuidance,
                        AnnounceClaim, Push, PrepareTurn, Attempts, StartAttempt,
                        StartOperation, StreamEvent, ReadSteered, ReadToken, JoinOperation,
                        Backoff, StreamReturns
      <3>4. Dispatch
            BY <2>1, <3>2, <3>3 DEF Turns, AcceptTurn, RecordDispatch, Execute, EndBatch, Answer
      <3>5. DispatchReady
            BY <2>1, <3>4 DEF Dispatch, RejectRest, FailEvidence, Leave, Goto
      <3> QED BY <2>1, <3>5, AllHeeded DEF DispatchReady
    <2>2. CASE pc = "final" /\ run'.outcome = "completed" /\ ~mailbox.closed
      <3>1. run \in Locals /\ run.outcome = "none"
            BY <2>2, Midway DEF Inv, ControlInv, RunInv
      <3>2. run' # run
            BY <2>2, <3>1
      <3>3. Next /\ ~Others
            BY <3>2 DEF Others, Watch, Fire, Submit, Cancel, Interrupt, StopSession, Edit,
                        Withdraw, vars, driver
      <3>4. Ends \/ Delivery \/ Attempts \/ Turns
            BY <3>3, Steps
      <3>5. ~Ends /\ ~Delivery /\ ~Attempts
            BY <2>2 DEF Ends, TakePrompt, StopWaiting, RecordPrompt, Begin, DrainAtEnd,
                        EndPrompt, Return, StopWorker, Delivery, TopOfLoop, ClaimGuidance,
                        AnnounceClaim, Push, PrepareTurn, Attempts, StartAttempt,
                        StartOperation, StreamEvent, ReadSteered, ReadToken, JoinOperation,
                        Backoff, StreamReturns
      <3>6. Answer
            BY <2>2, <3>4, <3>5 DEF Turns, AcceptTurn, RecordDispatch, Dispatch, Execute, EndBatch
      <3>7. ~HasPending
        <4>1. ~Leave
              BY <2>2, <3>1 DEF Leave, Locals
        <4>2. ~Again(1)
              BY <2>2, <3>1 DEF Again, Locals
        <4> QED BY <3>2, <3>6, <4>1, <4>2 DEF Answer, FailEvidence, Break
      <3> QED BY <2>2, <3>7, AllHeeded DEF HasPending
    <2> QED BY <2>1, <2>2
  <1>2. Inv /\ [Next]_vars =>
           [Acts => \A id \in Id : Accepted(id) => Heeded(id)]_vars
        BY <1>1
  <1> QED BY <1>2, Invariant, PTL DEF Spec, ActsOnAllGuidance
=============================================================================
