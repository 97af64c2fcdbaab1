--------------------------- MODULE DecisionProofs ---------------------------
(***************************************************************************)
(* Proofs about DecisionTransaction, for any number of commands, plans,    *)
(* files, edits and faults: one command at a time works on the journal, a  *)
(* half-applied decision is fenced, and the many steps of an application   *)
(* implement the atomic one of AtomicDecision.                             *)
(***************************************************************************)
EXTENDS DecisionTransaction, WellFoundedInduction, TLAPS

---------------------------------------------------------------------------
(* The inductive invariant *)

Looping == {"output", "reread", "persist", "readback", "record"}
Applying == Working \cup {"lock", "begin", "create", "adopt", "clear"}

\* The lock file at the lock path is that of the one command between taking
\* and releasing it.
HoldsLock(p) ==
    /\ pc[p] \in Locked => token[p] = lock /\ lock # NoToken
    /\ pc[p] \notin Locked => token[p] = NoToken
    /\ \A q \in Proc : pc[p] \in Locked /\ pc[q] \in Locked => p = q

\* What an applying command may rely on at each of its steps.
KnowsJournal(p) ==
    /\ pc[p] \in Applying => plan[p] \in DOMAIN plans
    /\ pc[p] \in Looping => at[p] \in Outputs(plan[p])
    /\ known[p] # NoJournal => known[p].plan = plan[p]
    /\ pc[p] \in Working \cup {"adopt"} => known[p] # NoJournal
    /\ pc[p] \in Working => pending = known[p]
    /\ pc[p] \in Working \cup {"create", "adopt"} => plan[p] \notin receipts
    /\ pc[p] = "clear" => plan[p] \in receipts

\* The plans that may be pending beside what the tasks left open.
Admissible == {i \in DOMAIN plans : Compatible(i)}

\* What the guards and the fence keep apart.
KeepsFence(p) ==
    /\ pc[p] = "create" /\ evidence # "overtaken" => plan[p] \in Admissible
    /\ pc[p] = "write" => pending = NoJournal

Partial == written # {} => pending # NoJournal /\ pending.plan \notin receipts

\* A decision starts and fences no task.
PlansCalm ==
    \A i \in DOMAIN plans : Queue \in Outputs(i) /\ After(i, Queue) \notin Live

Journaled == pending # NoJournal /\ evidence # "overtaken" => pending.plan \in Admissible

Inv ==
    /\ TypeOK
    /\ \A p \in Proc : HoldsLock(p) /\ KnowsJournal(p) /\ KeepsFence(p)
    /\ PlansCalm
    /\ Journaled
    /\ Partial

---------------------------------------------------------------------------
(* Facts about the operators *)

\* A nonempty set of naturals has a least element.
LEMMA LeastElement ==
    ASSUME NEW T, T \subseteq Nat, T # {} PROVE \E g \in T : \A h \in T : g <= h
<1> DEFINE R == {ss \in Nat \X Nat : ss[1] < ss[2]}
<1>1. IsWellFoundedOn(R, Nat)
    BY NatLessThanWellFounded DEF OpToRel
<1>2. \E x \in T : \A y \in T : <<y, x>> \notin R
  <2> HIDE DEF R
  <2> QED
    BY <1>1, WFMin
<1>3. \A x, y \in T : <<y, x>> \notin R => x <= y
    OBVIOUS
<1> QED
    BY <1>2, <1>3

\* A new lock file is a lock file.
LEMMA TakeFresh ==
    ASSUME Inv, NEW p \in Proc, Take(p)
    PROVE  /\ lock' \in Token /\ lock' # NoToken
           /\ token' = [token EXCEPT ![p] = lock']
    BY DecisionAssumption DEF Take

\* Whether a plan is admissible depends on the plans and the evidence.
LEMMA AdmissibleSame ==
    ASSUME UNCHANGED <<plans, evidence>> PROVE Admissible' = Admissible
    BY DEF Admissible, Compatible, Reopens, Guards, Before, After

LEMMA CalmSame ==
    ASSUME PlansCalm, UNCHANGED plans PROVE PlansCalm'
    BY DEF PlansCalm, Outputs, After

\* A plan writes versions to controlled files.
LEMMA PlanTypes ==
    ASSUME TypeOK, NEW i \in DOMAIN plans, NEW f \in Outputs(i)
    PROVE  After(i, f) \in Version /\ Outputs(i) \subseteq Controlled
<1>1. plans[i] \in Plan
    BY DEF TypeOK
<1>2. PICK S \in SUBSET Controlled : plans[i].after \in [S -> Version]
    BY <1>1 DEF Plan
<1> QED
    BY <1>2 DEF Outputs, After

\* The loop goes on with an output of the plan or is over.
LEMMA AdvanceNext ==
    ASSUME Inv, NEW p \in Proc, NEW f, Advance(p, f), plan[p] \in DOMAIN plans
    PROVE  /\ at' \in [Proc -> Captured]
           /\ pc' \in [Proc -> PC]
           /\ \A q \in Proc \ {p} : pc'[q] = pc[q] /\ at'[q] = at[q]
           /\ \/ pc'[p] = "finish"
              \/ pc'[p] = "output" /\ at'[p] \in Outputs(plan[p])
<1> DEFINE rest == Rest(plan[p], f)
<1>1. rest \subseteq Outputs(plan[p]) /\ rest \subseteq Controlled
    BY PlanTypes DEF Inv, Rest
<1>2. ASSUME rest # {}
      PROVE  (CHOOSE g \in rest : \A h \in rest : g <= h) \in rest
    BY <1>1, <1>2, LeastElement DEF Controlled
<1> QED
    BY <1>1, <1>2, DecisionAssumption
    DEF Inv, TypeOK, Advance, Goto, Captured, Controlled, PC, Locked, Working

\* Saving progress or the new lock keeps a journal the journal of its plan.
LEMMA JournalExcept ==
    ASSUME NEW j \in Journal, NEW k \in Token, NEW S \in SUBSET Controlled
    PROVE  /\ [j EXCEPT !.lock = k] \in Journal
           /\ [j EXCEPT !.lock = k].plan = j.plan
           /\ [j EXCEPT !.completed = @ \cup S] \in Journal
           /\ [j EXCEPT !.completed = @ \cup S].plan = j.plan
    BY DEF Journal

\* While a command has the lock no other one is past taking it.
LEMMA OthersUnlocked ==
    ASSUME Inv, NEW p \in Proc, pc[p] \in Locked
    PROVE  \A q \in Proc \ {p} : pc[q] \notin Locked
    BY DEF Inv, HoldsLock

---------------------------------------------------------------------------
(* Every step keeps the invariant *)

\* A step that only moves a command that has the lock.
LEMMA GotoKeeps ==
    ASSUME Inv, NEW p \in Proc, NEW here \in Locked,
           pc[p] \in Locked, Goto(p, here),
           UNCHANGED <<disk, lock, plan, known, at, token, history, edits, tasks>>,
           faults' \in Nat,
           KnowsJournal(p)', KeepsFence(p)'
    PROVE  Inv'
<1>0. PlansCalm' /\ Admissible' = Admissible
    BY CalmSame, AdmissibleSame DEF Inv, disk
<1>1. TypeOK'
    BY DEF Inv, TypeOK, Goto, PC, disk, history
<1>2. \A q \in Proc : HoldsLock(q)'
    BY DEF Inv, TypeOK, HoldsLock, Goto
<1>3. \A q \in Proc : KnowsJournal(q)' /\ KeepsFence(q)'
  <2> TAKE q \in Proc
  <2>1. CASE q # p
    BY <1>0, <2>1 DEF Inv, TypeOK, KnowsJournal, KeepsFence, Outputs, Goto, disk
  <2> QED
    BY <2>1
<1> QED
    BY <1>0, <1>1, <1>2, <1>3 DEF Inv, Journaled, Partial, disk, history

\* A step that ends a command and leaves the lock file as it is, or removes it.
LEMMA LeaveKeeps ==
    ASSUME Inv, NEW p \in Proc, Leave(p),
           \/ pc[p] \notin Locked /\ lock' = lock
           \/ pc[p] \in Locked /\ lock' \in {lock, NoToken},
           UNCHANGED <<disk, history, edits, tasks>>, faults' \in Nat
    PROVE  Inv'
<1>0. PlansCalm' /\ Admissible' = Admissible
    BY CalmSame, AdmissibleSame DEF Inv, disk
<1>1. TypeOK'
    BY DecisionAssumption DEF Inv, TypeOK, Leave, Goto, PC, Captured, disk, history
<1>2. \A q \in Proc : HoldsLock(q)'
    BY DEF Inv, TypeOK, HoldsLock, Locked, Working, Leave, Goto
<1>3. \A q \in Proc : KnowsJournal(q)' /\ KeepsFence(q)'
    BY <1>0 DEF Inv, TypeOK, KnowsJournal, KeepsFence, Applying, Looping, Working, Outputs,
           Leave, Goto, disk
<1> QED
    BY <1>0, <1>1, <1>2, <1>3 DEF Inv, Journaled, Partial, disk, history

\* Taking a free lock, or the lock of a dead owner.
LEMMA TakeKeeps ==
    ASSUME Inv, NEW p \in Proc, Take(p), pc[p] \notin Locked,
           lock = NoToken \/ Dead(lock),
           NEW here \in {"begin", "check"}, Goto(p, here),
           here = "begin" => pc[p] = "lock",
           UNCHANGED <<disk, plan, known, at, history, edits, faults>>, tasks' \in Nat
    PROVE  Inv'
<1>0. PlansCalm' /\ Admissible' = Admissible
    BY CalmSame, AdmissibleSame DEF Inv, disk
<1>1. lock' \in Token /\ lock' # NoToken /\ token' = [token EXCEPT ![p] = lock']
    BY TakeFresh
<1>2. TypeOK'
    BY <1>1 DEF Inv, TypeOK, PC, Locked, Goto, disk, history
<1>3. \A q \in Proc : pc[q] \notin Locked
    BY DEF Inv, HoldsLock, Dead
<1>4. \A q \in Proc : HoldsLock(q)'
    BY <1>1, <1>3 DEF Inv, TypeOK, HoldsLock, Locked, Goto
<1>5. \A q \in Proc : KnowsJournal(q)' /\ KeepsFence(q)'
    BY <1>0 DEF Inv, TypeOK, KnowsJournal, KeepsFence, Applying, Looping, Working, Outputs,
           Goto, disk
<1> QED
    BY <1>0, <1>2, <1>4, <1>5 DEF Inv, Journaled, Partial, disk, history

\* save_journal, with the new lock or with one more completed output.
LEMMA SaveKeeps ==
    ASSUME Inv, NEW p \in Proc, NEW f, NEW j \in Journal, j.plan = plan[p],
           pc[p] \in Working \cup {"adopt"}, SaveJournal(p, j, f),
           UNCHANGED <<files, plans, receipts, evidence, lock, plan, token, history, bounds>>
    PROVE  Inv'
<1>0. PlansCalm' /\ Admissible' = Admissible
    BY CalmSame, AdmissibleSame DEF Inv
<1>1. CASE pending = known[p] /\ SetJournal(p, j) /\ Advance(p, f)
  <2>1. /\ at' \in [Proc -> Captured] /\ pc' \in [Proc -> PC]
        /\ \A q \in Proc \ {p} : pc'[q] = pc[q] /\ at'[q] = at[q]
        /\ \/ pc'[p] = "finish"
           \/ pc'[p] = "output" /\ at'[p] \in Outputs(plan[p])
    BY <1>1, AdvanceNext DEF Inv, KnowsJournal, Applying
  <2>2. TypeOK'
    BY <1>1, <2>1 DEF Inv, TypeOK, SetJournal, history, bounds
  <2>3. \A q \in Proc : HoldsLock(q)'
    BY <2>1 DEF Inv, HoldsLock, Locked, Working
  <2>4. \A q \in Proc : KnowsJournal(q)' /\ KeepsFence(q)'
    <3> TAKE q \in Proc
    <3>1. CASE q = p
      BY <1>1, <2>1, <3>1, NoJournalAssumption
      DEF Inv, TypeOK, KnowsJournal, KeepsFence, Applying, Looping, Working, Outputs, SetJournal
    <3>2. CASE q # p
      BY <1>1, <2>1, <3>2, OthersUnlocked
      DEF Inv, TypeOK, KnowsJournal, KeepsFence, Looping, Locked, Working, Applying, SetJournal
    <3> QED
      BY <3>1, <3>2
  <2>5. PlansCalm' /\ Journaled' /\ Partial'
    BY <1>0, <1>1, NoJournalAssumption
    DEF Inv, TypeOK, KnowsJournal, Journaled, Partial, SetJournal, history
  <2> QED
    BY <2>2, <2>3, <2>4, <2>5 DEF Inv
<1>2. CASE Goto(p, "release") /\ UNCHANGED <<pending, known, at>>
  <2>1. KnowsJournal(p)' /\ KeepsFence(p)'
    BY <1>2 DEF Inv, TypeOK, KnowsJournal, KeepsFence, Applying, Looping, Working, Goto
  <2> QED
    BY <1>2, <2>1, GotoKeeps DEF Inv, TypeOK, Locked, disk, bounds
<1> QED
    BY <1>1, <1>2 DEF SaveJournal

LEMMA CreateJournalKeeps ==
    ASSUME Inv, NEW p \in Proc, CreateJournal(p) PROVE Inv'
<1>0. PlansCalm' /\ Admissible' = Admissible
    BY CalmSame, AdmissibleSame DEF Inv, CreateJournal
<1>1. CASE /\ pending = NoJournal
           /\ SetJournal(p, [plan |-> plan[p], completed |-> {}, lock |-> token[p]])
           /\ Goto(p, "adopt")
  <2> DEFINE j == [plan |-> plan[p], completed |-> {}, lock |-> token[p]]
  <2>1. j \in Journal /\ j.plan = plan[p]
    BY DEF Inv, TypeOK, HoldsLock, Locked, CreateJournal, At, Journal
  <2> HIDE DEF j
  <2>2. TypeOK'
    BY <1>1, <2>1 DEF Inv, TypeOK, PC, Locked, CreateJournal, SetJournal, Goto, history, bounds, j
  <2>3. \A q \in Proc : HoldsLock(q)'
    BY <1>1 DEF Inv, TypeOK, HoldsLock, Locked, CreateJournal, At, Goto
  <2>4. \A q \in Proc : KnowsJournal(q)' /\ KeepsFence(q)'
    <3>1. \A q \in Proc \ {p} : pc[q] \notin Locked
      BY OthersUnlocked DEF CreateJournal, At, Locked
    <3>2. pending' = j /\ known' = [known EXCEPT ![p] = j]
      BY <1>1 DEF SetJournal, j
    <3> QED
      BY <1>1, <2>1, <3>1, <3>2, NoJournalAssumption
      DEF Inv, TypeOK, KnowsJournal, KeepsFence, Applying, Looping, Locked, Working, Outputs,
          CreateJournal, At, Goto
  <2>5. PlansCalm' /\ Journaled' /\ Partial'
    BY <1>0, <1>1, <2>1 DEF Inv, KeepsFence, Journaled, Partial, CreateJournal, SetJournal, At,
                history, j
  <2> QED
    BY <2>2, <2>3, <2>4, <2>5 DEF Inv
<1>2. CASE Goto(p, "release") /\ UNCHANGED <<pending, known>>
  <2>1. KnowsJournal(p)' /\ KeepsFence(p)'
    BY <1>2 DEF Inv, TypeOK, KnowsJournal, KeepsFence, Applying, Looping, Working,
                CreateJournal, Goto
  <2> QED
    BY <1>2, <2>1, GotoKeeps DEF Inv, TypeOK, Locked, CreateJournal, At, disk, bounds
<1> QED
    BY <1>1, <1>2 DEF CreateJournal

LEMMA PersistKeeps ==
    ASSUME Inv, NEW p \in Proc, Persist(p) PROVE Inv'
<1>0. PlansCalm' /\ Admissible' = Admissible
    BY CalmSame, AdmissibleSame DEF Inv, Persist
<1>1. at[p] \in Controlled /\ After(plan[p], at[p]) \in Version
    BY PlanTypes DEF Inv, KnowsJournal, Persist, At, Looping, Working, Applying
<1>2. TypeOK'
    BY <1>1 DEF Inv, TypeOK, Persist, Goto, PC, Locked, Working, bounds
<1>3. \A q \in Proc : HoldsLock(q)'
    BY DEF Inv, TypeOK, HoldsLock, Locked, Working, Persist, At, Goto
<1>4. \A q \in Proc : KnowsJournal(q)' /\ KeepsFence(q)'
    BY <1>0 DEF Inv, TypeOK, KnowsJournal, KeepsFence, Applying, Looping, Working, Outputs,
           Persist, At, Goto
<1>5. PlansCalm' /\ Journaled' /\ Partial'
    BY <1>0 DEF Inv, KnowsJournal, Journaled, Partial, Working, Persist, At
<1> QED
    BY <1>2, <1>3, <1>4, <1>5 DEF Inv

LEMMA WriteReceiptKeeps ==
    ASSUME Inv, NEW p \in Proc, WriteReceipt(p) PROVE Inv'
<1>0. PlansCalm' /\ Admissible' = Admissible
    BY CalmSame, AdmissibleSame DEF Inv, WriteReceipt
<1>1. TypeOK'
    BY DEF Inv, TypeOK, KnowsJournal, Applying, Working, WriteReceipt, At, Goto, PC, Locked, bounds
<1>2. \A q \in Proc : HoldsLock(q)'
    BY DEF Inv, TypeOK, HoldsLock, Locked, Working, WriteReceipt, At, Goto
<1>3. \A q \in Proc : KnowsJournal(q)' /\ KeepsFence(q)'
  <2>1. \A q \in Proc \ {p} : pc[q] \notin Locked
    BY OthersUnlocked DEF WriteReceipt, At, Locked, Working
  <2> QED
    BY <2>1 DEF Inv, TypeOK, KnowsJournal, KeepsFence, Applying, Looping, Locked, Working,
                Outputs, WriteReceipt, At, Goto
<1> QED
    BY <1>0, <1>1, <1>2, <1>3 DEF Inv, Journaled, Partial, WriteReceipt

LEMMA ClearPendingKeeps ==
    ASSUME Inv, NEW p \in Proc, ClearPending(p) PROVE Inv'
<1>0. PlansCalm' /\ Admissible' = Admissible
    BY CalmSame, AdmissibleSame DEF Inv, ClearPending
<1>1. TypeOK'
    BY DEF Inv, TypeOK, ClearPending, Goto, PC, Locked, history, bounds
<1>2. \A q \in Proc : HoldsLock(q)'
    BY DEF Inv, TypeOK, HoldsLock, Locked, ClearPending, At, Goto
<1>3. \A q \in Proc : KnowsJournal(q)' /\ KeepsFence(q)'
  <2>1. \A q \in Proc \ {p} : pc[q] \notin Locked
    BY OthersUnlocked DEF ClearPending, At, Locked
  <2> QED
    BY <2>1 DEF Inv, TypeOK, KnowsJournal, KeepsFence, Applying, Looping, Locked, Working,
                Outputs, ClearPending, At, Goto
<1>4. PlansCalm' /\ Journaled' /\ Partial'
    BY <1>0 DEF Inv, KnowsJournal, Journaled, Partial, ClearPending, At, history
<1> QED
    BY <1>1, <1>2, <1>3, <1>4 DEF Inv

LEMMA TaskWriteKeeps ==
    ASSUME Inv, NEW p \in Proc, TaskWrite(p) PROVE Inv'
<1>1. CASE Goto(p, "release") /\ UNCHANGED <<files, written, evidence, edits>>
  <2>1. KnowsJournal(p)' /\ KeepsFence(p)'
    BY <1>1 DEF Inv, TypeOK, KnowsJournal, KeepsFence, Applying, Looping, Working,
                TaskWrite, Goto
  <2> QED
    BY <1>1, <2>1, GotoKeeps DEF Inv, TypeOK, Locked, TaskWrite, At, disk, history
<1>2. CASE /\ edits' = edits + 1 /\ evidence' \in Evidence \ {"overtaken"} /\ UNCHANGED pc
           /\ \E f \in Captured, v \in Version : Change(f, v)
  <2>1. files' \in [Captured -> Version] /\ written' \subseteq written
    BY <1>2 DEF Inv, TypeOK, Change
  <2>2. TypeOK'
    BY <1>2, <2>1 DEF Inv, TypeOK, TaskWrite
  <2>3. \A q \in Proc \ {p} : pc[q] \notin Locked
    BY OthersUnlocked DEF TaskWrite, At, Locked
  <2>4. \A q \in Proc : HoldsLock(q)' /\ KnowsJournal(q)' /\ KeepsFence(q)'
    BY <1>2, <2>3 DEF Inv, HoldsLock, KnowsJournal, KeepsFence, Outputs, Locked, TaskWrite, At
  <2>5. PlansCalm' /\ Journaled' /\ Partial'
    BY <2>1, CalmSame DEF Inv, KeepsFence, Journaled, Partial, TaskWrite, At
  <2> QED
    BY <2>2, <2>4, <2>5 DEF Inv
<1> QED
    BY <1>1, <1>2 DEF TaskWrite

LEMMA EnvironmentKeeps ==
    ASSUME Inv, Prepare \/ Edit \/ Unlock \/ OvertakeLedger PROVE Inv'
<1>1. CASE Prepare
  <2>0. PICK S \in SUBSET Controlled : \E after \in [S -> Version] :
            /\ Queue \in S /\ \A f \in S : after[f] \notin Live
            /\ plans' = Append(plans, [before |-> files, after |-> after])
    BY <1>1 DEF Prepare
  <2>1. PICK after \in [S -> Version] :
            /\ Queue \in S /\ \A f \in S : after[f] \notin Live
            /\ plans' = Append(plans, [before |-> files, after |-> after])
    BY <2>0
  <2>2. [before |-> files, after |-> after] \in Plan
    BY DEF Inv, TypeOK, Plan
  <2>3. /\ plans' \in Seq(Plan) /\ DOMAIN plans \subseteq DOMAIN plans'
        /\ \A i \in DOMAIN plans : plans'[i] = plans[i]
        /\ \A i \in DOMAIN plans' \ DOMAIN plans : plans'[i].after = after
    BY <2>1, <2>2 DEF Inv, TypeOK
  <2>4. TypeOK'
    BY <1>1, <2>3 DEF Inv, TypeOK, Prepare, history, bounds
  <2>5. \A q \in Proc : pc[q] \notin Locked
    BY <1>1 DEF Inv, HoldsLock, Prepare
  <2>6. \A q \in Proc : HoldsLock(q)' /\ KnowsJournal(q)' /\ KeepsFence(q)'
    BY <1>1, <2>3, <2>5 DEF Inv, HoldsLock, KnowsJournal, KeepsFence, Applying, Looping, Locked,
                            Working, Outputs, Prepare
  <2>7. PlansCalm'
    <3> SUFFICES ASSUME NEW i \in DOMAIN plans'
                 PROVE  Queue \in DOMAIN plans'[i].after /\ plans'[i].after[Queue] \notin Live
      BY DEF PlansCalm, Outputs, After
    <3>1. CASE i \in DOMAIN plans
      BY <2>3, <3>1 DEF Inv, PlansCalm, Outputs, After
    <3>2. CASE i \notin DOMAIN plans
      BY <2>1, <2>3, <3>2
    <3> QED
      BY <3>1, <3>2
  <2> QED
    BY <1>1, <2>4, <2>6, <2>7 DEF Inv, Journaled, Partial, Prepare, history
<1>2. CASE Edit
  <2>0. PlansCalm' /\ Admissible' = Admissible
    BY <1>2, CalmSame, AdmissibleSame DEF Inv, Edit
  <2>1. files' \in [Captured -> Version] /\ written' \subseteq written
    BY <1>2 DEF Inv, TypeOK, Edit, Change
  <2>2. TypeOK'
    BY <1>2, <2>1 DEF Inv, TypeOK, Edit
  <2>3. \A q \in Proc : HoldsLock(q)' /\ KnowsJournal(q)' /\ KeepsFence(q)'
    BY <1>2, <2>0 DEF Inv, HoldsLock, KnowsJournal, KeepsFence, Outputs, Edit
  <2> QED
    BY <1>2, <2>0, <2>1, <2>2, <2>3 DEF Inv, Journaled, Partial, Edit
<1>3. CASE Unlock
  <2>0. PlansCalm' /\ Admissible' = Admissible
    BY <1>3, CalmSame, AdmissibleSame DEF Inv, Unlock, disk
  <2>1. TypeOK'
    BY <1>3 DEF Inv, TypeOK, Unlock, disk, history, bounds
  <2>2. \A q \in Proc : HoldsLock(q)'
    BY <1>3 DEF Inv, HoldsLock, Unlock, Dead
  <2>3. \A q \in Proc : KnowsJournal(q)' /\ KeepsFence(q)'
    BY <1>3, <2>0 DEF Inv, KnowsJournal, KeepsFence, Outputs, Unlock, disk
  <2> QED
    BY <1>3, <2>0, <2>1, <2>2, <2>3 DEF Inv, Journaled, Partial, Unlock, disk, history
<1>4. CASE OvertakeLedger
  <2>1. TypeOK'
    BY <1>4 DEF Inv, TypeOK, Evidence, OvertakeLedger, history
  <2>2. \A q \in Proc : HoldsLock(q)' /\ KnowsJournal(q)' /\ KeepsFence(q)'
    BY <1>4 DEF Inv, HoldsLock, KnowsJournal, KeepsFence, Outputs, OvertakeLedger
  <2>3. PlansCalm'
    BY <1>4, CalmSame DEF Inv, OvertakeLedger
  <2> QED
    BY <1>4, <2>1, <2>2, <2>3 DEF Inv, Journaled, Partial, OvertakeLedger, history
<1> QED
    BY <1>1, <1>2, <1>3, <1>4

LEMMA StartApplyKeeps ==
    ASSUME Inv, NEW p \in Proc, NEW i \in DOMAIN plans, StartApply(p, i) PROVE Inv'
<1>0. PlansCalm' /\ Admissible' = Admissible
    BY CalmSame, AdmissibleSame DEF Inv, StartApply, disk
<1>1. TypeOK'
    BY DEF Inv, TypeOK, StartApply, Goto, PC, disk, history, bounds
<1>2. \A q \in Proc : HoldsLock(q)'
    BY DEF Inv, TypeOK, HoldsLock, Locked, Working, StartApply, At, Goto
<1>3. \A q \in Proc : KnowsJournal(q)' /\ KeepsFence(q)'
    BY <1>0 DEF Inv, TypeOK, KnowsJournal, KeepsFence, Applying, Looping, Working, Outputs,
           StartApply, Goto, disk
<1> QED
    BY <1>0, <1>1, <1>2, <1>3 DEF Inv, Journaled, Partial, StartApply, disk, history

\* The steps that only decide where the command goes next.
LEMMA DecisionsKeep ==
    ASSUME Inv, NEW p \in Proc,
           Begin(p) \/ CheckOutput(p) \/ Reread(p) \/ ReadBack(p) \/ Finish(p)
               \/ EnsureNoPending(p)
    PROVE  Inv'
<1>1. /\ pc[p] \in Locked
      /\ UNCHANGED <<disk, lock, plan, known, at, token, history, edits, tasks, faults>>
    BY DEF Begin, CheckOutput, Reread, ReadBack, Finish, EnsureNoPending, At, Locked, Working, bounds
<1>2. \E here \in Locked : Goto(p, here)
    BY DEF Begin, CheckOutput, Reread, ReadBack, Finish, EnsureNoPending, Locked, Working
<1>3. KnowsJournal(p)' /\ KeepsFence(p)'
  <2>1. CASE Begin(p)
    <3>1. KnowsJournal(p)' /\ (pc'[p] = "create" => Verified(plan[p], FALSE))
      BY <2>1 DEF Inv, TypeOK, KnowsJournal, Applying, Looping, Working, Begin, At, Goto, disk
    <3>2. pc'[p] # "write" /\ plan'[p] = plan[p] /\ Admissible' = Admissible
      BY <2>1, AdmissibleSame DEF Inv, TypeOK, Begin, Goto, disk
    <3>3. plan[p] \in DOMAIN plans
      BY <2>1 DEF Inv, KnowsJournal, Applying, Begin, At
    <3>4. ASSUME Verified(plan[p], FALSE) PROVE plan[p] \in Admissible
      BY <3>3, <3>4 DEF Inv, PlansCalm, Verified, Admissible, Compatible, Reopens, Guards
    <3> QED
      BY <3>1, <3>2, <3>4 DEF KeepsFence
  <2>2. CASE CheckOutput(p)
    BY <2>2 DEF Inv, TypeOK, KnowsJournal, KeepsFence, Applying, Looping, Working, Outputs,
                CheckOutput, At, Goto, disk
  <2>3. CASE Reread(p) \/ ReadBack(p)
    BY <2>3 DEF Inv, TypeOK, KnowsJournal, KeepsFence, Applying, Looping, Working, Outputs,
                Reread, ReadBack, At, Goto, disk
  <2>4. CASE Finish(p)
    BY <2>4 DEF Inv, TypeOK, KnowsJournal, KeepsFence, Applying, Looping, Working,
                Finish, At, Goto, disk
  <2>5. CASE EnsureNoPending(p)
    BY <2>5 DEF Inv, TypeOK, KnowsJournal, KeepsFence, Applying, Looping, Working,
                EnsureNoPending, At, Goto, disk
  <2> QED
    BY <2>1, <2>2, <2>3, <2>4, <2>5
<1> QED
    BY <1>1, <1>2, <1>3, GotoKeeps DEF Inv, TypeOK

LEMMA InvInit == Init => Inv
<1> SUFFICES ASSUME Init PROVE Inv
    OBVIOUS
<1>0. <<>> \in Seq(Plan) /\ 0 \in Captured
    BY DecisionAssumption DEF Captured
<1>1. TypeOK
    BY <1>0 DEF Init, TypeOK, PC
<1>2. \A p \in Proc : HoldsLock(p) /\ KnowsJournal(p) /\ KeepsFence(p)
    BY DEF Init, HoldsLock, KnowsJournal, KeepsFence, Locked, Applying, Looping, Working
<1> QED
    BY <1>1, <1>2 DEF Init, Inv, PlansCalm, Journaled, Partial

LEMMA InvNext == Inv /\ [Next]_vars => Inv'
<1> SUFFICES ASSUME Inv, [Next]_vars PROVE Inv'
    OBVIOUS
<1>1. CASE UNCHANGED vars
  <2>0. PlansCalm' /\ Admissible' = Admissible
    BY <1>1, CalmSame, AdmissibleSame DEF Inv, vars, disk
  <2> QED
    BY <1>1, <2>0 DEF Inv, TypeOK, HoldsLock, KnowsJournal, KeepsFence, Journaled, Partial,
                Outputs, vars, disk, history, bounds
<1>2. CASE Prepare \/ Edit \/ Unlock \/ OvertakeLedger
    BY <1>2, EnvironmentKeeps
<1>3. ASSUME NEW p \in Proc, NEW i \in DOMAIN plans, StartApply(p, i) PROVE Inv'
    BY <1>3, StartApplyKeeps
<1>4. ASSUME NEW p \in Proc, StartTask(p) PROVE Inv'
  <2>1. tasks' \in Nat /\ pc[p] \notin Locked
    BY <1>4 DEF Inv, TypeOK, StartTask, At, Locked, Working
  <2> QED
    BY <1>4, <2>1, TakeKeeps DEF StartTask
<1>5. ASSUME NEW p \in Proc, Fail(p) PROVE Inv'
  <2>1. KnowsJournal(p)' /\ KeepsFence(p)'
    BY <1>5 DEF Inv, TypeOK, KnowsJournal, KeepsFence, Applying, Looping, Working, Fail, Goto, disk
  <2> QED
    BY <1>5, <2>1, GotoKeeps DEF Inv, TypeOK, Fail, Locked
<1>6. ASSUME NEW p \in Proc, Crash(p) PROVE Inv'
    BY <1>6, LeaveKeeps DEF Inv, TypeOK, Crash
<1>7. ASSUME NEW p \in Proc, Release(p) PROVE Inv'
    BY <1>7, LeaveKeeps DEF Inv, TypeOK, Release, At, Locked, bounds
<1>8. ASSUME NEW p \in Proc, LockForApply(p) PROVE Inv'
  <2>1. CASE Leave(p) /\ UNCHANGED lock
    BY <1>8, <2>1, LeaveKeeps DEF Inv, TypeOK, LockForApply, At, Locked, Working, bounds
  <2>2. CASE /\ lock = NoToken \/ MayTakeOver(p)
             /\ Take(p) /\ Goto(p, "begin") /\ UNCHANGED <<plan, known, at>>
    BY <1>8, <2>2, TakeKeeps DEF Inv, TypeOK, LockForApply, MayTakeOver, At, Locked, Working, bounds
  <2> QED
    BY <1>8, <2>1, <2>2 DEF LockForApply
<1>9. ASSUME NEW p \in Proc, Adopt(p) PROVE Inv'
  <2>1. known[p] \in Journal /\ known[p].plan = plan[p] /\ token[p] \in Token
    BY <1>9 DEF Inv, TypeOK, KnowsJournal, HoldsLock, Locked, Adopt, At
  <2>2. /\ [known[p] EXCEPT !.lock = token[p]] \in Journal
        /\ [known[p] EXCEPT !.lock = token[p]].plan = plan[p]
    BY <2>1, JournalExcept
  <2> QED
    BY <1>9, <2>2, SaveKeeps DEF Adopt, At
<1>10. ASSUME NEW p \in Proc, Record(p) PROVE Inv'
  <2>1. known[p] \in Journal /\ known[p].plan = plan[p] /\ {at[p]} \in SUBSET Controlled
    BY <1>10, PlanTypes DEF Inv, TypeOK, KnowsJournal, Applying, Looping, Working, Record, At
  <2>2. /\ [known[p] EXCEPT !.completed = @ \cup {at[p]}] \in Journal
        /\ [known[p] EXCEPT !.completed = @ \cup {at[p]}].plan = plan[p]
    BY <2>1 DEF Journal
  <2> QED
    BY <1>10, <2>2, SaveKeeps DEF Record, At, Working
<1> QED
    BY <1>1, <1>2, <1>3, <1>4, <1>5, <1>6, <1>7, <1>8, <1>9, <1>10, DecisionsKeep,
       CreateJournalKeeps, PersistKeeps, WriteReceiptKeeps, ClearPendingKeeps, TaskWriteKeeps
    DEF Next, Proceed

---------------------------------------------------------------------------
\* The state keeps its types, whatever the bounds.
THEOREM TypeCorrect == Spec => []TypeOK
<1>1. Inv => TypeOK
    BY DEF Inv
<1> QED
    BY <1>1, InvInit, InvNext, PTL DEF Spec

\* Two applies never work on one journal, for any number of commands.
THEOREM JournalExclusive == Spec => []SoleTransaction
<1>1. Inv => SoleTransaction
    BY DEF Inv, HoldsLock, KnowsJournal, SoleTransaction, Locked, Working
<1> QED
    BY <1>1, InvInit, InvNext, PTL DEF Spec

\* A decision that is half applied fences every ordinary writer.
THEOREM HalfAppliedFenced == Spec => []HalfAppliedIsFenced
<1>1. Inv => HalfAppliedIsFenced
    BY DEF Inv, KeepsFence, Partial, HalfAppliedIsFenced
<1> QED
    BY <1>1, InvInit, InvNext, PTL DEF Spec

\* A pending decision and a task left open never wait for each other.
THEOREM NeverBothFenced == Spec => []NoMutualFence
<1>1. Inv => NoMutualFence
    BY DEF Inv, Journaled, Admissible, NoMutualFence
<1> QED
    BY <1>1, InvInit, InvNext, PTL DEF Spec
---------------------------------------------------------------------------
(* Recorded writes *)

\* A command about to replace an output found it unrecorded in its journal.
ReplacesUnrecorded ==
    \A p \in Proc : pc[p] \in {"reread", "persist"} => at[p] \notin known[p].completed

\* A step of p that does not take it to an output's replacement.
LEMMA MovesElsewhere ==
    ASSUME ReplacesUnrecorded, NEW p \in Proc, pc'[p] \notin {"reread", "persist"},
           \A q \in Proc \ {p} : pc'[q] = pc[q] /\ at'[q] = at[q] /\ known'[q] = known[q]
    PROVE  ReplacesUnrecorded'
    BY DEF ReplacesUnrecorded

\* Every step keeps it: check_output decides, and nobody else changes what the
\* command knows or where it is.
LEMMA UnrecordedNext == Inv /\ ReplacesUnrecorded /\ [Next]_vars => ReplacesUnrecorded'
<1> SUFFICES ASSUME Inv, ReplacesUnrecorded, [Next]_vars PROVE ReplacesUnrecorded'
    OBVIOUS
<1>0. pc \in [Proc -> PC] /\ at \in [Proc -> Captured] /\ known \in [Proc -> Journal \cup {NoJournal}]
    BY DEF Inv, TypeOK
<1>1. CASE UNCHANGED <<pc, at, known>>
    BY <1>1 DEF ReplacesUnrecorded
<1>2. ASSUME NEW p \in Proc, NEW i \in DOMAIN plans, StartApply(p, i) PROVE ReplacesUnrecorded'
    BY <1>0, <1>2, MovesElsewhere DEF StartApply, Goto
<1>3. ASSUME NEW p \in Proc,
             StartTask(p) \/ Fail(p) \/ Begin(p) \/ ReadBack(p) \/ Finish(p) \/ EnsureNoPending(p)
                \/ Persist(p) \/ WriteReceipt(p) \/ ClearPending(p)
      PROVE  ReplacesUnrecorded'
    BY <1>0, <1>3, MovesElsewhere
    DEF StartTask, Fail, Begin, ReadBack, Finish, EnsureNoPending, Persist, WriteReceipt,
        ClearPending, Goto
<1>4. ASSUME NEW p \in Proc, LockForApply(p) \/ Release(p) \/ Crash(p) PROVE ReplacesUnrecorded'
    BY <1>0, <1>4, MovesElsewhere DEF LockForApply, Release, Crash, Leave, Goto
<1>5. ASSUME NEW p \in Proc, CreateJournal(p) \/ Adopt(p) \/ Record(p) PROVE ReplacesUnrecorded'
    BY <1>0, <1>5, MovesElsewhere
    DEF CreateJournal, Adopt, Record, SaveJournal, SetJournal, Advance, Goto
<1>6. ASSUME NEW p \in Proc, CheckOutput(p) PROVE ReplacesUnrecorded'
    BY <1>0, <1>6 DEF CheckOutput, Goto, ReplacesUnrecorded
<1>7. ASSUME NEW p \in Proc, Reread(p) PROVE ReplacesUnrecorded'
    BY <1>0, <1>7 DEF Reread, At, Goto, ReplacesUnrecorded
<1>8. ASSUME NEW p \in Proc, TaskWrite(p) PROVE ReplacesUnrecorded'
    BY <1>0, <1>8, MovesElsewhere DEF TaskWrite, At, Goto, ReplacesUnrecorded
<1>9. CASE Prepare \/ Edit \/ Unlock \/ OvertakeLedger
    BY <1>1, <1>9 DEF Prepare, Edit, Unlock, OvertakeLedger
<1>10. CASE UNCHANGED vars
    BY <1>1, <1>10 DEF vars
<1> QED
    BY <1>2, <1>3, <1>4, <1>5, <1>6, <1>7, <1>8, <1>9, <1>10 DEF Next, Proceed

\* Only Persist replaces an output, and the journal on disk is the one its
\* command holds.
LEMMA ReplacesOnce ==
    ASSUME Inv, ReplacesUnrecorded, [Next]_vars, NEW f \in written' \ written
    PROVE  f \notin pending.completed
<1>1. PICK p \in Proc : Persist(p)
    BY DEF Next, Proceed, vars, history, disk, bounds, Prepare, Edit, Unlock, OvertakeLedger,
           Change, StartApply,
           StartTask, Fail, Crash, LockForApply, Begin, CreateJournal, Adopt, CheckOutput, Reread,
           ReadBack, Record, Finish, WriteReceipt, ClearPending, EnsureNoPending, TaskWrite,
           Release
<1>2. f = at[p] /\ pc[p] = "persist"
    BY <1>1 DEF Persist, At
<1>3. pending = known[p]
    BY <1>2 DEF Inv, KnowsJournal, Working
<1> QED
    BY <1>2, <1>3 DEF ReplacesUnrecorded

\* apply_locked never replaces an output again that the journal on disk records
\* as completed, for any number of plans, crashes, takeovers and edits.
THEOREM WritesStand == Spec => RecordedWritesStand
<1>1. Init => ReplacesUnrecorded
    BY DEF Init, ReplacesUnrecorded
<1>2. Inv /\ ReplacesUnrecorded /\ [Next]_vars
          => [\A f \in written' \ written : f \notin pending.completed]_vars
    BY ReplacesOnce
<1> QED
    BY <1>1, <1>2, InvInit, InvNext, UnrecordedNext, PTL DEF Spec, RecordedWritesStand
=============================================================================
