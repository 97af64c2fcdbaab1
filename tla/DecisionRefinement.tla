------------------------- MODULE DecisionRefinement -------------------------
(***************************************************************************)
(* DecisionTransaction implements AtomicDecision: through the refinement   *)
(* mapping Visible, writing the receipt is the atomic application, a change*)
(* by anybody else is an edit, and every other step of an apply, a crash, a*)
(* failure, a takeover or an unlock stutters.                              *)
(***************************************************************************)
EXTENDS DecisionProofs

---------------------------------------------------------------------------
(* What the mapping needs beyond Inv *)

\* Only outputs of the journal's plan are hidden from readers.
HidesOutputs ==
    written # {} => pending.plan \in DOMAIN plans /\ written \subseteq Outputs(pending.plan)

\* Every input has the captured bytes, or those of the plan.
InputsHold(i) ==
    \A f \in Captured :
        files[f] = Before(i, f) \/ (f \in Outputs(i) /\ files[f] = After(i, f))

\* What was read last still holds, unless an editor was faster.
ReadHolds(p) ==
    /\ pc[p] = "persist" => raced \/ files[at[p]] = Before(plan[p], at[p])
    /\ pc[p] = "receipt" =>
           raced \/ (InputsHold(plan[p]) /\ OutputsWritten(plan[p]))

RefInv == HidesOutputs /\ \A p \in Proc : ReadHolds(p)

LEMMA RefInit == Init => RefInv
    BY DEF Init, RefInv, HidesOutputs, ReadHolds

\* Steps that change no file and no plan keep what was read.
LEMMA QuietKeepsReads ==
    ASSUME Inv, RefInv, NEW q \in Proc,
           UNCHANGED <<files, plans, raced>>,
           pc'[q] = pc[q] /\ plan'[q] = plan[q] /\ at'[q] = at[q]
    PROVE  ReadHolds(q)'
    BY DEF RefInv, ReadHolds, InputsHold, OutputsWritten, Before, After, Outputs

\* The plan that hides its outputs stays the one the journal names.
LEMMA HidingKept ==
    ASSUME Inv, RefInv, written' \subseteq written, UNCHANGED plans,
           written' # {} => pending'.plan = pending.plan
    PROVE  HidesOutputs'
    BY DEF RefInv, HidesOutputs, Outputs

\* A step of one command that moves it to no other last read.
LEMMA StepKeepsReads ==
    ASSUME Inv, RefInv, NEW p \in Proc,
           UNCHANGED <<files, plans, raced>>,
           \A q \in Proc \ {p} : pc'[q] = pc[q] /\ plan'[q] = plan[q] /\ at'[q] = at[q],
           pc'[p] \notin {"persist", "receipt"}
    PROVE  \A q \in Proc : ReadHolds(q)'
    BY QuietKeepsReads DEF ReadHolds

\* What save_journal, creation and removal of the journal do to the mapping.
LEMMA JournalKept ==
    ASSUME Inv, NEW p \in Proc,
           CreateJournal(p) \/ Adopt(p) \/ Record(p) \/ ClearPending(p)
    PROVE  /\ UNCHANGED <<files, plans, receipts, evidence, written, raced, edits>>
           /\ written # {} => pending'.plan = pending.plan
           /\ \A q \in Proc \ {p} : pc'[q] = pc[q] /\ plan'[q] = plan[q] /\ at'[q] = at[q]
           /\ pc'[p] \notin {"persist", "receipt"}
<1>1. CASE CreateJournal(p)
    BY <1>1 DEF Inv, TypeOK, Partial, CreateJournal, Goto, history, bounds
<1>2. CASE ClearPending(p)
    BY <1>2 DEF Inv, TypeOK, KnowsJournal, Partial, ClearPending, At, Goto, history, bounds
<1>3. ASSUME NEW j \in Journal, j.plan = plan[p], NEW f, SaveJournal(p, j, f),
             pc[p] \in Working \cup {"adopt"}
      PROVE  /\ written # {} => pending'.plan = pending.plan
             /\ \A q \in Proc \ {p} : pc'[q] = pc[q] /\ at'[q] = at[q]
             /\ pc'[p] \notin {"persist", "receipt"}
  <2>1. CASE pending = known[p] /\ SetJournal(p, j) /\ Advance(p, f)
    BY <1>3, <2>1, AdvanceNext DEF Inv, KnowsJournal, Applying, SetJournal
  <2>2. CASE Goto(p, "release") /\ UNCHANGED <<pending, known, at>>
    BY <2>2 DEF Inv, TypeOK, Goto
  <2> QED
    BY <1>3, <2>1, <2>2 DEF SaveJournal
<1>4. CASE Adopt(p)
  <2>1. known[p] \in Journal /\ known[p].plan = plan[p] /\ token[p] \in Token
    BY <1>4 DEF Inv, TypeOK, KnowsJournal, HoldsLock, Locked, Adopt, At
  <2>2. /\ [known[p] EXCEPT !.lock = token[p]] \in Journal
        /\ [known[p] EXCEPT !.lock = token[p]].plan = plan[p]
    BY <2>1, JournalExcept
  <2> QED
    BY <1>3, <1>4, <2>2 DEF Adopt, At, history, bounds
<1>5. CASE Record(p)
  <2>1. known[p] \in Journal /\ known[p].plan = plan[p] /\ at[p] \in Controlled
    BY <1>5, PlanTypes DEF Inv, TypeOK, KnowsJournal, Applying, Looping, Working, Record, At
  <2>2. /\ [known[p] EXCEPT !.completed = @ \cup {at[p]}] \in Journal
        /\ [known[p] EXCEPT !.completed = @ \cup {at[p]}].plan = plan[p]
    BY <2>1 DEF Journal
  <2> QED
    BY <1>3, <1>5, <2>2 DEF Record, At, Working, history, bounds
<1> QED
    BY <1>1, <1>2, <1>4, <1>5

\* The steps that move, start or end a command, with or without a lock.
Moves(p) ==
    \/ \E i \in DOMAIN plans : StartApply(p, i)
    \/ StartTask(p) \/ LockForApply(p) \/ Begin(p) \/ CheckOutput(p) \/ Reread(p)
    \/ ReadBack(p) \/ Finish(p) \/ EnsureNoPending(p) \/ Release(p) \/ Fail(p) \/ Crash(p)

LEMMA MovesQuiet ==
    ASSUME Inv, NEW p \in Proc, Moves(p)
    PROVE  /\ UNCHANGED <<disk, history, edits>>
           /\ \A q \in Proc \ {p} : pc'[q] = pc[q] /\ plan'[q] = plan[q] /\ at'[q] = at[q]
    BY DEF Inv, TypeOK, Moves, StartApply, StartTask, LockForApply, Begin, CheckOutput, Reread,
           ReadBack, Finish, EnsureNoPending, Release, Fail, Crash, Leave, Goto, bounds

LEMMA RefNext == Inv /\ RefInv /\ [Next]_vars => RefInv'
<1> SUFFICES ASSUME Inv, RefInv, [Next]_vars PROVE RefInv'
    OBVIOUS
<1>1. CASE UNCHANGED vars
    BY <1>1, HidingKept, QuietKeepsReads DEF RefInv, vars, disk, history
<1>2. ASSUME NEW p \in Proc, Moves(p) PROVE RefInv'
  <2>1. HidesOutputs'
    BY <1>2, MovesQuiet, HidingKept DEF disk, history
  <2>2. \A q \in Proc \ {p} : ReadHolds(q)'
    BY <1>2, MovesQuiet, QuietKeepsReads DEF disk, history
  <2>3. ReadHolds(p)'
    <3>1. CASE Reread(p)
      BY <3>1 DEF Inv, TypeOK, ReadHolds, Before, Reread, Goto, disk, history
    <3>2. CASE Finish(p)
      BY <3>2 DEF Inv, TypeOK, ReadHolds, InputsHold, Verified, OutputsWritten, Before, After,
                  Outputs, Finish, Goto, disk, history
    <3>3. CASE ~Reread(p) /\ ~Finish(p)
      <4>1. pc'[p] \notin {"persist", "receipt"}
        BY <1>2, <3>3 DEF Inv, TypeOK, Moves, StartApply, StartTask, LockForApply, Begin,
                CheckOutput, ReadBack, EnsureNoPending, Release, Fail, Crash, Leave, Goto
      <4> QED
        BY <4>1 DEF ReadHolds
    <3> QED
      BY <3>1, <3>2, <3>3
  <2> QED
    BY <2>1, <2>2, <2>3 DEF RefInv
<1>3. ASSUME NEW p \in Proc,
             CreateJournal(p) \/ Adopt(p) \/ Record(p) \/ ClearPending(p)
      PROVE  RefInv'
    BY <1>3, JournalKept, HidingKept, StepKeepsReads DEF RefInv
<1>4. ASSUME NEW p \in Proc, Persist(p) PROVE RefInv'
  <2>1. HidesOutputs'
    BY <1>4 DEF Inv, RefInv, HidesOutputs, KnowsJournal, Applying, Looping, Working, Outputs,
                Persist, At
  <2>2. \A q \in Proc \ {p} : pc[q] \notin Locked
    BY <1>4, OthersUnlocked DEF Persist, At, Locked, Working
  <2>3. \A q \in Proc : pc'[q] \notin {"persist", "receipt"}
    BY <1>4, <2>2 DEF Inv, TypeOK, Persist, Goto, Locked, Working
  <2> QED
    BY <2>1, <2>3 DEF RefInv, ReadHolds
<1>5. ASSUME NEW p \in Proc, WriteReceipt(p) PROVE RefInv'
  <2>1. HidesOutputs'
    BY <1>5 DEF HidesOutputs, WriteReceipt
  <2>2. \A q \in Proc : ReadHolds(q)'
    BY <1>5, StepKeepsReads DEF Inv, TypeOK, WriteReceipt, Goto
  <2> QED
    BY <2>1, <2>2 DEF RefInv
<1>6. ASSUME NEW p \in Proc, TaskWrite(p) PROVE RefInv'
  <2>1. HidesOutputs'
    BY <1>6, HidingKept DEF TaskWrite, Change
  <2>2. \A q \in Proc \ {p} : pc[q] \notin Locked
    BY <1>6, OthersUnlocked DEF TaskWrite, At, Locked
  <2>3. \A q \in Proc : pc'[q] \notin {"persist", "receipt"}
    BY <1>6, <2>2 DEF Inv, TypeOK, TaskWrite, At, Goto, Locked, Working
  <2> QED
    BY <2>1, <2>3 DEF RefInv, ReadHolds
<1>7. CASE Edit
  <2>1. PICK f \in Captured, v \in Version :
            Change(f, v) /\ raced' = (raced \/ LastRead(f))
    BY <1>7 DEF Edit
  <2>2. HidesOutputs'
    BY <1>7, <2>1, HidingKept DEF Edit, Change
  <2>3. ASSUME NEW q \in Proc PROVE ReadHolds(q)'
    <3>1. CASE pc[q] = "receipt" \/ (pc[q] = "persist" /\ at[q] = f)
      BY <1>7, <2>1, <3>1 DEF LastRead, At, ReadHolds, Edit
    <3>2. CASE pc[q] = "persist" /\ at[q] # f
      BY <1>7, <2>1, <3>2 DEF RefInv, Inv, TypeOK, ReadHolds, Before, Edit, Change
    <3>3. CASE pc[q] \notin {"persist", "receipt"}
      BY <1>7, <3>3 DEF ReadHolds, Edit
    <3> QED
      BY <3>1, <3>2, <3>3
  <2> QED
    BY <2>2, <2>3 DEF RefInv
<1>8. CASE Prepare
  <2>1. HidesOutputs'
    BY <1>8 DEF Inv, Partial, HidesOutputs, Prepare, history
  <2>2. \A q \in Proc : pc[q] \notin Locked
    BY <1>8 DEF Inv, HoldsLock, Prepare
  <2>3. \A q \in Proc : ReadHolds(q)'
    BY <1>8, <2>2 DEF ReadHolds, Prepare, Locked, Working
  <2> QED
    BY <2>1, <2>3 DEF RefInv
<1>9. CASE Unlock \/ OvertakeLedger
    BY <1>9, HidingKept, QuietKeepsReads DEF RefInv, Unlock, OvertakeLedger, disk, history
<1> QED
    BY <1>1, <1>2, <1>3, <1>4, <1>5, <1>6, <1>7, <1>8, <1>9 DEF Next, Proceed, Moves

---------------------------------------------------------------------------
(* The steps of the implementation are steps of the abstract specification *)

LEMMA MapsInit == Init => Abstract!Init
    BY DEF Init, Visible, Captured, Abstract!Init, Abstract!Captured

\* Nobody sees a step that changes no file and keeps the hiding plan.
LEMMA QuietStutters ==
    ASSUME UNCHANGED <<files, plans, receipts, written, raced, edits>>,
           written # {} => pending'.plan = pending.plan
    PROVE  UNCHANGED Abstract!vars
    BY DEF Abstract!vars, Visible, Before

LEMMA PersistMaps ==
    ASSUME Inv, RefInv, NEW p \in Proc, Persist(p)
    PROVE  UNCHANGED Abstract!vars \/ raced'
<1>1. CASE raced
    BY <1>1 DEF Persist
<1>2. CASE ~raced
  <2>1. pending.plan = plan[p] /\ pending' = pending /\ plans' = plans
        /\ written' = written \cup {at[p]}
        /\ files[at[p]] = Before(plan[p], at[p])
    BY <1>2 DEF Inv, RefInv, KnowsJournal, ReadHolds, Working, Persist, At
  <2>2. \A f \in Captured \ {at[p]} : files'[f] = files[f]
    BY DEF Inv, TypeOK, Persist
  <2>3. Visible' = Visible
    BY <2>1, <2>2 DEF Visible, Before
  <2> QED
    BY <2>3 DEF Abstract!vars, Persist, bounds
<1> QED
    BY <1>1, <1>2

LEMMA ReceiptMaps ==
    ASSUME Inv, RefInv, NEW p \in Proc, WriteReceipt(p)
    PROVE  Abstract!Next \/ raced'
<1>1. CASE raced
    BY <1>1 DEF WriteReceipt
<1>2. CASE ~raced
  <2> DEFINE i == plan[p]
  <2>1. i \in DOMAIN plans /\ i \notin receipts /\ (written # {} => pending.plan = i)
    BY DEF Inv, KnowsJournal, Applying, Working, WriteReceipt, At
  <2>2. InputsHold(i) /\ OutputsWritten(i)
    BY <1>2 DEF RefInv, ReadHolds, WriteReceipt, At
  <2>3. written \subseteq Outputs(i)
    BY <2>1 DEF RefInv, HidesOutputs
  <2>4. \A f \in Captured :
            (Visible[f] = Before(i, f)) \/ (f \in Outputs(i) /\ Visible[f] = After(i, f))
    <3> TAKE f \in Captured
    <3>1. CASE f \in written
      BY <2>1, <3>1 DEF Visible, Before
    <3>2. CASE f \notin written
      BY <2>2, <3>2 DEF Visible, InputsHold, Before, After, Outputs
    <3> QED
      BY <3>1, <3>2
  <2>5. Visible' = [f \in Captured |-> IF f \in Outputs(i) THEN After(i, f) ELSE Visible[f]]
    <3>1. Visible' = [f \in Captured |-> files[f]]
      BY DEF Visible, WriteReceipt
    <3>2. \A f \in Captured :
              files[f] = IF f \in Outputs(i) THEN After(i, f) ELSE Visible[f]
      BY <2>2, <2>3 DEF OutputsWritten, Visible
    <3> QED
      BY <3>1, <3>2
  <2>6. Abstract!Apply(i)
    BY <2>1, <2>4, <2>5
    DEF Abstract!Apply, Abstract!Captured, Abstract!Outputs, Captured, Outputs, Before, After,
        WriteReceipt, bounds
  <2> QED
    BY <2>1, <2>6 DEF Abstract!Next
<1> QED
    BY <1>1, <1>2

\* A change by a person or an ordinary command is an edit everybody sees.
LEMMA ChangeMaps ==
    ASSUME Inv, NEW f \in Captured, NEW v \in Version, Change(f, v),
           edits' = edits + 1, UNCHANGED <<plans, pending, receipts, raced>>
    PROVE  Abstract!Edit
<1>1. Visible' = [Visible EXCEPT ![f] = v]
    BY DEF Inv, TypeOK, Change, Visible, Before
<1> QED
    BY <1>1 DEF Abstract!Edit, Abstract!Captured, Captured

LEMMA PrepareMaps ==
    ASSUME Inv, Prepare PROVE Abstract!Prepare
<1>1. written = {} /\ Visible = files /\ Visible' = Visible
    BY DEF Inv, TypeOK, Partial, Prepare, Visible, history
<1>2. PICK S \in SUBSET Controlled : \E after \in [S -> Version] :
          plans' = Append(plans, [before |-> files, after |-> after])
    BY DEF Prepare
<1>3. PICK after \in [S -> Version] :
          plans' = Append(plans, [before |-> files, after |-> after])
    BY <1>2
<1>4. after \in UNION {[T -> Version] : T \in SUBSET (1..NumFiles)}
    BY DEF Controlled
<1> QED
    BY <1>1, <1>3, <1>4 DEF Abstract!Prepare, Prepare, history, bounds

LEMMA MapsNext ==
    ASSUME Inv, RefInv, [Next]_vars
    PROVE  [Abstract!Next \/ raced']_(Abstract!vars)
<1>1. CASE UNCHANGED vars
    BY <1>1, QuietStutters DEF vars, disk, history, bounds
<1>2. ASSUME NEW p \in Proc, Moves(p) PROVE UNCHANGED Abstract!vars
    BY <1>2, MovesQuiet, QuietStutters DEF disk, history
<1>3. ASSUME NEW p \in Proc,
             CreateJournal(p) \/ Adopt(p) \/ Record(p) \/ ClearPending(p)
      PROVE  UNCHANGED Abstract!vars
    BY <1>3, JournalKept, QuietStutters
<1>4. CASE Unlock \/ OvertakeLedger
    BY <1>4, QuietStutters DEF Unlock, OvertakeLedger, disk, history, bounds
<1>5. CASE Prepare
    BY <1>5, PrepareMaps DEF Abstract!Next
<1>6. CASE Edit
  <2>1. PICK f \in Captured, v \in Version :
            Change(f, v) /\ raced' = (raced \/ LastRead(f))
    BY <1>6 DEF Edit
  <2>2. raced' \/ raced' = raced
    BY <2>1 DEF Inv, TypeOK
  <2> QED
    BY <1>6, <2>1, <2>2, ChangeMaps DEF Edit, Abstract!Next
<1>7. ASSUME NEW p \in Proc, TaskWrite(p) PROVE Abstract!Next \/ UNCHANGED Abstract!vars
  <2>1. CASE Goto(p, "release") /\ UNCHANGED <<files, written, evidence, edits>>
    BY <1>7, <2>1, QuietStutters DEF TaskWrite
  <2>2. CASE edits' = edits + 1 /\ \E f \in Captured, v \in Version : Change(f, v)
    BY <1>7, <2>2, ChangeMaps DEF TaskWrite, Abstract!Next
  <2> QED
    BY <1>7, <2>1, <2>2 DEF TaskWrite
<1> QED
    BY <1>1, <1>2, <1>3, <1>4, <1>5, <1>6, <1>7, PersistMaps, ReceiptMaps
    DEF Next, Proceed, Moves

\* Applying a decision in many steps implements applying it at once, for any
\* number of commands, files, plans, crashes, failures and edits.
THEOREM AtomicApplication == Spec => Atomic
<1>1. Inv /\ RefInv /\ [Next]_vars => (Inv /\ RefInv)'
    BY InvNext, RefNext
<1>2. Inv /\ RefInv /\ [Next]_vars => [Abstract!Next \/ raced']_(Abstract!vars)
    BY MapsNext
<1> QED
    BY <1>1, <1>2, InvInit, RefInit, MapsInit, PTL DEF Spec, Atomic, Abstract!Spec
=============================================================================
