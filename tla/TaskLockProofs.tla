--------------------------- MODULE TaskLockProofs ---------------------------
(***************************************************************************)
(* What TaskLock promises, for any number of commands: the lock file is    *)
(* well typed, owned exclusively unless breakers overlap, and the file of  *)
(* a live command is destroyed by nobody else.                             *)
(***************************************************************************)
EXTENDS TaskLock, TLAPS

---------------------------------------------------------------------------
(* Type correctness *)

\* The initial state of the lock directory is well typed.
LEMMA TypeInit == Init => TypeOK
BY DEF Init, TypeOK, File, PC

\* Every file-system call of every command keeps the state well typed.
LEMMA TypeNext == TypeOK /\ [Next]_vars => TypeOK'
<1> SUFFICES ASSUME TypeOK, [Next]_vars PROVE TypeOK'
    OBVIOUS
<1> USE DEF TypeOK, File, PC, Holding, Owning, Renaming, At, Goto
<1>1. ASSUME NEW p \in Proc, Acquire(p) PROVE TypeOK'
      BY <1>1 DEF Acquire, Create, ReadBack
<1>2. ASSUME NEW p \in Proc, Revalidate(p) \/ Write(p) PROVE TypeOK'
      BY <1>2 DEF Revalidate, Write, ReadBack
<1>3. ASSUME NEW p \in Proc, Release(p) PROVE TypeOK'
      BY <1>3 DEF Release, ReadBack, Rename
<1>4. ASSUME NEW p \in Proc, Discard(p, "discard", "done") PROVE TypeOK'
      BY <1>4 DEF Discard
<1>5. ASSUME NEW p \in Proc, Restore(p) PROVE TypeOK'
      BY <1>5 DEF Restore, Discard
<1>6. ASSUME NEW p \in Proc, Unlock(p) PROVE TypeOK'
      BY <1>6, ZenonT(60) DEF Unlock, Inspect, Rename, CheckQuarantined
<1>7. ASSUME NEW p \in Proc, Recover(p) PROVE TypeOK'
      BY <1>7, ZenonT(60) DEF Recover, Create, Inspect, Rename, CheckQuarantined, ReadBack, Discard
<1>8. ASSUME NEW p \in Proc, GiveUp(p) \/ Exit(p) \/ Crash(p) PROVE TypeOK'
      BY <1>8 DEF GiveUp, Exit, Crash
<1>9. CASE UNCHANGED vars
      BY <1>9 DEF vars
<1> QED BY <1>1, <1>2, <1>3, <1>4, <1>5, <1>6, <1>7, <1>8, <1>9 DEF Next

\* The lock directory is always well typed.
THEOREM TypeCorrect == Spec => []TypeOK
BY TypeInit, TypeNext, PTL DEF Spec
---------------------------------------------------------------------------
(* Exclusive ownership *)

\* A process with a step left to take is alive.
Running == \A p \in Proc : pc[p] # "done" => p \in alive

\* The file of every command between its create and its release is at the path.
HoldersOnPath == \A p \in Proc : pc[p] \in Holding => path = p

\* What a breaker is about to rename is the dead owner's file it read ...
BreakersTarget ==
    \A p \in Proc : pc[p] \in Renaming => path = retained[p] /\ path # NoLock /\ path \notin alive

\* ... and there is one such breaker at most.
OneBreaker == \A p, q \in Proc : (pc[p] \in Renaming /\ pc[q] \in Renaming) => p = q

ExclusionInv ==
    /\ TypeOK /\ Running
    /\ ~overlapped => HoldersOnPath /\ BreakersTarget /\ OneBreaker

\* No command holds or breaks anything at the start.
LEMMA ExclusionInit == Init => ExclusionInv
BY TypeInit DEF Init, ExclusionInv, Running, HoldersOnPath, BreakersTarget, OneBreaker,
                Holding, Owning, Renaming

\* A breaker that reads a dead owner's lock while no other breaker is between
\* reading and renaming becomes the one breaker, and targets that lock.
LEMMA InspectExclusion ==
    ASSUME ExclusionInv, TypeOK', NEW p \in Proc, NEW from \in PC, NEW to \in Renaming,
           from # "done", Inspect(p, from, to)
    PROVE  ExclusionInv'
<1>1. ~overlapped' => ~overlapped /\ \A q \in Proc : pc[q] \notin Renaming
      BY Zenon DEF Inspect
<1>2. Running'
      BY DEF Inspect, ExclusionInv, Running, TypeOK, At, Goto, Renaming
<1>3. ASSUME ~overlapped' PROVE HoldersOnPath' /\ BreakersTarget' /\ OneBreaker'
  <2>1. HoldersOnPath /\ \A q \in Proc : pc[q] \notin Renaming
        BY <1>1, <1>3 DEF ExclusionInv
  <2>2. \A q \in Proc : q # p => pc'[q] = pc[q] /\ retained'[q] = retained[q]
        BY DEF Inspect, Goto, ExclusionInv, TypeOK
  <2>3. pc'[p] = to /\ retained'[p] = path /\ path' = path /\ alive' = alive
        BY DEF Inspect, Goto, ExclusionInv, TypeOK
  <2>4. path # NoLock /\ path \notin alive
        BY DEF Inspect, AppearsLive
  <2> QED BY <2>1, <2>2, <2>3, <2>4
          DEF HoldersOnPath, BreakersTarget, OneBreaker, Holding, Owning, Renaming
<1> QED BY <1>2, <1>3 DEF ExclusionInv

\* Each call of a command preserves the exclusion invariant: a live holder and
\* a breaker that is about to rename cannot both name the file at the path.
LEMMA ExclusionNext == ExclusionInv /\ [Next]_vars => ExclusionInv'
<1> SUFFICES ASSUME ExclusionInv, [Next]_vars PROVE ExclusionInv'
    OBVIOUS
<1>0. TypeOK'
      BY TypeNext DEF ExclusionInv
<1> USE <1>0, NoLockAssumption DEF ExclusionInv, Running, HoldersOnPath, BreakersTarget, OneBreaker,
        TypeOK, File, PC, Holding, Owning, Renaming, At, Goto, AppearsLive
<1>1. ASSUME NEW p \in Proc, Acquire(p) PROVE ExclusionInv'
      BY <1>1 DEF Acquire, Create, ReadBack
<1>2. ASSUME NEW p \in Proc, Revalidate(p) \/ Write(p) PROVE ExclusionInv'
      BY <1>2 DEF Revalidate, Write, ReadBack
<1>3. ASSUME NEW p \in Proc, Release(p) PROVE ExclusionInv'
      BY <1>3 DEF Release, ReadBack, Rename
<1>4. ASSUME NEW p \in Proc, Discard(p, "discard", "done") PROVE ExclusionInv'
      BY <1>4 DEF Discard
<1>5. ASSUME NEW p \in Proc, Restore(p) PROVE ExclusionInv'
      BY <1>5 DEF Restore, Discard
<1>6. ASSUME NEW p \in Proc, Unlock(p) PROVE ExclusionInv'
  <2>1. CASE Inspect(p, "start", "u-rename")
        BY <2>1, InspectExclusion
  <2>2. CASE Rename(p, "u-rename", "u-check")
        BY <2>2 DEF Rename
  <2>3. CASE CheckQuarantined(p, "u-check", "discard")
        BY <2>3 DEF CheckQuarantined
  <2> QED BY <1>6, <2>1, <2>2, <2>3 DEF Unlock
<1>7. ASSUME NEW p \in Proc, Recover(p) PROVE ExclusionInv'
  <2>1. CASE Create(p, "start", "verify", "inspect") \/ Create(p, "r-create", "r-verify", "restore")
        BY <2>1 DEF Create
  <2>2. CASE Inspect(p, "inspect", "r-rename")
        BY <2>2, InspectExclusion
  <2>3. CASE Rename(p, "r-rename", "r-check")
        BY <2>3 DEF Rename
  <2>4. CASE CheckQuarantined(p, "r-check", "r-create")
        BY <2>4 DEF CheckQuarantined
  <2>5. CASE ReadBack(p, "r-verify", "r-discard", "restore")
        BY <2>5 DEF ReadBack
  <2>6. CASE Discard(p, "r-discard", "owner")
        BY <2>6 DEF Discard
  <2> QED BY <1>7, <2>1, <2>2, <2>3, <2>4, <2>5, <2>6 DEF Recover
<1>8. ASSUME NEW p \in Proc, GiveUp(p) \/ Exit(p) \/ Crash(p) PROVE ExclusionInv'
      BY <1>8 DEF GiveUp, Exit, Crash
<1>9. CASE UNCHANGED vars
      BY <1>9 DEF vars
<1> QED BY <1>1, <1>2, <1>3, <1>4, <1>5, <1>6, <1>7, <1>8, <1>9 DEF Next

\* Unless breakers overlapped, at most one command owns the lock.
THEOREM ExclusiveLocking == Spec => []ExclusiveUnlessOverlapped
<1>1. ExclusionInv => ExclusiveUnlessOverlapped
      BY DEF ExclusionInv, HoldersOnPath, ExclusiveUnlessOverlapped, Holding
<1> QED BY ExclusionInit, ExclusionNext, <1>1, PTL DEF Spec

\* Unless breakers overlapped, no unlock, recover or create takes the lock of
\* a live command off its path; only its own release does.
THEOREM LiveOwnerProtected == Spec => LiveOwnerKeepsPath
<1>1. ExclusionInv /\ [Next]_vars =>
        [(path \in alive /\ path' # path /\ ~overlapped) => pc[path] = "release"]_vars
  <2> SUFFICES ASSUME ExclusionInv, Next, path \in alive, path' # path, ~overlapped
               PROVE  pc[path] = "release"
      BY DEF vars
  <2> USE NoLockAssumption DEF ExclusionInv, TypeOK, HoldersOnPath, BreakersTarget,
          Holding, Renaming, At
  <2>1. PICK p \in Proc :
          \/ Acquire(p) \/ Recover(p) \/ Restore(p)
          \/ Rename(p, "release", "check") \/ Rename(p, "u-rename", "u-check")
        BY DEF Next, Revalidate, Write, Release, Discard, Unlock, Inspect, CheckQuarantined,
               ReadBack, GiveUp, Exit, Crash
  <2>2. CASE Rename(p, "release", "check")
        BY <2>2 DEF Rename
  <2>3. CASE Rename(p, "u-rename", "u-check")
        BY <2>3 DEF Rename
  <2>4. CASE Recover(p)
        BY <2>4 DEF Recover, Create, ReadBack, Inspect, Rename, CheckQuarantined, Discard
  <2>5. CASE Acquire(p) \/ Restore(p)
        BY <2>5 DEF Acquire, Create, ReadBack, Restore, Discard
  <2> QED BY <2>1, <2>2, <2>3, <2>4, <2>5
<1> QED BY ExclusionInit, ExclusionNext, <1>1, PTL DEF Spec, LiveOwnerKeepsPath
---------------------------------------------------------------------------
(* Survival of a live command's lock file, overlapping breakers included *)

\* A quarantine is empty until its process renames, so no rename loses a file.
EmptyHanded ==
    \A p \in Proc :
        pc[p] \in {"start", "inspect", "verify", "owner", "write", "release"} \cup Renaming
            => quarantine[p] = NoLock

\* What a process is going to remove belongs to a dead process or to itself.
DiscardsOwnOrDead ==
    \A p \in Proc :
        /\ pc[p] \in {"r-create", "r-verify", "r-discard"} => quarantine[p] \notin alive
        /\ pc[p] = "discard" => quarantine[p] = p \/ quarantine[p] \notin alive

Kept(p) == path = p \/ \E q \in Proc : quarantine[q] = p /\ pc[q] # "relinked"

SurvivalInv ==
    /\ TypeOK /\ Running /\ EmptyHanded /\ DiscardsOwnOrDead
    /\ \A p \in Proc : pc[p] \in Holding => Kept(p)

\* There is no file at the start, in the path or in a quarantine.
LEMMA SurvivalInit == Init => SurvivalInv
BY TypeInit DEF Init, SurvivalInv, Running, EmptyHanded, DiscardsOwnOrDead,
                Holding, Owning, Renaming

\* No call of a command loses the lock file of another live command.
LEMMA SurvivalNext == SurvivalInv /\ [Next]_vars => SurvivalInv'
<1> SUFFICES ASSUME SurvivalInv, [Next]_vars PROVE SurvivalInv'
    OBVIOUS
<1>0. TypeOK'
      BY TypeNext DEF SurvivalInv
<1> USE <1>0, NoLockAssumption DEF SurvivalInv, Running, EmptyHanded, DiscardsOwnOrDead, Kept,
        TypeOK, File, PC, Holding, Owning, Renaming, At, Goto, AppearsLive
<1>1. ASSUME NEW p \in Proc, Acquire(p) PROVE SurvivalInv'
      BY <1>1 DEF Acquire, Create, ReadBack
<1>2. ASSUME NEW p \in Proc, Revalidate(p) \/ Write(p) PROVE SurvivalInv'
      BY <1>2 DEF Revalidate, Write, ReadBack
<1>3. ASSUME NEW p \in Proc, Release(p) PROVE SurvivalInv'
      BY <1>3 DEF Release, ReadBack, Rename
<1>4. ASSUME NEW p \in Proc, Discard(p, "discard", "done") PROVE SurvivalInv'
      BY <1>4 DEF Discard
<1>5. ASSUME NEW p \in Proc, Restore(p) PROVE SurvivalInv'
      BY <1>5 DEF Restore, Discard
<1>6. ASSUME NEW p \in Proc, Unlock(p) PROVE SurvivalInv'
      BY <1>6 DEF Unlock, Inspect, Rename, CheckQuarantined
<1>7. ASSUME NEW p \in Proc, Recover(p) PROVE SurvivalInv'
      BY <1>7 DEF Recover, Create, ReadBack, Inspect, Rename, CheckQuarantined, Discard
<1>8. ASSUME NEW p \in Proc, GiveUp(p) \/ Exit(p) \/ Crash(p) PROVE SurvivalInv'
      BY <1>8 DEF GiveUp, Exit, Crash
<1>9. CASE UNCHANGED vars
      BY <1>9 DEF vars
<1> QED BY <1>1, <1>2, <1>3, <1>4, <1>5, <1>6, <1>7, <1>8, <1>9 DEF Next

\* Whatever breakers do, the lock file of a live owner is at the lock path or
\* in a quarantine: only its owner ever removes it.
THEOREM LiveLockKept == Spec => []LiveLockSurvives
<1>1. SurvivalInv => LiveLockSurvives
      BY DEF SurvivalInv, LiveLockSurvives, Kept, Holding
<1> QED BY SurvivalInit, SurvivalNext, <1>1, PTL DEF Spec
=============================================================================
