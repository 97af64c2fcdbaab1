----------------------------- MODULE MCTaskLock -----------------------------
(* Commands are interchangeable: TaskLock with symmetric processes.        *)
EXTENDS TaskLock, TLC

MCSymmetry == Permutations(Proc)
=============================================================================
