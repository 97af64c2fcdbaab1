---------------------------- MODULE MCContinuous ----------------------------
(* Two items; of the first one's two tasks the second is scheduled later.   *)
(* Something outside of the component is staged when the run starts, so     *)
(* that one commit is enough to move HEAD.                                  *)
EXTENDS ContinuousRun

MCItemOf == <<"a", "a", "b">>

MCInit == Init /\ index.other = 1
MCSpec == MCInit /\ [][Next]_vars
MCFairSpec == MCSpec /\ Fairness
=============================================================================
