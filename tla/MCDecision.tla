----------------------------- MODULE MCDecision -----------------------------
(* DecisionTransaction for TLC.  Files are only ever compared with           *)
(* themselves, so they may start out alike.                                  *)
EXTENDS DecisionTransaction

MCInit == Init /\ files = [f \in Captured |-> CHOOSE v \in Version \ (Live \cup Reopening) : TRUE]

MCSpec == MCInit /\ [][Next]_vars
MCFairSpec == MCSpec /\ Fairness
=============================================================================
