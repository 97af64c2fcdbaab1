-------------------------- MODULE MCTaskLifecycle --------------------------
(* Small instances of TaskLifecycle: a test task and the implementation    *)
(* task that depends on it; two tasks of which neither depends on the      *)
(* other; and one task alone.                                              *)
EXTENDS TaskLifecycle

MCTask == {"tests", "impl"}
MCDependsOn == [t \in MCTask |-> IF t = "impl" THEN {"tests"} ELSE {}]
MCImplementation == {"impl"}

MCOneTask == {"impl"}
MCOneTaskDependsOn == [t \in MCOneTask |-> {}]
MCSiblings == {"tests", "docs"}
MCSiblingsDependsOn == [t \in MCSiblings |-> {}]
===========================================================================
