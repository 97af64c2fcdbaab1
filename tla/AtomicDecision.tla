--------------------------- MODULE AtomicDecision ---------------------------
(***************************************************************************)
(* What an approved decision promises to everybody who reads the component *)
(* (transaction.rs): its outputs replace the controlled files all at once, *)
(* at most once, and only over the exact bytes the human approved, however *)
(* often the application crashes, fails or is repeated.                    *)
(***************************************************************************)
EXTENDS Naturals, Sequences

CONSTANTS
    NumFiles,   \* controlled files, numbered in name order; the last is TODOS.yaml
    Version     \* contents of a file

VARIABLES
    doc,        \* the captured inputs as everybody may see them
    plans,      \* the prepared plans, named by their position
    applied,    \* the plans that took effect
    edits,      \* changes made by anybody but a decision
    raced       \* an editor saved in the instant between a read and the rename

vars == <<doc, plans, applied, edits, raced>>

\* 0 stands for everything a plan captures and never writes.
Captured == 0..NumFiles
Outputs(i) == DOMAIN plans[i].after

Init ==
    /\ doc \in [Captured -> Version]
    /\ plans = <<>>
    /\ applied = {}
    /\ edits = 0
    /\ raced = FALSE

\* A plan captures the files as they are.
Prepare ==
    /\ \E after \in UNION {[S -> Version] : S \in SUBSET (1..NumFiles)} :
           plans' = Append(plans, [before |-> doc, after |-> after])
    /\ UNCHANGED <<doc, applied, edits, raced>>

\* A person or an ordinary command changes one file.
Edit ==
    /\ \E f \in Captured, v \in Version : doc' = [doc EXCEPT ![f] = v]
    /\ edits' = edits + 1
    /\ UNCHANGED <<plans, applied, raced>>

Apply(i) ==
    /\ i \notin applied
    /\ \A f \in Captured :
           \/ doc[f] = plans[i].before[f]
           \/ f \in Outputs(i) /\ doc[f] = plans[i].after[f]
    /\ doc' = [f \in Captured |-> IF f \in Outputs(i) THEN plans[i].after[f] ELSE doc[f]]
    /\ applied' = applied \cup {i}
    /\ UNCHANGED <<plans, edits, raced>>

Next == Prepare \/ Edit \/ \E i \in DOMAIN plans : Apply(i)

\* The rename cannot compare and swap: nothing is promised once it raced.
Spec == Init /\ [][Next \/ raced']_vars
=============================================================================
