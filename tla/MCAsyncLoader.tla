--------------------------- MODULE MCAsyncLoader ---------------------------
(* AsyncLoader on a few objects: the urgent ones load at priority high, the  *)
(* others at priority medium.                                                *)
EXTENDS AsyncLoader, TLC

CONSTANT Urgent

MCPriority == [o \in Objects |-> IF o \in Urgent THEN 0 ELSE 1]

(* The threads of one role are interchangeable. *)
ThreadSymmetry == Permutations(Workers) \cup Permutations(Clients)

=============================================================================
