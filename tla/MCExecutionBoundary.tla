------------------------- MODULE MCExecutionBoundary -------------------------
(***************************************************************************)
(* Small instances of ExecutionBoundary: a dashboard, an e-mail, and two   *)
(* joins that differ only in an attempt number and therefore present the   *)
(* same two branch capabilities under different digests.                   *)
(***************************************************************************)
EXTENDS ExecutionBoundary, TLC

CONSTANTS t1, t2, dash, mail, join1, join2, a, b

MCKind == [c \in Calls |->
  CASE c \in {join1, join2} -> "stateful" [] c = mail -> "arcade" [] OTHER -> "dashboard"]
MCNeeds == [c \in Calls |-> IF c \in {join1, join2} THEN {a, b} ELSE {}]
MCAllowed == [m \in AllModes |-> Calls]
Symmetry == Permutations(Threads)
=============================================================================
