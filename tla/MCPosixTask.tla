-------------------------------- MODULE MCPosixTask --------------------------------
(***************************************************************************)
(* Model checking of PosixTask: more tasks than entries, and memory that   *)
(* is used again: the allocator gives a freed address before another.      *)
(***************************************************************************)
EXTENDS PosixTask

MCMalloc(S) == IF S = {} THEN {} ELSE {CHOOSE a \in S : \A b \in S : a <= b}
===============================================================================
