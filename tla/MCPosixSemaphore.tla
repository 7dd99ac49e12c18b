---------------------------- MODULE MCPosixSemaphore ----------------------------
(***************************************************************************)
(* Model checking of PosixSemaphore: a second of three ticks, and timeouts   *)
(* shorter and longer than a second.                                       *)
(***************************************************************************)
EXTENDS PosixSemaphore

MCTimeouts == {2, 4}
===============================================================================
