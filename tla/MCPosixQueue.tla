----------------------------- MODULE MCPosixQueue -----------------------------
(* Instances of PosixQueue for TLC.                                          *)
EXTENDS PosixQueue

\* A second is four ticks of 250 ms.  The services of the firmware receive
\* with timeouts of 500 ms (CORE) and 1000 ms (HMI).
MCTimeouts == {2, 4}
===============================================================================
