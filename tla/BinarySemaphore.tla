---------------------------- MODULE BinarySemaphore ----------------------------
(***************************************************************************)
(* What adapter/semaphore.h offers, whichever adapter implements it: a     *)
(* token that Semaphore_Give puts back, if it is not there, and that at    *)
(* most one Semaphore_Take gets.  A take may fail at any time: the token   *)
(* may arrive just after its timeout.                                      *)
(***************************************************************************)
CONSTANTS Takers, NULL

VARIABLES
  available,      \* the token is there
  ret             \* ret[t]: ErrorCode of the last Semaphore_Take of t

vars == <<available, ret>>

Init ==
  /\ available = FALSE
  /\ ret = [t \in Takers |-> NULL]

Give ==
  /\ available' = TRUE
  /\ UNCHANGED ret

Take(t) ==
  /\ available
  /\ available' = FALSE
  /\ ret' = [ret EXCEPT ![t] = "SUCCESS"]

Fail(t) ==
  /\ ret' = [ret EXCEPT ![t] = "ERROR_TIMEOUT"]
  /\ UNCHANGED available

Next == Give \/ \E t \in Takers : Take(t) \/ Fail(t)

Spec == Init /\ [][Next]_vars
===============================================================================
