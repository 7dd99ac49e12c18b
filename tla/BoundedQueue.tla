----------------------------- MODULE BoundedQueue -----------------------------
(***************************************************************************)
(* What adapter/queue.h promises of a queue, whichever adapter implements  *)
(* it: a FIFO of at most Size messages on which every call of Queue_Send   *)
(* and Queue_Receive takes effect at one instant, or fails and leaves the  *)
(* messages alone.  A send is refused for want of room only when the queue *)
(* is full; a receive may fail at any time, because the message it missed  *)
(* may arrive just after its timeout.                                      *)
(***************************************************************************)
EXTENDS Naturals, Sequences

CONSTANTS
  Threads,    \* the threads that call the queue
  Messages,   \* the values a message may have
  Size,       \* queueSize of Queue_New
  NULL

VARIABLES
  fifo,       \* the messages in the queue, oldest first
  ret,        \* ret[t]: ErrorCode of the last call of t, NULL before the first
  out         \* out[t]: the buffer thread t passes to Queue_Receive

vars == <<fifo, ret, out>>

\* The error codes a call may return without having touched the messages.
Failures == {"FAILURE", "ERROR_TIMEOUT", "ERROR_OS"}

Init ==
  /\ fifo = <<>>
  /\ ret = [t \in Threads |-> NULL]
  /\ out = [t \in Threads |-> NULL]

Send(t, m) ==
  /\ Len(fifo) < Size
  /\ fifo' = Append(fifo, m)
  /\ ret' = [ret EXCEPT ![t] = "SUCCESS"]
  /\ UNCHANGED out

SendRefused(t) ==
  /\ Len(fifo) = Size
  /\ ret' = [ret EXCEPT ![t] = "ERROR_RESOURCE_NOT_AVAILABLE"]
  /\ UNCHANGED <<fifo, out>>

Receive(t) ==
  /\ fifo # <<>>
  /\ fifo' = Tail(fifo)
  /\ out' = [out EXCEPT ![t] = Head(fifo)]
  /\ ret' = [ret EXCEPT ![t] = "SUCCESS"]

Fail(t) ==
  /\ \E e \in Failures : ret' = [ret EXCEPT ![t] = e]
  /\ UNCHANGED <<fifo, out>>

Next ==
  \E t \in Threads :
    \/ \E m \in Messages : Send(t, m)
    \/ SendRefused(t)
    \/ Receive(t)
    \/ Fail(t)

Spec == Init /\ [][Next]_vars

===============================================================================
