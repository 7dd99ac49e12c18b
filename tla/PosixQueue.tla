------------------------------ MODULE PosixQueue ------------------------------
(***************************************************************************)
(* The queue of the POSIX adapter (adapter/posix/queue.c): a ring of       *)
(* pointers guarded by a mutex, and a condition variable on which a        *)
(* receiver waits while the ring is empty.                                 *)
(*                                                                         *)
(* A call is a sequence of steps of the calling thread, with the program   *)
(* counter pc; other threads may run between any two of them.  Time is     *)
(* abstracted: a timed wait may expire at any moment, and the only thing   *)
(* kept of the wall clock is its position inside the current second, which *)
(* decides whether the absolute deadline that Queue_Receive computes is a  *)
(* valid timespec.                                                         *)
(***************************************************************************)
EXTENDS Naturals, Sequences

CONSTANTS
  Producers,      \* threads that call Queue_Send
  Consumers,      \* threads that call Queue_Receive
  Messages,
  Size,           \* queueSize
  ONE_SEC,        \* ticks in a second (ONE_SEC_IN_NS at a coarser grain)
  Timeouts,       \* the timeouts callers pass, in ticks
  NULL

Threads == Producers \cup Consumers

ASSUME SizeAssumption == Size \in Nat \ {0}
ASSUME ClockAssumption == ONE_SEC \in Nat \ {0} /\ Timeouts \subseteq Nat
ASSUME NullAssumption == NULL \notin Messages /\ NULL \notin Threads

VARIABLES
  head,           \* index of the next slot to write
  tail,           \* index of the next slot to read
  nElements,
  messages,       \* the ring of message pointers; NULL until first written
  mutex,          \* the thread holding queue->mutex, or NULL
  pc,             \* where each thread is in Queue_Send or Queue_Receive
  arg,            \* arg[t]: the message thread t is sending
  ret,            \* ret[t]: ErrorCode of the last call of t
  out             \* out[t]: the caller's buffer for received messages

ring == <<head, tail, nElements, messages>>
vars == <<head, tail, nElements, messages, mutex, pc, arg, ret, out>>

Slots == 0 .. (Size - 1)

ErrorCodes == {"SUCCESS", "FAILURE", "ERROR_RESOURCE_NOT_AVAILABLE",
               "ERROR_TIMEOUT", "ERROR_OS"}

\* The control points between lock and unlock.
Locked == {"sendCheck", "sendAdvance", "recvCheck", "recvTake", "unlock"}

\* The control points of a thread that does not hold the mutex.
Unlocked == {"idle", "sendLock", "recvLock", "recvWait", "recvRelock",
             "recvTimedOut"}

\* The threads blocked in pthread_cond_timedwait.
Waiting == {t \in Consumers : pc[t] = "recvWait"}

-------------------------------------------------------------------------------
(* Queue_New: xcalloc leaves every counter 0 and every slot NULL.          *)
Init ==
  /\ head = 0
  /\ tail = 0
  /\ nElements = 0
  /\ messages = [i \in Slots |-> NULL]
  /\ mutex = NULL
  /\ pc = [t \in Threads |-> "idle"]
  /\ arg = [t \in Threads |-> NULL]
  /\ ret = [t \in Threads |-> NULL]
  /\ out = [t \in Threads |-> NULL]

\* Mutant of Lock: the critical section is entered without the mutex.
LockUnguarded(t, from, to) ==
  /\ pc[t] = from
  /\ mutex' = t
  /\ pc' = [pc EXCEPT ![t] = to]

\* pthread_mutex_lock by t: granted when no thread holds the mutex.
Lock(t, from, to) ==
  /\ pc[t] = from
  /\ mutex = NULL
  /\ mutex' = t
  /\ pc' = [pc EXCEPT ![t] = to]

\* Mutant of Error: the error path returns instead of jumping to the unlock.
ErrorReturns(t, e) ==
  /\ ret' = [ret EXCEPT ![t] = e]
  /\ pc' = [pc EXCEPT ![t] = "idle"]

\* The call of t fails with error e and jumps to the unlock.
Error(t, e) ==
  /\ ret' = [ret EXCEPT ![t] = e]
  /\ pc' = [pc EXCEPT ![t] = "unlock"]

\* pthread_mutex_lock returned an error: FAILURE, without the mutex.
LockFails(t) ==
  /\ pc[t] \in {"sendLock", "recvLock"}
  /\ ret' = [ret EXCEPT ![t] = "FAILURE"]
  /\ pc' = [pc EXCEPT ![t] = "idle"]
  /\ UNCHANGED <<ring, mutex, arg, out>>

Unlock(t) ==
  /\ pc[t] = "unlock"
  /\ mutex' = NULL
  /\ pc' = [pc EXCEPT ![t] = "idle"]
  /\ UNCHANGED <<ring, arg, ret, out>>

-------------------------------------------------------------------------------
\* Mutant of NextSlot: the index is not wrapped.
NextSlotUnwrapped(i) == i + 1

NextSlot(i) == (i + 1) % Size

\* Mutant of IsFull: off by one.
IsFullLate == nElements > Size

IsFull == nElements = Size

\* Mutant of Signals: the receiver is woken when the queue fills up.
SignalsWhenFull(n) == n = Size

\* The signal is given only by the send that makes the queue non-empty.
Signals(n) == n = 1

-------------------------------------------------------------------------------
(* Queue_Send                                                              *)

SendCall(t, m) ==
  /\ pc[t] = "idle"
  /\ arg' = [arg EXCEPT ![t] = m]
  /\ pc' = [pc EXCEPT ![t] = "sendLock"]
  /\ UNCHANGED <<ring, mutex, ret, out>>

SendLock(t) ==
  /\ Lock(t, "sendLock", "sendCheck")
  /\ UNCHANGED <<ring, arg, ret, out>>

SendFull(t) ==
  /\ pc[t] = "sendCheck"
  /\ IsFull
  /\ Error(t, "ERROR_RESOURCE_NOT_AVAILABLE")
  /\ UNCHANGED <<ring, mutex, arg, out>>

SendStore(t) ==
  /\ pc[t] = "sendCheck"
  /\ ~IsFull
  /\ messages' = [messages EXCEPT ![head] = arg[t]]
  /\ pc' = [pc EXCEPT ![t] = "sendAdvance"]
  /\ UNCHANGED <<head, tail, nElements, mutex, arg, ret, out>>

SendAdvance(t) ==
  /\ pc[t] = "sendAdvance"
  /\ head' = NextSlot(head)
  /\ nElements' = nElements + 1
  /\ \/ /\ Signals(nElements')
        /\ \E w \in Waiting :
             pc' = [pc EXCEPT ![t] = "unlock", ![w] = "recvRelock"]
     \/ /\ ~Signals(nElements') \/ Waiting = {}
        /\ pc' = [pc EXCEPT ![t] = "unlock"]
  /\ ret' = [ret EXCEPT ![t] = "SUCCESS"]
  /\ UNCHANGED <<tail, messages, mutex, arg, out>>

-------------------------------------------------------------------------------
(* Queue_Receive                                                           *)

\* tv_nsec of the deadline, for a call made `now` ticks into a second with a
\* timeout of `timeout` ticks: the carry is propagated while tv_nsec is
\* greater than a second.  The sum is below two seconds, so the loop of the
\* code runs at most once.
DeadlineNsec(now, timeout) ==
  LET nsec == now + (timeout % ONE_SEC)
  IN IF nsec > ONE_SEC THEN nsec - ONE_SEC ELSE nsec

\* pthread_cond_timedwait rejects a tv_nsec of a whole second with EINVAL.
ValidTimespec(nsec) == nsec < ONE_SEC

ReceiveCall(t) ==
  /\ pc[t] = "idle"
  /\ pc' = [pc EXCEPT ![t] = "recvLock"]
  /\ UNCHANGED <<ring, mutex, arg, ret, out>>

ReceiveLock(t) ==
  /\ Lock(t, "recvLock", "recvCheck")
  /\ UNCHANGED <<ring, arg, ret, out>>

\* The queue is empty: wait on the condition variable, which releases the
\* mutex, unless the deadline is not a valid timespec.
ReceiveWait(t) ==
  /\ pc[t] = "recvCheck"
  /\ nElements = 0
  /\ \E now \in 0 .. (ONE_SEC - 1), timeout \in Timeouts :
       \/ /\ ValidTimespec(DeadlineNsec(now, timeout))
          /\ mutex' = NULL
          /\ pc' = [pc EXCEPT ![t] = "recvWait"]
          /\ UNCHANGED ret
       \/ /\ ~ValidTimespec(DeadlineNsec(now, timeout))
          /\ Error(t, "ERROR_OS")
          /\ UNCHANGED mutex
  /\ UNCHANGED <<ring, arg, out>>

\* The wait ends with ETIMEDOUT.
WaitExpires(t) ==
  /\ pc[t] = "recvWait"
  /\ pc' = [pc EXCEPT ![t] = "recvTimedOut"]
  /\ UNCHANGED <<ring, mutex, arg, ret, out>>

\* The wait ends with 0 although nobody signalled, as POSIX allows.
SpuriousWakeup(t) ==
  /\ pc[t] = "recvWait"
  /\ pc' = [pc EXCEPT ![t] = "recvRelock"]
  /\ UNCHANGED <<ring, mutex, arg, ret, out>>

\* A wait that succeeded re-acquires the mutex, and there is no loop around it.
WaitReturns(t) ==
  /\ Lock(t, "recvRelock", "recvTake")
  /\ UNCHANGED <<ring, arg, ret, out>>

\* A wait that timed out re-acquires the mutex and gives up, whatever has been
\* sent in the meantime.
WaitTimesOut(t) ==
  /\ Lock(t, "recvTimedOut", "unlock")
  /\ ret' = [ret EXCEPT ![t] = "ERROR_TIMEOUT"]
  /\ UNCHANGED <<ring, arg, out>>

\* Holding the mutex, past the waiting part of the code.
PastWait(t) ==
  \/ pc[t] = "recvTake"
  \/ pc[t] = "recvCheck" /\ nElements # 0

ReceiveNothing(t) ==
  /\ PastWait(t)
  /\ nElements = 0
  /\ Error(t, "ERROR_TIMEOUT")
  /\ UNCHANGED <<ring, mutex, arg, out>>

ReceiveTake(t) ==
  /\ PastWait(t)
  /\ nElements # 0
  /\ out' = [out EXCEPT ![t] = messages[tail]]
  /\ nElements' = nElements - 1
  /\ tail' = NextSlot(tail)
  /\ ret' = [ret EXCEPT ![t] = "SUCCESS"]
  /\ pc' = [pc EXCEPT ![t] = "unlock"]
  /\ UNCHANGED <<head, messages, mutex, arg>>

-------------------------------------------------------------------------------
\* The steps of a call once it has been made.
SendStep(t) ==
  SendLock(t) \/ SendFull(t) \/ SendStore(t) \/ SendAdvance(t)

ReceiveStep(t) ==
  \/ ReceiveLock(t) \/ ReceiveWait(t) \/ WaitReturns(t) \/ WaitTimesOut(t)
  \/ ReceiveNothing(t) \/ ReceiveTake(t)

Next ==
  \/ \E t \in Producers : (\E m \in Messages : SendCall(t, m)) \/ SendStep(t)
  \/ \E t \in Consumers :
       ReceiveCall(t) \/ ReceiveStep(t) \/ WaitExpires(t) \/ SpuriousWakeup(t)
  \/ \E t \in Threads : LockFails(t) \/ Unlock(t)

Spec == Init /\ [][Next]_vars

(***************************************************************************)
(* Every thread is scheduled, every timed wait expires, and no thread is   *)
(* passed over for ever when the mutex is free again and again.  Nobody is *)
(* obliged to make a call, and neither a spurious wakeup nor a failure of  *)
(* pthread_mutex_lock is ever owed.                                        *)
(***************************************************************************)
Fairness ==
  /\ \A t \in Producers : SF_vars(SendStep(t))
  /\ \A t \in Consumers : SF_vars(ReceiveStep(t)) /\ WF_vars(WaitExpires(t))
  /\ \A t \in Threads : WF_vars(Unlock(t))

FairSpec == Spec /\ Fairness
-------------------------------------------------------------------------------
(* Properties                                                              *)

\* The values of the variables.  The ring indices stay inside the ring and
\* nElements inside 0..size, however often the indices wrap around.
TypeOK ==
  /\ head \in Slots
  /\ tail \in Slots
  /\ nElements \in 0 .. Size
  /\ messages \in [Slots -> Messages \cup {NULL}]
  /\ mutex \in Threads \cup {NULL}
  /\ pc \in [Threads -> Locked \cup Unlocked]
  /\ arg \in [Threads -> Messages \cup {NULL}]
  /\ ret \in [Threads -> ErrorCodes \cup {NULL}]
  /\ out \in [Threads -> Messages \cup {NULL}]

\* A thread is between pthread_mutex_lock and pthread_mutex_unlock exactly
\* when it owns the mutex: every path of Queue_Send and Queue_Receive, the
\* error paths and the wait in the middle of Queue_Receive included, takes it
\* before touching the queue and gives it back.
MutexOwned == \A t \in Threads : pc[t] \in Locked <=> mutex = t

\* The slot of the i-th oldest message, and the messages in that order.
SlotOf(i) == (tail + (i - 1)) % Size
Contents == [i \in 1 .. nElements |-> messages[SlotOf(i)]]

\* head is nElements slots after tail, and every slot in between has been
\* written by a sender: no receiver is ever handed a pointer that the zeroed
\* array of Queue_New still holds.
RingConsistent ==
  /\ head = (tail + nElements) % Size
  /\ \A i \in 1 .. nElements : messages[SlotOf(i)] \in Messages

\* With one consumer (the task of the service that owns the queue), signalling
\* only on the transition from empty to non-empty loses no wakeup: a consumer
\* still asleep on the condition variable has nothing to receive.
NoLostWakeup ==
  (\A c, d \in Consumers : c = d) => (Waiting # {} => nElements = 0)

BQ == INSTANCE BoundedQueue WITH fifo <- Contents

\* The ring under its mutex implements the bounded FIFO that adapter/queue.h
\* promises: messages come out once, in the order they were accepted, a send
\* is refused only when the queue is full, and a failed call leaves the
\* messages alone.
ImplementsBoundedQueue == BQ!Spec

\* Every call returns, a thread being out of the queue again and again: no path
\* leaves the mutex locked, and a receiver does not sleep past its timeout even
\* when it missed the signal.
CallsReturn == \A t \in Threads : []<>(pc[t] = "idle")

\* adapter/queue.h says of Queue_Receive that it is "waiting for maximum
\* timeoutMs before returning a FAILURE if no message is available": a receive
\* of an empty queue waits.  ERROR_OS is the one result of a receive that
\* found the queue empty and did not wait.
EmptyReceiveWaits == \A t \in Consumers : ret[t] # "ERROR_OS"
===============================================================================
