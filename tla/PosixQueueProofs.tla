--------------------------- MODULE PosixQueueProofs ---------------------------
(***************************************************************************)
(* Proofs about PosixQueue, for any ring size, any set of messages and any *)
(* number of producers and consumers.                                      *)
(***************************************************************************)
EXTENDS PosixQueue, SequenceTheorems, TLAPS

\* The actions of Next, under one name each (Threads that may take it apart).
Step(t) ==
  \/ \E m \in Messages : SendCall(t, m)
  \/ SendLock(t) \/ SendFull(t) \/ SendStore(t) \/ SendAdvance(t)
  \/ ReceiveCall(t) \/ ReceiveLock(t) \/ ReceiveWait(t) \/ WaitExpires(t)
  \/ SpuriousWakeup(t) \/ WaitReturns(t) \/ WaitTimesOut(t)
  \/ ReceiveNothing(t) \/ ReceiveTake(t)
  \/ LockFails(t) \/ Unlock(t)

\* What a sender has established when it reaches the point pc[t]: its argument
\* is a message, and once it has stored it there is room for it to count.
SendsPrepared ==
  \A t \in Threads :
    /\ pc[t] \in {"sendLock", "sendCheck"} => arg[t] \in Messages
    /\ pc[t] = "sendAdvance" => nElements < Size /\ messages[head] \in Messages

IndInv == TypeOK /\ MutexOwned /\ RingConsistent /\ SendsPrepared

-------------------------------------------------------------------------------
\* Every step of the specification is a step of some thread.
LEMMA NextIsStep == Next => \E t \in Threads : Step(t)
  BY DEF Next, Step, Threads, SendStep, ReceiveStep

\* Indices modulo the ring size: what (i + n) % size is when i is an index and
\* n at most the size, as in the arithmetic of Queue_Send and Queue_Receive.
LEMMA Modulo ==
  ASSUME NEW i \in Slots, NEW n \in 0 .. Size
  PROVE  /\ (i + n) % Size = IF i + n < Size THEN i + n ELSE i + n - Size
         /\ (i + n) % Size \in Slots
  BY SizeAssumption DEF Slots

\* The index after i.
LEMMA NextSlotValue ==
  ASSUME NEW i \in Slots
  PROVE  /\ NextSlot(i) = IF i + 1 = Size THEN 0 ELSE i + 1
         /\ NextSlot(i) \in Slots
  BY SizeAssumption DEF Slots, NextSlot

\* Advancing an index adds one modulo the ring size.
LEMMA NextSlotModulo ==
  ASSUME NEW i \in Slots, NEW n \in 0 .. Size
  PROVE  /\ n < Size => NextSlot((i + n) % Size) = (i + (n + 1)) % Size
         /\ n > 0 => (NextSlot(i) + (n - 1)) % Size = (i + n) % Size
<1> USE SizeAssumption
<1>1. ASSUME n < Size
      PROVE  NextSlot((i + n) % Size) = (i + (n + 1)) % Size
  <2>1. (i + n) % Size = IF i + n < Size THEN i + n ELSE i + n - Size
    BY Modulo
  <2>2. (i + (n + 1)) % Size = IF i + (n + 1) < Size THEN i + (n + 1)
                                                     ELSE i + (n + 1) - Size
    BY <1>1, Modulo
  <2>3. NextSlot((i + n) % Size) = IF ((i + n) % Size) + 1 = Size
                                     THEN 0 ELSE ((i + n) % Size) + 1
    BY Modulo, NextSlotValue
  <2> QED  BY <1>1, <2>1, <2>2, <2>3 DEF Slots
<1>2. ASSUME n > 0
      PROVE  (NextSlot(i) + (n - 1)) % Size = (i + n) % Size
  <2>1. (i + n) % Size = IF i + n < Size THEN i + n ELSE i + n - Size
    BY Modulo
  <2>2. NextSlot(i) = (IF i + 1 = Size THEN 0 ELSE i + 1) /\ NextSlot(i) \in Slots
    BY NextSlotValue
  <2>3. (NextSlot(i) + (n - 1)) % Size
          = IF NextSlot(i) + (n - 1) < Size THEN NextSlot(i) + (n - 1)
                                            ELSE NextSlot(i) + (n - 1) - Size
    BY <1>2, <2>2, Modulo
  <2> QED  BY <1>2, <2>1, <2>2, <2>3 DEF Slots
<1> QED  BY <1>1, <1>2

\* Slots less than a whole lap apart are different.
LEMMA SlotsDiffer ==
  ASSUME NEW i \in Slots, NEW n \in 0 .. (Size - 1), NEW j \in 1 .. n
  PROVE  (i + (j - 1)) % Size # (i + n) % Size
<1>1. (i + n) % Size = IF i + n < Size THEN i + n ELSE i + n - Size
  BY SizeAssumption, Modulo
<1>2. (i + (j - 1)) % Size = IF i + (j - 1) < Size THEN i + (j - 1)
                                                   ELSE i + (j - 1) - Size
  BY SizeAssumption, Modulo
<1> QED  BY SizeAssumption, <1>1, <1>2 DEF Slots

-------------------------------------------------------------------------------
\* Type correctness is preserved by every step of a thread.
LEMMA TypeStep ==
  ASSUME IndInv, NEW t \in Threads, Step(t)
  PROVE  TypeOK'
<1> USE SizeAssumption DEF IndInv, TypeOK, Slots, Locked, Unlocked, ErrorCodes, ring
<1>1. CASE \E m \in Messages : SendCall(t, m)
  BY <1>1 DEF SendCall
<1>2. CASE SendLock(t)
  BY <1>2 DEF SendLock, Lock
<1>3. CASE SendFull(t)
  BY <1>3 DEF SendFull, Error
<1>4. CASE SendStore(t)
  BY <1>4 DEF SendStore, SendsPrepared
<1>5. CASE SendAdvance(t)
  <2>1. head' \in Slots
    BY <1>5, NextSlotValue DEF SendAdvance
  <2>2. nElements' \in 0 .. Size
    BY <1>5 DEF SendAdvance, SendsPrepared
  <2>3. pc' \in [Threads -> Locked \cup Unlocked]
    BY <1>5 DEF SendAdvance
  <2> QED  BY <1>5, <2>1, <2>2, <2>3 DEF SendAdvance
<1>6. CASE ReceiveCall(t)
  BY <1>6 DEF ReceiveCall
<1>7. CASE ReceiveLock(t)
  BY <1>7 DEF ReceiveLock, Lock
<1>8. CASE ReceiveWait(t)
  BY <1>8 DEF ReceiveWait, Error
<1>9. CASE WaitExpires(t)
  BY <1>9 DEF WaitExpires
<1>10. CASE SpuriousWakeup(t)
  BY <1>10 DEF SpuriousWakeup
<1>11. CASE WaitReturns(t)
  BY <1>11 DEF WaitReturns, Lock
<1>12. CASE WaitTimesOut(t)
  BY <1>12 DEF WaitTimesOut, Lock
<1>13. CASE ReceiveNothing(t)
  BY <1>13 DEF ReceiveNothing, Error
<1>14. CASE ReceiveTake(t)
  <2>1. tail' \in Slots
    BY <1>14, NextSlotValue DEF ReceiveTake
  <2>2. nElements' \in 0 .. Size
    BY <1>14 DEF ReceiveTake
  <2> QED  BY <1>14, <2>1, <2>2 DEF ReceiveTake
<1>15. CASE LockFails(t)
  BY <1>15 DEF LockFails
<1>16. CASE Unlock(t)
  BY <1>16 DEF Unlock
<1> QED
  BY <1>1, <1>2, <1>3, <1>4, <1>5, <1>6, <1>7, <1>8, <1>9, <1>10, <1>11,
     <1>12, <1>13, <1>14, <1>15, <1>16 DEF Step

-------------------------------------------------------------------------------
\* The mutex is held exactly between lock and unlock: a step of t changes the
\* control point of t, and of at most one sleeping consumer, which stays
\* outside the critical section.
LEMMA MutexStep ==
  ASSUME IndInv, NEW t \in Threads, Step(t)
  PROVE  MutexOwned'
<1> USE NullAssumption DEF IndInv, TypeOK, MutexOwned, Locked, Unlocked
<1>1. CASE \E m \in Messages : SendCall(t, m)
  BY <1>1 DEF SendCall
<1>2. CASE SendLock(t)
  BY <1>2 DEF SendLock, Lock
<1>3. CASE SendFull(t)
  BY <1>3 DEF SendFull, Error
<1>4. CASE SendStore(t)
  BY <1>4 DEF SendStore
<1>5. CASE SendAdvance(t)
  BY <1>5 DEF SendAdvance, Waiting
<1>6. CASE ReceiveCall(t)
  BY <1>6 DEF ReceiveCall
<1>7. CASE ReceiveLock(t)
  BY <1>7 DEF ReceiveLock, Lock
<1>8. CASE ReceiveWait(t)
  BY <1>8 DEF ReceiveWait, Error
<1>9. CASE WaitExpires(t)
  BY <1>9 DEF WaitExpires
<1>10. CASE SpuriousWakeup(t)
  BY <1>10 DEF SpuriousWakeup
<1>11. CASE WaitReturns(t)
  BY <1>11 DEF WaitReturns, Lock
<1>12. CASE WaitTimesOut(t)
  BY <1>12 DEF WaitTimesOut, Lock
<1>13. CASE ReceiveNothing(t)
  BY <1>13 DEF ReceiveNothing, Error, PastWait
<1>14. CASE ReceiveTake(t)
  BY <1>14 DEF ReceiveTake, PastWait
<1>15. CASE LockFails(t)
  BY <1>15 DEF LockFails
<1>16. CASE Unlock(t)
  BY <1>16 DEF Unlock
<1> QED
  BY <1>1, <1>2, <1>3, <1>4, <1>5, <1>6, <1>7, <1>8, <1>9, <1>10, <1>11,
     <1>12, <1>13, <1>14, <1>15, <1>16 DEF Step

\* The ring stays consistent.  Three steps touch it: the store, which writes
\* the one slot outside it, and the two that move its ends.
LEMMA RingStep ==
  ASSUME IndInv, NEW t \in Threads, Step(t)
  PROVE  RingConsistent'
<1> USE SizeAssumption DEF IndInv, TypeOK
<1>1. CASE SendStore(t)
  <2>1. nElements \in 0 .. (Size - 1)
    BY <1>1 DEF SendStore, IsFull
  <2>2. ASSUME NEW i \in 1 .. nElements
        PROVE  SlotOf(i) # head /\ SlotOf(i) \in Slots
    <3>1. SlotOf(i) # (tail + nElements) % Size
      BY <2>1, SlotsDiffer DEF SlotOf
    <3>2. i - 1 \in 0 .. Size
      BY <2>1
    <3>3. SlotOf(i) \in Slots
      BY <3>2, Modulo DEF SlotOf
    <3> QED  BY <3>1, <3>3 DEF RingConsistent
  <2> QED
    BY <1>1, <2>2 DEF SendStore, RingConsistent, SlotOf
<1>2. CASE SendAdvance(t)
  <2>1. /\ nElements < Size /\ messages[head] \in Messages
        /\ nElements' = nElements + 1 /\ head' = NextSlot(head)
        /\ UNCHANGED <<tail, messages>>
    BY <1>2 DEF SendAdvance, SendsPrepared
  <2>2. head' = (tail + nElements') % Size
    BY <2>1, NextSlotModulo DEF RingConsistent
  <2>3. SlotOf(nElements + 1) = head
    BY <2>1 DEF RingConsistent, SlotOf
  <2>4. ASSUME NEW i \in 1 .. nElements'
        PROVE  messages'[SlotOf(i)'] \in Messages
    <3>1. SlotOf(i)' = SlotOf(i)
      BY <2>1 DEF SlotOf
    <3>2. i \in 1 .. nElements \/ i = nElements + 1
      BY <2>1
    <3> QED  BY <2>1, <2>3, <3>1, <3>2 DEF RingConsistent
  <2> QED  BY <2>1, <2>2, <2>4 DEF RingConsistent
<1>3. CASE ReceiveTake(t)
  <2>1. /\ nElements > 0 /\ nElements' = nElements - 1
        /\ tail' = NextSlot(tail) /\ UNCHANGED <<head, messages>>
    BY <1>3 DEF ReceiveTake
  <2>2. head = (tail' + nElements') % Size
    BY <2>1, NextSlotModulo DEF RingConsistent
  <2>3. ASSUME NEW i \in 1 .. nElements'
        PROVE  messages'[SlotOf(i)'] \in Messages
    <3>1. SlotOf(i)' = SlotOf(i + 1)
      BY <2>1, NextSlotModulo DEF SlotOf
    <3> QED  BY <2>1, <3>1 DEF RingConsistent
  <2> QED  BY <2>1, <2>2, <2>3 DEF RingConsistent
<1>4. CASE UNCHANGED ring
  BY <1>4 DEF ring, RingConsistent, SlotOf
<1> QED
  BY <1>1, <1>2, <1>3, <1>4
  DEF Step, SendCall, SendLock, SendFull, ReceiveCall, ReceiveLock, ReceiveWait,
      WaitExpires, SpuriousWakeup, WaitReturns, WaitTimesOut, ReceiveNothing,
      LockFails, Unlock

\* A sender keeps what it has established: no other thread can change the ring
\* while it holds the mutex.
LEMMA PreparedStep ==
  ASSUME IndInv, NEW t \in Threads, Step(t)
  PROVE  SendsPrepared'
<1> USE SizeAssumption, NullAssumption
    DEF IndInv, TypeOK, MutexOwned, SendsPrepared, Locked, Unlocked, ring
<1>1. CASE \E m \in Messages : SendCall(t, m)
  BY <1>1 DEF SendCall
<1>2. CASE SendLock(t)
  BY <1>2 DEF SendLock, Lock
<1>3. CASE SendFull(t)
  BY <1>3 DEF SendFull, Error
<1>4. CASE SendStore(t)
  BY <1>4 DEF SendStore, IsFull
<1>5. CASE SendAdvance(t)
  BY <1>5 DEF SendAdvance, Waiting
<1>6. CASE ReceiveCall(t)
  BY <1>6 DEF ReceiveCall
<1>7. CASE ReceiveLock(t)
  BY <1>7 DEF ReceiveLock, Lock
<1>8. CASE ReceiveWait(t)
  BY <1>8 DEF ReceiveWait, Error
<1>9. CASE WaitExpires(t)
  BY <1>9 DEF WaitExpires
<1>10. CASE SpuriousWakeup(t)
  BY <1>10 DEF SpuriousWakeup
<1>11. CASE WaitReturns(t)
  BY <1>11 DEF WaitReturns, Lock
<1>12. CASE WaitTimesOut(t)
  BY <1>12 DEF WaitTimesOut, Lock
<1>13. CASE ReceiveNothing(t)
  BY <1>13 DEF ReceiveNothing, Error, PastWait
<1>14. CASE ReceiveTake(t)
  BY <1>14 DEF ReceiveTake, PastWait
<1>15. CASE LockFails(t)
  BY <1>15 DEF LockFails
<1>16. CASE Unlock(t)
  BY <1>16 DEF Unlock
<1> QED
  BY <1>1, <1>2, <1>3, <1>4, <1>5, <1>6, <1>7, <1>8, <1>9, <1>10, <1>11,
     <1>12, <1>13, <1>14, <1>15, <1>16 DEF Step

\* The inductive invariant of the ring and its mutex.
THEOREM Invariance == Spec => []IndInv
<1>1. Init => IndInv
  <2> SUFFICES ASSUME Init PROVE IndInv
    OBVIOUS
  <2>1. TypeOK /\ MutexOwned /\ SendsPrepared
    BY SizeAssumption, NullAssumption
    DEF Init, TypeOK, MutexOwned, SendsPrepared, Slots, Locked, Unlocked
  <2>2. RingConsistent
    BY SizeAssumption DEF Init, RingConsistent
  <2> QED  BY <2>1, <2>2 DEF IndInv
<1>2. IndInv /\ [Next]_vars => IndInv'
  <2> SUFFICES ASSUME IndInv, [Next]_vars PROVE IndInv'
    OBVIOUS
  <2>1. CASE Next
    <3>1. PICK t \in Threads : Step(t)
      BY <2>1, NextIsStep
    <3> QED
      BY <3>1, TypeStep, MutexStep, RingStep, PreparedStep DEF IndInv
  <2>2. CASE UNCHANGED vars
    BY <2>2 DEF vars, IndInv, TypeOK, MutexOwned, RingConsistent, SlotOf,
                SendsPrepared
  <2> QED  BY <2>1, <2>2
<1> QED
  BY <1>1, <1>2, PTL DEF Spec

\* The type invariant of the queue.
THEOREM TypeCorrect == Spec => []TypeOK
  BY Invariance, PTL DEF IndInv

\* Every path through Queue_Send and Queue_Receive holds the mutex exactly
\* between its lock and its unlock.
THEOREM MutexHeld == Spec => []MutexOwned
  BY Invariance, PTL DEF IndInv

\* The ring is consistent after every step of any number of threads, for every
\* size: its ends are nElements apart and every occupied slot has been written.
THEOREM RingIsConsistent == Spec => []RingConsistent
  BY Invariance, PTL DEF IndInv

-------------------------------------------------------------------------------
\* A queue with a single consumer loses no wakeup: the send that makes it
\* non-empty wakes the only thread that can be asleep, and a thread goes to
\* sleep only on an empty queue, under the mutex.
THEOREM NoLostWakeups == Spec => []NoLostWakeup
<1>1. Init => NoLostWakeup
  BY DEF Init, NoLostWakeup
<1>2. IndInv /\ NoLostWakeup /\ [Next]_vars => NoLostWakeup'
  <2> SUFFICES ASSUME IndInv, NoLostWakeup, [Next]_vars,
                      \A c, d \in Consumers : c = d,
                      NEW w \in Consumers, pc'[w] = "recvWait"
               PROVE  nElements' = 0
    BY DEF NoLostWakeup, Waiting
  <2> w \in Threads
    BY DEF Threads
  <2> USE DEF IndInv, TypeOK, ring
  <2>1. CASE pc[w] = "recvWait" /\ nElements' = nElements
    BY <2>1 DEF NoLostWakeup, Waiting
  <2>2. CASE UNCHANGED vars
    BY <2>2 DEF vars, NoLostWakeup, Waiting
  <2>3. CASE Next
    <3>1. PICK t \in Threads : Step(t)
      BY <2>3, NextIsStep
    <3>2. CASE SendAdvance(t)
      <4>1. pc[w] = "recvWait"
        BY <3>2 DEF SendAdvance
      <4>2. w \in Waiting /\ nElements = 0
        BY <4>1 DEF NoLostWakeup, Waiting
      <4>3. pc'[w] = "recvRelock"
        BY <3>2, <4>2 DEF SendAdvance, Signals, Waiting
      <4> QED  BY <4>3
    <3>3. CASE ReceiveWait(t)
      BY <2>1, <3>3 DEF ReceiveWait, Error
    <3>4. CASE ReceiveTake(t)
      <4>1. pc[w] = "recvWait"
        BY <3>4 DEF ReceiveTake
      <4> QED  BY <3>4, <4>1 DEF ReceiveTake, NoLostWakeup, Waiting
    <3>5. CASE (\E m \in Messages : SendCall(t, m)) \/ SendLock(t) \/ SendFull(t)
                 \/ SendStore(t)
      BY <2>1, <3>5 DEF SendCall, SendLock, Lock, SendFull, Error, SendStore
    <3>6. CASE ReceiveCall(t) \/ ReceiveLock(t) \/ WaitExpires(t) \/ SpuriousWakeup(t)
      BY <2>1, <3>6 DEF ReceiveCall, ReceiveLock, Lock, WaitExpires, SpuriousWakeup
    <3>7. CASE WaitReturns(t) \/ WaitTimesOut(t) \/ ReceiveNothing(t)
                 \/ LockFails(t) \/ Unlock(t)
      BY <2>1, <3>7 DEF WaitReturns, WaitTimesOut, Lock, ReceiveNothing, Error,
                        LockFails, Unlock
    <3> QED
      BY <3>1, <3>2, <3>3, <3>4, <3>5, <3>6, <3>7 DEF Step
  <2> QED  BY <2>2, <2>3
<1> QED
  BY <1>1, <1>2, Invariance, PTL DEF Spec

-------------------------------------------------------------------------------
(***************************************************************************)
(* Refinement: the ring implements the bounded FIFO.                       *)
(***************************************************************************)

\* The contents of a consistent ring are a sequence of messages as long as
\* nElements.
LEMMA ContentsIsSeq ==
  ASSUME IndInv
  PROVE  /\ Contents \in Seq(Messages)
         /\ Len(Contents) = nElements
         /\ DOMAIN Contents = 1 .. nElements
         /\ \A i \in 1 .. nElements : Contents[i] = messages[SlotOf(i)]
<1>1. \A i \in 1 .. nElements : messages[SlotOf(i)] \in Messages
  BY DEF IndInv, RingConsistent
<1>2. nElements \in Nat
  BY SizeAssumption DEF IndInv, TypeOK
<1> QED
  BY <1>1, <1>2 DEF Contents

\* Writing the slot at head does not change what the ring contains.
LEMMA StoreKeepsContents ==
  ASSUME IndInv, NEW t \in Threads, SendStore(t)
  PROVE  Contents' = Contents
<1> USE SizeAssumption DEF IndInv, TypeOK
<1>1. nElements \in 0 .. (Size - 1) /\ UNCHANGED <<tail, nElements>>
  BY DEF SendStore, IsFull
<1>2. ASSUME NEW i \in 1 .. nElements
      PROVE  messages'[SlotOf(i)'] = messages[SlotOf(i)]
  <2>1. SlotOf(i)' = SlotOf(i)
    BY <1>1 DEF SlotOf
  <2>2. SlotOf(i) # head
    BY <1>1, SlotsDiffer DEF SlotOf, RingConsistent
  <2> QED  BY <2>1, <2>2 DEF SendStore
<1> QED  BY <1>1, <1>2 DEF Contents

\* Advancing the head appends the message just stored.
LEMMA AdvanceAppends ==
  ASSUME IndInv, NEW t \in Threads, SendAdvance(t)
  PROVE  /\ Contents' = Append(Contents, messages[head])
         /\ messages[head] \in Messages
         /\ Len(Contents) < Size
<1> USE SizeAssumption DEF IndInv, TypeOK
<1>1. /\ nElements \in Nat /\ nElements < Size /\ nElements' = nElements + 1
      /\ messages[head] \in Messages
      /\ UNCHANGED <<tail, messages>>
  BY DEF SendAdvance, SendsPrepared
<1>2. SlotOf(nElements + 1) = head
  BY <1>1 DEF RingConsistent, SlotOf
<1>3. \A i \in 1 .. (nElements + 1) : messages'[SlotOf(i)'] = messages[SlotOf(i)]
  BY <1>1 DEF SlotOf
<1>4. Contents' = [i \in 1 .. (nElements + 1) |-> messages[SlotOf(i)]]
  BY <1>1, <1>3 DEF Contents
<1>5. Append(Contents, messages[head])
        = [i \in 1 .. (nElements + 1) |-> IF i = nElements + 1 THEN messages[head]
                                                             ELSE Contents[i]]
  BY <1>1, ContentsIsSeq
<1> QED  BY <1>1, <1>2, <1>4, <1>5, ContentsIsSeq

\* A sequence that holds the elements of another but its first is its tail.
LEMMA TailByElements ==
  ASSUME NEW S, NEW s \in Seq(S), NEW u \in Seq(S), s # <<>>,
         Len(u) = Len(s) - 1, \A i \in 1 .. Len(u) : u[i] = s[i + 1]
  PROVE  u = Tail(s)
<1>1. Tail(s) \in Seq(S) /\ Len(Tail(s)) = Len(u)
  BY HeadTailProperties
<1>2. \A i \in 1 .. Len(u) : u[i] = Tail(s)[i]
  BY HeadTailProperties
<1> QED  BY <1>1, <1>2, SeqEqual

\* Taking a message returns the head of the contents and leaves their tail.
LEMMA TakeRemovesHead ==
  ASSUME IndInv, NEW t \in Threads, ReceiveTake(t)
  PROVE  /\ Contents # <<>>
         /\ Contents' = Tail(Contents)
         /\ messages[tail] = Head(Contents)
<1> USE SizeAssumption DEF IndInv, TypeOK
<1>1. /\ nElements \in 1 .. Size /\ nElements' = nElements - 1
      /\ tail' = NextSlot(tail) /\ UNCHANGED messages
  BY DEF ReceiveTake
<1>2. SlotOf(1) = tail
  BY DEF SlotOf, Slots
<1>3. ASSUME NEW i \in 1 .. (nElements - 1)
      PROVE  SlotOf(i)' = SlotOf(i + 1)
  BY <1>1, NextSlotModulo DEF SlotOf
<1>4. Contents' = [i \in 1 .. (nElements - 1) |-> messages[SlotOf(i + 1)]]
  BY <1>1, <1>3 DEF Contents
<1>5. /\ Contents \in Seq(Messages) /\ Len(Contents) = nElements
      /\ \A i \in 1 .. nElements : Contents[i] = messages[SlotOf(i)]
  BY ContentsIsSeq
<1>6. Contents # <<>> /\ Head(Contents) = Contents[1]
  BY <1>1, <1>5
<1>7. \A i \in 1 .. (nElements - 1) : messages[SlotOf(i + 1)] \in Messages
  BY <1>1 DEF RingConsistent
<1>8. /\ Contents' \in Seq(Messages) /\ Len(Contents') = nElements - 1
      /\ \A i \in 1 .. (nElements - 1) : Contents'[i] = messages[SlotOf(i + 1)]
  BY <1>1, <1>4, <1>7
<1>9. \A i \in 1 .. (nElements - 1) : Contents'[i] = Contents[i + 1]
  BY <1>1, <1>5, <1>8
<1>10. Contents' = Tail(Contents)
  <2> HIDE DEF IndInv, TypeOK
  <2> QED  BY <1>5, <1>6, <1>8, <1>9, TailByElements
<1>11. Contents[1] = messages[SlotOf(1)]
  BY <1>1, <1>5
<1> QED  BY <1>2, <1>6, <1>10, <1>11

\* A step that leaves the ring, the results and the buffers alone is a
\* stuttering step of the abstract queue.
LEMMA QuietStep ==
  ASSUME UNCHANGED <<ring, ret, out>>
  PROVE  UNCHANGED BQ!vars
<1>1. Contents' = Contents
  BY DEF ring, Contents, SlotOf
<1> QED  BY <1>1 DEF BQ!vars

\* A step that leaves the ring and the buffers alone and reports a failure is a
\* failed call of the abstract queue.
LEMMA FailingStep ==
  ASSUME NEW t \in Threads, UNCHANGED <<ring, out>>,
         NEW e \in {"FAILURE", "ERROR_TIMEOUT", "ERROR_OS"},
         ret' = [ret EXCEPT ![t] = e]
  PROVE  BQ!Next
<1>1. Contents' = Contents
  BY DEF ring, Contents, SlotOf
<1>2. BQ!Fail(t)
  BY <1>1 DEF BQ!Fail, BQ!Failures
<1> QED  BY <1>2 DEF BQ!Next

\* Every step of the ring maps to a step or a stutter of the abstract queue: a
\* send takes effect where nElements is incremented, a receive where it is
\* decremented.
LEMMA StepRefines ==
  ASSUME IndInv, NEW t \in Threads, Step(t)
  PROVE  BQ!Next \/ UNCHANGED BQ!vars
<1>1. CASE \E m \in Messages : SendCall(t, m)
  BY <1>1, QuietStep DEF SendCall
<1>2. CASE SendLock(t)
  BY <1>2, QuietStep DEF SendLock
<1>3. CASE SendFull(t)
  <2>1. Contents' = Contents
    BY <1>3 DEF SendFull, ring, Contents, SlotOf
  <2>2. Len(Contents) = Size
    BY <1>3, ContentsIsSeq DEF SendFull, IsFull
  <2>3. BQ!SendRefused(t)
    BY <1>3, <2>1, <2>2 DEF SendFull, Error, BQ!SendRefused
  <2> QED  BY <2>3 DEF BQ!Next
<1>4. CASE SendStore(t)
  <2>1. Contents' = Contents
    BY <1>4, StoreKeepsContents
  <2> QED  BY <1>4, <2>1 DEF SendStore, BQ!vars
<1>5. CASE SendAdvance(t)
  <2>1. /\ Contents' = Append(Contents, messages[head])
        /\ messages[head] \in Messages
        /\ Len(Contents) < Size
    BY <1>5, AdvanceAppends
  <2>2. BQ!Send(t, messages[head])
    BY <1>5, <2>1 DEF SendAdvance, BQ!Send
  <2> QED  BY <2>1, <2>2 DEF BQ!Next
<1>6. CASE ReceiveCall(t)
  BY <1>6, QuietStep DEF ReceiveCall
<1>7. CASE ReceiveLock(t)
  BY <1>7, QuietStep DEF ReceiveLock
<1>8. CASE ReceiveWait(t)
  <2>1. UNCHANGED <<ring, out>>
        /\ (UNCHANGED ret \/ ret' = [ret EXCEPT ![t] = "ERROR_OS"])
    BY <1>8 DEF ReceiveWait, Error
  <2> QED  BY <2>1, QuietStep, FailingStep
<1>9. CASE WaitExpires(t)
  BY <1>9, QuietStep DEF WaitExpires
<1>10. CASE SpuriousWakeup(t)
  BY <1>10, QuietStep DEF SpuriousWakeup
<1>11. CASE WaitReturns(t)
  BY <1>11, QuietStep DEF WaitReturns
<1>12. CASE WaitTimesOut(t)
  BY <1>12, FailingStep DEF WaitTimesOut
<1>13. CASE ReceiveNothing(t)
  BY <1>13, FailingStep DEF ReceiveNothing, Error
<1>14. CASE ReceiveTake(t)
  <2>1. /\ Contents # <<>>
        /\ Contents' = Tail(Contents)
        /\ messages[tail] = Head(Contents)
    BY <1>14, TakeRemovesHead
  <2>2. BQ!Receive(t)
    BY <1>14, <2>1 DEF ReceiveTake, BQ!Receive
  <2> QED  BY <2>2 DEF BQ!Next
<1>15. CASE LockFails(t)
  BY <1>15, FailingStep DEF LockFails
<1>16. CASE Unlock(t)
  BY <1>16, QuietStep DEF Unlock
<1> QED
  BY <1>1, <1>2, <1>3, <1>4, <1>5, <1>6, <1>7, <1>8, <1>9, <1>10, <1>11,
     <1>12, <1>13, <1>14, <1>15, <1>16 DEF Step

\* The ring under its mutex, with its early returns, its timed wait and its
\* signal on the first message only, implements the bounded FIFO: whatever the
\* size and however many threads send and receive, a message accepted by
\* Queue_Send comes out of Queue_Receive once and in order.
THEOREM QueueIsBoundedFifo == Spec => ImplementsBoundedQueue
<1>1. Init => BQ!Init
  BY DEF Init, BQ!Init, Contents
<1>2. IndInv /\ [Next]_vars => [BQ!Next]_(BQ!vars)
  <2>1. CASE UNCHANGED vars
    BY <2>1, QuietStep DEF vars, ring
  <2>2. ASSUME IndInv, Next
        PROVE  BQ!Next \/ UNCHANGED BQ!vars
    BY <2>2, NextIsStep, StepRefines
  <2> QED  BY <2>1, <2>2
<1> QED  BY <1>1, <1>2, Invariance, PTL DEF Spec, ImplementsBoundedQueue, BQ!Spec
===============================================================================
