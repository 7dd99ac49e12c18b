------------------------- MODULE PosixSemaphoreProofs -------------------------
(***************************************************************************)
(* Proofs about PosixSemaphore, for any number of takers and givers, any   *)
(* timeouts and any clock.                                                 *)
(***************************************************************************)
EXTENDS PosixSemaphore, TLAPS

\* The actions of Next but the clock, by the thread that takes them.
Step(t) ==
  \/ /\ t \in Takers
     /\ \/ TakeCall(t) \/ TakeLock(t) \/ TakeStart(t) \/ TakeWait(t)
        \/ TakeLeavesLoop(t) \/ WaitReturns(t) \/ WaitTimesOut(t)
        \/ TakeCheck(t) \/ TakeSet(t) \/ WaitExpires(t) \/ SpuriousWakeup(t)
  \/ /\ t \in Givers
     /\ GiveCall(t) \/ GiveLock(t) \/ GiveCheck(t) \/ GiveSet(t)
  \/ Unlock(t)

\* What a thread saw of the flag is still so when it writes the flag.
FlagUnchanged ==
  \A t \in Threads :
    /\ pc[t] = "takeSet" => ~locked
    /\ pc[t] = "giveSet" => locked

IndInv == TypeOK /\ MutexOwned /\ FlagUnchanged

-------------------------------------------------------------------------------
\* Every step is a step of some thread or of the clock.
LEMMA NextIsStep == Next => Tick \/ \E t \in Threads : Step(t)
  BY DEF Next, Step, Threads, TakeStep, GiveStep

\* Type correctness is preserved by every step of a thread.
LEMMA TypeStep ==
  ASSUME IndInv, NEW t \in Threads, Step(t)
  PROVE  TypeOK'
<1> USE SemaphoreAssumption DEF IndInv, TypeOK, Threads, Held, NotHeld
<1>1. CASE TakeCall(t)
  BY <1>1 DEF TakeCall
<1>2. CASE TakeLock(t)
  BY <1>2 DEF TakeLock, Lock
<1>3. CASE TakeStart(t)
  BY <1>3 DEF TakeStart
<1>4. CASE TakeWait(t)
  BY <1>4 DEF TakeWait
<1>5. CASE TakeLeavesLoop(t)
  BY <1>5 DEF TakeLeavesLoop
<1>6. CASE WaitReturns(t)
  BY <1>6 DEF WaitReturns, Lock
<1>7. CASE WaitTimesOut(t)
  BY <1>7 DEF WaitTimesOut, Lock
<1>8. CASE TakeCheck(t)
  BY <1>8 DEF TakeCheck
<1>9. CASE TakeSet(t)
  BY <1>9 DEF TakeSet
<1>10. CASE WaitExpires(t)
  BY <1>10 DEF WaitExpires
<1>11. CASE SpuriousWakeup(t)
  BY <1>11 DEF SpuriousWakeup
<1>12. CASE GiveCall(t)
  BY <1>12 DEF GiveCall
<1>13. CASE GiveLock(t)
  BY <1>13 DEF GiveLock, Lock
<1>14. CASE GiveCheck(t)
  BY <1>14 DEF GiveCheck
<1>15. CASE GiveSet(t)
  BY <1>15 DEF GiveSet, Waiting
<1>16. CASE Unlock(t)
  BY <1>16 DEF Unlock
<1> QED
  BY <1>1, <1>2, <1>3, <1>4, <1>5, <1>6, <1>7, <1>8, <1>9, <1>10, <1>11,
     <1>12, <1>13, <1>14, <1>15, <1>16 DEF Step

\* The mutex is held exactly between lock and unlock: the wait and the two ways
\* it ends included.
LEMMA MutexStep ==
  ASSUME IndInv, NEW t \in Threads, Step(t)
  PROVE  MutexOwned'
<1> USE SemaphoreAssumption DEF IndInv, TypeOK, MutexOwned, Held, NotHeld
<1>1. CASE TakeCall(t)
  BY <1>1 DEF TakeCall
<1>2. CASE TakeLock(t)
  BY <1>2 DEF TakeLock, Lock
<1>3. CASE TakeStart(t)
  BY <1>3 DEF TakeStart
<1>4. CASE TakeWait(t)
  BY <1>4 DEF TakeWait
<1>5. CASE TakeLeavesLoop(t)
  BY <1>5 DEF TakeLeavesLoop
<1>6. CASE WaitReturns(t)
  BY <1>6 DEF WaitReturns, Lock
<1>7. CASE WaitTimesOut(t)
  BY <1>7 DEF WaitTimesOut, Lock
<1>8. CASE TakeCheck(t)
  BY <1>8 DEF TakeCheck
<1>9. CASE TakeSet(t)
  BY <1>9 DEF TakeSet
<1>10. CASE WaitExpires(t)
  BY <1>10 DEF WaitExpires
<1>11. CASE SpuriousWakeup(t)
  BY <1>11 DEF SpuriousWakeup
<1>12. CASE GiveCall(t)
  BY <1>12 DEF GiveCall
<1>13. CASE GiveLock(t)
  BY <1>13 DEF GiveLock, Lock
<1>14. CASE GiveCheck(t)
  BY <1>14 DEF GiveCheck
<1>15. CASE GiveSet(t)
  BY <1>15 DEF GiveSet, Waiting
<1>16. CASE Unlock(t)
  BY <1>16 DEF Unlock
<1> QED
  BY <1>1, <1>2, <1>3, <1>4, <1>5, <1>6, <1>7, <1>8, <1>9, <1>10, <1>11,
     <1>12, <1>13, <1>14, <1>15, <1>16 DEF Step

\* Only the two writes of the flag, and the two checks before them, matter; the
\* mutex keeps any other thread from being at either.
LEMMA FlagStep ==
  ASSUME IndInv, NEW t \in Threads, Step(t)
  PROVE  FlagUnchanged'
<1> USE DEF IndInv, TypeOK, MutexOwned, FlagUnchanged, Held
<1>1. CASE TakeCheck(t)
  BY <1>1 DEF TakeCheck
<1>2. CASE TakeSet(t)
  BY <1>2 DEF TakeSet
<1>3. CASE GiveCheck(t)
  BY <1>3 DEF GiveCheck
<1>4. CASE GiveSet(t)
  BY <1>4 DEF GiveSet, Waiting
<1>5. CASE ~(TakeCheck(t) \/ TakeSet(t) \/ GiveCheck(t) \/ GiveSet(t))
  <2>1. UNCHANGED locked
    BY <1>5 DEF Step, TakeCall, TakeLock, TakeStart, TakeWait, TakeLeavesLoop,
       WaitReturns, WaitTimesOut, WaitExpires, SpuriousWakeup, GiveCall,
       GiveLock, Unlock
  <2>2. \E to \in {"idle", "takeLock", "takeStart", "takeLoop", "takeCheck", "wait",
                   "relock", "expired", "giveLock", "giveCheck", "unlock"} :
          pc' = [pc EXCEPT ![t] = to]
    BY <1>5 DEF Step, Lock, TakeCall, TakeLock, TakeStart, TakeWait,
       TakeLeavesLoop, WaitReturns, WaitTimesOut, WaitExpires, SpuriousWakeup,
       GiveCall, GiveLock, Unlock
  <2> QED  BY <2>1, <2>2
<1> QED  BY <1>1, <1>2, <1>3, <1>4, <1>5

\* The inductive invariant.
THEOREM Invariance == Spec => []IndInv
<1>1. Init => IndInv
  BY SemaphoreAssumption
  DEF Init, IndInv, TypeOK, MutexOwned, FlagUnchanged, Held, NotHeld
<1>2. IndInv /\ [Next]_vars => IndInv'
  <2> SUFFICES ASSUME IndInv, [Next]_vars PROVE IndInv'
    OBVIOUS
  <2>1. ASSUME NEW t \in Threads, Step(t) PROVE IndInv'
    BY <2>1, TypeStep, MutexStep, FlagStep DEF IndInv
  <2>2. CASE Tick
    BY <2>2, SemaphoreAssumption
    DEF Tick, IndInv, TypeOK, MutexOwned, FlagUnchanged
  <2>3. CASE UNCHANGED vars
    BY <2>3 DEF vars, IndInv, TypeOK, MutexOwned, FlagUnchanged
  <2> QED  BY <2>1, <2>2, <2>3, NextIsStep
<1> QED
  BY <1>1, <1>2, PTL DEF Spec

\* The type invariant of the semaphore.
THEOREM TypeCorrect == Spec => []TypeOK
  BY Invariance, PTL DEF IndInv

\* Every path through Semaphore_Take and Semaphore_Give holds the mutex exactly
\* between its lock and its unlock.
THEOREM MutexHeld == Spec => []MutexOwned
  BY Invariance, PTL DEF IndInv

-------------------------------------------------------------------------------
\* The points from which a taker goes on to look at the flag.
Coming == {"takeLock", "takeStart", "takeLoop", "takeCheck", "takeSet", "relock"}

\* No wakeup is lost: the taker that Semaphore_Give wakes stays on its way until
\* somebody has the token, and a taker goes to sleep only when it is taken.
THEOREM NoLostWakeups == Spec => []NoLostWakeup
<1>1. Init => NoLostWakeup
  BY DEF Init, NoLostWakeup
<1>2. IndInv /\ NoLostWakeup /\ [Next]_vars => NoLostWakeup'
  <2> SUFFICES ASSUME IndInv, NoLostWakeup, [Next]_vars,
                      ~locked', NEW w \in Takers, pc'[w] = "wait"
               PROVE  \E u \in Takers : pc'[u] \in Coming
    BY DEF NoLostWakeup, Waiting, Coming
  <2> USE DEF IndInv, TypeOK, Threads
  <2>1. CASE Tick \/ UNCHANGED vars
    BY <2>1 DEF Tick, vars, NoLostWakeup, Waiting, Coming
  <2>2. ASSUME NEW t \in Threads, Step(t)
        PROVE  \E u \in Takers : pc'[u] \in Coming
    <3>1. CASE t \in Givers /\ GiveSet(t)
      BY <3>1, SemaphoreAssumption DEF GiveSet, Waiting, Coming
    <3>2. CASE ~(t \in Givers /\ GiveSet(t))
      <4>1. ~locked /\ ~TakeWait(t) /\ ~TakeSet(t)
        BY <2>2, <3>2
        DEF Step, TakeCall, TakeLock, TakeStart, TakeWait, TakeLeavesLoop,
            WaitReturns, WaitTimesOut, TakeCheck, TakeSet, WaitExpires,
            SpuriousWakeup, GiveCall, GiveLock, GiveCheck, Unlock
      <4>2. PICK from, to \in Held \cup NotHeld :
              /\ pc[t] = from /\ pc' = [pc EXCEPT ![t] = to]
              /\ to # "wait"
              /\ from \in Coming => to \in Coming
        BY <2>2, <3>2, <4>1
        DEF Step, Lock, TakeCall, TakeLock, TakeStart, TakeLeavesLoop,
            WaitReturns, WaitTimesOut, TakeCheck, WaitExpires, SpuriousWakeup,
            GiveCall, GiveLock, GiveCheck, Unlock, Held, NotHeld, Coming
      <4>3. pc[w] = "wait"
        BY <4>2
      <4>4. PICK u \in Takers : pc[u] \in Coming
        BY <4>1, <4>3 DEF NoLostWakeup, Waiting, Coming
      <4> QED  BY <4>2, <4>4
    <3> QED  BY <3>1, <3>2
  <2> QED  BY <2>1, <2>2, NextIsStep
<1> QED
  BY <1>1, <1>2, Invariance, PTL DEF Spec

-------------------------------------------------------------------------------
\* Every step maps to a step or a stutter of the abstract semaphore: the token
\* is taken and put back where the flag is written.
LEMMA StepRefines ==
  ASSUME IndInv, NEW t \in Threads, Step(t)
  PROVE  BS!Next \/ UNCHANGED BS!vars
<1> USE DEF IndInv, FlagUnchanged
<1>1. CASE t \in Takers /\ TakeSet(t)
  <2>1. BS!Take(t)
    BY <1>1 DEF TakeSet, BS!Take
  <2> QED  BY <1>1, <2>1 DEF BS!Next
<1>2. CASE t \in Takers /\ (TakeCheck(t) \/ WaitTimesOut(t))
  <2>1. BS!Fail(t) \/ UNCHANGED BS!vars
    BY <1>2 DEF TakeCheck, WaitTimesOut, BS!Fail, BS!vars
  <2> QED  BY <1>2, <2>1 DEF BS!Next
<1>3. CASE t \in Givers /\ GiveSet(t)
  BY <1>3 DEF GiveSet, BS!Next, BS!Give
<1>4. CASE ~(\/ t \in Takers /\ (TakeSet(t) \/ TakeCheck(t) \/ WaitTimesOut(t))
             \/ t \in Givers /\ GiveSet(t))
  BY <1>4 DEF Step, TakeCall, TakeLock, TakeStart, TakeWait, TakeLeavesLoop,
     WaitReturns, WaitExpires, SpuriousWakeup, GiveCall, GiveLock, GiveCheck,
     Unlock, BS!vars
<1> QED  BY <1>1, <1>2, <1>3, <1>4

\* The flag under its mutex is a binary semaphore, for any number of threads: a
\* token that was given is taken once.
THEOREM SemaphoreIsBinary == Spec => ImplementsBinarySemaphore
<1>1. Init => BS!Init
  BY DEF Init, BS!Init
<1>2. IndInv /\ [Next]_vars => [BS!Next]_(BS!vars)
  <2>1. CASE Tick \/ UNCHANGED vars
    BY <2>1 DEF Tick, vars, BS!vars
  <2>2. ASSUME IndInv, Next, ~Tick
        PROVE  BS!Next \/ UNCHANGED BS!vars
    BY <2>2, NextIsStep, StepRefines
  <2> QED  BY <2>1, <2>2
<1> QED  BY <1>1, <1>2, Invariance, PTL DEF Spec, ImplementsBinarySemaphore, BS!Spec
===============================================================================
