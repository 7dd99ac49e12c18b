----------------------------- MODULE PosixSemaphore -----------------------------
(***************************************************************************)
(* The binary semaphore of the POSIX adapter (adapter/posix/semaphore.c):  *)
(* a flag under a mutex, and a condition variable on which a taker waits.  *)
(*                                                                         *)
(* The wall clock is part of the state, because the loop of Semaphore_Take *)
(* measures the time elapsed with Semaphore_ElapsedTimeMs, which divides   *)
(* the microseconds by a million and so counts how often the clock begins  *)
(* a new second, however short the time between the two readings.          *)
(***************************************************************************)
EXTENDS Naturals

CONSTANTS
  Takers,         \* threads that call Semaphore_Take
  Givers,         \* threads that call Semaphore_Give
  ONE_SEC,        \* ticks in a second
  Timeouts,       \* the timeouts takers pass, in ticks
  MaxClock,       \* bound: the clock stops here
  NULL

Threads == Takers \cup Givers

ASSUME SemaphoreAssumption ==
  /\ ONE_SEC \in Nat \ {0} /\ Timeouts \subseteq Nat /\ MaxClock \in Nat
  /\ Takers \cap Givers = {} /\ NULL \notin Threads

VARIABLES
  locked,     \* semaphore->locked
  mutex,      \* the thread holding semaphore->mutex, or NULL
  pc,         \* where each thread is in its call
  clock,      \* gettimeofday, in ticks
  start,      \* start[t]: tv, the time of the call of t
  timeout,    \* timeout[t]: the timeout of the call of t
  ret         \* ret[t]: ErrorCode of the last Semaphore_Take of t

vars == <<locked, mutex, pc, clock, start, timeout, ret>>

Held == {"takeStart", "takeLoop", "takeCheck", "takeSet", "giveCheck", "giveSet", "unlock"}
NotHeld == {"idle", "takeLock", "wait", "relock", "expired", "giveLock"}

Waiting == {t \in Takers : pc[t] = "wait"}

Init ==
  /\ locked = TRUE /\ mutex = NULL
  /\ pc = [t \in Threads |-> "idle"]
  /\ clock = 0
  /\ start = [t \in Takers |-> 0]
  /\ timeout = [t \in Takers |-> 0]
  /\ ret = [t \in Takers |-> NULL]

Tick ==
  /\ clock < MaxClock
  /\ clock' = clock + 1
  /\ UNCHANGED <<locked, mutex, pc, start, timeout, ret>>

\* Mutant of Lock: the critical section is entered without the mutex.
LockUnguarded(t, from, to) ==
  /\ pc[t] = from
  /\ mutex' = t
  /\ pc' = [pc EXCEPT ![t] = to]

Lock(t, from, to) ==
  /\ pc[t] = from /\ mutex = NULL
  /\ mutex' = t
  /\ pc' = [pc EXCEPT ![t] = to]

Unlock(t) ==
  /\ pc[t] = "unlock"
  /\ mutex' = NULL
  /\ pc' = [pc EXCEPT ![t] = "idle"]
  /\ UNCHANGED <<locked, clock, start, timeout, ret>>

-------------------------------------------------------------------------------
(* Semaphore_Take                                                          *)

\* Semaphore_ElapsedTimeMs: only the seconds of the two times are subtracted.
Elapsed(t) == ONE_SEC * ((clock \div ONE_SEC) - (start[t] \div ONE_SEC))

TakeCall(t) ==
  /\ pc[t] = "idle"
  /\ pc' = [pc EXCEPT ![t] = "takeLock"]
  /\ \E d \in Timeouts : timeout' = [timeout EXCEPT ![t] = d]
  /\ UNCHANGED <<locked, mutex, clock, start, ret>>

TakeLock(t) ==
  /\ Lock(t, "takeLock", "takeStart")
  /\ UNCHANGED <<locked, clock, start, timeout, ret>>

TakeStart(t) ==
  /\ pc[t] = "takeStart"
  /\ start' = [start EXCEPT ![t] = clock]
  /\ pc' = [pc EXCEPT ![t] = "takeLoop"]
  /\ UNCHANGED <<locked, mutex, clock, timeout, ret>>

\* The loop waits until tv + timeoutMs.  The carry is propagated while tv_nsec
\* is a second or more, so that the wait always gets a valid timespec.
TakeWait(t) ==
  /\ pc[t] = "takeLoop"
  /\ locked /\ Elapsed(t) < timeout[t]
  /\ mutex' = NULL
  /\ pc' = [pc EXCEPT ![t] = "wait"]
  /\ UNCHANGED <<locked, clock, start, timeout, ret>>

TakeLeavesLoop(t) ==
  /\ pc[t] = "takeLoop"
  /\ ~(locked /\ Elapsed(t) < timeout[t])
  /\ pc' = [pc EXCEPT ![t] = "takeCheck"]
  /\ UNCHANGED <<locked, mutex, clock, start, timeout, ret>>

\* The deadline has passed.
WaitExpires(t) ==
  /\ pc[t] = "wait" /\ clock >= start[t] + timeout[t]
  /\ pc' = [pc EXCEPT ![t] = "expired"]
  /\ UNCHANGED <<locked, mutex, clock, start, timeout, ret>>

\* POSIX lets a wait end for no reason.
SpuriousWakeup(t) ==
  /\ pc[t] = "wait"
  /\ pc' = [pc EXCEPT ![t] = "relock"]
  /\ UNCHANGED <<locked, mutex, clock, start, timeout, ret>>

WaitReturns(t) ==
  /\ Lock(t, "relock", "takeLoop")
  /\ UNCHANGED <<locked, clock, start, timeout, ret>>

\* Mutant of WaitTimesOut: ETIMEDOUT is treated as any other error.
WaitFails(t) ==
  /\ Lock(t, "expired", "unlock")
  /\ ret' = [ret EXCEPT ![t] = "ERROR_OS"]
  /\ UNCHANGED <<locked, clock, start, timeout>>

\* Any other error gives ERROR_OS; the wait has none left, for its timespec is
\* valid and its caller holds the mutex.
WaitTimesOut(t) ==
  /\ Lock(t, "expired", "unlock")
  /\ ret' = [ret EXCEPT ![t] = "ERROR_TIMEOUT"]
  /\ UNCHANGED <<locked, clock, start, timeout>>

\* The flag is looked at again: the loop may also end because of the time.
TakeCheck(t) ==
  /\ pc[t] = "takeCheck"
  /\ \/ ~locked /\ pc' = [pc EXCEPT ![t] = "takeSet"] /\ UNCHANGED ret
     \/ /\ locked
        /\ ret' = [ret EXCEPT ![t] = "ERROR_TIMEOUT"]
        /\ pc' = [pc EXCEPT ![t] = "unlock"]
  /\ UNCHANGED <<locked, mutex, clock, start, timeout>>

TakeSet(t) ==
  /\ pc[t] = "takeSet"
  /\ locked' = TRUE
  /\ ret' = [ret EXCEPT ![t] = "SUCCESS"]
  /\ pc' = [pc EXCEPT ![t] = "unlock"]
  /\ UNCHANGED <<mutex, clock, start, timeout>>

-------------------------------------------------------------------------------
(* Semaphore_Give                                                          *)

GiveCall(t) ==
  /\ pc[t] = "idle"
  /\ pc' = [pc EXCEPT ![t] = "giveLock"]
  /\ UNCHANGED <<locked, mutex, clock, start, timeout, ret>>

GiveLock(t) ==
  /\ Lock(t, "giveLock", "giveCheck")
  /\ UNCHANGED <<locked, clock, start, timeout, ret>>

\* A semaphore that is free is left alone.
GiveCheck(t) ==
  /\ pc[t] = "giveCheck"
  /\ pc' = [pc EXCEPT ![t] = IF locked THEN "giveSet" ELSE "unlock"]
  /\ UNCHANGED <<locked, mutex, clock, start, timeout, ret>>

\* Mutant of GiveSet: nobody is signalled.
GiveSilently(t) ==
  /\ pc[t] = "giveSet"
  /\ locked' = FALSE
  /\ pc' = [pc EXCEPT ![t] = "unlock"]
  /\ UNCHANGED <<mutex, clock, start, timeout, ret>>

\* The flag is cleared and one waiting taker is signalled.
GiveSet(t) ==
  /\ pc[t] = "giveSet"
  /\ locked' = FALSE
  /\ \/ \E w \in Waiting : pc' = [pc EXCEPT ![t] = "unlock", ![w] = "relock"]
     \/ Waiting = {} /\ pc' = [pc EXCEPT ![t] = "unlock"]
  /\ UNCHANGED <<mutex, clock, start, timeout, ret>>

-------------------------------------------------------------------------------
TakeStep(t) ==
  \/ TakeLock(t) \/ TakeStart(t) \/ TakeWait(t) \/ TakeLeavesLoop(t)
  \/ WaitReturns(t) \/ WaitTimesOut(t) \/ TakeCheck(t) \/ TakeSet(t)

GiveStep(t) == GiveLock(t) \/ GiveCheck(t) \/ GiveSet(t)

Next ==
  \/ \E t \in Takers : TakeCall(t) \/ TakeStep(t) \/ WaitExpires(t) \/ SpuriousWakeup(t)
  \/ \E t \in Givers : GiveCall(t) \/ GiveStep(t)
  \/ \E t \in Threads : Unlock(t)
  \/ Tick

Spec == Init /\ [][Next]_vars
-------------------------------------------------------------------------------
(* Properties                                                              *)

TypeOK ==
  /\ locked \in BOOLEAN
  /\ mutex \in Threads \cup {NULL}
  /\ pc \in [Threads -> Held \cup NotHeld]
  /\ clock \in 0 .. MaxClock
  /\ start \in [Takers -> 0 .. MaxClock]
  /\ timeout \in [Takers -> Timeouts \cup {0}]
  /\ ret \in [Takers -> {NULL, "SUCCESS", "ERROR_TIMEOUT"}]

\* Every path of the two calls, the timeout in the middle of the loop included,
\* holds the mutex exactly where it touches the flag.
MutexOwned == \A t \in Threads : pc[t] \in Held <=> mutex = t

\* A taker sleeps while the semaphore is free only if another taker has been
\* woken and is about to look at it, although Semaphore_Give signals once and
\* the token may be stolen from the taker it woke.
NoLostWakeup ==
  ~locked /\ Waiting # {} =>
    \E t \in Takers : pc[t] \in {"takeLock", "takeStart", "takeLoop", "takeCheck", "takeSet", "relock"}

\* The flag under its mutex is a binary semaphore: one take succeeds for each
\* give at most, and a failed call leaves the token alone.
BS == INSTANCE BinarySemaphore WITH available <- ~locked
ImplementsBinarySemaphore == BS!Spec

\* semaphore.h says of timeoutMs: "how much to wait for the semaphore to be
\* available".  A take reports a timeout only when that much time has passed since
\* it read its start; this fails even for a take that never waits, when the clock
\* begins a new second between that reading and the first test of the loop.
TimeoutIsWaited ==
  [][\A t \in Takers :
       pc[t] # "unlock" /\ pc'[t] = "unlock" /\ ret'[t] = "ERROR_TIMEOUT" =>
         clock >= start[t] + timeout[t]]_vars
===============================================================================
