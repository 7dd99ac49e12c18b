--------------------------- MODULE ServiceUseProofs ---------------------------
(***************************************************************************)
(* Proofs about Service in the uses it can be relied on for: SingleStart,  *)
(* for the number of tasks, and Proper, for everything else.  For any      *)
(* clients, any such use, and a queue of any size.                         *)
(***************************************************************************)
EXTENDS ServiceProofs, FiniteSetTheorems, SequenceTheorems

\* A set whose elements are all the same has at most one.
LEMMA AtMostOne ==
  ASSUME NEW S, \A x, y \in S : x = y
  PROVE  IsFiniteSet(S) /\ Cardinality(S) <= 1
<1>1. CASE S = {}
  BY <1>1, FS_EmptySet
<1>2. CASE S # {}
  <2>1. PICK x \in S : TRUE
    BY <1>2
  <2>2. \A y : y \in S <=> y \in {x}
    BY <2>1
  <2>3. S = {x}
    BY <2>2, Zenon
  <2>4. IsFiniteSet(S) /\ Cardinality(S) = 1
    BY <2>3, FS_Singleton, Zenon
  <2> QED  BY <2>4
<1> QED  BY <1>1, <1>2

\* The use of a service does not change.
LEMMA UseKept == [Next]_vars => use' = use
<1>1. \A how : Halt(how) => use' = use
  BY DEF Halt
<1>2. \A i, from, to : Go(i, from, to) => use' = use
  BY DEF Go
<1>3. \A c, from, to : GoClient(c, from, to) => use' = use
  BY DEF GoClient
<1>4. \A q : MisuseOfQueue(q) => use' = use
  BY <1>1 DEF MisuseOfQueue
<1>5. \A i : ThreadStep(i) \/ MainReturns(i) => use' = use
  BY <1>1, <1>2, <1>4 DEF ThreadStep, MainReturns, Setup, CheckState, CallReceive, WaitEnds, Handle,
     Teardown, GiveSemaphore, DeleteTask, DeletePosix, DeleteEsp32, DeleteQueue, ClearQueue,
     Cancelled
<1>6. \A c : CallStart(c) \/ StartStep(c) \/ StartFails(c) => use' = use
  BY <1>1, <1>3 DEF CallStart, StartStep, StartFails, SetRunning, NewQueue, CreateTask, Register,
     AssignTask
<1>7. \A c : CallStop(c) \/ CallNotify(c) \/ NotifyStep(c) \/ TakeSemaphore(c) => use' = use
  BY <1>1, <1>3, <1>4 DEF CallStop, CallNotify, NotifyStep, NotifySend, NotifyDrain, DrainEnds,
     TakeSemaphore
<1>8. DriverSends => use' = use
  BY <1>1, <1>4 DEF DriverSends
<1>9. UNCHANGED vars => use' = use
  BY DEF vars
<1> QED  BY <1>5, <1>6, <1>7, <1>8, <1>9 DEF Next

-------------------------------------------------------------------------------
(* One start: whatever is made is made once                                *)

\* Only queue 1 and task 1 are ever made.
MadeOnce ==
  /\ \A i \in Ids : i # 1 => queues[i] = "unused" /\ tasks[i] = "unused"
  /\ \A i \in Ids : tpc[i] = "none" <=> tasks[i] = "unused"
  /\ tasks[1] # "unused" => queues[1] # "unused"
  /\ queue \in {NULL, 1} /\ (queues[1] = "unused" => queue = NULL)

\* A client that is about to make one is the only one, and it is not there yet.
ToBeMade ==
  /\ \A c \in Clients :
       /\ cpc[c] \in Starting => c \in use.starters
       /\ cpc[c] \in {"setRunning", "newQueue"} => queues[1] = "unused"
       /\ cpc[c] = "createTask" => queues[1] # "unused" /\ tasks[1] = "unused"
  /\ use.stoppers = {} /\ state = "STOPPED" =>
       queues[1] = "unused" /\ \A c \in Clients : cpc[c] \notin Starting \ {"setRunning"}

Alone == MadeOnce /\ ToBeMade

control == <<use, state, queue, queues, tasks, tpc, cpc>>

\* A step that makes nothing.
LEMMA AloneSame ==
  ASSUME Alone, UNCHANGED control
  PROVE  Alone'
  BY DEF Alone, MadeOnce, ToBeMade, control

\* The first queue and the first task are identified by 1.
LEMMA OneIsAnId == 1 \in Ids /\ NULL \notin Ids /\ NULL # 1
  BY BoundAssumption DEF Ids

\* The bound on the starts: no queue is made yet.
LEMMA FirstStart ==
  ASSUME IndInv, SingleStart(use), Alone, NotStarted, StartsLeft
  PROVE  queues[1] = "unused"
<1> DEFINE Q == {q \in Ids : queues[q] # "unused"}
           C == {c \in Clients : cpc[c] \in {"setRunning", "newQueue"}}
<1>1. CASE use.stoppers = {}
  BY <1>1 DEF NotStarted, Alone, ToBeMade
<1>2. CASE use.starts = 1
  <2>1. IsFiniteSet(Q)
    <3>1. IsFiniteSet(Ids)
      BY BoundAssumption, FS_Interval DEF Ids
    <3> QED  BY <3>1, FS_Subset
  <2>2. IsFiniteSet(C)
    <3>1. \A c, d \in C : c = d
      BY DEF Alone, ToBeMade, Starting, SingleStart
    <3> QED  BY <3>1, AtMostOne
  <2>3. Cardinality(Q) \in Nat /\ Cardinality(C) \in Nat
    BY <2>1, <2>2, FS_CardinalityType
  <2>4. Cardinality(Q) + Cardinality(C) < 1
    BY <1>2 DEF StartsLeft
  <2>5. Q = {}
    <3>1. Cardinality(Q) = 0
      BY <2>3, <2>4
    <3> QED  BY <2>1, <3>1, FS_EmptySet
  <2> QED  BY <2>5, OneIsAnId
<1> QED  BY <1>1, <1>2 DEF SingleStart

\* The steps of Service_Start make the first queue and the first task.
LEMMA AloneStart ==
  ASSUME IndInv, SingleStart(use), Alone, NEW c \in use.starters, c \in Clients,
         CallStart(c) \/ StartStep(c)
  PROVE  Alone'
<1>1. cpc \in [Clients -> {"idle", "take", "send", "drain"} \cup Starting]
  BY DEF IndInv, ControlOK
<1>2. CASE CallStart(c)
  <2>1. /\ cpc' = [cpc EXCEPT ![c] = "setRunning"]
        /\ UNCHANGED <<use, state, queue, queues, tasks, tpc>>
    BY <1>2 DEF CallStart, GoClient, service, heap, threads
  <2>2. queues[1] = "unused"
    BY <1>2, FirstStart DEF CallStart
  <2> QED  BY <1>1, <2>1, <2>2 DEF Alone, MadeOnce, ToBeMade
<1>3. CASE SetRunning(c)
  <2>1. /\ cpc[c] = "setRunning" /\ cpc' = [cpc EXCEPT ![c] = "newQueue"]
        /\ state' = "RUNNING" /\ UNCHANGED <<use, queue, queues, tasks, tpc>>
    BY <1>3 DEF SetRunning, GoClient, heap, threads
  <2> QED  BY <1>1, <2>1 DEF Alone, MadeOnce, ToBeMade, Starting
<1>4. CASE NewQueue(c)
  <2>1. /\ cpc[c] = "newQueue" /\ cpc' = [cpc EXCEPT ![c] = "createTask"]
        /\ UNCHANGED <<use, state, tasks, tpc>>
    BY <1>4 DEF NewQueue, GoClient, threads
  <2>2. queues[1] = "unused" /\ tasks[1] = "unused"
    BY <2>1 DEF Alone, MadeOnce, ToBeMade
  <2>3. queue' = 1 /\ queues' = [queues EXCEPT ![1] = "live"]
    <3>1. PICK q \in Ids : /\ Fresh(queues, q)
                           /\ queue' = q /\ queues' = [queues EXCEPT ![q] = "live"]
      BY <1>4 DEF NewQueue
    <3>2. q = 1
      BY <2>2, <3>1, BoundAssumption DEF Fresh, Ids
    <3> QED  BY <3>1, <3>2
  <2>4. \A d \in Clients : cpc[d] \in Starting => d = c
    BY DEF Alone, ToBeMade, SingleStart
  <2> QED  BY <1>1, <2>1, <2>2, <2>3, <2>4, OneIsAnId
           DEF IndInv, ControlOK, Alone, MadeOnce, ToBeMade, Starting
<1>5. CASE CreateTask(c)
  <2>1. /\ cpc[c] = "createTask"
        /\ \E to \in {"register", "assignTask"} : cpc' = [cpc EXCEPT ![c] = to]
        /\ UNCHANGED <<use, state, queue, queues>>
    BY <1>5 DEF CreateTask, GoClient, service
  <2>2. queues[1] # "unused" /\ tasks[1] = "unused"
    BY <2>1 DEF Alone, MadeOnce, ToBeMade
  <2>3. tasks' = [tasks EXCEPT ![1] = "live"] /\ tpc' = [tpc EXCEPT ![1] = "setup"]
    <3>1. PICK i \in Ids : /\ Fresh(tasks, i)
                           /\ tasks' = [tasks EXCEPT ![i] = "live"]
                           /\ tpc' = [tpc EXCEPT ![i] = "setup"]
      BY <1>5 DEF CreateTask
    <3>2. i = 1
      BY <2>2, <3>1, BoundAssumption DEF Fresh, Ids
    <3> QED  BY <3>1, <3>2
  <2>4. \A d \in Clients : cpc[d] \in Starting => d = c
    BY DEF Alone, ToBeMade, SingleStart
  <2>5. MadeOnce'
    BY <2>1, <2>2, <2>3, OneIsAnId DEF IndInv, ControlOK, Alone, MadeOnce
  <2>6. ToBeMade'
    BY <1>1, <2>1, <2>2, <2>3, <2>4, OneIsAnId DEF IndInv, ControlOK, Alone, ToBeMade, Starting
  <2> QED  BY <2>5, <2>6 DEF Alone
<1>6. CASE Register(c) \/ AssignTask(c)
  <2>1. /\ cpc[c] \in {"register", "assignTask"}
        /\ \E to \in {"assignTask", "idle"} : cpc' = [cpc EXCEPT ![c] = to]
        /\ UNCHANGED <<use, state, queue, queues, tasks, tpc>>
    BY <1>6 DEF Register, AssignTask, GoClient, service, heap, threads
  <2> QED  BY <1>1, <2>1 DEF Alone, MadeOnce, ToBeMade, Starting
<1> QED  BY <1>2, <1>3, <1>4, <1>5, <1>6 DEF StartStep

\* Calls of the others make nothing.
LEMMA AloneCall ==
  ASSUME IndInv, Alone, NEW c \in Clients,
         \/ CallStop(c) /\ c \in use.stoppers
         \/ TakeSemaphore(c) \/ CallNotify(c) \/ NotifyStep(c) \/ DriverSends
  PROVE  Alone'
<1>1. cpc \in [Clients -> {"idle", "take", "send", "drain"} \cup Starting]
  BY DEF IndInv, ControlOK
<1>2. CASE Halts \/ DriverSends \/ NotifyDrain(c)
  <2>1. UNCHANGED control
    BY <1>2, MisuseHalts DEF Halts, Halt, DriverSends, NotifyDrain, DrainEnds,
       service, heap, threads, clients, control
  <2> QED  BY <2>1, AloneSame
<1>3. CASE ~Halts /\ ~DriverSends /\ ~NotifyDrain(c)
  <2>1. /\ \E to \in {"idle", "take", "send", "drain"} : cpc' = [cpc EXCEPT ![c] = to]
        /\ state' = state \/ use.stoppers # {}
        /\ UNCHANGED <<use, queue, queues, tasks, tpc>>
    BY <1>3, MisuseHalts DEF CallStop, TakeSemaphore, CallNotify, NotifyStep, NotifySend,
       GoClient, service, heap, threads
  <2> QED  BY <1>1, <2>1 DEF Alone, MadeOnce, ToBeMade, Starting
<1> QED  BY <1>2, <1>3

\* Nor does the thread of the service.
LEMMA AloneThread ==
  ASSUME IndInv, Alone, NEW i \in Ids, ThreadStep(i) \/ MainReturns(i)
  PROVE  Alone'
<1>1. /\ tpc \in [Ids -> Points] /\ tasks \in [Ids -> {"unused", "live", "freed"}]
      /\ queues \in [Ids -> {"unused", "live", "freed", "jammed"}]
  BY DEF IndInv, ControlOK, Points
<1>2. CASE Halts
  BY <1>2, AloneSame DEF Halts, Halt, service, heap, threads, clients, control
<1>3. CASE ~Halts
  <2>1. /\ tpc[i] # "none" /\ UNCHANGED <<use, state, cpc>>
        /\ queue' \in {queue, NULL}
    BY <1>3, MisuseHalts DEF ThreadStep, MainReturns, Setup, CheckState, CallReceive, WaitEnds,
       Handle, Teardown, GiveSemaphore, DeleteTask, DeletePosix, DeleteEsp32, DeleteQueue,
       ClearQueue, AfterDelete, Cancelled, CancellationPoints, Halts, Go, service, heap, clients
  <2>2. \A j \in Ids : tpc[j] = "none" <=> tpc'[j] = "none"
    <3>1. CASE \E to \in Points \ {"none"} : tpc' = [tpc EXCEPT ![i] = to]
      BY <1>1, <2>1, <3>1
    <3>2. CASE DeleteTask(i)
      <4>1. CASE use.platform = "posix"
        BY <1>1, <1>3, <3>1, <3>2, <4>1 DEF DeleteTask, DeletePosix, Halts, Go, Points
      <4>2. CASE use.platform = "esp32"
        <5>1. PICK t : /\ tasks[t] = "live"
                       /\ tpc' = IF t = i THEN [tpc EXCEPT ![i] = "dead"]
                                 ELSE [tpc EXCEPT ![i] = "deleteQueue", ![t] = "dead"]
          BY <1>3, <3>2, <4>2 DEF DeleteTask, DeleteEsp32, Halts
        <5>2. t \in Ids => tpc[t] # "none"
          BY <5>1 DEF Alone, MadeOnce
        <5> QED  BY <1>1, <2>1, <5>1, <5>2 DEF Points
      <4> QED  BY <3>2, <4>1, <4>2 DEF DeleteTask
    <3>3. CASE ~DeleteTask(i)
      <4>1. \E to \in Points \ {"none"} : tpc' = [tpc EXCEPT ![i] = to]
        BY <1>3, <3>3, MisuseHalts DEF ThreadStep, MainReturns, Setup, CheckState, CallReceive,
           WaitEnds, Handle, Teardown, GiveSemaphore, DeleteQueue, ClearQueue, Cancelled,
           CancellationPoints, Halts, Go, Points
      <4> QED  BY <3>1, <4>1
    <3> QED  BY <3>2, <3>3
  <2>3. \A j \in Ids : tasks[j] = "unused" <=> tasks'[j] = "unused"
    <3>1. tasks' = tasks \/ \E t : tasks[t] = "live" /\ tasks' = [tasks EXCEPT ![t] = "freed"]
      BY <1>3, MisuseHalts DEF ThreadStep, MainReturns, Setup, CheckState, CallReceive, WaitEnds,
         Handle, Teardown, GiveSemaphore, DeleteTask, DeletePosix, DeleteEsp32, DeleteQueue,
         ClearQueue, Cancelled, Halts, heap
    <3> QED  BY <1>1, <3>1
  <2>4. \A q \in Ids : queues[q] = "unused" <=> queues'[q] = "unused"
    <3>1. CASE DeleteQueue(i)
      <4>1. queues' = [q \in Ids |-> IF q = queue THEN "freed" ELSE queues[q]]
        BY <1>3, <3>1 DEF DeleteQueue, Halts
      <4> QED  BY <1>1, <4>1, OneIsAnId DEF Alone, MadeOnce
    <3>2. CASE Cancelled(i)
      <4>1. \A q \in Ids : queues'[q] = queues[q] \/ (queues[q] = "live" /\ queues'[q] = "jammed")
        BY <1>1, <3>2 DEF Cancelled
      <4> QED  BY <4>1
    <3>3. CASE ~DeleteQueue(i) /\ ~Cancelled(i)
      <4>1. queues' = queues
        BY <1>3, <3>3, MisuseHalts DEF ThreadStep, MainReturns, Setup, CheckState, CallReceive,
           WaitEnds, Handle, Teardown, GiveSemaphore, DeleteTask, DeletePosix, DeleteEsp32,
           ClearQueue, Halts, heap
      <4> QED  BY <4>1
    <3> QED  BY <3>1, <3>2, <3>3
  <2> QED  BY <2>1, <2>2, <2>3, <2>4, OneIsAnId DEF Alone, MadeOnce, ToBeMade
<1> QED  BY <1>2, <1>3

AloneInv == SingleStart(use) => Alone

\* In a use that starts a service once, what is made is made once.
LEMMA AloneInvariance == Spec => []AloneInv
<1>1. Init => AloneInv
  <2> SUFFICES ASSUME Init PROVE Alone
    BY DEF AloneInv
  <2> QED  BY OneIsAnId DEF Init, Alone, MadeOnce, ToBeMade, Starting
<1>2. IndInv /\ AloneInv /\ [Next]_vars => AloneInv'
  <2> SUFFICES ASSUME IndInv, AloneInv, [Next]_vars, SingleStart(use)' PROVE Alone'
    BY DEF AloneInv
  <2>1. /\ use \in UseRecord
        /\ use.starters \subseteq Clients /\ use.stoppers \subseteq Clients
        /\ use.notifiers \subseteq Clients /\ use.waiters \subseteq Clients
    BY UseAssumption DEF IndInv, ControlOK, UseRecord
  <2>2. Alone
    BY UseKept DEF AloneInv, SingleStart
  <2>3. CASE UNCHANGED vars
    BY <2>2, <2>3, AloneSame DEF vars, service, heap, threads, clients, control
  <2>4. CASE \E i \in Ids : ThreadStep(i) \/ MainReturns(i)
    BY <2>2, <2>4, AloneThread
  <2>5. CASE \E c \in use.starters : CallStart(c) \/ StartStep(c) \/ StartFails(c)
    <3>1. PICK c \in use.starters : CallStart(c) \/ StartStep(c) \/ StartFails(c)
      BY <2>5
    <3>2. CASE StartFails(c)
      BY <2>2, <3>2, AloneSame DEF StartFails, Halt, service, heap, threads, clients, control
    <3> QED  BY <2>1, <2>2, <3>1, <3>2, AloneStart, UseKept DEF SingleStart
  <2>6. CASE \E c \in Clients : \/ CallStop(c) /\ c \in use.stoppers
                               \/ TakeSemaphore(c) \/ CallNotify(c) \/ NotifyStep(c)
    BY <2>2, <2>6, AloneCall
  <2>7. CASE DriverSends
    <3>1. UNCHANGED control
      BY <2>7, MisuseHalts DEF DriverSends, Halts, Halt, service, heap, threads, clients, control
    <3> QED  BY <2>2, <3>1, AloneSame
  <2> QED  BY <2>1, <2>3, <2>4, <2>5, <2>6, <2>7 DEF Next
<1> QED  BY <1>1, <1>2, Invariance, PTL DEF Spec

\* Started at most once, a service is served by at most one task: the call of
\* Service_Start by the one client that makes it finds the state that its own
\* earlier call has left.
THEOREM ServedByOne == Spec => [](SingleStart(use) => OneTaskServes)
<1>1. AloneInv => (SingleStart(use) => OneTaskServes)
  <2> SUFFICES ASSUME Alone PROVE Cardinality(Serving) <= 1
    BY DEF AloneInv, OneTaskServes
  <2>1. \A i, j \in Serving : i = j
    BY DEF Alone, MadeOnce, Serving
  <2> QED  BY <2>1, AtMostOne
<1> QED  BY <1>1, AloneInvariance, PTL
-------------------------------------------------------------------------------
(* A proper use: the events are numbered one after the other               *)

\* A sequence that counts on from g, and one that has one more or one less.
Counts(s, m, g) == Len(s) = m /\ \A n \in 1 .. m : s[n] = g + n

\* The empty sequence counts nothing.
LEMMA CountsNone ==
  ASSUME NEW S, NEW g \in Nat
  PROVE  <<>> \in Seq(S) /\ Counts(<<>>, 0, g)
<1>1. <<>> \in Seq(S) /\ Len(<<>>) = 0
  OBVIOUS
<1> QED  BY <1>1 DEF Counts

\* A sequence of one event.
LEMMA CountsOne ==
  ASSUME NEW S, NEW e \in S, NEW g \in Nat, e = g + 1
  PROVE  <<e>> \in Seq(S) /\ Counts(<<e>>, 1, g)
<1>1. <<e>> \in Seq(S) /\ Len(<<e>>) = 1 /\ <<e>>[1] = e
  OBVIOUS
<1> QED  BY <1>1 DEF Counts

\* The next number is appended.
LEMMA CountsMore ==
  ASSUME NEW S, NEW s \in Seq(S), NEW m \in Nat, NEW g \in Nat, Counts(s, m, g)
  PROVE  Counts(Append(s, g + (m + 1)), m + 1, g)
<1>1. /\ Len(Append(s, g + (m + 1))) = m + 1
      /\ \A n \in 1 .. m : Append(s, g + (m + 1))[n] = s[n]
      /\ Append(s, g + (m + 1))[m + 1] = g + (m + 1)
  BY DEF Counts
<1>2. \A n \in 1 .. (m + 1) : n \in 1 .. m \/ n = m + 1
  OBVIOUS
<1> QED  BY <1>1, <1>2 DEF Counts

\* The first number is taken.
LEMMA CountsLess ==
  ASSUME NEW S, NEW s \in Seq(S), NEW m \in Nat \ {0}, NEW g \in Nat, Counts(s, m, g)
  PROVE  Head(s) = g + 1 /\ Counts(Tail(s), m - 1, g + 1)
<1>1. /\ Len(Tail(s)) = m - 1 /\ Head(s) = s[1]
      /\ \A n \in 1 .. (m - 1) : Tail(s)[n] = s[n + 1]
  BY DEF Counts
<1>2. \A n \in 1 .. (m - 1) : n + 1 \in 1 .. m /\ g + (n + 1) = (g + 1) + n
  OBVIOUS
<1>3. 1 \in 1 .. m
  OBVIOUS
<1> QED  BY <1>1, <1>2, <1>3 DEF Counts

\* One count after another is a count.
LEMMA CountsJoined ==
  ASSUME NEW S, NEW s \in Seq(S), NEW t \in Seq(S),
         NEW m \in Nat, NEW n \in Nat, NEW g \in Nat, Counts(s, m, g), Counts(t, n, g + m)
  PROVE  s \o t \in Seq(S) /\ Counts(s \o t, m + n, g)
<1>1. /\ s \o t \in Seq(S) /\ Len(s \o t) = Len(s) + Len(t)
      /\ \A i \in 1 .. Len(s) + Len(t) :
           (s \o t)[i] = IF i <= Len(s) THEN s[i] ELSE t[i - Len(s)]
  BY ConcatProperties
<1> DEFINE st == s \o t
<1>2. /\ Len(st) = m + n
      /\ \A i \in 1 .. (m + n) : st[i] = IF i <= m THEN s[i] ELSE t[i - m]
  BY <1>1 DEF Counts
<1> HIDE DEF st
<1>3. \A i \in 1 .. (m + n) : i <= m => i \in 1 .. m
  OBVIOUS
<1>4. \A i \in 1 .. (m + n) : ~(i <= m) => i - m \in 1 .. n /\ (g + m) + (i - m) = g + i
  OBVIOUS
<1>5. \A i \in 1 .. (m + n) : st[i] = g + i
  <2> SUFFICES ASSUME NEW i \in 1 .. (m + n) PROVE st[i] = g + i
    OBVIOUS
  <2>1. CASE i <= m
    BY <1>2, <1>3, <2>1 DEF Counts
  <2>2. CASE ~(i <= m)
    <3>1. st[i] = t[i - m]
      BY <1>2, <2>2
    <3>2. t[i - m] = (g + m) + (i - m)
      BY <1>4, <2>2 DEF Counts
    <3> QED  BY <1>4, <2>2, <3>1, <3>2
  <2> QED  BY <2>1, <2>2
<1> QED  BY <1>1, <1>2, <1>5 DEF Counts, st

\* The events handled, in the hands of the thread and queued are all those sent:
\* h handled, none or one in hand, and m queued after the first g.
Ordered(h, g, m) ==
  /\ Counts(handled, h, 0) /\ Counts(events[1], m, g)
  /\ event[1] \in {0, h + 1} /\ g = IF event[1] = 0 THEN h ELSE h + 1
  /\ sent = g + m

Order == \E h, g, m \in Nat : Ordered(h, g, m)

\* A step that touches no event.
LEMMA OrderSame ==
  ASSUME Order, UNCHANGED <<sent, events, event, handled>>
  PROVE  Order'
  BY DEF Order, Ordered

\* An event accepted is the next number.
LEMMA OrderAccepted ==
  ASSUME EventsOK, Order, Accept(1), UNCHANGED <<event, handled>>
  PROVE  Order'
<1>1. PICK h, g, m \in Nat : Ordered(h, g, m)
  BY DEF Order
<1>2. sent' = sent + 1 /\ events'[1] = Append(events[1], sent + 1)
      /\ events[1] \in Seq(1 .. sent)
  BY OneIsAnId DEF EventsOK, Accept
<1>3. sent + 1 = g + (m + 1)
  BY <1>1 DEF Ordered
<1>4. Counts(events'[1], m + 1, g)
  BY <1>1, <1>2, <1>3, CountsMore DEF Ordered
<1>5. Ordered(h, g, m + 1)'
  BY <1>1, <1>2, <1>3, <1>4 DEF Ordered
<1> QED  BY <1>1, <1>5 DEF Order

\* The event received is the one after the last handled.
LEMMA OrderTaken ==
  ASSUME EventsOK, Order, event[1] = 0, Receives(1, 1), UNCHANGED <<sent, handled>>
  PROVE  Order'
<1>1. PICK h, g, m \in Nat : Ordered(h, g, m)
  BY DEF Order
<1>2. /\ event'[1] = Head(events[1]) /\ events'[1] = Tail(events[1])
      /\ events[1] \in Seq(1 .. sent) /\ events[1] # <<>>
  BY OneIsAnId DEF EventsOK, Receives
<1>3. m # 0 /\ g = h
  <2>1. Len(events[1]) # 0
    BY <1>2
  <2> QED  BY <1>1, <2>1 DEF Ordered, Counts
<1>4. event'[1] = h + 1 /\ Counts(events'[1], m - 1, h + 1)
  BY <1>1, <1>2, <1>3, CountsLess DEF Ordered
<1>5. sent' = (h + 1) + (m - 1)
  BY <1>1, <1>3 DEF Ordered
<1>6. Ordered(h, h + 1, m - 1)'
  BY <1>1, <1>4, <1>5 DEF Ordered
<1>7. h + 1 \in Nat /\ m - 1 \in Nat
  BY <1>1, <1>3
<1> QED  BY <1>1, <1>6, <1>7 DEF Order

\* It is handled next.
LEMMA OrderHandled ==
  ASSUME EventsOK, Order, Handle(1)
  PROVE  Order' /\ event'[1] = 0
<1>1. PICK h, g, m \in Nat : Ordered(h, g, m)
  BY DEF Order
<1>2. /\ handled \in Seq(1 .. sent) /\ event'[1] = 0 /\ UNCHANGED <<sent, events>>
      /\ handled' = IF event[1] = 0 THEN handled ELSE Append(handled, event[1])
  BY OneIsAnId DEF EventsOK, Handle, heap
<1>3. CASE event[1] = 0
  <2>1. Ordered(h, g, m)'
    BY <1>1, <1>2, <1>3 DEF Ordered
  <2> QED  BY <1>1, <1>2, <2>1 DEF Order
<1>4. CASE event[1] # 0
  <2>1. event[1] = 0 + (h + 1) /\ g = h + 1
    BY <1>1, <1>4 DEF Ordered
  <2>2. Counts(handled', h + 1, 0)
    BY <1>1, <1>2, <1>4, <2>1, CountsMore DEF Ordered
  <2>3. Ordered(h + 1, g, m)'
    BY <1>1, <1>2, <2>1, <2>2 DEF Ordered
  <2> QED  BY <1>1, <1>2, <2>3 DEF Order
<1> QED  BY <1>3, <1>4

\* What it means for the sequences.
LEMMA OrderMeans ==
  ASSUME EventsOK, Order
  PROVE  handled \o InHand(1) \o events[1] = [n \in 1 .. sent |-> n]
<1>1. PICK h, g, m \in Nat : Ordered(h, g, m)
  BY DEF Order
<1>2. /\ handled \in Seq(1 .. sent) /\ events[1] \in Seq(1 .. sent)
      /\ event[1] \in 0 .. sent /\ sent \in Nat
  BY OneIsAnId DEF EventsOK
<1>3. PICK k \in {0, 1} : g = h + k /\ (k = 0 <=> event[1] = 0)
  BY <1>1 DEF Ordered
<1>4. InHand(1) \in Seq(1 .. sent) /\ Counts(InHand(1), k, h)
  <2>1. CASE event[1] = 0
    <3>1. k = 0 /\ InHand(1) = <<>>
      BY <1>3, <2>1 DEF InHand
    <3>2. Counts(<<>>, 0, h) /\ <<>> \in Seq(1 .. sent)
      BY <1>1, CountsNone
    <3> QED  BY <3>1, <3>2
  <2>2. CASE event[1] # 0
    <3>1. event[1] = h + 1 /\ k = 1 /\ InHand(1) = <<event[1]>> /\ event[1] \in 1 .. sent
      BY <1>1, <1>2, <1>3, <2>2 DEF Ordered, InHand
    <3>2. Counts(<<event[1]>>, 1, h) /\ <<event[1]>> \in Seq(1 .. sent)
      BY <1>1, <3>1, CountsOne
    <3> QED  BY <3>1, <3>2
  <2> QED  BY <2>1, <2>2
<1> DEFINE a == handled \o InHand(1)
           s == a \o events[1]
           t == [n \in 1 .. sent |-> n]
<1>5. a \in Seq(1 .. sent) /\ Counts(a, h + k, 0)
  <2>1. h = 0 + h
    BY <1>1
  <2> QED  BY <1>1, <1>2, <1>3, <1>4, <2>1, CountsJoined DEF Ordered
<1> HIDE DEF a
<1>6. h + k \in Nat /\ 0 + (h + k) = g
  BY <1>1, <1>3
<1>7. s \in Seq(1 .. sent) /\ Counts(s, (h + k) + m, 0)
  BY <1>1, <1>2, <1>5, <1>6, CountsJoined DEF Ordered
<1>8. t \in Seq(1 .. sent) /\ Len(t) = sent /\ \A n \in 1 .. sent : t[n] = n
  BY <1>2
<1>9. sent = (h + k) + m
  BY <1>1, <1>3 DEF Ordered
<1> HIDE DEF s, t
<1>10. s = t
  <2>1. Len(s) = sent /\ \A n \in 1 .. sent : s[n] = n
    BY <1>2, <1>7, <1>9 DEF Counts
  <2> QED  BY <1>7, <1>8, <2>1, SeqEqual
<1> QED  BY <1>10 DEF s, t, a
-------------------------------------------------------------------------------
(* A proper use: the invariant                                             *)

Ending == {"teardown", "give", "deleteTask", "deleteQueue", "clearQueue", "sleep", "dead"}
Holding == {"setup", "main", "check", "receive", "wait", "handle",
            "teardown", "give", "deleteTask"}

\* Where a client is in a call fits the state of the service.
Callers ==
  /\ \A c \in Clients :
       /\ cpc[c] \in {"send", "drain"} => c \in use.notifiers
       /\ cpc[c] = "take" => c \in use.stoppers
       /\ state = "STOPPED" => cpc[c] \in {"idle", "take", "setRunning"}
       /\ cpc[c] = "createTask" => queue = 1 /\ queues[1] = "live"
       /\ cpc[c] \in {"register", "assignTask"} => created[c] = 1 /\ tasks[1] # "unused"
       /\ cpc[c] = "register" => use.platform = "posix" /\ task = NULL /\ registered = {}
  /\ state = "RUNNING" /\ tasks[1] = "unused" =>
       \E c \in Clients : cpc[c] \in {"newQueue", "createTask"}
  /\ driver # NULL => driver = 1 /\ use.driver /\ tasks[1] # "unused"

\* What the thread of the service finds when it gets there.
Thread ==
  /\ use.semaphore => sem # NULL
  /\ tpc[1] \in {"none"} \cup (Holding \ {"deleteTask"}) => sem # "unlocked"
  /\ tpc[1] = "main" => use.main
  /\ tpc[1] \in Ending => use.main \/ state = "STOPPED"
  /\ tpc[1] \in Holding => tasks[1] = "live" /\ queue = 1 /\ queues[1] = "live"
  /\ tpc[1] = "deleteQueue" => queue = 1 /\ queues[1] = "live"
  /\ tpc[1] = "wait" => arg[1] = 1
  /\ tpc[1] \in {"clearQueue", "sleep"} => queues[1] = "freed"
  /\ tpc[1] = "sleep" => queue = NULL
  /\ tpc[1] \in {"deleteQueue", "clearQueue", "sleep"} => use.platform = "posix"

\* What there is of the task, and what is left of it when it was deleted.
Gone ==
  /\ task \in {NULL, 1} /\ registered \subseteq {1}
  /\ registered # {} => use.platform = "posix"
  /\ tasks[1] = "unused" => task = NULL /\ registered = {}
  /\ cancelled # {} =>
       /\ cancelled = {1} /\ tasks[1] = "freed" /\ registered = {}
       /\ use.platform = "posix"
       /\ tpc[1] \in {"deleteQueue", "clearQueue", "sleep", "dead"}
       /\ \A c \in Clients : cpc[c] # "register"
  /\ tpc[1] = "dead" =>
       /\ tasks[1] = "freed" /\ registered = {}
       /\ \A c \in Clients : cpc[c] # "register"
       /\ use.platform = "posix" => queue = NULL /\ queues[1] = "freed"

\* Nothing went wrong so far, and no event was lost.
Sound ==
  /\ sys \notin {"abort", "undefined"}
  /\ event[1] # 0 => tpc[1] = "handle"
  /\ (\A c \in Clients : cpc[c] # "drain") => Order

Good == Callers /\ Thread /\ Gone /\ Sound

ProperInv == Proper(use) => Good

\* What a step of a proper use starts from.
Before == IndInv /\ Proper(use) /\ Alone /\ Good

\* All the variables of Good but those of Order.
calls == <<state, queue, task, sem, queues, tasks, registered, cancelled, tpc, arg, driver, created>>

\* All calls are those of one client.
LEMMA OneCaller ==
  ASSUME Before, NEW c \in Clients, NEW d \in Clients,
         cpc[c] # "idle" \/ c \in use.starters \cup use.stoppers \cup use.notifiers,
         cpc[d] # "idle" \/ d \in use.starters \cup use.stoppers \cup use.notifiers
  PROVE  c = d
<1>1. \A b \in {c, d} : b \in use.starters \cup use.stoppers \cup use.notifiers
  BY DEF Before, IndInv, ControlOK, Alone, ToBeMade, Good, Callers
<1> QED  BY <1>1 DEF Before, Proper

\* All steps of a thread are those of the first.
LEMMA OneThread ==
  ASSUME Before, NEW i \in Ids, tpc[i] # "none"
  PROVE  i = 1
  BY DEF Before, Alone, MadeOnce

\* A service that is running and has a task, and a driver that may send.
LEMMA QueueLives ==
  ASSUME Before,
         \/ state = "RUNNING" /\ tasks[1] # "unused" /\ ~use.main
         \/ driver # NULL
         \/ \E c \in Clients : cpc[c] \in {"send", "drain"}
  PROVE  queue = 1 /\ queues[1] = "live" /\ (driver # NULL => driver = 1)
<1>1. ASSUME state = "RUNNING" /\ tasks[1] # "unused" /\ ~use.main
      PROVE  queue = 1 /\ queues[1] = "live"
  <2>1. tpc[1] \in Points /\ tpc[1] # "none" /\ tpc[1] \notin Ending
    BY <1>1, OneIsAnId DEF Before, IndInv, ControlOK, Points, Alone, MadeOnce, Good, Thread
  <2>2. tpc[1] \in Holding
    BY <2>1 DEF Points, CancellationPoints, Ending, Holding
  <2> QED  BY <2>2 DEF Before, Good, Thread
<1>2. ASSUME driver # NULL
      PROVE  driver = 1 /\ state = "RUNNING" /\ tasks[1] # "unused" /\ ~use.main
  BY <1>2 DEF Before, IndInv, ControlOK, Good, Callers, Proper, Alone, MadeOnce, ToBeMade
<1>3. ASSUME NEW c \in Clients, cpc[c] \in {"send", "drain"}
      PROVE  state = "RUNNING" /\ tasks[1] # "unused" /\ ~use.main
  <2>1. state = "RUNNING" /\ ~use.main
    BY <1>3 DEF Before, IndInv, ControlOK, Good, Callers, Proper
  <2>2. \A d \in Clients : cpc[d] \notin {"newQueue", "createTask"}
    BY <1>3, OneCaller
  <2> QED  BY <2>1, <2>2 DEF Before, Good, Callers
<1> QED  BY <1>1, <1>2, <1>3

\* The process ends in a reboot.
LEMMA GoodHalt ==
  ASSUME Before, NEW how, how \notin {"abort", "undefined"}, Halt(how)
  PROVE  Good'
<1>1. UNCHANGED <<use, calls, cpc, sent, events, event, handled>> /\ sys' = how
  BY DEF Halt, service, heap, threads, clients, history, calls
<1>2. Callers' /\ Thread' /\ Gone'
  BY <1>1 DEF Before, Good, Callers, Thread, Gone, calls
<1>3. Order => Order'
  BY <1>1, OrderSame
<1> QED  BY <1>1, <1>2, <1>3 DEF Before, Good, Sound, calls
(* The steps of a client                                                   *)

\* A step that touches no event, of a client that does not empty the queue.
LEMMA SoundSame ==
  ASSUME Before, UNCHANGED <<sys, sent, events, event, handled>>,
         tpc'[1] = tpc[1] \/ event[1] = 0,
         (\A c \in Clients : cpc'[c] # "drain") => \A c \in Clients : cpc[c] # "drain"
  PROVE  Sound'
<1>1. Order => Order'
  BY OrderSame
<1> QED  BY <1>1 DEF Before, Good, Sound

\* Service_Start.
LEMMA GoodStart ==
  ASSUME Before, NEW c \in Clients, c \in use.starters, CallStart(c) \/ StartStep(c)
  PROVE  Good'
<1>1. cpc \in [Clients -> {"idle", "take", "send", "drain"} \cup Starting]
  BY DEF Before, IndInv, ControlOK
<1>2. \A d \in Clients : cpc[d] # "idle" => d = c
  BY OneCaller
<1>3. Sound'
  <2>1. UNCHANGED <<sys, sent, events, event, handled>>
    BY DEF CallStart, StartStep, SetRunning, NewQueue, CreateTask, Register, AssignTask, GoClient,
       heap, threads, history
  <2>2. \E to : to # "drain" /\ cpc' = [cpc EXCEPT ![c] = to] /\ cpc[c] # "drain"
    BY DEF CallStart, StartStep, SetRunning, NewQueue, CreateTask, Register, AssignTask, GoClient
  <2>3. (\A d \in Clients : cpc'[d] # "drain") => \A d \in Clients : cpc[d] # "drain"
    BY <1>1, <2>2
  <2>4. tpc'[1] = tpc[1] \/ event[1] = 0
    <3>1. CASE CreateTask(c)
      <4>1. tasks[1] = "unused"
        BY <3>1 DEF CreateTask, GoClient, Before, Alone, ToBeMade
      <4> QED  BY <4>1, OneIsAnId DEF Before, Alone, MadeOnce, Good, Sound
    <3>2. CASE ~CreateTask(c)
      BY <3>2 DEF CallStart, StartStep, SetRunning, NewQueue, Register, AssignTask, threads
    <3> QED  BY <3>1, <3>2
  <2> QED  BY <2>1, <2>3, <2>4, SoundSame
<1>4. CASE CallStart(c)
  <2>1. /\ state = "STOPPED" /\ cpc' = [cpc EXCEPT ![c] = "setRunning"]
        /\ UNCHANGED <<use, calls>>
    BY <1>4 DEF CallStart, NotStarted, GoClient, service, heap, threads, calls
  <2> QED  BY <1>1, <1>2, <1>3, <2>1 DEF Before, Good, Callers, Thread, Gone, calls
<1>5. CASE SetRunning(c)
  <2>1. /\ cpc[c] = "setRunning" /\ cpc' = [cpc EXCEPT ![c] = "newQueue"] /\ state' = "RUNNING"
        /\ UNCHANGED <<use, queue, task, sem, queues, tasks, registered, cancelled, tpc, arg,
                       driver, created>>
    BY <1>5 DEF SetRunning, GoClient, heap, threads
  <2>2. tasks[1] = "unused" /\ tpc[1] = "none"
    BY <2>1, OneIsAnId DEF Before, Alone, MadeOnce, ToBeMade
  <2>3. Callers'
    BY <1>1, <1>2, <2>1, <2>2 DEF Before, Good, Callers
  <2>4. Thread' /\ Gone'
    BY <1>1, <1>2, <2>1, <2>2 DEF Before, Good, Thread, Gone, Ending
  <2> QED  BY <1>3, <2>3, <2>4 DEF Good
<1>6. CASE NewQueue(c)
  <2>1. /\ cpc[c] = "newQueue" /\ cpc' = [cpc EXCEPT ![c] = "createTask"]
        /\ UNCHANGED <<use, state, task, sem, tasks, registered, cancelled, tpc, arg, driver,
                       created>>
    BY <1>6 DEF NewQueue, GoClient, threads
  <2>2. queues[1] = "unused" /\ tasks[1] = "unused" /\ tpc[1] = "none"
    BY <2>1, OneIsAnId DEF Before, Alone, MadeOnce, ToBeMade
  <2>3. queue' = 1 /\ queues'[1] = "live"
    <3>1. PICK q \in Ids : /\ Fresh(queues, q)
                           /\ queue' = q /\ queues' = [queues EXCEPT ![q] = "live"]
      BY <1>6 DEF NewQueue
    <3>2. q = 1
      BY <2>2, <3>1, BoundAssumption DEF Fresh, Ids
    <3> QED  BY <3>1, <3>2 DEF Before, IndInv, ControlOK
  <2>4. Callers'
    BY <1>1, <1>2, <2>1, <2>2, <2>3 DEF Before, Good, Callers
  <2>5. Thread' /\ Gone'
    BY <1>1, <1>2, <2>1, <2>2, <2>3 DEF Before, Good, Thread, Gone, Holding, Ending
  <2> QED  BY <1>3, <2>4, <2>5 DEF Good
<1>7. CASE CreateTask(c)
  <2>1. /\ cpc[c] = "createTask"
        /\ cpc' = [cpc EXCEPT ![c] = IF use.platform = "posix" THEN "register" ELSE "assignTask"]
        /\ UNCHANGED <<use, state, queue, task, sem, queues, registered, cancelled, arg, driver>>
    BY <1>7 DEF CreateTask, GoClient, service
  <2>2. tasks[1] = "unused" /\ tpc[1] = "none" /\ queue = 1 /\ queues[1] = "live"
    BY <2>1, OneIsAnId DEF Before, Alone, MadeOnce, ToBeMade, Good, Callers
  <2>3. tasks'[1] = "live" /\ tpc'[1] = "setup" /\ created' = [created EXCEPT ![c] = 1]
    <3>1. PICK i \in Ids : /\ Fresh(tasks, i)
                           /\ created' = [created EXCEPT ![c] = i]
                           /\ tasks' = [tasks EXCEPT ![i] = "live"]
                           /\ tpc' = [tpc EXCEPT ![i] = "setup"]
      BY <1>7 DEF CreateTask
    <3>2. i = 1
      BY <2>2, <3>1, BoundAssumption DEF Fresh, Ids
    <3> QED  BY <3>1, <3>2 DEF Before, IndInv, ControlOK
  <2>4. created'[c] = 1 /\ \A d \in Clients \ {c} : created'[d] = created[d]
    BY <2>3 DEF Before, IndInv, ControlOK
  <2>5. Callers'
    BY <1>1, <1>2, <2>1, <2>2, <2>3, <2>4 DEF Before, Good, Callers, Gone
  <2>6. Thread' /\ Gone'
    BY <1>1, <1>2, <2>1, <2>2, <2>3 DEF Before, Good, Thread, Gone, Holding, Ending
  <2> QED  BY <1>3, <2>5, <2>6 DEF Good
<1>8. CASE Register(c)
  <2>1. /\ cpc[c] = "register" /\ cpc' = [cpc EXCEPT ![c] = "assignTask"]
        /\ registered' = registered \cup {created[c]}
        /\ UNCHANGED <<use, state, queue, task, sem, queues, tasks, cancelled, tpc, arg, driver,
                       created>>
    BY <1>8 DEF Register, GoClient, service, threads
  <2>2. registered' = {1} /\ tasks[1] # "unused" /\ use.platform = "posix" /\ task = NULL
    BY <2>1 DEF Before, Good, Callers
  <2>3. Callers'
    BY <1>1, <1>2, <2>1, <2>2 DEF Before, Good, Callers
  <2>4. Thread' /\ Gone'
    BY <1>1, <1>2, <2>1, <2>2 DEF Before, Good, Thread, Gone
  <2> QED  BY <1>3, <2>3, <2>4 DEF Good
<1>9. CASE AssignTask(c)
  <2>1. /\ cpc[c] = "assignTask" /\ cpc' = [cpc EXCEPT ![c] = "idle"]
        /\ task' = created[c]
        /\ UNCHANGED <<use, state, queue, sem, queues, tasks, registered, cancelled, tpc, arg,
                       driver, created>>
    BY <1>9 DEF AssignTask, GoClient, heap, threads
  <2>2. task' = 1 /\ tasks[1] # "unused"
    BY <2>1 DEF Before, Good, Callers
  <2>3. Callers'
    BY <1>1, <1>2, <2>1, <2>2 DEF Before, Good, Callers
  <2>4. Thread' /\ Gone'
    BY <1>1, <1>2, <2>1, <2>2 DEF Before, Good, Thread, Gone
  <2> QED  BY <1>3, <2>3, <2>4 DEF Good
<1> QED  BY <1>4, <1>5, <1>6, <1>7, <1>8, <1>9 DEF StartStep

\* A client enters or leaves Service_Stop, Service_Notify or a wait.
LEMMA GoodCall ==
  ASSUME Before, NEW c \in Clients,
         \/ CallStop(c) /\ c \in use.stoppers
         \/ CallNotify(c) /\ c \in use.notifiers
         \/ TakeSemaphore(c)
  PROVE  Good'
<1>1. cpc \in [Clients -> {"idle", "take", "send", "drain"} \cup Starting]
  BY DEF Before, IndInv, ControlOK
<1>2. UNCHANGED <<use, queue, task, queues, tasks, registered, cancelled, tpc, arg, driver, created>>
  BY DEF CallStop, CallNotify, TakeSemaphore, GoClient, service, heap, threads
<1>3. Sound'
  <2>1. UNCHANGED <<sys, sent, events, event, handled>>
    BY DEF CallStop, CallNotify, TakeSemaphore, GoClient, heap, threads, history
  <2>2. \E to : to # "drain" /\ cpc' = [cpc EXCEPT ![c] = to] /\ cpc[c] # "drain"
    BY DEF CallStop, CallNotify, TakeSemaphore, GoClient
  <2>3. (\A d \in Clients : cpc'[d] # "drain") => \A d \in Clients : cpc[d] # "drain"
    BY <1>1, <2>2
  <2> QED  BY <1>2, <2>1, <2>3, SoundSame
<1>4. CASE CallStop(c) /\ c \in use.stoppers
  <2>1. /\ state' = "STOPPED" /\ UNCHANGED sem
        /\ \E to \in {"idle", "take"} : cpc' = [cpc EXCEPT ![c] = to]
    BY <1>4 DEF CallStop, GoClient
  <2>2. \A d \in Clients : cpc[d] # "idle" => d = c
    BY <1>4, OneCaller
  <2>3. Callers'
    BY <1>1, <1>2, <1>4, <2>1, <2>2 DEF Before, Good, Callers
  <2>4. Thread' /\ Gone'
    BY <1>1, <1>2, <2>1 DEF Before, Good, Thread, Gone
  <2> QED  BY <1>3, <2>3, <2>4 DEF Good
<1>5. CASE CallNotify(c) /\ c \in use.notifiers
  <2>1. /\ state # "STOPPED" /\ cpc[c] = "idle" /\ cpc' = [cpc EXCEPT ![c] = "send"]
        /\ UNCHANGED <<state, sem>>
    BY <1>5 DEF CallNotify, NotifyAllowed, GoClient, service
  <2>2. Callers'
    BY <1>1, <1>2, <1>5, <2>1 DEF Before, Good, Callers
  <2>3. Thread' /\ Gone'
    BY <1>1, <1>2, <2>1 DEF Before, Good, Thread, Gone
  <2> QED  BY <1>3, <2>2, <2>3 DEF Good
<1>6. CASE TakeSemaphore(c)
  <2>1. /\ cpc[c] = "take" /\ cpc' = [cpc EXCEPT ![c] = "idle"]
        /\ sem' = "locked" /\ UNCHANGED state
    BY <1>6 DEF TakeSemaphore, GoClient
  <2>2. Callers'
    BY <1>1, <1>2, <2>1 DEF Before, Good, Callers
  <2>3. sem' # NULL /\ sem' # "unlocked"
    <3>1. sem = "unlocked" /\ sem' = "locked"
      BY <1>6 DEF TakeSemaphore
    <3> QED  BY <3>1, BoundAssumption
  <2>4. Thread' /\ Gone'
    BY <1>1, <1>2, <2>1, <2>3 DEF Before, Good, Thread, Gone
  <2> QED  BY <1>3, <2>2, <2>4 DEF Good
<1> QED  BY <1>4, <1>5, <1>6

\* An event is accepted, or the queue is emptied, or neither.
LEMMA GoodSend ==
  ASSUME Before, NEW c \in Clients, NotifyStep(c)
  PROVE  Good'
<1>1. cpc \in [Clients -> {"idle", "take", "send", "drain"} \cup Starting]
  BY DEF Before, IndInv, ControlOK
<1>2. queue = 1 /\ queues[1] = "live"
  BY QueueLives DEF NotifyStep, NotifySend, NotifyDrain
<1>3. CASE Halt("reboot")
  BY <1>3, GoodHalt
<1>4. CASE ~Halt("reboot")
  <2>1. ~MisuseOfQueue(queue)
    BY <1>2, OneIsAnId DEF MisuseOfQueue
  <2>2. UNCHANGED <<use, state, queue, task, sem, queues, tasks, registered, cancelled, tpc, arg,
                    event, driver, created, handled, sys>>
    BY <1>4, <2>1 DEF NotifyStep, NotifySend, NotifyDrain, DrainEnds, GoClient,
       Accept, service, heap, threads, clients, history
  <2>3. \/ cpc[c] = "send" /\ cpc' = [cpc EXCEPT ![c] = "idle"] /\ Accept(1)
        \/ cpc[c] = "send" /\ cpc' = [cpc EXCEPT ![c] = "drain"]
        \/ cpc[c] = "drain" /\ cpc' = cpc
    BY <1>2, <1>4, <2>1 DEF NotifyStep, NotifySend, NotifyDrain, DrainEnds, GoClient,
       clients
  <2>4. Callers' /\ Thread' /\ Gone'
    <3>1. Callers'
      BY <1>1, <2>2, <2>3 DEF Before, Good, Callers
    <3> QED  BY <1>1, <2>2, <2>3, <3>1 DEF Before, Good, Thread, Gone
  <2>5. Sound'
    <3>1. ASSUME \A d \in Clients : cpc'[d] # "drain"
          PROVE  Order'
      <4>1. Accept(1) /\ \A d \in Clients : cpc[d] # "drain"
        BY <1>1, <2>3, <3>1
      <4> QED  BY <2>2, <4>1, OrderAccepted DEF Before, IndInv, Inv, Good, Sound
    <3> QED  BY <2>2, <3>1 DEF Before, Good, Sound
  <2> QED  BY <2>4, <2>5 DEF Good
<1> QED  BY <1>3, <1>4

\* The driver, which has the queue, sends to a queue that lives.
LEMMA GoodDriver ==
  ASSUME Before, DriverSends
  PROVE  Good'
<1>1. driver = 1 /\ queues[1] = "live"
  BY QueueLives DEF DriverSends
<1>2. CASE Halt("reboot")
  BY <1>2, GoodHalt
<1>3. CASE ~Halt("reboot")
  <2>1. /\ Accept(1)
        /\ UNCHANGED <<use, calls, cpc, event, handled, sys>>
    BY <1>1, <1>3, OneIsAnId DEF DriverSends, MisuseOfQueue, service, threads, clients, calls
  <2>2. Callers' /\ Thread' /\ Gone'
    BY <2>1 DEF Before, Good, Callers, Thread, Gone, calls
  <2>3. Order => Order'
    BY <2>1, OrderAccepted DEF Before, IndInv, Inv
  <2> QED  BY <2>1, <2>2, <2>3 DEF Before, Good, Sound, calls
<1> QED  BY <1>2, <1>3

(* The steps of the thread                                                 *)

\* Steps of the thread that touch neither events nor the heap.
LEMMA GoodPlain ==
  ASSUME Before, Setup(1) \/ MainReturns(1) \/ CheckState(1) \/ Teardown(1)
  PROVE  Good'
<1>1. tpc \in [Ids -> Points] /\ 1 \in Ids /\ (queue # NULL => NULL # 1)
  BY OneIsAnId DEF Before, IndInv, ControlOK, Points
<1>2. /\ UNCHANGED <<use, state, queue, task, sem, queues, tasks, registered, cancelled, arg, cpc,
                     created, sys, sent, events, event, handled>>
      /\ driver' = driver \/ (driver' = queue /\ use.driver /\ tpc[1] = "setup")
  BY DEF Setup, MainReturns, CheckState, Teardown, Go, service, heap, clients, history
<1>3. \/ tpc[1] = "setup" /\ tpc'[1] = "check"
      \/ tpc[1] = "setup" /\ tpc'[1] = "main" /\ use.main
      \/ tpc[1] = "main" /\ tpc'[1] = "teardown"
      \/ tpc[1] = "check" /\ tpc'[1] = "receive"
      \/ tpc[1] = "check" /\ tpc'[1] = "teardown" /\ state = "STOPPED"
      \/ tpc[1] = "teardown" /\ tpc'[1] = "give"
  BY <1>1 DEF Setup, MainReturns, CheckState, Teardown, Continues, Go, Before, IndInv, ControlOK
<1>4. Sound'
  BY <1>2, <1>3, SoundSame DEF Before, Good, Sound
<1>5. Callers'
  BY <1>2, <1>3 DEF Before, Good, Callers, Thread, Holding
<1>6. Thread' /\ Gone'
  BY <1>2, <1>3 DEF Before, Good, Thread, Gone, Holding, Ending
<1> QED  BY <1>4, <1>5, <1>6 DEF Good

\* The semaphore that is given is there, and was not given before.
LEMMA GoodGive ==
  ASSUME Before, GiveSemaphore(1)
  PROVE  Good'
<1>1. tpc[1] = "give" /\ sem # NULL
  <2>1. tpc[1] = "give"
    BY DEF GiveSemaphore
  <2>2. use.main \/ state = "STOPPED"
    BY <2>1 DEF Before, Good, Thread, Ending
  <2>3. use.main \/ use.stoppers # {}
    BY <2>1, <2>2, OneIsAnId DEF Before, Alone, MadeOnce, ToBeMade
  <2> QED  BY <2>1, <2>3 DEF Before, Good, Thread, Proper
<1>2. CASE Halt("reboot")
  BY <1>2, GoodHalt
<1>3. CASE ~Halt("reboot")
  <2>1. /\ tpc' = [tpc EXCEPT ![1] = "deleteTask"] /\ sem' = "unlocked"
        /\ UNCHANGED <<use, state, queue, task, queues, tasks, registered, cancelled, arg, driver,
                       cpc, created, sys, sent, events, event, handled>>
    BY <1>1, <1>3 DEF GiveSemaphore, Go, heap, clients, history
  <2>2. tpc'[1] = "deleteTask"
    BY <2>1, OneIsAnId DEF Before, IndInv, ControlOK
  <2>3. Sound'
    BY <1>1, <2>1, <2>2, SoundSame DEF Before, Good, Sound
  <2>4. sem' # NULL
    BY <2>1, BoundAssumption
  <2>5. Callers' /\ Thread' /\ Gone'
    BY <1>1, <2>1, <2>2, <2>4 DEF Before, Good, Callers, Thread, Gone, Holding, Ending
  <2> QED  BY <2>3, <2>5 DEF Good
<1> QED  BY <1>2, <1>3

\* The queue received from is there.
LEMMA GoodReceive ==
  ASSUME Before, CallReceive(1) \/ WaitEnds(1)
  PROVE  Good'
<1>1. tpc \in [Ids -> Points] /\ 1 \in Ids
  BY OneIsAnId DEF Before, IndInv, ControlOK, Points
<1>2. /\ tpc[1] \in {"receive", "wait"} /\ queue = 1 /\ queues[1] = "live" /\ tasks[1] = "live"
      /\ tpc[1] = "wait" => arg[1] = 1
      /\ event[1] = 0
  BY DEF CallReceive, WaitEnds, Before, Good, Thread, Holding, Sound
<1>3. ~MisuseOfQueue(1)
  BY <1>2, OneIsAnId DEF MisuseOfQueue
<1>4. /\ UNCHANGED <<use, state, queue, task, sem, queues, tasks, registered, cancelled, driver,
                     cpc, created, sys, sent, handled>>
      /\ \/ Receives(1, 1) /\ tpc' = [tpc EXCEPT ![1] = "handle"] /\ UNCHANGED arg
         \/ tpc' = [tpc EXCEPT ![1] = "wait"] /\ arg' = [arg EXCEPT ![1] = 1]
            /\ UNCHANGED <<event, events>>
         \/ tpc' = [tpc EXCEPT ![1] = "handle"] /\ event' = [event EXCEPT ![1] = 0]
            /\ UNCHANGED <<events, arg>>
  <2>1. CASE CallReceive(1)
    BY <1>2, <1>3, <2>1 DEF CallReceive, Go, service, heap, clients, history
  <2>2. CASE WaitEnds(1)
    <3>1. arg[1] = 1
      BY <1>2, <2>2 DEF WaitEnds
    <3> QED  BY <1>3, <2>2, <3>1 DEF WaitEnds, Go, service, heap, clients, history
  <2> QED  BY <2>1, <2>2
<1>5. /\ tpc'[1] \in {"handle", "wait"} /\ (tpc'[1] = "wait" => arg'[1] = 1)
      /\ event'[1] # 0 => tpc'[1] = "handle"
  BY <1>1, <1>2, <1>4 DEF Before, IndInv, ControlOK, Inv, EventsOK
<1>6. Order => Order'
  <2>1. CASE Receives(1, 1)
    BY <1>2, <1>4, <2>1, OrderTaken DEF Before, IndInv, Inv
  <2>2. CASE ~Receives(1, 1)
    <3>1. event' = event /\ events' = events
      BY <1>2, <1>4, <2>2 DEF Before, IndInv, Inv, EventsOK
    <3> QED  BY <1>4, <3>1, OrderSame
  <2> QED  BY <2>1, <2>2
<1>7. Sound'
  BY <1>4, <1>5, <1>6 DEF Before, Good, Sound
<1>8. Callers' /\ Thread' /\ Gone'
  BY <1>2, <1>4, <1>5 DEF Before, Good, Callers, Thread, Gone, Holding, Ending
<1> QED  BY <1>7, <1>8 DEF Good

\* The event in the hand is handled.
LEMMA GoodHandle ==
  ASSUME Before, Handle(1)
  PROVE  Good'
<1>1. /\ tpc[1] = "handle" /\ tpc'[1] = "check"
      /\ UNCHANGED <<use, state, queue, task, sem, queues, tasks, registered, cancelled, arg, driver,
                     cpc, created, sys>>
  BY OneIsAnId DEF Handle, Go, service, heap, clients, Before, IndInv, ControlOK
<1>2. event'[1] = 0
  BY OneIsAnId DEF Handle, Before, IndInv, Inv, EventsOK
<1>3. Order => Order'
  BY OrderHandled DEF Before, IndInv, Inv
<1>4. Sound'
  BY <1>1, <1>2, <1>3 DEF Before, Good, Sound
<1>5. Callers' /\ Thread' /\ Gone'
  BY <1>1 DEF Before, Good, Callers, Thread, Gone, Holding, Ending
<1> QED  BY <1>4, <1>5 DEF Good

\* The thread deletes the service's task, which is itself, or finds none.
LEMMA GoodDeleteTask ==
  ASSUME Before, DeleteTask(1)
  PROVE  Good'
<1>1. /\ tpc[1] = "deleteTask" /\ tasks[1] = "live" /\ queue = 1 /\ queues[1] = "live"
      /\ event[1] = 0 /\ task \in {NULL, 1} /\ registered \subseteq {1} /\ cancelled = {}
      /\ use.main \/ state = "STOPPED"
  BY DEF DeleteTask, Before, Good, Thread, Gone, Sound, Holding, Ending
<1>2. task = 1 \/ 1 \in registered => \A c \in Clients : cpc[c] # "register"
  BY OneIsAnId DEF Before, Good, Callers
<1>3. tasks \in [Ids -> {"unused", "live", "freed"}] /\ tpc \in [Ids -> Points] /\ 1 \in Ids
  BY OneIsAnId DEF Before, IndInv, ControlOK, Points
<1>4. UNCHANGED <<use, state, queue, task, sem, queues, arg, driver, cpc, created, sys,
                  sent, events, event, handled>>
  BY <1>1, OneIsAnId DEF DeleteTask, DeletePosix, DeleteEsp32, Go, service, heap, clients, history
<1>5. Sound'
  BY <1>1, <1>4, SoundSame
<1>6. CASE use.platform = "posix"
  <2>1. /\ tpc'[1] = "deleteQueue"
        /\ \/ UNCHANGED <<tasks, registered, cancelled>>
           \/ /\ tasks'[1] = "freed" /\ registered' = {} /\ cancelled' = {1}
              /\ \A c \in Clients : cpc[c] # "register"
    <3>1. tpc'[1] = "deleteQueue"
      BY <1>1, <1>3, <1>6, OneIsAnId DEF DeleteTask, DeletePosix, Go
    <3>2. CASE task = 1 \/ 1 \in registered
      BY <1>1, <1>2, <1>3, <1>6, <3>1, <3>2, OneIsAnId DEF DeleteTask, DeletePosix
    <3>3. CASE ~(task = 1 \/ 1 \in registered)
      BY <1>1, <1>6, <3>1, <3>3, OneIsAnId DEF DeleteTask, DeletePosix, heap
    <3> QED  BY <3>1, <3>2, <3>3
  <2>2. Callers'
    BY <1>1, <1>4, <2>1 DEF Before, Good, Callers
  <2>3. Thread' /\ Gone'
    BY <1>1, <1>4, <1>6, <2>1 DEF Before, Good, Thread, Gone, Holding, Ending
  <2> QED  BY <1>5, <2>2, <2>3 DEF Good
<1>7. CASE use.platform = "esp32"
  <2>1. /\ tpc'[1] = "dead" /\ tasks'[1] = "freed" /\ UNCHANGED <<registered, cancelled>>
    BY <1>1, <1>3, <1>7, OneIsAnId DEF DeleteTask, DeleteEsp32
  <2>2. registered = {} /\ \A c \in Clients : cpc[c] # "register"
    BY <1>7 DEF Before, Good, Callers, Gone
  <2>3. Callers'
    BY <1>1, <1>4, <2>1 DEF Before, Good, Callers
  <2>4. Thread' /\ Gone'
    BY <1>1, <1>4, <1>7, <2>1, <2>2 DEF Before, Good, Thread, Gone, Holding, Ending
  <2> QED  BY <1>5, <2>3, <2>4 DEF Good
<1> QED  BY <1>6, <1>7 DEF DeleteTask

\* On POSIX the thread outlives Task_Delete until its next cancellation point.
LEMMA GoodEnd ==
  ASSUME Before, DeleteQueue(1) \/ ClearQueue(1) \/ Cancelled(1)
  PROVE  Good'
<1>1. tpc \in [Ids -> Points] /\ queues \in [Ids -> {"unused", "live", "freed", "jammed"}]
      /\ 1 \in Ids /\ NULL # 1
  BY OneIsAnId DEF Before, IndInv, ControlOK, Points
<1>2. tpc[1] # "none" /\ tasks[1] # "unused" /\ event[1] = 0
  BY <1>1 DEF DeleteQueue, ClearQueue, Cancelled, Go, CancellationPoints, Before, Alone, MadeOnce,
     Good, Gone, Sound
<1>3. \/ /\ tpc[1] = "deleteQueue" /\ tpc'[1] = "clearQueue"
         /\ queue = 1 /\ queues'[1] = "freed" /\ queue' = queue
      \/ tpc[1] = "clearQueue" /\ tpc'[1] = "sleep" /\ queues' = queues /\ queue' = NULL
      \/ /\ tpc[1] = "sleep" /\ tpc'[1] = "dead" /\ cancelled = {1}
         /\ queues'[1] = queues[1] /\ queue' = queue
  <2>1. CASE DeleteQueue(1)
    <3>1. tpc[1] = "deleteQueue" /\ queue = 1 /\ queues[1] = "live"
      BY <2>1 DEF DeleteQueue, Before, Good, Thread
    <3> QED  BY <1>1, <2>1, <3>1 DEF DeleteQueue, Go, service
  <2>2. CASE ClearQueue(1)
    BY <1>1, <2>2 DEF ClearQueue, AfterDelete, Go, heap
  <2>3. CASE Cancelled(1)
    <3>1. tpc[1] = "sleep" /\ cancelled = {1}
      BY <2>3 DEF Cancelled, CancellationPoints, Before, Good, Gone
    <3> QED  BY <1>1, <2>3, <3>1 DEF Cancelled, Go, service
  <2> QED  BY <2>1, <2>2, <2>3
<1>4. UNCHANGED <<use, state, task, sem, tasks, registered, cancelled, arg, driver, cpc, created, sys,
                  sent, events, event, handled>>
  <2>1. CASE DeleteQueue(1)
    <3>1. queues[queue] = "live"
      BY <2>1 DEF DeleteQueue, Before, Good, Thread
    <3> QED  BY <2>1, <3>1 DEF DeleteQueue, Go, service, clients, history
  <2>2. CASE ClearQueue(1) \/ Cancelled(1)
    BY <2>2 DEF ClearQueue, Cancelled, Go, service, heap, clients, history
  <2> QED  BY <2>1, <2>2
<1>5. Sound'
  BY <1>2, <1>4, SoundSame
<1>6. Callers'
  BY <1>2, <1>3, <1>4 DEF Before, Good, Callers, Alone, ToBeMade
<1>7. Thread'
  BY <1>1, <1>3, <1>4 DEF Before, Good, Thread, Holding, Ending
<1>8. Gone'
  BY <1>1, <1>3, <1>4 DEF Before, Good, Thread, Gone
<1> QED  BY <1>5, <1>6, <1>7, <1>8 DEF Good
-------------------------------------------------------------------------------
(* The theorems                                                            *)

\* In a proper use, all this holds always.
LEMMA ProperInvariance == Spec => []ProperInv
<1>1. Init => ProperInv
  <2> SUFFICES ASSUME Init, Proper(use) PROVE Good
    BY DEF ProperInv
  <2>1. Order
    <3>1. Counts(<<>>, 0, 0)
      BY CountsNone
    <3>2. handled = <<>> /\ events[1] = <<>> /\ event[1] = 0 /\ sent = 0
      BY OneIsAnId DEF Init
    <3>3. Ordered(0, 0, 0)
      BY <3>1, <3>2 DEF Ordered
    <3> QED  BY <3>3 DEF Order
  <2>2. 1 \in Ids /\ NULL \notin {"locked", "unlocked"}
    BY OneIsAnId, BoundAssumption
  <2>3. Callers /\ Thread /\ Gone
    BY <2>2 DEF Init, Callers, Thread, Gone, Holding, Ending
  <2> QED  BY <2>1, <2>2, <2>3 DEF Init, Good, Sound
<1>2. IndInv /\ AloneInv /\ ProperInv /\ [Next]_vars => ProperInv'
  <2> SUFFICES ASSUME IndInv, AloneInv, ProperInv, [Next]_vars, Proper(use)' PROVE Good'
    BY DEF ProperInv
  <2>1. /\ use.starters \subseteq Clients /\ use.stoppers \subseteq Clients
        /\ use.notifiers \subseteq Clients /\ use.waiters \subseteq Clients
    BY UseAssumption DEF IndInv, ControlOK, UseRecord
  <2>2. Before
    <3>1. Proper(use)
      BY UseKept DEF Proper, SingleStart
    <3> QED  BY <3>1 DEF Before, ProperInv, AloneInv, Proper
  <2>3. CASE UNCHANGED vars
    <3>1. Callers' /\ Thread' /\ Gone'
      BY <2>2, <2>3 DEF vars, service, heap, threads, clients, Before, Good, Callers, Thread, Gone
    <3>2. Sound'
      BY <2>2, <2>3, SoundSame DEF vars, service, heap, threads, clients, history
    <3> QED  BY <3>1, <3>2 DEF Good
  <2>4. ASSUME NEW i \in Ids, ThreadStep(i) \/ MainReturns(i)
        PROVE  Good'
    <3>1. tpc[i] # "none"
      BY <2>4 DEF ThreadStep, MainReturns, Setup, CheckState, CallReceive, WaitEnds, Handle, Teardown,
         GiveSemaphore, DeleteTask, DeleteQueue, ClearQueue, Cancelled, CancellationPoints, Go
    <3>2. i = 1
      BY <2>2, <3>1, OneThread
    <3> QED  BY <2>2, <2>4, <3>2, GoodPlain, GoodGive, GoodReceive, GoodHandle, GoodDeleteTask,
             GoodEnd DEF ThreadStep
  <2>5. ASSUME NEW c \in use.starters, CallStart(c) \/ StartStep(c) \/ StartFails(c)
        PROVE  Good'
    <3>1. CASE StartFails(c)
      BY <2>2, <3>1, GoodHalt DEF StartFails
    <3> QED  BY <2>1, <2>2, <2>5, <3>1, GoodStart
  <2>6. ASSUME NEW c \in Clients,
               \/ CallStop(c) /\ c \in use.stoppers
               \/ (CallNotify(c) \/ NotifyStep(c)) /\ c \in use.notifiers
               \/ TakeSemaphore(c)
        PROVE  Good'
    BY <2>2, <2>6, GoodCall, GoodSend
  <2>7. CASE DriverSends
    BY <2>2, <2>7, GoodDriver
  <2> QED  BY <2>1, <2>3, <2>4, <2>5, <2>6, <2>7 DEF Next
<1> QED  BY <1>1, <1>2, Invariance, AloneInvariance, PTL DEF Spec

\* In a proper use, however its calls interleave with the service's thread and
\* with a driver, no call reaches a queue, a task or a semaphore that is not there.
THEOREM NothingMisused == Spec => [](Proper(use) => NoMisuse)
<1>1. ProperInv => (Proper(use) => NoMisuse)
  BY DEF ProperInv, Good, Sound, NoMisuse
<1> QED  BY <1>1, ProperInvariance, PTL

\* In a proper use, what was handled, what the thread holds and what is queued is
\* every event accepted, in the order of acceptance, until a notifier has found the
\* queue full.
THEOREM EventsKept == Spec => [](Proper(use) => NoEventLost)
<1>1. IndInv /\ AloneInv /\ ProperInv => (Proper(use) => NoEventLost)
  <2> SUFFICES ASSUME IndInv, Alone, Good, queue # NULL, \A c \in Clients : cpc[c] # "drain"
               PROVE  handled \o InHand(1) \o events[queue] = [n \in 1 .. sent |-> n]
    BY DEF AloneInv, ProperInv, Proper, NoEventLost
  <2>1. queue = 1
    BY DEF Alone, MadeOnce
  <2>2. EventsOK /\ Order
    BY DEF IndInv, Inv, Good, Sound
  <2> QED  BY <2>1, <2>2, OrderMeans
<1> QED  BY <1>1, Invariance, AloneInvariance, ProperInvariance, PTL

\* In a proper use, a thread that is gone has left neither its task structure nor a
\* place in TASKS, nor, where it outlived Task_Delete, its queue.
THEOREM NothingLeft == Spec => [](Proper(use) => TerminationCleansUp)
<1>1. AloneInv /\ ProperInv => (Proper(use) => TerminationCleansUp)
  <2> SUFFICES ASSUME Alone, Good, NEW i \in Ids, tpc[i] = "dead"
               PROVE  /\ tasks[i] = "freed" /\ i \notin registered
                      /\ use.platform = "posix" =>
                           queue = NULL /\ \A q \in Ids : queues[q] # "live"
    BY DEF AloneInv, ProperInv, Proper, TerminationCleansUp
  <2>1. i = 1 /\ \A q \in Ids : q # 1 => queues[q] = "unused"
    BY DEF Alone, MadeOnce
  <2> QED  BY <2>1 DEF Good, Gone
<1> QED  BY <1>1, AloneInvariance, ProperInvariance, PTL
===============================================================================
