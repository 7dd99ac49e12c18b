----------------------------- MODULE ServiceProofs -----------------------------
(***************************************************************************)
(* Proofs about Service, for any clients, any uses of the service, proper  *)
(* or not, and a queue of any size.                                        *)
(***************************************************************************)
EXTENDS Service, TLAPS

\* The two halves of TypeOK: the events, and everything else, with the task that
\* Task_Create is about to enter and to return.
EventsOK ==
  /\ sent \in Nat
  /\ events \in [Ids -> Seq(1 .. sent)] /\ \A q \in Ids : Len(events[q]) <= QueueSize
  /\ event \in [Ids -> 0 .. sent]
  /\ handled \in Seq(1 .. sent)

ControlOK ==
  /\ use \in Uses
  /\ state \in {"STOPPED", "RUNNING"}
  /\ queue \in Handles(Ids) /\ task \in Handles(Ids) /\ driver \in Handles(Ids)
  /\ sem \in {NULL, "locked", "unlocked"}
  /\ queues \in [Ids -> {"unused", "live", "freed", "jammed"}]
  /\ tasks \in [Ids -> {"unused", "live", "freed"}]
  /\ registered \subseteq Ids /\ cancelled \subseteq Ids
  /\ tpc \in [Ids -> CancellationPoints \cup
                     {"none", "check", "receive", "give",
                      "deleteQueue", "clearQueue", "dead"}]
  /\ arg \in [Ids -> Handles(Ids)]
  /\ cpc \in [Clients -> {"idle", "take", "send", "drain"} \cup Starting]
  /\ created \in [Clients -> Handles(Ids)]
  /\ \A c \in Clients : cpc[c] \in {"register", "assignTask"} => created[c] \in Ids
  /\ sys \in {"up", "reboot", "abort", "undefined"}

\* The two halves of the types.
LEMMA Halves == ControlOK /\ EventsOK => TypeOK
  BY DEF TypeOK, ControlOK, EventsOK

Inv == EventsOK /\ NoEventTwice

-------------------------------------------------------------------------------
(* What a step does to the events                                          *)

\* A step that touches no event.
LEMMA Same ==
  ASSUME Inv, UNCHANGED <<sent, events, event, handled>>
  PROVE  Inv'
  BY DEF Inv, EventsOK, NoEventTwice

\* Places in a sequence, and in one that grows or shrinks by one.
LEMMA Appended ==
  ASSUME NEW S, NEW s \in Seq(S), NEW e \in S
  PROVE  /\ Append(s, e) \in Seq(S)
         /\ Len(Append(s, e)) = Len(s) + 1 /\ Len(s) \in Nat
         /\ DOMAIN s = 1 .. Len(s) /\ DOMAIN Append(s, e) = DOMAIN s \cup {Len(s) + 1}
         /\ Append(s, e)[Len(s) + 1] = e /\ Len(s) + 1 \notin DOMAIN s
         /\ \A i \in DOMAIN s : Append(s, e)[i] = s[i] /\ s[i] \in S
  OBVIOUS

\* The same when the first element goes.
LEMMA Removed ==
  ASSUME NEW S, NEW s \in Seq(S), s # <<>>
  PROVE  /\ Tail(s) \in Seq(S)
         /\ Len(Tail(s)) < Len(s) /\ Len(Tail(s)) \in Nat /\ Len(s) \in Nat
         /\ 1 \in DOMAIN s /\ Head(s) = s[1] /\ Head(s) \in S
         /\ \A i \in DOMAIN Tail(s) : i + 1 \in DOMAIN s /\ i + 1 # 1 /\ Tail(s)[i] = s[i + 1]
         /\ \A i, j \in DOMAIN Tail(s) : i + 1 = j + 1 => i = j
  OBVIOUS

\* One more number is possible.
LEMMA Wider ==
  ASSUME NEW m \in Nat, NEW s \in Seq(1 .. m)
  PROVE  s \in Seq(1 .. (m + 1))
  OBVIOUS

\* The number of an accepted event is new.
LEMMA Accepted ==
  ASSUME Inv, NEW q \in Ids, ~Full(q), Accept(q), UNCHANGED <<event, handled>>
  PROVE  Inv'
<1>1. /\ sent \in Nat /\ sent' = sent + 1
      /\ events \in [Ids -> Seq(1 .. sent)] /\ events[q] \in Seq(1 .. sent')
      /\ events' = [events EXCEPT ![q] = Append(events[q], sent')]
  BY Wider DEF Inv, EventsOK, Accept
<1>2. /\ sent' \in 1 .. sent'
      /\ events'[q] = Append(events[q], sent')
      /\ \A r \in Ids \ {q} : events'[r] = events[r]
  BY <1>1
<1>3. EventsOK'
  <2>1. \A r \in Ids : events'[r] \in Seq(1 .. sent')
    BY <1>1, <1>2, Wider, Appended
  <2>2. \A r \in Ids : Len(events'[r]) <= QueueSize
    <3>1. Len(events'[q]) <= QueueSize
      BY <1>1, <1>2, BoundAssumption, Appended DEF Full
    <3> QED  BY <1>2, <3>1 DEF Inv, EventsOK
  <2>3. handled' \in Seq(1 .. sent')
    BY <1>1, Wider DEF Inv, EventsOK
  <2>4. event' \in [Ids -> 0 .. sent']
    BY <1>1 DEF Inv, EventsOK
  <2>5. events' \in [Ids -> Seq(1 .. sent')] /\ sent' \in Nat
    BY <1>1, <2>1
  <2> QED  BY <2>2, <2>3, <2>4, <2>5 DEF EventsOK
<1>4. \A r \in Ids : \A n \in DOMAIN events'[r] :
         \/ n \in DOMAIN events[r] /\ events'[r][n] = events[r][n] /\ events[r][n] # sent'
         \/ r = q /\ n = Len(events[q]) + 1 /\ events'[r][n] = sent'
  <2> TAKE r \in Ids
  <2>1. events[r] \in Seq(1 .. sent)
    BY <1>1
  <2>2. \A n \in DOMAIN events[r] : events[r][n] # sent'
    BY <1>1, <2>1
  <2> QED  BY <1>1, <1>2, <2>1, <2>2, Appended
<1>5. (\A n \in DOMAIN handled : handled[n] # sent') /\ \A i \in Ids : event[i] # sent'
  BY <1>1 DEF Inv, EventsOK
<1>6. NoEventTwice'
  BY <1>4, <1>5 DEF Inv, NoEventTwice
<1> QED  BY <1>3, <1>6 DEF Inv

\* Where the event at place n of queue r was before queue q lost its oldest.
Old(q, r, n) == IF r = q THEN n + 1 ELSE n

Shift(q) ==
  \A r \in Ids : \A n \in DOMAIN events'[r] :
    /\ Old(q, r, n) \in DOMAIN events[r]
    /\ events'[r][n] = events[r][Old(q, r, n)]
    /\ r = q => Old(q, r, n) # 1
    /\ \A m \in DOMAIN events'[r] : Old(q, r, n) = Old(q, r, m) => n = m

\* What StillDifferent says of the events left in the queues.
Different(e) ==
  \A r \in Ids : \A m \in DOMAIN events'[r] :
    /\ \A n \in DOMAIN handled : handled[n] # events'[r][m]
    /\ \A i \in Ids : event[i] # events'[r][m]
    /\ events'[r][m] # e
    /\ \A t \in Ids : \A n \in DOMAIN events'[t] :
         events'[t][n] = events'[r][m] => t = r /\ n = m

\* A queue that loses its oldest event.
LEMMA Shortened ==
  ASSUME EventsOK, NEW q \in Ids, events[q] # <<>>, events' = [events EXCEPT ![q] = Tail(@)]
  PROVE  /\ events' \in [Ids -> Seq(1 .. sent)] /\ \A r \in Ids : Len(events'[r]) <= QueueSize
         /\ 1 \in DOMAIN events[q] /\ Head(events[q]) = events[q][1] /\ Head(events[q]) \in 1 .. sent
         /\ Shift(q)
<1>1. events[q] \in Seq(1 .. sent) /\ events'[q] = Tail(events[q])
      /\ \A r \in Ids \ {q} : events'[r] = events[r]
  BY DEF EventsOK
<1>2. \A r \in Ids : Len(events'[r]) <= QueueSize
  BY <1>1, Removed, BoundAssumption DEF EventsOK
<1>3. events' \in [Ids -> Seq(1 .. sent)]
  BY <1>1, Removed DEF EventsOK
<1>4. 1 \in DOMAIN events[q] /\ Head(events[q]) = events[q][1] /\ Head(events[q]) \in 1 .. sent
  BY <1>1, Removed
<1>5. ASSUME NEW r \in Ids, NEW n \in DOMAIN events'[r]
      PROVE  /\ Old(q, r, n) \in DOMAIN events[r]
             /\ events'[r][n] = events[r][Old(q, r, n)]
             /\ r = q => Old(q, r, n) # 1
             /\ \A m \in DOMAIN events'[r] : Old(q, r, n) = Old(q, r, m) => n = m
  <2>1. CASE r = q
    <3>1. \A i \in DOMAIN Tail(events[q]) :
             i + 1 \in DOMAIN events[q] /\ i + 1 # 1 /\ Tail(events[q])[i] = events[q][i + 1]
      BY <1>1, Removed
    <3>2. \A i, j \in DOMAIN Tail(events[q]) : i + 1 = j + 1 => i = j
      BY <1>1, Removed
    <3> QED  BY <1>1, <2>1, <3>1, <3>2 DEF Old
  <2>2. CASE r # q
    BY <1>1, <2>2 DEF Old
  <2> QED  BY <2>1, <2>2
<1> QED  BY <1>2, <1>3, <1>4, <1>5 DEF Shift

\* The events left in the queues were there, and none is there twice.
LEMMA StillDifferent ==
  ASSUME EventsOK, NoEventTwice, NEW q \in Ids, events[q] # <<>>,
         events' = [events EXCEPT ![q] = Tail(@)]
  PROVE  Different(Head(events[q]))
<1>0. Shift(q)
  BY Shortened
<1> SUFFICES ASSUME NEW r \in Ids, NEW m \in DOMAIN events'[r]
             PROVE  /\ \A n \in DOMAIN handled : handled[n] # events'[r][m]
                    /\ \A i \in Ids : event[i] # events'[r][m]
                    /\ events'[r][m] # Head(events[q])
                    /\ \A t \in Ids : \A n \in DOMAIN events'[t] :
                         events'[t][n] = events'[r][m] => t = r /\ n = m
  BY DEF Different
<1>1. /\ Old(q, r, m) \in DOMAIN events[r]
      /\ events'[r][m] = events[r][Old(q, r, m)]
      /\ r = q => Old(q, r, m) # 1
  BY <1>0 DEF Shift
<1>2. 1 \in DOMAIN events[q] /\ Head(events[q]) = events[q][1]
  BY Shortened
<1>3. /\ \A n \in DOMAIN handled : handled[n] # events'[r][m]
      /\ \A i \in Ids : event[i] # events'[r][m]
      /\ events'[r][m] # Head(events[q])
  BY <1>1, <1>2 DEF NoEventTwice
<1>4. ASSUME NEW t \in Ids, NEW n \in DOMAIN events'[t], events'[t][n] = events'[r][m]
      PROVE  t = r /\ n = m
  <2>1. Old(q, t, n) \in DOMAIN events[t] /\ events'[t][n] = events[t][Old(q, t, n)]
    BY <1>0 DEF Shift
  <2>2. t = r /\ Old(q, t, n) = Old(q, r, m)
    BY <1>1, <1>4, <2>1 DEF NoEventTwice
  <2> QED  BY <1>0, <2>2 DEF Shift
<1> QED  BY <1>3, <1>4

\* An event dropped from a queue.
LEMMA Drained ==
  ASSUME Inv, NEW q \in Ids, events[q] # <<>>, events' = [events EXCEPT ![q] = Tail(@)],
         UNCHANGED <<sent, event, handled>>
  PROVE  Inv'
<1>1. EventsOK /\ NoEventTwice
  BY DEF Inv
<1>2. EventsOK'
  BY <1>1, Shortened DEF EventsOK
<1>3. Different(Head(events[q]))
  BY <1>1, StillDifferent
<1>4. NoEventTwice'
  BY <1>1, <1>3 DEF NoEventTwice, Different
<1> QED  BY <1>2, <1>4 DEF Inv

\* A thread takes the event out of the queue.
LEMMA Taken ==
  ASSUME Inv, NEW i \in Ids, NEW q \in Ids, Receives(i, q), UNCHANGED <<sent, handled>>
  PROVE  Inv'
<1>1. /\ EventsOK /\ NoEventTwice
      /\ events[q] # <<>> /\ events' = [events EXCEPT ![q] = Tail(@)]
      /\ event' = [event EXCEPT ![i] = Head(events[q])]
  BY DEF Inv, Receives
<1>2. /\ event'[i] = Head(events[q]) /\ \A j \in Ids \ {i} : event'[j] = event[j]
      /\ 1 \in DOMAIN events[q] /\ Head(events[q]) = events[q][1] /\ Head(events[q]) \in 1 .. sent
  BY <1>1, Shortened DEF EventsOK
<1>3. EventsOK'
  <2>1. event' \in [Ids -> 0 .. sent]
    BY <1>1, <1>2 DEF EventsOK
  <2> QED  BY <1>1, <2>1, Shortened DEF EventsOK
<1>4. NoEventTwice'
  <2>1. \A j \in Ids : event'[j] # 0 =>
          /\ \A n \in DOMAIN handled : handled[n] # event'[j]
          /\ \A k \in Ids : event'[k] = event'[j] => k = j
    BY <1>1, <1>2 DEF NoEventTwice
  <2>2. \A r \in Ids : \A m \in DOMAIN events'[r] :
          /\ \A n \in DOMAIN handled : handled[n] # events'[r][m]
          /\ \A j \in Ids : event'[j] # events'[r][m]
          /\ \A t \in Ids : \A n \in DOMAIN events'[t] :
               events'[t][n] = events'[r][m] => t = r /\ n = m
    <3>1. Different(Head(events[q]))
      BY <1>1, StillDifferent
    <3> QED  BY <1>2, <3>1 DEF Different
  <2>3. \A m, n \in DOMAIN handled : handled[m] = handled[n] => m = n
    BY <1>1 DEF NoEventTwice
  <2> QED  BY <2>1, <2>2, <2>3 DEF NoEventTwice
<1> QED  BY <1>3, <1>4 DEF Inv

\* A wait without an event leaves nothing in the hand.
LEMMA TimedOut ==
  ASSUME Inv, NEW i \in Ids, event' = [event EXCEPT ![i] = 0], UNCHANGED <<sent, events, handled>>
  PROVE  Inv'
<1>1. EventsOK /\ NoEventTwice /\ event'[i] = 0 /\ \A j \in Ids \ {i} : event'[j] = event[j]
  BY DEF Inv, EventsOK
<1>2. EventsOK'
  BY <1>1 DEF EventsOK
<1>3. \A r \in Ids : \A m \in DOMAIN events[r] : events[r][m] # 0
  BY <1>1 DEF EventsOK
<1>4. NoEventTwice'
  BY <1>1, <1>3 DEF NoEventTwice
<1> QED  BY <1>2, <1>4 DEF Inv

\* An event goes from the hands of a thread to those handled.
LEMMA Handled ==
  ASSUME Inv, NEW i \in Ids, event[i] # 0, event' = [event EXCEPT ![i] = 0],
         handled' = Append(handled, event[i]), UNCHANGED <<sent, events>>
  PROVE  Inv'
<1>1. /\ EventsOK /\ NoEventTwice
      /\ event'[i] = 0 /\ (\A j \in Ids \ {i} : event'[j] = event[j])
      /\ event[i] \in 1 .. sent /\ handled \in Seq(1 .. sent)
  BY DEF Inv, EventsOK
<1>2. EventsOK'
  BY <1>1, Appended DEF EventsOK
<1>3. \A r \in Ids : \A m \in DOMAIN events[r] : events[r][m] # 0
  BY <1>1 DEF EventsOK
<1>4. \A n \in DOMAIN handled' :
         \/ n \in DOMAIN handled /\ handled'[n] = handled[n] /\ handled[n] # event[i]
         \/ n = Len(handled) + 1 /\ handled'[n] = event[i]
  BY <1>1, Appended DEF NoEventTwice
<1>5. NoEventTwice'
  BY <1>1, <1>3, <1>4 DEF NoEventTwice
<1> QED  BY <1>2, <1>5 DEF Inv

-------------------------------------------------------------------------------
(* The steps                                                               *)

IndInv == ControlOK /\ Inv

data == <<sent, events, event, handled>>

\* A step that touches no event.
LEMMA NoEvent ==
  ASSUME IndInv, UNCHANGED data, ControlOK'
  PROVE  IndInv'
  BY Same DEF IndInv, data

\* The end of the process.
LEMMA HaltStep ==
  ASSUME IndInv, NEW how \in {"reboot", "abort", "undefined"}, Halt(how)
  PROVE  IndInv'
<1>1. ControlOK' /\ UNCHANGED data
  BY DEF Halt, IndInv, ControlOK, service, heap, threads, clients, history, data
<1> QED  BY <1>1, NoEvent

Halts == \E how \in {"reboot", "abort", "undefined"} : Halt(how)

\* A call on a queue that is not there is one.
LEMMA MisuseHalts ==
  ASSUME NEW q, MisuseOfQueue(q)
  PROVE  Halts
  BY DEF MisuseOfQueue, Halts

(* Service_Start                                                           *)

\* The five steps of Service_Start.
LEMMA StartSteps ==
  ASSUME IndInv, NEW c \in Clients, CallStart(c) \/ StartStep(c)
  PROVE  IndInv'
<1>1. ControlOK
  BY DEF IndInv
<1>2. UNCHANGED data
  BY DEF CallStart, StartStep, SetRunning, NewQueue, CreateTask, Register, AssignTask,
         heap, threads, history, data
<1>3. CASE CallStart(c) \/ SetRunning(c)
  <2>1. \E to \in {"setRunning", "newQueue"} : cpc' = [cpc EXCEPT ![c] = to]
    BY <1>3 DEF CallStart, SetRunning, GoClient
  <2>2. state' \in {"STOPPED", "RUNNING"}
    BY <1>1, <1>3 DEF CallStart, SetRunning, service, ControlOK
  <2>3. UNCHANGED <<use, queue, task, sem, queues, tasks, registered, cancelled,
                    tpc, arg, driver, created, sys>>
    BY <1>3 DEF CallStart, SetRunning, GoClient, service, heap, threads
  <2> QED  BY <1>1, <1>2, <2>1, <2>2, <2>3, NoEvent DEF ControlOK, Starting
<1>4. CASE NewQueue(c)
  <2>1. PICK q \in Ids : queue' = q /\ queues' = [queues EXCEPT ![q] = "live"]
    BY <1>4 DEF NewQueue
  <2>2. /\ cpc' = [cpc EXCEPT ![c] = "createTask"]
        /\ UNCHANGED <<use, state, task, sem, tasks, registered, cancelled,
                       tpc, arg, driver, created, sys>>
    BY <1>4 DEF NewQueue, GoClient, threads
  <2> QED  BY <1>1, <1>2, <2>1, <2>2, NoEvent DEF ControlOK, Handles, Starting
<1>5. CASE CreateTask(c)
  <2>1. PICK i \in Ids : /\ created' = [created EXCEPT ![c] = i]
                         /\ tasks' = [tasks EXCEPT ![i] = "live"]
                         /\ tpc' = [tpc EXCEPT ![i] = "setup"]
    BY <1>5 DEF CreateTask
  <2>2. /\ \E to \in {"register", "assignTask"} : cpc' = [cpc EXCEPT ![c] = to]
        /\ UNCHANGED <<use, state, queue, task, sem, queues, registered, cancelled,
                       arg, driver, sys>>
    BY <1>5 DEF CreateTask, GoClient, service
  <2>3. /\ created' \in [Clients -> Handles(Ids)]
        /\ \A d \in Clients : cpc'[d] \in {"register", "assignTask"} => created'[d] \in Ids
    BY <1>1, <2>1, <2>2 DEF ControlOK, Handles
  <2>4. tasks' \in [Ids -> {"unused", "live", "freed"}]
    BY <1>1, <2>1 DEF ControlOK
  <2>5. tpc' \in [Ids -> CancellationPoints \cup
                         {"none", "check", "receive", "give",
                          "deleteQueue", "clearQueue", "dead"}]
    BY <1>1, <2>1 DEF ControlOK, CancellationPoints
  <2>6. cpc' \in [Clients -> {"idle", "take", "send", "drain"} \cup Starting]
    BY <1>1, <2>2 DEF ControlOK, Starting
  <2> QED  BY <1>1, <1>2, <2>2, <2>3, <2>4, <2>5, <2>6, NoEvent DEF ControlOK
<1>6. CASE Register(c)
  <2>1. /\ cpc[c] = "register" /\ cpc' = [cpc EXCEPT ![c] = "assignTask"]
        /\ registered' = registered \cup {created[c]}
        /\ UNCHANGED <<use, state, queue, task, sem, queues, tasks, cancelled,
                       tpc, arg, driver, created, sys>>
    BY <1>6 DEF Register, GoClient, service, threads
  <2> QED  BY <1>1, <1>2, <2>1, NoEvent DEF ControlOK, Handles, Starting
<1>7. CASE AssignTask(c)
  <2>1. /\ cpc' = [cpc EXCEPT ![c] = "idle"]
        /\ task' = created[c]
        /\ UNCHANGED <<use, state, queue, sem, queues, tasks, registered, cancelled,
                       tpc, arg, driver, created, sys>>
    BY <1>7 DEF AssignTask, GoClient, heap, threads
  <2> QED  BY <1>1, <1>2, <2>1, NoEvent DEF ControlOK, Handles
<1> QED  BY <1>3, <1>4, <1>5, <1>6, <1>7 DEF StartStep

(* The other calls                                                         *)

\* A client enters or leaves Service_Stop, Service_Notify or a wait.
LEMMA CallSteps ==
  ASSUME IndInv, NEW c \in Clients,
         CallStop(c) \/ TakeSemaphore(c) \/ CallNotify(c)
  PROVE  IndInv'
<1>1. ControlOK
  BY DEF IndInv
<1>2. /\ UNCHANGED data
      /\ \E to \in {"idle", "take", "send"} : cpc' = [cpc EXCEPT ![c] = to]
      /\ state' \in {state, "STOPPED"} /\ sem' \in {sem, "locked"}
      /\ UNCHANGED <<use, queue, task, queues, tasks, registered, cancelled,
                     tpc, arg, driver, created, sys>>
  BY DEF CallStop, TakeSemaphore, CallNotify, GoClient, service, heap, threads, history, data
<1> QED  BY <1>1, <1>2, NoEvent DEF ControlOK

\* Service_Notify: the event is queued, or the queue emptied one by one.
LEMMA SendSteps ==
  ASSUME IndInv, NEW c \in Clients, NotifyStep(c)
  PROVE  IndInv'
<1>1. ControlOK /\ Inv
  BY DEF IndInv
<1>2. CASE Halts
  BY <1>2, HaltStep DEF Halts
<1>3. CASE ~Halts
  <2>1. /\ queue # NULL
        /\ \E to \in {cpc[c], "idle", "drain"} : cpc' = [cpc EXCEPT ![c] = to]
        /\ UNCHANGED <<use, state, queue, task, sem, queues, tasks, registered, cancelled,
                       tpc, arg, driver, created, sys>>
        /\ \/ UNCHANGED data
           \/ ~Full(queue) /\ Accept(queue) /\ UNCHANGED <<event, handled>>
           \/ /\ events[queue] # <<>> /\ events' = [events EXCEPT ![queue] = Tail(@)]
              /\ UNCHANGED <<sent, event, handled>>
    <3>1. CASE NotifySend(c)
      BY <1>3, <3>1, MisuseHalts DEF NotifySend, Usable, GoClient, service, heap, threads,
         history, data
    <3>2. CASE NotifyDrain(c)
      <4>1. /\ queue # NULL /\ events[queue] # <<>>
            /\ events' = [events EXCEPT ![queue] = Tail(@)]
            /\ UNCHANGED <<state, queue, task, sem, queues, tasks, registered, cancelled>>
            /\ UNCHANGED <<use, tpc, arg, event, driver, cpc, created, sent, handled, sys>>
        BY <1>3, <3>2, MisuseHalts DEF NotifyDrain, DrainEnds, Halts, Usable, service, threads,
           clients, history
      <4>2. cpc' = [cpc EXCEPT ![c] = cpc[c]]
        BY <1>1, <4>1 DEF ControlOK
      <4> QED  BY <4>1, <4>2
    <3> QED  BY <3>1, <3>2 DEF NotifyStep
  <2>2. queue \in Ids
    BY <1>1, <2>1 DEF ControlOK, Handles
  <2>3. ControlOK'
    BY <1>1, <2>1 DEF ControlOK
  <2>4. Inv'
    BY <1>1, <2>1, <2>2, Same, Accepted, Drained DEF data
  <2> QED  BY <2>3, <2>4 DEF IndInv
<1> QED  BY <1>2, <1>3

\* The driver sends.
LEMMA DriverStep ==
  ASSUME IndInv, DriverSends
  PROVE  IndInv'
<1>1. ControlOK /\ Inv
  BY DEF IndInv
<1>2. CASE Halts
  BY <1>2, HaltStep DEF Halts
<1>3. CASE ~Halts
  <2>1. /\ driver # NULL /\ ~Full(driver) /\ Accept(driver)
        /\ UNCHANGED <<use, state, queue, task, sem, queues, tasks, registered, cancelled,
                       tpc, arg, event, driver, cpc, created, handled, sys>>
    BY <1>3, MisuseHalts DEF DriverSends, Halts, service, threads, clients
  <2>2. driver \in Ids
    BY <1>1, <2>1 DEF ControlOK, Handles
  <2>3. ControlOK'
    BY <1>1, <2>1 DEF ControlOK
  <2> QED  BY <1>1, <2>1, <2>2, <2>3, Accepted DEF IndInv
<1> QED  BY <1>2, <1>3

(* Service_Main                                                            *)

Points == CancellationPoints \cup {"none", "check", "receive", "give",
                                   "deleteQueue", "clearQueue", "dead"}

\* Thread i moves on and nothing of the control changes but, at most, the
\* driver's handle, the semaphore, the queue's handle, or what it waits on.
LEMMA GoStep ==
  ASSUME ControlOK, NEW i \in Ids, NEW to \in Points, tpc' = [tpc EXCEPT ![i] = to],
         driver' \in {driver, queue}, sem' \in {sem, "unlocked"}, queue' \in {queue, NULL},
         arg' = arg \/ arg' = [arg EXCEPT ![i] = queue],
         UNCHANGED <<use, state, task, queues, tasks, registered, cancelled, cpc, created, sys>>
  PROVE  ControlOK'
<1>1. tpc' \in [Ids -> Points]
  BY DEF ControlOK, Points
<1>2. arg' \in [Ids -> Handles(Ids)]
  BY DEF ControlOK
<1> QED  BY <1>1, <1>2 DEF ControlOK, Points, Handles

\* Steps of the thread that touch neither events nor the heap.
LEMMA PlainSteps ==
  ASSUME IndInv, NEW i \in Ids,
         Setup(i) \/ MainReturns(i) \/ CheckState(i) \/ Teardown(i) \/ ClearQueue(i)
  PROVE  IndInv'
<1>1. PICK to \in Points : tpc' = [tpc EXCEPT ![i] = to]
  BY DEF Setup, MainReturns, CheckState, Teardown, ClearQueue, Go, Points, CancellationPoints
<1>2. /\ UNCHANGED data
      /\ driver' \in {driver, queue} /\ queue' \in {queue, NULL}
      /\ UNCHANGED <<use, state, task, sem, queues, tasks, registered, cancelled, arg,
                     cpc, created, sys>>
  BY DEF Setup, MainReturns, CheckState, Teardown, ClearQueue, AfterDelete, Go,
         service, heap, clients, history, data
<1> QED  BY <1>1, <1>2, GoStep, NoEvent DEF IndInv

\* The termination semaphore is given.
LEMMA GiveStep ==
  ASSUME IndInv, NEW i \in Ids, GiveSemaphore(i)
  PROVE  IndInv'
<1>1. CASE Halts
  BY <1>1, HaltStep DEF Halts
<1>2. CASE ~Halts
  <2>1. /\ tpc' = [tpc EXCEPT ![i] = "deleteTask"] /\ sem' = "unlocked" /\ UNCHANGED data
        /\ UNCHANGED <<use, state, queue, task, queues, tasks, registered, cancelled, arg,
                       driver, cpc, created, sys>>
    BY <1>2 DEF GiveSemaphore, Halts, Go, heap, clients, history, data
  <2> QED  BY <2>1, GoStep, NoEvent DEF IndInv, Points, CancellationPoints
<1> QED  BY <1>1, <1>2

\* The thread calls Queue_Receive, and the call returns.
LEMMA ReceiveSteps ==
  ASSUME IndInv, NEW i \in Ids, CallReceive(i) \/ WaitEnds(i)
  PROVE  IndInv'
<1>1. ControlOK /\ Inv
  BY DEF IndInv
<1>2. CASE Halts
  BY <1>2, HaltStep DEF Halts
<1>3. CASE ~Halts
  <2>1. /\ \E to \in {"handle", "wait"} : tpc' = [tpc EXCEPT ![i] = to]
        /\ arg' = arg \/ arg' = [arg EXCEPT ![i] = queue]
        /\ UNCHANGED <<use, state, queue, task, sem, queues, tasks, registered, cancelled,
                       driver, cpc, created, sys>>
        /\ \/ UNCHANGED data
           \/ \E q \in {queue, arg[i]} : q # NULL /\ Receives(i, q) /\ UNCHANGED <<sent, handled>>
           \/ event' = [event EXCEPT ![i] = 0] /\ UNCHANGED <<sent, events, handled>>
    <3>1. CASE CallReceive(i)
      BY <1>3, <3>1, MisuseHalts DEF CallReceive, Receives, Usable, Go, service, heap, clients,
         history, data
    <3>2. CASE WaitEnds(i)
      BY <1>3, <3>2, MisuseHalts DEF WaitEnds, Receives, Usable, Go, service, heap, clients,
         history, data
    <3> QED  BY <3>1, <3>2
  <2>2. ControlOK'
    <3>1. PICK to \in Points : tpc' = [tpc EXCEPT ![i] = to]
      BY <2>1 DEF Points, CancellationPoints
    <3> QED  BY <1>1, <2>1, <3>1, GoStep
  <2>3. Inv'
    <3>1. \A q \in {queue, arg[i]} : q # NULL => q \in Ids
      BY <1>1 DEF ControlOK, Handles
    <3> QED  BY <1>1, <2>1, <3>1, Same, Taken, TimedOut DEF data
  <2> QED  BY <2>2, <2>3 DEF IndInv
<1> QED  BY <1>2, <1>3

\* The event in the hand is handled.
LEMMA HandleStep ==
  ASSUME IndInv, NEW i \in Ids, Handle(i)
  PROVE  IndInv'
<1>1. ControlOK /\ Inv
  BY DEF IndInv
<1>2. /\ tpc' = [tpc EXCEPT ![i] = "check"]
      /\ handled' = IF event[i] = 0 THEN handled ELSE Append(handled, event[i])
      /\ event' = [event EXCEPT ![i] = 0]
      /\ UNCHANGED <<use, state, queue, task, sem, queues, tasks, registered, cancelled, arg,
                     driver, cpc, created, sent, events, sys>>
  BY DEF Handle, Go, service, heap, clients
<1>3. ControlOK'
  BY <1>1, <1>2, GoStep DEF Points
<1>4. Inv'
  BY <1>1, <1>2, TimedOut, Handled
<1> QED  BY <1>3, <1>4 DEF IndInv

\* A thread that deletes a task, or a queue, or that dies.
LEMMA DeleteSteps ==
  ASSUME IndInv, NEW i \in Ids, DeleteTask(i) \/ DeleteQueue(i) \/ Cancelled(i)
  PROVE  IndInv'
<1>1. ControlOK
  BY DEF IndInv
<1>2. CASE Halts
  BY <1>2, HaltStep DEF Halts
<1>3. CASE ~Halts
  <2>1. UNCHANGED data
    BY <1>3 DEF DeleteTask, DeletePosix, DeleteEsp32, DeleteQueue, Cancelled, Halts,
       service, heap, clients, history, data
  <2>2. UNCHANGED <<use, state, queue, task, sem, arg, driver, cpc, created, sys>>
    BY <1>3 DEF DeleteTask, DeletePosix, DeleteEsp32, DeleteQueue, Cancelled, Halts, Go,
       service, heap, clients, history
  <2>3. tpc' \in [Ids -> Points]
    <3>1. CASE \E to \in Points : tpc' = [tpc EXCEPT ![i] = to]
      BY <1>1, <3>1 DEF ControlOK, Points
    <3>2. CASE \E t : tpc' = [tpc EXCEPT ![i] = "deleteQueue", ![t] = "dead"]
      BY <1>1, <3>2 DEF ControlOK, Points
    <3> QED  BY <1>3, <3>1, <3>2 DEF DeleteTask, DeletePosix, DeleteEsp32, DeleteQueue, Cancelled,
                Halts, Go, Points, CancellationPoints
  <2>4. /\ tasks' = tasks \/ \E t : tasks' = [tasks EXCEPT ![t] = "freed"]
        /\ registered' \subseteq registered
        /\ cancelled' = cancelled \/ \E t \in Ids : cancelled' = cancelled \cup {t}
    <3>1. CASE DeleteTask(i)
      <4>1. task # NULL => task \in Ids
        BY <1>1 DEF ControlOK, Handles
      <4> QED  BY <1>3, <3>1, <4>1 DEF DeleteTask, DeletePosix, DeleteEsp32, Halts, heap
    <3>2. CASE DeleteQueue(i) \/ Cancelled(i)
      BY <1>3, <3>2 DEF DeleteQueue, Cancelled, Halts
    <3> QED  BY <3>1, <3>2
  <2>5. tasks' \in [Ids -> {"unused", "live", "freed"}]
    BY <1>1, <2>4 DEF ControlOK
  <2>6. queues' \in [Ids -> {"unused", "live", "freed", "jammed"}]
    BY <1>1, <1>3 DEF DeleteTask, DeletePosix, DeleteEsp32, DeleteQueue, Cancelled, Halts,
       heap, ControlOK
  <2>7. ControlOK'
    BY <1>1, <2>2, <2>3, <2>4, <2>5, <2>6 DEF ControlOK, Points
  <2> QED  BY <2>1, <2>7, NoEvent
<1> QED  BY <1>2, <1>3

-------------------------------------------------------------------------------
(* The theorems                                                            *)

\* Nothing is there initially.
LEMMA Base == Init => IndInv
<1> SUFFICES ASSUME Init PROVE IndInv
  OBVIOUS
<1>1. \A S : <<>> \in Seq(S) /\ Len(<<>>) = 0 /\ DOMAIN <<>> = {}
  OBVIOUS
<1>2. ControlOK
  BY DEF Init, ControlOK, Handles, CancellationPoints
<1>3. EventsOK
  <2>1. events \in [Ids -> Seq(1 .. sent)] /\ handled \in Seq(1 .. sent)
    BY <1>1 DEF Init
  <2>2. \A q \in Ids : Len(events[q]) <= QueueSize
    BY <1>1, BoundAssumption DEF Init
  <2>3. event \in [Ids -> 0 .. sent] /\ sent \in Nat
    BY DEF Init
  <2> QED  BY <2>1, <2>2, <2>3 DEF EventsOK
<1>4. NoEventTwice
  BY <1>1 DEF Init, NoEventTwice
<1> QED  BY <1>2, <1>3, <1>4 DEF IndInv, Inv

\* The actions together.
LEMMA Inductive == IndInv /\ [Next]_vars => IndInv'
<1> SUFFICES ASSUME IndInv, [Next]_vars PROVE IndInv'
  OBVIOUS
<1>1. use \in UseRecord
  BY UseAssumption DEF IndInv, ControlOK
<1>2. use.starters \subseteq Clients /\ use.stoppers \subseteq Clients
      /\ use.notifiers \subseteq Clients /\ use.waiters \subseteq Clients
  BY <1>1 DEF UseRecord
<1>3. ASSUME NEW i \in Ids, ThreadStep(i) \/ MainReturns(i)
      PROVE  IndInv'
  BY <1>3, PlainSteps, GiveStep, ReceiveSteps, HandleStep, DeleteSteps DEF ThreadStep
<1>4. ASSUME NEW c \in use.starters, CallStart(c) \/ StartStep(c) \/ StartFails(c)
      PROVE  IndInv'
  <2>1. CASE StartFails(c)
    BY <2>1, HaltStep DEF StartFails
  <2> QED  BY <1>2, <1>4, <2>1, StartSteps
<1>5. ASSUME NEW c \in Clients, CallStop(c) \/ CallNotify(c) \/ NotifyStep(c) \/ TakeSemaphore(c)
      PROVE  IndInv'
  BY <1>5, CallSteps, SendSteps
<1>6. CASE UNCHANGED vars
  <2>1. ControlOK' /\ UNCHANGED data
    BY <1>6 DEF vars, IndInv, ControlOK, service, heap, threads, clients, history, data
  <2> QED  BY <2>1, NoEvent
<1> QED  BY <1>2, <1>3, <1>4, <1>5, <1>6, DriverStep DEF Next

\* The invariant holds always.
LEMMA Invariance == Spec => []IndInv
  BY Base, Inductive, PTL DEF Spec

\* The types are right in every reachable state, and a queue is never longer than
\* it was made, in every use of a service.
THEOREM TypeCorrect == Spec => []TypeOK
<1>1. IndInv => TypeOK
  BY Halves DEF IndInv, Inv
<1> QED  BY <1>1, Invariance, PTL

\* No use of a service, proper or not, makes it handle an event twice: not two
\* tasks on one queue, nor Service_Notify emptying the queue, nor a restart.
THEOREM EventsHandledOnce == Spec => []NoEventTwice
<1>1. IndInv => NoEventTwice
  BY DEF IndInv, Inv
<1> QED  BY <1>1, Invariance, PTL
===============================================================================
