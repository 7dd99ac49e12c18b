-------------------------------- MODULE Service --------------------------------
(***************************************************************************)
(* One service of core/service.c: the thread that runs Service_Main, the   *)
(* clients that call Service_Start, Service_Stop and Service_Notify on it, *)
(* a client that takes the termination semaphore, and the driver to which  *)
(* the setup hook hands the service's queue (the button's interrupt, the   *)
(* WiFi event loop).                                                       *)
(*                                                                         *)
(* Queues and tasks are handles into a heap, so that a handle may be NULL, *)
(* live or freed when it is used.  A call on a queue is one step, which    *)
(* PosixQueueProofs justifies for the POSIX adapter.  Task_Create,         *)
(* Task_Delete, Queue_Delete and Semaphore_Give are those of the adapter   *)
(* named by the use.  The machine runs until sys changes: a reboot        *)
(* (the ON_..._REBOOT macros), an abort (assert), or undefined behaviour.  *)
(***************************************************************************)
EXTENDS Naturals, Sequences, FiniteSets

CONSTANTS
  Clients,        \* the threads that call the service
  Uses,           \* the uses of a service that are considered
  QueueSize,      \* SERVICE_QUEUE_SIZE
  MaxStarts,      \* bound: starts that get past the check of the state
  MaxEvents,      \* bound: events accepted by the queues
  NULL

Ids == 1 .. MaxStarts

(***************************************************************************)
(* A use of a service: the adapter, what its definition sets, and which of *)
(* its clients call what.  The waiters take the termination semaphore      *)
(* after they have stopped the service.                                    *)
(***************************************************************************)
UseRecord ==
  [platform : {"posix", "esp32"},
   main : BOOLEAN,            \* service->main is set; if not, handler is
   semaphore : BOOLEAN,       \* service->terminationSemaphore is set
   driver : BOOLEAN,          \* the setup hook hands the queue to a driver
   starters : SUBSET Clients, stoppers : SUBSET Clients,
   notifiers : SUBSET Clients, waiters : SUBSET Clients,
   starts : Ids]              \* bound: starts in this use

\* Started at most once: by one client, that cannot start it again.
SingleStart(u) ==
  /\ \A c, d \in u.starters : c = d
  /\ u.stoppers = {} \/ u.starts = 1

\* A use that service.c can be relied on for: one client makes all the calls, and
\* a service that ends has a semaphore to give and is held by nobody else.
Proper(u) ==
  /\ SingleStart(u)
  /\ \A c, d \in u.starters \cup u.stoppers \cup u.notifiers : c = d
  /\ u.main \/ u.stoppers # {} => u.semaphore /\ ~u.driver
  /\ u.main => u.notifiers = {}

ASSUME UseAssumption == Uses \subseteq UseRecord
ASSUME BoundAssumption ==
  /\ QueueSize \in Nat \ {0}
  /\ MaxStarts \in Nat \ {0}
  /\ MaxEvents \in Nat
  /\ NULL \notin Ids /\ NULL \notin {"locked", "unlocked"}

VARIABLES
  use,        \* the use of the service, which does not change
  state,      \* service->state
  queue,      \* service->queue
  task,       \* service->task
  sem,        \* service->terminationSemaphore: NULL, "locked" or "unlocked"
  queues,     \* queues[q]: "unused", "live", "freed" or "jammed"
  events,     \* events[q]: the messages in queue q, oldest first
  tasks,      \* tasks[i]: "unused", "live" or "freed", the task structure
  registered, \* the tasks in the table TASKS (POSIX)
  cancelled,  \* the threads with a pending pthread_cancel
  tpc,        \* where thread i is in Service_Main
  arg,        \* arg[i]: the queue thread i waits on, in Queue_Receive
  event,      \* event[i]: the event thread i received, 0 for EVENT_TIMEOUT
  driver,     \* the queue handle the driver keeps
  cpc,        \* where client c is in a call on the service
  created,    \* created[c]: what Task_Create returns to client c
  sent,       \* events accepted so far: they are numbered in that order
  handled,    \* the events given to the handler, in that order
  sys         \* "up", "reboot", "abort" or "undefined"

service == <<state, queue, task, sem>>
heap == <<queues, events, tasks, registered, cancelled>>
threads == <<tpc, arg, event>>
clients == <<cpc, created>>
history == <<sent, handled>>
vars == <<use, service, heap, threads, driver, clients, history, sys>>

Init ==
  /\ use \in Uses
  /\ state = "STOPPED" /\ queue = NULL /\ task = NULL
  /\ sem = IF use.semaphore THEN "locked" ELSE NULL
  /\ queues = [q \in Ids |-> "unused"]
  /\ events = [q \in Ids |-> <<>>]
  /\ tasks = [i \in Ids |-> "unused"]
  /\ registered = {} /\ cancelled = {}
  /\ tpc = [i \in Ids |-> "none"]
  /\ arg = [i \in Ids |-> NULL]
  /\ event = [i \in Ids |-> 0]
  /\ driver = NULL
  /\ cpc = [c \in Clients |-> "idle"]
  /\ created = [c \in Clients |-> NULL]
  /\ sent = 0 /\ handled = <<>>
  /\ sys = "up"

-------------------------------------------------------------------------------
(* Helpers                                                                 *)

\* The machine stops.
Halt(how) ==
  /\ sys' = how
  /\ UNCHANGED <<use, service, heap, threads, driver, clients, history>>

\* Thread i moves on in Service_Main.
Go(i, from, to) ==
  /\ sys = "up" /\ UNCHANGED <<use, sys>>
  /\ tpc[i] = from
  /\ tpc' = [tpc EXCEPT ![i] = to]

\* Client c moves on in a call.
GoClient(c, from, to) ==
  /\ sys = "up" /\ UNCHANGED <<use, sys>>
  /\ cpc[c] = from
  /\ cpc' = [cpc EXCEPT ![c] = to]

\* A use of queue handle q that does not reach the queue: assert(queue != NULL)
\* fails, or the memory has been freed.
MisuseOfQueue(q) ==
  \/ q = NULL /\ Halt("abort")
  \/ q # NULL /\ queues[q] = "freed" /\ Halt("undefined")

\* The queue can be used: a jammed one blocks its callers for ever.
Usable(q) == q # NULL /\ queues[q] = "live"

\* Mutant of Full: off by one.
FullLate(q) == Len(events[q]) > QueueSize

Full(q) == Len(events[q]) >= QueueSize

\* Mutant of Accept: the newest message overtakes the others.
AcceptFirst(q) ==
  /\ sent' = sent + 1
  /\ events' = [events EXCEPT ![q] = <<sent + 1>> \o @]

\* Mutant of Accept: the newest message overwrites the others.
AcceptOverwrites(q) ==
  /\ sent' = sent + 1
  /\ events' = [events EXCEPT ![q] = <<sent + 1>>]

\* Queue_Send on a queue with room.
Accept(q) ==
  /\ sent' = sent + 1
  /\ events' = [events EXCEPT ![q] = Append(@, sent + 1)]

\* i is the next identifier of function f to be used: StartsLeft leaves one.
Fresh(f, i) == f[i] = "unused" /\ \A j \in 1 .. (i - 1) : f[j] # "unused"

-------------------------------------------------------------------------------
(* Service_Start                                                           *)

Starting == {"setRunning", "newQueue", "createTask", "register", "assignTask"}

\* Mutant of NotStarted: Service_Start starts whatever the state.
AlwaysStart == TRUE

NotStarted == state = "STOPPED"

\* Bound: the queues created and those about to be.
StartsLeft ==
  Cardinality({q \in Ids : queues[q] # "unused"})
    + Cardinality({c \in Clients : cpc[c] \in {"setRunning", "newQueue"}}) < use.starts

\* A service that is already running is left alone, which changes nothing.
CallStart(c) ==
  /\ NotStarted /\ StartsLeft
  /\ GoClient(c, "idle", "setRunning")
  /\ UNCHANGED <<service, heap, threads, driver, created, history>>

SetRunning(c) ==
  /\ GoClient(c, "setRunning", "newQueue")
  /\ state' = "RUNNING"
  /\ UNCHANGED <<queue, task, sem, heap, threads, driver, created, history>>

NewQueue(c) ==
  /\ GoClient(c, "newQueue", "createTask")
  /\ \E q \in Ids :
       /\ Fresh(queues, q)
       /\ queue' = q
       /\ queues' = [queues EXCEPT ![q] = "live"]
  /\ UNCHANGED <<state, task, sem, events, tasks, registered, cancelled>>
  /\ UNCHANGED <<threads, driver, created, history>>

\* The new thread may run from here on, before Task_Create has returned.
CreateTask(c) ==
  /\ GoClient(c, "createTask", IF use.platform = "posix" THEN "register" ELSE "assignTask")
  /\ \E i \in Ids :
       /\ Fresh(tasks, i)
       /\ created' = [created EXCEPT ![c] = i]
       /\ tasks' = [tasks EXCEPT ![i] = "live"]
       /\ tpc' = [tpc EXCEPT ![i] = "setup"]
  /\ UNCHANGED <<service, queues, events, registered, cancelled>>
  /\ UNCHANGED <<arg, event, driver, history>>

\* Queue_New or Task_Create finds no memory: ON_NULL_REBOOT.
StartFails(c) ==
  /\ sys = "up"
  /\ cpc[c] \in {"newQueue", "createTask"}
  /\ Halt("reboot")

\* The POSIX adapter enters the task in TASKS.
Register(c) ==
  /\ GoClient(c, "register", "assignTask")
  /\ registered' = registered \cup {created[c]}
  /\ UNCHANGED <<service, queues, events, tasks, cancelled>>
  /\ UNCHANGED <<threads, driver, created, history>>

AssignTask(c) ==
  /\ GoClient(c, "assignTask", "idle")
  /\ task' = created[c]
  /\ UNCHANGED <<state, queue, sem, heap, threads, driver, created, history>>

-------------------------------------------------------------------------------
(* Service_Stop, Service_Notify, Semaphore_Take and the driver             *)

\* Stopping a stopped service changes nothing.
CallStop(c) ==
  /\ state # "STOPPED"
  /\ GoClient(c, "idle", IF c \in use.waiters THEN "take" ELSE "idle")
  /\ state' = "STOPPED"
  /\ UNCHANGED <<queue, task, sem, heap, threads, driver, created, history>>

\* Semaphore_Take succeeds; a Take that times out changes nothing.
TakeSemaphore(c) ==
  /\ sem = "unlocked"
  /\ GoClient(c, "take", "idle")
  /\ sem' = "locked"
  /\ UNCHANGED <<state, queue, task, heap, threads, driver, created, history>>

\* Bound: the events accepted and those about to be sent.
EventsLeft == sent + Cardinality({c \in Clients : cpc[c] = "send"}) < MaxEvents

\* Mutant of NotifyAllowed: the state is not looked at.
NotifyAlways == TRUE

NotifyAllowed == state # "STOPPED"

CallNotify(c) ==
  /\ NotifyAllowed /\ EventsLeft
  /\ GoClient(c, "idle", "send")
  /\ UNCHANGED <<service, heap, threads, driver, created, history>>

NotifySend(c) ==
  /\ sys = "up" /\ cpc[c] = "send"
  /\ \/ MisuseOfQueue(queue)
     \/ /\ Usable(queue) /\ Full(queue)
        /\ GoClient(c, "send", "drain")
        /\ UNCHANGED <<service, heap, threads, driver, created, history>>
     \/ /\ Usable(queue) /\ ~Full(queue)
        /\ Accept(queue)
        /\ GoClient(c, "send", "idle")
        /\ UNCHANGED <<service, queues, tasks, registered, cancelled>>
        /\ UNCHANGED <<threads, driver, created, handled>>

\* Mutant of DrainEnds: the loop has overwritten the error with SUCCESS.
DrainReturns(c) ==
  /\ GoClient(c, "drain", "idle")
  /\ UNCHANGED <<service, heap, threads, driver, created, history>>

\* ON_ERROR_REBOOT(error), with the error of Queue_Send.
DrainEnds(c) == Halt("reboot")

\* The loop that empties the queue for the log, and what comes after it.
NotifyDrain(c) ==
  /\ sys = "up" /\ cpc[c] = "drain"
  /\ \/ MisuseOfQueue(queue)
     \/ /\ Usable(queue) /\ events[queue] # <<>>
        /\ events' = [events EXCEPT ![queue] = Tail(@)]
        /\ UNCHANGED <<service, queues, tasks, registered, cancelled>>
        /\ UNCHANGED <<use, threads, driver, clients, history, sys>>
     \/ Usable(queue) /\ events[queue] = <<>> /\ DrainEnds(c)

\* The driver sends an event to the queue it was given, and reboots when it
\* cannot.
DriverSends ==
  /\ sys = "up" /\ driver # NULL /\ EventsLeft
  /\ \/ MisuseOfQueue(driver)
     \/ Usable(driver) /\ Full(driver) /\ Halt("reboot")
     \/ /\ Usable(driver) /\ ~Full(driver)
        /\ Accept(driver)
        /\ UNCHANGED <<service, queues, tasks, registered, cancelled>>
        /\ UNCHANGED <<use, threads, driver, clients, handled, sys>>

-------------------------------------------------------------------------------
(* Service_Main                                                            *)

\* The setup hook.
Setup(i) ==
  /\ Go(i, "setup", IF use.main THEN "main" ELSE "check")
  /\ driver' = IF use.driver THEN queue ELSE driver
  /\ UNCHANGED <<service, heap, arg, event, clients, history>>

\* service->main gives up, as the network console does when a socket call fails.
MainReturns(i) ==
  /\ Go(i, "main", "teardown")
  /\ UNCHANGED <<service, heap, arg, event, driver, clients, history>>

\* Mutant of Continues: the condition is inverted.
ContinuesStopped == state # "RUNNING"

\* Mutant of Continues: the loop does not look at the state.
ContinuesForever == TRUE

Continues == state = "RUNNING"

CheckState(i) ==
  /\ Go(i, "check", IF Continues THEN "receive" ELSE "teardown")
  /\ UNCHANGED <<service, heap, arg, event, driver, clients, history>>

\* Mutant of Receives: the event stays in the queue.
ReceivesCopy(i, q) ==
  /\ Usable(q) /\ events[q] # <<>>
  /\ event' = [event EXCEPT ![i] = Head(events[q])]
  /\ UNCHANGED events

\* Thread i gets the oldest event of queue q out of Queue_Receive.
Receives(i, q) ==
  /\ Usable(q) /\ events[q] # <<>>
  /\ event' = [event EXCEPT ![i] = Head(events[q])]
  /\ events' = [events EXCEPT ![q] = Tail(@)]

\* The call of Queue_Receive, up to the wait.
CallReceive(i) ==
  /\ sys = "up" /\ tpc[i] = "receive"
  /\ \/ MisuseOfQueue(queue)
     \/ /\ Receives(i, queue)
        /\ Go(i, "receive", "handle")
        /\ UNCHANGED <<service, queues, tasks, registered, cancelled>>
        /\ UNCHANGED <<arg, driver, clients, history>>
     \/ /\ Usable(queue) /\ events[queue] = <<>>
        /\ Go(i, "receive", "wait")
        /\ arg' = [arg EXCEPT ![i] = queue]
        /\ UNCHANGED <<service, heap, event, driver, clients, history>>

\* The wait on the empty queue ends with an event or with the timeout.
WaitEnds(i) ==
  /\ sys = "up" /\ tpc[i] = "wait"
  /\ \/ MisuseOfQueue(arg[i])
     \/ /\ Receives(i, arg[i])
        /\ Go(i, "wait", "handle")
        /\ UNCHANGED <<service, queues, tasks, registered, cancelled>>
        /\ UNCHANGED <<arg, driver, clients, history>>
     \/ /\ Usable(arg[i])
        /\ Go(i, "wait", "handle")
        /\ event' = [event EXCEPT ![i] = 0]
        /\ UNCHANGED <<service, heap, arg, driver, clients, history>>

Handle(i) ==
  /\ Go(i, "handle", "check")
  /\ handled' = IF event[i] = 0 THEN handled ELSE Append(handled, event[i])
  /\ event' = [event EXCEPT ![i] = 0]
  /\ UNCHANGED <<service, heap, arg, driver, clients, sent>>

Teardown(i) ==
  /\ Go(i, "teardown", "give")
  /\ UNCHANGED <<service, heap, arg, event, driver, clients, history>>

\* Semaphore_Give(service->terminationSemaphore), which asserts that there is
\* one.  On FreeRTOS giving a semaphore that is already given fails, and the
\* caller reboots.
GiveSemaphore(i) ==
  /\ sys = "up" /\ tpc[i] = "give"
  /\ \/ sem = NULL /\ Halt("abort")
     \/ sem = "unlocked" /\ use.platform = "esp32" /\ Halt("reboot")
     \/ /\ sem # NULL /\ ~(sem = "unlocked" /\ use.platform = "esp32")
        /\ Go(i, "give", "deleteTask")
        /\ sem' = "unlocked"
        /\ UNCHANGED <<state, queue, task, heap, arg, event, driver, clients, history>>

\* pthread_cancel reaches itself only at a cancellation point, so that a
\* thread deleting itself goes on: the structure is freed, the thread is not
\* gone yet.  Task_Delete(NULL) looks the caller up in TASKS.
DeletePosix(i) ==
  LET target == IF task # NULL THEN task
                ELSE IF i \in registered THEN i ELSE NULL
  IN \/ target # NULL /\ tasks[target] = "freed" /\ Halt("undefined")
     \/ /\ target = NULL
        /\ Go(i, "deleteTask", "deleteQueue")
        /\ UNCHANGED <<service, heap, arg, event, driver, clients, history>>
     \/ /\ target # NULL /\ tasks[target] = "live"
        /\ Go(i, "deleteTask", "deleteQueue")
        /\ tasks' = [tasks EXCEPT ![target] = "freed"]
        /\ registered' = registered \ {target}
        /\ cancelled' = cancelled \cup {target}
        /\ UNCHANGED <<service, queues, events, arg, event, driver, clients, history>>

\* vTaskDelete removes its target at once, and does not return when that is
\* the caller, whose handle NULL stands for.
DeleteEsp32(i) ==
  LET target == IF task # NULL THEN task ELSE i
  IN \/ tasks[target] = "freed" /\ Halt("undefined")
     \/ /\ tasks[target] = "live"
        /\ sys = "up" /\ UNCHANGED <<use, sys>>
        /\ tpc' = IF target = i THEN [tpc EXCEPT ![i] = "dead"]
                  ELSE [tpc EXCEPT ![i] = "deleteQueue", ![target] = "dead"]
        /\ tasks' = [tasks EXCEPT ![target] = "freed"]
        /\ UNCHANGED <<service, queues, events, registered, cancelled>>
        /\ UNCHANGED <<arg, event, driver, clients, history>>

DeleteTask(i) ==
  /\ sys = "up" /\ tpc[i] = "deleteTask"
  /\ \/ use.platform = "posix" /\ DeletePosix(i)
     \/ use.platform = "esp32" /\ DeleteEsp32(i)

\* Mutant of AfterDelete: the field is left as it was.
KeepHandle == queue

\* service->queue after the memset.
AfterDelete == NULL

\* Queue_Delete(service->queue), which ignores NULL.
DeleteQueue(i) ==
  /\ sys = "up" /\ tpc[i] = "deleteQueue"
  /\ \/ queue # NULL /\ queues[queue] = "freed" /\ Halt("undefined")
     \/ /\ queue # NULL => queues[queue] # "freed"
        /\ Go(i, "deleteQueue", "clearQueue")
        /\ queues' = [q \in Ids |-> IF q = queue THEN "freed" ELSE queues[q]]
        /\ UNCHANGED <<service, events, tasks, registered, cancelled>>
        /\ UNCHANGED <<arg, event, driver, clients, history>>

ClearQueue(i) ==
  /\ Go(i, "clearQueue", "sleep")
  /\ queue' = AfterDelete
  /\ UNCHANGED <<state, task, sem, heap, arg, event, driver, clients, history>>

\* The control points where Service_Main reaches a cancellation point: a wait,
\* a sleep, a log line, or a system call of a hook, main or the handler.
CancellationPoints ==
  {"setup", "main", "wait", "handle", "teardown", "deleteTask", "sleep"}

\* A pending cancellation takes effect.  In pthread_cond_timedwait the thread
\* dies holding the mutex of the queue again, and nothing unlocks it.
Cancelled(i) ==
  /\ i \in cancelled
  /\ tpc[i] \in CancellationPoints
  /\ Go(i, tpc[i], "dead")
  /\ queues' = [q \in Ids |-> IF tpc[i] = "wait" /\ q = arg[i] /\ queues[q] = "live"
                              THEN "jammed" ELSE queues[q]]
  /\ UNCHANGED <<service, events, tasks, registered, cancelled>>
  /\ UNCHANGED <<arg, event, driver, clients, history>>

-------------------------------------------------------------------------------
\* The steps thread i owes; main may run for ever.
ThreadStep(i) ==
  \/ Setup(i) \/ CheckState(i) \/ CallReceive(i) \/ WaitEnds(i) \/ Handle(i)
  \/ Teardown(i) \/ GiveSemaphore(i) \/ DeleteTask(i) \/ DeleteQueue(i)
  \/ ClearQueue(i) \/ Cancelled(i)

\* The steps client c owes once it has made a call.
StartStep(c) ==
  SetRunning(c) \/ NewQueue(c) \/ CreateTask(c) \/ Register(c) \/ AssignTask(c)
NotifyStep(c) == NotifySend(c) \/ NotifyDrain(c)

Next ==
  \/ \E i \in Ids : ThreadStep(i) \/ MainReturns(i)
  \/ \E c \in use.starters : CallStart(c) \/ StartStep(c) \/ StartFails(c)
  \/ \E c \in use.stoppers : CallStop(c)
  \/ \E c \in use.notifiers : CallNotify(c) \/ NotifyStep(c)
  \/ \E c \in use.waiters : TakeSemaphore(c)
  \/ DriverSends

Spec == Init /\ [][Next]_vars

(***************************************************************************)
(* Both schedulers run every thread that can run, and every wait has a     *)
(* timeout.  Nobody is obliged to make a call, main is not obliged to      *)
(* return, and a driver sends when it likes.                               *)
(***************************************************************************)
Fairness ==
  /\ \A i \in Ids : WF_vars(ThreadStep(i))
  /\ \A c \in Clients : WF_vars(StartStep(c))
  /\ \A c \in Clients : WF_vars(NotifyStep(c))

FairSpec == Spec /\ Fairness
-------------------------------------------------------------------------------
(* Properties                                                              *)

Handles(S) == S \cup {NULL}

TypeOK ==
  /\ use \in Uses
  /\ state \in {"STOPPED", "RUNNING"}
  /\ queue \in Handles(Ids) /\ task \in Handles(Ids) /\ driver \in Handles(Ids)
  /\ sem \in {NULL, "locked", "unlocked"}
  /\ queues \in [Ids -> {"unused", "live", "freed", "jammed"}]
  /\ events \in [Ids -> Seq(1 .. sent)] /\ \A q \in Ids : Len(events[q]) <= QueueSize
  /\ tasks \in [Ids -> {"unused", "live", "freed"}]
  /\ registered \subseteq Ids /\ cancelled \subseteq Ids
  /\ tpc \in [Ids -> CancellationPoints \cup
                     {"none", "check", "receive", "give",
                      "deleteQueue", "clearQueue", "dead"}]
  /\ arg \in [Ids -> Handles(Ids)]
  /\ event \in [Ids -> 0 .. sent]
  /\ cpc \in [Clients -> {"idle", "take", "send", "drain"} \cup Starting]
  /\ created \in [Clients -> Handles(Ids)]
  /\ sent \in Nat
  /\ handled \in Seq(1 .. sent)
  /\ sys \in {"up", "reboot", "abort", "undefined"}

\* The threads that serve the service: created, and not yet done with the loop.
Serving == {i \in Ids : tpc[i] \in {"setup", "main", "check", "receive", "wait", "handle"}}

\* service.h says that Service_Start "starts the specified service (if not
\* already started)": however often it is called, at most one task serves.
OneTaskServes == Cardinality(Serving) <= 1

\* No call reaches a queue or a task that does not exist any more, or not yet.
NoMisuse == sys \notin {"abort", "undefined"}

\* The event thread i holds and has not handled.
InHand(i) == IF event[i] = 0 THEN <<>> ELSE <<event[i]>>

\* Every accepted event is handled once and in order, until a notifier that
\* found the queue full starts to empty it: what was handled, then what the
\* thread holds, then what is queued, is every event sent.
NoEventLost ==
  queue # NULL /\ task = 1 /\ (\A c \in Clients : cpc[c] # "drain") =>
    handled \o InHand(1) \o events[queue] = [n \in 1 .. sent |-> n]

\* An accepted event is handled in the end, unless the service is stopped or the
\* machine stops.
EventsHandled ==
  \A n \in 1 .. MaxEvents :
    sent = n ~> Len(handled) >= n \/ state = "STOPPED" \/ sys # "up"

\* A notifier that finds the queue full does reboot the machine: the loop that
\* empties the queue for the log ends, although the service still reads it.
OverflowReboots ==
  \A c \in Clients : cpc[c] = "drain" ~> sys = "reboot"

\* service.h says of Service_Stop: "Stops (kills) the specified service": unless
\* the service is started again, its thread is gone in the end.
StopKills ==
  \A i \in Ids :
    state = "STOPPED" /\ tpc[i] # "none" ~>
      tpc[i] = "dead" \/ state = "RUNNING" \/ sys # "up"

\* A terminated service leaves nothing behind: the task structure is freed and,
\* where the thread outlives Task_Delete, so is the queue and the field cleared.
TerminationCleansUp ==
  \A i \in Ids : tpc[i] = "dead" =>
    /\ tasks[i] = "freed" /\ i \notin registered
    /\ use.platform = "posix" => queue = NULL /\ \A q \in Ids : queues[q] # "live"

\* service.h calls terminationSemaphore the "semaphore that is unlocked on
\* service termination": a service started again by the client that took it
\* runs on its own queue and its own task.
RestartSurvives ==
  state = "RUNNING" /\ (\A c \in Clients : cpc[c] \notin Starting) =>
    /\ Usable(queue)
    /\ tasks[task] = "live"

\* However the calls interleave, and even when two tasks serve the service or a
\* notifier empties its queue, no event is handled twice: the events handled,
\* those in the hands of a thread and those in a queue are all different.
NoEventTwice ==
  /\ \A m, n \in DOMAIN handled : handled[m] = handled[n] => m = n
  /\ \A i \in Ids : event[i] # 0 =>
       /\ \A n \in DOMAIN handled : handled[n] # event[i]
       /\ \A j \in Ids : event[j] = event[i] => j = i
  /\ \A q \in Ids : \A m \in DOMAIN events[q] :
       /\ \A n \in DOMAIN handled : handled[n] # events[q][m]
       /\ \A i \in Ids : event[i] # events[q][m]
       /\ \A r \in Ids : \A n \in DOMAIN events[r] :
            events[r][n] = events[q][m] => r = q /\ n = m
===============================================================================
