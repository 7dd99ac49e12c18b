# A verification project for the workshop firmware

The repository holds the firmware of a small ESP32 device and an emulator of it
that runs on a POSIX host: a service framework over tasks and queues, a core
service that brings up WiFi, an HMI service with a button and a light, and a
command console over TCP. This directory holds TLA+ models of that code, the
configurations that check them with TLC, and proofs checked by TLAPS.

Paths below are relative to `src/main/src/` unless they start with `src/`.

## 1. The system

| Component | State | Operations | Where |
|---|---|---|---|
| Queue | ring of pointers, head, tail, count; on POSIX a mutex and a condition variable | New, Delete, Send, Receive (with a timeout) | `adapter/posix/queue.c`, `adapter/esp32/queue.c` |
| Semaphore | a flag; on POSIX a mutex and a condition variable | New, Take (with a timeout), Give, Free | `adapter/posix/semaphore.c`, `adapter/esp32/semaphore.c` |
| Task | a thread; on POSIX the table `TASKS` of 32 entries | Create, Delete, SleepMs, GetSelf | `adapter/posix/task.c`, `adapter/esp32/task.c` |
| Service | state, queue, task, hooks, termination semaphore | Start, Stop, Notify, and `Service_Main` in its own thread | `core/service.c` |
| Core and WiFi | queue handle, `isConnected`, `connectionRetryCount` | setup hook, event handler, `Wifi_EventHandler`, `WiFi_StopSta` | `core/service_core.c`, `adapter/esp32/wifi.c` |
| HMI, button, LED | colour, counter, strip handle, queue handle | setup hook, event handler, interrupt handler | `hmi/hmi.c`, `adapter/esp32/btn.c`, `adapter/esp32/led.c` |
| Console | static buffers, table of commands | parse, dispatch, respond | `console/console.c`, `console/cmd_system.c` |
| Network console | the sockets | accept loop, read loop | `console/net_console.c` |
| Entry points | none | start the services, sleep | `src/main/main.c`, `src/emulator/main.c` |

How they interact. A service owns a queue and a task. Its setup hook runs in the
task and hands the queue to a driver; the driver sends events to it from another
thread (the event loop of ESP-IDF) or from an interrupt. Clients start, stop and
notify a service by calling functions that read and write the shared structure
without a lock. CORE starts the network console when an address arrives. Most
unexpected errors abort, which restarts the device (`ON_ERROR_REBOOT`, `assert`,
`ESP_ERROR_CHECK`).

What is hard about it: everything is shared between threads; queues are small
and overflow means a reboot; waits have timeouts computed from the wall clock;
a service that ends deletes its own thread and queue while others may hold
them; drivers fail and the hooks do not look. The console takes what one read of
a TCP stream returns for a command, serves one client at a time without a limit
of time, and writes to clients that may have gone. An abort restarts the device
in the middle of all this; nothing is persisted, so that it starts from nothing.
What makes each component correct is listed with its properties in section 3;
`PROJECT.json` lists the hazards at their lines.

## 2. The modules

| Module | Kind | Models |
|---|---|---|
| `BoundedQueue` | abstract | what the queue offers: a bounded FIFO whose calls take effect at one instant |
| `PosixQueue` | detailed | `Queue_New`, `Queue_Send`, `Queue_Receive` of the POSIX adapter, step by step |
| `PosixQueueProofs` | proofs | the invariants of `PosixQueue`, and that it implements `BoundedQueue` |
| `BinarySemaphore` | abstract | what the semaphore offers: one token |
| `PosixSemaphore` | detailed | `Semaphore_Take` and `Semaphore_Give` of the POSIX adapter, step by step, with a clock |
| `PosixSemaphoreProofs` | proofs | the invariants of `PosixSemaphore`, and that it implements `BinarySemaphore` |
| `PosixTask` | detailed | `Task_Create`, `Task_GetSelf`, `Task_Delete` of the POSIX adapter, step by step |
| `PosixTaskProofs` | proofs | the invariants of `PosixTask` |
| `Service` | component | a service, its thread, its clients, its driver, on both adapters |
| `ServiceProofs` | proofs | the types of `Service`, and that no event is handled twice |
| `ServiceUseProofs` | proofs | what holds of a service that is used properly |
| `Wifi` | component | CORE, the WiFi driver, the event loop and the radio |
| `WifiProofs` | proofs | the invariants of `Wifi` |
| `CommandServer` | abstract | what the network console offers to a client that waits for its replies |
| `Console` | component | the parser of a command line, the table of commands and the replies |
| `NetConsole` | component | the network console over `Console`, its clients and TCP |
| `Firmware` | composition | both entry points, CORE, `NetConsole`, aborts and restarts |
| `FirmwareProofs` | proofs | what `strtok_r` and the parser do, that replies fit, that sessions are kept, that the console implements `CommandServer` |
| `LedCycle` | abstract | the colours a user sees when pressing the button |
| `Hmi` | component | HMI, the button's interrupt and the light |
| `HmiProofs` | proofs | the invariants of `Hmi`, and that its colours are those of `LedCycle` |
| `MC...` | instances | small sets and definitions for TLC |

### PosixQueue

A call is a sequence of steps of the calling thread. `pc[t]` names the point in
the function; between two steps any other thread may run. `Locked` are the
points between lock and unlock. `SendStore` and `SendAdvance` are two steps
because the store of the pointer and the change of the indices are two steps of
the code; the mutex is what makes them look like one. The wait releases the
mutex and is left by a signal, by a timeout or spuriously, after which the
thread competes for the mutex again. `LockFails` is the error path of
`pthread_mutex_lock`. A mutex is held by one thread (`mutex`), a signal wakes
one waiting thread of the scheduler's choice. A timed wait may expire at any
moment; of the wall clock the model keeps only its position in the current
second, which decides whether the deadline is a valid timespec. `xmalloc`
either succeeds or aborts the process, which is left out.

### PosixSemaphore

`Semaphore_Take` and `Semaphore_Give` in the same style, with a clock, since the loop of `Semaphore_Take` measures the
elapsed time. The clock advances in ticks, `ONE_SEC` of them in a second, so
that the code's truncation to whole seconds can be told from the time itself.
The loop of the code reads the flag and the elapsed time in one step of the
model; the second test of the flag, after the loop, and its write are two steps,
and so are the test and the write of `Semaphore_Give`. The branch for an error of
the wait other than ETIMEDOUT (`semaphore.c:83-87`) is left out: the timespec is
always valid and the caller holds the mutex.

### Service

`service->...` are the variables `state`, `queue`, `task` and `sem`; queues and
tasks are handles into a small heap, so that a handle may be NULL, live or
freed. A freed handle that is used ends the behaviour in `sys = "undefined"`, a
failed assertion in `"abort"`, `ON_ERROR_REBOOT` in `"reboot"`. `Service_Start`
is five steps, for the other threads look at the structure between them.
`Service_Main` is one step per call it makes. A call on a queue is one step,
which the refinement of `BoundedQueue` justifies. `Task_Delete` is
`pthread_cancel` with deferred cancellation on POSIX, so that a thread that
deletes itself goes on to its next cancellation point, and `vTaskDelete` on
FreeRTOS, which does not return when the target is the caller. A thread that is
cancelled in `pthread_cond_timedwait` dies holding the mutex: the queue is then
`"jammed"`. Log lines write to stderr in the emulator, so that a pending
cancellation may also take effect at them (`CancellationPoints`).

A *use* (the record `use`, chosen at the start among `Uses`) says which adapter
runs, whether the service has a main, a termination semaphore and a driver, and
which clients start, stop, notify and wait. Two conditions on a use say what
`service.c` needs of its callers. `SingleStart`: one client starts the service,
and once, or nobody stops it. `Proper`: besides, one client makes all the calls;
a service that ends, because it is stopped or because its main returns, has a
semaphore to give and no driver that keeps the queue; and a service with a main
is not notified, as a main need not read its queue. Nothing in the code enforces
them, and the uses of section 3 that break one of them fail. Waiting for the
semaphore may be done by anybody.

### PosixTask

One thread creates tasks, as main does in the emulator; each task looks itself
up (`Task_GetName(NULL)` in the reboot macros, `Task_Delete(NULL)`) and deletes
itself. `pc[k]`, `index[k]` and `task[k]` are the point, the `i` and the pointer
of thread k; `mpc`, `mindex` and `result` those of the creator. The test of an
entry and its use are two steps, in between which the compiler may read
`TASKS[i]` again or not (`Compare`, `Found`). A lookup that reads a task freed in
between ends the behaviour in `sys = "undefined"`: this is reachable, whenever
one task looks itself up while another deletes itself. `Malloc` says which of
the free addresses the allocator may give; the run uses one that gives freed
memory again as soon as it can, the proofs hold for any. `own` and `crowded` are
history: the task made for a thread, and whether the table was full then.

### Console, NetConsole, Firmware

`Console` is the part of the console that a line goes through: `ParseName`,
`ParseArg` and `ArgsFull` are `Console_ParseCommand`, one call of `strtok_r`
after the other (`Strtok` does what `strtok_r` does to the line and to the saved
pointer), `RunCommand` is the search of the table. `Writes` is the list of calls
of the write function that a reply consists of. A text is a sequence of symbols:
a name of a command in any spelling (`strcasecmp`), a separator, or `"x"`, any
run of other characters. `SYS_FW_VER`, though it has an underscore and two
parts, is one symbol, as no separator is in it.

`NetConsole` puts the thread around it: the socket, `accept`, `read`, and one
`write` per step, each of which meets whatever the client has done by then
(`WriteOpen`, `WriteLost`, `WriteReset`). `link[c]` is the state of the
connection of client c and `stream[c]` what it sent and nobody read. A read
returns all of a polite client's request, and any portion of what others typed,
which may end inside a symbol (`ReadSplitsName`, `Shortened`). A request is a
name and arguments without separators in them, and its line fits into one read
(`RequestAssumption`).

`Firmware` adds `app_main` and the `main` of the emulator, the events in the
queue of CORE, which start the console, and what an abort anywhere does: the
device restarts with nothing left (`Restart`), the emulator ends. A *setting*
(`setting`, chosen at the start among `Settings`) says which platform runs and
bounds what clients and machine do.

### Wifi

The setup hook of CORE is a list of steps (`CoreSteps`); each may fail, and
`CHECK_ERROR` leaves `WiFi_Init` or `WiFi_StartSta` where `ESP_ERROR_CHECK`
aborts. The radio, which is external, changes `link` and `ip` and posts events;
the event loop handles the oldest. So `isConnected` is what the last handled
event said, and `link` what is true. `WiFi_StopSta` is two steps, one per
ESP-IDF call it makes; nothing in the firmware calls it yet, it is in the
interface and a small number of calls is included.

Every call of ESP-IDF may fail. In `WiFi_StopSta` a failed `esp_wifi_disconnect`
skips `esp_wifi_stop` (`wifi.c:120`), and a failed `esp_wifi_stop` leaves the
radio on. `esp_wifi_connect` (`Connect`) leaves an idle station idle when it
fails: on `STA_START` that aborts the machine, on `STA_DISCONNECTED` the result is
ignored (`wifi.c:44`), so that the retry is spent and no event follows. The
station is then stranded with retries left. `connectFailed` is history: the last
call found the station idle and left it so. No action reads it. `NoRetryOmitted`
says that this and used up retries are the only ways to be stranded.

### Hmi

The setup hook is again a list of steps that may fail. The interrupt may come
as soon as its handler is attached, before the light is initialised and while
nobody reads the queue. `count` and `color` are those of `ctx`; `shown` is the
colour of the light and `stale` says that its last update failed. The abstract
`LedCycle` sees only `color`.

## 3. The runs

Twelve runs; the passing ones exhaust their state spaces.

| Run | What it asks | Bounds |
|---|---|---|
| `queue` | safety, the refinement of `BoundedQueue`, and that calls return | 2 senders, 1 receiver, 2 messages, ring of 2 |
| `queue_timespec` | **violated**: a receive of an empty queue waits | 1 sender, 1 receiver |
| `semaphore` | safety and the refinement of `BinarySemaphore` | 2 takers, 1 giver, clock up to 5, 3 ticks in a second |
| `semaphore_timeout` | **violated**: a take that times out has had its time | 1 taker, 1 giver, the same clock |
| `service` | six proper uses, with a driver, with stops and with a main, are correct | queue of 3, 8 events, 2 starts |
| `service_any` | two clients that do anything, both adapters | queue of 2, 3 events, 2 starts |
| `service_restart` | **violated**: a restart survives the old thread | 2 starts |
| `wifi` | initialisation, loss, retry and stop, with any call failing | 3 events in the loop, queue of 2, 2 stops, 5 retries |
| `wifi_keeps_trying` | **violated**: the station keeps trying | as `wifi`, without stops |
| `hmi` | presses, failures, overflow | queue of 3, 10 presses |
| `tasks` | the table without a lock is right for one creator | 3 tasks, table of 2, 3 addresses |
| `firmware` | the console serves its clients, whatever they and the machine do | the three settings below, arguments up to 2, reads up to 8 symbols, backlog 1 |

Why the bounds are enough to be interesting. A ring of two is the smallest in
which head and tail wrap around independently, and two threads on one side are
what it takes to miss a signal or to take a message twice. The semaphore's clock
crosses a second. The queue of a service overflows in the runs `service` and
`service_any`, and eight events go more than twice around a queue of three.
Ten presses go twice around the four colours. Three tasks are one more than the
table of `tasks` holds, and three addresses let a freed one be given again. The
settings of `firmware` ask one question each: what can be typed (four symbols of
one client, in any portions, twice as many separators as a line needs), what
clients do to each other (three connections of two clients, two requests each,
on the emulator, where a write may kill the process), and what the machine does
to them (two addresses, a lost one, an abort and a restart of the device). A
request with three arguments overflows the array of two. `MaxPosted` is reached in `wifi`,
and five retries are those of the code.

The properties beyond the types:

* `PosixQueue`: `MutexOwned` (every path, the error paths and the wait
  included), `RingConsistent` (no receiver gets a slot nobody wrote),
  `NoLostWakeup` (with one receiver, signalling only on the first message is
  enough), `ImplementsBoundedQueue`, `CallsReturn`. `BoundedQueue` lets a call
  fail at any time, so it does not say when a receive may time out: one that is
  woken spuriously does so early, since its wait is in an `if` (`queue.c:120`).
* `PosixSemaphore`: `MutexOwned`, `NoLostWakeup`, `ImplementsBinarySemaphore`.
* `Service`: `OneTaskServes`, `NoMisuse`, `NoEventLost`, `TerminationCleansUp`,
  `EventsHandled`, `OverflowReboots`, `StopKills`; `NoEventTwice` under all
  interference.
* `Wifi`: `MirrorsLink`, `NoRetryOmitted`, `GotIpStartsConsole`.
* `Hmi`: `PressesCounted`, `LightShowsColor`, `PressesHandled`, `CyclesColors`.
* `PosixTask`: `NoDanglingEntry`, `SelfFound`, `DeletesItself`, `DeletedEnds`.
* `Console`: `ParsesFields` compares the parser with a definition of the fields
  of a line that does not mention `strtok_r`; `PrintsFit` says why the length
  that `vsnprintf` returns, and that is written, never exceeds the buffer.
* `Firmware`: `ImplementsCommandServer`, `SessionsUndisturbed`, `WaitingServed`,
  `AskedIsAnswered`.

Deadlock is checked in the queue runs. The other modules stop: a service is
finished or the machine has restarted, a clock or a number of presses reaches
its bound.

### Fairness

* `PosixQueue`: every thread in a call is scheduled, timed waits expire, and a
  thread that finds the mutex free infinitely often gets it (strong fairness).
  The last is what the scheduler of the host gives in practice rather than what
  POSIX promises; without it `CallsReturn` cannot hold of any code that locks.
  No call, spurious wakeup or lock failure is ever owed.
* `Service`: weak fairness for each thread and for a client inside a call. All
  waits have timeouts. Nobody has to call, main need not return.
* `Wifi`: CORE and the event loop are scheduled, a stop in progress goes on, and
  an attempt to connect has an outcome, which may always be a refusal. No call of
  ESP-IDF has to succeed.
* `Hmi`: the task is scheduled; nobody has to press.
* `PosixTask`: every task is scheduled inside a call.
* `Firmware`: main, CORE and the console thread are scheduled, a keep-alive probe
  of a vanished client fails in the end (`net_console.c:122-129` switches it on),
  and an abort of the device is followed by a restart. No client has to send
  anything or to leave, and the network owes no address.

### What the violated runs show

* `queue_timespec`: the deadline is normalised while `tv_nsec > 1e9`, where
  `>=` is needed (`semaphore.c:69` has it). A deadline on a whole second is
  rejected, and the receive returns `ERROR_OS` at once, against `queue.h:39-40`.
* `semaphore_timeout`: `Semaphore_ElapsedTimeMs` divides microseconds by a
  million and so counts how often the clock begins a new second. In the trace a
  take with a timeout below a second reads its start at the end of a second; the
  clock begins the next one, the first test of the loop finds the timeout
  elapsed, and the take reports `ERROR_TIMEOUT` without having waited. (A take
  that is woken without the token may give up too early for the same reason.)
* `service_restart`: the semaphore "that is unlocked on service termination" is
  given before the task and queue are deleted; a client that restarts the
  service at that moment loses its new task or queue.
* `wifi_keeps_trying`: after five retries nothing connects again, where
  `wifi.h:135-136` says the driver keeps trying. `KeepsTrying` leaves out the
  behaviours where a call of `esp_wifi_connect` failed, after which nothing
  connects again either.

Other disagreements, which the same modules show with other uses in `MCService`
or by reading the actions:

| Use | Property that fails | Why |
|---|---|---|
| a main that is stopped | `StopKills` | `Service_Stop` sets a state no main reads |
| stopped by another client during `Service_Start` | `StopKills` | `service->task` and `TASKS` are not set yet, `Task_Delete(NULL)` finds nothing |
| `AnyUse` | `NoMisuse` | the state is RUNNING before the queue exists: a concurrent `Service_Notify` fails `assert(queue != NULL)` (`posix/queue.c:59`) |
| `MainUse` | `NoMisuse` | a main that returns gives a semaphore no shipped service has |
| stop, then start without waiting | `OneTaskServes` | the old thread sees RUNNING again |

And a lost connection changes `isConnected` but `OnDisconnected` sends no event,
though `wifi.h` lists `DRIVER_WIFI_EVENT_STA_DISCONNECTED`. `task.h:49` says that
`Task_GetSelf` returns the handle of the calling task; on POSIX it is NULL for a
task that runs before `Task_Create` has entered it, and for one that found the
table full. And a client of the emulator's console that goes away while its
reply is written may take the process with it (`WriteReset`): the first write
after a reset may get ECONNRESET, another one SIGPIPE.

## 4. The proofs

All proofs are about any values of the constants that meet the assumptions of
the module: any sets of threads and messages, any ring size.

### PosixQueueProofs

The inductive invariant is

    IndInv == TypeOK /\ MutexOwned /\ RingConsistent /\ SendsPrepared

`RingConsistent` is not inductive alone. A sender stores its message and then
advances; that the slot it counts has been written, and that there is still
room for it, is true because nobody else can have run in between: `MutexOwned`
gives that there is one thread inside, and `SendsPrepared` says what that
thread has established when it stands before `SendAdvance`. Each conjunct has a
lemma of its own (`TypeStep`, `MutexStep`, `RingStep`, `PreparedStep`), with one
step per action it can be disturbed by; `Invariance` combines them.

The arithmetic of the ring is in lemmas that replace `%` by a case distinction,
because the size is not a fixed number: `Modulo`, `NextSlotModulo`, that the successor of a position modulo the size is the
position of the successor, and `SlotsDiffer`, that the slots of two positions
less than the size apart differ.

`NoLostWakeups` is a second induction on top of `IndInv`: with one receiver, the
send that makes the queue non-empty finds in `Waiting` whoever may be asleep.

`QueueIsBoundedFifo` maps the ring to `Contents`, the occupied slots from the
oldest. `SendStore` writes a slot outside of `Contents` and is a stutter
(`StoreKeepsContents`), `SendAdvance` is `Send` (`AdvanceAppends`),
`ReceiveTake` is `Receive` (`TakeRemovesHead`), the failing steps are `Fail` or
`SendRefused` and all others stutter (`QuietStep`).

### PosixSemaphoreProofs

    IndInv == TypeOK /\ MutexOwned /\ FlagUnchanged

The flag is tested and written in two steps. `FlagUnchanged` says that what a
thread saw of it is still so when it writes it; the mutex is why. With it
`TakeSet` is the abstract `Take` (the token is there) and `GiveSet` is `Give`.
`NoLostWakeups` follows a woken taker: it stays among the points `Coming` until
the token is gone, and a taker goes to sleep only when the flag is set.

### HmiProofs

    IndInv == TypeOK /\ PressesCounted /\ LightFollows /\ OffAtFirst

`LightFollows` is `LightShowsColor` without the condition that the setup hook
has returned; it survives the initialisation of the light because no press has
been handled by then and the colour is still off, which is `OffAtFirst`.
`ColorsCycle` needs `PressesCounted` to know which colour `ctx.color` has when a
press is handled, and `OffAtFirst` for the first press, which is a stutter.

### PosixTaskProofs

    IndInv == /\ TypeOK /\ Owners /\ TableOwned /\ Creation /\ ReturnedStarted
              /\ DeletesItself /\ SelfFound
              /\ \A k \in Ids : Knows(k)

The table has no lock, so that nothing a thread has read of it stays true by
itself. What makes it right is that there is one creator, and that an entry is
taken out by the thread it belongs to and by no other. `Owners` says whose a
task is, `TableOwned` that entries are tasks of different threads none of which
has taken itself out, `Creation` what the creator knows (the new task is in no
entry yet, the free entry it saw is still free, since nobody else fills one),
and `Knows(k)` what thread k knows: those entries it has passed are not its own.
`DeletesItself` is inductive only with all of them, because `TASKS[i]` may be
another task by the time it is compared. The steps of a thread that touches
nothing shared have one lemma, `AloneStep`. The allocator is any operator that
returns addresses which are free.

### WifiProofs

    IndInv == TypeOK /\ NoStation /\ LinkKnown /\ MirrorsLink /\ NoRetryOmitted

`MirrorsLink` speaks of the moments when no link event waits. To get there by
handling the last one, that event has to tell the truth: `LinkKnown` says that
while the link is up every `STA_DISCONNECTED` in the event loop is followed by an
`STA_CONNECTED`, and the other way round while it is down. `NoStation` keeps the
radio quiet until the driver has been initialised. `NoRetryOmitted` needs
`LinkKnown` too: a connection resets the count, and if the link has been lost
again by then the event that says so is still to come.

### ServiceProofs

    IndInv == ControlOK /\ EventsOK /\ NoEventTwice

`ControlOK` and `EventsOK` are the two halves of `TypeOK`. `NoEventTwice` is
about every place an event can be in: handled, in the hands of a thread, in a
queue. It is inductive because each step moves one event or drops it (`Taken`,
`Drained`, `Handled` and `TimedOut`), and a new event has a number that no other
has, since all are at most `sent`. The uses may be any, so that this holds also
where the service goes wrong in every other way of section 3.

### ServiceUseProofs

These are about the uses that meet `SingleStart` or `Proper`, whatever else they
are: 592 records for two clients, of which the run `service` takes six. (TLC has
checked the invariants below on all of them.) The theorems have the form
`[](Proper(use) => ...)`, since one behaviour has one use; that the condition is
needed is what the failing uses of section 3 show.

    AloneInv  == SingleStart(use) => MadeOnce /\ ToBeMade
    ProperInv == Proper(use) => Callers /\ Thread /\ Gone /\ Sound

`ServedByOne` needs the first only. It is not a matter of counting threads: the
second call of `Service_Start` must fail its test of the state, and the test and
the creation of the queue and the task are steps apart, so that `ToBeMade` says
what is still missing at each of them, and that a stopped service which nobody
stopped has not been made yet. With a bound of one start, the count that
`StartsLeft` makes of the queues and of the clients on their way has to be shown
to be that (`FirstStart`).

For the rest, `Callers` relates the point a client is at to the state it has
left, `Thread` says what the thread finds when it gets to each of its calls (the
queue alive as long as it uses it, the semaphore not yet given), and `Gone` what
is left of the task once it is deleted: on POSIX the thread that deletes itself
goes on as a cancelled thread for up to three more steps. The delicate case is a
main that returns while its creator still stands before `Register`:
`Task_Delete(NULL)` finds no entry, and the thread deletes its queue without
being cancelled. `Gone` keeps the two apart: a cancelled thread has been entered
and taken out again, and nobody will enter it once more. `Sound` holds the conclusions. What `NoEventLost` says of
sequences is in `Order` as counting: the events handled are 1 to h, perhaps the
next one is in hand, and m more are queued (`Counts`), which each step moves by
one, until a notifier drains the queue.

### FirmwareProofs

`StrtokTokenizes` states what one call of `strtok_r` does, for any line, any
separators and any position; `Skips` and `Stops` give the positions that
`SkipOver` and `StopAt` choose, by the well-foundedness of the natural numbers.

    IndInv == Sessions /\ Replies
    IndInv /\ Machine /\ Types /\ Parsing /\ Fielded /\ Connected /\ Dialogue

The second line is the inductive invariant of the whole; the parts are shown one
after the other, each with the help of those before it.

`Sessions`: there is a peer exactly between accept and close. `Replies`: what
remains to be written are texts of the console's own, and some remain while
control is in `"write"`. For the first of these the number of arguments matters:
a name from the table is echoed with its arguments, but only when there are as
many as the table says, and it says none (`WritesOwn`). `SessionsKept` follows
from `Sessions`: `Accept` finds no peer, and no start of the console replaces
one.

`LinesAreParsed` compares the loop over `strtok_r` with `Fields`, which numbers
the fields of a text by counting where they start. `NextField` is the step: a
call that begins between two fields returns the one whose number is one more
than the number of starts passed, and ends between two fields; without a token
all starts are passed. `Fielded` is the loop invariant: the arguments so far are
the first fields of the rest of the line, and the saved pointer stands between
fields with as many starts passed as there are arguments. The rest is a suffix
of the line, where `strtok_r` does the same as in the suffix alone
(`InTheRest`).

`ConsoleIsCommandServer` is the refinement, of one step of `CommandServer` each:
`Accept` is `Begin`, `Close` is `End`, `Ask` is `Ask`, the last write of a reply
to a client that is connected is `Answer`, `Restart` is `Restart`, and everything
else changes nothing the abstract module sees. That the reply written is the one
`ReplyTo` reads off the table is `Dialogue`: a polite client has at most one
request that is not answered, and its line is in the stream, or it is what the
parser has in hand (`Progress`), or the writes done and the writes to come are
the reply. `Connected` keeps the clients apart: one that waits is not the one
served, and a connection that is gone has left nothing behind. `TypeCorrect`
needs all of it, because that a client never has more replies than requests is
part of `TypeOK`.

What these proofs assume is `RequestAssumption`. It is what section 6 says of
TCP; clients that do not keep to it are the others, who may type any symbols.

### What is only model-checked

Every invariant of the passing runs, every action property and all four
refinements are proved. Left to TLC is liveness: `CallsReturn`, `EventsHandled`,
`OverflowReboots`, `StopKills`, `GotIpStartsConsole`, `PressesHandled`,
`DeletedEnds`, `WaitingServed`, `AskedIsAnswered`. Fairness and ENABLED are out of
the prover's reach. So is induction over data, as the induction theorems take an
operator as parameter; the proofs about `strtok_r` do without it, by least
elements and by the invariant of the loop. There are no RECURSIVE operators.

## 5. The plan

Done: every component that holds state, with the runs of section 3 and the
proofs of section 4. What is left, in order:

1. Safety properties that the liveness ones rest on, as theorems: what a blocked
   thread waits for, in the style of `NoLostWakeup`, for `Service` and `Firmware`.
2. The abstract service in the place of CORE and HMI in `Firmware`, so that an
   overflow of a queue is a cause of `ServiceAborts` rather than a choice.

## 6. What is not modelled

* The contents of messages, logging, formatting.
* Memory: the copies made by `Queue_Send` are never freed, and on FreeRTOS the
  queue of a stopped service is not deleted (`vTaskDelete` does not return).
  Both are plain from the code.
* The emulator's drivers (`adapter/posix/wifi.c`, `led.c`, `btn.c`), which
  return SUCCESS and keep nothing.
* Task names, priorities and stack sizes, `Task_SleepMs`. POSIX threads are
  created joinable and never joined, which costs memory only.
* Characters: `strcasecmp` is equality of symbols, anything that is neither a
  name nor a separator is `"x"`, and a NUL typed by a client, which would end
  its line early, is not among the symbols.
* TCP below the stream: a `write` that blocks because its client does not read,
  and a request of a polite client that arrives in pieces. The console would
  answer each piece; the property is about clients whose requests are one
  segment, as short ones are.
* The helpers of the console that nothing calls (`Console_RespondOnOff` and its
  neighbours).
* Scripts, tests, logging and the build.

## 7. Running it

    tlc -config MCPosixQueue.cfg MCPosixQueue.tla
    tlapm PosixQueueProofs.tla

Each run of section 3 is a pair of an `MC` module and a configuration listed in
`PROJECT.json`.
