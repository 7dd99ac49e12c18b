--------------------------------- MODULE Firmware ---------------------------------
(***************************************************************************)
(* The program as its entry points make it (src/main/main.c on the device, *)
(* src/emulator/main.c on a POSIX host): the services that main starts,    *)
(* CORE, which starts the network console when the device gets an address, *)
(* the console itself, and what an abort in any of them does to the others. *)
(*                                                                         *)
(* Of the WiFi driver, which Wifi models, what CORE sees of it is left:    *)
(* addresses come and go, and each that comes is an event in its queue.    *)
(* HMI shares nothing with the console but the machine that it may abort.  *)
(* An abort restarts the device; nothing is kept.  The emulator just ends. *)
(***************************************************************************)
EXTENDS NetConsole

VARIABLES
  stage,          \* main: "reset", "core" or "hmi" (what it started last), "running"
  online,         \* the device has an address
  coreQueue,      \* the events that wait in the queue of CORE
  addresses,      \* addresses obtained so far
  restarts        \* restarts so far

machine == <<stage, online, coreQueue, addresses, restarts>>
allVars == <<vars, machine>>

FirmwareInit ==
  /\ Init
  /\ stage = "reset" /\ online = FALSE /\ coreQueue = 0
  /\ addresses = 0 /\ restarts = 0

-------------------------------------------------------------------------------
(* main                                                                    *)

Undisturbed == UNCHANGED <<setting, console, bounds, sys>>

\* Mutant of StartConsole: the console is started whatever its state.
StartConsoleAgain == pc' = "socket" /\ UNCHANGED <<setting, parsed, out, bounds, sys>>

\* Service_Start of the network console, which does nothing when it runs.
StartConsole == Go("off", "socket") \/ (pc # "off" /\ Undisturbed)

\* main has started one more service.
MainGoes(from, to) ==
  /\ sys = "up" /\ stage = from /\ stage' = to
  /\ UNCHANGED <<peer, waiting, clients, received, online, coreQueue, addresses, restarts>>

\* app_main of the device.
AppMain ==
  /\ setting.platform = "esp32" /\ Undisturbed
  /\ MainGoes("reset", "core") \/ MainGoes("core", "running")

\* main of the emulator.
EmulatorMain ==
  /\ setting.platform = "emulator"
  /\ \/ (MainGoes("reset", "core") \/ MainGoes("core", "hmi")) /\ Undisturbed
     \/ MainGoes("hmi", "running") /\ StartConsole

MainStep == AppMain \/ EmulatorMain

-------------------------------------------------------------------------------
(* CORE and the network                                                    *)

GotIp ==
  /\ sys = "up" /\ setting.platform = "esp32" /\ stage # "reset"
  /\ ~online /\ online' = TRUE
  /\ addresses < setting.addresses /\ addresses' = addresses + 1
  /\ coreQueue' = coreQueue + 1
  /\ UNCHANGED <<vars, stage, restarts>>

\* The address is lost with the link, and whoever was connected is gone.
LostLink ==
  /\ sys = "up" /\ online /\ online' = FALSE
  /\ link' = [c \in Clients |-> IF link[c] = "open" THEN "vanished" ELSE link[c]]
  /\ UNCHANGED <<setting, console, peer, waiting, stream, asked, received, bounds, sys>>
  /\ UNCHANGED <<stage, coreQueue, addresses, restarts>>

\* Core_HandleEvent on DRIVER_WIFI_EVENT_STA_GOT_IP.
CoreHandlesEvent ==
  /\ sys = "up" /\ coreQueue > 0 /\ coreQueue' = coreQueue - 1
  /\ StartConsole
  /\ UNCHANGED <<peer, waiting, clients, received, stage, online, addresses, restarts>>

-------------------------------------------------------------------------------
(* Aborts and restarts                                                     *)

\* CORE or HMI aborts: a full queue, a failed ESP_ERROR_CHECK.
ServiceAborts ==
  /\ sys = "up" /\ stage # "reset" /\ restarts < setting.restarts
  /\ sys' = "abort"
  /\ UNCHANGED <<setting, console, peer, waiting, clients, received, bounds, machine>>

\* The device starts from nothing.  Its clients find out that their connections
\* are gone.
Restart ==
  /\ sys = "abort" /\ setting.platform = "esp32" /\ restarts < setting.restarts
  /\ restarts' = restarts + 1
  /\ BackToIdle
  /\ stage' = "reset" /\ online' = FALSE /\ coreQueue' = 0
  /\ UNCHANGED <<setting, bounds, addresses>>

-------------------------------------------------------------------------------
\* A client reaches the emulator's console at any time, the device's while it
\* has an address.
Arrive ==
  /\ setting.platform = "emulator" \/ online
  /\ \E c \in Clients : Connect(c)
  /\ UNCHANGED machine

FirmwareNext ==
  \/ ConsoleNext /\ UNCHANGED machine
  \/ Arrive
  \/ MainStep \/ GotIp \/ LostLink \/ CoreHandlesEvent
  \/ ServiceAborts \/ Restart

Spec == FirmwareInit /\ [][FirmwareNext]_allVars

(***************************************************************************)
(* main, CORE and the console are scheduled, a keep-alive probe is lost in *)
(* the end, and the device restarts after an abort.  No client has to do   *)
(* anything, and the network owes no address.                              *)
(***************************************************************************)
Fairness ==
  /\ WF_allVars(ConsoleThread /\ UNCHANGED machine)
  /\ WF_allVars((\E c \in Clients : KeepAliveExpires(c)) /\ UNCHANGED machine)
  /\ WF_allVars(MainStep) /\ WF_allVars(CoreHandlesEvent) /\ WF_allVars(Restart)

FairSpec == Spec /\ Fairness
-------------------------------------------------------------------------------
(* Properties                                                              *)

TypeOK ==
  /\ setting \in Settings
  /\ pc \in {"off", "socket", "bind", "listen", "return"} \cup Listening
  /\ save \in 1 .. (Len(line) + 1)
  /\ Len(text) <= ReadSize /\ Len(args) <= CMD_ARGS_MAX_LENGTH
  /\ peer \in Clients \cup {NULL}
  /\ peer # NULL <=> pc \in Listening \ {"accept"}
  /\ Len(waiting) <= Backlog /\ Range(waiting) \subseteq Clients
  /\ link \in [Clients -> {"none", "open", "closed", "vanished", "reset"}]
  /\ \A c \in Clients : Len(asked[c]) <= setting.requests /\ Len(replies[c]) <= Len(asked[c])
  /\ typed \in 0 .. setting.typed /\ sessions \in 0 .. setting.sessions
  /\ sys \in {"up", "abort", "killed"}
  /\ stage \in {"reset", "core", "hmi", "running"}
  /\ online \in BOOLEAN
  /\ coreQueue \in 0 .. setting.addresses /\ addresses \in 0 .. setting.addresses
  /\ restarts \in 0 .. setting.restarts

\* What a person reads off the table of commands about a request.
ReplyTo(r) ==
  IF r.name \notin Commands THEN << <<"CMD_NOT_FOUND">>, <<":", "FAIL", "*END">> >>
  ELSE IF r.args # <<>> THEN << <<"CMD_INVALID_ARGS">>, <<":", "FAIL", "*END">> >>
  ELSE Prints(r.name) \o << <<r.name>>, <<":", Response(r.name), "*END">> >>

\* For its polite clients the console is a server of one session at a time that
\* gives every request the reply the table says, once and in order, whatever
\* other clients type, however they leave, and through restarts.
Server == INSTANCE CommandServer WITH
  Clients <- Polite,
  Reply <- [r \in Requests |-> ReplyTo(r)],
  serving <- IF peer \in Polite THEN peer ELSE NULL,
  asked <- Restrict(asked, Polite),
  replies <- Restrict(replies, Polite)

ImplementsCommandServer == Server!Spec

\* A client that has gone does not keep the others out, whether it closed its
\* connection, reset it or just vanished: one that waits is accepted once those
\* before it have left, unless an error of accept ends the program.
WaitingServed ==
  \A c \in Clients :
    Contains(waiting, c) ~>
      ~Contains(waiting, c) \/ sys # "up" \/ (peer # NULL /\ link[peer] = "open")

\* A polite client that is served gets its reply, as long as it stays.
AskedIsAnswered ==
  \A c \in Polite :
    peer = c /\ Len(replies[c]) < Len(asked[c]) ~>
      Len(replies[c]) = Len(asked[c]) \/ link[c] # "open" \/ sys # "up"

\* What happens elsewhere in the program, a second address or a lost one, does
\* not take the console away from the client it serves: a session ends when the
\* console closes it, or with the program.
SessionsUndisturbed ==
  [][ \A c \in Clients :
        peer = c /\ peer' # c => pc = "close" \/ sys # "up" ]_allVars
===============================================================================
