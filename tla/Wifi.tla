---------------------------------- MODULE Wifi ----------------------------------
(***************************************************************************)
(* The WiFi driver of the device (adapter/esp32/wifi.c) with the CORE      *)
(* service that owns it (core/service_core.c).                             *)
(*                                                                         *)
(* Three threads meet here: the CORE task, whose setup hook initialises    *)
(* the driver and which then handles the events of its queue; the event    *)
(* loop of ESP-IDF, which calls Wifi_EventHandler on the events posted;    *)
(* and the radio, which posts them.  WiFi_StopSta has no caller in the     *)
(* firmware; a bounded number of calls is modelled, from any thread, each  *)
(* followed at will by a new WiFi_StartSta.                                *)
(***************************************************************************)
EXTENDS Naturals, Sequences, SequencesExt

CONSTANTS
  CONNECT_MAXIMUM_RETRY,
  QueueSize,      \* SERVICE_QUEUE_SIZE, the queue of CORE
  MaxPosted,      \* bound: events waiting in the event loop
  MaxStops        \* bound: calls of WiFi_StopSta

ASSUME WifiAssumption ==
  {CONNECT_MAXIMUM_RETRY, QueueSize, MaxPosted, MaxStops} \subseteq Nat

VARIABLES
  boot,           \* index in CoreSteps of what the setup hook of CORE does next
  link,           \* the station: "none" (not initialised), "off", "idle",
                  \* "connecting" or "up"
  ip,             \* the address: "none", "held" or "stale" (the link is gone)
  posted,         \* the events the radio posted, oldest first
  isConnected, connectionRetryCount,      \* ctx of wifi.c
  connectFailed,  \* history: the last call of esp_wifi_connect found the
                  \* station idle and left it so
  stopping,       \* a WiFi_StopSta is between its two calls of ESP-IDF
  stops,          \* the calls of WiFi_StopSta so far
  coreQueue,      \* the queue of CORE
  console,        \* state of SERVICE_NETWORK_CONSOLE
  sys             \* "up", "reboot" or "abort"

radio == <<link, ip, posted>>
ctx == <<isConnected, connectionRetryCount, connectFailed>>
stop == <<stopping, stops>>
vars == <<boot, radio, ctx, stop, coreQueue, console, sys>>

InitSteps == <<"nvs_flash_init", "event_loop_create", "register_wifi",
               "register_ip", "netif_init", "wifi_init">>
StartSteps == <<"set_mode", "set_config", "start">>
CoreSteps == InitSteps \o StartSteps

\* The steps under ESP_ERROR_CHECK, which aborts where CHECK_ERROR returns.
Fatal == {"netif_init", "wifi_init"}

StartSta == Len(InitSteps) + 1      \* where WiFi_StartSta begins
Done == Len(CoreSteps) + 1          \* the setup hook has returned

Init ==
  /\ boot = 1
  /\ link = "none" /\ ip = "none" /\ posted = <<>>
  /\ isConnected = FALSE /\ connectionRetryCount = 0 /\ connectFailed = FALSE
  /\ stopping = FALSE /\ stops = 0
  /\ coreQueue = <<>>
  /\ console = "STOPPED"
  /\ sys = "up"

Halt(how) ==
  /\ sys' = how
  /\ UNCHANGED <<boot, radio, ctx, stop, coreQueue, console>>

\* The machine runs, and this step does not stop it.
Up == sys = "up" /\ UNCHANGED sys

-------------------------------------------------------------------------------
(* Core_Init                                                               *)

\* WiFi_Init: a step succeeds; the last one makes the station usable.
InitStep ==
  /\ Up /\ boot < StartSta
  /\ boot' = boot + 1
  /\ link' = IF CoreSteps[boot] = "wifi_init" THEN "off" ELSE link
  /\ UNCHANGED <<ip, posted, ctx, stop, coreQueue, console>>

\* A step fails: WiFi_Init returns the error, which Core_Init ignores.
InitStepFails ==
  /\ boot < StartSta
  /\ \/ /\ CoreSteps[boot] \notin Fatal
        /\ Up /\ boot' = StartSta
        /\ UNCHANGED <<radio, ctx, stop, coreQueue, console>>
     \/ /\ CoreSteps[boot] \in Fatal
        /\ sys = "up" /\ Halt("abort")

\* WiFi_StartSta: a step succeeds, on a station that has been initialised.
StartStep ==
  /\ Up /\ boot \in StartSta .. (Done - 1) /\ link # "none"
  /\ boot' = boot + 1
  /\ \/ /\ CoreSteps[boot] = "start" /\ link = "off"
        /\ link' = "idle"
        /\ posted' = Append(posted, "STA_START")
     \/ /\ CoreSteps[boot] # "start" \/ link # "off"
        /\ UNCHANGED <<link, posted>>
  /\ UNCHANGED <<ip, ctx, stop, coreQueue, console>>

\* A step fails and so does WiFi_StartSta, which Core_Init ignores.
StartStepFails ==
  /\ Up /\ boot \in StartSta .. (Done - 1)
  /\ boot' = Done
  /\ UNCHANGED <<radio, ctx, stop, coreQueue, console>>

-------------------------------------------------------------------------------
(* Core_HandleEvent                                                        *)

\* Mutant of StartsConsole: the console is started by an event nobody sends.
StartsOnConnected(event) == event = "DRIVER_WIFI_EVENT_STA_CONNECTED"

\* Service_Start of a console that runs already changes nothing.
StartsConsole(event) == event = "DRIVER_WIFI_EVENT_STA_GOT_IP"

CoreHandlesEvent ==
  /\ Up /\ boot = Done /\ coreQueue # <<>>
  /\ coreQueue' = Tail(coreQueue)
  /\ console' = IF StartsConsole(Head(coreQueue)) THEN "RUNNING" ELSE console
  /\ UNCHANGED <<boot, radio, ctx, stop>>

-------------------------------------------------------------------------------
(* Wifi_EventHandler, called by the event loop on the oldest event         *)

Oldest(event) ==
  /\ sys = "up"
  /\ posted # <<>> /\ Head(posted) = event

Consume == posted' = Tail(posted)

\* esp_wifi_connect begins an attempt on an idle station, or fails; on any other
\* station it fails.
Connect ==
  /\ link' \in IF link = "idle" THEN {"connecting", "idle"} ELSE {link}
  /\ connectFailed' = (link' = "idle")

\* ESP_ERROR_CHECK aborts when the call fails, as it does for certain when the
\* station has been stopped in the meantime or is already connecting.
OnStaStart ==
  /\ Oldest("STA_START")
  /\ \/ /\ Up /\ Consume /\ Connect
        /\ link = "idle" /\ ~connectFailed'
        /\ UNCHANGED <<boot, ip, isConnected, connectionRetryCount, stop, coreQueue, console>>
     \/ Halt("abort")

\* Mutant of RetriesLeft: one retry more.
RetriesLeftLate == connectionRetryCount <= CONNECT_MAXIMUM_RETRY

\* Mutant of RetriesLeft: one retry less.
RetriesLeftEarly == connectionRetryCount + 1 < CONNECT_MAXIMUM_RETRY

RetriesLeft == connectionRetryCount < CONNECT_MAXIMUM_RETRY

\* Mutant of OnDisconnected: the flag is cleared only when the driver gives up.
OnDisconnectedLate ==
  /\ Oldest("STA_DISCONNECTED") /\ Up /\ Consume
  /\ \/ /\ RetriesLeft /\ Connect
        /\ connectionRetryCount' = connectionRetryCount + 1
        /\ UNCHANGED isConnected
     \/ ~RetriesLeft /\ isConnected' = FALSE /\ UNCHANGED <<connectionRetryCount, connectFailed, link>>
  /\ UNCHANGED <<boot, ip, stop, coreQueue, console>>

\* The result of esp_wifi_connect is ignored: a retry whose call fails has been
\* spent, and no event follows that would make the driver try again.
OnDisconnected ==
  /\ Oldest("STA_DISCONNECTED") /\ Up /\ Consume
  /\ isConnected' = FALSE
  /\ \/ /\ RetriesLeft /\ Connect
        /\ connectionRetryCount' = connectionRetryCount + 1
     \/ ~RetriesLeft /\ UNCHANGED <<connectionRetryCount, connectFailed, link>>
  /\ UNCHANGED <<boot, ip, stop, coreQueue, console>>

OnConnected ==
  /\ Oldest("STA_CONNECTED") /\ Up /\ Consume
  /\ isConnected' = TRUE
  /\ connectionRetryCount' = 0
  /\ UNCHANGED <<boot, link, ip, connectFailed, stop, coreQueue, console>>

\* What Wifi_EventHandler forwards of an IP event.  AP_STAIPASSIGNED is never
\* posted: the firmware sets up no access point.
Forwarded(event) ==
  CASE event = "STA_GOT_IP" -> "DRIVER_WIFI_EVENT_STA_GOT_IP"
    [] event = "STA_LOST_IP" -> "DRIVER_WIFI_EVENT_STA_LOST_IP"
    [] event = "AP_STAIPASSIGNED" -> "DRIVER_WIFI_EVENT_AP_IP_ASSIGNED"

\* WiFi_SendEvent: a full queue reboots the machine.
OnIpEvent ==
  \E event \in {"STA_GOT_IP", "STA_LOST_IP"} :
    /\ Oldest(event)
    /\ \/ /\ Len(coreQueue) < QueueSize
          /\ Up /\ Consume
          /\ coreQueue' = Append(coreQueue, Forwarded(event))
          /\ UNCHANGED <<boot, link, ip, ctx, stop, console>>
       \/ Len(coreQueue) >= QueueSize /\ Halt("reboot")

-------------------------------------------------------------------------------
(* WiFi_StopSta                                                            *)

\* esp_wifi_disconnect is called if the last event handled said so; it posts an
\* event when there is a link to take down.  When it fails WiFi_StopSta returns
\* the error, and esp_wifi_stop is not called.
CallStopSta ==
  /\ Up /\ boot = Done /\ link # "none" /\ ~stopping /\ stops < MaxStops
  /\ stops' = stops + 1
  /\ \/ /\ isConnected /\ link = "up"
        /\ stopping' = TRUE
        /\ link' = "idle" /\ posted' = Append(posted, "STA_DISCONNECTED")
        /\ ip' = IF ip = "held" THEN "stale" ELSE ip
     \/ /\ ~isConnected \/ link # "up"
        /\ stopping' = TRUE /\ UNCHANGED radio
     \/ isConnected /\ UNCHANGED <<stopping, radio>>
  /\ UNCHANGED <<boot, ctx, coreQueue, console>>

\* esp_wifi_stop takes the link down, and may report an attempt it interrupts;
\* or it fails and changes nothing.
StopRadio ==
  /\ Up /\ stopping
  /\ stopping' = FALSE
  /\ \/ /\ link' = "off"
        /\ \/ /\ link \in {"up", "connecting"}
              /\ posted' = Append(posted, "STA_DISCONNECTED")
           \/ link # "up" /\ UNCHANGED posted
        /\ ip' = IF ip = "held" THEN "stale" ELSE ip
     \/ UNCHANGED radio
  /\ UNCHANGED <<boot, ctx, stops, coreQueue, console>>

\* WiFi_StartSta is called again, as a whole, on the stopped interface.
StartAgain ==
  /\ Up /\ boot = Done /\ link = "off" /\ ~stopping
  /\ link' = "idle"
  /\ posted' = Append(posted, "STA_START")
  /\ UNCHANGED <<boot, ip, ctx, stop, coreQueue, console>>

-------------------------------------------------------------------------------
(* The radio                                                               *)

Post(event) ==
  /\ Up /\ Len(posted) < MaxPosted
  /\ posted' = Append(posted, event)
  /\ UNCHANGED <<boot, ctx, stop, coreQueue, console>>

Associate ==
  /\ link = "connecting" /\ link' = "up"
  /\ Post("STA_CONNECTED") /\ UNCHANGED ip

Refuse ==
  /\ link = "connecting" /\ link' = "idle"
  /\ Post("STA_DISCONNECTED") /\ UNCHANGED ip

LoseLink ==
  /\ link = "up" /\ link' = "idle"
  /\ Post("STA_DISCONNECTED")
  /\ ip' = IF ip = "held" THEN "stale" ELSE ip

GetIp ==
  /\ link = "up" /\ ip # "held" /\ ip' = "held"
  /\ Post("STA_GOT_IP") /\ UNCHANGED link

LoseIp ==
  /\ ip = "stale" /\ ip' = "none"
  /\ Post("STA_LOST_IP") /\ UNCHANGED link

-------------------------------------------------------------------------------
CoreStep == InitStep \/ StartStep \/ CoreHandlesEvent
EventLoop == OnStaStart \/ OnDisconnected \/ OnConnected \/ OnIpEvent
Radio == Associate \/ Refuse \/ LoseLink \/ GetIp \/ LoseIp

Next ==
  \/ CoreStep \/ InitStepFails \/ StartStepFails
  \/ EventLoop
  \/ CallStopSta \/ StopRadio \/ StartAgain
  \/ Radio

Spec == Init /\ [][Next]_vars

(***************************************************************************)
(* The CORE task and the event loop are scheduled, a stop that has begun   *)
(* goes on, and every attempt to connect has an outcome (the radio times   *)
(* out), but the access point is free to refuse for ever.                  *)
(***************************************************************************)
Fairness ==
  /\ WF_vars(CoreStep \/ StartStepFails) /\ WF_vars(EventLoop) /\ WF_vars(StopRadio)
  /\ WF_vars(Associate \/ Refuse)

FairSpec == Spec /\ Fairness
-------------------------------------------------------------------------------
(* Properties                                                              *)

Pending(events) == Range(posted) \cap events # {}

TypeOK ==
  /\ boot \in 1 .. Done
  /\ link \in {"none", "off", "idle", "connecting", "up"}
  /\ ip \in {"none", "held", "stale"}
  /\ posted \in Seq({"STA_START", "STA_DISCONNECTED", "STA_CONNECTED",
                     "STA_GOT_IP", "STA_LOST_IP"})
  /\ isConnected \in BOOLEAN
  /\ connectionRetryCount \in 0 .. CONNECT_MAXIMUM_RETRY
  /\ connectFailed \in BOOLEAN
  /\ stopping \in BOOLEAN
  /\ stops \in 0 .. MaxStops
  /\ coreQueue \in Seq({"DRIVER_WIFI_EVENT_STA_GOT_IP", "DRIVER_WIFI_EVENT_STA_LOST_IP"})
  /\ Len(coreQueue) <= QueueSize
  /\ console \in {"STOPPED", "RUNNING"}
  /\ sys \in {"up", "reboot", "abort"}

\* isConnected, which WiFi_StopSta reads from another thread, is stale only
\* while an event that will correct it is waiting in the event loop.
MirrorsLink ==
  ~Pending({"STA_CONNECTED", "STA_DISCONNECTED"}) => (isConnected <=> link = "up")

\* A started station is left without a connection, and without an event that
\* makes the driver connect, only when all the retries have been spent or the
\* call of esp_wifi_connect for the last one failed: Wifi_EventHandler omits no
\* retry, whatever losses, stops and starts come in between.
NoRetryOmitted ==
  link = "idle" /\ ~Pending({"STA_START", "STA_DISCONNECTED"}) =>
    connectionRetryCount = CONNECT_MAXIMUM_RETRY \/ connectFailed

\* Once the device has an address the console is started, unless the machine
\* stops because CORE does not keep up.
GotIpStartsConsole ==
  Pending({"STA_GOT_IP"}) ~> console = "RUNNING" \/ sys # "up"

\* wifi.h says of WiFi_StartSta: "Will keep trying to connect as long as the
\* interface is not stopped"; here, as long as no call of esp_wifi_connect fails.
KeepsTrying == link = "idle" ~> link # "idle" \/ connectFailed \/ sys # "up"
===============================================================================
