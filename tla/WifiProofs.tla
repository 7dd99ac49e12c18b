------------------------------- MODULE WifiProofs -------------------------------
(***************************************************************************)
(* Proofs about Wifi, for any number of retries, any queue of CORE and any *)
(* number of events waiting in the event loop.                             *)
(***************************************************************************)
EXTENDS Wifi, TLAPS

Events == {"STA_START", "STA_DISCONNECTED", "STA_CONNECTED", "STA_GOT_IP", "STA_LOST_IP"}

\* An event a is followed by an event b.
Answered(s, a, b) ==
  \A i \in 1 .. Len(s) : s[i] = a => \E j \in 1 .. Len(s) : j > i /\ s[j] = b

\* The last event about the link that waits in the event loop, if any, tells
\* how the link is now.
LinkKnown ==
  /\ link = "up" => Answered(posted, "STA_DISCONNECTED", "STA_CONNECTED")
  /\ link # "up" => Answered(posted, "STA_CONNECTED", "STA_DISCONNECTED")

\* There is no station before WiFi_Init is over, nor a call of WiFi_StopSta.
NoStation ==
  /\ boot < StartSta => link = "none" /\ ~stopping
  /\ stopping => link # "none"

Links == LinkKnown /\ MirrorsLink /\ NoRetryOmitted

IndInv == TypeOK /\ NoStation /\ Links

-------------------------------------------------------------------------------
(* Sequences of events                                                     *)

\* The places of a sequence that grows by one.
LEMMA Appended ==
  ASSUME NEW s \in Seq(Events), NEW e \in Events
  PROVE  /\ Append(s, e) \in Seq(Events)
         /\ Len(Append(s, e)) = Len(s) + 1 /\ Len(s) \in Nat
         /\ Append(s, e)[Len(s) + 1] = e
         /\ \A i \in 1 .. Len(s) : Append(s, e)[i] = s[i]
  OBVIOUS

\* And of one that loses its first element.
LEMMA Consumed ==
  ASSUME NEW s \in Seq(Events), s # <<>>
  PROVE  /\ Tail(s) \in Seq(Events)
         /\ Len(Tail(s)) = Len(s) - 1 /\ Len(s) \in Nat \ {0}
         /\ Head(s) = s[1] /\ Head(s) \in Events
         /\ \A i \in 1 .. Len(Tail(s)) : Tail(s)[i] = s[i + 1]
  OBVIOUS

\* An event posted answers all before it.
LEMMA AppendAnswers ==
  ASSUME NEW s \in Seq(Events), NEW a \in Events, NEW b \in Events, a # b
  PROVE  Answered(Append(s, b), a, b)
  BY Appended DEF Answered

\* Other events do not change what is answered.
LEMMA AppendKeeps ==
  ASSUME NEW s \in Seq(Events), NEW a \in Events, NEW b \in Events, NEW e \in Events,
         a # e, Answered(s, a, b)
  PROVE  Answered(Append(s, e), a, b)
  BY Appended DEF Answered

\* Nor does the handling of the oldest.
LEMMA TailKeeps ==
  ASSUME NEW s \in Seq(Events), NEW a \in Events, NEW b \in Events,
         s # <<>>, Answered(s, a, b)
  PROVE  Answered(Tail(s), a, b)
<1> SUFFICES ASSUME NEW i \in 1 .. Len(Tail(s)), Tail(s)[i] = a
             PROVE  \E j \in 1 .. Len(Tail(s)) : j > i /\ Tail(s)[j] = b
  BY DEF Answered
<1>1. i + 1 \in 1 .. Len(s) /\ s[i + 1] = a
  BY Consumed
<1>2. PICK j \in 1 .. Len(s) : j > i + 1 /\ s[j] = b
  BY <1>1 DEF Answered
<1>3. j - 1 \in 1 .. Len(Tail(s)) /\ j - 1 > i /\ Tail(s)[j - 1] = b
  BY <1>1, <1>2, Consumed
<1> QED  BY <1>3

\* An event is waiting: said with places.
LEMMA Waiting ==
  ASSUME NEW E
  PROVE  Pending(E) <=> \E i \in 1 .. Len(posted) : posted[i] \in E
  BY DEF Pending, Range

\* What is pending after a step.
LEMMA WaitingNext ==
  ASSUME NEW E
  PROVE  Pending(E)' <=> \E i \in 1 .. Len(posted') : posted'[i] \in E
  BY DEF Pending, Range

-------------------------------------------------------------------------------
(* What a step does to the link and its events                             *)

\* A step that posts no event, handles none and neither makes nor loses a link.
LEMMA Quiet ==
  ASSUME Links, UNCHANGED <<posted, ctx>>,
         link' = link \/ (link # "up" /\ link' \notin {"up", "idle"})
  PROVE  Links'
<1>1. UNCHANGED <<posted, isConnected, connectionRetryCount, connectFailed>>
  BY DEF ctx
<1>2. \A E : Pending(E)' <=> Pending(E)
  BY <1>1, Waiting, WaitingNext
<1>3. LinkKnown'
  BY <1>1 DEF Links, LinkKnown, Answered
<1>4. MirrorsLink' /\ NoRetryOmitted'
  BY <1>1, <1>2 DEF Links, MirrorsLink, NoRetryOmitted
<1> QED  BY <1>3, <1>4 DEF Links

\* A step that posts an event, true to the link, and makes a station idle only
\* with an event that makes the driver connect.
LEMMA Posts ==
  ASSUME TypeOK, Links, NEW e \in Events, posted' = Append(posted, e), UNCHANGED ctx,
         e = "STA_DISCONNECTED" => link' # "up",
         e = "STA_CONNECTED" => link' = "up",
         e \notin {"STA_DISCONNECTED", "STA_CONNECTED"} => (link' = "up" <=> link = "up"),
         link' = "idle" => link = "idle" \/ e \in {"STA_START", "STA_DISCONNECTED"}
  PROVE  Links'
<1>1. /\ UNCHANGED <<isConnected, connectionRetryCount, connectFailed>>
      /\ posted \in Seq(Events) /\ "STA_DISCONNECTED" \in Events /\ "STA_CONNECTED" \in Events
  BY DEF ctx, TypeOK, Events
<1>2. \A E : Pending(E)' <=> Pending(E) \/ e \in E
  <2> TAKE E
  <2>1. 1 .. Len(posted') = (1 .. Len(posted)) \cup {Len(posted) + 1}
    BY <1>1, Appended
  <2> QED  BY <1>1, <2>1, Appended, Waiting, WaitingNext
<1>3. LinkKnown'
  <2>1. CASE e = "STA_DISCONNECTED"
    BY <1>1, <2>1, AppendAnswers DEF LinkKnown
  <2>2. CASE e = "STA_CONNECTED"
    BY <1>1, <2>2, AppendAnswers DEF LinkKnown
  <2>3. CASE e \notin {"STA_DISCONNECTED", "STA_CONNECTED"}
    BY <1>1, <2>3, AppendKeeps DEF Links, LinkKnown
  <2> QED  BY <2>1, <2>2, <2>3
<1>4. MirrorsLink'
  BY <1>1, <1>2 DEF Links, MirrorsLink
<1>5. NoRetryOmitted'
  BY <1>1, <1>2 DEF Links, NoRetryOmitted
<1> QED  BY <1>3, <1>4, <1>5 DEF Links

\* A step that handles an event, and calls esp_wifi_connect when it is one that
\* tells the driver to and retries are left.
LEMMA Consumes ==
  ASSUME TypeOK, Links, posted # <<>>, posted' = Tail(posted), NEW e \in Events, Head(posted) = e,
         link' = "up" <=> link = "up",
         link' = "idle" => link = "idle",
         isConnected' = IF e = "STA_DISCONNECTED" THEN FALSE
                        ELSE IF e = "STA_CONNECTED" THEN TRUE ELSE isConnected,
         e \in {"STA_START", "STA_DISCONNECTED"} =>
           link' # "idle" \/ connectionRetryCount' = CONNECT_MAXIMUM_RETRY \/ connectFailed',
         e \in {"STA_GOT_IP", "STA_LOST_IP"} => UNCHANGED <<connectionRetryCount, connectFailed>>
  PROVE  Links'
<1>1. posted \in Seq(Events) /\ "STA_DISCONNECTED" \in Events /\ "STA_CONNECTED" \in Events
  BY DEF TypeOK, Events
<1>2. \A E : Pending(E) <=> Pending(E)' \/ e \in E
  <2> TAKE E
  <2>1. Pending(E) => Pending(E)' \/ e \in E
    <3> SUFFICES ASSUME NEW i \in 1 .. Len(posted), posted[i] \in E, e \notin E
                 PROVE  Pending(E)'
      BY Waiting
    <3>1. i # 1 /\ i - 1 \in 1 .. Len(posted') /\ posted'[i - 1] = posted[i]
      BY <1>1, Consumed
    <3> QED  BY <3>1, WaitingNext
  <2>2. Pending(E)' => Pending(E)
    <3> SUFFICES ASSUME NEW i \in 1 .. Len(posted'), posted'[i] \in E
                 PROVE  Pending(E)
      BY WaitingNext
    <3>1. i + 1 \in 1 .. Len(posted) /\ posted'[i] = posted[i + 1]
      BY <1>1, Consumed
    <3> QED  BY <3>1, Waiting
  <2>3. e \in E => Pending(E)
    BY <1>1, Consumed, Waiting
  <2> QED  BY <2>1, <2>2, <2>3
<1>3. LinkKnown'
  BY <1>1, TailKeeps DEF Links, LinkKnown
<1>4. ASSUME NEW a \in Events, NEW b \in Events, e = a, Answered(posted, a, b)
      PROVE  Pending({b})'
  <2>1. PICK j \in 1 .. Len(posted) : j > 1 /\ posted[j] = b
    BY <1>1, <1>4, Consumed DEF Answered
  <2>2. j - 1 \in 1 .. Len(posted') /\ posted'[j - 1] = b
    BY <1>1, <2>1, Consumed
  <2> QED  BY <2>2, WaitingNext
<1>5. /\ e = "STA_DISCONNECTED" /\ link = "up" => Pending({"STA_CONNECTED"})'
      /\ e = "STA_CONNECTED" /\ link # "up" => Pending({"STA_DISCONNECTED"})'
  BY <1>1, <1>4 DEF Links, LinkKnown
<1>6. \A b \in Events : \A E : b \in E /\ Pending({b})' => Pending(E)'
  BY WaitingNext
<1>7. MirrorsLink'
  <2> SUFFICES ASSUME ~Pending({"STA_CONNECTED", "STA_DISCONNECTED"})'
               PROVE  isConnected' <=> link = "up"
    BY DEF MirrorsLink
  <2>1. e = "STA_DISCONNECTED" => link # "up"
    BY <1>1, <1>5, <1>6
  <2>2. e = "STA_CONNECTED" => link = "up"
    BY <1>1, <1>5, <1>6
  <2>3. e \notin {"STA_CONNECTED", "STA_DISCONNECTED"} => (isConnected <=> link = "up")
    BY <1>2 DEF Links, MirrorsLink
  <2> QED  BY <2>1, <2>2, <2>3
<1>8. NoRetryOmitted'
  <2> SUFFICES ASSUME link' = "idle", ~Pending({"STA_START", "STA_DISCONNECTED"})'
               PROVE  connectionRetryCount' = CONNECT_MAXIMUM_RETRY \/ connectFailed'
    BY DEF NoRetryOmitted
  <2>1. e # "STA_CONNECTED"
    BY <1>1, <1>5, <1>6
  <2>2. e \notin {"STA_START", "STA_DISCONNECTED"} => connectionRetryCount = CONNECT_MAXIMUM_RETRY \/ connectFailed
    BY <1>2 DEF Links, NoRetryOmitted
  <2> QED  BY <2>1, <2>2 DEF Events
<1> QED  BY <1>3, <1>7, <1>8 DEF Links

-------------------------------------------------------------------------------
(* The steps                                                               *)

\* The station is there after the last step of WiFi_Init.
LEMMA Steps ==
  /\ StartSta = 7 /\ Done = 10
  /\ \A i \in 1 .. 5 : CoreSteps[i] # "wifi_init"
  BY DEF StartSta, Done, CoreSteps, InitSteps, StartSteps

\* Nothing is there initially.
LEMMA Base == Init => IndInv
<1> SUFFICES ASSUME Init PROVE IndInv
  OBVIOUS
<1>1. posted = <<>> /\ Len(posted) = 0
  BY DEF Init
<1>2. TypeOK
  <2>1. 0 <= QueueSize /\ 0 \in 0 .. CONNECT_MAXIMUM_RETRY /\ 0 \in 0 .. MaxStops
    BY WifiAssumption
  <2>2. boot \in 1 .. Done
    BY Steps DEF Init
  <2>3. \A S : <<>> \in Seq(S) /\ Len(<<>>) = 0
    OBVIOUS
  <2>4. /\ posted \in Seq({"STA_START", "STA_DISCONNECTED", "STA_CONNECTED",
                           "STA_GOT_IP", "STA_LOST_IP"})
        /\ coreQueue \in Seq({"DRIVER_WIFI_EVENT_STA_GOT_IP", "DRIVER_WIFI_EVENT_STA_LOST_IP"})
        /\ Len(coreQueue) <= QueueSize
    BY <2>1, <2>3 DEF Init
  <2> QED  BY <2>1, <2>2, <2>4 DEF Init, TypeOK
<1>3. NoStation
  BY Steps DEF Init, NoStation
<1>4. Links
  BY <1>1, Waiting DEF Init, Links, LinkKnown, Answered, MirrorsLink, NoRetryOmitted
<1> QED  BY <1>2, <1>3, <1>4 DEF IndInv

\* The end of the program.
LEMMA HaltStep ==
  ASSUME IndInv, NEW how \in {"reboot", "abort"}, Halt(how)
  PROVE  IndInv'
<1>1. UNCHANGED <<boot, link, ip, posted, isConnected, connectionRetryCount, connectFailed, stopping, stops,
                  coreQueue, console>> /\ sys' = how
  BY DEF Halt, radio, ctx, stop
<1>2. TypeOK' /\ NoStation'
  BY <1>1 DEF IndInv, TypeOK, NoStation
<1>3. Links'
  BY <1>1, Quiet DEF IndInv, ctx
<1> QED  BY <1>2, <1>3 DEF IndInv

\* The steps of the setup hook before the station is started.
LEMMA CoreInitStep ==
  ASSUME IndInv, InitStep \/ InitStepFails \/ StartStepFails
  PROVE  IndInv'
<1>1. CASE \E how \in {"reboot", "abort"} : Halt(how)
  BY <1>1, HaltStep
<1>2. CASE ~\E how \in {"reboot", "abort"} : Halt(how)
  <2>1. /\ UNCHANGED <<ip, posted, isConnected, connectionRetryCount, connectFailed, stopping, stops,
                       coreQueue, console, sys>>
        /\ \/ /\ boot < StartSta /\ boot' = boot + 1
              /\ link' = IF CoreSteps[boot] = "wifi_init" THEN "off" ELSE link
           \/ boot < StartSta /\ boot' = StartSta /\ link' = link
           \/ boot \in StartSta .. (Done - 1) /\ boot' = Done /\ link' = link
    BY <1>2 DEF InitStep, InitStepFails, StartStepFails, Up, radio, ctx, stop
  <2>2. TypeOK'
    BY <2>1, Steps DEF IndInv, TypeOK
  <2>3. NoStation'
    <3>1. boot \in 1 .. 10
      BY Steps DEF IndInv, TypeOK
    <3>2. boot' < StartSta => boot \in 1 .. 5
      BY <2>1, <3>1, Steps
    <3> QED  BY <2>1, <3>1, <3>2, Steps DEF IndInv, NoStation
  <2>4. Links'
    <3>1. link' # link => link = "none" /\ link' = "off"
      BY <2>1, Steps DEF IndInv, NoStation, TypeOK
    <3> QED  BY <2>1, <3>1, Quiet DEF IndInv, ctx
  <2> QED  BY <2>2, <2>3, <2>4 DEF IndInv
<1> QED  BY <1>1, <1>2

\* The steps that start it.
LEMMA StartStepStep ==
  ASSUME IndInv, StartStep
  PROVE  IndInv'
<1>1. /\ boot \in StartSta .. (Done - 1) /\ boot' = boot + 1 /\ link # "none"
      /\ \/ link = "off" /\ link' = "idle" /\ posted' = Append(posted, "STA_START")
         \/ UNCHANGED <<link, posted>>
      /\ UNCHANGED <<ip, isConnected, connectionRetryCount, connectFailed, stopping, stops, coreQueue, console, sys>>
  BY DEF StartStep, Up, ctx, stop
<1>2. TypeOK'
  <2>1. posted' \in Seq(Events) /\ boot' \in 1 .. Done
    BY <1>1, Steps DEF IndInv, TypeOK, Events
  <2> QED  BY <1>1, <2>1 DEF IndInv, TypeOK, Events
<1>3. NoStation'
  BY <1>1, Steps DEF IndInv, NoStation
<1>4. Links'
  <2>1. "STA_START" \in Events
    BY DEF Events
  <2> QED  BY <1>1, <2>1, Quiet, Posts DEF IndInv, ctx
<1> QED  BY <1>2, <1>3, <1>4 DEF IndInv

\* CORE handles the oldest event of its queue.
LEMMA CoreHandlesStep ==
  ASSUME IndInv, CoreHandlesEvent
  PROVE  IndInv'
<1>1. /\ coreQueue # <<>> /\ coreQueue' = Tail(coreQueue)
      /\ console' \in {"RUNNING", console}
      /\ UNCHANGED <<boot, link, ip, posted, isConnected, connectionRetryCount, connectFailed, stopping, stops, sys>>
  BY DEF CoreHandlesEvent, Up, radio, ctx, stop
<1>2. TypeOK'
  BY <1>1, WifiAssumption DEF IndInv, TypeOK
<1>3. NoStation' /\ Links'
  BY <1>1, Quiet DEF IndInv, NoStation, ctx
<1> QED  BY <1>2, <1>3 DEF IndInv

\* The event loop handles the oldest event.
LEMMA EventLoopStep ==
  ASSUME IndInv, EventLoop
  PROVE  IndInv'
<1>1. CASE \E how \in {"reboot", "abort"} : Halt(how)
  BY <1>1, HaltStep
<1>2. CASE ~\E how \in {"reboot", "abort"} : Halt(how)
  <2>1. PICK e \in Events :
          /\ posted # <<>> /\ Head(posted) = e /\ posted' = Tail(posted)
          /\ link' = link \/ (link = "idle" /\ link' = "connecting")
          /\ isConnected' = IF e = "STA_DISCONNECTED" THEN FALSE
                            ELSE IF e = "STA_CONNECTED" THEN TRUE ELSE isConnected
          /\ \/ e = "STA_START" /\ link' = "connecting" /\ UNCHANGED connectionRetryCount
             \/ /\ e = "STA_DISCONNECTED" /\ RetriesLeft
                /\ link' # "idle" \/ connectFailed'
                /\ connectionRetryCount' = connectionRetryCount + 1
             \/ e = "STA_DISCONNECTED" /\ ~RetriesLeft /\ UNCHANGED connectionRetryCount
             \/ e = "STA_CONNECTED" /\ connectionRetryCount' = 0
             \/ e \in {"STA_GOT_IP", "STA_LOST_IP"} /\ UNCHANGED <<connectionRetryCount, connectFailed>>
          /\ connectFailed' \in {connectFailed, TRUE, FALSE}
          /\ \/ UNCHANGED coreQueue
             \/ Len(coreQueue) < QueueSize /\ \E f \in {"STA_GOT_IP", "STA_LOST_IP"} : coreQueue' = Append(coreQueue, Forwarded(f))
          /\ UNCHANGED <<boot, ip, stopping, stops, console, sys>>
    <3>1. CASE OnStaStart
      BY <1>2, <3>1 DEF OnStaStart, Oldest, Up, Consume, Connect, ctx, stop, Events
    <3>2. CASE OnDisconnected
      BY <3>2 DEF OnDisconnected, Oldest, Up, Consume, Connect, stop, Events
    <3>3. CASE OnConnected
      BY <3>3 DEF OnConnected, Oldest, Up, Consume, stop, Events
    <3>4. CASE OnIpEvent
      BY <1>2, <3>4 DEF OnIpEvent, Oldest, Up, Consume, ctx, stop, Events
    <3> QED  BY <3>1, <3>2, <3>3, <3>4 DEF EventLoop
  <2>2. TypeOK /\ Links /\ connectionRetryCount \in 0 .. CONNECT_MAXIMUM_RETRY
    BY DEF IndInv, TypeOK
  <2>3. TypeOK'
    <3>1. posted' \in Seq(Events)
      BY <2>1, <2>2 DEF TypeOK, Events
    <3>2. connectionRetryCount' \in 0 .. CONNECT_MAXIMUM_RETRY
      BY <2>1, <2>2, WifiAssumption DEF RetriesLeft
    <3>3. /\ coreQueue' \in Seq({"DRIVER_WIFI_EVENT_STA_GOT_IP", "DRIVER_WIFI_EVENT_STA_LOST_IP"})
          /\ Len(coreQueue') <= QueueSize
      <4>1. CASE UNCHANGED coreQueue
        BY <2>2, <4>1 DEF TypeOK
      <4>2. ASSUME NEW f \in {"STA_GOT_IP", "STA_LOST_IP"}, Len(coreQueue) < QueueSize,
                   coreQueue' = Append(coreQueue, Forwarded(f))
            PROVE  /\ coreQueue' \in Seq({"DRIVER_WIFI_EVENT_STA_GOT_IP", "DRIVER_WIFI_EVENT_STA_LOST_IP"})
                   /\ Len(coreQueue') <= QueueSize
        <5>1. Forwarded(f) \in {"DRIVER_WIFI_EVENT_STA_GOT_IP", "DRIVER_WIFI_EVENT_STA_LOST_IP"}
          BY <4>2 DEF Forwarded
        <5>2. QueueSize \in Nat
          BY WifiAssumption
        <5> QED  BY <2>2, <4>2, <5>1, <5>2 DEF TypeOK
      <4> QED  BY <2>1, <4>1, <4>2
    <3> QED  BY <2>1, <2>2, <3>1, <3>2, <3>3 DEF TypeOK, Events
  <2>4. NoStation'
    BY <2>1 DEF IndInv, NoStation
  <2>5. Links'
    <3>1. e \in {"STA_START", "STA_DISCONNECTED"} =>
            link' # "idle" \/ connectionRetryCount' = CONNECT_MAXIMUM_RETRY \/ connectFailed'
      BY <2>1, <2>2, WifiAssumption DEF RetriesLeft
    <3>2. e \in {"STA_GOT_IP", "STA_LOST_IP"} => UNCHANGED <<connectionRetryCount, connectFailed>>
      BY <2>1
    <3> QED  BY <2>1, <2>2, <3>1, <3>2, Consumes
  <2> QED  BY <2>3, <2>4, <2>5 DEF IndInv
<1> QED  BY <1>1, <1>2

\* WiFi_StopSta, one call after the other.
LEMMA StopStep ==
  ASSUME IndInv, CallStopSta \/ StopRadio \/ StartAgain
  PROVE  IndInv'
<1>1. CASE CallStopSta
  <2>1. /\ boot = Done /\ link # "none" /\ stops < MaxStops
        /\ stopping' \in {stopping, TRUE} /\ stops' = stops + 1
        /\ \/ link' = "idle" /\ posted' = Append(posted, "STA_DISCONNECTED")
           \/ UNCHANGED <<link, posted>>
        /\ ip' \in {ip, "stale"}
        /\ UNCHANGED <<boot, isConnected, connectionRetryCount, connectFailed, coreQueue, console, sys>>
    BY <1>1 DEF CallStopSta, Up, ctx, radio
  <2>2. TypeOK'
    <3>1. posted' \in Seq(Events)
      BY <2>1 DEF IndInv, TypeOK, Events
    <3>2. stops' \in 0 .. MaxStops
      BY <2>1, WifiAssumption DEF IndInv, TypeOK
    <3> QED  BY <2>1, <3>1, <3>2 DEF IndInv, TypeOK, Events
  <2>3. NoStation' /\ Links'
    BY <2>1, Steps, Quiet, Posts DEF IndInv, NoStation, ctx, Events
  <2> QED  BY <2>2, <2>3 DEF IndInv
<1>2. CASE StopRadio
  <2>1. /\ stopping /\ stopping' = FALSE
        /\ \/ link' = "off" /\ posted' = Append(posted, "STA_DISCONNECTED")
           \/ link' = "off" /\ link # "up" /\ UNCHANGED posted
           \/ UNCHANGED <<link, posted>>
        /\ ip' \in {ip, "stale"}
        /\ UNCHANGED <<boot, stops, isConnected, connectionRetryCount, connectFailed, coreQueue, console, sys>>
    BY <1>2 DEF StopRadio, Up, ctx, radio
  <2>2. TypeOK'
    <3>1. posted' \in Seq(Events)
      BY <2>1 DEF IndInv, TypeOK, Events
    <3> QED  BY <2>1, <3>1 DEF IndInv, TypeOK, Events
  <2>3. NoStation' /\ Links'
    BY <2>1, Steps, Quiet, Posts DEF IndInv, NoStation, ctx, Events
  <2> QED  BY <2>2, <2>3 DEF IndInv
<1>3. CASE StartAgain
  <2>1. /\ boot = Done /\ link = "off" /\ link' = "idle"
        /\ posted' = Append(posted, "STA_START")
        /\ UNCHANGED <<boot, ip, isConnected, connectionRetryCount, connectFailed, stopping, stops,
                       coreQueue, console, sys>>
    BY <1>3 DEF StartAgain, Up, ctx, stop
  <2>2. TypeOK'
    <3>1. posted' \in Seq(Events)
      BY <2>1 DEF IndInv, TypeOK, Events
    <3> QED  BY <2>1, <3>1 DEF IndInv, TypeOK, Events
  <2>3. NoStation' /\ Links'
    BY <2>1, Steps, Posts DEF IndInv, NoStation, ctx, Events
  <2> QED  BY <2>2, <2>3 DEF IndInv
<1> QED  BY <1>1, <1>2, <1>3

\* The radio connects, is refused or loses the link.
LEMMA RadioStep ==
  ASSUME IndInv, Radio
  PROVE  IndInv'
<1>1. PICK e \in Events :
        /\ posted' = Append(posted, e)
        /\ \/ e = "STA_CONNECTED" /\ link = "connecting" /\ link' = "up"
           \/ e = "STA_DISCONNECTED" /\ link \in {"connecting", "up"} /\ link' = "idle"
           \/ e \in {"STA_GOT_IP", "STA_LOST_IP"} /\ link' = link
        /\ ip' \in {ip, "none", "held", "stale"}
        /\ UNCHANGED <<boot, isConnected, connectionRetryCount, connectFailed, stopping, stops,
                       coreQueue, console, sys>>
  BY DEF Radio, Associate, Refuse, LoseLink, GetIp, LoseIp, Post, Up, ctx, stop, Events
<1>2. TypeOK'
  <2>1. posted' \in Seq(Events)
    BY <1>1 DEF IndInv, TypeOK, Events
  <2> QED  BY <1>1, <2>1 DEF IndInv, TypeOK, Events
<1>3. NoStation'
  BY <1>1 DEF IndInv, NoStation
<1>4. Links'
  BY <1>1, Posts DEF IndInv, ctx
<1> QED  BY <1>2, <1>3, <1>4 DEF IndInv

-------------------------------------------------------------------------------
(* The theorems                                                            *)

\* The actions together.
LEMMA Inductive == IndInv /\ [Next]_vars => IndInv'
<1> SUFFICES ASSUME IndInv, [Next]_vars PROVE IndInv'
  OBVIOUS
<1>1. CASE Next
  BY <1>1, CoreInitStep, StartStepStep, CoreHandlesStep, EventLoopStep, StopStep, RadioStep
     DEF Next, CoreStep
<1>2. CASE UNCHANGED vars
  <2>1. UNCHANGED <<boot, link, ip, posted, isConnected, connectionRetryCount, connectFailed, stopping, stops,
                    coreQueue, console, sys>>
    BY <1>2 DEF vars, radio, ctx, stop
  <2>2. TypeOK' /\ NoStation'
    BY <2>1 DEF IndInv, TypeOK, NoStation
  <2>3. Links'
    BY <2>1, Quiet DEF IndInv, ctx
  <2> QED  BY <2>2, <2>3 DEF IndInv
<1> QED  BY <1>1, <1>2

\* The invariant holds always.
LEMMA Invariance == Spec => []IndInv
  BY Base, Inductive, PTL DEF Spec

\* The types are right in every reachable state; the retries never exceed
\* CONNECT_MAXIMUM_RETRY.
THEOREM TypeCorrect == Spec => []TypeOK
<1>1. IndInv => TypeOK
  BY DEF IndInv
<1> QED  BY <1>1, Invariance, PTL

\* isConnected of wifi.c, which WiFi_StopSta reads without a lock, is wrong only
\* while the event that corrects it waits in the event loop.
THEOREM FlagMirrorsLink == Spec => []MirrorsLink
<1>1. IndInv => MirrorsLink
  BY DEF IndInv, Links
<1> QED  BY <1>1, Invariance, PTL

\* Wifi_EventHandler leaves a started station without a connection only when
\* all its retries are spent or its last call of esp_wifi_connect, whose result
\* it ignores, failed, whatever losses, stops and starts come in between.
THEOREM RetriesNotOmitted == Spec => []NoRetryOmitted
<1>1. IndInv => NoRetryOmitted
  BY DEF IndInv, Links
<1> QED  BY <1>1, Invariance, PTL
===============================================================================
