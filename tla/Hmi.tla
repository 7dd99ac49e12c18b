----------------------------------- MODULE Hmi -----------------------------------
(***************************************************************************)
(* The HMI service of the device (hmi/hmi.c) with its button and its light *)
(* (adapter/esp32/btn.c and led.c).                                        *)
(*                                                                         *)
(* The interrupt of the button sends an event to the queue of the service, *)
(* from the moment the handler is attached; the task of the service runs   *)
(* the setup hook and then handles the events.  The drivers of ESP-IDF may *)
(* fail, and neither the setup hook nor the handler looks at the result.   *)
(***************************************************************************)
EXTENDS Naturals, Sequences

CONSTANTS
  QueueSize,      \* SERVICE_QUEUE_SIZE
  MaxPresses      \* bound: presses of the button

ASSUME HmiAssumption == QueueSize \in Nat \ {0} /\ MaxPresses \in Nat

VARIABLES
  boot,       \* index in BootSteps of what the setup hook does next
  strip,      \* ctx.led_strip is set
  attached,   \* the interrupt handler of the button is attached
  presses,    \* presses the interrupt handler has sent
  queued,     \* events in the queue of the service, all of them presses
  count,      \* ctx.count
  color,      \* ctx.color
  shown,      \* the colour of the light
  stale,      \* the light was never written, or its last update failed
  sys         \* "up" or "reboot"

vars == <<boot, strip, attached, presses, queued, count, color, shown, stale, sys>>

\* Btn_Init, then Led_Init.
BootSteps == <<"gpio_config", "install_isr", "handler_add",
               "new_rmt_device", "strip_clear">>
LedInit == 4
Done == Len(BootSteps) + 1

Off == [r |-> 0, g |-> 0, b |-> 0]
Red == [r |-> 255, g |-> 0, b |-> 0]
Green == [r |-> 0, g |-> 255, b |-> 0]
Blue == [r |-> 0, g |-> 0, b |-> 255]

Colors == {Off, Red, Green, Blue}

\* The light keeps its colour through a reboot.
Init ==
  /\ boot = 1
  /\ strip = FALSE /\ attached = FALSE
  /\ presses = 0 /\ queued = 0
  /\ count = 0 /\ color = Off
  /\ shown \in Colors /\ stale = TRUE
  /\ sys = "up"

-------------------------------------------------------------------------------
(* Hmi_Init                                                                *)

\* A step of Btn_Init succeeds; the last one attaches the interrupt handler.
BtnInitStep ==
  /\ sys = "up" /\ boot < LedInit
  /\ boot' = boot + 1
  /\ attached' = (BootSteps[boot] = "handler_add")
  /\ UNCHANGED <<strip, presses, queued, count, color, shown, stale, sys>>

\* A step of Led_Init succeeds: the strip is created, then cleared.
LedInitStep ==
  /\ sys = "up" /\ boot \in LedInit .. (Done - 1)
  /\ boot' = boot + 1
  /\ strip' = TRUE
  /\ IF BootSteps[boot] = "strip_clear"
     THEN shown' = Off /\ stale' = FALSE
     ELSE UNCHANGED <<shown, stale>>
  /\ UNCHANGED <<attached, presses, queued, count, color, sys>>

\* A step fails: CHECK_ERROR returns from Btn_Init or from Led_Init, and
\* Hmi_Init goes on.
BootStepFails ==
  /\ sys = "up" /\ boot < Done
  /\ boot' = IF boot < LedInit THEN LedInit ELSE Done
  /\ UNCHANGED <<strip, attached, presses, queued, count, color, shown, stale, sys>>

-------------------------------------------------------------------------------
(* Btn_GpioIsrHandler                                                      *)

\* Mutant of Enqueue: a full queue drops the press without a reboot.
EnqueueOrDrop ==
  /\ queued' = IF queued < QueueSize THEN queued + 1 ELSE queued
  /\ UNCHANGED sys

\* xQueueSendFromISR and the reboot when the queue is full.
Enqueue ==
  \/ queued < QueueSize /\ queued' = queued + 1 /\ UNCHANGED sys
  \/ queued >= QueueSize /\ sys' = "reboot" /\ UNCHANGED queued

Press ==
  /\ sys = "up" /\ attached /\ presses < MaxPresses
  /\ presses' = presses + 1
  /\ Enqueue
  /\ UNCHANGED <<boot, strip, attached, count, color, shown, stale>>

-------------------------------------------------------------------------------
(* Hmi_HandleEvent                                                         *)

\* Mutant of NextCount: the counter is not reset after blue.
NextCountRunsOn == count + 1

\* Mutant of NextCount: the counter is reset to 1.
NextCountSkipsOff == IF count < 3 THEN count + 1 ELSE 1

NextCount == IF count < 3 THEN count + 1 ELSE 0

ColorOf(n) ==
  CASE n = 0 -> Off
    [] n = 1 -> Red
    [] n = 2 -> Green
    [] OTHER -> Blue

\* Mutant of SetLedColor: the colour is put in the buffer of the strip, and the
\* strip is not refreshed.
SetWithoutRefresh(c) == stale' = FALSE /\ UNCHANGED shown

\* Mutant of SetLedColor: it waits for a strip.
SetWhenReady(c) == strip /\ shown' = c /\ stale' = FALSE

\* Led_SetLedColor: without a strip, or when the driver fails, the light stays
\* as it is, and the handler does not notice.
SetLedColor(c) ==
  \/ strip /\ shown' = c /\ stale' = FALSE
  \/ stale' = TRUE /\ UNCHANGED shown

HandlePress ==
  /\ sys = "up" /\ boot = Done /\ queued > 0
  /\ queued' = queued - 1
  /\ color' = ColorOf(count)
  /\ count' = NextCount
  /\ SetLedColor(color')
  /\ UNCHANGED <<boot, strip, attached, presses, sys>>

-------------------------------------------------------------------------------
Next == BtnInitStep \/ LedInitStep \/ BootStepFails \/ Press \/ HandlePress

Spec == Init /\ [][Next]_vars

\* The task of the service is scheduled; nobody has to press the button.
FairSpec ==
  Spec /\ WF_vars(BtnInitStep \/ LedInitStep \/ BootStepFails \/ HandlePress)
-------------------------------------------------------------------------------
(* Properties                                                              *)

TypeOK ==
  /\ boot \in 1 .. Done
  /\ strip \in BOOLEAN /\ attached \in BOOLEAN /\ stale \in BOOLEAN
  /\ presses \in 0 .. MaxPresses
  /\ queued \in 0 .. QueueSize
  /\ count \in 0 .. 3
  /\ color \in Colors /\ shown \in Colors
  /\ sys \in {"up", "reboot"}

\* Every press is either waiting or has moved the colours on by one, unless
\* the queue was full and the machine reboots: the counter and the colour are
\* those of the number of presses handled.
PressesCounted ==
  sys = "up" =>
    /\ queued <= presses
    /\ count = (presses - queued) % 4
    /\ presses # queued => color = ColorOf((presses - queued - 1) % 4)

\* Once the service handles events, the light differs from ctx.color only if
\* its driver failed: at start-up with no press since, or in the last update.
LightShowsColor == boot = Done /\ shown # color => stale

\* Every press is handled in the end, unless the machine reboots.
PressesHandled ==
  \A n \in 1 .. MaxPresses : presses = n ~> presses - queued >= n \/ sys # "up"

\* The colours come round in the order a user expects; the first press of all
\* changes nothing.
Cycle == INSTANCE LedCycle
CyclesColors == Cycle!Spec
===============================================================================
