------------------------------- MODULE HmiProofs -------------------------------
(***************************************************************************)
(* Proofs about Hmi, for any size of the queue, any number of presses and  *)
(* any failures of the drivers.                                            *)
(***************************************************************************)
EXTENDS Hmi, TLAPS

\* The light is what it was last told, unless that failed.
LightFollows == ~stale => shown = color

\* No press is handled before the setup hook has returned, and until one is
\* handled the colour is off.
OffAtFirst ==
  sys = "up" =>
    /\ boot # Done => queued = presses
    /\ queued = presses => color = Off

IndInv == TypeOK /\ PressesCounted /\ LightFollows /\ OffAtFirst

-------------------------------------------------------------------------------
\* The setup hook has five steps.
LEMMA FiveSteps == Done = 6
  BY DEF Done, BootSteps

\* The four colours are different, and ColorOf names them.
LEMMA ColorValues ==
  /\ Off # Red /\ Off # Green /\ Off # Blue
  /\ Red # Green /\ Red # Blue /\ Green # Blue
  /\ Off \in Colors /\ Red \in Colors /\ Green \in Colors /\ Blue \in Colors
<1>1. /\ Off.r = 0 /\ Off.g = 0 /\ Off.b = 0
      /\ Red.r = 255 /\ Red.g = 0 /\ Red.b = 0
      /\ Green.r = 0 /\ Green.g = 255 /\ Green.b = 0
      /\ Blue.r = 0 /\ Blue.g = 0 /\ Blue.b = 255
  BY DEF Off, Red, Green, Blue
<1> QED  BY <1>1 DEF Colors

\* ColorOf on the values of the counter.
LEMMA ColorOfValues ==
  /\ ColorOf(0) = Off /\ ColorOf(1) = Red /\ ColorOf(2) = Green /\ ColorOf(3) = Blue
  /\ \A n \in 0 .. 3 : ColorOf(n) \in Colors
  BY ColorValues DEF ColorOf

-------------------------------------------------------------------------------
\* The setup hook, whether its steps succeed or fail, handles no press.
LEMMA SetupStep ==
  ASSUME IndInv, BtnInitStep \/ LedInitStep \/ BootStepFails
  PROVE  IndInv'
<1> USE FiveSteps DEF IndInv, TypeOK, LedInit
<1>1. CASE BtnInitStep
  BY <1>1 DEF BtnInitStep, PressesCounted, LightFollows, OffAtFirst
<1>2. CASE LedInitStep
  <2>1. TypeOK'
    <3>1. boot' \in 1 .. Done
      BY <1>2 DEF LedInitStep
    <3>2. shown' \in Colors
      BY <1>2, ColorValues DEF LedInitStep
    <3>3. stale' \in BOOLEAN /\ strip' \in BOOLEAN
      BY <1>2 DEF LedInitStep
    <3> QED  BY <1>2, <3>1, <3>2, <3>3 DEF LedInitStep
  <2>2. (PressesCounted /\ OffAtFirst)'
    BY <1>2 DEF LedInitStep, PressesCounted, OffAtFirst
  <2>3. LightFollows'
    BY <1>2 DEF LedInitStep, LightFollows, OffAtFirst
  <2> QED  BY <2>1, <2>2, <2>3
<1>3. CASE BootStepFails
  BY <1>3 DEF BootStepFails, PressesCounted, LightFollows, OffAtFirst
<1> QED  BY <1>1, <1>2, <1>3

\* A press that finds room is one more in the queue; one that does not stops
\* the machine.
LEMMA PressStep ==
  ASSUME IndInv, Press
  PROVE  IndInv'
<1> USE HmiAssumption DEF IndInv, TypeOK, Press, Enqueue
<1>1. TypeOK'
  OBVIOUS
<1>2. PressesCounted'
  BY DEF PressesCounted
<1>3. LightFollows' /\ OffAtFirst'
  BY DEF LightFollows, OffAtFirst, PressesCounted
<1> QED  BY <1>1, <1>2, <1>3

\* Handling a press: the counter and the colour move on by one.
LEMMA HandleStep ==
  ASSUME IndInv, HandlePress
  PROVE  IndInv'
<1> USE HmiAssumption DEF IndInv, TypeOK, HandlePress
<1>1. TypeOK'
  <2>1. color' \in Colors /\ count' \in 0 .. 3 /\ queued' \in 0 .. QueueSize
    BY ColorOfValues DEF NextCount
  <2>2. shown' \in Colors /\ stale' \in BOOLEAN
    BY <2>1 DEF SetLedColor
  <2> QED  BY <2>1, <2>2
<1>2. PressesCounted'
  BY DEF PressesCounted, NextCount
<1>3. LightFollows'
  BY DEF LightFollows, SetLedColor
<1>4. OffAtFirst'
  BY DEF OffAtFirst, PressesCounted
<1> QED  BY <1>1, <1>2, <1>3, <1>4

\* The inductive invariant.
THEOREM Invariance == Spec => []IndInv
<1>1. Init => IndInv
  <2> SUFFICES ASSUME Init PROVE IndInv
    OBVIOUS
  <2>1. TypeOK
    <3>1. boot \in 1 .. Done /\ presses \in 0 .. MaxPresses /\ queued \in 0 .. QueueSize
            /\ count \in 0 .. 3
      BY FiveSteps, HmiAssumption DEF Init
    <3>2. color \in Colors /\ shown \in Colors
      BY ColorValues DEF Init
    <3> QED  BY <3>1, <3>2 DEF Init, TypeOK
  <2>2. PressesCounted
    BY DEF Init, PressesCounted
  <2>3. LightFollows /\ OffAtFirst
    BY DEF Init, LightFollows, OffAtFirst
  <2> QED  BY <2>1, <2>2, <2>3 DEF IndInv
<1>2. IndInv /\ [Next]_vars => IndInv'
  <2>1. CASE UNCHANGED vars
    BY <2>1 DEF vars, IndInv, TypeOK, PressesCounted, LightFollows, OffAtFirst
  <2> QED  BY <2>1, SetupStep, PressStep, HandleStep DEF Next
<1> QED  BY <1>1, <1>2, PTL DEF Spec

\* The type invariant of the HMI service.
THEOREM TypeCorrect == Spec => []TypeOK
  BY Invariance, PTL DEF IndInv

\* The counter and the colour are those of the number of presses handled,
\* however many there were and whatever the drivers did.
THEOREM PressesAreCounted == Spec => []PressesCounted
  BY Invariance, PTL DEF IndInv

\* The light differs from ctx.color only after a failure of its driver.
THEOREM LightIsColor == Spec => []LightShowsColor
<1>1. IndInv => LightShowsColor
  BY DEF IndInv, LightFollows, LightShowsColor
<1> QED  BY <1>1, Invariance, PTL

-------------------------------------------------------------------------------
\* The abstract cycle has the colours of the service.
LEMMA SameColors ==
  Cycle!Off = Off /\ Cycle!Red = Red /\ Cycle!Green = Green /\ Cycle!Blue = Blue
  BY DEF Cycle!Off, Cycle!Red, Cycle!Green, Cycle!Blue, Off, Red, Green, Blue

\* After the n-th press the next one shows the next colour.
LEMMA NextColor ==
  ASSUME NEW n \in Nat, n > 0
  PROVE  ColorOf(n % 4) = Cycle!Successor(ColorOf((n - 1) % 4))
<1> DEFINE k == (n - 1) % 4
<1>1. k \in 0 .. 3 /\ n % 4 = IF k = 3 THEN 0 ELSE k + 1
  OBVIOUS
<1>2. /\ Cycle!Successor(Off) = Red /\ Cycle!Successor(Red) = Green
      /\ Cycle!Successor(Green) = Blue /\ Cycle!Successor(Blue) = Off
  BY SameColors, ColorValues DEF Cycle!Successor
<1> HIDE DEF k
<1>3. ColorOf(n % 4) = Cycle!Successor(ColorOf(k))
  BY <1>1, <1>2, ColorOfValues
<1> QED  BY <1>3 DEF k

\* The colours come round in order, whichever drivers fail: only the first
\* press leaves the colour as it was.
THEOREM ColorsCycle == Spec => CyclesColors
<1>1. Init => Cycle!Init
  BY SameColors DEF Init, Cycle!Init
<1>2. IndInv /\ [Next]_vars => [Cycle!Next]_color
  <2>1. CASE HandlePress
    <3> SUFFICES ASSUME IndInv PROVE [Cycle!Next]_color
      BY <2>1
    <3> DEFINE n == presses - queued
    <3>1. n \in Nat /\ color' = ColorOf(n % 4)
      BY <2>1 DEF HandlePress, IndInv, TypeOK, PressesCounted
    <3>2. CASE n = 0
      BY <2>1, <3>1, <3>2, ColorOfValues
      DEF HandlePress, IndInv, TypeOK, OffAtFirst
    <3>3. CASE n # 0
      <4>1. color = ColorOf((n - 1) % 4)
        BY <2>1, <3>3 DEF HandlePress, IndInv, TypeOK, PressesCounted
      <4>2. color' = Cycle!Successor(color)
        BY <3>1, <3>3, <4>1, NextColor
      <4> QED  BY <4>2 DEF Cycle!Next
    <3> QED  BY <3>2, <3>3
  <2>2. CASE UNCHANGED color
    BY <2>2
  <2> QED
    BY <2>1, <2>2
    DEF Next, vars, BtnInitStep, LedInitStep, BootStepFails, Press
<1> QED  BY <1>1, <1>2, Invariance, PTL DEF Spec, CyclesColors, Cycle!Spec
===============================================================================
