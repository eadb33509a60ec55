---------------------------- MODULE BoardProofs ----------------------------
(***************************************************************************)
(* Bring-up of both boards, for any register contents at power-up and any  *)
(* number of attempts, failing calls and restarts.                         *)
(*                                                                         *)
(* The PM1 driver's invariant is taken over from Pm1Proofs; what is added  *)
(* relates the driver's place and arguments to the part of bring-up that   *)
(* has called it.                                                          *)
(***************************************************************************)
EXTENDS BoardInit, Pm1Proofs

LEMMA Boards ==
  /\ HasPm1 <=> HasButtons
  /\ HasPm1 \in BOOLEAN /\ HasButtons \in BOOLEAN
  /\ HasPm1 => L3b = 2 /\ Amp = 3
BY BoardAssumption
DEF HasPm1, HasButtons, L3b, Amp, Board, stick_s3_desc, cardputer_adv_desc

\* The driver works only for the part of bring-up that called it, ...
InPart ==
  /\ bpc \notin {"pm1", "l3b", "amp"} => mpc = "idle"
  /\ bpc = "pm1" => mpc \in {"idle", "add", "id", "done"} /\ stage = 0
  /\ bpc = "l3b" => mpc \in {"idle", "read", "write", "done"}
  /\ bpc = "amp" => mpc \in {"idle", "read", "write", "done"}
  /\ bpc = "l3b" /\ mpc # "idle" => pin = L3b /\ level /\ stage > 0
  /\ bpc = "amp" /\ mpc # "idle" => pin = Amp /\ ~level /\ stage > 0

\* ... and what is known when a part is reached.
Reached ==
  /\ bpc \in {"pm1", "l3b", "amp"} => HasPm1
  /\ bpc \in {"pm1", "l3b", "amp", "gpio"} => s_internal_i2c
  /\ bpc \in {"l3b", "amp"} => s_pm1_initialized
  /\ bpc = "pm1" /\ (mpc = "id" \/ (mpc = "done" /\ mret)) => pm1dev
  /\ bpc = "gpio" => HasButtons

BoardFlagsOK ==
  /\ bpc \in {"idle", "bus", "pm1", "l3b", "amp", "gpio", "done"}
  /\ bret \in BOOLEAN
  /\ s_internal_i2c \in BOOLEAN /\ s_pm1_initialized \in BOOLEAN
  /\ gpioReady \in BOOLEAN

\* The rail is on from the amplifier's turn on.
RailOn == HasPm1 /\ bpc = "amp" => High(reg, L3b)

BInv ==
  /\ Pm1Inv
  /\ BoardFlagsOK /\ InPart /\ Reached
  /\ InitializedHasDevice
  /\ RailOn /\ PowerAsDocumented

(***************************************************************************)
(* The driver's view of a step: no step switches the chip off.             *)
(***************************************************************************)
Update == mpc = "write" /\ reg' = After(reg)

LEMMA DriverPart ==
  ASSUME BInv, [Next]_vars
  PROVE  Pm1Inv' /\ (reg' = reg \/ Update)
<1> USE DEF BInv
<1>0. ASSUME UNCHANGED <<reg, pm1Driver>>, faults' \in 0..MaxFaults
      PROVE  Pm1Inv' /\ reg' = reg
  BY <1>0 DEF pm1Driver, Pm1Inv, Pm1TypeOK, Working, Fresh, Progress, Updates
<1>1. faults \in 0..MaxFaults
  BY DEF Pm1Inv, Pm1TypeOK
<1>2. CASE CallPeripherals \/ BoardReturn
  BY <1>0, <1>1, <1>2 DEF CallPeripherals, BoardReturn, pm1Vars
<1>3. CASE InitEarly \/ ConfigureButtons
  <2>1. faults' \in 0..MaxFaults
    BY <1>1, <1>3, FaultsType DEF InitEarly, ConfigureButtons
  <2> QED  BY <1>0, <1>3, <2>1 DEF InitEarly, ConfigureButtons
<1>4. CASE StartPm1
  <2>1. CASE CallPm1Init
    BY <2>1, QuietStep
  <2>2. bpc \in {"l3b", "amp"} => L3b \in Nat /\ Amp \in Nat
    BY Boards DEF Reached
  <2> QED  BY <1>4, <2>1, <2>2, SetOutputStep DEF StartPm1
<1>5. CASE RunPm1
  BY <1>5, QuietStep, ReadStep, WriteStep DEF RunPm1, Pm1Step, Update
<1>6. CASE Pm1Ready \/ L3bSet \/ AmpSet \/ Restart
  BY <1>6, QuietStep DEF Pm1Ready, L3bSet, AmpSet, Restart
<1>7. CASE UNCHANGED vars
  BY <1>0, <1>1, <1>7 DEF vars, pm1Vars
<1> QED
  BY <1>2, <1>3, <1>4, <1>5, <1>6, <1>7 DEF Next, BoardStep

\* While an output is written, bring-up is at that output.
LEMMA UpdateOf ==
  ASSUME BInv, Update
  PROVE  /\ AfterFacts(reg) /\ Setting /\ stage \in 1..3 /\ HasPm1
         /\ \/ bpc = "l3b" /\ pin = L3b /\ level
            \/ bpc = "amp" /\ pin = Amp /\ ~level
<1>1. Setting /\ stage \in 1..3 /\ reg \in RegType
  BY DEF BInv, Pm1Inv, Pm1TypeOK, Working, Setting, RegType, Update
<1>2. bpc \in {"l3b", "amp"}
  BY DEF BInv, InPart, Update
<1> QED  BY <1>1, <1>2, AfterIs DEF BInv, InPart, Reached, Update

(***************************************************************************)
(* The two outputs.                                                        *)
(***************************************************************************)
LEMMA SameLevel ==
  ASSUME NEW g \in 0..4, PinState(reg', g) = PinState(reg, g)
  PROVE  (High(reg', g) <=> High(reg, g)) /\ (Low(reg', g) <=> Low(reg, g))
<1>1. /\ reg'[FuncReg(g)] \cap FuncMask(g) = reg[FuncReg(g)] \cap FuncMask(g)
      /\ g \in reg'["OUT"] <=> g \in reg["OUT"]
      /\ g \in reg'["MODE"] <=> g \in reg["MODE"]
  BY DEF PinState
<1> QED  BY <1>1 DEF High, Low, Driven, IsGpio

LEMMA AmpStep ==
  ASSUME BInv, reg' = reg \/ Update
  PROVE  Raised(reg', Amp) => Raised(reg, Amp)
<1>1. CASE reg' = reg
  BY <1>1
<1>2. CASE Update
  <2>1. /\ AfterFacts(reg) /\ Setting /\ stage \in 1..3 /\ reg' = After(reg)
        /\ L3b = 2 /\ Amp = 3
        /\ (pin = L3b \/ (pin = Amp /\ ~level))
    BY <1>2, UpdateOf, Boards DEF Update
  <2>2. CASE pin = L3b
    <3>1. PinState(reg', Amp) = PinState(reg, Amp)
      BY <2>1, <2>2 DEF AfterFacts
    <3> QED  BY <3>1 DEF PinState, Raised
  <2>3. CASE pin = Amp /\ ~level
    <3>1. CASE stage = 1
      <4>1. reg'["OUT"] = reg["OUT"] /\ reg'["MODE"] = reg["MODE"]
        BY <2>1, <3>1 DEF AfterFacts
      <4> QED  BY <4>1 DEF Raised
    <3>2. CASE stage = 2
      <4>1. Amp \notin reg'["OUT"]
        BY <2>1, <2>3, <3>2 DEF AfterFacts
      <4> QED  BY <4>1 DEF Raised
    <3>3. CASE stage = 3
      <4>1. reg'["OUT"] = reg["OUT"]
        BY <2>1, <3>3 DEF AfterFacts
      <4>2. Amp \notin reg["OUT"]
        BY <2>3, <3>3 DEF BInv, Pm1Inv, Progress
      <4> QED  BY <4>1, <4>2 DEF Raised
    <3> QED  BY <2>1, <3>1, <3>2, <3>3
  <2> QED  BY <2>1, <2>2, <2>3
<1> QED  BY <1>1, <1>2

LEMMA RailStep ==
  ASSUME BInv, reg' = reg \/ Update
  PROVE  High(reg, L3b) => High(reg', L3b)
<1>1. CASE reg' = reg
  BY <1>1
<1>2. CASE Update
  <2>1. /\ AfterFacts(reg) /\ Setting /\ stage \in 1..3 /\ reg' = After(reg)
        /\ L3b = 2 /\ Amp = 3
        /\ ((pin = L3b /\ level) \/ pin = Amp)
    BY <1>2, UpdateOf, Boards DEF Update
  <2>2. CASE pin = Amp
    <3>1. PinState(reg', L3b) = PinState(reg, L3b)
      BY <2>1, <2>2 DEF AfterFacts
    <3> QED  BY <2>1, <3>1, SameLevel
  <2>3. CASE pin = L3b /\ level
    <3> SUFFICES ASSUME High(reg, L3b) PROVE High(reg', L3b)
      OBVIOUS
    <3>1. IsGpio(reg, L3b) /\ L3b \in reg["MODE"] /\ L3b \in reg["OUT"]
      BY DEF High, Driven
    <3>2. IsGpio(reg', L3b)
      BY <2>1, <3>1 DEF AfterFacts
    <3>3. L3b \in reg'["MODE"]
      BY <2>1, <3>1 DEF AfterFacts
    <3>4. L3b \in reg'["OUT"]
      BY <2>1, <2>3, <3>1 DEF AfterFacts
    <3> QED  BY <3>2, <3>3, <3>4 DEF High, Driven
  <2> QED  BY <2>1, <2>2, <2>3
<1> QED  BY <1>1, <1>2

(***************************************************************************)
(* The invariant of bring-up.                                              *)
(***************************************************************************)
LEMMA BoardFlagsStep ==
  ASSUME BInv, Next
  PROVE  BoardFlagsOK'
<1> USE DEF BInv, BoardFlagsOK
<1>1. CASE CallPeripherals \/ BoardReturn \/ Restart
  BY <1>1 DEF CallPeripherals, BoardReturn, Restart
<1>2. CASE InitEarly
  BY <1>2 DEF InitEarly, AfterPm1, Enter, BoardFinish
<1>3. CASE StartPm1 \/ RunPm1
  BY <1>3 DEF StartPm1, RunPm1, boardVars
<1>4. CASE Pm1Ready
  <2>1. mret \in BOOLEAN
    BY DEF Pm1Inv, Pm1TypeOK
  <2> QED  BY <1>4, <2>1 DEF Pm1Ready, Enter, BoardFinish
<1>5. CASE L3bSet \/ AmpSet
  BY <1>5 DEF L3bSet, AmpSet, AfterPm1, Enter, BoardFinish
<1>6. CASE ConfigureButtons
  BY <1>6 DEF ConfigureButtons, BoardFinish
<1> QED  BY <1>1, <1>2, <1>3, <1>4, <1>5, <1>6 DEF Next, BoardStep

LEMMA InPartStep ==
  ASSUME BInv, Next
  PROVE  InPart'
<1> USE DEF BInv, InPart
<1>1. CASE CallPeripherals \/ BoardReturn
  BY <1>1 DEF CallPeripherals, BoardReturn, pm1Vars, pm1Driver
<1>2. CASE Restart
  BY <1>2 DEF Restart, Pm1Restart
<1>3. CASE InitEarly
  <2>1. mpc' = "idle" /\ stage' = 0
    BY <1>3 DEF InitEarly, pm1Driver, Pm1Inv, Working
  <2> QED  BY <2>1
<1>4. CASE StartPm1
  <2>1. CASE bpc = "pm1" /\ CallPm1Init
    BY <1>4, <2>1 DEF StartPm1, CallPm1Init, boardVars, Pm1Inv, Working
  <2>2. CASE bpc = "l3b" /\ CallSetOutput(L3b, TRUE)
    BY <1>4, <2>2 DEF StartPm1, CallSetOutput, Pm1Finish, boardVars
  <2>3. CASE bpc = "amp" /\ CallSetOutput(Amp, FALSE)
    BY <1>4, <2>3 DEF StartPm1, CallSetOutput, Pm1Finish, boardVars
  <2> QED  BY <1>4, <2>1, <2>2, <2>3 DEF StartPm1
<1>5. CASE RunPm1
  <2>1. CASE Pm1AddDevice \/ ReadId
    BY <1>5, <2>1 DEF RunPm1, boardVars, Pm1AddDevice, ReadId, Pm1Finish
  <2>2. CASE ReadRegister \/ WriteBack
    <3>1. /\ UNCHANGED <<bpc, pin, level>> /\ mpc \in {"read", "write"}
          /\ mpc' \in {"read", "write", "done"}
      BY <1>5, <2>2
      DEF RunPm1, boardVars, ReadRegister, WriteBack, NextUpdate, Pm1Finish
    <3>2. stage \in 1..3 /\ (stage' = stage \/ stage' = stage + 1)
      BY <2>2, <3>1
      DEF ReadRegister, WriteBack, NextUpdate, Pm1Finish, Pm1Inv, Working
    <3> QED  BY <3>1, <3>2
  <2> QED  BY <1>5, <2>1, <2>2 DEF RunPm1, Pm1Step
<1>6. CASE Pm1Ready \/ L3bSet \/ AmpSet
  <2>1. mpc' = "idle" /\ stage' = 0
    BY <1>6 DEF Pm1Ready, L3bSet, AmpSet, Pm1Return
  <2> QED  BY <2>1
<1>7. CASE ConfigureButtons
  BY <1>7 DEF ConfigureButtons, BoardFinish, pm1Driver
<1> QED
  BY <1>1, <1>2, <1>3, <1>4, <1>5, <1>6, <1>7 DEF Next, BoardStep

LEMMA ReachedStep ==
  ASSUME BInv, Next
  PROVE  Reached' /\ InitializedHasDevice'
<1> USE DEF BInv, Reached, InitializedHasDevice, HasPm1, HasButtons
<1>1. CASE CallPeripherals \/ BoardReturn
  BY <1>1 DEF CallPeripherals, BoardReturn, pm1Vars, pm1Driver
<1>2. CASE Restart
  BY <1>2 DEF Restart, Pm1Restart
<1>3. CASE InitEarly
  BY <1>3 DEF InitEarly, AfterPm1, Enter, BoardFinish, pm1Driver, InPart
<1>4. CASE StartPm1
  BY <1>4
  DEF StartPm1, CallPm1Init, CallSetOutput, Pm1Finish, boardVars
<1>5. CASE RunPm1
  <2>1. CASE Pm1AddDevice \/ ReadId
    BY <1>5, <2>1 DEF RunPm1, boardVars, Pm1AddDevice, ReadId, Pm1Finish
  <2>2. CASE ReadRegister \/ WriteBack
    <3>1. UNCHANGED <<boardVars, pm1dev>> /\ mpc \in {"read", "write"}
      BY <1>5, <2>2 DEF RunPm1, ReadRegister, WriteBack
    <3> QED  BY <3>1 DEF boardVars, InPart
  <2> QED  BY <1>5, <2>1, <2>2 DEF RunPm1, Pm1Step
<1>6. CASE Pm1Ready
  <2>1. /\ bpc = "pm1" /\ mpc = "done" /\ mpc' = "idle" /\ pm1dev' = pm1dev
        /\ s_pm1_initialized' = mret /\ s_internal_i2c' = s_internal_i2c
        /\ bpc' = IF mret THEN "l3b" ELSE "done"
    BY <1>6 DEF Pm1Ready, Pm1Return, Enter, BoardFinish
  <2>2. mret \in BOOLEAN
    BY DEF Pm1Inv, Pm1TypeOK
  <2>3. s_internal_i2c /\ HasPm1 /\ (mret => pm1dev)
    BY <2>1
  <2> QED  BY <2>1, <2>2, <2>3
<1>7. CASE L3bSet \/ AmpSet
  BY <1>7 DEF L3bSet, AmpSet, Pm1Return, AfterPm1, Enter, BoardFinish
<1>8. CASE ConfigureButtons
  BY <1>8 DEF ConfigureButtons, BoardFinish, pm1Driver
<1> QED
  BY <1>1, <1>2, <1>3, <1>4, <1>5, <1>6, <1>7, <1>8 DEF Next, BoardStep

\* Entering the amplifier's turn, and success, only with the outputs as they
\* should be.
LEMMA PowerStep ==
  ASSUME BInv, Next
  PROVE  RailOn' /\ PowerAsDocumented'
<1> USE DEF BInv, RailOn, PowerAsDocumented, HasPm1, L3b, Amp
<1>1. CASE CallPeripherals \/ BoardReturn \/ Restart
  BY <1>1 DEF CallPeripherals, BoardReturn, Restart
<1>2. CASE InitEarly
  BY <1>2, Boards
  DEF InitEarly, AfterPm1, Enter, BoardFinish, HasButtons
<1>3. CASE StartPm1 \/ RunPm1
  <2>1. UNCHANGED <<bpc, bret>> /\ bpc \in {"pm1", "l3b", "amp"}
    <3>1. CASE StartPm1
      BY <3>1 DEF StartPm1, boardVars
    <3>2. CASE RunPm1
      BY <3>2 DEF RunPm1, boardVars, InPart, Pm1Step, Pm1AddDevice, ReadId,
                  ReadRegister, WriteBack
    <3> QED  BY <1>3, <3>1, <3>2
  <2>2. High(reg, L3b) => High(reg', L3b)
    <3>1. reg' = reg \/ Update
      BY DriverPart
    <3> QED  BY <3>1, RailStep
  <2> QED  BY <2>1, <2>2
<1>4. CASE Pm1Ready
  BY <1>4 DEF Pm1Ready, Enter, BoardFinish
<1>5. CASE L3bSet
  <2>1. mret => High(reg, L3b)
    BY <1>5
    DEF L3bSet, Pm1Return, InPart, Pm1Inv, Progress, High, Driven
  <2> QED  BY <1>5, <2>1 DEF L3bSet, Pm1Return, Enter, BoardFinish
<1>6. CASE AmpSet
  <2>1. mret => Low(reg, Amp)
    BY <1>6
    DEF AmpSet, Pm1Return, InPart, Pm1Inv, Progress, Low, Driven
  <2>2. HasPm1 => High(reg, L3b)
    BY <1>6 DEF AmpSet
  <2> QED
    BY <1>6, <2>1, <2>2 DEF AmpSet, Pm1Return, AfterPm1, Enter, BoardFinish
<1>7. CASE ConfigureButtons
  BY <1>7 DEF ConfigureButtons, BoardFinish
<1> QED
  BY <1>1, <1>2, <1>3, <1>4, <1>5, <1>6, <1>7 DEF Next, BoardStep

LEMMA BInvInit == Init => BInv
<1> SUFFICES ASSUME Init PROVE BInv
  OBVIOUS
<1>1. Pm1Inv
  BY Pm1InvInit DEF Init
<1>2. BoardFlagsOK /\ InPart /\ Reached
  BY DEF Init, Pm1Init, BoardFlagsOK, InPart, Reached
<1>3. InitializedHasDevice /\ RailOn /\ PowerAsDocumented
  BY DEF Init, InitializedHasDevice, RailOn, PowerAsDocumented
<1> QED  BY <1>1, <1>2, <1>3 DEF BInv

LEMMA BInvNext == BInv /\ [Next]_vars => BInv'
<1> SUFFICES ASSUME BInv, [Next]_vars PROVE BInv'
  OBVIOUS
<1>1. Pm1Inv' /\ (reg' = reg \/ Update)
  BY DriverPart
<1>2. CASE Next
  BY <1>1, <1>2, BoardFlagsStep, InPartStep, ReachedStep, PowerStep
  DEF BInv
<1>3. CASE UNCHANGED vars
  <2>1. UNCHANGED <<bpc, bret, s_internal_i2c, s_pm1_initialized, gpioReady,
                    reg, mpc, mret, pin, level, stage, pm1dev>>
    BY <1>3 DEF vars, boardVars, pm1Vars, pm1Driver
  <2>2. BoardFlagsOK' /\ InPart' /\ Reached' /\ InitializedHasDevice'
    BY <2>1 DEF BInv, BoardFlagsOK, InPart, Reached, InitializedHasDevice,
                HasPm1, HasButtons
  <2>3. RailOn' /\ PowerAsDocumented'
    BY <2>1 DEF BInv, RailOn, PowerAsDocumented, HasPm1
  <2> QED  BY <1>1, <2>2, <2>3 DEF BInv
<1> QED  BY <1>2, <1>3

\* The strengthened invariant of bring-up.
THEOREM BoardInvariant == Spec => []BInv
BY BInvInit, BInvNext, PTL DEF Spec

\* The flags, the bus, the place in bring-up and the driver's state keep their
\* types, on both boards.
THEOREM BoardTypeCorrect == Spec => []BoardTypeOK
<1>1. BInv => BoardTypeOK
  BY DEF BInv, Pm1Inv, BoardFlagsOK, BoardTypeOK
<1> QED  BY <1>1, BoardInvariant, PTL

\* After a successful bring-up the rail is on and the amplifier off, whatever
\* failed, was repeated or was cut off before.
THEOREM BoardPowerAsDocumented == Spec => []PowerAsDocumented
BY BoardInvariant, PTL DEF BInv

\* s_pm1_initialized stands for a device the driver can talk to.
THEOREM BoardInitializedHasDevice == Spec => []InitializedHasDevice
BY BoardInvariant, PTL DEF BInv

\* No step of the firmware, failing ones included, makes the amplifier's pin
\* an output of high level, whatever the registers held at power-up.
THEOREM BoardAmpNeverRaised == Spec => AmpNeverRaised
<1>1. BInv /\ [Next]_vars => [Raised(reg', Amp) => Raised(reg, Amp)]_vars
  BY DriverPart, AmpStep
<1> QED  BY <1>1, BoardInvariant, PTL DEF Spec, AmpNeverRaised

\* README.md:210 as it can be kept: unless something else left the pin an
\* output of high level, the amplifier is off for good.
THEOREM BoardAmpStaysOff ==
  Spec /\ ~Raised(reg, Amp) => []~High(reg, Amp)
<1>1. BInv /\ [Next]_vars => [Raised(reg', Amp) => Raised(reg, Amp)]_vars
  BY DriverPart, AmpStep
<1>2. ~Raised(reg, Amp) /\ [Raised(reg', Amp) => Raised(reg, Amp)]_vars =>
        ~Raised(reg, Amp)'
  BY DEF vars, pm1Vars, Raised
<1>3. ~Raised(reg, Amp) => ~High(reg, Amp)
  BY DEF Raised, High, Driven
<1> QED  BY <1>1, <1>2, <1>3, BoardInvariant, PTL DEF Spec

\* No step, in any attempt, cuts the rail of the peripherals.
THEOREM BoardRailNeverDropped == Spec => RailNeverDropped
<1>1. BInv /\ [Next]_vars => [High(reg, L3b) => High(reg', L3b)]_vars
  BY DriverPart, RailStep
<1> QED  BY <1>1, BoardInvariant, PTL DEF Spec, RailNeverDropped

(***************************************************************************)
(* The detailed bring-up implements module Peripherals.                    *)
(***************************************************************************)
LEMMA PhaseIs ==
  /\ bpc = "idle" => Phase = "idle"
  /\ bpc = "bus" => Phase = "bus"
  /\ bpc = "done" /\ bret => Phase = "ok"
  /\ bpc = "done" /\ ~bret => Phase = "failed"
  /\ bpc \in {"pm1", "l3b", "amp"} /\ mpc = "done" /\ ~mret => Phase = "failed"
  /\ bpc \in {"pm1", "l3b", "amp"} /\ (mpc # "done" \/ mret) => Phase = "running"
  /\ bpc = "gpio" => Phase = "running"
BY DEF Phase

LEMMA PhaseBecomes ==
  /\ bpc' = "idle" => Phase' = "idle"
  /\ bpc' = "bus" => Phase' = "bus"
  /\ bpc' = "done" /\ bret' => Phase' = "ok"
  /\ bpc' = "done" /\ ~bret' => Phase' = "failed"
  /\ bpc' \in {"pm1", "l3b", "amp"} /\ mpc' = "done" /\ ~mret' => Phase' = "failed"
  /\ bpc' \in {"pm1", "l3b", "amp"} /\ (mpc' # "done" \/ mret') =>
       Phase' = "running"
  /\ bpc' = "gpio" => Phase' = "running"
BY DEF Phase

\* A step of the driver fails with one failure used up, or goes on.
LEMMA DriverOutcome ==
  ASSUME BInv, RunPm1
  PROVE  /\ bpc \in {"pm1", "l3b", "amp"} /\ mpc # "done"
         /\ UNCHANGED <<bpc, s_internal_i2c, gpioReady>>
         /\ \/ (mpc' # "done" \/ mret') /\ faults' = faults
            \/ mpc' = "done" /\ ~mret' /\ faults > 0 /\ faults' = faults - 1
<1>1. bpc \in {"pm1", "l3b", "amp"} /\ mpc # "done"
  BY DEF BInv, BoardFlagsOK, InPart, RunPm1, Pm1Step, Pm1AddDevice, ReadId,
         ReadRegister, WriteBack
<1>2. mpc \in {"read", "write"} => pm1dev
  BY <1>1 DEF BInv, InPart, Reached, InitializedHasDevice
<1>3. \/ (mpc' # "done" \/ mret') /\ faults' = faults
      \/ mpc' = "done" /\ ~mret' /\ faults > 0 /\ faults' = faults - 1
  <2>1. CASE Pm1AddDevice \/ ReadId
    BY <2>1 DEF Pm1AddDevice, ReadId, Pm1Finish, Transfer
  <2>2. CASE ReadRegister
    BY <1>2, <2>2 DEF ReadRegister, NextUpdate, Pm1Finish, Transfer
  <2>3. CASE WriteBack
    BY <2>3 DEF WriteBack, NextUpdate, Pm1Finish, Transfer
  <2> QED  BY <2>1, <2>2, <2>3 DEF RunPm1, Pm1Step
<1> QED  BY <1>1, <1>3 DEF RunPm1, boardVars

LEMMA PeripheralsStep ==
  ASSUME BInv, Next
  PROVE  Abstract!Next \/ UNCHANGED Abstract!perVars
<1> USE PhaseIs, PhaseBecomes DEF Abstract!Next, Abstract!perVars
<1>1. CASE CallPeripherals
  BY <1>1 DEF CallPeripherals, pm1Vars, Abstract!Call
<1>2. CASE BoardReturn
  BY <1>2 DEF BoardReturn, pm1Vars, Abstract!Return
<1>3. CASE Restart
  BY <1>3 DEF Restart, Pm1Restart, Abstract!Restart
<1>4. CASE InitEarly
  <2>1. bpc = "bus" /\ mpc' = "idle" /\ gpioReady' = gpioReady
    BY <1>4 DEF InitEarly, pm1Driver, BInv, InPart
  <2>2. CASE Transfer(TRUE, TRUE) /\ s_internal_i2c' = TRUE /\ HasPm1
    <3>1. bpc' \in {"pm1", "l3b"} /\ faults' = faults
      BY <1>4, <2>2 DEF InitEarly, Enter, Transfer
    <3> QED  BY <2>1, <2>2, <3>1 DEF Abstract!BusUp
  <2>3. CASE Transfer(TRUE, TRUE) /\ s_internal_i2c' = TRUE /\ ~HasPm1
    <3>1. bpc' = "done" /\ bret' /\ faults' = faults /\ ~HasButtons
      BY <1>4, <2>3, Boards DEF InitEarly, AfterPm1, BoardFinish, Transfer
    <3> QED  BY <2>1, <2>3, <3>1 DEF Abstract!BusUp
  <2>4. CASE /\ ~s_internal_i2c /\ Transfer(FALSE, FALSE)
             /\ BoardFinish(FALSE) /\ UNCHANGED s_internal_i2c
    BY <2>1, <2>4 DEF BoardFinish, Transfer, Abstract!Fail
  <2> QED  BY <1>4, <2>2, <2>3, <2>4 DEF InitEarly
<1>5. CASE StartPm1
  <2>1. /\ bpc \in {"pm1", "l3b", "amp"} /\ mpc = "idle"
        /\ UNCHANGED <<boardVars, faults>>
    BY <1>5 DEF StartPm1, CallPm1Init, CallSetOutput
  <2>2. bpc \in {"l3b", "amp"} => L3b < 5 /\ Amp < 5
    BY Boards DEF BInv, Reached
  <2>3. mpc' # "done"
    BY <1>5, <2>2 DEF StartPm1, CallPm1Init, CallSetOutput
  <2> QED  BY <2>1, <2>3 DEF boardVars
<1>6. CASE RunPm1
  BY <1>6, DriverOutcome DEF BInv, Reached, Abstract!Fail
<1>7. CASE Pm1Ready \/ L3bSet \/ AmpSet
  <2>1. /\ bpc \in {"pm1", "l3b", "amp"} /\ mpc = "done" /\ mpc' = "idle"
        /\ UNCHANGED <<faults, s_internal_i2c, gpioReady>>
        /\ IF mret THEN bpc' \in {"l3b", "amp", "gpio"}
                   ELSE bpc' = "done" /\ bret' = FALSE
    <3>1. HasButtons
      BY <1>7, Boards DEF Pm1Ready, L3bSet, AmpSet, BInv, Reached
    <3> QED
      BY <1>7, <3>1
      DEF Pm1Ready, L3bSet, AmpSet, Pm1Return, AfterPm1, Enter, BoardFinish
  <2> QED  BY <2>1
<1>8. CASE ConfigureButtons
  <2>1. /\ bpc = "gpio" /\ bpc' = "done" /\ HasButtons /\ HasPm1
        /\ UNCHANGED s_internal_i2c
    BY <1>8, Boards DEF ConfigureButtons, BoardFinish, BInv, Reached
  <2> QED
    BY <1>8, <2>1
    DEF ConfigureButtons, BoardFinish, Transfer, Abstract!Succeed, Abstract!Fail
<1> QED
  BY <1>1, <1>2, <1>3, <1>4, <1>5, <1>6, <1>7, <1>8 DEF Next, BoardStep

\* On either board bring-up does no more than module Presence takes it to do
\* in one step.
THEOREM BoardImplementsPeripherals == Spec => ImplementsPeripherals
<1>1. Init => Abstract!Init
  BY PhaseIs DEF Init, Pm1Init, Abstract!Init
<1>2. BInv /\ [Next]_vars => [Abstract!Next]_(Abstract!perVars)
  <2> SUFFICES ASSUME BInv, [Next]_vars
               PROVE  Abstract!Next \/ UNCHANGED Abstract!perVars
    OBVIOUS
  <2>1. CASE Next
    BY <2>1, PeripheralsStep
  <2>2. CASE UNCHANGED vars
    BY <2>2
    DEF vars, boardVars, pm1Vars, pm1Driver, Phase, Abstract!perVars
  <2> QED  BY <2>1, <2>2
<1> QED
  BY <1>1, <1>2, BoardInvariant, PTL
  DEF Spec, ImplementsPeripherals, Abstract!Spec
=============================================================================
