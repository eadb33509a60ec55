----------------------------- MODULE Pm1Proofs -----------------------------
(***************************************************************************)
(* The power chip's outputs, for any set of pins the callers pass, any     *)
(* register contents at power-up, and any number of failing transfers and  *)
(* restarts.                                                               *)
(***************************************************************************)
EXTENDS M5pm1, TLAPS

RegType == [Registers -> SUBSET Bits]

\* The register file after the update under way, if it is made on r.
After(r) ==
  [r EXCEPT ![Updates[stage].reg] =
     NewValue(r[Updates[stage].reg], Updates[stage])]

(***************************************************************************)
(* What one of the three updates does to a register file.                  *)
(***************************************************************************)
Setting == pin \in 0..4 /\ level \in BOOLEAN

LEMMA PinBits ==
  ASSUME NEW g \in 0..4
  PROVE  /\ FuncReg(g) \in {"FUNC0", "FUNC1"}
         /\ FuncMask(g) \in SUBSET Bits /\ g \in Bits
BY DEF FuncReg, FuncMask, Bits

LEMMA MasksDisjoint ==
  ASSUME NEW g \in 0..4, NEW h \in 0..4, g # h, FuncReg(g) = FuncReg(h)
  PROVE  FuncMask(g) \cap FuncMask(h) = {}
<1>1. g < 4 /\ h < 4
  BY DEF FuncReg
<1>2. 2 * g # 2 * h /\ 2 * g # 2 * h + 1 /\ 2 * g + 1 # 2 * h
      /\ 2 * g + 1 # 2 * h + 1
  OBVIOUS
<1> QED  BY <1>1, <1>2 DEF FuncMask

\* First the alternate function is switched off, ...
LEMMA AfterFunction ==
  ASSUME NEW r \in RegType, Setting, stage = 1
  PROVE  After(r) = [r EXCEPT ![FuncReg(pin)] = r[FuncReg(pin)] \ FuncMask(pin)]
BY DEF After, Updates, NewValue

\* ... then the level is set, ...
LEMMA AfterLevel ==
  ASSUME NEW r \in RegType, Setting, stage = 2
  PROVE  After(r) = [r EXCEPT !["OUT"] =
                       IF level THEN r["OUT"] \cup {pin} ELSE r["OUT"] \ {pin}]
<1>1. Updates[stage] =
        [reg |-> "OUT", mask |-> {pin}, value |-> IF level THEN {pin} ELSE {}]
  BY DEF Updates
<1>2. NewValue(r["OUT"], Updates[stage]) =
        IF level THEN r["OUT"] \cup {pin} ELSE r["OUT"] \ {pin}
  BY <1>1 DEF NewValue
<1>3. Updates[stage].reg = "OUT"
  BY <1>1
<1> QED  BY <1>2, <1>3 DEF After

\* ... and last the direction.
LEMMA AfterDirection ==
  ASSUME NEW r \in RegType, Setting, stage = 3
  PROVE  After(r) = [r EXCEPT !["MODE"] = r["MODE"] \cup {pin}]
<1>1. Updates[stage] = [reg |-> "MODE", mask |-> {pin}, value |-> {pin}]
  BY DEF Updates
<1>2. NewValue(r["MODE"], Updates[stage]) = r["MODE"] \cup {pin}
  BY <1>1 DEF NewValue
<1>3. Updates[stage].reg = "MODE"
  BY <1>1
<1> QED  BY <1>2, <1>3 DEF After

AfterFacts(r) ==
  LET a == After(r) IN
  /\ a \in RegType
  /\ stage = 1 => /\ IsGpio(a, pin)
                  /\ a["OUT"] = r["OUT"] /\ a["MODE"] = r["MODE"]
                  /\ \A g \in 0..4 : IsGpio(r, g) => IsGpio(a, g)
  /\ stage \in {2, 3} => \A g \in 0..4 : IsGpio(a, g) <=> IsGpio(r, g)
  /\ stage = 2 => (pin \in a["OUT"] <=> level) /\ a["MODE"] = r["MODE"]
  /\ stage = 3 => a["OUT"] = r["OUT"] /\ a["MODE"] = r["MODE"] \cup {pin}
  /\ \A g \in 0..4 : g # pin => PinState(a, g) = PinState(r, g)

LEMMA AfterIs ==
  ASSUME NEW r \in RegType, Setting, stage \in 1..3
  PROVE  AfterFacts(r)
<1> USE PinBits DEF Setting, RegType, Registers
<1> DEFINE a == After(r)
<1>1. CASE stage = 1
  <2>1. a = [r EXCEPT ![FuncReg(pin)] = r[FuncReg(pin)] \ FuncMask(pin)]
    BY <1>1, AfterFunction
  <2>2. /\ a \in RegType
        /\ a["OUT"] = r["OUT"] /\ a["MODE"] = r["MODE"]
        /\ a[FuncReg(pin)] = r[FuncReg(pin)] \ FuncMask(pin)
        /\ \A q \in Registers : q # FuncReg(pin) => a[q] = r[q]
    BY <2>1
  <2>3. IsGpio(a, pin)
    BY <2>2 DEF IsGpio
  <2>4. ASSUME NEW g \in 0..4, g # pin
        PROVE  a[FuncReg(g)] \cap FuncMask(g) = r[FuncReg(g)] \cap FuncMask(g)
    <3>1. CASE FuncReg(g) = FuncReg(pin)
      BY <2>2, <2>4, <3>1, MasksDisjoint
    <3>2. CASE FuncReg(g) # FuncReg(pin)
      BY <2>2, <3>2
    <3> QED  BY <3>1, <3>2
  <2> HIDE DEF a
  <2>5. \A g \in 0..4 : IsGpio(r, g) => IsGpio(a, g)
    BY <2>3, <2>4 DEF IsGpio
  <2>6. \A g \in 0..4 : g # pin => PinState(a, g) = PinState(r, g)
    BY <2>2, <2>4 DEF PinState
  <2> QED  BY <1>1, <2>2, <2>3, <2>5, <2>6 DEF AfterFacts, a
<1>2. CASE stage = 2
  <2>1. a = [r EXCEPT !["OUT"] =
               IF level THEN r["OUT"] \cup {pin} ELSE r["OUT"] \ {pin}]
    BY <1>2, AfterLevel
  <2>2. /\ a \in RegType
        /\ a["MODE"] = r["MODE"] /\ a["FUNC0"] = r["FUNC0"]
        /\ a["FUNC1"] = r["FUNC1"]
        /\ a["OUT"] = IF level THEN r["OUT"] \cup {pin} ELSE r["OUT"] \ {pin}
    BY <2>1
  <2> HIDE DEF a
  <2>3. \A g \in 0..4 : a[FuncReg(g)] = r[FuncReg(g)]
    BY <2>2
  <2>4. pin \in a["OUT"] <=> level
    BY <2>2
  <2>5. \A g \in 0..4 : g # pin => PinState(a, g) = PinState(r, g)
    BY <2>2, <2>3 DEF PinState
  <2>6. \A g \in 0..4 : IsGpio(a, g) <=> IsGpio(r, g)
    BY <2>3 DEF IsGpio
  <2> QED  BY <1>2, <2>2, <2>4, <2>5, <2>6 DEF AfterFacts, a
<1>3. CASE stage = 3
  <2>1. a = [r EXCEPT !["MODE"] = r["MODE"] \cup {pin}]
    BY <1>3, AfterDirection
  <2>2. /\ a \in RegType
        /\ a["OUT"] = r["OUT"] /\ a["FUNC0"] = r["FUNC0"]
        /\ a["FUNC1"] = r["FUNC1"]
        /\ a["MODE"] = r["MODE"] \cup {pin}
    BY <2>1
  <2> HIDE DEF a
  <2>3. \A g \in 0..4 : a[FuncReg(g)] = r[FuncReg(g)]
    BY <2>2
  <2>4. \A g \in 0..4 : g # pin => PinState(a, g) = PinState(r, g)
    BY <2>2, <2>3 DEF PinState
  <2>5. \A g \in 0..4 : IsGpio(a, g) <=> IsGpio(r, g)
    BY <2>3 DEF IsGpio
  <2> QED  BY <1>3, <2>2, <2>4, <2>5 DEF AfterFacts, a
<1> QED  BY <1>1, <1>2, <1>3

(***************************************************************************)
(* The invariant.                                                          *)
(***************************************************************************)

\* Where the driver is says whether an output is being set, and which update
\* of it is under way.
Working ==
  /\ mpc \in {"idle", "add", "id"} => stage = 0
  /\ mpc \in {"read", "write"} => pin \in 0..4 /\ stage \in 1..3
  /\ stage > 1 => pin \in 0..4
  /\ mpc = "idle" => ~mret

\* The value about to be written back is still the one in the chip.
Fresh == mpc = "write" => old = reg[Updates[stage].reg]

\* What the updates that are behind the driver have achieved.
Progress ==
  /\ stage > 1 => IsGpio(reg, pin)
  /\ stage > 2 => (pin \in reg["OUT"] <=> level)
  /\ mpc = "done" /\ mret /\ stage > 0 => stage = 3 /\ pin \in reg["MODE"]

\* The parts of Pm1TypeOK.
RegsTypeOK == reg \in RegType /\ old \in SUBSET Bits

FlagsTypeOK == pm1dev \in BOOLEAN /\ level \in BOOLEAN /\ mret \in BOOLEAN

DriverTypeOK ==
  /\ mpc \in {"idle", "add", "id", "read", "write", "done"}
  /\ pin \in Nat /\ stage \in 0..3
  /\ faults \in 0..MaxFaults

LEMMA Pm1TypeParts ==
  /\ Pm1TypeOK <=> RegsTypeOK /\ FlagsTypeOK /\ DriverTypeOK
  /\ Pm1TypeOK' <=> RegsTypeOK' /\ FlagsTypeOK' /\ DriverTypeOK'
BY DEF Pm1TypeOK, RegsTypeOK, FlagsTypeOK, DriverTypeOK, RegType

Pm1Inv == Pm1TypeOK /\ Working /\ Fresh /\ Progress

\* A step of the registers is one update, or the chip is switched off.
RegStep ==
  \/ reg' = reg
  \/ mpc = "write" /\ reg' = After(reg)
  \/ PoweredOff /\ reg' \in PowerOnRegs

LEMMA Pm1InvInit == Pm1Init => Pm1Inv
<1> SUFFICES ASSUME Pm1Init PROVE Pm1Inv
  OBVIOUS
<1>1. Pm1TypeOK
  <2>1. RegsTypeOK
    BY RegsAssumption DEF Pm1Init, RegsTypeOK, RegType
  <2>2. FlagsTypeOK
    BY DEF Pm1Init, FlagsTypeOK
  <2>3. DriverTypeOK
    BY FaultsAssumption DEF Pm1Init, DriverTypeOK
  <2> QED  BY <2>1, <2>2, <2>3, Pm1TypeParts
<1>2. Working /\ Fresh /\ Progress
  BY DEF Pm1Init, Working, Fresh, Progress
<1> QED  BY <1>1, <1>2 DEF Pm1Inv

LEMMA FaultsType ==
  ASSUME faults \in 0..MaxFaults, NEW ok, NEW reached, Transfer(ok, reached)
  PROVE  faults' \in 0..MaxFaults
BY FaultsAssumption DEF Transfer

LEMMA SetOutputStep ==
  ASSUME Pm1Inv, NEW g \in Nat, NEW l \in BOOLEAN, CallSetOutput(g, l)
  PROVE  Pm1Inv' /\ reg' = reg
<1> USE DEF Pm1Inv
<1>1. /\ pin' = g /\ level' = l /\ stage' = 1
      /\ UNCHANGED <<reg, pm1dev, old, faults>>
      /\ (g < 5 /\ mpc' = "read" /\ mret' = FALSE)
           \/ (mpc' = "done" /\ mret' = FALSE)
  BY DEF CallSetOutput, Pm1Finish, Working, Pm1TypeOK
<1>2. Pm1TypeOK'
  <2>1. RegsTypeOK'
    BY <1>1, Pm1TypeParts DEF RegsTypeOK
  <2>2. FlagsTypeOK'
    BY <1>1, Pm1TypeParts DEF FlagsTypeOK
  <2>3. DriverTypeOK'
    BY <1>1, Pm1TypeParts DEF DriverTypeOK
  <2> QED  BY <2>1, <2>2, <2>3, Pm1TypeParts
<1>3. Working' /\ Fresh' /\ Progress'
  BY <1>1 DEF Working, Fresh, Progress
<1> QED  BY <1>1, <1>2, <1>3

\* The calls that touch no register.
LEMMA QuietStep ==
  ASSUME Pm1Inv,
         \/ CallPm1Init \/ Pm1AddDevice \/ ReadId
         \/ Pm1Return \/ Pm1Restart
         \/ \E g \in Pins, l \in BOOLEAN : CallSetOutput(g, l)
  PROVE  Pm1Inv' /\ reg' = reg
<1> USE DEF Pm1Inv
<1>1. CASE CallPm1Init
  BY <1>1 DEF CallPm1Init, Pm1TypeOK, Working, Fresh, Progress
<1>2. CASE Pm1AddDevice \/ ReadId
  <2>1. faults' \in 0..MaxFaults
    BY <1>2, FaultsType DEF Pm1AddDevice, ReadId, Pm1TypeOK
  <2>2. /\ UNCHANGED <<reg, pin, level, stage, old>>
        /\ stage = 0 /\ pm1dev' \in BOOLEAN /\ mret' \in BOOLEAN
        /\ mpc' \in {"id", "done"}
    BY <1>2 DEF Pm1AddDevice, ReadId, Pm1Finish, Pm1TypeOK, Working
  <2> QED  BY <2>1, <2>2 DEF Pm1TypeOK, Working, Fresh, Progress
<1>3. CASE Pm1Return \/ Pm1Restart
  <2>1. /\ UNCHANGED <<reg, faults>> /\ pm1dev' \in BOOLEAN
        /\ mpc' = "idle" /\ pin' = 0 /\ level' = FALSE /\ stage' = 0
        /\ old' = {} /\ mret' = FALSE
    BY <1>3 DEF Pm1Return, Pm1Restart, Pm1TypeOK
  <2>2. Pm1TypeOK'
    <3>1. RegsTypeOK'
      BY <2>1, Pm1TypeParts DEF RegsTypeOK
    <3>2. FlagsTypeOK'
      BY <2>1 DEF FlagsTypeOK
    <3>3. DriverTypeOK'
      BY <2>1, Pm1TypeParts DEF DriverTypeOK
    <3> QED  BY <3>1, <3>2, <3>3, Pm1TypeParts
  <2>3. Working' /\ Fresh' /\ Progress'
    BY <2>1 DEF Working, Fresh, Progress
  <2> QED  BY <2>1, <2>2, <2>3
<1>4. CASE \E g \in Pins, l \in BOOLEAN : CallSetOutput(g, l)
  BY <1>4, SetOutputStep, PinsAssumption
<1> QED  BY <1>1, <1>2, <1>3, <1>4

\* Going on to the next update, or answering, is right once this one is made.
LEMMA NextUpdateStep ==
  ASSUME Pm1Inv, mpc \in {"read", "write"}, reg' = After(reg), NextUpdate,
         UNCHANGED <<pin, level>>
  PROVE  /\ Working' /\ Fresh' /\ Progress'
         /\ mpc' \in {"read", "done"} /\ mret' \in BOOLEAN /\ stage' \in 0..3
<1>1. /\ Setting /\ stage \in 1..3 /\ reg \in RegType /\ mret \in BOOLEAN
      /\ level' = level /\ pin' = pin
  BY DEF Pm1Inv, Pm1TypeOK, Working, Setting, RegType
<1>2. AfterFacts(reg)
  BY <1>1, AfterIs
<1>3. \/ stage \in 1..2 /\ stage' = stage + 1 /\ mpc' = "read" /\ mret' = mret
      \/ stage = 3 /\ stage' = 3 /\ mpc' = "done" /\ mret' = TRUE
  BY <1>1 DEF NextUpdate, Updates, Pm1Finish
<1>4. Working' /\ Fresh'
  BY <1>1, <1>3 DEF Setting, Working, Fresh
<1>5. stage' > 1 => IsGpio(reg', pin')
  BY <1>1, <1>2, <1>3 DEF AfterFacts, Setting, Progress, Pm1Inv
<1>6. stage' > 2 => (pin' \in reg'["OUT"] <=> level')
  <2>1. CASE stage = 2
    BY <1>1, <1>2, <2>1 DEF AfterFacts
  <2>2. CASE stage = 3
    BY <1>1, <1>2, <2>2 DEF AfterFacts, Progress, Pm1Inv
  <2> QED  BY <1>3, <2>1, <2>2
<1>7. mpc' = "done" => stage' = 3 /\ pin' \in reg'["MODE"]
  BY <1>1, <1>2, <1>3 DEF AfterFacts
<1>8. Progress'
  BY <1>5, <1>6, <1>7 DEF Progress
<1>9. mpc' \in {"read", "done"} /\ stage' \in 0..3
  BY <1>3
<1>10. mret' \in BOOLEAN
  BY <1>1, <1>3
<1> QED  BY <1>4, <1>8, <1>9, <1>10

LEMMA GiveUpStep ==
  ASSUME Pm1Inv, mpc \in {"read", "write"}, Pm1Finish(FALSE),
         \/ reg' = reg
         \/ reg' = After(reg),
         UNCHANGED <<pin, level, stage>>
  PROVE  Working' /\ Fresh' /\ Progress'
<1>1. /\ Setting /\ stage \in 1..3 /\ reg \in RegType
      /\ level' = level /\ pin' = pin /\ stage' = stage
      /\ mpc' = "done" /\ mret' = FALSE
  BY DEF Pm1Inv, Pm1TypeOK, Working, Setting, RegType, Pm1Finish
<1>2. AfterFacts(reg)
  BY <1>1, AfterIs
<1>3. Working' /\ Fresh'
  BY <1>1 DEF Setting, Working, Fresh
<1>4. stage > 1 => IsGpio(reg', pin)
  BY <1>1, <1>2 DEF AfterFacts, Setting, Progress, Pm1Inv
<1>5. stage > 2 => (pin \in reg'["OUT"] <=> level)
  BY <1>1, <1>2 DEF AfterFacts, Progress, Pm1Inv
<1> QED  BY <1>1, <1>3, <1>4, <1>5 DEF Progress

LEMMA ReadStep ==
  ASSUME Pm1Inv, ReadRegister
  PROVE  Pm1Inv' /\ reg' = reg
<1>1. /\ Setting /\ stage \in 1..3 /\ reg \in RegType /\ mpc = "read"
      /\ UNCHANGED <<reg, pm1dev, pin, level>>
  BY DEF Pm1Inv, Pm1TypeOK, Working, Setting, RegType, ReadRegister
<1>2. faults' \in 0..MaxFaults
  BY FaultsType DEF ReadRegister, Pm1Inv, Pm1TypeOK
<1>3. Updates[stage].reg \in Registers
  BY <1>1, PinBits DEF Updates, Setting, Registers
<1>4. reg[Updates[stage].reg] \in SUBSET Bits
  BY <1>1, <1>3 DEF RegType
<1>5. CASE /\ old' = reg[Updates[stage].reg]
           /\ NewValue(old', Updates[stage]) = old'
           /\ NextUpdate
  <2>1. reg' = After(reg)
    BY <1>1, <1>3, <1>5 DEF After, RegType
  <2>2. /\ Working' /\ Fresh' /\ Progress'
        /\ mpc' \in {"read", "done"} /\ mret' \in BOOLEAN /\ stage' \in 0..3
    BY <1>1, <1>5, <2>1, NextUpdateStep
  <2> QED  BY <1>1, <1>2, <1>4, <1>5, <2>2 DEF Pm1Inv, Pm1TypeOK
<1>6. CASE /\ old' = reg[Updates[stage].reg]
           /\ mpc' = "write" /\ UNCHANGED <<stage, mret>>
  <2>1. Updates' = Updates
    BY <1>1 DEF Updates
  <2>2. Fresh'
    BY <1>1, <1>6, <2>1 DEF Fresh
  <2>3. Working' /\ Progress'
    BY <1>1, <1>6 DEF Setting, Working, Progress, Pm1Inv
  <2> QED  BY <1>1, <1>2, <1>4, <1>6, <2>2, <2>3 DEF Pm1Inv, Pm1TypeOK
<1>7. CASE Pm1Finish(FALSE) /\ UNCHANGED <<old, stage>>
  <2>1. Working' /\ Fresh' /\ Progress'
    BY <1>1, <1>7, GiveUpStep
  <2> QED  BY <1>1, <1>2, <1>7, <2>1 DEF Pm1Inv, Pm1TypeOK, Pm1Finish
<1> QED  BY <1>1, <1>5, <1>6, <1>7 DEF ReadRegister

LEMMA WriteStep ==
  ASSUME Pm1Inv, WriteBack
  PROVE  /\ Pm1Inv'
         /\ mpc = "write" /\ (reg' = reg \/ reg' = After(reg))
<1>1. /\ Setting /\ stage \in 1..3 /\ reg \in RegType /\ mpc = "write"
      /\ UNCHANGED <<pm1dev, pin, level, old>>
      /\ old = reg[Updates[stage].reg]
  BY DEF Pm1Inv, Pm1TypeOK, Working, Fresh, Setting, RegType, WriteBack
<1>2. PICK ok \in BOOLEAN, reached \in BOOLEAN :
        /\ Transfer(ok, reached)
        /\ reg' = IF reached THEN After(reg) ELSE reg
        /\ IF ok THEN NextUpdate ELSE Pm1Finish(FALSE) /\ UNCHANGED stage
  BY <1>1 DEF WriteBack, After
<1>3. faults' \in 0..MaxFaults
  BY <1>2, FaultsType DEF Pm1Inv, Pm1TypeOK
<1>4. reg' \in RegType
  BY <1>1, <1>2, AfterIs DEF AfterFacts
<1>5. CASE ok
  <2>1. reg' = After(reg)
    BY <1>2, <1>5 DEF Transfer
  <2>2. /\ Working' /\ Fresh' /\ Progress'
        /\ mpc' \in {"read", "done"} /\ mret' \in BOOLEAN /\ stage' \in 0..3
    BY <1>1, <1>2, <1>5, <2>1, NextUpdateStep
  <2> QED  BY <1>1, <1>3, <1>4, <2>1, <2>2 DEF Pm1Inv, Pm1TypeOK, RegType
<1>6. CASE ~ok
  <2>1. Working' /\ Fresh' /\ Progress'
    BY <1>1, <1>2, <1>6, GiveUpStep
  <2>2. mpc' = "done" /\ mret' = FALSE /\ stage' = stage
    BY <1>2, <1>6 DEF Pm1Finish
  <2> QED  BY <1>1, <1>2, <1>3, <1>4, <2>1, <2>2 DEF Pm1Inv, Pm1TypeOK, RegType
<1> QED  BY <1>1, <1>2, <1>5, <1>6

LEMMA ShutdownStep ==
  ASSUME Pm1Inv, Shutdown
  PROVE  Pm1Inv' /\ (reg' = reg \/ (PoweredOff /\ reg' \in PowerOnRegs))
<1>1. /\ mpc = "idle" /\ stage = 0
      /\ UNCHANGED <<mpc, pin, level, stage, old, mret>>
  BY DEF Shutdown, Pm1Inv, Working
<1>2. faults' \in 0..MaxFaults
  BY FaultsType DEF Shutdown, Pm1Inv, Pm1TypeOK
<1>3. \/ UNCHANGED <<reg, pm1dev>>
      \/ reg' \in PowerOnRegs /\ pm1dev /\ pm1dev' = FALSE
  BY DEF Shutdown
<1>4. Pm1TypeOK'
  BY <1>1, <1>2, <1>3, RegsAssumption DEF Pm1Inv, Pm1TypeOK
<1>5. Working' /\ Fresh' /\ Progress'
  BY <1>1 DEF Pm1Inv, Working, Fresh, Progress
<1> QED  BY <1>1, <1>3, <1>4, <1>5 DEF Pm1Inv, PoweredOff

\* Every step keeps the invariant and is one of the three things that can
\* happen to the registers.
LEMMA Pm1Next_Inv ==
  ASSUME Pm1Inv, [Pm1Next]_pm1Vars
  PROVE  Pm1Inv' /\ RegStep
<1>1. CASE ReadRegister
  BY <1>1, ReadStep DEF RegStep
<1>2. CASE WriteBack
  BY <1>2, WriteStep DEF RegStep
<1>3. CASE Shutdown
  BY <1>3, ShutdownStep DEF RegStep
<1>4. CASE UNCHANGED pm1Vars
  BY <1>4 DEF pm1Vars, pm1Driver, Pm1Inv, Pm1TypeOK, Working, Fresh, Progress,
              Updates, RegStep
<1> QED
  BY <1>1, <1>2, <1>3, <1>4, QuietStep DEF Pm1Next, Pm1Step, RegStep

\* The strengthened invariant of the driver.
THEOREM Pm1Invariant == Pm1Spec => []Pm1Inv
BY Pm1InvInit, Pm1Next_Inv, PTL DEF Pm1Spec

\* The types: in particular no bit outside a register is ever written, and the
\* driver makes no fourth update.
THEOREM Pm1TypeCorrect == Pm1Spec => []Pm1TypeOK
BY Pm1Invariant, PTL DEF Pm1Inv

\* A gpio_set_output that returns ESP_OK has made the pin an output of the
\* level asked for, whatever earlier calls left half done.
THEOREM Pm1SuccessMeansDriven == Pm1Spec => []SuccessMeansDriven
<1>1. Pm1Inv => SuccessMeansDriven
  BY DEF Pm1Inv, Progress, SuccessMeansDriven, High, Low, Driven
<1> QED  BY <1>1, Pm1Invariant, PTL

(***************************************************************************)
(* What a step may do to the outputs.                                      *)
(***************************************************************************)
LEMMA Untouched ==
  ASSUME Pm1Inv, RegStep
  PROVE  PoweredOff
           \/ \A g \in 0..4 : g # pin => PinState(reg', g) = PinState(reg, g)
<1>1. CASE reg' = reg
  BY <1>1
<1>2. CASE mpc = "write" /\ reg' = After(reg)
  <2>1. Setting /\ stage \in 1..3 /\ reg \in RegType
    BY <1>2 DEF Pm1Inv, Pm1TypeOK, Working, Setting, RegType
  <2> QED  BY <1>2, <2>1, AfterIs DEF AfterFacts
<1> QED  BY <1>1, <1>2 DEF RegStep

\* Setting one output leaves the function, level and direction of every other
\* pin alone, at every transfer, also when the call fails half way or is cut
\* off.
THEOREM Pm1OtherPinsUntouched == Pm1Spec => OtherPinsUntouched
<1>1. Pm1Inv /\ [Pm1Next]_pm1Vars =>
        [ PoweredOff
            \/ \A g \in 0..4 : g # pin => PinState(reg', g) = PinState(reg, g)
        ]_pm1Vars
  BY Pm1Next_Inv, Untouched
<1> QED  BY <1>1, Pm1Invariant, PTL DEF Pm1Spec, OtherPinsUntouched

NoPulseStep ==
  PoweredOff \/ \A g \in 0..4 :
    /\ ~Driven(reg, g) /\ Driven(reg', g) =>
         g = pin /\ (Hidden(reg, g) \/ (g \in reg'["OUT"] <=> level))
    /\ Hidden(reg', g) => Hidden(reg, g)

\* A pin whose bits are unchanged does what it did.
LEMMA SameState ==
  ASSUME NEW g \in 0..4, PinState(reg', g) = PinState(reg, g)
  PROVE  /\ Driven(reg', g) <=> Driven(reg, g)
         /\ Hidden(reg', g) <=> Hidden(reg, g)
BY DEF PinState, IsGpio, Driven, Hidden

LEMMA DrivenAtLevel ==
  ASSUME Pm1Inv, RegStep
  PROVE  NoPulseStep
<1>1. CASE reg' = reg
  BY <1>1 DEF NoPulseStep
<1>2. CASE mpc = "write" /\ reg' = After(reg)
  <2>1. /\ Setting /\ stage \in 1..3 /\ reg \in RegType
        /\ stage = 3 => IsGpio(reg, pin) /\ (pin \in reg["OUT"] <=> level)
    BY <1>2 DEF Pm1Inv, Pm1TypeOK, Working, Progress, Setting, RegType
  <2>2. AfterFacts(reg)
    BY <2>1, AfterIs
  <2>3. ASSUME NEW g \in 0..4, g # pin
        PROVE  /\ Driven(reg', g) <=> Driven(reg, g)
               /\ Hidden(reg', g) <=> Hidden(reg, g)
    BY <1>2, <2>2, <2>3, SameState DEF AfterFacts
  \* The function goes first: what becomes driven was hidden.
  <2>4. CASE stage = 1
    <3>1. IsGpio(reg', pin) /\ reg'["MODE"] = reg["MODE"]
      BY <1>2, <2>2, <2>4 DEF AfterFacts
    <3>2. ~Hidden(reg', pin)
      BY <3>1 DEF Hidden
    <3>3. ~Driven(reg, pin) /\ Driven(reg', pin) => Hidden(reg, pin)
      BY <3>1 DEF Driven, Hidden
    <3> QED  BY <2>3, <3>2, <3>3 DEF NoPulseStep
  <2>5. CASE stage = 2
    <3>1. reg'["MODE"] = reg["MODE"] /\ (IsGpio(reg', pin) <=> IsGpio(reg, pin))
      BY <1>2, <2>1, <2>2, <2>5 DEF AfterFacts, Setting
    <3>2. /\ Driven(reg', pin) <=> Driven(reg, pin)
          /\ Hidden(reg', pin) <=> Hidden(reg, pin)
      BY <3>1 DEF Driven, Hidden
    <3> QED  BY <2>3, <3>2 DEF NoPulseStep
  \* The direction goes last: the function is off and the level in place.
  <2>6. CASE stage = 3
    <3>1. IsGpio(reg', pin) /\ (pin \in reg'["OUT"] <=> level)
      BY <1>2, <2>1, <2>2, <2>6 DEF AfterFacts, Setting
    <3>2. ~Hidden(reg', pin)
      BY <3>1 DEF Hidden
    <3> QED  BY <2>3, <3>1, <3>2 DEF NoPulseStep
  <2> QED  BY <2>1, <2>4, <2>5, <2>6
<1> QED  BY <1>1, <1>2 DEF RegStep, NoPulseStep

\* The load behind an output never sees a level that was not asked for, except
\* behind an output that was hidden at power-up: whatever the registers held,
\* the driver makes no hidden output, and a pin that was not one starts to
\* drive only at the last update, with its level in place.
THEOREM Pm1NoWrongPulse == Pm1Spec => NoWrongPulse
<1>1. Pm1Inv /\ [Pm1Next]_pm1Vars => [NoPulseStep]_pm1Vars
  BY Pm1Next_Inv, DrivenAtLevel
<1> QED
  BY <1>1, Pm1Invariant, PTL DEF Pm1Spec, NoWrongPulse, NoPulseStep
=============================================================================
