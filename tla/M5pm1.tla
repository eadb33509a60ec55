------------------------------- MODULE M5pm1 -------------------------------
(***************************************************************************)
(* The M5PM1 power chip of the StickS3 and its driver,                     *)
(* src/src/m5boards/pico_fido2_m5pm1.c.                                    *)
(*                                                                         *)
(* A register is the set of its bits that are 1.  A GPIO output is set     *)
(* with three read-modify-writes, each of them two transfers, and any      *)
(* transfer may fail and end the call half way.  The chip (external) keeps *)
(* its registers when the ESP32-S3 restarts.                               *)
(***************************************************************************)
EXTENDS I2cBus, Sequences

CONSTANTS
  Pins,        (* GPIO arguments the callers pass.                         *)
  PowerOnRegs  (* Register contents the firmware may find at power-up.     *)

Registers == {"FUNC0", "FUNC1", "OUT", "MODE"}
Bits == 0..7

ASSUME PinsAssumption == Pins \subseteq Nat
ASSUME RegsAssumption == PowerOnRegs \subseteq [Registers -> SUBSET Bits]

VARIABLES
  reg,       (* Chip: the GPIO registers.                                  *)
  pm1dev,    (* ctx->dev is a device handle.                               *)
  mpc,       (* Where the driver is.                                       *)
  pin, level, (* Arguments of pf2_m5pm1_gpio_set_output.                   *)
  stage,     (* Which of its three updates is under way.                   *)
  old,       (* old_value: the register as last read.                      *)
  mret       (* The result is ESP_OK.                                      *)

pm1Driver == <<pm1dev, mpc, pin, level, stage, old, mret>>
pm1Vars == <<reg, pm1Driver, faults>>

(***************************************************************************)
(* What a pin of the chip does (external): with function 0 and the MODE    *)
(* bit set it is an output and follows its OUT bit.                        *)
(***************************************************************************)
FuncReg(g)  == IF g < 4 THEN "FUNC0" ELSE "FUNC1"
FuncMask(g) == IF g < 4 THEN {2 * g, 2 * g + 1} ELSE {0, 1}

IsGpio(r, g) == r[FuncReg(g)] \cap FuncMask(g) = {}
Driven(r, g) == IsGpio(r, g) /\ g \in r["MODE"]
High(r, g) == Driven(r, g) /\ g \in r["OUT"]
Low(r, g)  == Driven(r, g) /\ g \notin r["OUT"]

\* An output that does not follow its OUT bit, because an alternate function
\* hides it.  Another firmware may have left such a thing.
Hidden(r, g) == g \in r["MODE"] /\ ~IsGpio(r, g)

(***************************************************************************)
(* The driver.                                                             *)
(***************************************************************************)

\* Mutations: the alternate function is left alone; the direction changes
\* before the level.
UpdatesWithoutFunction ==
  << [reg |-> "OUT",  mask |-> {pin}, value |-> IF level THEN {pin} ELSE {}],
     [reg |-> "MODE", mask |-> {pin}, value |-> {pin}] >>

UpdatesDirectionFirst ==
  << [reg |-> FuncReg(pin), mask |-> FuncMask(pin), value |-> {}],
     [reg |-> "MODE", mask |-> {pin}, value |-> {pin}],
     [reg |-> "OUT",  mask |-> {pin}, value |-> IF level THEN {pin} ELSE {}] >>

Updates ==
  << [reg |-> FuncReg(pin), mask |-> FuncMask(pin), value |-> {}],
     [reg |-> "OUT",  mask |-> {pin}, value |-> IF level THEN {pin} ELSE {}],
     [reg |-> "MODE", mask |-> {pin}, value |-> {pin}] >>

\* m5pm1_update_bits: (old_value & ~mask) | (value & mask)
\* (Mutation: the other bits are not kept.)
NewValueUnmasked(o, u) == u.value

NewValue(o, u) == (o \ u.mask) \cup (u.value \cap u.mask)

Pm1Finish(ok) == mpc' = "done" /\ mret' = ok

CallPm1Init ==
  /\ mpc = "idle"
  /\ mpc' = "add"
  /\ UNCHANGED <<reg, pm1dev, pin, level, stage, old, mret, faults>>

Pm1AddDevice ==
  /\ mpc = "add"
  /\ \/ Transfer(TRUE, TRUE) /\ pm1dev' = TRUE /\ mpc' = "id" /\ UNCHANGED mret
     \/ Transfer(FALSE, FALSE) /\ UNCHANGED pm1dev /\ Pm1Finish(FALSE)
  /\ UNCHANGED <<reg, pin, level, stage, old>>

\* The device id is read to see that the chip answers; its value is ignored.
ReadId ==
  /\ mpc = "id"
  /\ \E ok \in BOOLEAN : Transfer(ok, ok) /\ Pm1Finish(ok)
  /\ UNCHANGED <<reg, pm1dev, pin, level, stage, old>>

\* pf2_m5pm1_gpio_set_output(g, l); enable_l3b_power and enable_speaker_amp
\* are this with pins 2 and 3.
CallSetOutput(g, l) ==
  /\ mpc = "idle"
  /\ pin' = g /\ level' = l /\ stage' = 1
  /\ IF g < 5 THEN mpc' = "read" /\ UNCHANGED mret ELSE Pm1Finish(FALSE)
  /\ UNCHANGED <<reg, pm1dev, old, faults>>

\* Mutation: one update too many.
NextUpdateTooFar ==
  IF stage <= Len(Updates)
  THEN stage' = stage + 1 /\ mpc' = "read" /\ UNCHANGED mret
  ELSE Pm1Finish(TRUE) /\ UNCHANGED stage

NextUpdate ==
  IF stage < Len(Updates)
  THEN stage' = stage + 1 /\ mpc' = "read" /\ UNCHANGED mret
  ELSE Pm1Finish(TRUE) /\ UNCHANGED stage

\* The first half of m5pm1_update_bits; nothing is written if nothing changes.
ReadRegister ==
  /\ mpc = "read"
  /\ \/ /\ pm1dev /\ Transfer(TRUE, TRUE)
        /\ old' = reg[Updates[stage].reg]
        /\ IF NewValue(old', Updates[stage]) = old'
           THEN NextUpdate
           ELSE mpc' = "write" /\ UNCHANGED <<stage, mret>>
     \/ /\ ~pm1dev
        /\ Pm1Finish(FALSE) /\ UNCHANGED <<old, stage, faults>>
     \/ /\ pm1dev /\ Transfer(FALSE, FALSE)
        /\ Pm1Finish(FALSE) /\ UNCHANGED <<old, stage>>
  /\ UNCHANGED <<reg, pm1dev, pin, level>>

WriteBack ==
  /\ mpc = "write"
  /\ \E ok, reached \in BOOLEAN :
       /\ Transfer(ok, reached)
       /\ reg' = IF reached
                 THEN [reg EXCEPT ![Updates[stage].reg] = NewValue(old, Updates[stage])]
                 ELSE reg
       /\ IF ok THEN NextUpdate ELSE Pm1Finish(FALSE) /\ UNCHANGED stage
  /\ UNCHANGED <<pm1dev, pin, level, old>>

\* The caller takes the result; the locals go out of scope.
Pm1Return ==
  /\ mpc = "done"
  /\ mpc' = "idle" /\ pin' = 0 /\ level' = FALSE /\ stage' = 0 /\ old' = {}
  /\ mret' = FALSE
  /\ UNCHANGED <<reg, pm1dev, faults>>

\* pf2_m5pm1_shutdown: one write of SYS_CMD, after which the board is off;
\* it comes back with the driver's statics cleared and registers of its own.
Shutdown ==
  /\ mpc = "idle" /\ pm1dev
  /\ \/ /\ \E ok \in BOOLEAN : Transfer(ok, TRUE)
        /\ reg' \in PowerOnRegs /\ pm1dev' = FALSE
     \/ /\ Transfer(FALSE, FALSE)
        /\ UNCHANGED <<reg, pm1dev>>
  /\ UNCHANGED <<mpc, pin, level, stage, old, mret>>

\* The ESP32-S3 restarts anywhere: the driver is lost, the chip is not.
Pm1Restart ==
  /\ pm1dev' = FALSE
  /\ mpc' = "idle" /\ pin' = 0 /\ level' = FALSE /\ stage' = 0 /\ old' = {}
  /\ mret' = FALSE
  /\ UNCHANGED <<reg, faults>>

Pm1Init ==
  /\ reg \in PowerOnRegs
  /\ pm1dev = FALSE
  /\ mpc = "idle" /\ pin = 0 /\ level = FALSE /\ stage = 0 /\ old = {}
  /\ mret = FALSE
  /\ faults = MaxFaults

Pm1Step == Pm1AddDevice \/ ReadId \/ ReadRegister \/ WriteBack

Pm1Next ==
  \/ CallPm1Init \/ \E g \in Pins, l \in BOOLEAN : CallSetOutput(g, l)
  \/ Pm1Step \/ Pm1Return \/ Shutdown \/ Pm1Restart

Pm1Spec == Pm1Init /\ [][Pm1Next]_pm1Vars

-----------------------------------------------------------------------------
Pm1TypeOK ==
  /\ reg \in [Registers -> SUBSET Bits]
  /\ pm1dev \in BOOLEAN
  /\ mpc \in {"idle", "add", "id", "read", "write", "done"}
  /\ pin \in Nat /\ level \in BOOLEAN /\ stage \in 0..3
  /\ old \in SUBSET Bits
  /\ mret \in BOOLEAN
  /\ faults \in 0..MaxFaults

PinState(r, g) == <<r[FuncReg(g)] \cap FuncMask(g), g \in r["OUT"], g \in r["MODE"]>>

PoweredOff == pm1dev /\ ~pm1dev' /\ mpc = "idle"

\* Setting one output never disturbs another: the read-modify-writes leave
\* the function, level and direction of every other pin as they were, also
\* when the call fails half way or is cut off by a restart.
OtherPinsUntouched ==
  [][ PoweredOff \/ \A g \in 0..4 : g # pin => PinState(reg', g) = PinState(reg, g)
    ]_pm1Vars

\* A pin starts to drive only if it is the one being set, and at the level
\* asked for, because the direction is the last of the updates.  The exception
\* is an output that was hidden: the function goes first, and until the next
\* update gets through the load sees whatever level the chip held.  The driver
\* makes no such output, not even when it is cut off and called again, so
\* there is at most this one pulse for each that was there at power-up.
NoWrongPulse ==
  [][ PoweredOff \/ \A g \in 0..4 :
        /\ ~Driven(reg, g) /\ Driven(reg', g) =>
             g = pin /\ (Hidden(reg, g) \/ (g \in reg'["OUT"] <=> level))
        /\ Hidden(reg', g) => Hidden(reg, g) ]_pm1Vars

\* A call that reports success has made the pin an output of that level.
SuccessMeansDriven ==
  mpc = "done" /\ stage > 0 /\ mret =>
    IF level THEN High(reg, pin) ELSE Low(reg, pin)
=============================================================================
