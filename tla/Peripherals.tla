---------------------------- MODULE Peripherals ----------------------------
(***************************************************************************)
(* What bringing up a board's peripherals amounts to for its callers: it   *)
(* succeeds, and then the button pins of a board that has buttons are      *)
(* inputs, or (never on the Cardputer-Adv once the bus exists) it fails at *)
(* some call and leaves the pins as they were.  Module Presence takes such *)
(* a step; module BoardInit is shown to be no more than this.              *)
(***************************************************************************)
EXTENDS I2cBus

CONSTANTS
  HasButtons,  (* user_input.type is PF2_USER_INPUT_GPIO                   *)
  HasPm1       (* the board is a StickS3                                   *)

VARIABLES
  phase,       (* "idle", "bus", "running", "ok" or "failed"               *)
  bus,         (* the I2C bus exists                                       *)
  gpioReady    (* the button pins are inputs                               *)

perVars == <<phase, bus, gpioReady, faults>>

Init == phase = "idle" /\ bus = FALSE /\ gpioReady = FALSE /\ faults = MaxFaults

Call ==
  /\ phase = "idle" /\ phase' = "bus"
  /\ UNCHANGED <<bus, gpioReady, faults>>

\* A board with neither a power chip nor buttons is ready with its bus.
BusUp ==
  /\ phase = "bus" /\ bus' = TRUE
  /\ phase' = IF HasPm1 \/ HasButtons THEN "running" ELSE "ok"
  /\ UNCHANGED <<gpioReady, faults>>

Succeed ==
  /\ phase = "running" /\ phase' = "ok"
  /\ gpioReady' = (gpioReady \/ HasButtons)
  /\ UNCHANGED <<bus, faults>>

Fail ==
  /\ \/ phase = "bus" /\ ~bus
     \/ phase = "running" /\ HasPm1
  /\ phase' = "failed" /\ faults > 0 /\ faults' = faults - 1
  /\ UNCHANGED <<bus, gpioReady>>

Return ==
  /\ phase \in {"ok", "failed"} /\ phase' = "idle"
  /\ UNCHANGED <<bus, gpioReady, faults>>

Restart ==
  /\ phase' = "idle" /\ bus' = FALSE /\ gpioReady' = FALSE
  /\ UNCHANGED faults

Next == Call \/ BusUp \/ Succeed \/ Fail \/ Return \/ Restart

Spec == Init /\ [][Next]_perVars
=============================================================================
