----------------------------- MODULE BoardInit -----------------------------
(***************************************************************************)
(* pf2_m5_board_init_early and pf2_m5_board_init_peripherals of            *)
(* src/src/m5boards/pico_fido2_m5_board.c, over the PM1 driver.            *)
(*                                                                         *)
(* The calls may be repeated, after a failure or a success: the statics    *)
(* s_internal_i2c and s_pm1_initialized decide what is done again.         *)
(***************************************************************************)
EXTENDS M5pm1, M5Board

VARIABLES
  bpc,               (* Where pf2_m5_board_init_peripherals is.            *)
  bret,              (* Its result is ESP_OK.                              *)
  s_internal_i2c,    (* The I2C bus exists.                                *)
  s_pm1_initialized,
  gpioReady          (* The button pins are configured as inputs.          *)

boardVars == <<bpc, bret, s_internal_i2c, s_pm1_initialized, gpioReady>>
vars == <<pm1Vars, boardVars>>

HasPm1 == Board.id = "STICK_S3"
HasButtons == Board.user_input.type = "GPIO"
L3b == Board.pm1.gpio_l3b_power
Amp == Board.pm1.gpio_speaker_amp

BoardFinish(ok) == bpc' = "done" /\ bret' = ok

\* Entering the next part of init_peripherals, or leaving it.
Enter(part) ==
  /\ bpc' = part /\ UNCHANGED bret

AfterPm1 == IF HasButtons THEN Enter("gpio") ELSE BoardFinish(TRUE)

CallPeripherals ==
  /\ bpc = "idle" /\ bpc' = "bus"
  /\ UNCHANGED <<pm1Vars, bret, s_internal_i2c, s_pm1_initialized, gpioReady>>

\* pf2_m5_board_init_early: the bus is created once.
InitEarly ==
  /\ bpc = "bus"
  /\ \/ /\ Transfer(TRUE, TRUE)
        /\ s_internal_i2c' = TRUE
        /\ IF HasPm1
           THEN Enter(IF s_pm1_initialized THEN "l3b" ELSE "pm1")
           ELSE AfterPm1
     \/ /\ ~s_internal_i2c /\ Transfer(FALSE, FALSE)
        /\ BoardFinish(FALSE) /\ UNCHANGED s_internal_i2c
  /\ UNCHANGED <<reg, pm1Driver, s_pm1_initialized, gpioReady>>

\* A call into the PM1 driver runs to its end with the board code waiting.
StartPm1 ==
  /\ \/ bpc = "pm1" /\ CallPm1Init
     \/ bpc = "l3b" /\ CallSetOutput(L3b, TRUE)
     \/ bpc = "amp" /\ CallSetOutput(Amp, FALSE)
  /\ UNCHANGED boardVars

RunPm1 == Pm1Step /\ UNCHANGED boardVars

\* Mutation: the flag is set before the outcome is known.
Pm1ReadyTooEarly ==
  /\ bpc = "pm1" /\ Pm1Return
  /\ s_pm1_initialized' = TRUE
  /\ IF mret THEN Enter("l3b") ELSE BoardFinish(FALSE)
  /\ UNCHANGED <<s_internal_i2c, gpioReady>>

Pm1Ready ==
  /\ bpc = "pm1" /\ Pm1Return
  /\ s_pm1_initialized' = mret
  /\ IF mret THEN Enter("l3b") ELSE BoardFinish(FALSE)
  /\ UNCHANGED <<s_internal_i2c, gpioReady>>

L3bSet ==
  /\ bpc = "l3b" /\ Pm1Return
  /\ IF mret THEN Enter("amp") ELSE BoardFinish(FALSE)
  /\ UNCHANGED <<s_internal_i2c, s_pm1_initialized, gpioReady>>

\* Mutation: the result is not checked.
AmpSetUnchecked ==
  /\ bpc = "amp" /\ Pm1Return
  /\ AfterPm1
  /\ UNCHANGED <<s_internal_i2c, s_pm1_initialized, gpioReady>>

AmpSet ==
  /\ bpc = "amp" /\ Pm1Return
  /\ IF mret THEN AfterPm1 ELSE BoardFinish(FALSE)
  /\ UNCHANGED <<s_internal_i2c, s_pm1_initialized, gpioReady>>

\* gpio_config of both button pins.  (Mutation: its error is dropped.)
ConfigureButtonsUnchecked ==
  /\ bpc = "gpio"
  /\ \/ Transfer(TRUE, TRUE) /\ gpioReady' = TRUE /\ BoardFinish(TRUE)
     \/ Transfer(FALSE, FALSE) /\ UNCHANGED gpioReady /\ BoardFinish(TRUE)
  /\ UNCHANGED <<reg, pm1Driver, s_internal_i2c, s_pm1_initialized>>

ConfigureButtons ==
  /\ bpc = "gpio"
  /\ \/ Transfer(TRUE, TRUE) /\ gpioReady' = TRUE /\ BoardFinish(TRUE)
     \/ Transfer(FALSE, FALSE) /\ UNCHANGED gpioReady /\ BoardFinish(FALSE)
  /\ UNCHANGED <<reg, pm1Driver, s_internal_i2c, s_pm1_initialized>>

BoardReturn ==
  /\ bpc = "done" /\ bpc' = "idle" /\ bret' = FALSE
  /\ UNCHANGED <<pm1Vars, s_internal_i2c, s_pm1_initialized, gpioReady>>

\* The ESP32-S3 restarts: the statics are cleared, the PM1 carries on.
Restart ==
  /\ Pm1Restart
  /\ bpc' = "idle" /\ bret' = FALSE
  /\ s_internal_i2c' = FALSE /\ s_pm1_initialized' = FALSE
  /\ gpioReady' = FALSE

Init ==
  /\ Pm1Init
  /\ bpc = "idle" /\ bret = FALSE
  /\ s_internal_i2c = FALSE /\ s_pm1_initialized = FALSE /\ gpioReady = FALSE

BoardStep ==
  \/ InitEarly \/ StartPm1 \/ RunPm1 \/ Pm1Ready \/ L3bSet \/ AmpSet
  \/ ConfigureButtons

Next == CallPeripherals \/ BoardStep \/ BoardReturn \/ Restart

Spec == Init /\ [][Next]_vars /\ WF_vars(BoardStep)

-----------------------------------------------------------------------------
BoardTypeOK ==
  /\ Pm1TypeOK
  /\ bpc \in {"idle", "bus", "pm1", "l3b", "amp", "gpio", "done"}
  /\ bret \in BOOLEAN
  /\ s_internal_i2c \in BOOLEAN /\ s_pm1_initialized \in BOOLEAN
  /\ gpioReady \in BOOLEAN

\* After a successful bring-up of a StickS3 the L3B rail is on and the
\* speaker amplifier is off, whatever an earlier attempt, an earlier run of
\* the firmware or a restart left in the chip; and both stay so.
PowerAsDocumented ==
  HasPm1 /\ bpc \in {"gpio", "done"} /\ (bpc = "done" => bret) =>
    High(reg, L3b) /\ Low(reg, Amp)

\* README.md:210, "speaker amplifier power stays disabled by default": no
\* step of the firmware, failing ones included, makes the amplifier's pin an
\* output of high level.  It can therefore be on only if something else left
\* it so.  (If that was hidden by an alternate function, bring-up does turn it
\* on, from switching the function off until it has set the level.)
Raised(r, g) == g \in r["MODE"] /\ g \in r["OUT"]

AmpNeverRaised == [][Raised(reg', Amp) => Raised(reg, Amp)]_vars

\* Bringing the board up again, after any failure, never cuts the rail of
\* the peripherals that are already running.
RailNeverDropped == [][High(reg, L3b) => High(reg', L3b)]_vars

\* s_pm1_initialized stands for a device the driver can talk to.
InitializedHasDevice == s_pm1_initialized => pm1dev /\ s_internal_i2c

\* The detailed bring-up as module Presence sees it.
Phase ==
  CASE bpc = "idle" -> "idle"
    [] bpc = "bus"  -> "bus"
    [] bpc = "done" -> IF bret THEN "ok" ELSE "failed"
    [] bpc \in {"pm1", "l3b", "amp"} /\ mpc = "done" /\ ~mret -> "failed"
    [] OTHER -> "running"

Abstract ==
  INSTANCE Peripherals WITH phase <- Phase, bus <- s_internal_i2c

\* Bring-up does what module Presence's InitPeripherals takes for granted.
ImplementsPeripherals == Abstract!Spec
=============================================================================
