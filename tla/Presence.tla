------------------------------ MODULE Presence ------------------------------
(***************************************************************************)
(* User presence, src/src/m5boards/pico_fido2_presence.c, together with    *)
(* the keypad driver it polls (module Tca8418) and the buttons it reads.   *)
(*                                                                         *)
(* picokey_init() initialises at boot and ignores the outcome; afterwards  *)
(* the SDK calls pico_fido2_presence_poll() or _wait() from one task, one  *)
(* call at a time.  A step is what happens between two points where the    *)
(* rest of the world moves: a GPIO read, an I2C transfer, a delay.         *)
(*                                                                         *)
(* The chip keeps its registers and its FIFO when the ESP32-S3 restarts;   *)
(* the statics of the firmware do not survive.                             *)
(***************************************************************************)
EXTENDS Tca8418, M5Board

CONSTANTS
  Timeouts,    (* Values of timeout_ms: the tick, counted from the start   *)
               (* of the wait, at which its time is up; 0 waits for ever.  *)
  MaxRestarts  (* Bound of the checks: restarts of the ESP32-S3.           *)

ASSUME TimeoutsAssumption == Timeouts \subseteq Nat
ASSUME RestartsAssumption == MaxRestarts \in Nat
ASSUME ButtonsAssumption ==
  Board.user_input.type = "GPIO" =>
    Keys = {Board.user_input.gpio_a, Board.user_input.gpio_b}

VARIABLES
  ppc,          (* Where the calling task is.                              *)
  call,         (* The API function it is in: "boot", "poll" or "wait".    *)
  timeout,      (* Argument of the wait.                                   *)
  clock,        (* The time a wait last read, in ticks since its start;    *)
                (* kept as history when the wait is over.                  *)
  request,      (* What became of the latest poll or wait.                 *)
  s_board,      (* The static s_board is set.                              *)
  s_presence_initialized,
  s_gpio_last_pressed,
  s_internal_i2c,  (* The I2C bus exists.                                  *)
  gpioReady,    (* The button pins are configured as inputs.               *)
  polled,       (* History: this call has completed a poll.                *)
  restarts      (* Restarts left.                                          *)

statics == <<s_board, s_presence_initialized, s_gpio_last_pressed,
             s_internal_i2c, gpioReady>>
callVars == <<call, timeout, clock, polled>>
presenceVars == <<ppc, callVars, request, statics, restarts>>
vars == <<tcaVars, presenceVars>>

Keyboard == Board.user_input.type = "TCA8418"
Buttons  == Board.user_input.type = "GPIO"
KeyA == Board.user_input.gpio_a
KeyB == Board.user_input.gpio_b

\* The values gpio_is_pressed(gpio) may return.  A pin that was never
\* configured as an input reads as anything.
gpio_is_pressed(gpio) ==
  IF gpio < 0 THEN {FALSE}
  ELSE IF gpioReady THEN {gpio \in down} ELSE BOOLEAN

(***************************************************************************)
(* Entering and leaving the API.                                           *)
(***************************************************************************)

\* picokey_init() calls pico_fido2_presence_init().
Boot ==
  /\ ppc = "off"
  /\ ppc' = "early" /\ call' = "boot"
  /\ UNCHANGED <<tcaVars, timeout, clock, polled, request, statics, restarts>>

\* pico_fido2_presence_poll() and pico_fido2_presence_wait(t): initialise
\* first, but only if s_board was never set.
Ask(f, t) ==
  /\ ppc = "idle"
  /\ ppc' = IF s_board THEN "poll" ELSE "early"
  /\ call' = f /\ timeout' = t /\ clock' = 0
  /\ request' = "open"
  /\ UNCHANGED <<tcaVars, polled, statics, restarts>>

Leave(result) ==
  /\ ppc' = "idle"
  /\ call' = "none" /\ timeout' = 0 /\ polled' = FALSE
  /\ request' = result

Answer(result) == Leave(result) /\ UNCHANGED clock

\* pico_fido2_presence_init() returns to picokey_init(), which ignores the
\* error, or to the lazy call of a poll or wait, which gives up on one.
InitReturns(ok) ==
  IF call = "boot" THEN Answer(request)
  ELSE IF ok THEN ppc' = "poll" /\ UNCHANGED <<callVars, request>>
  ELSE Answer("refused")

(***************************************************************************)
(* pico_fido2_presence_init, pf2_user_presence_init                        *)
(***************************************************************************)

\* pf2_m5_board_init_early(), then the first lines of the user-presence
\* init: the board is recorded before anything is known to work.  (Its
\* "already initialised" return needs s_board, which no caller here has.)
InitEarly ==
  /\ ppc = "early"
  /\ \/ /\ Transfer(TRUE, TRUE)
        /\ s_internal_i2c' = TRUE
        /\ s_board' = TRUE /\ s_gpio_last_pressed' = FALSE
        /\ ppc' = "peripherals"
        /\ UNCHANGED <<callVars, request>>
     \/ /\ ~s_internal_i2c /\ Transfer(FALSE, FALSE)
        /\ InitReturns(FALSE)
        /\ UNCHANGED <<s_internal_i2c, s_board, s_gpio_last_pressed>>
  /\ UNCHANGED <<chip, driver, s_presence_initialized, gpioReady, restarts>>

\* pf2_m5_board_init_peripherals(), as module BoardInit shows it from
\* outside: on the StickS3 the PM1 or gpio_config may fail, and then the
\* button pins are left as they were; the Cardputer has nothing to do.
\* (Mutation: gpio_config is forgotten.)
NoPinsConfigured == FALSE
PinsConfigured == Buttons

InitPeripherals ==
  /\ ppc = "peripherals"
  /\ \/ /\ Transfer(TRUE, TRUE)
        /\ gpioReady' = PinsConfigured
        /\ ppc' = IF Keyboard THEN "keypad" ELSE "sampleA"
        /\ IF Keyboard THEN CallInit ELSE UNCHANGED <<chip, driver>>
        /\ UNCHANGED <<callVars, request>>
     \/ /\ Board.id = "STICK_S3" /\ Transfer(FALSE, FALSE)
        /\ InitReturns(FALSE)
        /\ UNCHANGED <<chip, driver, gpioReady>>
  /\ UNCHANGED <<s_board, s_presence_initialized, s_gpio_last_pressed,
                 s_internal_i2c, restarts>>

\* Mutation: the result of pf2_tca8418_init is not checked.
KeypadReadyUnchecked ==
  /\ ppc = "keypad" /\ Return
  /\ s_presence_initialized' = TRUE
  /\ InitReturns(TRUE)
  /\ UNCHANGED <<s_board, s_gpio_last_pressed, s_internal_i2c, gpioReady,
                 restarts>>

KeypadReady ==
  /\ ppc = "keypad" /\ Return
  /\ s_presence_initialized' = (s_presence_initialized \/ ret)
  /\ InitReturns(ret)
  /\ UNCHANGED <<s_board, s_gpio_last_pressed, s_internal_i2c, gpioReady,
                 restarts>>

\* gpio_a || gpio_b, read one after the other.
SampleA ==
  /\ ppc = "sampleA"
  /\ \E pressed \in gpio_is_pressed(KeyA) :
       IF pressed
       THEN /\ s_gpio_last_pressed' = TRUE /\ s_presence_initialized' = TRUE
            /\ InitReturns(TRUE)
       ELSE /\ ppc' = "sampleB"
            /\ UNCHANGED <<s_gpio_last_pressed, s_presence_initialized,
                           callVars, request>>
  /\ UNCHANGED <<tcaVars, s_board, s_internal_i2c, gpioReady, restarts>>

SampleB ==
  /\ ppc = "sampleB"
  /\ \E pressed \in gpio_is_pressed(KeyB) : s_gpio_last_pressed' = pressed
  /\ s_presence_initialized' = TRUE
  /\ InitReturns(TRUE)
  /\ UNCHANGED <<tcaVars, s_board, s_internal_i2c, gpioReady, restarts>>

(***************************************************************************)
(* pf2_user_presence_poll, pf2_user_presence_wait                          *)
(***************************************************************************)

\* Mutation: a wait gives up after one poll.
PollReturnsAtOnce(pressed) ==
  Answer(IF pressed THEN "confirmed" ELSE "refused")

PollReturns(pressed) ==
  IF pressed THEN Answer("confirmed")
  ELSE IF call = "poll" THEN Answer("refused")
  ELSE /\ ppc' = "delay" /\ polled' = TRUE
       /\ UNCHANGED <<call, timeout, clock, request>>

PollKeypad ==
  /\ ppc = "poll" /\ Keyboard /\ CallPoll
  /\ ppc' = "scan"
  /\ UNCHANGED <<callVars, request, statics, restarts>>

KeypadPolled ==
  /\ ppc = "scan" /\ Return
  /\ PollReturns(ret)
  /\ UNCHANGED <<statics, restarts>>

\* Mutation: the level counts instead of the edge.
PressedLevel(now) == s_gpio_last_pressed' = now /\ PollReturns(now)

RisingEdge(now) ==
  /\ s_gpio_last_pressed' = now
  /\ PollReturns(now /\ ~s_gpio_last_pressed)

PollButtonA ==
  /\ ppc = "poll" /\ Buttons
  /\ \E pressed \in gpio_is_pressed(KeyA) :
       IF pressed THEN RisingEdge(TRUE)
       ELSE ppc' = "pollB" /\ UNCHANGED <<s_gpio_last_pressed, callVars, request>>
  /\ UNCHANGED <<tcaVars, s_board, s_presence_initialized, s_internal_i2c,
                 gpioReady, restarts>>

\* Mutation: KEY2 is not read.
PollButtonBUnread ==
  /\ ppc = "pollB"
  /\ RisingEdge(FALSE)
  /\ UNCHANGED <<tcaVars, s_board, s_presence_initialized, s_internal_i2c,
                 gpioReady, restarts>>

PollButtonB ==
  /\ ppc = "pollB"
  /\ \E pressed \in gpio_is_pressed(KeyB) : RisingEdge(pressed)
  /\ UNCHANGED <<tcaVars, s_board, s_presence_initialized, s_internal_i2c,
                 gpioReady, restarts>>

\* What the clock may say after a vTaskDelay, which waits for the next 10 ms
\* tick: at least one tick more than when it was last read, or many more if
\* the poll was slow.  (Readings past the deadline are all alike.)
\* (Mutation: the deadline is computed anew in every round.)
ReadingsFromLatestRound == {1}
Readings == (clock + 1)..timeout

\* The loop goes on while esp_timer_get_time() < deadline_us.
\* (Mutation: it ends if no further round would be in time.)
TimeUpEarly(now) == now + 1 >= timeout
TimeUp(now) == now >= timeout

\* A wait without a timeout does not read the clock.
Delay ==
  /\ ppc = "delay"
  /\ \/ timeout = 0 /\ ppc' = "poll" /\ UNCHANGED <<callVars, request>>
     \/ /\ timeout # 0
        /\ \E now \in Readings :
             /\ clock' = now
             /\ IF TimeUp(now)
                THEN Leave("refused")
                ELSE ppc' = "poll" /\ UNCHANGED <<call, timeout, polled, request>>
  /\ UNCHANGED <<tcaVars, statics, restarts>>

(***************************************************************************)
(* The rest of the world.                                                  *)
(***************************************************************************)

KeypadStep == DriverStep /\ UNCHANGED presenceVars

PressButton(k) ==
  /\ Buttons /\ k \notin down
  /\ down' = down \cup {k}
  /\ UNCHANGED <<matrix, fifo, driver, faults, presenceVars>>

ReleaseButton(k) ==
  /\ Buttons /\ k \in down
  /\ down' = down \ {k}
  /\ UNCHANGED <<matrix, fifo, driver, faults, presenceVars>>

PressKey(k)   == Keyboard /\ Press(k) /\ UNCHANGED presenceVars
ReleaseKey(k) == Keyboard /\ Release(k) /\ UNCHANGED presenceVars

UserStep(k) ==
  PressButton(k) \/ ReleaseButton(k) \/ PressKey(k) \/ ReleaseKey(k)

\* The ESP32-S3 restarts: statics are cleared, the pins return to their
\* reset state, the chip carries on.
Restart ==
  /\ ppc # "off" /\ restarts > 0
  /\ restarts' = restarts - 1
  /\ ppc' = "off"
  /\ call' = "none" /\ timeout' = 0 /\ clock' = 0 /\ polled' = FALSE
  /\ request' = "none"
  /\ s_board' = FALSE /\ s_presence_initialized' = FALSE
  /\ s_gpio_last_pressed' = FALSE /\ s_internal_i2c' = FALSE
  /\ gpioReady' = FALSE
  /\ dev' = FALSE /\ op' = "none" /\ tpc' = "idle" /\ n' = 0
  /\ event' = "none" /\ ret' = FALSE /\ clean' = TRUE /\ backlog' = 0
  /\ UNCHANGED <<chip, faults>>

(***************************************************************************)
(* The specification.                                                      *)
(***************************************************************************)

Init ==
  /\ TcaInit
  /\ ppc = "off" /\ call = "none" /\ timeout = 0 /\ clock = 0
  /\ request = "none" /\ polled = FALSE
  /\ s_board = FALSE /\ s_presence_initialized = FALSE
  /\ s_gpio_last_pressed = FALSE /\ s_internal_i2c = FALSE
  /\ gpioReady = FALSE
  /\ restarts = MaxRestarts

Firmware ==
  \/ Boot \/ InitEarly \/ InitPeripherals \/ KeypadReady \/ SampleA \/ SampleB
  \/ PollKeypad \/ KeypadPolled \/ PollButtonA \/ PollButtonB \/ Delay
  \/ KeypadStep

Host == Ask("poll", 0) \/ \E t \in Timeouts : Ask("wait", t)

Next == Firmware \/ Host \/ Restart \/ \E k \in Keys : UserStep(k)

Safety == Init /\ [][Next]_vars

\* A task that is not waiting for a call runs: no other task can hold it up
\* for ever.  The host and the user owe nothing.
Spec == Safety /\ WF_vars(Firmware)

-----------------------------------------------------------------------------
(***************************************************************************)
(* Properties.                                                             *)
(***************************************************************************)

PresenceTypeOK ==
  /\ ppc \in {"off", "idle", "early", "peripherals", "keypad", "sampleA",
              "sampleB", "poll", "scan", "pollB", "delay"}
  /\ call \in {"none", "boot", "poll", "wait"}
  /\ timeout \in Timeouts \cup {0}
  /\ clock \in Nat /\ (timeout # 0 => clock <= timeout)
  /\ request \in {"none", "open", "confirmed", "refused"}
  /\ s_board \in BOOLEAN /\ s_presence_initialized \in BOOLEAN
  /\ s_gpio_last_pressed \in BOOLEAN /\ s_internal_i2c \in BOOLEAN
  /\ gpioReady \in BOOLEAN /\ polled \in BOOLEAN
  /\ restarts \in 0..MaxRestarts

TypeOK == TcaTypeOK /\ PresenceTypeOK

(***************************************************************************)
(* Presses the firmware holds and may still turn into a confirmation.      *)
(*                                                                         *)
(* On the keyboard: those queued in the chip, the one read and not yet     *)
(* acknowledged, and the one a finished poll is about to report.           *)
(*                                                                         *)
(* On the buttons: one, when the next complete reading will be a rising    *)
(* edge.  Between the two reads of one poll KEY1 counts as soon as it goes *)
(* down, since it was just read as up.                                     *)
(***************************************************************************)
KeypadCredit ==
  Pending + (IF op = "poll" /\ tpc = "done" /\ ret THEN 1 ELSE 0)

ButtonArmed ==
  \/ ppc = "sampleB" /\ KeyA \in down
  \/ ppc = "pollB" /\ (KeyA \in down \/ (KeyB \in down /\ ~s_gpio_last_pressed))
  \/ /\ ppc \notin {"sampleB", "pollB"}
     /\ s_presence_initialized /\ down # {} /\ ~s_gpio_last_pressed

Credit == IF Keyboard THEN KeypadCredit ELSE IF ButtonArmed THEN 1 ELSE 0

UP == INSTANCE UserPresence WITH credit <- Credit

\* The firmware keeps the promise of the API: one press is spent on each
\* confirmation, a button held since before initialisation is worth nothing,
\* and no interleaving of reads, keys, failing transfers and restarts makes
\* a confirmation out of nothing.
Contract == UP!Spec

\* Once initialisation has reported success the hardware a poll reads really
\* is configured: the bus and the device exist and every key is scanned, or
\* the button pins are inputs.
InitializedMeansReady ==
  s_presence_initialized =>
    /\ s_board /\ s_internal_i2c
    /\ Keyboard => dev /\ \A k \in Keys : Scanned(k)
    /\ Buttons => gpioReady

Initialising ==
  ppc \in {"early", "peripherals", "keypad", "sampleA", "sampleB"}

\* A request is refused for one of three reasons: it needed initialisation
\* and that failed, it was a single poll, or it was a wait with a timeout that
\* has polled at least once and has just read a clock that has come to its
\* deadline.  In particular no wait gives up early, a bus failure in one poll
\* does not end a wait, and a wait without a timeout is not refused once
\* initialisation has been attempted.
RefusalJustified ==
  [][ request = "open" /\ request' = "refused" =>
        \/ Initialising /\ ~s_presence_initialized'
        \/ call = "poll" /\ ~Initialising
        \/ ppc = "delay" /\ polled /\ timeout # 0 /\ clock' >= timeout ]_vars

\* A wait with a timeout returns, whatever the keys and the bus do.
TimedWaitReturns == (call = "wait" /\ timeout # 0) ~> (call = "none")

\* A press queued in the chip confirms an unlimited wait of an initialised
\* keyboard, unless a failing transfer loses it.
UnlimitedWait == call = "wait" /\ timeout = 0

QueuedPressConfirms ==
  (UnlimitedWait /\ s_presence_initialized /\ Keyboard /\ Credit > 0)
     ~> (request # "open" \/ Credit = 0)

\* A button that went down from "all released" and is held through an
\* unlimited wait confirms it.  (Held: two buttons that keep changing places
\* between the two reads of each poll are never seen.)
HeldButtonConfirms ==
  \A k \in Keys :
    (UnlimitedWait /\ Buttons /\ Credit > 0 /\ k \in down)
       ~> (request # "open" \/ Credit = 0 \/ k \notin down)

\* README.md:204, "any fresh TCA8418 keyboard key-press event confirms FIDO
\* user presence": a press queued during an unlimited wait confirms it,
\* whatever happened while the firmware booted.
AnyKeyPressConfirms ==
  (UnlimitedWait /\ Keyboard /\ Credit > 0)
     ~> (request # "open" \/ Credit = 0)
=============================================================================
