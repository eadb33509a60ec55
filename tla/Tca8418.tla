------------------------------ MODULE Tca8418 ------------------------------
(***************************************************************************)
(* The TCA8418 keypad scanner of the Cardputer-Adv and its polling driver, *)
(* src/src/m5boards/pico_fido2_tca8418.c.                                  *)
(*                                                                         *)
(* The chip (external) scans the key matrix on its own and queues press    *)
(* and release events in a FIFO.  The driver configures it with nine       *)
(* register writes and polls it with one I2C transfer per step, so that    *)
(* keys move between any two transfers and every transfer may fail.        *)
(*                                                                         *)
(* Of a register only what the key events depend on is kept: KP_GPIO1..3   *)
(* attach the pins to the matrix.  Of an event only whether it is a press: *)
(* the driver uses the key code for nothing but "is there an event".       *)
(***************************************************************************)
EXTENDS I2cBus, Sequences, FiniteSets

CONSTANTS
  Keys,       (* The keys of the keyboard.                                 *)
  HighKeys,   (* Those wired to columns 8 and 9, which KP_GPIO3 attaches.  *)
  FifoDepth,  (* Events the chip's FIFO holds: 10 in the TCA8418.          *)
  PollLimit   (* Events one poll looks at: 10, the bound of the loop.      *)

\* KEY_LCK_EC reports the number of queued events in four bits.
ASSUME FifoAssumption == FifoDepth \in 1..15
ASSUME PollAssumption == PollLimit \in Nat /\ FifoDepth <= PollLimit
ASSUME KeysAssumption == HighKeys \subseteq Keys

VARIABLES
  down,       (* Chip: keys it has registered as pressed.                  *)
  matrix,     (* Chip: KP_GPIO registers that attach their pins.           *)
  fifo,       (* Chip: queued events, oldest first.                        *)
  dev,        (* ctx->dev is a device handle.                              *)
  op,         (* The driver function called last.                          *)
  tpc,        (* Where in it the driver is.                                *)
  n,          (* Index of the next register write, or of the poll's loop.  *)
  event,      (* Event read and not yet acknowledged.                      *)
  ret,        (* Result: ESP_OK of an init, "key pressed" of a poll.       *)
  clean,      (* History: no transfer of this call has failed.             *)
  backlog     (* History: events queued at the poll's start still queued.  *)

chip   == <<down, matrix, fifo>>
driver == <<dev, op, tpc, n, event, ret, clean, backlog>>
tcaVars == <<chip, driver, faults>>

Events == {"press", "release"}
MatrixRegisters == {"KP_GPIO1", "KP_GPIO2", "KP_GPIO3"}

\* Mutation: column register 3 forgotten.
InitRegistersWithoutGpio3 ==
  << "CFG", "KP_GPIO1", "KP_GPIO2", "DEBOUNCE_DIS1", "DEBOUNCE_DIS2",
     "DEBOUNCE_DIS3", "INT_STAT", "CFG" >>

InitRegisters ==
  << "CFG", "KP_GPIO1", "KP_GPIO2", "KP_GPIO3", "DEBOUNCE_DIS1",
     "DEBOUNCE_DIS2", "DEBOUNCE_DIS3", "INT_STAT", "CFG" >>

(***************************************************************************)
(* The chip.                                                               *)
(***************************************************************************)

\* Rows are behind KP_GPIO1, columns 0..7 behind KP_GPIO2.
Scanned(k) ==
  /\ "KP_GPIO1" \in matrix
  /\ (IF k \in HighKeys THEN "KP_GPIO3" ELSE "KP_GPIO2") \in matrix

\* CFG leaves OVR_FLOW_M clear: a full FIFO drops the new event.
Queue(e) == fifo' = IF Len(fifo) < FifoDepth THEN Append(fifo, e) ELSE fifo

\* The chip debounces key k as pressed: k is held and its pins are scanned.
Press(k) ==
  /\ k \notin down /\ Scanned(k)
  /\ down' = down \cup {k}
  /\ Queue("press")
  /\ UNCHANGED <<matrix, driver, faults>>

Release(k) ==
  /\ k \in down
  /\ down' = down \ {k}
  /\ Queue("release")
  /\ UNCHANGED <<matrix, driver, faults>>

Finish(result) ==
  /\ tpc' = "done" /\ ret' = result
  /\ event' = "none"

(***************************************************************************)
(* pf2_tca8418_init                                                        *)
(***************************************************************************)

CallInit ==
  /\ tpc = "idle"
  /\ op' = "init" /\ tpc' = "add" /\ n' = 1 /\ clean' = TRUE
  /\ UNCHANGED <<chip, dev, event, ret, faults, backlog>>

\* i2c_master_bus_add_device, then gpio_config of the interrupt pin.
AddDevice ==
  /\ tpc = "add"
  /\ \/ /\ Transfer(TRUE, TRUE)
        /\ dev' = TRUE /\ tpc' = "write"
        /\ UNCHANGED <<event, ret, clean>>
     \/ /\ Transfer(FALSE, FALSE)
        /\ dev' \in {dev, TRUE}      \* the second call failed if dev is set
        /\ Finish(FALSE) /\ clean' = FALSE
  /\ UNCHANGED <<chip, op, n, backlog>>

\* One tca8418_write_u8; ESP_RETURN_ON_ERROR leaves at the first failure.
WriteRegister ==
  /\ tpc = "write"
  /\ \E ok, reached \in BOOLEAN :
       /\ Transfer(ok, reached)
       /\ matrix' = IF reached
                    THEN matrix \cup ({InitRegisters[n]} \cap MatrixRegisters)
                    ELSE matrix
       /\ clean' = ok
       /\ IF ok /\ n < Len(InitRegisters)
          THEN n' = n + 1 /\ UNCHANGED <<tpc, ret, event>>
          ELSE Finish(ok) /\ UNCHANGED n
  /\ UNCHANGED <<down, fifo, dev, op, backlog>>

(***************************************************************************)
(* pf2_tca8418_any_key_pressed, with pf2_tca8418_read_key_event inlined.   *)
(***************************************************************************)

\* Mutation: the count is masked with 0x01 instead of 0x0f.
EventCountParity == Len(fifo) % 2

EventCount == Len(fifo) % 16

\* Bit 7 of an event.  Mutations: the bit is not looked at; it is taken for
\* the released bit.
AnyEventIsPress(e) == e \in Events
ReleaseIsPress(e) == e = "release"

IsPress(e) == e = "press"

\* The loop condition.  Mutations: one iteration short; no bound.
OneIterationLess == n + 2 < PollLimit
NoLoopBound == TRUE

MoreIterations == n + 1 < PollLimit

\* Mutation: the loop counter is not advanced.
ContinueWithoutCounting ==
  tpc' = "count" /\ event' = "none" /\ UNCHANGED n

Continue == n' = n + 1 /\ tpc' = "count" /\ event' = "none"

CallPoll ==
  /\ tpc = "idle"
  /\ op' = "poll" /\ tpc' = "count" /\ n' = 0 /\ clean' = TRUE
  /\ backlog' = Len(fifo)
  /\ UNCHANGED <<chip, dev, event, ret, faults>>

\* A context without a device is refused before any transfer.
ReadCount ==
  /\ tpc = "count"
  /\ \/ /\ dev /\ EventCount > 0
        /\ tpc' = "event"
        /\ UNCHANGED <<event, ret, clean, faults>>
     \/ /\ dev /\ EventCount = 0
        /\ Finish(FALSE) /\ UNCHANGED <<clean, faults>>
     \/ /\ ~dev
        /\ Finish(FALSE) /\ clean' = FALSE /\ UNCHANGED faults
     \/ /\ dev /\ Transfer(FALSE, FALSE)
        /\ Finish(FALSE) /\ clean' = FALSE
  /\ UNCHANGED <<chip, dev, op, n, backlog>>

\* Reading KEY_EVENT_A takes the oldest event off the FIFO.
ReadEvent ==
  /\ tpc = "event"
  /\ \E ok, reached \in BOOLEAN :
       /\ Transfer(ok, reached)
       /\ fifo' = IF reached THEN Tail(fifo) ELSE fifo
       /\ backlog' = IF reached /\ backlog > 0 THEN backlog - 1 ELSE backlog
       /\ clean' = ok
       /\ IF ok
          THEN event' = Head(fifo) /\ tpc' = "clear" /\ UNCHANGED ret
          ELSE Finish(FALSE)
  /\ UNCHANGED <<down, matrix, dev, op, n>>

\* INT_STAT is written before the event is handed back: if that write fails
\* the event is gone.
ClearInterrupt ==
  /\ tpc = "clear"
  /\ \/ /\ Transfer(TRUE, TRUE) /\ IsPress(event)
        /\ Finish(TRUE) /\ UNCHANGED <<n, clean>>
     \/ /\ Transfer(TRUE, TRUE) /\ ~IsPress(event) /\ MoreIterations
        /\ Continue /\ UNCHANGED <<ret, clean>>
     \/ /\ Transfer(TRUE, TRUE) /\ ~IsPress(event) /\ ~MoreIterations
        /\ Finish(FALSE) /\ UNCHANGED <<n, clean>>
     \/ /\ Transfer(FALSE, FALSE)
        /\ Finish(FALSE) /\ clean' = FALSE /\ UNCHANGED n
  /\ UNCHANGED <<chip, dev, op, backlog>>

\* The caller takes the result; the locals go out of scope.
Return ==
  /\ tpc = "done"
  /\ tpc' = "idle" /\ op' = "none" /\ n' = 0 /\ ret' = FALSE /\ clean' = TRUE
  /\ backlog' = 0
  /\ UNCHANGED <<chip, dev, event, faults>>

(***************************************************************************)
(* The driver on its own, called in any order.                             *)
(***************************************************************************)
TcaInit ==
  /\ down = {} /\ matrix = {} /\ fifo = <<>>
  /\ dev = FALSE /\ op = "none" /\ tpc = "idle" /\ n = 0
  /\ event = "none" /\ ret = FALSE
  /\ faults = MaxFaults
  /\ clean = TRUE /\ backlog = 0

User == \E k \in Keys : Press(k) \/ Release(k)
DriverStep ==
  \/ AddDevice \/ WriteRegister
  \/ ReadCount \/ ReadEvent \/ ClearInterrupt

TcaNext == User \/ CallInit \/ CallPoll \/ DriverStep \/ Return

\* The task that called the driver keeps running; keys move as they like.
TcaSpec == TcaInit /\ [][TcaNext]_tcaVars /\ WF_tcaVars(DriverStep)

-----------------------------------------------------------------------------
(***************************************************************************)
(* Properties.                                                             *)
(***************************************************************************)

TcaTypeOK ==
  /\ down \subseteq Keys
  /\ matrix \subseteq MatrixRegisters
  /\ fifo \in Seq(Events) /\ Len(fifo) <= FifoDepth
  /\ dev \in BOOLEAN
  /\ op \in {"none", "init", "poll"}
  /\ tpc \in {"idle", "add", "write", "count", "event", "clear", "done"}
  /\ n \in Nat /\ (op = "poll" => n < PollLimit)
  /\ event \in Events \cup {"none"}
  /\ ret \in BOOLEAN
  /\ faults \in 0..MaxFaults
  /\ clean \in BOOLEAN
  /\ backlog \in 0..FifoDepth

\* An init that reports ESP_OK has attached every key of the keyboard to the
\* scanner: a partial configuration is always reported as an error.
InitSound == tpc = "done" /\ op = "init" /\ ret => \A k \in Keys : Scanned(k)

\* A poll that answers "no key" without a bus error has consumed every event
\* that was queued when it began: the ten iterations of the loop are enough
\* for the FIFO, whatever is queued meanwhile, and nothing stale survives it.
DrainComplete ==
  tpc = "done" /\ op = "poll" /\ ~ret /\ clean => backlog = 0

\* Presses the chip has registered and the driver has not reported.
Presses(s) == Cardinality({i \in 1..Len(s) : s[i] = "press"})
Pending == Presses(fifo) + (IF event = "press" THEN 1 ELSE 0)

\* A queued press leaves the FIFO only by making a poll answer "pressed", by
\* a bus failure, or, once read, by a restart that loses the device handle:
\* draining releases never swallows a press behind them, and at most one
\* press is spent on an answer.
NoPressSwallowed ==
  [][ Pending' < Pending =>
        /\ Pending' = Pending - 1
        /\ (tpc' = "done" /\ ret') \/ faults' < faults \/ (dev /\ ~dev') ]_tcaVars

\* Every call returns, even if keys refill the FIFO while a poll drains it.
CallsReturn == (tpc # "idle") ~> (tpc \in {"done", "idle"})
=============================================================================
