# A verification of the pico-fido2 M5Stack firmware

This directory holds TLA+ models of the code under `src/` that is pico-fido2's
own: the M5Stack board support and its user-presence adapter.  The FIDO2, OATH
and OpenPGP applications and the SDK with the main loop are git submodules that
are not part of this tree; what is modelled of them is the calls they make.

Every definition is translated from the source and `PROJECT.json` ("map") gives
the lines it stands for.  Paths below are relative to `src/m5boards/` of the
repository's `src` unless they say otherwise.

## 1. Inventory

| Component | Source | State | Operations |
|---|---|---|---|
| TCA8418 keypad driver | `pico_fido2_tca8418.c` | `ctx->dev`; in the chip: registers, event FIFO | `init`, `read_key_event`, `any_key_pressed` |
| User presence | `pico_fido2_presence.c` | `s_board`, `s_presence_initialized`, `s_gpio_last_pressed`, `s_keyboard` | `init`, `poll`, `wait(timeout_ms)` |
| M5PM1 power chip driver | `pico_fido2_m5pm1.c` | `ctx->dev`; in the chip: FUNC, OUT, MODE registers | `init`, `gpio_set_output` and its two wrappers, `shutdown` |
| Board descriptors, bring-up | `pico_fido2_m5_board.c` | `s_internal_i2c`, `s_pm1`, `s_pm1_initialized` | `board_get`, `init_early`, `init_peripherals` |
| Status display | `pico_fido2_display.c` | `s_display_state`, `s_status_queue` (length 1), `s_lcd_spi`, the display task | `init`, `set_status`, `set_message`, the task's loop |
| Boot hook | `../fido2/m5stack_button.c` | none | `picokey_init` |
| PHY defaults | `../fido2/m5stack_phy.c` | `phy_data` of the SDK | `phy_init` |
| File table | `../fido2/files.c` | a constant table | none |
| SDK and applications | submodules, absent | | |
| Build files | `CMakeLists.txt`, `Kconfig`, scripts | | select the board, enable the display |

**How they interact.**  The SDK calls `phy_init`, sets USB up and calls
`picokey_init`, which initialises user presence (ignoring the outcome) and then
the display.  User presence brings the board up (I2C bus; on the StickS3 the
PM1's power rail, amplifier and the button pins; on the Cardputer-Adv the
keypad).  Later the SDK calls `poll` or `wait`, which initialise on demand, but
only while `s_board` is NULL, and which poll the keypad over I2C or the two
buttons as GPIOs.  The display has a task of its own and is reached through a
queue that is overwritten.

**What is hard.**  Keys move between any two I2C transfers or GPIO reads.  Any
transfer may fail, and ends the call it is in half way.  The keypad chip and the
power chip keep their state when the ESP32-S3 restarts, the statics do not.
`wait` races a timeout against a late key.  The display task draws while the
main task posts.

**What makes each component correct.**

* keypad driver: success means every key is scanned; no press vanishes; a poll
  that answers no has nothing old left; calls end;
* user presence: a confirmation costs one key press; a refusal has a reason;
  a timed wait ends, and not early; a pressed key confirms;
* power chip: a success means the output is at its level; other outputs are left
  alone; a pin that starts to drive does so at its level, unless it was an output
  hidden by an alternate function;
* bring-up: after success the rail is on and the amplifier off; no step cuts the
  rail or makes the amplifier's pin a high output; flags say what was done;
* display: states appear in order, the latest one appears, drawing has the SPI
  device to itself, a message does not outlive its status;
* drawing: a window holds exactly the pixels sent to it, nothing is painted
  outside the rectangle asked for, a failure leaves a part of the picture;
* boot and PHY defaults: boot reaches the main loop whatever fails, provisioned
  values are kept, a wait with the default timeout ends;
* file table: every identifier that is looked up finds an entry that means it.

`PROJECT.json` lists the hazards behind these, each at its line.

## 2. Modules

```
I2cBus  (calls that can fail)
 ├─ Tca8418 ── Tca8418Proofs
 │    └─ Presence (with M5Board)                  MCPresence
 │         ├─ PresenceProofs (also over Tca8418Proofs)
 │         ├─ refines UserPresence
 │         ├─ PresenceHistory                     MCPresenceHistory
 │         └─ Firmware (with an instance of Display)  MCFirmware
 │              └─ FirmwareProofs (over PresenceProofs and DisplayProofs)
 ├─ M5pm1 ── Pm1Proofs                            MCM5pm1
 │    └─ BoardInit (with M5Board)                 MCBoardInit
 │         ├─ BoardProofs (also over Pm1Proofs)
 │         └─ refines Peripherals
 ├─ Display ── DisplayProofs
 │    └─ refines LatestValue
 └─ LcdDraw ── LcdProofs                          MCLcdDraw
FileTable ── FileProofs
```

* **I2cBus** (external).  `Transfer(ok, reached)`: a call to the ESP-IDF that may
  fail; a failing transfer may still have reached the device.  `MaxFaults` bounds
  the failures of a behaviour.
* **Tca8418**.  The chip keeps the keys it holds as pressed, which of KP_GPIO1..3
  attach their pins, and its FIFO.  The driver is one action per I2C transfer:
  `AddDevice`, `WriteRegister` (the nine writes of `init`), `ReadCount`,
  `ReadEvent`, `ClearInterrupt` (the three transfers of `read_key_event`, with
  the loop of `any_key_pressed` around them), and `Return`.  Key codes are
  abstracted to "press" and "release": the code tests bit 7 and whether there
  was an event at all.
* **M5Board**.  The descriptor types and the two descriptors as records; `BoardId`
  is the build option.  Two assumptions that TLC evaluates for the board of each
  run: the descriptor fits its types, and no pin belongs to two drivers.
* **Presence**.  The calling task in steps that end wherever the rest of the world
  can move: an I2C transfer, a GPIO read, `vTaskDelay`.  The keypad driver is
  included by EXTENDS: `PollKeypad` is its `CallPoll`, `KeypadPolled` its
  `Return`.  The `||` of two `gpio_is_pressed` is two steps.  A pin that was
  never configured as an input reads as anything.  Time is counted in ticks from
  the start of a wait: `clock` is the reading that was last compared with the
  deadline.  After a delay it may be any later one, by one tick or, if the poll
  was slow, by many.
  `Restart` may happen anywhere, clears the statics, and leaves the chip alone.
* **UserPresence**.  The contract, abstractly: keys go up and down, a press may
  add one *credit*, a confirmation takes one, nothing else adds any.
* **PresenceHistory**.  `Presence` with a record of when keys went down, to state
  what the documentation says about presses and prompts.
* **M5pm1**.  A register is the set of its one bits.  `gpio_set_output` is three
  updates, each a `ReadRegister` and, if something changes, a `WriteBack`.
* **BoardInit** over M5pm1: `init_early` and `init_peripherals`, callable again
  after any outcome.  **Peripherals** is what they amount to for the caller, and
  what Presence's `InitPeripherals` takes as one step.
* **Display**.  Main task and display task.  A display state is the number of its
  post and whether its lines are empty; the panel keeps whose colour and whose
  text is on it.  **LatestValue** is the promise: in order, and the last one.
* **LcdDraw**.  What Display takes as `Fill` and `DrawText`, one SPI transaction
  at a time: a state is a fill and a set of squares, each a rectangle that is
  clipped, converted to 16 bits and to bytes, set as the controller's window in
  five transactions and then filled.  The controller (external) has a window, a
  position in it that starts again at its beginning, and the pixels.  A job is
  named by where the loops of `lcd_draw_text` and `lcd_draw_char` are.  What
  Display says of a fill or text is what can come of it here: all of it even if
  the last transaction reports a failure, a part, or nothing.
* **Firmware**.  `phy_init`, `usb_init` and `picokey_init` in the order of boot,
  over Presence, which it extends, and an instance `D` of Display with a fault
  budget of its own.  The main task makes all calls; the display task is `D`'s.
  A prompt waits as long as `phy_data` says.  What the SDK reads from flash, and
  that it calls the hooks in this order, is external.
* **FileTable**.  The table of `files.c`, its constant arrays, and `file_openpgp`
  and `file_last`, under an external file system: a search ends at the first
  entry that matches, a boot attaches the records of the flash to the entries
  their identifiers are found at.

Actions are the functions' bodies between two points where something else can
happen; early returns (`ESP_RETURN_ON_ERROR`) are the failing disjuncts.

## 3. What is checked

`tlc -config X.cfg M` for each row; the passing runs:

| Run | Instance | Properties |
|---|---|---|
| `keyboard` (MCPresenceKeyboard) | Cardputer-Adv, 2 keys, FIFO 3, loop bound 3, 2 failures, 1 restart, waits for ever or 2 ticks | `TypeOK`, `InitializedMeansReady`, `InitSound`, `DrainComplete`, `Contract`, `RefusalJustified`, `TimedWaitReturns`, `QueuedPressConfirms`, `NoPressSwallowed`, `CallsReturn` |
| `buttons` (MCPresenceButtons) | StickS3, no failures, 1 restart | `Contract`, `HeldButtonConfirms` |
| `pm1` (MCM5pm1) | pins 2, 3, 4 with any function, level and direction at power-up, pin 5 refused; 2 failures, any number of restarts | `Pm1TypeOK`, `SuccessMeansDriven`, `OtherPinsUntouched`, `NoWrongPulse` |
| `board` (MCBoardInit) | StickS3, pins 2 and 3 with any function, level and direction at power-up, 3 failures, any number of restarts | `BoardTypeOK`, `PowerAsDocumented`, `InitializedHasDevice`, `AmpNeverRaised`, `RailNeverDropped`, `ImplementsPeripherals` |
| `display` (MCDisplay) | 6 bring-up commands, 5 posts, 2 failures | `DisplayTypeOK`, `OneSpiUser`, `NoStaleMessage`, `InOrder`, `LatestShown` |
| `lcd_draw` (MCLcdDraw) | 16 x 18 pixels, three glyphs at scale 2, a text with two lines and an empty one, 1 failure | `LcdTypeOK`, `NoWrap`, `PictureComplete`, `OnlyOwnInk`, `PaintsInside`, `DrawingEnds` |
| `firmware` (MCFirmware) | StickS3, 1 failing call of the I2C and GPIO side and 1 of the SPI side, 1 restart, waits for ever or 2 ticks, either PHY field provisioned or not, 4 posts | `FirmwareTypeOK`, `ProvisioningRespected`, `BootCompletes`, `DefaultWaitEnds`, `BootPictureShown` |
| `file_table` (MCFileTable) | the whole table; two files written, one of them the identifier that is in the table twice | `FoundIsMeant`, `ReadInBounds` |

What they show, beyond the comments at the properties:

* One key press is worth at most one confirmation, through every interleaving of
  keys with transfers, failing transfers, and a restart of the processor with
  events still in the chip (`Contract`, on both boards).
* A bus failure never turns into a confirmation and never ends a wait; a wait
  with a timeout gives up only when the clock it has just read is at its deadline.
* Bring-up may be cut off anywhere and repeated, over whatever the power chip
  holds: the rail is never dropped, and no step makes the amplifier's pin an
  output of high level.  The amplifier can be on only if something else left its
  pin like that.
* The display's length-one queue loses only states that a later one replaces.
* A drawing that fails anywhere leaves the state's colour and part of its text;
  a window that is half set is never painted in; clipping and the counts of
  pixels agree.
* Boot gets to the main loop and every wait with the default timeout ends, even
  if a call fails on the way of user presence and another on that of the display,
  at any place of either, and the display task never runs.  If the display task
  does run and no SPI transfer fails, a state of the boot, or a later one, gets
  to the panel whatever became of user presence.
* The identifier that is in the file table twice does no harm, because its two
  entries are alike.

**Disagreements** between code and documentation, each with a run that TLC ends
with a counterexample:

| Run | Property | What happens |
|---|---|---|
| `fresh_press` | `FreshPress` | A key pressed before the prompt waits in the FIFO and confirms the prompt; `docs/m5stack_esp32s3_validation.md:10` asks for a fresh press. |
| `boot_fault` | `AnyKeyPressConfirms` | `s_board` is set before initialisation has succeeded; after one failing transfer at boot nothing initialises again.  If it was the one that adds the device, no key ever confirms; if it was a register write, the keys that were not attached by then never do. Against `README.md:204`. |
| `unconfigured_pins` | `NothingConfirmsAlone` | The same on the StickS3: pins that were never configured are polled, and their level may look like a press, against `README.md:205`. |
| `file_openpgp` | `SelectsOpenPgp` | `file_openpgp` is the last entry but one, which is `EF_OTP_PIN` since the FIDO files were appended, and not the entry with the name `openpgp_aid` that the comment at `../fido2/files.c:482` numbers 132. |

Three more were met in modelling and have no run.  The edge of the buttons is
taken on the disjunction of both (`pico_fido2_presence.c:68`), so a press of one
while the other is held confirms nothing, although `README.md:205` speaks of a
transition "on either KEY1 or KEY2".  `pf2_display_init` overwrites a failed
bring-up command's `ret` (`pico_fido2_display.c:327`): it then logs
"initialized" (line 338) and returns `ESP_OK` over a panel that was never turned
on.  And `gpio_set_output` switches the alternate function off before it sets
the level (`pico_fido2_m5pm1.c:67-79`): if other firmware left the amplifier's
pin a high output behind an alternate function, bring-up turns the amplifier on
until its next update gets through, and for as long as none does if that one
fails, although `README.md:210` has it "disabled by default".  That is why
`NoWrongPulse` excepts an output that was hidden, and `AmpNeverRaised` is about
the pin's direction and level rather than about what it drives.

**Bounds.**  The keypad's FIFO and loop bound are both 10 in the code; 3 and 3
keep what matters, that they are equal, and let a FIFO be full of releases with
a press dropped behind them.  The theorems below hold for every depth.  Two or
three failures allow one at boot and one in operation, or two in one call.  One
restart gives a second boot over a chip in any state.  Two ticks give a wait
that polls, polls again and gives up.  `LcdDraw`'s panel is the smallest on which
a second character does not fit, a second line is cut off through a row of
squares, and a fill takes more than one chunk with a rest.  In `firmware` the
bring-up of the panel has one command, since the `display` run has all six, and
one of the calls on the display's way fails, in bring-up or in a drawing; its
four posts are the three of boot and one later.
`FileTable`'s `Written` are the twin identifier and the file that `file_openpgp`
names.  `MaxPosts` and `MaxRestarts` cap counters; the runs `display` and
`firmware` do not check deadlock, because posts run out and both tasks then
rightly wait.  In all other runs deadlock is checked.

**Fairness.**  `WF(DriverStep)`, `WF(Firmware)`, `WF(BoardStep)`, `WF(Draw)`: a
task that is inside a call keeps running, since transfers have a timeout of
100 ms and no code of this tree holds a lock.  `WF(BringUp)` and
`WF(DisplayTask)` for the two tasks of the display; `LatestShown` is about
behaviours in which nothing fails.  In `Firmware` only the main task is promised
to run: the display task has the lowest priority above the idle task, and its
fairness is a hypothesis of `BootPictureShown`, no part of the specification.
Nothing is assumed of the host, the keys or the caller: `HeldButtonConfirms`, for
instance, needs the button to stay down, because two buttons that keep changing
places between the two reads of each poll are never seen.

## 4. What is proved

`tlapm M.tla` checks these for every value of the constants that the named
assumptions allow: any set of keys, any FIFO depth the four-bit count allows, a
loop bound at least as large, any set of timeouts, any panel of 16-bit size, any
font, scale and chunk, any number of failures and restarts.

| Theorem | Module | Says |
|---|---|---|
| `TcaTypeCorrect` | Tca8418Proofs | the driver's and chip's types; the FIFO within its depth |
| `TcaDrainComplete` | Tca8418Proofs | a quiet poll has consumed all that was queued before it |
| `TcaInitSound` | Tca8418Proofs | a successful init has attached every key |
| `TcaNoPressSwallowed` | Tca8418Proofs | a press leaves only as an answer, by a bus failure or with the device handle |
| `TcaCallsShorten` | Tca8418Proofs | every step of the driver brings the end of its call nearer, the keys do not put it off |
| `PresenceTypeCorrect` | PresenceProofs | types of the API, both boards |
| `PresenceRefusalJustified` | PresenceProofs | the three reasons for a refusal; a wait gives up only at its deadline |
| `PresenceReady` | PresenceProofs | what `s_presence_initialized` stands for |
| `PresenceInitSound`, `PresenceDrainComplete`, `PresenceNoPressSwallowed` | PresenceProofs | the driver's three for the driver as the API calls it, through restarts |
| `PresenceCallsShorten` | PresenceProofs | every step of a call of the API brings its deadline or its end nearer |
| `KeyboardContract` | PresenceProofs | the Cardputer-Adv implements `UserPresence` |
| `ButtonsContract` | PresenceProofs | the StickS3 does, if no call fails |
| `LcdTypeCorrect` | LcdProofs | types of the drawing task and the controller |
| `LcdNoWrap` | LcdProofs | a window never receives more pixels than it holds |
| `LcdPaintsInside` | LcdProofs | nothing is painted outside the rectangle asked for |
| `LcdOnlyOwnInk` | LcdProofs | once the fill got through, the panel shows its colour and part of its text |
| `LcdPictureComplete` | LcdProofs | a state drawn without a failure is exactly its picture |
| `LcdDrawingShortens` | LcdProofs | every transaction goes on to a later rectangle or nearer to the end of its own |
| `Pm1TypeCorrect` | Pm1Proofs | types of the power chip's driver and registers |
| `Pm1SuccessMeansDriven` | Pm1Proofs | a success means a plain output of that level |
| `Pm1OtherPinsUntouched` | Pm1Proofs | a read-modify-write changes no other pin |
| `Pm1NoWrongPulse` | Pm1Proofs | a pin starts to drive with its level in place, unless it was a hidden output; none is made |
| `BoardTypeCorrect` | BoardProofs | types of bring-up |
| `BoardPowerAsDocumented` | BoardProofs | after a success the rail is on, the amplifier off |
| `BoardInitializedHasDevice` | BoardProofs | what `s_pm1_initialized` stands for |
| `BoardAmpNeverRaised`, `BoardRailNeverDropped` | BoardProofs | no attempt makes the amplifier's pin a high output or cuts the rail |
| `BoardAmpStaysOff` | BoardProofs | if the amplifier's pin is no high output at power-up, the amplifier is never on |
| `BoardImplementsPeripherals` | BoardProofs | bring-up of either board is the step that Presence takes it to be |
| `DisplayTypeCorrect` | DisplayProofs | types of the two tasks; at most one state waits |
| `DisplayOneSpiUser` | DisplayProofs | one user of the SPI device at a time; a queue has its task |
| `DisplayNoStaleMessage` | DisplayProofs | no text stays on the colour of a later status |
| `DisplayInOrder` | DisplayProofs | states are shown in the order of their posts |
| `FirmwareTypeCorrect` | FirmwareProofs | types of the composed firmware |
| `FirmwareProvisioning` | FirmwareProofs | provisioned PHY fields win one by one, the defaults are in time for the host and for every wait |
| `FirmwareUsesPresence` | FirmwareProofs | each step of the firmware is one of Presence, or none |
| `FirmwareContract` | FirmwareProofs | the whole firmware implements `UserPresence`, under the same two conditions |
| `FirmwareRefusalJustified`, `FirmwareReady`, `FirmwareNoPressSwallowed` | FirmwareProofs | the properties of Presence, of the firmware |
| `FirmwareDisplay` | FirmwareProofs | `OneSpiUser` and `NoStaleMessage` through restarts |
| `FileFoundIsMeant` | FileProofs | if entries with one identifier are alike, a search finds what each stands for |
| `FileReadInBounds` | FileProofs | the length bytes of the four arrays that have them |

**The keypad driver.**  `DrainComplete` is not inductive: it says nothing while a
poll is running.  `Countdown` does: at iteration n at most `FifoDepth - n` of the
events queued when the poll began are still there, so that after `PollLimit >=
FifoDepth` iterations none is.  It needs `Where` (what each point of the driver
knows: an event is read only from a FIFO that is not empty) and the types; the
four together are `IInv`.  `InitSound` needs `Written`: a write is reached only
past registers that were set.  `NoPressSwallowed` counts presses in a sequence;
the first part of `Tca8418Proofs` says what appending and taking off do to that
count.

**How long a call takes.**  Liveness is out of the prover's reach, but what it
rests on is not.  `StepsLeft` counts the driver's steps to the end of its call:
at most 10 in an init, `3 * PollLimit` in a poll, and it falls with every step of
the driver whatever the chip answers, and is left alone by the keys.  `Phase`
does the same for the API, with `3 * PollLimit + 16` for the initialisation and
the first round; in a wait with a timeout, a delay may start another round but
then less is left to the deadline.  `DrawPhase` counts what a rectangle still
takes, and the rectangles of a state are finitely many and in order (`Before`).
So `CallsReturn`, `TimedWaitReturns` and `DrawingEnds` need no more than that
the task keeps running, which is what their fairness says.

**User presence.**  Seen from the driver a step of the API is a step of `TcaNext`,
the loss of a failure, a restart, or a button (`DriverView`), which takes `IInv`
and the step lemmas of the driver over to `Presence`.  `PInv` adds `Calling` (the
place in the code against the call and the open request), `Driving` (against the
driver's place) and `Ready` (against the statics); `KeypadInv` adds what is known
of the device and its registers, among it that an event is read only through a
device handle, which is what a restart takes away with it.  The refinement maps
`credit` to the presses the firmware holds: those queued, the one read but not
acknowledged, and the one a finished poll is about to report.  `DriverCredit`
shows that they move from one to the next and never increase, `ReturnCredit`
that a confirmation takes one.  For the buttons the credit is whether the next
complete reading is a rising edge; `ButtonsContract` assumes `MaxFaults = 0`,
which is needed: `unconfigured_pins` shows what happens otherwise.

**Drawing.**  `LcdInv` is `LcdTypeOK /\ Aligned /\ NoWrap`.  `Aligned` says what the
controller holds at each point of `lcd_set_window`: past the column bytes the
column window is the current rectangle's, past the row bytes the row window too,
and in the pixel loop what was written and what remains are its count.  That the
window of a rectangle lies inside it, holds exactly `count` pixels and survives
the conversion to bytes is a lemma on `Window`, `Clip` and `Bytes` for every
16-bit size.

The picture is proved from `PictureInv`, which adds `Painted` (what was written
since RAMWR has the colour of the rectangle), `OnlyOwnInk`, and `Progress` (of an
undisturbed drawing, every rectangle before the current one is on the panel).
`InkIsSquares` ties the two descriptions of a text together: the pixels of the
squares' windows, clipped and with 16-bit coordinates, are those of `Ink`, which
is stated by pixels.  For that the rows of a line must not wrap, which
`TextAssumption` says of `Line1Y`, `Line2Y` and `Scale`; columns need no such
assumption, because `lcd_draw_text` stops at the last character that fits.  No
induction over the rectangles is needed: `LeaveOrder` says that nothing lies
between a rectangle and the next one in the loops' order.

**The power chip and bring-up.**  `SuccessMeansDriven` is about the end of a call,
so `Pm1Inv` says what each point of the call knows: `Fresh`, that the value about
to be written back was computed from what is still in the chip, and `Progress`,
that the alternate function is off past the first update and the level in place
past the second.  One lemma, `AfterIs`, says what an update does to the register
file: it changes one field of one pin, because the function fields of two pins do
not overlap.  `NoWrongPulse` is then read off the three updates, for any registers at
power-up: the first can only uncover an output that was hidden, the second drives
nothing new, and the third finds the function off and the level in place.  `BInv`
adds to this, for bring-up, `InPart` and `Reached`: for which part the driver is
working and with which arguments, and what the parts before it have established.
Then each update is one of L3B towards high or of the amplifier towards low, and
the action properties follow pin by pin.  The refinement looks at each step
through `Phase`.

**The display.**  `DInv` adds to the types `Stages`, which ties the place of the
main task in `pf2_display_init` to the queue and the task that exist by then, and
`Ages`: a state's number never increases on the way from `s_display_state` over
the queue and the task's copy to the panel, and what waits in the queue is
strictly newer than the copy.  `NoStaleMessage` is inductive only with `Ages`: the
text that is drawn belongs to the copy, and no colour is newer than that.  The
refinement maps `posted` to the posts since the queue has its task; a post is
`Post`, the end of a complete drawing `Show`, everything else stutters.

**The firmware.**  `FirmwareInv` is the invariant of Presence, that of Display and
`BootInv`: how far the boot is says what `phy_data` and the descriptor hold
(`PhyHeld`) and which call may be under way (`CallMade`).  `PresenceView` shows
that each action of the firmware is a step of Presence or leaves it alone, so the
theorems of Presence apply; in particular the timeout of a wait comes from
`phy_data` and is one Presence allows.  On the display a restart is the one step
that Display does not have, and it puts it back to its initial state.

**The file table.**  Its names are made with `ToString`, which no prover here
reads through, so what is needed of the table is the hypothesis `TableInOrder`:
an entry that another one hides is in flash when that one is, and else has the
same data.  The run `file_table` reads every entry of the real table and would
end with a violation if it were false (the mutation `PivKeysUnlikeTwins` is such
a table).  `FileInv` adds `Attached`: the records attached to entries are those
in flash, also after a boot has attached them anew.

**Assumptions.**  All theorems hold under the named `ASSUME`s of the modules they
extend: the FIFO depth and loop bound (`Tca8418`), the descriptors (`M5Board`),
that registers have eight bits (`M5pm1`), sizes, positions and font (`LcdDraw`), a
default timeout that is one of the timeouts (`Firmware`), bounds being
naturals.  TLC evaluates each of them in the runs of its module.

**Model-checked only.**  Liveness (`CallsReturn`, `TimedWaitReturns`,
`QueuedPressConfirms`, `HeldButtonConfirms`, `LatestShown`, `DrawingEnds`,
`BootCompletes`, `DefaultWaitEnds`, `BootPictureShown`), which is beyond the
prover, as is ENABLED and induction over data; the bounds above are what can be
proved of `CallsReturn`, `TimedWaitReturns` and `DrawingEnds`.  Every invariant
and every action property that a passing run checks is a theorem.
`KeyboardContract` and `ButtonsContract` are proved over `Peripherals`' step, and
`BoardImplementsPeripherals` says that step is justified; that the two may be
composed is read off the shared variables (bus, button pins, failures) and not
itself a theorem.

## 5. What is not modelled

* A second `pf2_display_init`, and two tasks inside the presence API at once:
  nothing in this tree does either, and neither function is written for it.
* A build without the display, in which the three display functions only store
  their arguments.
* Who posts the prompts that `docs/m5stack_esp32s3_validation.md:14` says the LCD
  shows: that code is in the SDK.  Firmware lets anything be posted.
* The letters of the font: they are data, and LcdDraw's `Font` stands for any.
* Access conditions and file structure bytes of the file table, which only the
  applications read, and the numbers behind its identifiers, which are in the
  submodules.
* The TCA8418's interrupt pin, which the driver configures and never uses, its
  debouncing, and GPIO, ADC, IR, audio and IMU fields of the descriptors that no
  code reads (they are in the records, and no behaviour depends on them).
* The SDK and the applications (submodules), and the build.

## 6. Plan

Done: keypad driver, user presence, power chip, bring-up, display, drawing, the
composed firmware, the file table, and the safety properties of all of them as
theorems.  Left:

* that `LcdDraw` implements the `Fill` and `DrawText` of `Display`, as a refinement
  rather than by the properties that the two share;
* that bring-up and user presence may be composed, `BoardInit` taking the place of
  the one step `InitPeripherals`, as a theorem.
