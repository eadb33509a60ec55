--------------------------- MODULE FirmwareProofs ---------------------------
(***************************************************************************)
(* The firmware as a whole, for any number of restarts and of failing      *)
(* calls on either bus: it uses user presence and the display as they are  *)
(* meant to be used, so that what is proved of each of them alone holds    *)
(* here, and what was provisioned gets to where it is read.                *)
(*                                                                         *)
(* DP gives access to the display's proofs.  What it says of an action of  *)
(* the display it says of DP's, which SameDisplay shows to be D's.         *)
(***************************************************************************)
EXTENDS Firmware, PresenceProofs

DP == INSTANCE DisplayProofs WITH MaxFaults <- MaxSpiFaults, faults <- spiFaults

(***************************************************************************)
(* The invariant of the boot: how far it is says what phy_data and the     *)
(* descriptor hold, and which call into user presence may be under way.    *)
(***************************************************************************)
PhyHeld ==
  /\ boot \in BootCalls
  /\ provisioned \in Stored
  /\ boot = "phy" => phy_data = NoPhy /\ provisioned = NoPhy
  /\ boot # "phy" => phy_data = WithDefaults(provisioned)
  /\ descriptor = IF boot \in {"phy", "usb"} THEN "none"
                  ELSE phy_data.usb_product

CallMade ==
  /\ boot \in {"phy", "usb"} => ppc = "off"
  /\ call # "none" =>
       \/ call = "boot" /\ boot = "presence"
       \/ call = "wait" /\ boot = "run" /\ timeout = phy_data.up_btn

BootInv == PhyHeld /\ CallMade

FirmwareInv == PInv /\ DP!DInv /\ BootInv

-----------------------------------------------------------------------------
(***************************************************************************)
(* What is provisioned or filled in is a legal argument of a wait.         *)
(***************************************************************************)
LEMMA StoredFacts ==
  ASSUME NEW p \in Stored
  PROVE  /\ WithDefaults(p).up_btn \in Timeouts
         /\ WithDefaults(p).up_btn =
              IF p.up_btn_present THEN p.up_btn ELSE DefaultTimeout
         /\ WithDefaults(p).usb_product =
              IF p.usb_product_present THEN p.usb_product ELSE "board"
         /\ WithDefaults(p).usb_product \in {"board", "provisioned"}
BY DefaultTimeoutAssumption DEF Stored, WithDefaults

LEMMA NothingStored == NoPhy \in Stored
BY DEF NoPhy, Stored

(***************************************************************************)
(* Seen from user presence, a step of the firmware is one of its steps or  *)
(* none.                                                                   *)
(***************************************************************************)
LEMMA PresenceView ==
  ASSUME BootInv, [FirmwareNext]_firmwareVars
  PROVE  [Next]_vars
<1>1. CASE UNCHANGED vars
  BY <1>1
<1>2. CASE Boot \/ Firmware \/ Restart \/ \E k \in Keys : UserStep(k)
  BY <1>2 DEF Next, Firmware
<1>3. CASE Prompt
  <2>1. phy_data.up_btn \in Timeouts
    BY <1>3, StoredFacts DEF Prompt, BootInv, PhyHeld
  <2> QED BY <1>3, <2>1 DEF Prompt, Next, Host
<1> QED
  BY <1>1, <1>2, <1>3
  DEF FirmwareNext, MainTask, PhyInit, UsbInit, PresenceCalled,
      PresenceReturned, DisplayInit, BootStatus, BootMessage, PresenceStep,
      DisplayTask, PostStatus, KeyStep, Reset, firmwareVars

(***************************************************************************)
(* Seen from the display, one of its steps, none, or a reset.              *)
(***************************************************************************)
LEMMA SameDisplay ==
  /\ D!BringUp <=> DP!BringUp
  /\ D!Caller <=> DP!Caller
  /\ D!SetStatus <=> DP!SetStatus
  /\ \A empty \in BOOLEAN : D!SetMessage(empty) <=> DP!SetMessage(empty)
  /\ D!DisplayTask <=> DP!DisplayTask
  /\ D!Init <=> DP!Init
<1>1. D!Init <=> DP!Init
  BY DEF D!Init, DP!Init, D!NoState, DP!NoState
<1>2. \A s : D!Post(s) <=> DP!Post(s)
  BY DEF D!Post, DP!Post
<1>3. D!SetStatus <=> DP!SetStatus
  BY <1>2 DEF D!SetStatus, DP!SetStatus, D!taskVars, DP!taskVars, D!panel,
              DP!panel
<1>4. \A empty \in BOOLEAN : D!SetMessage(empty) <=> DP!SetMessage(empty)
  BY <1>2 DEF D!SetMessage, DP!SetMessage, D!taskVars, DP!taskVars, D!panel,
              DP!panel
<1>5. D!Caller <=> DP!Caller
  BY <1>3, <1>4 DEF D!Caller, DP!Caller
<1>6. D!PostBoot <=> DP!PostBoot
  BY <1>2 DEF D!PostBoot, DP!PostBoot, D!taskVars, DP!taskVars, D!panel,
              DP!panel
<1>7. \A ok, reached : D!Transfer(ok, reached) <=> DP!Transfer(ok, reached)
  BY DEF D!Transfer, DP!Transfer
<1>8. /\ D!InitSpi <=> DP!InitSpi
      /\ D!InitPanel <=> DP!InitPanel
      /\ D!CreateQueue <=> DP!CreateQueue
      /\ D!CreateTask <=> DP!CreateTask
  BY <1>7, Zenon
  DEF D!InitSpi, DP!InitSpi, D!InitPanel, DP!InitPanel, D!CreateQueue,
      DP!CreateQueue, D!CreateTask, DP!CreateTask, D!taskVars, DP!taskVars,
      D!panel, DP!panel
<1>9. D!BringUp <=> DP!BringUp
  BY <1>6, <1>8 DEF D!BringUp, DP!BringUp
<1>10. D!Drawn <=> DP!Drawn
  BY DEF D!Drawn, DP!Drawn
<1>11. /\ D!Receive <=> DP!Receive
       /\ D!Fill <=> DP!Fill
       /\ D!DrawText <=> DP!DrawText
  BY <1>7, <1>10, Zenon
  DEF D!Receive, DP!Receive, D!Fill, DP!Fill, D!DrawText, DP!DrawText,
      D!mainVars, DP!mainVars, D!panel, DP!panel, D!Garbage, DP!Garbage
<1>12. D!DisplayTask <=> DP!DisplayTask
  BY <1>11 DEF D!DisplayTask, DP!DisplayTask
<1> QED BY <1>1, <1>3, <1>4, <1>5, <1>9, <1>12

LEMMA DisplayView ==
  ASSUME [FirmwareNext]_firmwareVars
  PROVE  [DP!Next]_(DP!vars) \/ Reset
<1>1. UNCHANGED displayVars => UNCHANGED DP!vars
  BY DEF displayVars, DP!vars, DP!mainVars, DP!taskVars, DP!panel
<1>2. D!BringUp \/ D!Caller \/ D!DisplayTask => DP!Next
  BY SameDisplay DEF DP!Next
<1>3. D!SetStatus \/ D!SetMessage(FALSE) => D!Caller
  BY DEF D!Caller
<1> QED
  BY <1>1, <1>2, <1>3
  DEF FirmwareNext, MainTask, PhyInit, UsbInit, PresenceCalled,
      PresenceReturned, DisplayInit, BootStatus, BootMessage, PresenceStep,
      DisplayTask, PostStatus, KeyStep, Prompt, firmwareVars

LEMMA ResetDisplay ==
  ASSUME DP!DInv, Reset
  PROVE  DP!DInv'
<1>1. DP!NoState = D!NoState /\ DP!Garbage = D!Garbage
  BY DEF DP!NoState, D!NoState, DP!Garbage, D!Garbage
<1>2. /\ main' = "spi" /\ cmd' = 1 /\ ~s_status_queue' /\ queue' = <<>>
      /\ s_display_state' = DP!NoState /\ state' = DP!NoState
      /\ task' = "none" /\ shown' = 0
      /\ colour' = DP!Garbage /\ text' = DP!Garbage
      /\ UNCHANGED <<panelOn, spiFaults>> /\ s_status_queue' \in BOOLEAN
  BY <1>1 DEF Reset
<1>3. DP!NoState \in DP!Posted /\ DP!NoState.seq = 0
  BY LcdAssumption DEF DP!NoState, DP!Posted
<1>4. queue' \in Seq(DP!Posted) /\ Len(queue') <= 1
  <2>1. queue' = <<>>
    BY <1>2
  <2> QED BY ONLY <2>1
<1>5. DP!DisplayTypeOK'
  <2>1. cmd' \in 1..(InitCommands + 1) /\ shown' \in 0..MaxPosts
        /\ colour' \in 0..DP!Garbage /\ text' \in 0..DP!Garbage
    BY <1>2, LcdAssumption DEF DP!Garbage
  <2>2. panelOn' \in BOOLEAN /\ spiFaults' \in 0..MaxSpiFaults
    BY <1>2 DEF DP!DInv, DP!DisplayTypeOK
  <2> QED
    BY <1>2, <1>3, <1>4, <2>1, <2>2 DEF DP!DisplayTypeOK, DP!Posted, DP!Garbage
<1>6. DP!Stages'
  BY <1>2, <1>3, LcdAssumption DEF DP!Stages
<1>7. DP!Ages' /\ DP!NoStaleMessage'
  BY <1>2, <1>3, LcdAssumption DEF DP!Ages, DP!NoStaleMessage, DP!Garbage
<1> QED BY <1>5, <1>6, <1>7 DEF DP!DInv

(***************************************************************************)
(* The steps of the boot.                                                  *)
(***************************************************************************)
\* A step of a call into user presence leaves the call as it is or ends it.
LEMMA CallGoesOn ==
  ASSUME Firmware, ~Boot
  PROVE  /\ call' = "none" \/ UNCHANGED <<call, timeout>>
         /\ ppc = "off" => ppc' = "off"
<1>1. CASE InitEarly \/ InitPeripherals \/ KeypadReady
  BY <1>1 DEF InitEarly, InitPeripherals, KeypadReady, InitReturns, Answer,
              Leave, callVars
<1>2. CASE SampleA \/ SampleB
  BY <1>2 DEF SampleA, SampleB, InitReturns, Answer, Leave, callVars
<1>3. CASE PollKeypad \/ KeypadPolled
  BY <1>3 DEF PollKeypad, KeypadPolled, PollReturns, Answer, Leave, callVars
<1>4. CASE PollButtonA \/ PollButtonB
  BY <1>4 DEF PollButtonA, PollButtonB, RisingEdge, PollReturns, Answer, Leave,
              callVars
<1>5. CASE Delay
  BY <1>5 DEF Delay, Answer, Leave, callVars
<1>6. CASE KeypadStep
  BY <1>6 DEF KeypadStep, presenceVars, callVars
<1> QED
  BY <1>1, <1>2, <1>3, <1>4, <1>5, <1>6 DEF Firmware

LEMMA BootStep ==
  ASSUME PInv, BootInv, FirmwareNext
  PROVE  BootInv'
<1> USE DEF BootInv
<1>1. ppc \in {"off", "idle"} => call = "none"
  BY DEF PInv, Calling
<1>2. UNCHANGED vars => UNCHANGED <<ppc, call, timeout>>
  BY DEF vars, presenceVars, callVars
<1>3. UNCHANGED <<ppc, call, timeout>> /\ call = "none" =>
        call' = "none" /\ ppc' = ppc
  OBVIOUS
<1>4. CASE PhyInit
  <2>1. PICK p \in Stored : provisioned' = p /\ phy_data' = WithDefaults(p)
    BY <1>4 DEF PhyInit
  <2>2. /\ boot = "phy" /\ boot' = "usb" /\ descriptor' = descriptor
        /\ UNCHANGED <<ppc, call, timeout>>
    BY <1>2, <1>4 DEF PhyInit, phy
  <2> QED BY <1>1, <2>1, <2>2 DEF PhyHeld, CallMade, BootCalls
<1>5. CASE UsbInit
  <2>1. /\ boot = "usb" /\ boot' = "presence"
        /\ descriptor' = phy_data.usb_product
        /\ UNCHANGED <<phy_data, provisioned, ppc, call, timeout>>
    BY <1>2, <1>5 DEF UsbInit
  <2> QED BY <1>1, <2>1 DEF PhyHeld, CallMade, BootCalls
<1>6. CASE PresenceCalled
  <2>1. boot = "presence" /\ call' = "boot" /\ UNCHANGED <<boot, phy>>
    BY <1>6 DEF PresenceCalled, Boot
  <2> QED BY <2>1 DEF PhyHeld, CallMade, phy
<1>7. CASE PresenceReturned \/ DisplayInit \/ BootStatus \/ BootMessage
  <2>1. /\ boot \in {"presence", "display", "status", "message"}
        /\ boot' \in {"display", "status", "message", "run"}
        /\ UNCHANGED <<phy, ppc, call, timeout>>
    BY <1>2, <1>7
    DEF PresenceReturned, DisplayInit, BootStatus, BootMessage
  <2>2. call = "none"
    BY <1>1, <1>7
    DEF PresenceReturned, DisplayInit, BootStatus, BootMessage, CallMade
  <2> QED BY <2>1, <2>2 DEF PhyHeld, CallMade, BootCalls, phy
<1>8. CASE PresenceStep
  BY <1>8, CallGoesOn DEF PresenceStep, PhyHeld, CallMade, phy
<1>9. CASE Prompt
  <2>1. /\ boot = "run" /\ call' = "wait" /\ timeout' = phy_data.up_btn
        /\ UNCHANGED <<boot, phy>>
    BY <1>9 DEF Prompt, Ask
  <2> QED BY <2>1 DEF PhyHeld, CallMade, phy
<1>10. CASE PostStatus \/ DisplayTask \/ KeyStep
  <2>1. UNCHANGED <<boot, phy, ppc, call, timeout>>
    BY <1>2, <1>10
    DEF PostStatus, DisplayTask, KeyStep, UserStep, PressKey, ReleaseKey,
        PressButton, ReleaseButton, presenceVars, callVars
  <2> QED BY <2>1 DEF PhyHeld, CallMade, phy
<1>11. CASE Reset
  BY <1>11, NothingStored DEF Reset, Restart, PhyHeld, CallMade, BootCalls
<1> QED
  BY <1>4, <1>5, <1>6, <1>7, <1>8, <1>9, <1>10, <1>11
  DEF FirmwareNext, MainTask

LEMMA FirmwareInvInit == FirmwareInit => FirmwareInv
<1> SUFFICES ASSUME FirmwareInit PROVE FirmwareInv
  OBVIOUS
<1>1. PInv
  BY PInvInit DEF FirmwareInit
<1>2. DP!DInv
  BY SameDisplay, DP!DInvInit, LcdAssumption DEF FirmwareInit
<1>3. BootInv
  BY NothingStored
  DEF FirmwareInit, Init, BootInv, PhyHeld, CallMade, BootCalls
<1> QED BY <1>1, <1>2, <1>3 DEF FirmwareInv

LEMMA FirmwareInvNext ==
  FirmwareInv /\ [FirmwareNext]_firmwareVars => FirmwareInv'
<1> SUFFICES ASSUME FirmwareInv, [FirmwareNext]_firmwareVars
             PROVE  FirmwareInv'
  OBVIOUS
<1>1. PInv'
  BY PresenceView, PInvNext DEF FirmwareInv
<1>2. DP!DInv'
  BY DisplayView, ResetDisplay, DP!DisplayStep, LcdAssumption
  DEF FirmwareInv
<1>3. BootInv'
  <2>1. CASE FirmwareNext
    BY <2>1, BootStep DEF FirmwareInv
  <2>2. CASE UNCHANGED firmwareVars
    <3>1. UNCHANGED <<boot, phy, ppc, call, timeout>>
      BY <2>2 DEF firmwareVars, vars, presenceVars, callVars
    <3> QED BY <3>1 DEF FirmwareInv, BootInv, PhyHeld, CallMade, phy
  <2> QED BY <2>1, <2>2
<1> QED BY <1>1, <1>2, <1>3 DEF FirmwareInv

\* Whatever fails and however often the chip restarts, user presence, the
\* display and the boot are in the states their own invariants describe.
THEOREM FirmwareInvariant == FirmwareSafety => []FirmwareInv
BY FirmwareInvInit, FirmwareInvNext, PTL DEF FirmwareSafety

\* Every variable of the firmware has its type.
THEOREM FirmwareTypeCorrect == FirmwareSafety => []FirmwareTypeOK
<1>1. FirmwareInv => FirmwareTypeOK
  <2> SUFFICES ASSUME FirmwareInv PROVE FirmwareTypeOK
    OBVIOUS
  <2>1. TypeOK
    BY DEF FirmwareInv, PInv, IInv, TypeOK
  <2>2. D!DisplayTypeOK
    BY DEF FirmwareInv, DP!DInv, DP!DisplayTypeOK, D!DisplayTypeOK,
           DP!Garbage, D!Garbage
  <2>3. PhyHeld
    BY DEF FirmwareInv, BootInv
  <2>4. phy_data \in Stored \cup {WithDefaults(p) : p \in Stored}
    BY <2>3, NothingStored DEF PhyHeld
  <2>5. descriptor \in {"none", "board", "provisioned"}
    BY <2>3, StoredFacts DEF PhyHeld
  <2> QED BY <2>1, <2>2, <2>3, <2>4, <2>5 DEF FirmwareTypeOK, PhyHeld
<1> QED BY <1>1, FirmwareInvariant, PTL

\* What is provisioned wins, field by field, and the defaults of the board
\* are in place where nothing is: in the descriptor before the host reads it,
\* in the timeout of every wait.
THEOREM FirmwareProvisioning == FirmwareSafety => []ProvisioningRespected
<1>1. FirmwareInv => ProvisioningRespected
  <2> SUFFICES ASSUME FirmwareInv PROVE ProvisioningRespected
    OBVIOUS
  <2>1. PhyHeld /\ CallMade
    BY DEF FirmwareInv, BootInv
  <2>2. boot \notin {"phy", "usb"} =>
          descriptor = IF provisioned.usb_product_present
                       THEN provisioned.usb_product ELSE "board"
    BY <2>1, StoredFacts DEF PhyHeld
  <2>3. call = "wait" =>
          timeout = IF provisioned.up_btn_present
                    THEN provisioned.up_btn ELSE DefaultTimeout
    BY <2>1, StoredFacts DEF PhyHeld, CallMade
  <2> QED BY <2>2, <2>3 DEF ProvisioningRespected
<1> QED BY <1>1, FirmwareInvariant, PTL

\* The firmware uses user presence as module Presence lets it be used: each
\* of its steps is one of Presence, or none.  What is proved of Presence
\* therefore holds of the firmware.
THEOREM FirmwareUsesPresence == FirmwareSafety => Safety
<1>1. FirmwareInit => Init
  BY DEF FirmwareInit
<1>2. FirmwareInv /\ [FirmwareNext]_firmwareVars => [Next]_vars
  BY PresenceView DEF FirmwareInv
<1> QED
  BY <1>1, <1>2, FirmwareInvariant, PTL DEF FirmwareSafety, Safety

\* The promise of the user-presence API, kept by the whole firmware: on the
\* keyboard whatever fails, on the buttons as long as no call fails.
THEOREM FirmwareContract ==
  Keyboard \/ MaxFaults = 0 => (FirmwareSafety => Contract)
<1>1. CASE Keyboard
  BY <1>1, KeyboardContract, FirmwareUsesPresence
<1>2. CASE ~Keyboard /\ MaxFaults = 0
  BY <1>2, BoardKinds, ButtonsContract, FirmwareUsesPresence
<1> QED BY <1>1, <1>2

\* So are the reasons of a refusal, ...
THEOREM FirmwareRefusalJustified == FirmwareSafety => RefusalJustified
BY FirmwareUsesPresence, PresenceRefusalJustified

\* ... the hardware behind an initialisation that reported success, ...
THEOREM FirmwareReady == FirmwareSafety => []InitializedMeansReady
BY FirmwareUsesPresence, PresenceReady

\* ... and every press the keypad has registered.
THEOREM FirmwareNoPressSwallowed == FirmwareSafety => NoPressSwallowed
BY FirmwareUsesPresence, PresenceNoPressSwallowed

\* The display's promises hold through resets as well: one user of the SPI
\* device at a time, a task exactly when there is a queue, and no message on
\* the colour of a later status.
THEOREM FirmwareDisplay ==
  FirmwareSafety => [](D!OneSpiUser /\ D!NoStaleMessage)
<1>1. FirmwareInv => D!OneSpiUser /\ D!NoStaleMessage
  BY DEF FirmwareInv, DP!DInv, DP!Stages, D!OneSpiUser, DP!NoStaleMessage,
         D!NoStaleMessage, DP!Garbage, D!Garbage
<1> QED BY <1>1, FirmwareInvariant, PTL
=============================================================================
