------------------------------ MODULE Firmware ------------------------------
(***************************************************************************)
(* The parts put together: from reset through phy_init() and usb_init() to *)
(* picokey_init(), which brings up user presence (module Presence) and the *)
(* display (an instance D of module Display), and on to the waits for the  *)
(* user.  Presence is extended: its task is the main task.                 *)
(*                                                                         *)
(* All of this runs in one task, the main task; the display task is the    *)
(* other.  The two I2C and SPI buses fail independently of one another.    *)
(* The order in which the SDK calls the hooks, and what it does with       *)
(* phy_data, are external: only their use in this repository is known.     *)
(***************************************************************************)
EXTENDS Presence

CONSTANTS
  InitCommands, MaxPosts, MaxSpiFaults,  (* Of Display.                    *)
  DefaultTimeout  (* The tick at which 15 seconds are over.                *)

ASSUME DefaultTimeoutAssumption == DefaultTimeout \in Timeouts \ {0}
ASSUME LcdAssumption ==
  InitCommands \in Nat \ {0} /\ MaxPosts \in Nat /\ MaxSpiFaults \in Nat

VARIABLES
  main, cmd, panelOn, s_status_queue, queue, s_display_state, task, state,
  colour, text, shown, spiFaults,                             (* Display   *)
  boot,         (* The call the main task is to make next; "run" at last.  *)
  phy_data,     (* The SDK's PHY data.                                     *)
  provisioned,  (* History: phy_data as the SDK read it from flash.        *)
  descriptor    (* The product string the host has been told.              *)

D == INSTANCE Display WITH MaxFaults <- MaxSpiFaults, faults <- spiFaults

phy == <<phy_data, provisioned, descriptor>>
displayVars ==
  <<main, cmd, panelOn, s_status_queue, queue, s_display_state, task, state,
    colour, text, shown, spiFaults>>
firmwareVars == <<vars, displayVars, boot, phy>>

BootCalls == {"phy", "usb", "presence", "display", "status", "message", "run"}

(***************************************************************************)
(* phy_init                                                                *)
(***************************************************************************)

\* The static phy_data, before flash is read or if it says nothing.
NoPhy == [up_btn |-> 0, up_btn_present |-> FALSE,
          usb_product |-> "none", usb_product_present |-> FALSE]

\* External: what pico_fido2_sdk_phy_init() may leave.  Either field may be
\* provisioned or not; on an error it leaves fields unset.
Stored ==
  { p \in [up_btn : Timeouts \cup {0}, up_btn_present : BOOLEAN,
           usb_product : {"none", "provisioned"},
           usb_product_present : BOOLEAN] :
      /\ IF p.up_btn_present THEN p.up_btn \in Timeouts ELSE p.up_btn = 0
      /\ p.usb_product_present <=> p.usb_product # "none" }

\* Mutation: the wrapper fills in the defaults whatever was provisioned.
DefaultsForced(p) ==
  [p EXCEPT !.up_btn = DefaultTimeout, !.up_btn_present = TRUE,
            !.usb_product = "board", !.usb_product_present = TRUE]

\* Mutation: the defaults are filled in only if nothing was provisioned.
DefaultsAllOrNothing(p) ==
  IF p = NoPhy
  THEN [p EXCEPT !.up_btn = DefaultTimeout, !.up_btn_present = TRUE,
                 !.usb_product = "board", !.usb_product_present = TRUE]
  ELSE p

\* The wrapper's two independent defaults.
WithDefaults(p) ==
  [ up_btn |-> IF p.up_btn_present THEN p.up_btn ELSE DefaultTimeout,
    up_btn_present |-> TRUE,
    usb_product |-> IF p.usb_product_present THEN p.usb_product ELSE "board",
    usb_product_present |-> TRUE ]

PhyInit ==
  /\ boot = "phy"
  /\ \E p \in Stored : provisioned' = p /\ phy_data' = WithDefaults(p)
  /\ boot' = "usb"
  /\ UNCHANGED <<vars, displayVars, descriptor>>

\* External: usb_init() builds the descriptors the host enumerates.
UsbInit ==
  /\ boot = "usb"
  /\ descriptor' = phy_data.usb_product
  /\ boot' = "presence"
  /\ UNCHANGED <<vars, displayVars, phy_data, provisioned>>

(***************************************************************************)
(* picokey_init                                                            *)
(***************************************************************************)

PresenceCalled ==
  /\ boot = "presence" /\ Boot
  /\ UNCHANGED <<displayVars, boot, phy>>

\* Mutation: a failed presence init ends picokey_init().
PresenceReturnedStrictly ==
  /\ boot = "presence" /\ ppc = "idle"
  /\ boot' = IF s_presence_initialized THEN "display" ELSE "run"
  /\ UNCHANGED <<vars, displayVars, phy>>

\* The result of pico_fido2_presence_init() is ignored, ...
PresenceReturned ==
  /\ boot = "presence" /\ ppc = "idle"
  /\ boot' = "display"
  /\ UNCHANGED <<vars, displayVars, phy>>

\* Mutation: picokey_init() does not go on without a display.
DisplayInitInsisted ==
  /\ boot = "display" /\ D!BringUp
  /\ boot' = IF main' = "ready" /\ s_status_queue' THEN "status" ELSE "display"
  /\ UNCHANGED <<vars, phy>>

\* ... and so is that of pf2_display_init().
DisplayInit ==
  /\ boot = "display" /\ D!BringUp
  /\ boot' = IF main' = "ready" THEN "status" ELSE "display"
  /\ UNCHANGED <<vars, phy>>

BootStatus ==
  /\ boot = "status" /\ D!SetStatus
  /\ boot' = "message"
  /\ UNCHANGED <<vars, phy>>

BootMessage ==
  /\ boot = "message" /\ D!SetMessage(FALSE)
  /\ boot' = "run"
  /\ UNCHANGED <<vars, phy>>

(***************************************************************************)
(* After boot.                                                             *)
(***************************************************************************)

PresenceStep ==
  /\ Firmware /\ ~Boot
  /\ UNCHANGED <<displayVars, boot, phy>>

\* External: the SDK's button hook waits for the user as long as phy_data
\* says, and may post to the display before and after.
Prompt ==
  /\ boot = "run" /\ Ask("wait", phy_data.up_btn)
  /\ UNCHANGED <<displayVars, boot, phy>>

PostStatus ==
  /\ boot = "run" /\ ppc = "idle" /\ D!Caller
  /\ UNCHANGED <<vars, boot, phy>>

DisplayTask == D!DisplayTask /\ UNCHANGED <<vars, boot, phy>>

KeyStep ==
  /\ \E k \in Keys : UserStep(k)
  /\ UNCHANGED <<displayVars, boot, phy>>

\* The ESP32-S3 restarts, at any point once picokey_init() has begun.  The
\* picture stays on the panel, but it is no state of this boot.
Reset ==
  /\ Restart
  /\ boot' = "phy"
  /\ phy_data' = NoPhy /\ provisioned' = NoPhy /\ descriptor' = "none"
  /\ main' = "spi" /\ cmd' = 1
  /\ s_status_queue' = FALSE /\ queue' = <<>> /\ s_display_state' = D!NoState
  /\ task' = "none" /\ state' = D!NoState
  /\ colour' = D!Garbage /\ text' = D!Garbage /\ shown' = 0
  /\ UNCHANGED <<panelOn, spiFaults>>

(***************************************************************************)
(* The specification.                                                      *)
(***************************************************************************)
FirmwareInit ==
  /\ Init /\ D!Init
  /\ boot = "phy"
  /\ phy_data = NoPhy /\ provisioned = NoPhy /\ descriptor = "none"

MainTask ==
  \/ PhyInit \/ UsbInit \/ PresenceCalled \/ PresenceReturned \/ DisplayInit
  \/ BootStatus \/ BootMessage \/ PresenceStep

FirmwareNext ==
  MainTask \/ DisplayTask \/ Prompt \/ PostStatus \/ Reset \/ KeyStep

FirmwareSafety == FirmwareInit /\ [][FirmwareNext]_firmwareVars

\* Only the main task is promised to run: the display task has the lowest
\* priority there is above the idle task, and may never get the processor.
FirmwareSpec == FirmwareSafety /\ WF_firmwareVars(MainTask)

-----------------------------------------------------------------------------
FirmwareTypeOK ==
  /\ TypeOK /\ D!DisplayTypeOK
  /\ boot \in BootCalls
  /\ phy_data \in Stored \cup {WithDefaults(p) : p \in Stored}
  /\ provisioned \in Stored
  /\ descriptor \in {"none", "board", "provisioned"}

\* docs/m5stack_esp32s3_validation.md:9 and README.md:202: what was
\* provisioned wins, each field on its own, and where nothing was the board's
\* product string is in place before the host reads it and the 15 seconds
\* before the first wait.
ProvisioningRespected ==
  /\ boot \notin {"phy", "usb"} =>
       descriptor = IF provisioned.usb_product_present
                    THEN provisioned.usb_product ELSE "board"
  /\ call = "wait" =>
       timeout = IF provisioned.up_btn_present
                 THEN provisioned.up_btn ELSE DefaultTimeout

\* The main task gets to its loop, and a wait of a device without a
\* provisioned timeout ends, even if the presence init or the bring-up of the
\* LCD fails, at any of their transfers, and the display task never runs:
\* neither outcome is insisted on, and no post waits for the LCD.
BootCompletes == boot = "phy" ~> boot = "run"

DefaultWaitEnds ==
  (call = "wait" /\ ~provisioned.up_btn_present) ~> call = "none"

\* If the display task runs as well, and unless an SPI transfer has failed,
\* the latest state posted gets to the panel, at first one of the boot's own,
\* whatever becomes of the I2C bus and the presence init.
LatestOnPanel == shown = s_display_state.seq /\ shown > 0

BootPictureShown ==
  WF_firmwareVars(DisplayTask) =>
    (boot = "presence" ~>
       boot = "phy" \/ LatestOnPanel \/ spiFaults < MaxSpiFaults)
=============================================================================
