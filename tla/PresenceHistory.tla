-------------------------- MODULE PresenceHistory --------------------------
(***************************************************************************)
(* Presence with a record of when keys were pressed, to state what the     *)
(* documentation says of a press and a prompt.                             *)
(***************************************************************************)
EXTENDS Presence

VARIABLES
  pressedEver,   (* some key has been pressed since power-up               *)
  pressedSince   (* ... since the latest request was made                  *)

historyVars == <<pressedEver, pressedSince>>

HInit ==
  /\ Init
  /\ pressedEver = FALSE /\ pressedSince = FALSE

Pressed == down' \ down
Opened == request # "open" /\ request' = "open"

Record ==
  /\ pressedEver' = (pressedEver \/ Pressed # {})
  /\ pressedSince' = (~Opened /\ (pressedSince \/ Pressed # {}))

HNext == Next /\ Record

allVars == <<vars, historyVars>>

HSpec == HInit /\ [][HNext]_allVars /\ WF_allVars(Firmware /\ Record)

\* docs/m5stack_esp32s3_validation.md:10, "FIDO registration requires a fresh
\* key press on the TCA8418 keyboard": a confirmed request has seen a press
\* since it was made.
FreshPress == request = "confirmed" => pressedSince

\* README.md:205, "a transition from released to pressed on either KEY1 or
\* KEY2 confirms FIDO user presence": nothing is confirmed before any key was
\* ever pressed.
NothingConfirmsAlone == request = "confirmed" => pressedEver
=============================================================================
