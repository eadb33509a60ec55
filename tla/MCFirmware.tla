---------------------------- MODULE MCFirmware ----------------------------
(* The StickS3: its presence init can fail in more than one place, and it  *)
(* has no FIFO of events to multiply the states with.                      *)
EXTENDS Firmware

StickKeys == {11, 12}
NoKeys == {}
ForeverOrTwo == {0, 2}
=============================================================================
