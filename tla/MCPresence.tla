---------------------------- MODULE MCPresence ----------------------------
(* Instances of Presence: the StickS3 with its two buttons, and the        *)
(* Cardputer-Adv with two keys, one of them behind KP_GPIO3.               *)
EXTENDS Presence

CONSTANTS k1, k2
CardputerKeys == {k1, k2}
CardputerHighKeys == {k2}
StickKeys == {11, 12}
NoKeys == {}
ForeverOrTwo == {0, 2}
Forever == {0}
=============================================================================
