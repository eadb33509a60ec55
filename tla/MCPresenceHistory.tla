------------------------- MODULE MCPresenceHistory -------------------------
(* Small instances of PresenceHistory for what the documentation says.     *)
EXTENDS PresenceHistory

CONSTANTS k1, k2
CardputerKeys == {k1, k2}
StickKeys == {11, 12}
NoKeys == {}
Forever == {0}
=============================================================================
