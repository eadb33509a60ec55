---------------------------- MODULE UserPresence ----------------------------
(***************************************************************************)
(* What the user-presence API of pico_fido2_presence.h promises, whatever  *)
(* the board: a request is confirmed only against a key press that has not *)
(* been spent yet, and it spends exactly one.                              *)
(*                                                                         *)
(* "credit" is the number of presses the firmware holds and may still turn *)
(* into a confirmation.  A press may be worth nothing (a second button     *)
(* while one is held, a full FIFO), and credit may be lost, but none comes *)
(* from anywhere except a press.                                           *)
(***************************************************************************)
EXTENDS Naturals

CONSTANT Keys

VARIABLES
  down,     (* keys the hardware reports as held                           *)
  credit,   (* presses not yet spent                                       *)
  request   (* "none", "open", "confirmed" or "refused"                    *)

upVars == <<down, credit, request>>

Init == down = {} /\ credit = 0 /\ request = "none"

Press(k) ==
  /\ k \notin down
  /\ down' = down \cup {k}
  /\ credit' \in {credit, credit + 1}
  /\ UNCHANGED request

Release(k) ==
  /\ k \in down
  /\ down' = down \ {k}
  /\ credit' \in 0..credit
  /\ UNCHANGED request

Ask ==
  /\ request # "open" /\ request' = "open"
  /\ UNCHANGED <<down, credit>>

Confirm ==
  /\ request = "open" /\ credit > 0
  /\ request' = "confirmed" /\ credit' = credit - 1
  /\ UNCHANGED down

Refuse ==
  /\ request = "open" /\ request' = "refused"
  /\ credit' \in 0..credit
  /\ UNCHANGED down

\* Presses can be lost, and with a restart the request as well.
Forget ==
  /\ credit' \in 0..credit
  /\ request' \in {request, "none"}
  /\ UNCHANGED down

Next ==
  \/ \E k \in Keys : Press(k) \/ Release(k)
  \/ Ask \/ Confirm \/ Refuse \/ Forget

Spec == Init /\ [][Next]_upVars
=============================================================================
