---------------------------- MODULE LatestValue ----------------------------
(***************************************************************************)
(* What the status display promises: it shows the posted states in their   *)
(* order, skipping some, and always gets to the latest one.  States are    *)
(* numbered in the order in which they are posted; 0 is no state.          *)
(***************************************************************************)
EXTENDS Naturals

VARIABLES posted, shown

Init == posted = 0 /\ shown = 0

Post == posted' = posted + 1 /\ UNCHANGED shown

Show ==
  /\ shown < posted
  /\ shown' \in (shown + 1)..posted
  /\ UNCHANGED posted

Next == Post \/ Show

Safety == Init /\ [][Next]_<<posted, shown>>
GetsToLatest == WF_<<posted, shown>>(Show)
Spec == Safety /\ GetsToLatest
=============================================================================
