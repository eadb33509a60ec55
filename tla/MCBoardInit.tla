---------------------------- MODULE MCBoardInit ----------------------------
(* Bring-up of a board over a PM1 whose two outputs are in any state that  *)
(* another firmware, or an earlier run of this one, may have left: with or *)
(* without an alternate function, of either level and direction.           *)
EXTENDS BoardInit

MCPins == {2, 3}
SetAtPowerUp == SUBSET {2, 3}
MCPowerOnRegs ==
  { [ FUNC0 |-> UNION {FuncMask(g) : g \in function}, FUNC1 |-> {},
      OUT |-> high, MODE |-> output ] :
    function \in SetAtPowerUp, high \in SetAtPowerUp, output \in SetAtPowerUp }
=============================================================================
