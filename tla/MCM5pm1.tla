------------------------------ MODULE MCM5pm1 ------------------------------
(* Three pins of the chip, one of them with its function in FUNC1, and a   *)
(* number the driver must refuse.  At power-up each of the pins has its    *)
(* alternate function, its level and its direction set or not.             *)
EXTENDS M5pm1

MCPins == {2, 3, 4, 5}

SetAtPowerUp == SUBSET (2..4)
MCPowerOnRegs ==
  { [ FUNC0 |-> UNION {FuncMask(g) : g \in function \ {4}},
      FUNC1 |-> IF 4 \in function THEN {1} ELSE {},
      OUT |-> high, MODE |-> output ] :
    function \in SetAtPowerUp, high \in SetAtPowerUp, output \in SetAtPowerUp }
=============================================================================
