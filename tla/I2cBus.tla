------------------------------- MODULE I2cBus -------------------------------
(***************************************************************************)
(* Calls that can fail (external): I2C transfers and the ESP-IDF functions *)
(* the drivers wrap in ESP_RETURN_ON_ERROR.                                *)
(*                                                                         *)
(* A failing transfer may still have reached the device: it is the         *)
(* acknowledgement or the data phase that went wrong.                      *)
(***************************************************************************)
EXTENDS Naturals

CONSTANT MaxFaults   (* Bound of the checks: calls that may fail.          *)

ASSUME FaultsAssumption == MaxFaults \in Nat

VARIABLE faults      (* Failures left.                                     *)

Transfer(ok, reached) ==
  IF ok THEN reached /\ UNCHANGED faults
        ELSE faults > 0 /\ faults' = faults - 1
=============================================================================
