--------------------------- MODULE MCTemperature ----------------------------
(***************************************************************************)
(* The two modules of the temperature sensor, checked in one run: the      *)
(* reading of each boot, and the transfer of a scratchpad.  They share no  *)
(* variable: the initial state picks the one that moves.                   *)
(***************************************************************************)
EXTENDS Ds18b20, OneWireCrc

ASSUME TemperatureAssumption == WordsAssumption

VARIABLE part

TemperatureInit ==
  /\ part \in {"reading", "transfer"}
  /\ Init /\ CrcInit
  /\ part = "transfer" => bus = "up"
  /\ part = "reading" => data = Data(0)

ReadingPart == part = "reading" /\ Next /\ UNCHANGED <<part, crc_vars>>
TransferPart == part = "transfer" /\ CrcNext /\ UNCHANGED <<part, vars>>
TemperatureNext == ReadingPart \/ TransferPart
TemperatureSpec == TemperatureInit /\ [][TemperatureNext]_<<part, vars, crc_vars>>
=============================================================================
