----------------------------- MODULE OneWireCrc -----------------------------
(***************************************************************************)
(* The transfer of the scratchpad (ds18b20.cpp): 64 bits and their CRC     *)
(* come in least significant bit first, crc8() runs over all nine bytes,   *)
(* and the first two are a temperature in two's complement.  Bits may be   *)
(* turned over on the way: up to three of them, or any number within eight *)
(* bits in a row.  The sensor computes its CRC as the remainder of a       *)
(* division of polynomials, a bit of the quotient with every bit it sends, *)
(* the driver by shifting: neither is defined by the other here.           *)
(***************************************************************************)
EXTENDS Integers, Sequences

CONSTANT Words   \* the temperatures, sixteenths of a degree in two's complement
WordsAssumption == Words \subseteq Nat /\ \A t \in Words : t < 65536

VARIABLES
  data,     \* the 64 bits of the sensor
  dividend, \* the sensor: what is left of them and eight zeros
  pos,      \* bits read
  raw,      \* the first sixteen of them
  crc,      \* the driver's CRC, least significant bit first
  flips,    \* bits turned over, as far as it matters
  since, width \* bits from the first that was to the present and to the last

crc_vars == <<data, dividend, pos, raw, crc, flips, since, width>>

Bit == {0, 1}
Xor(a, b) == IF a = b THEN 0 ELSE 1
Zeros == [i \in 1 .. 8 |-> 0]

\* The i-th bit of a number, from 1 on.
Weight == <<1, 2, 4, 8, 16, 32, 64, 128, 256, 512, 1024, 2048, 4096, 8192, 16384, 32768>>
BitOf(n, i) == (n \div Weight[i]) % 2

-----------------------------------------------------------------------------
(* The sensor.                                                             *)

\* The six bytes behind the temperature: alarms, resolution, reserved.
Settings == <<75, 70, 127, 255, 12, 16>>
Data(t) ==
  [i \in 1 .. 64 |->
     IF i <= 16 THEN BitOf(t % 65536, i)
     ELSE BitOf(Settings[(i - 17) \div 8 + 1], ((i - 17) % 8) + 1)]

\* The generator x^8 + x^5 + x^4 + 1.
Generator == <<1, 0, 0, 1, 1, 0, 0, 0, 1>>
Divide(bits, i) ==
  IF bits[i] = 0 THEN bits
  ELSE [k \in 1 .. 72 |->
          IF k \in i .. i + 8 THEN Xor(bits[k], Generator[k - i + 1]) ELSE bits[k]]

\* The data, and when they are divided the remainder.
OnLine == IF pos < 64 THEN data[pos + 1] ELSE dividend[pos + 1]

-----------------------------------------------------------------------------
(* The driver.                                                             *)

CrcInit ==
  /\ \E t \in Words : data = Data(t)
  /\ dividend = [i \in 1 .. 72 |-> IF i <= 64 THEN data[i] ELSE 0]
  /\ pos = 0 /\ raw = <<>> /\ crc = Zeros
  /\ flips = 0 /\ since = 0 /\ width = 0

\* One bit through crc8().
Feedback == <<0, 0, 1, 1, 0, 0, 0, 1>>  \* 0x8C
Crc8(reg, bit) ==
  [i \in 1 .. 8 |->
     LET shifted == IF i < 8 THEN reg[i + 1] ELSE 0
     IN IF reg[1] = bit THEN shifted ELSE Xor(shifted, Feedback[i])]

\* As much of the faults as is followed: three anywhere, or eight bits in a row.
MayFlip == flips < 3 \/ since < 8

ReadBit ==
  /\ pos < 72
  /\ pos' = pos + 1
  /\ dividend' = IF pos < 64 THEN Divide(dividend, pos + 1) ELSE dividend
  /\ \E flip \in Bit :
       LET bit == Xor(OnLine, flip)
           begun == flips + flip > 0
       IN /\ flip = 1 => MayFlip
          /\ crc' = Crc8(crc, bit)
          /\ raw' = IF pos < 16 THEN Append(raw, bit) ELSE raw
          /\ flips' = IF flips + flip > 4 THEN 4 ELSE flips + flip
          /\ since' = IF begun /\ since < 9 THEN since + 1 ELSE since
          /\ width' = IF flip = 1 THEN since' ELSE width
  /\ UNCHANGED data

CrcNext == ReadBit
CrcSpec == CrcInit /\ [][CrcNext]_crc_vars

\* static_cast<int16_t>().  Mutant: the sign is lost.
Unsigned(bits) ==
  bits[1] + 2 * bits[2] + 4 * bits[3] + 8 * bits[4] + 16 * bits[5] + 32 * bits[6]
    + 64 * bits[7] + 128 * bits[8] + 256 * bits[9] + 512 * bits[10] + 1024 * bits[11]
    + 2048 * bits[12] + 4096 * bits[13] + 8192 * bits[14] + 16384 * bits[15] + 32768 * bits[16]
Celsius_Unsigned == Unsigned(raw)
Celsius == IF raw[16] = 1 THEN Unsigned(raw) - 65536 ELSE Unsigned(raw)
Valid == pos = 72 /\ crc = Zeros

-----------------------------------------------------------------------------
(* Properties.                                                             *)

\* A transfer without a fault is taken, and gives the temperature, below zero too.
FaultlessIsRead ==
  pos = 72 /\ flips = 0 =>
    Valid /\ Celsius >= -32768 /\ Celsius < 32768 /\ data = Data(Celsius)

\* One, two or three bits turned over anywhere in the nine bytes, the CRC itself
\* included, or any within eight bits, never give a valid reading (ds18b20.cpp:144).
FaultIsSeen == flips > 0 /\ (flips <= 3 \/ width <= 8) => ~Valid

\* The CRC takes what is right and refuses what is wrong: a transfer without a fault
\* gives the temperature it carries, below zero too; up to three bits turned over, or
\* any in eight in a row, are seen (ds18b20.cpp:144).
CrcDecides == FaultlessIsRead /\ FaultIsSeen
=============================================================================
