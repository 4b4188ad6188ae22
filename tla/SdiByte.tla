------------------------------ MODULE SdiByte -------------------------------
(***************************************************************************)
(* Bytes on the SDI-12 line as ulp/sdi.c drives and samples it.  Times are *)
(* in ticks of the ULP's clock, as it believes it runs: BitTicks of them   *)
(* make a bit, while the sensor's bit takes sensor_bit of them.  The two   *)
(* differ, for the clock is calibrated when the ULP program is started and *)
(* never again.                                                            *)
(*                                                                         *)
(* A byte is awaited by its start bit alone.  After it sdi_recv_byte()     *)
(* returns when ten bits have passed on its own clock, so a slow ULP comes *)
(* late for the next start bit, and later for the one after: the lag adds  *)
(* up until the sensor pauses.                                             *)
(***************************************************************************)
EXTENDS Naturals, Sequences

CONSTANTS
  BitTicks,    \* g_bit_cycles
  SensorBits,  \* lengths of the sensor's bit
  Chars,       \* the 7-bit characters sent
  Pauses,      \* ticks the line may idle between two bytes
  MaxBytes     \* bound: bytes of a line

ByteAssumption ==
  /\ BitTicks \in Nat /\ BitTicks >= 12
  /\ SensorBits \subseteq Nat \ {0} /\ Chars \subseteq 0 .. 127 /\ Pauses \subseteq Nat
  /\ MaxBytes \in Nat

VARIABLES
  sensor_bit,
  lag,       \* ticks from the sensor's last start edge to where the ULP saw it
  sent, got, \* the last byte of the sensor, and what the ULP made of it
  count,     \* bytes of this line so far
  command, heard \* a byte of the ULP, and what the sensor made of it

vars == <<sensor_bit, lag, sent, got, count, command, heard>>

Faults == {128, 129}  \* beyond any character: no start bit, bad frame
TypeOK ==
  /\ sensor_bit \in SensorBits
  /\ lag \in Nat
  /\ sent \in Chars \cup {0} /\ got \in 0 .. 129
  /\ count \in 0 .. MaxBytes
  /\ command \in Chars \cup {0} /\ heard \in 0 .. 129

Init ==
  /\ sensor_bit \in SensorBits
  /\ lag = 0 /\ sent = 0 /\ got = 0 /\ count = 0
  /\ command = 0 /\ heard = 0

\* The i-th bit of a character, from 0 on, and the character of seven bits.
Weight == <<1, 2, 4, 8, 16, 32, 64>>
BitOf(ch, i) == (ch \div Weight[i + 1]) % 2
CharOf(bits) ==
  bits[1] + 2 * bits[2] + 4 * bits[3] + 8 * bits[4] + 16 * bits[5] + 32 * bits[6] + 64 * bits[7]
Ones(bits) == bits[1] + bits[2] + bits[3] + bits[4] + bits[5] + bits[6] + bits[7]

-----------------------------------------------------------------------------
(* Receiving.                                                              *)

\* The line, ticks after a start edge: start bit, seven data bits, parity,
\* and the mark until the next byte.
Level(ch, tick) ==
  LET slot == tick \div sensor_bit IN
  CASE slot = 0 -> 0
    [] slot \in 1 .. 7 -> BitOf(ch, slot - 1)
    [] slot = 8 -> Ones([i \in 1 .. 7 |-> BitOf(ch, i - 1)]) % 2
    [] OTHER -> 1

\* A data bit is sampled in its middle and a sixth of a bit to either side.
Centre(i) == BitTicks + BitTicks \div 2 + i * BitTicks
SpanTicks == BitTicks \div 6
Samples(i) == <<Centre(i) - SpanTicks, Centre(i), Centre(i) + SpanTicks>>

\* Two of three samples decide.
Majority(ones) == IF ones >= 2 THEN 1 ELSE 0

\* sdi_recv_byte(), begun at(ticks) after the edge, with sample `glitch` of every
\* bit turned over (0: none).
Received(ch, at, glitch) ==
  LET Sample(i, k) == LET level == Level(ch, at + Samples(i)[k])
                      IN IF k = glitch THEN 1 - level ELSE level
      Bit(i) == Majority(Sample(i, 1) + Sample(i, 2) + Sample(i, 3))
  IN IF Level(ch, at + BitTicks \div 4) # 0 THEN 128
     ELSE CharOf([n \in 1 .. 7 |-> Bit(n - 1)])

\* When the call is over.  Mutant: the parity and the stop bit are not awaited.
ByteTicks_Short == 8 * BitTicks
ByteTicks == 10 * BitTicks

\* The next byte of a line that has been read right so far.  The ULP looks for
\* a low line from the end of the last call on: before the edge the last byte
\* must have left it high, after the edge it takes the byte to begin there.
RecvByte ==
  /\ count < MaxBytes
  /\ count > 0 => got = sent
  /\ count' = count + 1
  /\ \E ch \in Chars, pause \in Pauses, glitch \in 0 .. 3 :
       LET over == lag + ByteTicks
           due == 10 * sensor_bit + pause
           late == IF count > 0 /\ over > due THEN over - due ELSE 0
           caught == count > 0 /\ over < due /\ Level(sent, over) = 0
       IN /\ sent' = ch
          /\ lag' = late
          /\ got' = IF caught THEN 128 ELSE Received(ch, late, glitch)
  /\ command' = 0 /\ heard' = 0
  /\ UNCHANGED sensor_bit

-----------------------------------------------------------------------------
(* Sending.                                                                *)

\* What sdi_send_byte() drives.
Driven(ch) ==
  LET bits == [i \in 1 .. 7 |-> 1 - BitOf(ch, i - 1)]
  IN [i \in 1 .. 10 |-> CASE i = 1 -> 1
                         [] i \in 2 .. 8 -> bits[i - 1]
                         [] i = 9 -> Ones(bits) % 2
                         [] i = 10 -> 0]

\* The sensor: the line is the other way round, the parity of the seven bits
\* and the parity bit is even.
Heard(levels) ==
  LET line == [i \in 1 .. 10 |-> 1 - levels[i]]
      bits == [i \in 1 .. 7 |-> line[i + 1]]
  IN IF line[1] = 0 /\ line[10] = 1 /\ (Ones(bits) + line[9]) % 2 = 0
     THEN CharOf(bits) ELSE 129

SendByte ==
  /\ count = 0
  /\ \E ch \in Chars : command' = ch /\ heard' = Heard(Driven(ch))
  /\ UNCHANGED <<sensor_bit, lag, sent, got, count>>

Next == RecvByte \/ SendByte
Spec == Init /\ [][Next]_vars

-----------------------------------------------------------------------------
(* Properties.                                                             *)

\* A ULP that is not slower than the sensor, by up to a twenty-fourth part,
\* reads every byte of a line of any length, with one bad sample in every bit:
\* it is on the safe side that ULP_CLOCK_SCALE puts it (ulp_sdi_wind.cpp:22).
LineSurvives ==
  sensor_bit \in BitTicks .. BitTicks + BitTicks \div 24 => got = sent

\* A ULP that is slower loses ten times the difference per byte, and reads the
\* bytes right until the lag has used up a third of a bit (sdi.c:144).
LagBefore(n) == 10 * (n - 1) * (BitTicks - sensor_bit)
FirstBytesSurvive ==
  /\ sensor_bit < BitTicks /\ count > 0
  /\ LagBefore(count) + 8 * (BitTicks - sensor_bit) < BitTicks \div 3
  => got = sent

\* The sensor hears every byte as it was sent: the levels are inverted all
\* through, the parity bit included (sdi.c:63).
HeardIsSent == heard = command

\* Bytes survive the line in both directions, as far as the clocks allow.
BytesSurvive == LineSurvives /\ FirstBytesSurvive /\ HeardIsSent
=============================================================================
