--------------------------- MODULE SdiByteProofs ----------------------------
(***************************************************************************)
(* Proofs about SdiByte, for every length of a bit of twelve ticks and     *)
(* more, every sensor and every line: how far the clocks may be apart, and *)
(* that a character survives the way there and back.                       *)
(***************************************************************************)
EXTENDS SdiByte, Integers, TLAPS

USE DEF vars

-----------------------------------------------------------------------------
(* Characters and bits.                                                    *)

\* The seven bits of a character.
LEMMA BitsAre ==
  ASSUME NEW ch \in 0 .. 127
  PROVE  /\ BitOf(ch, 0) = ch % 2
         /\ BitOf(ch, 1) = (ch \div 2) % 2
         /\ BitOf(ch, 2) = (ch \div 4) % 2
         /\ BitOf(ch, 3) = (ch \div 8) % 2
         /\ BitOf(ch, 4) = (ch \div 16) % 2
         /\ BitOf(ch, 5) = (ch \div 32) % 2
         /\ BitOf(ch, 6) = (ch \div 64) % 2
BY DEF BitOf, Weight

LEMMA BitIsBit ==
  ASSUME NEW ch \in 0 .. 127, NEW i \in 0 .. 6
  PROVE  BitOf(ch, i) \in {0, 1}
<1>1. Weight[i + 1] \in Nat \ {0}
  BY DEF Weight
<1>2. ch \div Weight[i + 1] \in Nat
  BY <1>1
<1>3. QED
  BY <1>2 DEF BitOf

\* A character is the sum of its bits.
LEMMA CharIsSum ==
  ASSUME NEW ch \in 0 .. 127
  PROVE  ch = BitOf(ch, 0) + 2 * BitOf(ch, 1) + 4 * BitOf(ch, 2) + 8 * BitOf(ch, 3)
                + 16 * BitOf(ch, 4) + 32 * BitOf(ch, 5) + 64 * BitOf(ch, 6)
BY BitsAre

\* Whatever bits come out right make up the character.
LEMMA CharIsRead ==
  ASSUME NEW ch \in 0 .. 127, NEW bits,
         \A i \in 0 .. 6 : bits[i + 1] = BitOf(ch, i)
  PROVE  CharOf(bits) = ch
<1>1. /\ bits[1] = BitOf(ch, 0) /\ bits[2] = BitOf(ch, 1) /\ bits[3] = BitOf(ch, 2)
      /\ bits[4] = BitOf(ch, 3) /\ bits[5] = BitOf(ch, 4) /\ bits[6] = BitOf(ch, 5)
      /\ bits[7] = BitOf(ch, 6)
  OBVIOUS
<1>2. QED
  BY <1>1, CharIsSum DEF CharOf

-----------------------------------------------------------------------------
(* The line in time.                                                       *)

\* Which bit of the sensor a tick falls into.
LEMMA SlotOf ==
  ASSUME NEW s \in Nat \ {0}, NEW k \in Nat, NEW tick \in Nat,
         k * s <= tick, tick < (k + 1) * s
  PROVE  tick \div s = k
<1>1. tick \div s \in Nat /\ tick = s * (tick \div s) + (tick % s) /\ tick % s \in 0 .. s - 1
  OBVIOUS
<1>2. CASE tick \div s >= k + 1
  <2>1. s * (tick \div s) >= s * (k + 1)
    BY <1>1, <1>2
  <2>2. QED
    BY <1>1, <2>1
<1>3. CASE tick \div s <= k - 1
  <2>1. s * (tick \div s) <= s * (k - 1)
    BY <1>1, <1>3
  <2>2. s * (k - 1) = k * s - s
    OBVIOUS
  <2>3. QED
    BY <1>1, <2>1, <2>2
<1>4. QED
  BY <1>1, <1>2, <1>3

\* Behind the parity the line is high.
LEMMA MarkIsHigh ==
  ASSUME NEW ch, NEW tick \in Nat, sensor_bit \in Nat \ {0}, 9 * sensor_bit <= tick
  PROVE  Level(ch, tick) = 1
<1> DEFINE slot == tick \div sensor_bit
<1>1. slot \in Nat /\ tick = sensor_bit * slot + (tick % sensor_bit)
      /\ tick % sensor_bit \in 0 .. sensor_bit - 1
  OBVIOUS
<1>2. slot >= 9
  <2>1. SUFFICES ASSUME slot <= 8 PROVE FALSE
    BY <1>1
  <2>2. sensor_bit * slot <= sensor_bit * 8
    BY <1>1, <2>1
  <2>3. QED
    BY <1>1, <2>2
<1>3. slot # 0 /\ slot \notin 1 .. 7 /\ slot # 8
  BY <1>1, <1>2
<1>4. QED
  BY <1>3 DEF Level

\* A tick within a data bit shows it, one within the start bit is low.
LEMMA LevelIsBit ==
  ASSUME NEW ch, NEW tick \in Nat, NEW i \in 0 .. 6, sensor_bit \in Nat \ {0},
         (i + 1) * sensor_bit <= tick, tick < (i + 2) * sensor_bit
  PROVE  Level(ch, tick) = BitOf(ch, i)
<1>1. tick \div sensor_bit = i + 1
  BY SlotOf
<1>2. i + 1 # 0 /\ i + 1 \in 1 .. 7 /\ (i + 1) - 1 = i
  OBVIOUS
<1>3. QED
  BY <1>1, <1>2 DEF Level

LEMMA StartIsLow ==
  ASSUME NEW ch, NEW tick \in Nat, sensor_bit \in Nat \ {0}, tick < sensor_bit
  PROVE  Level(ch, tick) = 0
<1>1. tick \div sensor_bit = 0
  BY SlotOf
<1>2. QED
  BY <1>1 DEF Level

\* Two good samples of three are enough.
LEMMA GlitchIsOutvoted ==
  ASSUME NEW b \in {0, 1}, NEW glitch \in 0 .. 3
  PROVE  Majority((IF 1 = glitch THEN 1 - b ELSE b) + (IF 2 = glitch THEN 1 - b ELSE b)
                    + (IF 3 = glitch THEN 1 - b ELSE b)) = b
BY DEF Majority

\* Samples that fall into their bits give the character.
OnTime(at) ==
  /\ at + BitTicks \div 4 < sensor_bit
  /\ \A i \in 0 .. 6 : /\ (i + 1) * sensor_bit <= at + (Centre(i) - SpanTicks)
                       /\ at + (Centre(i) + SpanTicks) < (i + 2) * sensor_bit

LEMMA TicksAre ==
  ASSUME ByteAssumption
  PROVE
  /\ BitTicks \in Nat /\ BitTicks >= 12
  /\ SpanTicks \in Nat /\ 6 * SpanTicks <= BitTicks
  /\ BitTicks \div 4 \in Nat /\ 4 * (BitTicks \div 4) <= BitTicks
  /\ \A i \in 0 .. 6 : /\ Centre(i) \in Nat /\ SpanTicks <= Centre(i)
                       /\ Centre(i) = BitTicks + BitTicks \div 2 + i * BitTicks
<1>1. BitTicks \in Nat /\ BitTicks >= 12
  BY DEF ByteAssumption
<1>2. QED
  BY <1>1 DEF SpanTicks, Centre

LEMMA OnTimeIsRead ==
  ASSUME ByteAssumption, NEW ch \in 0 .. 127, NEW at \in Nat, NEW glitch \in 0 .. 3,
         sensor_bit \in Nat \ {0}, OnTime(at)
  PROVE  Received(ch, at, glitch) = ch
<1> DEFINE Sample(i, k) == LET level == Level(ch, at + Samples(i)[k])
                           IN IF k = glitch THEN 1 - level ELSE level
           Bit(i) == Majority(Sample(i, 1) + Sample(i, 2) + Sample(i, 3))
           bits == [n \in 1 .. 7 |-> Bit(n - 1)]
<1>1. ASSUME NEW i \in 0 .. 6 PROVE Bit(i) = BitOf(ch, i)
  <2>1. /\ Samples(i)[1] = Centre(i) - SpanTicks
        /\ Samples(i)[2] = Centre(i)
        /\ Samples(i)[3] = Centre(i) + SpanTicks
    BY DEF Samples
  <2>2. \A k \in 1 .. 3 : /\ at + Samples(i)[k] \in Nat
                         /\ (i + 1) * sensor_bit <= at + Samples(i)[k]
                         /\ at + Samples(i)[k] < (i + 2) * sensor_bit
    BY <2>1, TicksAre DEF OnTime
  <2>3. \A k \in 1 .. 3 : Level(ch, at + Samples(i)[k]) = BitOf(ch, i)
    BY <2>2, LevelIsBit
  <2>4. BitOf(ch, i) \in {0, 1}
    BY BitIsBit
  <2>5. QED
    BY <2>3, <2>4, GlitchIsOutvoted
<1>2. Level(ch, at + BitTicks \div 4) = 0
  BY StartIsLow, TicksAre DEF OnTime
<1>3. CharOf(bits) = ch
  BY <1>1, CharIsRead
<1>4. QED
  BY <1>2, <1>3 DEF Received

-----------------------------------------------------------------------------
(* The two clocks.                                                         *)

\* A sensor that is a twenty-fourth part slower at most, and a ULP that comes in
\* time for the start bit: every sample falls into its bit.
LEMMA FastIsOnTime ==
  ASSUME ByteAssumption, sensor_bit \in BitTicks .. BitTicks + BitTicks \div 24
  PROVE  OnTime(0)
<1>1. BitTicks \in Nat /\ BitTicks >= 12 /\ sensor_bit \in Nat
  BY DEF ByteAssumption
<1>2. SUFFICES ASSUME NEW i \in 0 .. 6
               PROVE  /\ (i + 1) * sensor_bit <= 0 + (Centre(i) - SpanTicks)
                      /\ 0 + (Centre(i) + SpanTicks) < (i + 2) * sensor_bit
  BY <1>1 DEF OnTime
<1>3. i = 0 \/ i = 1 \/ i = 2 \/ i = 3 \/ i = 4 \/ i = 5 \/ i = 6
  OBVIOUS
<1>4. QED
  BY <1>1, <1>3 DEF Centre, SpanTicks

\* A ULP that is slower, and late by no more than a third of a bit with what it
\* loses in this byte.
LEMMA SlowIsOnTime ==
  ASSUME ByteAssumption, sensor_bit \in Nat \ {0}, sensor_bit < BitTicks, NEW at \in Nat,
         at + 8 * (BitTicks - sensor_bit) < BitTicks \div 3
  PROVE  OnTime(at)
<1>1. BitTicks \in Nat /\ BitTicks >= 12
  BY DEF ByteAssumption
<1>2. SUFFICES ASSUME NEW i \in 0 .. 6
               PROVE  /\ (i + 1) * sensor_bit <= at + (Centre(i) - SpanTicks)
                      /\ at + (Centre(i) + SpanTicks) < (i + 2) * sensor_bit
  BY <1>1 DEF OnTime
<1>3. i = 0 \/ i = 1 \/ i = 2 \/ i = 3 \/ i = 4 \/ i = 5 \/ i = 6
  OBVIOUS
<1>4. QED
  BY <1>1, <1>3 DEF Centre, SpanTicks

\* What a slow ULP loses grows by ten bits' difference with every byte.
LEMMA LagGrows ==
  ASSUME ByteAssumption, sensor_bit \in Nat, NEW n \in Nat
  PROVE  LagBefore(n + 1) = LagBefore(n) + (10 * BitTicks - 10 * sensor_bit)
<1>1. BitTicks \in Nat
  BY DEF ByteAssumption
<1> DEFINE d == BitTicks - sensor_bit
<1>2. 10 * ((n + 1) - 1) * d = 10 * (n - 1) * d + 10 * d
  BY <1>1
<1>3. QED
  BY <1>1, <1>2 DEF LagBefore

-----------------------------------------------------------------------------
(* The inductive invariant.                                                *)

\* A ULP that is not slower than the sensor is never late; one that is has lost at
\* most its difference over the bytes before.
LagInv ==
  /\ count = 0 => lag = 0 /\ got = sent
  /\ sensor_bit >= BitTicks => lag = 0
  /\ sensor_bit < BitTicks /\ count > 0 => lag <= LagBefore(count)

IInv == TypeOK /\ LagInv /\ BytesSurvive

LEMMA InitIInv ==
  ASSUME ByteAssumption, Init
  PROVE  IInv
BY DEF ByteAssumption, Init, IInv, TypeOK, LagInv, BytesSurvive, LineSurvives,
       FirstBytesSurvive, HeardIsSent

\* What the receiver makes of a byte is a byte.
LEMMA ReceivedIsByte ==
  ASSUME ByteAssumption, NEW ch \in 0 .. 127, NEW at \in Nat, NEW glitch \in 0 .. 3
  PROVE  Received(ch, at, glitch) \in 0 .. 129
<1> DEFINE Sample(i, k) == LET level == Level(ch, at + Samples(i)[k])
                           IN IF k = glitch THEN 1 - level ELSE level
           Bit(i) == Majority(Sample(i, 1) + Sample(i, 2) + Sample(i, 3))
           bits == [n \in 1 .. 7 |-> Bit(n - 1)]
<1>1. \A n \in 1 .. 7 : bits[n] \in {0, 1}
  BY DEF Majority
<1>2. CharOf(bits) \in 0 .. 127
  <2> HIDE DEF bits
  <2>1. QED
    BY <1>1 DEF CharOf
<1>3. Received(ch, at, glitch) = IF Level(ch, at + BitTicks \div 4) # 0 THEN 128 ELSE CharOf(bits)
  BY DEF Received
<1> HIDE DEF bits
<1>4. QED
  BY <1>2, <1>3

\* The next byte: late by what has been lost, and right as long as the line lasts.
LEMMA RecvByteStep ==
  ASSUME ByteAssumption, IInv, RecvByte
  PROVE  IInv'
<1>1. PICK ch \in Chars, pause \in Pauses, glitch \in 0 .. 3 :
        LET over == lag + ByteTicks
            due == 10 * sensor_bit + pause
            late == IF count > 0 /\ over > due THEN over - due ELSE 0
            caught == count > 0 /\ over < due /\ Level(sent, over) = 0
        IN /\ sent' = ch
           /\ lag' = late
           /\ got' = IF caught THEN 128 ELSE Received(ch, late, glitch)
  BY DEF RecvByte
<1> DEFINE over == lag + ByteTicks
           due == 10 * sensor_bit + pause
           late == IF count > 0 /\ over > due THEN over - due ELSE 0
           caught == count > 0 /\ over < due /\ Level(sent, over) = 0
<1>2. /\ sent' = ch /\ lag' = late
      /\ got' = IF caught THEN 128 ELSE Received(ch, late, glitch)
      /\ count' = count + 1 /\ command' = 0 /\ heard' = 0
      /\ count < MaxBytes /\ sensor_bit' = sensor_bit
  BY <1>1 DEF RecvByte
<1>3. /\ BitTicks \in Nat /\ BitTicks >= 12 /\ sensor_bit \in Nat \ {0}
      /\ lag \in Nat /\ count \in Nat /\ MaxBytes \in Nat
      /\ ch \in 0 .. 127 /\ pause \in Nat
      /\ over = lag + 10 * BitTicks
  BY DEF ByteAssumption, IInv, TypeOK, ByteTicks
<1>4. late \in Nat /\ over \in Nat /\ due \in Nat
  BY <1>3
<1>5. Received(ch, late, glitch) \in 0 .. 129
  BY <1>3, <1>4, ReceivedIsByte
<1> HIDE DEF late, caught, over, due
<1>6. TypeOK'
  BY <1>2, <1>3, <1>4, <1>5 DEF TypeOK, IInv
<1>7. sensor_bit >= BitTicks => late = 0
  BY <1>3 DEF late, over, due, IInv, LagInv
<1>8. sensor_bit < BitTicks => late <= LagBefore(count + 1)
  <2>1. SUFFICES ASSUME sensor_bit < BitTicks PROVE late <= LagBefore(count + 1)
    OBVIOUS
  <2>2. CASE count = 0
    <3>1. late = 0 /\ LagBefore(1) = 0
      BY <1>3, <2>2 DEF late, LagBefore
    <3>2. QED
      BY <2>2, <3>1
  <2>3. CASE count > 0
    <3>1. lag <= LagBefore(count) /\ LagBefore(count) \in Int
      BY <1>3, <2>1, <2>3 DEF IInv, LagInv, LagBefore
    <3>2. late = 0 \/ late <= lag + (10 * BitTicks - 10 * sensor_bit)
      BY <1>3 DEF late, over, due
    <3>3. LagBefore(count + 1) = LagBefore(count) + (10 * BitTicks - 10 * sensor_bit)
      BY <1>3, LagGrows
    <3>4. QED
      BY <1>3, <1>4, <2>1, <3>1, <3>2, <3>3
  <2>4. QED
    BY <1>3, <2>2, <2>3
<1>9. LagInv'
  BY <1>2, <1>3, <1>7, <1>8 DEF LagInv, LagBefore
<1>10. sensor_bit <= BitTicks + BitTicks \div 24 => ~caught
  <2>1. SUFFICES ASSUME sensor_bit <= BitTicks + BitTicks \div 24
                 PROVE  Level(sent, over) = 1
    BY DEF caught
  <2>2. 9 * sensor_bit <= over
    BY <1>3, <2>1
  <2>3. QED
    BY <1>3, <1>4, <2>2, MarkIsHigh
<1>11. LineSurvives'
  <2>1. SUFFICES ASSUME sensor_bit \in BitTicks .. BitTicks + BitTicks \div 24
                 PROVE  got' = sent'
    BY <1>2 DEF LineSurvives
  <2>2. late = 0
    BY <1>3, <1>7, <2>1
  <2>3. Received(ch, late, glitch) = ch
    BY <1>3, <2>1, <2>2, FastIsOnTime, OnTimeIsRead
  <2>4. ~caught
    BY <1>3, <1>10, <2>1
  <2>5. QED
    BY <1>2, <2>3, <2>4
<1>12. FirstBytesSurvive'
  <2>1. SUFFICES ASSUME sensor_bit < BitTicks,
                        LagBefore(count + 1) + 8 * (BitTicks - sensor_bit) < BitTicks \div 3
                 PROVE  got' = sent'
    BY <1>2 DEF FirstBytesSurvive, LagBefore
  <2>2. LagBefore(count + 1) \in Int
    BY <1>3 DEF LagBefore
  <2>3. late + 8 * (BitTicks - sensor_bit) < BitTicks \div 3
    BY <1>3, <1>4, <1>8, <2>1, <2>2
  <2>4. Received(ch, late, glitch) = ch
    BY <1>3, <1>4, <2>1, <2>3, SlowIsOnTime, OnTimeIsRead
  <2>5. ~caught
    BY <1>3, <1>10, <2>1
  <2>6. QED
    BY <1>2, <2>4, <2>5
<1>13. HeardIsSent'
  BY <1>2 DEF HeardIsSent
<1>14. QED
  BY <1>6, <1>9, <1>11, <1>12, <1>13 DEF IInv, BytesSurvive

\* The ones of the inverted bits.
LEMMA OnesInverted ==
  ASSUME NEW a, NEW b,
         /\ a[1] \in {0, 1} /\ b[1] = 1 - a[1]
         /\ a[2] \in {0, 1} /\ b[2] = 1 - a[2]
         /\ a[3] \in {0, 1} /\ b[3] = 1 - a[3]
         /\ a[4] \in {0, 1} /\ b[4] = 1 - a[4]
         /\ a[5] \in {0, 1} /\ b[5] = 1 - a[5]
         /\ a[6] \in {0, 1} /\ b[6] = 1 - a[6]
         /\ a[7] \in {0, 1} /\ b[7] = 1 - a[7]
  PROVE  Ones(a) \in Nat /\ Ones(b) = 7 - Ones(a)
<1>1. Ones(a) \in Nat
  BY DEF Ones
<1>2. Ones(b) = 7 - Ones(a)
  BY DEF Ones
<1>3. QED
  BY <1>1, <1>2

\* A byte of the ULP: the sensor hears what was sent.
LEMMA DrivenIsHeard ==
  ASSUME NEW ch \in 0 .. 127
  PROVE  Heard(Driven(ch)) = ch
<1> DEFINE inverted == [i \in 1 .. 7 |-> 1 - BitOf(ch, i - 1)]
           levels == Driven(ch)
           line == [i \in 1 .. 10 |-> 1 - levels[i]]
           bits == [i \in 1 .. 7 |-> line[i + 1]]
<1>1. \A i \in 0 .. 6 : BitOf(ch, i) \in {0, 1}
  BY BitIsBit
<1>2. /\ levels[1] = 1 /\ levels[10] = 0 /\ levels[9] = Ones(inverted) % 2
      /\ \A i \in 0 .. 6 : levels[i + 2] = inverted[i + 1]
  BY DEF Driven
<1>3. \A i \in 0 .. 6 : inverted[i + 1] = 1 - BitOf(ch, i)
  OBVIOUS
<1> HIDE DEF levels, inverted
<1>4. line[1] = 0 /\ line[10] = 1 /\ line[9] = 1 - (Ones(inverted) % 2)
  BY <1>2
<1>5. \A i \in 0 .. 6 : bits[i + 1] = 1 - inverted[i + 1]
  <2>1. SUFFICES ASSUME NEW i \in 0 .. 6 PROVE bits[i + 1] = 1 - inverted[i + 1]
    OBVIOUS
  <2>2. bits[i + 1] = 1 - levels[i + 2]
    OBVIOUS
  <2>3. QED
    BY <1>2, <2>2
<1> HIDE DEF line, bits
<1>6. \A i \in 0 .. 6 : bits[i + 1] = BitOf(ch, i)
  BY <1>1, <1>3, <1>5
<1>7. CharOf(bits) = ch
  BY <1>6, CharIsRead
<1>8. (Ones(bits) + line[9]) % 2 = 0
  <2>1. \A i \in 1 .. 7 : inverted[i] \in {0, 1} /\ bits[i] = 1 - inverted[i]
    <3>1. SUFFICES ASSUME NEW i \in 1 .. 7 PROVE inverted[i] \in {0, 1} /\ bits[i] = 1 - inverted[i]
      OBVIOUS
    <3>2. i - 1 \in 0 .. 6 /\ (i - 1) + 1 = i
      OBVIOUS
    <3>3. QED
      BY <1>1, <1>3, <1>5, <3>2
  <2>2. Ones(inverted) \in Nat /\ Ones(bits) = 7 - Ones(inverted)
    BY <2>1, OnesInverted
  <2>3. QED
    BY <1>4, <2>2
<1>9. Heard(levels) = CharOf(bits)
  BY <1>4, <1>8 DEF Heard, line, bits
<1>10. QED
  BY <1>7, <1>9 DEF levels

LEMMA SendByteStep ==
  ASSUME ByteAssumption, IInv, SendByte
  PROVE  IInv'
<1>1. PICK ch \in Chars : command' = ch /\ heard' = Heard(Driven(ch))
  BY DEF SendByte
<1>2. ch \in 0 .. 127
  BY DEF ByteAssumption
<1>3. heard' = ch
  BY <1>1, <1>2, DrivenIsHeard
<1>4. UNCHANGED <<sensor_bit, lag, sent, got, count>>
  BY DEF SendByte
<1>5. TypeOK'
  BY <1>1, <1>2, <1>3, <1>4 DEF TypeOK, IInv
<1>6. QED
  BY <1>1, <1>3, <1>4, <1>5
     DEF IInv, LagInv, LagBefore, BytesSurvive, LineSurvives, FirstBytesSurvive, HeardIsSent

-----------------------------------------------------------------------------
(* The theorems.                                                           *)

\* IInv holds in every reachable state of the line: the receiver is never later
\* than the bytes before have made it.
THEOREM Invariant ==
  ASSUME ByteAssumption
  PROVE  Spec => []IInv
<1>1. Init => IInv
  BY InitIInv
<1>2. IInv /\ [Next]_vars => IInv'
  <2>1. SUFFICES ASSUME IInv, [Next]_vars PROVE IInv'
    OBVIOUS
  <2>2. CASE RecvByte
    BY <2>1, <2>2, RecvByteStep
  <2>3. CASE SendByte
    BY <2>1, <2>3, SendByteStep
  <2>4. CASE UNCHANGED vars
    BY <2>1, <2>4 DEF IInv, TypeOK, LagInv, LagBefore, BytesSurvive, LineSurvives,
                      FirstBytesSurvive, HeardIsSent
  <2>5. QED
    BY <2>1, <2>2, <2>3, <2>4 DEF Next
<1>3. QED
  BY <1>1, <1>2, PTL DEF Spec

\* A ULP that is at most a twenty-fourth part faster than the sensor reads every
\* byte of a line of any length, one that is slower as many as its lag allows,
\* and the sensor hears every byte of the ULP (ulp_sdi_wind.cpp:154, sdi.c:144).
THEOREM BytesCorrect ==
  ASSUME ByteAssumption
  PROVE  Spec => []BytesSurvive
<1>1. IInv => BytesSurvive
  BY DEF IInv
<1>2. QED
  BY Invariant, <1>1, PTL

\* Every variable of the line keeps its type: the lag is never negative, and
\* whatever the samples are they make a byte.
THEOREM TypeCorrect ==
  ASSUME ByteAssumption
  PROVE  Spec => []TypeOK
<1>1. IInv => TypeOK
  BY DEF IInv
<1>2. QED
  BY Invariant, <1>1, PTL
=============================================================================
