-------------------------- MODULE WindStatsProofs ---------------------------
(***************************************************************************)
(* Proofs about WindStats, for every snapshot of the ring, however long:   *)
(* the order of the three speeds, and where the mean direction lies.       *)
(***************************************************************************)
EXTENDS WindStats, TLAPS

USE DEF vars, sums, results, Window

-----------------------------------------------------------------------------
(* The inductive invariant.                                                *)

\* The samples the running sums have seen.
Seen == IF stage = "read" THEN 0 ELSE IF stage = "sum" THEN index ELSE Len(samples)

\* The sum of speeds is the last of the partial sums p.
Partial(p, n) ==
  /\ p \in [0 .. n -> Nat]
  /\ p[0] = 0
  /\ \A k \in 0 .. n - 1 : p[k + 1] = p[k] + samples[k + 1].speed
  /\ p[n] = speed_sum

\* Side by side, the windows that have been seen are between minimum and gust on
\* average: m of them up to sample 3 * m.
Tiled(p) ==
  \A m \in Nat : 3 * m <= index + 2 /\ 3 * m <= Len(samples) =>
    m * min <= p[3 * m] /\ p[3 * m] <= m * gust

SpeedInv ==
  \E p : /\ Partial(p, Seen)
         /\ stage = "roll" /\ index > 0 => Tiled(p)

\* Gust and minimum are the extremes of the windows seen.
RollInv ==
  /\ stage = "roll" =>
       /\ Len(samples) >= 3 /\ index <= Len(samples) - 2
       /\ \A i \in 0 .. index - 1 : min <= WindowSum(i) /\ WindowSum(i) <= gust
       /\ index > 0 => \E i, j \in 0 .. index - 1 : min = WindowSum(i) /\ gust = WindowSum(j)
  /\ stage \in {"read", "sum", "roll"} => ~has_rolling
  /\ stage = "read" => index = 0 /\ speed_sum = 0 /\ sin_sum = 0 /\ cos_sum = 0
                       /\ turned = [sin |-> 0, cos |-> 0]

\* How far the sums go into the direction of a quarter.
Along(q) ==
  CASE q = 0 -> cos_sum
    [] q = 1 -> sin_sum
    [] q = 2 -> 0 - cos_sum
    [] q = 3 -> 0 - sin_sum

\* Wind from two neighbouring quarters goes into the direction of both, and into that
\* of a quarter it has come from at all; it goes nowhere else.
QuarterInv ==
  \A q \in 0 .. 3 :
    (\A k \in 1 .. Seen : samples[k].quarter \in {q, QuarterOn(q)}) =>
      /\ Along(q) >= 0 /\ Along(QuarterOn(q)) >= 0
      /\ Along(q) > 0 <=> \E k \in 1 .. Seen : samples[k].quarter = q
      /\ Along(QuarterOn(q)) > 0 <=> \E k \in 1 .. Seen : samples[k].quarter = QuarterOn(q)

\* The wind that has turned by a quarter has the sine for a cosine.
TurnInv == turned.sin = cos_sum /\ turned.cos = 0 - sin_sum

DirectionInv == HasAverage => direction_avg = Direction(sin_sum, cos_sum)

IInv ==
  /\ TypeOK
  /\ SpeedInv /\ RollInv /\ QuarterInv /\ TurnInv /\ DirectionInv
  /\ ExtremesHold

-----------------------------------------------------------------------------
(* Types.                                                                  *)

\* A sample of the snapshot is a reading.
LEMMA SampleIs ==
  ASSUME StatsAssumption, TypeOK, NEW k \in 1 .. Len(samples)
  PROVE  samples[k] \in Readings /\ samples[k].speed \in Nat /\ samples[k].quarter \in 0 .. 3
BY DEF StatsAssumption, TypeOK

LEMMA WindowIs ==
  ASSUME StatsAssumption, TypeOK, NEW i \in Nat, i + 3 <= Len(samples)
  PROVE  WindowSum(i) \in Nat
<1>1. i + 1 \in 1 .. Len(samples) /\ i + 2 \in 1 .. Len(samples) /\ i + 3 \in 1 .. Len(samples)
  BY DEF TypeOK
<1>2. QED
  BY <1>1, SampleIs DEF WindowSum

\* A direction is one of the sectors.
LEMMA DirectionIs ==
  ASSUME NEW s \in Int, NEW c \in Int
  PROVE  Direction(s, c) \in Sectors
<1>1. Sign(s) \in -1 .. 1 /\ Sign(c) \in -1 .. 1
  BY DEF Sign
<1>2. Atan2(s, c) \in -3 .. 4
  BY <1>1 DEF Atan2
<1>3. QED
  BY <1>2 DEF Direction, Normalized, Sectors

LEMMA TypeStep ==
  ASSUME StatsAssumption, IInv, Next
  PROVE  TypeOK'
<1> USE DEF IInv
<1>1. CASE ReadSample
  BY <1>1 DEF ReadSample, TypeOK, StatsAssumption
<1>2. CASE Calculate
  BY <1>2 DEF Calculate, TypeOK
<1>3. CASE AddSample
  <2>1. index + 1 \in 1 .. Len(samples)
    BY <1>3 DEF AddSample, TypeOK
  <2>2. samples[index + 1].speed \in Nat /\ samples[index + 1].quarter \in 0 .. 3
    BY <2>1, SampleIs
  <2>3. \A q : Sine(q) \in Int /\ Cosine(q) \in Int
    BY DEF Sine, Cosine
  <2> DEFINE q == samples[index + 1].quarter
  <2>4. speed_sum' \in Nat /\ sin_sum' \in Int /\ cos_sum' \in Int
    <3>1. /\ speed_sum' = speed_sum + samples[index + 1].speed
          /\ sin_sum' = sin_sum + Sine(q) /\ cos_sum' = cos_sum + Cosine(q)
      BY <1>3 DEF AddSample
    <3>2. speed_sum \in Nat /\ sin_sum \in Int /\ cos_sum \in Int
      BY DEF TypeOK
    <3>3. Sine(q) \in Int /\ Cosine(q) \in Int
      BY <2>3
    <3> HIDE DEF q
    <3>4. QED
      BY <2>2, <3>1, <3>2, <3>3
  <2>5. turned' = [sin |-> turned.sin + Sine(QuarterOn(q)), cos |-> turned.cos + Cosine(QuarterOn(q))]
    BY <1>3 DEF AddSample
  <2>6. turned.sin \in Int /\ turned.cos \in Int
    BY DEF TypeOK
  <2> HIDE DEF q
  <2>7. turned' \in [sin : Int, cos : Int]
    BY <2>3, <2>5, <2>6
  <2>8. index' \in 0 .. Len(samples')
    BY <1>3, <2>1 DEF AddSample, TypeOK
  <2>9. QED
    BY <1>3, <2>4, <2>7, <2>8 DEF AddSample, TypeOK
<1>4. CASE Average
  <2>1. direction_avg' \in Sectors
    BY <1>4, DirectionIs DEF Average, TypeOK
  <2>2. QED
    BY <1>4, <2>1 DEF Average, TypeOK
<1>5. CASE RollWindow
  <2>1. WindowSum(index) \in Nat
    BY <1>5, WindowIs DEF RollWindow, TypeOK
  <2>2. QED
    BY <1>5, <2>1 DEF RollWindow, TypeOK, Seed, Larger, Smaller
<1>6. CASE Rolled
  BY <1>6 DEF Rolled, TypeOK
<1>7. QED
  BY <1>1, <1>2, <1>3, <1>4, <1>5, <1>6 DEF Next

-----------------------------------------------------------------------------
(* The sums.                                                               *)

\* What happens to one more sample.
LEMMA AddSampleIs ==
  ASSUME StatsAssumption, TypeOK, AddSample
  PROVE  /\ index \in Nat /\ index + 1 \in 1 .. Len(samples)
         /\ Seen = index /\ Seen' = index + 1 /\ samples' = samples
         /\ samples[index + 1].speed \in Nat /\ samples[index + 1].quarter \in 0 .. 3
         /\ speed_sum' = speed_sum + samples[index + 1].speed
         /\ sin_sum' = sin_sum + Sine(samples[index + 1].quarter)
         /\ cos_sum' = cos_sum + Cosine(samples[index + 1].quarter)
<1>1. index \in Nat /\ index + 1 \in 1 .. Len(samples)
  BY DEF AddSample, TypeOK
<1>2. samples[index + 1].speed \in Nat /\ samples[index + 1].quarter \in 0 .. 3
  BY <1>1, SampleIs
<1>3. QED
  BY <1>1, <1>2 DEF AddSample, Seen

\* The other steps leave the sums alone, and what they have seen.
LEMMA SumsStay ==
  ASSUME TypeOK, RollInv, Calculate \/ Average \/ RollWindow \/ Rolled
  PROVE  /\ Seen' = Seen /\ samples' = samples
         /\ UNCHANGED <<speed_sum, sin_sum, cos_sum, turned>>
<1>1. CASE Calculate
  BY <1>1 DEF Calculate, Seen, TypeOK, RollInv
<1>2. CASE Average
  BY <1>2 DEF Average, Seen, TypeOK
<1>3. CASE RollWindow
  BY <1>3 DEF RollWindow, Seen, TypeOK
<1>4. CASE Rolled
  BY <1>4 DEF Rolled, Seen, TypeOK
<1>5. QED
  BY <1>1, <1>2, <1>3, <1>4

\* Nothing has been summed up while samples are read.
LEMMA ReadSampleIs ==
  ASSUME TypeOK, RollInv, ReadSample
  PROVE  /\ Seen = 0 /\ Seen' = 0 /\ stage' = "read" /\ index' = 0
         /\ speed_sum' = 0 /\ sin_sum' = 0 /\ cos_sum' = 0
         /\ turned' = [sin |-> 0, cos |-> 0]
BY DEF ReadSample, RollInv, Seen

\* A sine is the cosine of what has turned on.
LEMMA QuarterTurn ==
  ASSUME NEW q \in 0 .. 3
  PROVE  /\ Sine(QuarterOn(q)) = Cosine(q) /\ Cosine(QuarterOn(q)) = 0 - Sine(q)
         /\ Sine(q) \in Int /\ Cosine(q) \in Int
<1>1. q = 0 \/ q = 1 \/ q = 2 \/ q = 3
  OBVIOUS
<1>2. QED
  BY <1>1 DEF Sine, Cosine, QuarterOn

LEMMA TurnStep ==
  ASSUME StatsAssumption, IInv, Next
  PROVE  TurnInv'
<1> USE DEF IInv
<1>1. CASE ReadSample
  BY <1>1, ReadSampleIs DEF TurnInv
<1>2. CASE AddSample
  <2> DEFINE q == samples[index + 1].quarter
  <2>1. /\ q \in 0 .. 3
        /\ turned' = [sin |-> turned.sin + Sine(QuarterOn(q)), cos |-> turned.cos + Cosine(QuarterOn(q))]
        /\ sin_sum' = sin_sum + Sine(q) /\ cos_sum' = cos_sum + Cosine(q)
        /\ sin_sum \in Int /\ cos_sum \in Int
    BY <1>2, AddSampleIs DEF AddSample, TypeOK
  <2> HIDE DEF q
  <2>2. QED
    BY <2>1, QuarterTurn DEF TurnInv
<1>3. CASE Calculate \/ Average \/ RollWindow \/ Rolled
  BY <1>3, SumsStay DEF TurnInv
<1>4. QED
  BY <1>1, <1>2, <1>3 DEF Next

\* A quarter is along itself, across its neighbour.
QuarterAlong(x, q) ==
  CASE q = 0 -> Cosine(x)
    [] q = 1 -> Sine(x)
    [] q = 2 -> 0 - Cosine(x)
    [] q = 3 -> 0 - Sine(x)

LEMMA AlongItself ==
  ASSUME NEW q \in 0 .. 3
  PROVE  /\ QuarterOn(q) \in 0 .. 3 /\ QuarterOn(q) # q
         /\ QuarterAlong(q, q) = 1 /\ QuarterAlong(q, QuarterOn(q)) = 0
         /\ QuarterAlong(QuarterOn(q), q) = 0 /\ QuarterAlong(QuarterOn(q), QuarterOn(q)) = 1
<1>1. QuarterOn(0) = 1 /\ QuarterOn(1) = 2 /\ QuarterOn(2) = 3 /\ QuarterOn(3) = 0
  BY DEF QuarterOn
<1>2. /\ Sine(0) = 0 /\ Sine(1) = 1 /\ Sine(2) = 0 /\ Sine(3) = -1
      /\ Cosine(0) = 1 /\ Cosine(1) = 0 /\ Cosine(2) = -1 /\ Cosine(3) = 0
  BY DEF Sine, Cosine
<1>3. CASE q = 0
  BY <1>1, <1>2, <1>3 DEF QuarterAlong
<1>4. CASE q = 1
  BY <1>1, <1>2, <1>4 DEF QuarterAlong
<1>5. CASE q = 2
  BY <1>1, <1>2, <1>5 DEF QuarterAlong
<1>6. CASE q = 3
  BY <1>1, <1>2, <1>6 DEF QuarterAlong
<1>7. QED
  BY <1>3, <1>4, <1>5, <1>6

LEMMA AlongGrows ==
  ASSUME StatsAssumption, TypeOK, AddSample, NEW q \in 0 .. 3
  PROVE  Along(q)' = Along(q) + QuarterAlong(samples[index + 1].quarter, q) /\ Along(q) \in Int
<1> DEFINE x == samples[index + 1].quarter
<1>1. sin_sum' = sin_sum + Sine(x) /\ cos_sum' = cos_sum + Cosine(x) /\ x \in 0 .. 3
  BY AddSampleIs
<1>2. sin_sum \in Int /\ cos_sum \in Int
  BY DEF TypeOK
<1> HIDE DEF x
<1>3. Sine(x) \in Int /\ Cosine(x) \in Int
  BY <1>1, QuarterTurn
<1>4. Along(q)' = Along(q) + QuarterAlong(x, q) /\ Along(q) \in Int
  <2>1. CASE q = 0
    BY <1>1, <1>2, <1>3, <2>1 DEF Along, QuarterAlong
  <2>2. CASE q = 1
    BY <1>1, <1>2, <1>3, <2>2 DEF Along, QuarterAlong
  <2>3. CASE q = 2
    BY <1>1, <1>2, <1>3, <2>3 DEF Along, QuarterAlong
  <2>4. CASE q = 3
    BY <1>1, <1>2, <1>3, <2>4 DEF Along, QuarterAlong
  <2>5. QED
    BY <2>1, <2>2, <2>3, <2>4
<1>5. QED
  BY <1>4 DEF x

\* One more sample from two neighbouring quarters.
LEMMA AddQuarter ==
  ASSUME StatsAssumption, TypeOK, QuarterInv, AddSample, NEW q \in 0 .. 3,
         \A k \in 1 .. index + 1 : samples[k].quarter \in {q, QuarterOn(q)}
  PROVE  /\ Along(q)' >= 0 /\ Along(QuarterOn(q))' >= 0
         /\ Along(q)' > 0 <=> \E k \in 1 .. index + 1 : samples[k].quarter = q
         /\ Along(QuarterOn(q))' > 0 <=> \E k \in 1 .. index + 1 : samples[k].quarter = QuarterOn(q)
<1> DEFINE x == samples[index + 1].quarter
<1>1. /\ index \in Nat /\ Seen = index
  BY AddSampleIs
<1>2. /\ Along(q) \in Int /\ Along(q)' = Along(q) + QuarterAlong(x, q)
      /\ Along(QuarterOn(q)) \in Int /\ Along(QuarterOn(q))' = Along(QuarterOn(q)) + QuarterAlong(x, QuarterOn(q))
  BY AlongGrows, AlongItself
<1>3. /\ Along(q) >= 0 /\ Along(QuarterOn(q)) >= 0
      /\ Along(q) > 0 <=> \E k \in 1 .. index : samples[k].quarter = q
      /\ Along(QuarterOn(q)) > 0 <=> \E k \in 1 .. index : samples[k].quarter = QuarterOn(q)
  <2>1. \A k \in 1 .. Seen : samples[k].quarter \in {q, QuarterOn(q)}
    BY <1>1
  <2>2. QED
    BY <1>1, <2>1 DEF QuarterInv
<1>4. \A k \in 1 .. index + 1 : k \in 1 .. index \/ k = index + 1
  BY <1>1
<1>5. 1 .. index \subseteq 1 .. index + 1 /\ index + 1 \in 1 .. index + 1
  BY <1>1
<1>6. /\ QuarterOn(q) # q
      /\ QuarterAlong(q, q) = 1 /\ QuarterAlong(q, QuarterOn(q)) = 0
      /\ QuarterAlong(QuarterOn(q), q) = 0 /\ QuarterAlong(QuarterOn(q), QuarterOn(q)) = 1
  BY AlongItself
<1>7. x = q \/ x = QuarterOn(q)
  BY <1>5
<1>8. CASE x = q
  <2>1. Along(q)' > 0 /\ Along(q)' >= 0 /\ Along(QuarterOn(q))' = Along(QuarterOn(q))
    BY <1>2, <1>3, <1>6, <1>8
  <2>2. \E k \in 1 .. index + 1 : samples[k].quarter = q
    BY <1>5, <1>8
  <2>3. (\E k \in 1 .. index + 1 : samples[k].quarter = QuarterOn(q)) <=> (\E k \in 1 .. index : samples[k].quarter = QuarterOn(q))
    BY <1>4, <1>5, <1>6, <1>8
  <2>4. QED
    BY <1>2, <1>3, <2>1, <2>2, <2>3
<1>9. CASE x = QuarterOn(q)
  <2>1. Along(QuarterOn(q))' > 0 /\ Along(QuarterOn(q))' >= 0 /\ Along(q)' = Along(q)
    BY <1>2, <1>3, <1>6, <1>9
  <2>2. \E k \in 1 .. index + 1 : samples[k].quarter = QuarterOn(q)
    BY <1>5, <1>9
  <2>3. (\E k \in 1 .. index + 1 : samples[k].quarter = q) <=> (\E k \in 1 .. index : samples[k].quarter = q)
    BY <1>4, <1>5, <1>6, <1>9
  <2>4. QED
    BY <1>2, <1>3, <2>1, <2>2, <2>3
<1>10. QED
  BY <1>7, <1>8, <1>9

LEMMA QuarterStep ==
  ASSUME StatsAssumption, IInv, Next
  PROVE  QuarterInv'
<1> USE DEF IInv
<1>1. CASE ReadSample
  <2>1. \A q \in 0 .. 3 : Along(q)' = 0 /\ QuarterOn(q) \in 0 .. 3
    BY <1>1, ReadSampleIs, AlongItself DEF Along
  <2>2. Seen' = 0
    BY <1>1, ReadSampleIs
  <2>3. QED
    BY <2>1, <2>2 DEF QuarterInv
<1>2. CASE AddSample
  <2>1. SUFFICES ASSUME NEW q \in 0 .. 3,
                        \A k \in 1 .. Seen' : samples'[k].quarter \in {q, QuarterOn(q)}
                 PROVE  /\ Along(q)' >= 0 /\ Along(QuarterOn(q))' >= 0
                        /\ Along(q)' > 0 <=> \E k \in 1 .. Seen' : samples'[k].quarter = q
                        /\ Along(QuarterOn(q))' > 0 <=>
                             \E k \in 1 .. Seen' : samples'[k].quarter = QuarterOn(q)
    BY DEF QuarterInv
  <2>2. Seen' = index + 1 /\ samples' = samples
    BY <1>2, AddSampleIs
  <2>3. QED
    BY <1>2, <2>1, <2>2, AddQuarter
<1>3. CASE Calculate \/ Average \/ RollWindow \/ Rolled
  <2>1. Seen' = Seen /\ samples' = samples /\ UNCHANGED <<sin_sum, cos_sum>>
    BY <1>3, SumsStay
  <2>2. \A q \in 0 .. 3 : Along(q)' = Along(q)
    BY <2>1 DEF Along
  <2>3. QED
    BY <2>1, <2>2, AlongItself DEF QuarterInv
<1>4. QED
  BY <1>1, <1>2, <1>3 DEF Next

\* The mean is taken of all samples, once.
LEMMA DirectionStep ==
  ASSUME IInv, Next
  PROVE  DirectionInv'
<1> USE DEF IInv
<1>1. CASE ReadSample
  BY <1>1, ReadSampleIs DEF DirectionInv, HasAverage
<1>2. CASE AddSample
  BY <1>2 DEF AddSample, DirectionInv, HasAverage
<1>3. CASE Calculate
  BY <1>3 DEF Calculate, DirectionInv, HasAverage
<1>4. CASE Average
  BY <1>4 DEF Average, DirectionInv, HasAverage
<1>5. CASE RollWindow \/ Rolled
  BY <1>5 DEF RollWindow, Rolled, DirectionInv, HasAverage
<1>6. QED
  BY <1>1, <1>2, <1>3, <1>4, <1>5 DEF Next

-----------------------------------------------------------------------------
(* The speeds.                                                             *)

\* One more sample, one more partial sum.
LEMMA AddSpeed ==
  ASSUME StatsAssumption, TypeOK, AddSample,
         NEW n, n = index, NEW total, total = speed_sum', NEW p, Partial(p, n)
  PROVE  \E p2 : Partial(p2, n + 1)'
<1> DEFINE p2 == [k \in 0 .. n + 1 |-> IF k = n + 1 THEN total ELSE p[k]]
<1>1. /\ n \in Nat /\ samples' = samples /\ samples[n + 1].speed \in Nat
      /\ total = speed_sum + samples[n + 1].speed /\ speed_sum \in Nat
  BY AddSampleIs DEF TypeOK
<1>2. /\ p \in [0 .. n -> Nat] /\ p[0] = 0 /\ p[n] = speed_sum
      /\ \A k \in 0 .. n - 1 : p[k + 1] = p[k] + samples[k + 1].speed
  BY DEF Partial
<1>3. p2 \in [0 .. n + 1 -> Nat]
  <2>1. \A k \in 0 .. n + 1 : k # n + 1 => k \in 0 .. n
    BY <1>1
  <2>2. QED
    BY <1>1, <1>2, <2>1
<1>4. p2[0] = 0 /\ p2[n + 1] = total /\ p2[n] = speed_sum
  BY <1>1, <1>2
<1>5. ASSUME NEW k \in 0 .. n PROVE p2[k + 1] = p2[k] + samples'[k + 1].speed
  <2>1. CASE k = n
    BY <1>1, <1>4, <2>1
  <2>2. CASE k # n
    <3>1. k \in 0 .. n - 1 /\ k \in 0 .. n + 1 /\ k + 1 \in 0 .. n + 1 /\ k # n + 1 /\ k + 1 # n + 1
      BY <1>1, <2>2
    <3>2. QED
      BY <1>1, <1>2, <3>1
  <2>3. QED
    BY <2>1, <2>2
<1>6. (n + 1) - 1 = n
  BY <1>1
<1> HIDE DEF p2
<1>7. Partial(p2, n + 1)'
  BY <1>1, <1>3, <1>4, <1>5, <1>6 DEF Partial
<1>8. QED
  BY <1>7

\* Three partial sums on is a window on.
LEMMA PartialWindow ==
  ASSUME StatsAssumption, TypeOK, NEW p, Partial(p, Len(samples)),
         NEW i \in Nat, i + 3 <= Len(samples)
  PROVE  p[i] \in Nat /\ p[i + 3] = p[i] + WindowSum(i)
<1>1. Len(samples) \in Nat
  BY DEF TypeOK
<1>2. /\ i \in 0 .. Len(samples) - 1 /\ i + 1 \in 0 .. Len(samples) - 1
      /\ i + 2 \in 0 .. Len(samples) - 1 /\ i \in 0 .. Len(samples)
  BY <1>1
<1>3. /\ p[i] \in Nat
      /\ p[i + 1] = p[i] + samples[i + 1].speed
      /\ p[(i + 1) + 1] = p[i + 1] + samples[(i + 1) + 1].speed
      /\ p[(i + 2) + 1] = p[i + 2] + samples[(i + 2) + 1].speed
  BY <1>2 DEF Partial
<1>4. (i + 1) + 1 = i + 2 /\ (i + 2) + 1 = i + 3
  OBVIOUS
<1>5. /\ samples[i + 1].speed \in Nat /\ samples[i + 2].speed \in Nat
      /\ samples[i + 3].speed \in Nat
  <2>1. i + 1 \in 1 .. Len(samples) /\ i + 2 \in 1 .. Len(samples) /\ i + 3 \in 1 .. Len(samples)
    BY <1>1
  <2>2. QED
    BY <2>1, SampleIs
<1>6. QED
  BY <1>3, <1>4, <1>5 DEF WindowSum

\* What a window does to gust and minimum.
LEMMA RollWindowIs ==
  ASSUME StatsAssumption, TypeOK, RollWindow
  PROVE  /\ index \in Nat /\ index' = index + 1 /\ index + 3 <= Len(samples)
         /\ samples' = samples /\ WindowSum(index) \in Nat
         /\ gust \in Nat /\ min \in Nat /\ gust' \in Nat /\ min' \in Nat
         /\ min' <= WindowSum(index) /\ WindowSum(index) <= gust'
         /\ index = 0 => min' = WindowSum(index) /\ gust' = WindowSum(index)
         /\ index > 0 => /\ min' <= min /\ gust <= gust'
                         /\ min' \in {min, WindowSum(index)} /\ gust' \in {gust, WindowSum(index)}
<1>1. index \in Nat /\ index' = index + 1 /\ index + 3 <= Len(samples) /\ samples' = samples
  BY DEF RollWindow, TypeOK
<1>2. WindowSum(index) \in Nat /\ gust \in Nat /\ min \in Nat
  BY <1>1, WindowIs DEF TypeOK
<1>3. CASE index = 0
  BY <1>1, <1>2, <1>3 DEF RollWindow, Seed
<1>4. CASE index > 0
  <2>1. gust' = Larger(gust, WindowSum(index)) /\ min' = Smaller(min, WindowSum(index))
    BY <1>1, <1>4 DEF RollWindow
  <2>2. QED
    BY <1>1, <1>2, <1>4, <2>1 DEF Larger, Smaller
<1>5. QED
  BY <1>1, <1>3, <1>4

LEMMA ProductGrows ==
  ASSUME NEW m \in Nat, NEW a \in Nat, NEW b \in Nat, a <= b
  PROVE  m * a <= m * b
OBVIOUS

LEMMA ProductIs ==
  ASSUME NEW m \in Nat, NEW a \in Nat
  PROVE  m * a \in Nat
OBVIOUS

LEMMA SumGrows ==
  ASSUME NEW a \in Nat, NEW b \in Nat, NEW c \in Nat, NEW d \in Nat, a <= c, b <= d
  PROVE  a + b <= c + d
OBVIOUS

LEMMA Transitive ==
  ASSUME NEW a \in Nat, NEW b \in Nat, NEW c \in Nat, a <= b, b <= c
  PROVE  a <= c
OBVIOUS

\* One more window, and with every third a tile.
LEMMA TileStep ==
  ASSUME StatsAssumption, TypeOK, RollWindow, NEW p, Partial(p, Len(samples)),
         index > 0 => Tiled(p)
  PROVE  Tiled(p)'
<1> DEFINE w == WindowSum(index)
<1>1. /\ index \in Nat /\ index' = index + 1 /\ index + 3 <= Len(samples) /\ samples' = samples
      /\ w \in Nat /\ gust \in Nat /\ min \in Nat /\ gust' \in Nat /\ min' \in Nat
      /\ min' <= w /\ w <= gust' /\ Len(samples) \in Nat
      /\ index > 0 => min' <= min /\ gust <= gust'
  BY RollWindowIs DEF TypeOK
<1>2. SUFFICES ASSUME NEW m \in Nat, 3 * m <= index + 3, 3 * m <= Len(samples)
               PROVE  m * min' <= p[3 * m] /\ p[3 * m] <= m * gust'
  BY <1>1 DEF Tiled
<1>3. p[0] = 0
  BY DEF Partial
<1>4. p[index] \in Nat /\ p[index + 3] = p[index] + w
  BY <1>1, PartialWindow
<1> HIDE DEF w
<1>5. CASE m = 0
  BY <1>1, <1>3, <1>5
<1>6. CASE m > 0 /\ 3 * m <= index + 2
  <2>1. index > 0
    BY <1>1, <1>6
  <2>2. m * min <= p[3 * m] /\ p[3 * m] <= m * gust
    BY <1>2, <1>6, <2>1 DEF Tiled
  <2>3. p[3 * m] \in Nat
    <3>1. 3 * m \in 0 .. Len(samples)
      BY <1>1, <1>2
    <3>2. QED
      BY <3>1 DEF Partial
  <2>4. m * min' <= m * min /\ m * gust <= m * gust'
    BY <1>1, <2>1, ProductGrows
  <2>5. m * min' \in Nat /\ m * min \in Nat /\ m * gust \in Nat /\ m * gust' \in Nat
    BY <1>1, ProductIs
  <2>6. QED
    BY <2>2, <2>3, <2>4, <2>5, Transitive
<1>7. CASE m > 0 /\ 3 * m = index + 3
  <2> DEFINE l == m - 1
  <2>1. l \in Nat /\ 3 * l = index /\ m = l + 1
    BY <1>1, <1>7
  <2>2. l * min' <= p[index] /\ p[index] <= l * gust'
    <3>1. CASE index = 0
      BY <1>1, <1>3, <2>1, <3>1
    <3>2. CASE index > 0
      <4>1. l * min <= p[index] /\ p[index] <= l * gust
        <5>1. 3 * l <= index + 2 /\ 3 * l <= Len(samples)
          BY <1>1, <2>1
        <5>2. QED
          BY <2>1, <3>2, <5>1 DEF Tiled
      <4>2. l * min' <= l * min /\ l * gust <= l * gust'
        BY <1>1, <2>1, <3>2, ProductGrows
      <4>3. l * min' \in Nat /\ l * min \in Nat /\ l * gust \in Nat /\ l * gust' \in Nat
        BY <1>1, <2>1, ProductIs
      <4>4. QED
        BY <1>4, <4>1, <4>2, <4>3, Transitive
    <3>3. QED
      BY <1>1, <3>1, <3>2
  <2>3. (l + 1) * min' = l * min' + min' /\ (l + 1) * gust' = l * gust' + gust'
    BY <1>1, <2>1
  <2>4. l * min' \in Nat /\ l * gust' \in Nat
    BY <1>1, <2>1, ProductIs
  <2> HIDE DEF l
  <2>5. p[3 * m] = p[index] + w
    BY <1>4, <1>7
  <2>6. m * min' = l * min' + min' /\ m * gust' = l * gust' + gust'
    BY <2>1, <2>3
  <2>7. l * min' + min' <= p[index] + w /\ p[index] + w <= l * gust' + gust'
    BY <1>1, <1>4, <2>2, <2>4, SumGrows
  <2>8. QED
    BY <2>5, <2>6, <2>7
<1>8. QED
  BY <1>1, <1>2, <1>5, <1>6, <1>7

LEMMA SpeedStep ==
  ASSUME StatsAssumption, IInv, Next
  PROVE  SpeedInv'
<1> USE DEF IInv
<1>1. CASE ReadSample
  <2> DEFINE p == [k \in 0 .. 0 |-> 0]
  <2>1. Seen' = 0 /\ speed_sum' = 0 /\ stage' = "read"
    BY <1>1, ReadSampleIs
  <2>2. p \in [0 .. 0 -> Nat] /\ p[0] = 0 /\ 0 .. 0 - 1 = {}
    OBVIOUS
  <2>3. Partial(p, Seen)'
    BY <2>1, <2>2 DEF Partial
  <2>4. QED
    BY <2>1, <2>3 DEF SpeedInv
<1>2. CASE AddSample
  <2>1. PICK p : Partial(p, Seen)
    BY DEF SpeedInv
  <2>2. Seen = index /\ Seen' = index + 1 /\ stage' = "sum"
    BY <1>2, AddSampleIs DEF AddSample
  <2>3. PICK n, total : n = index /\ total = speed_sum'
    OBVIOUS
  <2>4. Partial(p, n)
    BY <2>1, <2>2, <2>3
  <2>5. PICK p2 : Partial(p2, n + 1)'
    BY <1>2, <2>3, <2>4, AddSpeed
  <2>6. Seen' = n + 1
    BY <2>2, <2>3
  <2>7. Partial(p2, Seen)'
    BY <2>5, <2>6 DEF Partial
  <2>8. QED
    BY <2>2, <2>7 DEF SpeedInv
<1>3. CASE Calculate \/ Average \/ Rolled
  <2>1. Seen' = Seen /\ samples' = samples /\ speed_sum' = speed_sum
    BY <1>3, SumsStay
  <2>2. ~(stage' = "roll" /\ index' > 0)
    BY <1>3 DEF Calculate, Average, Rolled
  <2>3. \A p : Partial(p, Seen) => Partial(p, Seen)'
    BY <2>1 DEF Partial
  <2>4. QED
    BY <2>2, <2>3 DEF SpeedInv
<1>4. CASE RollWindow
  <2>1. Seen' = Seen /\ samples' = samples /\ speed_sum' = speed_sum /\ Seen = Len(samples)
    BY <1>4, SumsStay DEF RollWindow, Seen
  <2>2. PICK p : Partial(p, Seen) /\ (stage = "roll" /\ index > 0 => Tiled(p))
    BY DEF SpeedInv
  <2>3. Tiled(p)'
    BY <1>4, <2>1, <2>2, TileStep DEF RollWindow
  <2>4. Partial(p, Seen)'
    BY <2>1, <2>2 DEF Partial
  <2>5. QED
    BY <2>3, <2>4 DEF SpeedInv
<1>5. QED
  BY <1>1, <1>2, <1>3, <1>4 DEF Next

-----------------------------------------------------------------------------
(* The extremes.                                                           *)

LEMMA RollStep ==
  ASSUME StatsAssumption, IInv, Next
  PROVE  RollInv'
<1> USE DEF IInv
<1>1. CASE ReadSample
  <2>1. has_rolling' = has_rolling /\ ~has_rolling
    BY <1>1 DEF ReadSample, RollInv
  <2>2. QED
    BY <1>1, <2>1, ReadSampleIs DEF RollInv
<1>2. CASE Calculate
  BY <1>2 DEF Calculate, RollInv
<1>3. CASE AddSample
  BY <1>3 DEF AddSample, RollInv
<1>4. CASE Average
  <2>1. /\ index' = 0 /\ samples' = samples /\ has_rolling' = has_rolling /\ ~has_rolling
        /\ stage' \in {"roll", "done"} /\ Len(samples) \in Nat
        /\ stage' = "roll" => Len(samples) >= 3
    BY <1>4 DEF Average, RollInv, TypeOK
  <2>2. QED
    BY <2>1 DEF RollInv
<1>5. CASE RollWindow
  <2>1. /\ index \in Nat /\ index' = index + 1 /\ index + 3 <= Len(samples)
        /\ samples' = samples /\ Len(samples) \in Nat
        /\ stage = "roll" /\ stage' = "roll" /\ has_rolling' = has_rolling
    BY <1>5, RollWindowIs DEF RollWindow, TypeOK
  <2>2. \A i : WindowSum(i)' = WindowSum(i)
    BY <2>1 DEF WindowSum
  <2>3. ASSUME NEW i \in 0 .. index' - 1
        PROVE  min' <= WindowSum(i) /\ WindowSum(i) <= gust'
    <3>1. CASE i = index
      BY <1>5, <3>1, RollWindowIs
    <3>2. CASE i # index
      <4>1. i \in 0 .. index - 1 /\ index > 0 /\ i + 3 <= Len(samples)
        BY <2>1, <3>2
      <4>2. min <= WindowSum(i) /\ WindowSum(i) <= gust
        BY <2>1, <4>1 DEF RollInv
      <4>3. WindowSum(i) \in Nat
        BY <4>1, WindowIs
      <4>4. min' <= min /\ gust <= gust' /\ min \in Nat /\ min' \in Nat /\ gust \in Nat /\ gust' \in Nat
        BY <1>5, <4>1, RollWindowIs
      <4>5. QED
        BY <4>2, <4>3, <4>4
    <3>3. QED
      BY <3>1, <3>2
  <2>4. \E i, j \in 0 .. index' - 1 : min' = WindowSum(i) /\ gust' = WindowSum(j)
    <3>1. index \in 0 .. index' - 1 /\ 0 .. index - 1 \subseteq 0 .. index' - 1
      BY <2>1
    <3>2. CASE index = 0
      BY <1>5, <3>1, <3>2, RollWindowIs
    <3>3. CASE index > 0
      <4>1. PICK i, j \in 0 .. index - 1 : min = WindowSum(i) /\ gust = WindowSum(j)
        BY <2>1, <3>3 DEF RollInv
      <4>2. min' \in {min, WindowSum(index)} /\ gust' \in {gust, WindowSum(index)}
        BY <1>5, <3>3, RollWindowIs
      <4>3. \E k \in 0 .. index' - 1 : min' = WindowSum(k)
        BY <3>1, <4>1, <4>2
      <4>4. \E k \in 0 .. index' - 1 : gust' = WindowSum(k)
        BY <3>1, <4>1, <4>2
      <4>5. QED
        BY <4>3, <4>4
    <3>4. QED
      BY <2>1, <3>2, <3>3
  <2>5. Len(samples) >= 3 /\ index' <= Len(samples) - 2 /\ ~has_rolling
    BY <2>1 DEF RollInv
  <2>6. QED
    BY <2>1, <2>2, <2>3, <2>4, <2>5 DEF RollInv
<1>6. CASE Rolled
  BY <1>6 DEF Rolled, RollInv
<1>7. QED
  BY <1>1, <1>2, <1>3, <1>4, <1>5, <1>6 DEF Next

\* The loop over the windows ends with the extremes of all of them.
LEMMA RolledIs ==
  ASSUME StatsAssumption, IInv, Rolled
  PROVE  ExtremesHold'
<1> USE DEF IInv
<1>1. /\ samples' = samples /\ min' = min /\ gust' = gust /\ speed_sum' = speed_sum
      /\ has_rolling' = TRUE /\ stage' = "done" /\ stage = "roll"
      /\ Len(samples) \in Nat /\ Len(samples) >= 3
      /\ index \in Nat /\ index = Len(samples) - 2 /\ index > 0
      /\ min \in Nat /\ gust \in Nat /\ speed_sum \in Nat
  BY DEF Rolled, TypeOK, RollInv
<1>2. \A i : WindowSum(i)' = WindowSum(i)
  BY <1>1 DEF WindowSum
<1>3. Runs' = 0 .. index - 1
  BY <1>1 DEF Runs
<1>4. /\ \A i \in 0 .. index - 1 : min <= WindowSum(i) /\ WindowSum(i) <= gust
      /\ \E i, j \in 0 .. index - 1 : min = WindowSum(i) /\ gust = WindowSum(j)
  BY <1>1 DEF RollInv
<1>5. RollingIsExtreme'
  BY <1>1, <1>2, <1>3, <1>4 DEF RollingIsExtreme
<1>6. AverageIsBetween'
  <2>1. SUFFICES ASSUME Len(samples) % 3 = 0
                 PROVE  /\ min * Len(samples) <= speed_sum * 3
                        /\ speed_sum * 3 <= gust * Len(samples)
    BY <1>1 DEF AverageIsBetween
  <2>2. PICK p : Partial(p, Len(samples)) /\ Tiled(p)
    BY <1>1 DEF SpeedInv, Seen
  <2>3. PICK m \in Nat : Len(samples) = 3 * m
    <3>1. Len(samples) \div 3 \in Nat /\ Len(samples) = 3 * (Len(samples) \div 3)
      BY <1>1, <2>1
    <3>2. QED
      BY <3>1
  <2>4. m * min <= p[3 * m] /\ p[3 * m] <= m * gust
    BY <1>1, <2>2, <2>3 DEF Tiled
  <2>5. p[3 * m] = speed_sum
    BY <2>2, <2>3 DEF Partial
  <2>6. m * min \in Nat /\ m * gust \in Nat
    BY <1>1, ProductIs
  <2>7. min * (3 * m) = 3 * (m * min) /\ gust * (3 * m) = 3 * (m * gust)
    BY <1>1
  <2>8. 3 * (m * min) <= speed_sum * 3 /\ speed_sum * 3 <= 3 * (m * gust)
    BY <1>1, <2>4, <2>5, <2>6
  <2>9. QED
    BY <2>3, <2>7, <2>8
<1>7. QED
  BY <1>5, <1>6 DEF ExtremesHold

LEMMA ExtremesStep ==
  ASSUME StatsAssumption, IInv, Next
  PROVE  ExtremesHold'
<1> USE DEF IInv
<1>1. CASE Rolled
  BY <1>1, RolledIs
<1>2. CASE ReadSample \/ AddSample \/ RollWindow \/ Calculate \/ Average
  <2>1. ~has_rolling /\ has_rolling' = has_rolling
    BY <1>2 DEF ReadSample, AddSample, RollWindow, Calculate, Average, RollInv
  <2>2. ~(stage' = "done" /\ Len(samples') >= 3)
    <3>1. Len(samples) \in Nat
      BY DEF TypeOK
    <3>2. CASE ReadSample \/ AddSample \/ RollWindow
      BY <3>2 DEF ReadSample, AddSample, RollWindow
    <3>3. CASE Calculate
      BY <3>1, <3>3 DEF Calculate
    <3>4. CASE Average
      BY <3>1, <3>4 DEF Average
    <3>5. QED
      BY <1>2, <3>2, <3>3, <3>4
  <2>3. QED
    BY <2>1, <2>2 DEF ExtremesHold, RollingIsExtreme, AverageIsBetween
<1>3. QED
  BY <1>1, <1>2 DEF Next

-----------------------------------------------------------------------------
(* The theorems.                                                           *)

LEMMA InitIInv ==
  ASSUME StatsAssumption, Init
  PROVE  IInv
<1>1. TypeOK
  <2>1. samples \in Seq(Readings) /\ Len(samples) = 0 /\ MaxSamples \in Nat
    BY DEF Init, StatsAssumption
  <2>2. turned \in [sin : Int, cos : Int]
    BY DEF Init
  <2>3. stage \in {"read", "sum", "roll", "done"} /\ has_rolling \in BOOLEAN
    BY DEF Init
  <2>4. /\ index = 0 /\ speed_sum = 0 /\ sin_sum = 0 /\ cos_sum = 0
        /\ direction_avg = 0 /\ gust = 0 /\ min = 0
    BY DEF Init
  <2>5. Len(samples) <= MaxSamples /\ index \in 0 .. Len(samples)
    BY <2>1, <2>4
  <2>6. QED
    BY <2>1, <2>2, <2>3, <2>4, <2>5 DEF TypeOK, Sectors
<1>2. SpeedInv
  <2> DEFINE p == [k \in 0 .. 0 |-> 0]
  <2>1. p \in [0 .. 0 -> Nat] /\ p[0] = 0 /\ 0 .. 0 - 1 = {} /\ Seen = 0
    BY DEF Init, Seen
  <2>2. Partial(p, Seen)
    BY <2>1 DEF Partial, Init
  <2>3. QED
    BY <2>2 DEF SpeedInv, Init
<1>3. QuarterInv
  <2>1. \A q \in 0 .. 3 : Along(q) = 0 /\ QuarterOn(q) \in 0 .. 3
    BY AlongItself DEF Along, Init
  <2>2. Seen = 0
    BY DEF Seen, Init
  <2>3. QED
    BY <2>1, <2>2 DEF QuarterInv
<1>4. RollInv /\ TurnInv /\ DirectionInv /\ ExtremesHold
  BY DEF Init, RollInv, TurnInv, DirectionInv, HasAverage, ExtremesHold, RollingIsExtreme,
         AverageIsBetween
<1>5. QED
  BY <1>1, <1>2, <1>3, <1>4 DEF IInv

LEMMA StutterStep ==
  ASSUME IInv, UNCHANGED vars
  PROVE  IInv'
<1> USE DEF IInv
<1>1. TypeOK' /\ RollInv' /\ TurnInv' /\ DirectionInv' /\ ExtremesHold'
  BY DEF TypeOK, RollInv, WindowSum, TurnInv, DirectionInv, HasAverage, ExtremesHold,
         RollingIsExtreme, AverageIsBetween, Runs
<1>2. SpeedInv'
  BY DEF SpeedInv, Partial, Tiled, Seen
<1>3. QuarterInv'
  <2>1. Seen' = Seen /\ samples' = samples
    BY DEF Seen
  <2>2. \A q : Along(q)' = Along(q)
    BY DEF Along
  <2>3. QED
    BY <2>1, <2>2 DEF QuarterInv
<1>4. QED
  BY <1>1, <1>2, <1>3

\* IInv holds in every reachable state of the calculation: the sums go where the wind
\* comes from, and the windows seen lie between minimum and gust, side by side too.
THEOREM Invariant ==
  ASSUME StatsAssumption
  PROVE  Spec => []IInv
<1>1. Init => IInv
  BY InitIInv
<1>2. IInv /\ [Next]_vars => IInv'
  <2>1. SUFFICES ASSUME IInv, [Next]_vars PROVE IInv'
    OBVIOUS
  <2>2. CASE Next
    BY <2>1, <2>2, TypeStep, SpeedStep, RollStep, QuarterStep, TurnStep, DirectionStep,
       ExtremesStep DEF IInv
  <2>3. CASE UNCHANGED vars
    BY <2>1, <2>3, StutterStep
  <2>4. QED
    BY <2>1, <2>2, <2>3
<1>3. QED
  BY <1>1, <1>2, PTL DEF Spec

\* Gust and minimum are the extremes of all windows, and the average of a ring whose
\* samples divide into windows lies between them (main.cpp:308).
THEOREM ExtremesCorrect ==
  ASSUME StatsAssumption
  PROVE  Spec => []ExtremesHold
<1>1. IInv => ExtremesHold
  BY DEF IInv
<1>2. QED
  BY Invariant, <1>1, PTL

-----------------------------------------------------------------------------
(* The mean direction.                                                     *)

\* The quarter on from a sum of sines and cosines is two sectors on.
LEMMA TurnedDirection ==
  ASSUME NEW s \in Int, NEW c \in Int, ~(s = 0 /\ c = 0)
  PROVE  Direction(c, 0 - s) = (Direction(s, c) + 2) % 8
<1>1. /\ Sign(s) \in {-1, 0, 1} /\ Sign(c) \in {-1, 0, 1}
      /\ s = 0 <=> Sign(s) = 0
      /\ c = 0 <=> Sign(c) = 0
      /\ Sign(0 - s) = 0 - Sign(s)
  BY DEF Sign
<1>2. CASE Sign(c) = 1
  <2>1. Atan2(s, c) = Sign(s)
    BY <1>2 DEF Atan2
  <2>2. Atan2(c, 0 - s) = IF Sign(s) = -1 THEN 1 ELSE IF Sign(s) = 0 THEN 2 ELSE 3
    BY <1>1, <1>2 DEF Atan2
  <2>3. QED
    BY <1>1, <2>1, <2>2 DEF Direction, Normalized
<1>3. CASE Sign(c) = 0
  <2>1. Atan2(s, c) = 2 * Sign(s) /\ Sign(s) \in {-1, 1}
    BY <1>1, <1>3 DEF Atan2
  <2>2. Atan2(c, 0 - s) = IF Sign(s) = -1 THEN 0 ELSE 4
    BY <1>1, <1>3 DEF Atan2
  <2>3. QED
    BY <1>1, <2>1, <2>2 DEF Direction, Normalized
<1>4. CASE Sign(c) = -1
  <2>1. Atan2(s, c) = IF Sign(s) = 0 THEN 4 ELSE 3 * Sign(s)
    BY <1>1, <1>4 DEF Atan2
  <2>2. Atan2(c, 0 - s) = IF Sign(s) = -1 THEN -1 ELSE IF Sign(s) = 0 THEN -2 ELSE -3
    BY <1>1, <1>4 DEF Atan2
  <2>3. QED
    BY <1>1, <2>1, <2>2 DEF Direction, Normalized
<1>5. QED
  BY <1>1, <1>2, <1>3, <1>4

\* The signs of the sums are those of the quarters the wind has come from.
LEMMA DirectionAlong ==
  ASSUME sin_sum \in Int, cos_sum \in Int, NEW q \in 0 .. 3,
         Along(q) > 0, Along(QuarterOn(q)) >= 0
  PROVE  Direction(sin_sum, cos_sum) = IF Along(QuarterOn(q)) > 0 THEN 2 * q + 1 ELSE 2 * q
<1>1. QuarterOn(0) = 1 /\ QuarterOn(1) = 2 /\ QuarterOn(2) = 3 /\ QuarterOn(3) = 0
  BY DEF QuarterOn
<1>2. CASE q = 0
  <2>1. cos_sum > 0 /\ sin_sum >= 0 /\ Along(QuarterOn(q)) = sin_sum
    BY <1>1, <1>2 DEF Along
  <2>2. Sign(cos_sum) = 1 /\ Sign(sin_sum) = IF sin_sum > 0 THEN 1 ELSE 0
    BY <2>1 DEF Sign
  <2>3. QED
    BY <1>2, <2>1, <2>2 DEF Direction, Normalized, Atan2
<1>3. CASE q = 1
  <2>1. sin_sum > 0 /\ cos_sum <= 0 /\ Along(QuarterOn(q)) = 0 - cos_sum
    BY <1>1, <1>3 DEF Along
  <2>2. Sign(sin_sum) = 1 /\ Sign(cos_sum) = IF cos_sum < 0 THEN -1 ELSE 0
    BY <2>1 DEF Sign
  <2>3. QED
    BY <1>3, <2>1, <2>2 DEF Direction, Normalized, Atan2
<1>4. CASE q = 2
  <2>1. cos_sum < 0 /\ sin_sum <= 0 /\ Along(QuarterOn(q)) = 0 - sin_sum
    BY <1>1, <1>4 DEF Along
  <2>2. Sign(cos_sum) = -1 /\ Sign(sin_sum) = IF sin_sum < 0 THEN -1 ELSE 0
    BY <2>1 DEF Sign
  <2>3. QED
    BY <1>4, <2>1, <2>2 DEF Direction, Normalized, Atan2
<1>5. CASE q = 3
  <2>1. sin_sum < 0 /\ cos_sum >= 0 /\ Along(QuarterOn(q)) = cos_sum
    BY <1>1, <1>5 DEF Along
  <2>2. Sign(sin_sum) = -1 /\ Sign(cos_sum) = IF cos_sum > 0 THEN 1 ELSE 0
    BY <2>1 DEF Sign
  <2>3. QED
    BY <1>5, <2>1, <2>2 DEF Direction, Normalized, Atan2
<1>6. QED
  BY <1>2, <1>3, <1>4, <1>5

LEMMA MeanIsBetween ==
  ASSUME IInv
  PROVE  BetweenNeighbours
<1> USE DEF IInv
<1>1. SUFFICES ASSUME HasAverage, NEW q \in 0 .. 3, NEW used,
                      used = {samples[i].quarter : i \in DOMAIN samples},
                      used = {q, QuarterOn(q)} \/ used = {q}
               PROVE  /\ used = {q, QuarterOn(q)} => direction_avg = 2 * q + 1
                      /\ used = {q} => direction_avg = 2 * q
  BY DEF BetweenNeighbours
<1>2. /\ direction_avg = Direction(sin_sum, cos_sum) /\ sin_sum \in Int /\ cos_sum \in Int
      /\ DOMAIN samples = 1 .. Len(samples) /\ Seen = Len(samples)
  BY <1>1 DEF DirectionInv, TypeOK, HasAverage, Seen
<1>3. \A k \in 1 .. Seen : samples[k].quarter \in {q, QuarterOn(q)}
  <2>1. \A k \in 1 .. Seen : samples[k].quarter \in used
    BY <1>1, <1>2
  <2>2. QED
    BY <1>1, <2>1
<1>4. /\ Along(q) >= 0 /\ Along(QuarterOn(q)) >= 0
      /\ Along(q) > 0 <=> \E k \in 1 .. Seen : samples[k].quarter = q
      /\ Along(QuarterOn(q)) > 0 <=> \E k \in 1 .. Seen : samples[k].quarter = QuarterOn(q)
  BY <1>3 DEF QuarterInv
<1>5. Along(q) > 0
  BY <1>1, <1>2, <1>4
<1>6. Along(QuarterOn(q)) > 0 <=> QuarterOn(q) \in used
  BY <1>1, <1>2, <1>4
<1>7. QuarterOn(q) # q
  BY AlongItself
<1>8. QED
  BY <1>1, <1>2, <1>4, <1>5, <1>6, <1>7, DirectionAlong

\* The mean direction turns with the wind, across north and south too, and lies between
\* two neighbouring directions (main.cpp:262).
THEOREM DirectionCorrect ==
  ASSUME StatsAssumption
  PROVE  Spec => []DirectionIsMean
<1>1. IInv => DirectionIsMean
  <2>1. SUFFICES ASSUME IInv PROVE TurnsWithWind
    BY MeanIsBetween DEF DirectionIsMean
  <2>2. SUFFICES ASSUME HasAverage, ~(sin_sum = 0 /\ cos_sum = 0)
                 PROVE  Direction(turned.sin, turned.cos) = (direction_avg + 2) % 8
    BY DEF TurnsWithWind
  <2>3. /\ turned.sin = cos_sum /\ turned.cos = 0 - sin_sum
        /\ sin_sum \in Int /\ cos_sum \in Int
        /\ direction_avg = Direction(sin_sum, cos_sum)
    BY <2>1, <2>2 DEF IInv, TurnInv, DirectionInv, TypeOK
  <2>4. QED
    BY <2>2, <2>3, TurnedDirection
<1>2. QED
  BY Invariant, <1>1, PTL

\* Every variable keeps its type; the sums stay whole however long the snapshot is.
THEOREM TypeCorrect ==
  ASSUME StatsAssumption
  PROVE  Spec => []TypeOK
<1>1. IInv => TypeOK
  BY DEF IInv
<1>2. QED
  BY Invariant, <1>1, PTL
=============================================================================
