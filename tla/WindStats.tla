----------------------------- MODULE WindStats ------------------------------
(***************************************************************************)
(* calculate_wind_stats() (main.cpp) over a snapshot of the ring, loop by  *)
(* loop.  Speeds are whole numbers, and averages are kept as sums, so that *)
(* nothing is rounded; printing rounds all of them alike and keeps their   *)
(* order.  Directions are quarters of a turn, for which sine and cosine    *)
(* are exact: 0 north, 1 east, 2 south, 3 west.  A mean direction is given *)
(* as one of eight sectors, the even ones being a quarter exactly.         *)
(***************************************************************************)
EXTENDS Integers, Sequences

CONSTANTS
  Readings,   \* the samples there are: records of speed and quarter
  MaxSamples  \* kWindStatsMaxSamples

StatsAssumption ==
  /\ Readings \subseteq [speed : Nat, quarter : 0 .. 3]
  /\ MaxSamples \in Nat

Window == 3   \* kWindRollingWindowSamples

VARIABLES
  stage,        \* "read", "sum", "roll" or "done"
  samples,
  index,        \* i of the loop that runs
  speed_sum, sin_sum, cos_sum,
  direction_avg, gust, min, has_rolling,   \* of WindStats
  turned        \* history: the sums if all the wind had turned by a quarter

sums == <<speed_sum, sin_sum, cos_sum, turned>>
results == <<direction_avg, gust, min, has_rolling>>
vars == <<stage, samples, index, sums, results>>

Sectors == 0 .. 7
TypeOK ==
  /\ stage \in {"read", "sum", "roll", "done"}
  /\ samples \in Seq(Readings) /\ Len(samples) <= MaxSamples
  /\ index \in 0 .. Len(samples)
  /\ speed_sum \in Nat /\ sin_sum \in Int /\ cos_sum \in Int
  /\ direction_avg \in Sectors /\ gust \in Nat /\ min \in Nat /\ has_rolling \in BOOLEAN
  /\ turned \in [sin : Int, cos : Int]

Init ==
  /\ stage = "read" /\ samples = <<>> /\ index = 0
  /\ speed_sum = 0 /\ sin_sum = 0 /\ cos_sum = 0
  /\ direction_avg = 0 /\ gust = 0 /\ min = 0 /\ has_rolling = FALSE
  /\ turned = [sin |-> 0, cos |-> 0]

-----------------------------------------------------------------------------
(* The snapshot.                                                           *)

ReadSample ==
  /\ stage = "read" /\ Len(samples) < MaxSamples
  /\ \E reading \in Readings : samples' = Append(samples, reading)
  /\ UNCHANGED <<stage, index, sums, results>>

\* Nothing is calculated from an empty ring.
Calculate ==
  /\ stage = "read"
  /\ stage' = IF samples = <<>> THEN "done" ELSE "sum"
  /\ UNCHANGED <<samples, index, sums, results>>

-----------------------------------------------------------------------------
(* The averages.                                                           *)

Sine(quarter) == CASE quarter = 1 -> 1 [] quarter = 3 -> -1 [] OTHER -> 0
Cosine(quarter) == CASE quarter = 0 -> 1 [] quarter = 2 -> -1 [] OTHER -> 0
QuarterOn(quarter) == (quarter + 1) % 4

AddSample ==
  /\ stage = "sum" /\ index < Len(samples)
  /\ index' = index + 1
  /\ LET sample == samples[index + 1] IN
     /\ speed_sum' = speed_sum + sample.speed
     /\ sin_sum' = sin_sum + Sine(sample.quarter)
     /\ cos_sum' = cos_sum + Cosine(sample.quarter)
     /\ turned' = [sin |-> turned.sin + Sine(QuarterOn(sample.quarter)),
                   cos |-> turned.cos + Cosine(QuarterOn(sample.quarter))]
  /\ UNCHANGED <<stage, samples, results>>

\* std::atan2() of a sum of sines and a sum of cosines, by sectors from -3 to 4;
\* 0 if they cancel.
Sign(n) == IF n > 0 THEN 1 ELSE IF n < 0 THEN -1 ELSE 0
Atan2(sin, cos) ==
  CASE Sign(cos) = 1 -> Sign(sin)
    [] Sign(cos) = 0 -> 2 * Sign(sin)
    [] Sign(cos) = -1 -> IF sin = 0 THEN 4 ELSE 3 * Sign(sin)

\* normalize_degrees().  Mutant: only whole turns are taken off.
Normalized_Above(sector) == IF sector >= 8 THEN sector - 8 ELSE sector
Normalized(sector) == IF sector < 0 THEN sector + 8 ELSE sector
Direction(sin, cos) == Normalized(Atan2(sin, cos))

\* The averages are done; fewer samples than a window have nothing that rolls.
Average ==
  /\ stage = "sum" /\ index = Len(samples)
  /\ direction_avg' = Direction(sin_sum, cos_sum)
  /\ stage' = IF Len(samples) >= Window THEN "roll" ELSE "done"
  /\ index' = 0
  /\ UNCHANGED <<samples, sums, gust, min, has_rolling>>

-----------------------------------------------------------------------------
(* The windows.                                                            *)

WindowSum(i) == samples[i + 1].speed + samples[i + 2].speed + samples[i + 3].speed
Larger(a, b) == IF a >= b THEN a ELSE b
Smaller(a, b) == IF a <= b THEN a ELSE b

\* Gust and minimum are the first window's, then the larger and the smaller.
\* Mutant: the minimum begins with calm.
Seed_Calm(sum) == gust' = sum /\ min' = 0
Seed(sum) == gust' = sum /\ min' = sum

RollWindow ==
  /\ stage = "roll" /\ index + Window <= Len(samples)
  /\ index' = index + 1
  /\ IF index = 0 THEN Seed(WindowSum(index))
     ELSE /\ gust' = Larger(gust, WindowSum(index))
          /\ min' = Smaller(min, WindowSum(index))
  /\ UNCHANGED <<stage, samples, sums, direction_avg, has_rolling>>

Rolled ==
  /\ stage = "roll" /\ index + Window > Len(samples)
  /\ stage' = "done" /\ has_rolling' = TRUE
  /\ UNCHANGED <<samples, index, sums, direction_avg, gust, min>>

Next == ReadSample \/ Calculate \/ AddSample \/ Average \/ RollWindow \/ Rolled
Spec == Init /\ [][Next]_vars

-----------------------------------------------------------------------------
(* Properties.                                                             *)

\* Gust and minimum are the extremes over all runs of three samples in a row,
\* the first and the last three included (main.cpp:308).
Runs == {i \in 0 .. Len(samples) : i + 3 <= Len(samples)}
RollingIsExtreme ==
  /\ has_rolling <=> stage = "done" /\ Len(samples) >= Window
  /\ has_rolling =>
       /\ \A i \in Runs : min <= WindowSum(i) /\ WindowSum(i) <= gust
       /\ \E i, j \in Runs : min = WindowSum(i) /\ gust = WindowSum(j)

\* A message never has a minimum above its average or an average above its gust,
\* if the ring is full: 120 samples are 40 windows side by side.  With a number
\* of samples that is no multiple of three it may.
AverageIsBetween ==
  has_rolling /\ Len(samples) % Window = 0 =>
    /\ min * Len(samples) <= speed_sum * Window
    /\ speed_sum * Window <= gust * Len(samples)

\* The three speeds of a message are in order, and its extremes are real.
ExtremesHold == RollingIsExtreme /\ AverageIsBetween

HasAverage == stage \in {"roll", "done"} /\ samples # <<>>

\* If all the wind turns by a quarter so does its mean direction, north and the
\* half-turn where atan2 jumps included, unless the directions cancel.
TurnsWithWind ==
  HasAverage /\ ~(sin_sum = 0 /\ cos_sum = 0) =>
    Direction(turned.sin, turned.cos) = (direction_avg + 2) % 8

\* Between two neighbouring quarters the mean lies between them, and with one
\* quarter alone it is that one.
BetweenNeighbours ==
  HasAverage =>
    \A q \in 0 .. 3 :
      LET used == {samples[i].quarter : i \in DOMAIN samples} IN
      /\ used = {q, QuarterOn(q)} => direction_avg = 2 * q + 1
      /\ used = {q} => direction_avg = 2 * q

\* The mean direction lies where the wind comes from, all around.
DirectionIsMean == TurnsWithWind /\ BetweenNeighbours
=============================================================================
