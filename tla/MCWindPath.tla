----------------------------- MODULE MCWindPath -----------------------------
(***************************************************************************)
(* The modules on the way of a wind sample, checked in one run: the cycle  *)
(* of the ULP, a call of sdi_recv_line(), the bytes on the line, the       *)
(* parser, the statistics.  They share no variable, so they are put side   *)
(* by side and not composed: the initial state picks the part that moves,  *)
(* and the others stay in one of their initial states.                     *)
(***************************************************************************)
EXTENDS UlpCycle, SdiLine, SdiAnswer

CONSTANTS
  BitTicks, SensorBits, SentChars, Pauses, MaxBytes,  \* of SdiByte
  MaxSamples                                          \* of WindStats

VARIABLES
  part,
  sensor_bit, lag, sent, got, count, command, command_heard,
  stage, samples, index, speed_sum, sin_sum, cos_sum, direction_avg, gust, min, has_rolling, turned

byte_vars == <<sensor_bit, lag, sent, got, count, command, command_heard>>
stats_vars == <<stage, samples, index, speed_sum, sin_sum, cos_sum, direction_avg, gust, min,
                has_rolling, turned>>

\* Calm, which has the direction of north, and a wind from every quarter.
SomeReadings ==
  {[speed |-> 0, quarter |-> 0], [speed |-> 4, quarter |-> 0], [speed |-> 1, quarter |-> 1],
   [speed |-> 2, quarter |-> 2], [speed |-> 7, quarter |-> 3]}

Bytes == INSTANCE SdiByte WITH Chars <- SentChars, heard <- command_heard
Stats == INSTANCE WindStats WITH Readings <- SomeReadings

ASSUME PathAssumption ==
  Bytes!ByteAssumption /\ AnswerAssumption /\ Stats!StatsAssumption

PathInit ==
  /\ part \in {"cycle", "line", "bytes", "answer", "stats"}
  /\ Init /\ LineInit /\ Bytes!Init /\ AnswerInit /\ Stats!Init
  /\ part # "cycle" => ccount = 0
  /\ part # "bytes" => sensor_bit = BitTicks

CyclePart ==
  /\ part = "cycle" /\ Next
  /\ UNCHANGED <<part, line_vars, byte_vars, sdi_d_rx_buf, stats_vars>>
LinePart ==
  /\ part = "line" /\ LineNext
  /\ UNCHANGED <<part, vars, byte_vars, sdi_d_rx_buf, stats_vars>>
BytesPart ==
  /\ part = "bytes" /\ Bytes!Next
  /\ UNCHANGED <<part, vars, line_vars, sdi_d_rx_buf, stats_vars>>
AnswerPart ==
  /\ part = "answer" /\ AnswerNext
  /\ UNCHANGED <<part, vars, line_vars, byte_vars, stats_vars>>
StatsPart ==
  /\ part = "stats" /\ Stats!Next
  /\ UNCHANGED <<part, vars, line_vars, byte_vars, sdi_d_rx_buf>>

PathNext == CyclePart \/ LinePart \/ BytesPart \/ AnswerPart \/ StatsPart
PathSpec == PathInit /\ [][PathNext]_<<part, vars, line_vars, byte_vars, sdi_d_rx_buf, stats_vars>>

-----------------------------------------------------------------------------
(* The properties of the parts that are instances, under their own names.  *)

\* Every variable of every part keeps its type; the buffer of the receive loop is
\* not overrun, and the count of the ring stops at its length.
PathTypeOK == TypeOK /\ LineTypeOK /\ AnswerTypeOK /\ Bytes!TypeOK /\ Stats!TypeOK

\* A ULP that is at most a twenty-fourth part faster than the sensor reads every
\* byte of a line of any length, one that is slower as many as its lag allows, and
\* the sensor hears every byte of the ULP (ulp_sdi_wind.cpp:154, sdi.c:144).
BytesSurvive == Bytes!BytesSurvive

\* Gust and minimum are the extremes of all windows, and the average of a full ring
\* lies between them (main.cpp:308).
ExtremesHold == Stats!ExtremesHold

\* The mean direction turns with the wind, across north and south too, and lies
\* between two neighbouring directions (main.cpp:262).
DirectionIsMean == Stats!DirectionIsMean
=============================================================================
