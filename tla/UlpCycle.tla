------------------------------ MODULE UlpCycle ------------------------------
(***************************************************************************)
(* The ULP's measurement cycle (ulp/main.c): ask the sensor to measure     *)
(* (0M!), ask for the data (0D0!), push one sample whatever has come of    *)
(* it, report, and wait for the rest of the second.  SdiLine has how an    *)
(* answer is read and how long that may take, SdiAnswer how it is parsed,  *)
(* WindRing how a sample is pushed.                                        *)
(*                                                                         *)
(* The sensor's n-th measurement has direction n and strength n.  It       *)
(* answers 0D0! with its latest measurement, which may be an old one: an   *)
(* answer does not say.                                                    *)
(***************************************************************************)
EXTENDS Integers, Sequences, FiniteSets

CONSTANTS
  SampleBufLen, \* SDI_SAMPLE_BUF_LEN
  Period,       \* g_loop_period_cycles
  Costs,        \* what a command and its answer may take
  Word,         \* 2 ^ 32, where CCOUNT wraps
  MaxCycles     \* bound: cycles

ASSUME CycleAssumption ==
  /\ SampleBufLen \in Nat \ {0} /\ Period \in Nat /\ MaxCycles \in Nat
  /\ Costs \subseteq Nat /\ Costs # {} /\ Word \in Nat
  /\ Period < Word /\ \A c, d \in Costs : c + d < Word

VARIABLES
  phase,         \* sdi_phase, by name
  sdi_status, sdi_parse_status, sdi_m_status, sdi_d_status,
  answer,        \* sdi_d_rx_buf: what the fields of the answer to 0D0! say
  sdi_sample_count, sdi_sequence,
  sdi_report_sequence, report,   \* sdi_report_*
  ccount, loop_start,
  measured,      \* the sensor: its measurements so far
  log,           \* history: the samples pushed
  own,           \* history: the measurement that 0M! of this cycle has started
  stray,         \* history: a stray byte passed for the answer to 0M!
  elapsed        \* history: time since the loop began

status == <<sdi_status, sdi_parse_status, sdi_m_status, sdi_d_status, answer>>
reports == <<sdi_sequence, sdi_report_sequence, report>>
time == <<ccount, loop_start, elapsed>>
pushed == <<log, sdi_sample_count>>
vars == <<phase, status, reports, time, pushed, measured, own, stray>>

Statuses == {"IDLE", "OK", "TIMEOUT", "FRAMING"}
NoAnswer == [direction |-> 0, strength |-> 0, fields |-> 0]
NoSample == [direction |-> 0, strength |-> 0]
Nothing == [m |-> "IDLE", d |-> "IDLE", parse |-> "IDLE"]

TypeOK ==
  /\ phase \in {"measure", "data", "push", "status", "report", "wait"}
  /\ {sdi_status, sdi_parse_status, sdi_m_status, sdi_d_status} \subseteq Statuses
  /\ answer \in [direction : Nat, strength : Nat, fields : 0 .. 2]
  /\ sdi_sample_count \in 0 .. SampleBufLen
  /\ sdi_sequence \in Nat /\ sdi_report_sequence \in Nat
  /\ report \in [m : Statuses, d : Statuses, parse : Statuses]
  /\ ccount \in 0 .. Word - 1 /\ loop_start \in 0 .. Word - 1 /\ elapsed \in Nat
  /\ measured \in Nat /\ own \in Nat /\ stray \in BOOLEAN
  /\ log \in Seq([direction : Nat, strength : Nat])

Init ==
  /\ phase = "measure"
  /\ sdi_status = "IDLE" /\ sdi_parse_status = "IDLE"
  /\ sdi_m_status = "IDLE" /\ sdi_d_status = "IDLE" /\ answer = NoAnswer
  /\ sdi_sample_count = 0 /\ log = <<>>
  /\ sdi_sequence = 0 /\ sdi_report_sequence = 0 /\ report = Nothing
  /\ ccount \in 0 .. Word - 1 /\ loop_start = ccount /\ elapsed = 0
  /\ measured = 0 /\ own = 0 /\ stray = FALSE

Passes(cost) ==
  /\ ccount' = (ccount + cost) % Word
  /\ elapsed' = elapsed + cost
  /\ UNCHANGED loop_start

-----------------------------------------------------------------------------

\* 0M! and its answer.  What the answer says is not looked at: any byte will do.
Measure ==
  /\ phase = "measure"
  /\ phase' = "data"
  /\ \E heard, answered, noise \in BOOLEAN, cost \in Costs :
       /\ answered => heard
       /\ noise => ~heard
       /\ measured' = IF heard THEN measured + 1 ELSE measured
       /\ own' = IF heard THEN measured + 1 ELSE 0
       /\ stray' = noise
       /\ sdi_m_status' = IF answered \/ noise THEN "OK" ELSE "TIMEOUT"
       /\ Passes(cost)
  /\ UNCHANGED <<sdi_status, sdi_parse_status, sdi_d_status, answer, reports, pushed>>

\* 0D0! and its answer: all of its fields, or with the strength unreadable, or
\* the direction too; or no answer.
Answers ==
  {NoAnswer} \cup
    IF measured = 0 THEN {}
    ELSE {[direction |-> measured, strength |-> 0, fields |-> 1],
          [direction |-> measured, strength |-> measured, fields |-> 2]}

Data ==
  /\ phase = "data"
  /\ phase' = "push"
  /\ \/ /\ sdi_d_status' = "OK"
        /\ answer' \in Answers
     \/ sdi_d_status' = "TIMEOUT" /\ answer' = NoAnswer
  /\ \E cost \in Costs : Passes(cost)
  /\ UNCHANGED <<sdi_status, sdi_parse_status, sdi_m_status, reports, pushed,
                 measured, own, stray>>

\* parse_d0_fields() writes the direction before it comes to the strength.
\* Mutant: what it wrote is pushed.
Sample_AsParsed ==
  IF sdi_d_status = "OK"
  THEN [direction |-> answer.direction, strength |-> answer.strength]
  ELSE NoSample
Sample ==
  IF sdi_d_status = "OK" /\ answer.fields = 2
  THEN [direction |-> answer.direction, strength |-> answer.strength]
  ELSE NoSample

Parsed ==
  IF sdi_d_status # "OK" THEN sdi_parse_status
  ELSE IF answer.fields = 2 THEN "OK" ELSE "FRAMING"

\* A failed cycle pushes too.  Mutant: it does not.
NewSamples_Good == IF sdi_d_status = "OK" /\ answer.fields = 2 THEN <<Sample>> ELSE <<>>
NewSamples == <<Sample>>

\* Mutant: the count goes on when the ring is full.
Counted_On(n) == n
Counted(n) == IF n < SampleBufLen THEN n ELSE SampleBufLen

Push ==
  /\ phase = "push"
  /\ phase' = "status"
  /\ sdi_parse_status' = Parsed
  /\ log' = log \o NewSamples
  /\ sdi_sample_count' = Counted(sdi_sample_count + Len(NewSamples))
  /\ UNCHANGED <<sdi_status, sdi_m_status, sdi_d_status, answer, reports, time,
                 measured, own, stray>>

Overall == IF sdi_m_status = "OK" /\ sdi_d_status = "OK" THEN "OK" ELSE "TIMEOUT"

Status ==
  /\ phase = "status"
  /\ phase' = "report"
  /\ sdi_status' = Overall
  /\ report' = [m |-> sdi_m_status, d |-> sdi_d_status, parse |-> sdi_parse_status]
  /\ UNCHANGED <<sdi_parse_status, sdi_m_status, sdi_d_status, answer, sdi_sequence,
                 sdi_report_sequence, time, pushed, measured, own, stray>>

Report ==
  /\ phase = "report"
  /\ phase' = "wait"
  /\ sdi_sequence' = sdi_sequence + 1
  /\ sdi_report_sequence' = sdi_sequence + 1
  /\ UNCHANGED <<status, report, time, pushed, measured, own, stray>>

\* sdi_wait_for_next_cycle().  Mutant: the counter is compared with its target.
Over_Target == ccount >= (loop_start + Period) % Word
Over == (ccount - loop_start) % Word >= Period

Wait ==
  /\ phase = "wait" /\ ~Over
  /\ Passes(1)
  /\ UNCHANGED <<phase, status, reports, pushed, measured, own, stray>>

\* The next cycle, with reset_cycle_state().
NextCycle ==
  /\ phase = "wait" /\ Over
  /\ Len(log) < MaxCycles
  /\ phase' = "measure"
  /\ sdi_status' = "IDLE" /\ sdi_parse_status' = "IDLE"
  /\ sdi_m_status' = "IDLE" /\ sdi_d_status' = "IDLE"
  /\ loop_start' = ccount /\ elapsed' = 0
  /\ own' = 0 /\ stray' = FALSE
  /\ UNCHANGED <<answer, reports, ccount, pushed, measured>>

Next == Measure \/ Data \/ Push \/ Status \/ Report \/ Wait \/ NextCycle
Spec == Init /\ [][Next]_vars

-----------------------------------------------------------------------------
(* Properties.                                                             *)

Pushed == (<<NoSample>> \o log)[Len(log) + 1]

\* No sample is one half of an answer (main.c:137).
NoHalfSample == \A i \in 1 .. Len(log) : log[i].direction = log[i].strength

\* The sample is the measurement of this cycle or none at all.  An old one, the
\* answer to 0D0! when 0M! was not heard, is pushed too, but then the status
\* says so, unless a stray byte passed for the answer to 0M! (main.c:236).
StaleIsTold ==
  phase \in {"report", "wait"} =>
    Pushed.strength \in {0, own} \/ sdi_status # "OK" \/ stray

\* A zero that stands for no measurement can be told from calm by the report.
ZeroIsTold ==
  phase \in {"report", "wait"} =>
    (Pushed.strength = 0 <=> ~(report.d = "OK" /\ report.parse = "OK"))

\* Whatever becomes of the two commands, the sample and the report belong together
\* (main.c:229).
SampleIsTold == NoHalfSample /\ StaleIsTold /\ ZeroIsTold

\* attach_shared_state() takes any report for a running ULP with samples: at no
\* point of a cycle has one been made without a sample in the ring.
ReportedHasSample ==
  /\ sdi_report_sequence # 0 => sdi_sample_count > 0
  /\ sdi_report_sequence <= Len(log)

Longest(a, b) == IF a >= b THEN a ELSE b
CycleTime == \E c, d \in Costs : elapsed <= Longest(c + d, Period)

\* Two cycles begin a second apart at least, at whatever value the counter
\* started and wrapped, and never more than that unless the sensor took longer:
\* the samples in the ring are of one second each (sdi.c:272).
EverySecond == [][CycleTime' /\ (NextCycle => elapsed >= Period)]_vars
=============================================================================
