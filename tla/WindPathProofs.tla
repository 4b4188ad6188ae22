--------------------------- MODULE WindPathProofs ---------------------------
(***************************************************************************)
(* Proofs about the way of a wind sample.  Three parts of MCWindPath have  *)
(* their proofs here: UlpCycle, for every ring, period, counter width and  *)
(* set of command times, SdiLine, for every buffer, timeout and byte time, *)
(* and SdiAnswer, for every alphabet, length and integer width.  SdiByte   *)
(* and WindStats have theirs in modules of their own.  In the end all of   *)
(* them are put side by side, as they run.                                 *)
(***************************************************************************)
EXTENDS MCWindPath, FiniteSetTheorems, WellFoundedInduction, SequenceTheorems, TLAPS

-----------------------------------------------------------------------------
(* UlpCycle: the wrapping counter.                                         *)

\* A remainder lies below its modulus, and leaves alone what lies there already.
LEMMA Below ==
  ASSUME NEW x \in Int
  PROVE  /\ x % Word \in 0 .. Word - 1
         /\ x \in 0 .. Word - 1 => x % Word = x
         /\ x \in Word .. 2 * Word - 1 => x % Word = x - Word
         /\ x \in -Word .. -1 => x % Word = x + Word
BY CycleAssumption

\* The counter's distance from the start of the loop is the time that has passed,
\* across a wrap too, as long as that time is less than a whole round.
LEMMA Distance ==
  ASSUME NEW now \in 0 .. Word - 1, NEW start \in 0 .. Word - 1, NEW cost \in Nat,
         NEW past \in Nat, past = (now - start) % Word, past + cost < Word
  PROVE  (((now + cost) % Word) - start) % Word = past + cost
<1>1. past = IF now >= start THEN now - start ELSE now - start + Word
  <2>1. now >= start => now - start \in 0 .. Word - 1
    BY CycleAssumption
  <2>2. ~(now >= start) => now - start \in -Word .. -1
    BY CycleAssumption
  <2>3. now - start \in Int
    BY CycleAssumption
  <2>4. QED
    BY <2>1, <2>2, <2>3, Below
<1> DEFINE next == (now + cost) % Word
<1>2. next = IF now + cost < Word THEN now + cost ELSE now + cost - Word
  <2>1. now + cost \in Int /\ now + cost \in 0 .. 2 * Word - 1
    BY CycleAssumption
  <2>2. CASE now + cost < Word
    <3>1. now + cost \in 0 .. Word - 1
      BY <2>1, <2>2, CycleAssumption
    <3>2. QED
      BY <2>1, <2>2, <3>1, Below
  <2>3. CASE ~(now + cost < Word)
    <3>1. now + cost \in Word .. 2 * Word - 1
      BY <2>1, <2>3, CycleAssumption
    <3>2. QED
      BY <2>1, <2>3, <3>1, Below, CycleAssumption
  <2>4. QED
    BY <2>2, <2>3
<1>3. next \in 0 .. Word - 1 /\ next - start \in Int
  BY <1>2, CycleAssumption
<1>4. CASE next >= start
  <2>1. (next - start) % Word = next - start
    BY <1>3, <1>4, Below, CycleAssumption
  <2>2. QED
    BY <2>1, <1>1, <1>2, <1>4, CycleAssumption
<1>5. CASE ~(next >= start)
  <2>1. (next - start) % Word = next - start + Word
    <3>1. next - start \in -Word .. -1
      BY <1>3, <1>5, CycleAssumption
    <3>2. QED
      BY <1>3, <3>1, Below
  <2>2. QED
    BY <2>1, <1>1, <1>2, <1>5, CycleAssumption
<1>6. QED
  BY <1>4, <1>5
-----------------------------------------------------------------------------
(* UlpCycle: the inductive invariant.                                      *)

\* What 0M! has left behind: if it was answered, the sensor has measured.
MeasuredInv ==
  phase \in {"data", "push", "status"} /\ sdi_m_status = "OK" => own = measured \/ stray

\* An answer with all of its fields is the latest measurement.
AnswerInv ==
  /\ answer.fields = 2 => answer.strength = answer.direction
  /\ phase = "push" /\ sdi_d_status = "OK" /\ answer.fields = 2 =>
       answer.strength = measured /\ measured > 0
  /\ phase = "push" /\ sdi_d_status # "OK" => sdi_parse_status = "IDLE"
  /\ phase \in {"measure", "data"} => sdi_parse_status = "IDLE"

\* The sample that has just been pushed, before anything is said about it.
PushedInv ==
  phase = "status" =>
    /\ Pushed.strength \in {0, measured}
    /\ Pushed.strength = 0 <=> ~(sdi_d_status = "OK" /\ sdi_parse_status = "OK")

\* Reports and samples keep step.
CountInv ==
  /\ sdi_report_sequence = sdi_sequence
  /\ Len(log) = IF phase \in {"status", "report"} THEN sdi_sequence + 1 ELSE sdi_sequence
  /\ Len(log) > 0 => sdi_sample_count > 0

\* The time that has passed in each phase, and what the counter shows of it.
TimeInv ==
  /\ elapsed = (ccount - loop_start) % Word
  /\ phase = "measure" => elapsed = 0
  /\ phase = "data" => elapsed \in Costs
  /\ phase \in {"push", "status", "report"} => \E c, d \in Costs : elapsed = c + d

IInv ==
  /\ TypeOK
  /\ MeasuredInv /\ AnswerInv /\ PushedInv /\ CountInv /\ TimeInv
  /\ NoHalfSample /\ StaleIsTold /\ ZeroIsTold /\ CycleTime

USE DEF status, reports, time, pushed, vars

-----------------------------------------------------------------------------
(* UlpCycle: every step keeps it, part by part.                            *)

\* The state at the start of the ULP program.
LEMMA InitIInv == Init => IInv
<1> SUFFICES ASSUME Init PROVE IInv
  OBVIOUS
<1>1. TypeOK
  <2>1. answer \in [direction : Nat, strength : Nat, fields : 0 .. 2]
    BY DEF Init, NoAnswer
  <2>2. report \in [m : Statuses, d : Statuses, parse : Statuses]
    BY DEF Init, Nothing, Statuses
  <2>3. sdi_sample_count \in 0 .. SampleBufLen /\ log \in Seq([direction : Nat, strength : Nat])
    BY CycleAssumption DEF Init
  <2>4. QED
    BY <2>1, <2>2, <2>3 DEF Init, TypeOK, Statuses
<1>2. TimeInv /\ CycleTime
  <2>1. 0 \in Int /\ 0 \in 0 .. Word - 1 /\ ccount - loop_start = 0
    BY CycleAssumption DEF Init
  <2>2. 0 % Word = 0
    BY <2>1, Below
  <2>3. TimeInv
    BY <2>1, <2>2 DEF Init, TimeInv
  <2>4. CycleTime
    <3>1. PICK c \in Costs : c \in Nat
      BY CycleAssumption
    <3>2. elapsed <= Longest(c + c, Period)
      BY <3>1, CycleAssumption DEF Init, Longest
    <3>3. QED
      BY <3>2 DEF CycleTime
  <2>5. QED
    BY <2>3, <2>4
<1>3. MeasuredInv /\ AnswerInv /\ PushedInv /\ CountInv /\ NoHalfSample /\ StaleIsTold /\ ZeroIsTold
  BY DEF Init, MeasuredInv, AnswerInv, PushedInv, CountInv, NoHalfSample, StaleIsTold,
     ZeroIsTold, NoAnswer
<1>4. QED
  BY <1>1, <1>2, <1>3 DEF IInv

\* What a push adds: one sample, whose two halves belong together.
LEMMA SampleIs ==
  ASSUME TypeOK, AnswerInv
  PROVE  /\ Sample \in [direction : Nat, strength : Nat]
         /\ Sample.direction = Sample.strength
         /\ ~(sdi_d_status = "OK" /\ answer.fields = 2) => Sample.strength = 0
         /\ sdi_d_status = "OK" /\ answer.fields = 2 => Sample.strength = answer.strength
BY DEF TypeOK, AnswerInv, Sample, NoSample

\* An answer of the sensor is typed, and complete only if it has measured.
LEMMA AnswerIs ==
  ASSUME TypeOK, NEW a \in Answers \cup {NoAnswer}
  PROVE  /\ a \in [direction : Nat, strength : Nat, fields : 0 .. 2]
         /\ a.fields = 2 => a.direction = measured /\ a.strength = measured /\ measured > 0
BY DEF TypeOK, Answers, NoAnswer

\* The variables keep their types.
LEMMA TypeStep == IInv /\ [Next]_vars => TypeOK'
<1> SUFFICES ASSUME IInv, [Next]_vars PROVE TypeOK'
  OBVIOUS
<1> USE DEF IInv
<1>0. ASSUME NEW cost \in Nat PROVE (ccount + cost) % Word \in 0 .. Word - 1
  <2>1. ccount + cost \in Int
    BY <1>0, CycleAssumption DEF TypeOK
  <2>2. QED
    BY <2>1, Below
<1>1. CASE Measure
  BY <1>0, <1>1, CycleAssumption DEF Measure, Passes, TypeOK, Statuses
<1>2. CASE Data
  <2>1. answer' \in [direction : Nat, strength : Nat, fields : 0 .. 2]
    BY <1>2, AnswerIs DEF Data
  <2>2. QED
    BY <1>0, <1>2, <2>1, CycleAssumption DEF Data, Passes, TypeOK, Statuses
<1>3. CASE Push
  <2>1. log' \in Seq([direction : Nat, strength : Nat])
    BY <1>3, SampleIs DEF Push, NewSamples, TypeOK
  <2>2. sdi_sample_count' \in 0 .. SampleBufLen
    BY <1>3, CycleAssumption DEF Push, NewSamples, Counted, TypeOK
  <2>3. QED
    BY <1>3, <2>1, <2>2 DEF Push, Parsed, TypeOK, Statuses
<1>4. CASE Status
  BY <1>4 DEF Status, Overall, TypeOK, Statuses
<1>5. CASE Report
  BY <1>5 DEF Report, TypeOK
<1>6. CASE Wait
  BY <1>0, <1>6 DEF Wait, Passes, TypeOK
<1>7. CASE NextCycle
  BY <1>7 DEF NextCycle, TypeOK, Statuses
<1>8. CASE UNCHANGED vars
  BY <1>8 DEF TypeOK
<1>9. QED
  BY <1>1, <1>2, <1>3, <1>4, <1>5, <1>6, <1>7, <1>8 DEF Next

\* The counter and the time keep step, and no cycle is longer than its commands
\* or its period.
LEMMA TimeStep == IInv /\ [Next]_vars => TimeInv' /\ CycleTime'
<1> SUFFICES ASSUME IInv, [Next]_vars PROVE TimeInv' /\ CycleTime'
  OBVIOUS
<1> USE DEF IInv
<1>0. ASSUME NEW cost \in Nat, Passes(cost), elapsed + cost < Word
      PROVE  elapsed' = (ccount' - loop_start') % Word
  <2>1. /\ ccount \in 0 .. Word - 1 /\ loop_start \in 0 .. Word - 1 /\ elapsed \in Nat
        /\ elapsed = (ccount - loop_start) % Word
    BY DEF TypeOK, TimeInv
  <2>2. (((ccount + cost) % Word) - loop_start) % Word = elapsed + cost
    BY <1>0, <2>1, Distance
  <2>3. QED
    BY <1>0, <2>2 DEF Passes
<1>1. CASE Measure
  <2>1. PICK cost \in Costs : Passes(cost)
    BY <1>1 DEF Measure
  <2>2. cost \in Nat /\ elapsed = 0 /\ elapsed + cost < Word /\ elapsed' = cost
    <3>1. cost \in Nat /\ cost + cost < Word
      BY CycleAssumption
    <3>2. QED
      BY <1>1, <2>1, <3>1, CycleAssumption DEF Measure, TimeInv, Passes
  <2>3. TimeInv'
    BY <1>0, <1>1, <2>1, <2>2 DEF Measure, TimeInv
  <2>4. CycleTime'
    <3>1. elapsed' <= Longest(cost + cost, Period)
      BY <2>2, CycleAssumption DEF Longest
    <3>2. QED
      BY <3>1 DEF CycleTime
  <2>5. QED
    BY <2>3, <2>4
<1>2. CASE Data
  <2>1. PICK cost \in Costs : Passes(cost)
    BY <1>2 DEF Data
  <2>2. /\ cost \in Nat /\ elapsed \in Costs /\ elapsed + cost < Word
        /\ elapsed' = elapsed + cost
    BY <1>2, <2>1, CycleAssumption DEF Data, TimeInv, Passes
  <2>3. TimeInv'
    BY <1>0, <1>2, <2>1, <2>2 DEF Data, TimeInv
  <2>4. CycleTime'
    <3>1. elapsed' <= Longest(elapsed + cost, Period)
      BY <2>2, CycleAssumption DEF Longest
    <3>2. QED
      BY <2>2, <3>1 DEF CycleTime
  <2>5. QED
    BY <2>3, <2>4
<1>3. CASE Push \/ Status \/ Report
  BY <1>3 DEF Push, Status, Report, TimeInv, CycleTime
<1>4. CASE Wait
  <2>1. elapsed < Period /\ Passes(1)
    BY <1>4, CycleAssumption DEF Wait, Over, TimeInv, TypeOK
  <2>2. elapsed + 1 < Word /\ elapsed' = elapsed + 1 /\ elapsed' <= Period
    BY <2>1, CycleAssumption DEF Passes, TypeOK
  <2>3. TimeInv'
    BY <1>0, <1>4, <2>1, <2>2 DEF Wait, TimeInv
  <2>4. PICK c \in Costs : c \in Nat
    BY CycleAssumption
  <2>5. elapsed' <= Longest(c + c, Period)
    BY <2>2, <2>4, CycleAssumption DEF Longest, TypeOK
  <2>6. CycleTime'
    BY <2>5 DEF CycleTime
  <2>7. QED
    BY <2>3, <2>6
<1>5. CASE NextCycle
  <2>1. elapsed' = 0 /\ loop_start' = ccount' /\ phase' = "measure" /\ ccount \in Int
    BY <1>5 DEF NextCycle, TypeOK
  <2>2. 0 % Word = 0
    BY Below, CycleAssumption
  <2>3. TimeInv'
    BY <1>5, <2>1, <2>2 DEF NextCycle, TimeInv
  <2>4. CycleTime'
    <3>1. PICK c \in Costs : c \in Nat
      BY CycleAssumption
    <3>2. elapsed' <= Longest(c + c, Period)
      BY <2>1, <3>1, CycleAssumption DEF Longest
    <3>3. QED
      BY <3>2 DEF CycleTime
  <2>5. QED
    BY <2>3, <2>4
<1>6. CASE UNCHANGED vars
  BY <1>6 DEF TimeInv, CycleTime
<1>7. QED
  BY <1>1, <1>2, <1>3, <1>4, <1>5, <1>6 DEF Next

\* Answers, samples, statuses and reports follow one another.
LEMMA SampleStep ==
  IInv /\ [Next]_vars => MeasuredInv' /\ AnswerInv' /\ CountInv' /\ NoHalfSample'
<1> SUFFICES ASSUME IInv, [Next]_vars
             PROVE  MeasuredInv' /\ AnswerInv' /\ CountInv' /\ NoHalfSample'
  OBVIOUS
<1> USE DEF IInv
<1>1. CASE Measure
  BY <1>1 DEF Measure, TypeOK, MeasuredInv, AnswerInv, CountInv, NoHalfSample
<1>2. CASE Data
  <2>1. /\ answer'.fields = 2 => answer'.strength = measured /\ measured > 0
        /\ answer'.fields = 2 => answer'.strength = answer'.direction
    BY <1>2, AnswerIs DEF Data
  <2>2. MeasuredInv' /\ CountInv' /\ NoHalfSample'
    BY <1>2 DEF Data, MeasuredInv, CountInv, NoHalfSample
  <2>3. AnswerInv'
    BY <1>2, <2>1 DEF Data, AnswerInv
  <2>4. QED
    BY <2>2, <2>3
<1>3. CASE Push
  <2>1. log' = Append(log, Sample) /\ Len(log') = Len(log) + 1
    BY <1>3, SampleIs DEF Push, NewSamples, TypeOK
  <2>2. NoHalfSample'
    BY <2>1, SampleIs DEF TypeOK, NoHalfSample
  <2>3. CountInv'
    BY <1>3, <2>1, CycleAssumption DEF Push, NewSamples, Counted, TypeOK, CountInv
  <2>4. MeasuredInv' /\ AnswerInv'
    BY <1>3 DEF Push, MeasuredInv, AnswerInv
  <2>5. QED
    BY <2>2, <2>3, <2>4
<1>4. CASE Status
  BY <1>4 DEF Status, TypeOK, MeasuredInv, AnswerInv, CountInv, NoHalfSample
<1>5. CASE Report
  BY <1>5 DEF Report, TypeOK, MeasuredInv, AnswerInv, CountInv, NoHalfSample
<1>6. CASE Wait
  BY <1>6 DEF Wait, MeasuredInv, AnswerInv, CountInv, NoHalfSample
<1>7. CASE NextCycle
  BY <1>7 DEF NextCycle, MeasuredInv, AnswerInv, CountInv, NoHalfSample
<1>8. CASE UNCHANGED vars
  BY <1>8 DEF MeasuredInv, AnswerInv, CountInv, NoHalfSample
<1>9. QED
  BY <1>1, <1>2, <1>3, <1>4, <1>5, <1>6, <1>7, <1>8 DEF Next

\* What is said of a sample stays true as long as it is the last one.
LEMMA ToldStep == IInv /\ [Next]_vars => PushedInv' /\ StaleIsTold' /\ ZeroIsTold'
<1> SUFFICES ASSUME IInv, [Next]_vars PROVE PushedInv' /\ StaleIsTold' /\ ZeroIsTold'
  OBVIOUS
<1> USE DEF IInv
<1>1. CASE Measure \/ Data \/ NextCycle
  BY <1>1 DEF Measure, Data, NextCycle, PushedInv, StaleIsTold, ZeroIsTold
<1>2. CASE Push
  <2>1. Pushed' = Sample
    BY <1>2, SampleIs DEF Push, NewSamples, Pushed, NoSample, TypeOK
  <2>2. PushedInv'
    BY <1>2, <2>1, SampleIs DEF Push, Parsed, PushedInv, AnswerInv, TypeOK
  <2>3. QED
    BY <1>2, <2>2 DEF Push, StaleIsTold, ZeroIsTold
<1>3. CASE Status
  <2>1. Pushed' = Pushed
    BY <1>3 DEF Status, Pushed
  <2>2. StaleIsTold' /\ ZeroIsTold'
    BY <1>3, <2>1 DEF Status, Overall, PushedInv, MeasuredInv, StaleIsTold, ZeroIsTold
  <2>3. QED
    BY <1>3, <2>2 DEF Status, PushedInv
<1>4. CASE Report \/ Wait \/ UNCHANGED vars
  BY <1>4 DEF Report, Wait, PushedInv, StaleIsTold, ZeroIsTold, Pushed
<1>5. QED
  BY <1>1, <1>2, <1>3, <1>4 DEF Next

-----------------------------------------------------------------------------
(* UlpCycle: what follows.                                                 *)

\* The inductive invariant holds in every reachable state of run_cycle()'s loop.
THEOREM Invariant == Spec => []IInv
<1>1. IInv /\ [Next]_vars => IInv'
  BY TypeStep, TimeStep, SampleStep, ToldStep DEF IInv
<1>2. QED
  BY <1>1, InitIInv, PTL DEF Spec

\* Every variable of the ULP's cycle keeps its type, whatever the counter does.
THEOREM TypeCorrect == Spec => []TypeOK
<1>1. IInv => TypeOK
  BY DEF IInv
<1>2. QED
  BY <1>1, Invariant, PTL

\* The sample and the report belong together: no sample joins a direction with the
\* strength of another answer, an old one is told by the status unless a stray byte
\* passed for the answer to 0M!, and the zero of a failed cycle is told from calm.
THEOREM SampleCorrect == Spec => []SampleIsTold
<1>1. IInv => SampleIsTold
  BY DEF IInv, SampleIsTold
<1>2. QED
  BY <1>1, Invariant, PTL

\* The report counter never runs ahead of the ring.
THEOREM ReportCorrect == Spec => []ReportedHasSample
<1>1. IInv => ReportedHasSample
  BY DEF IInv, TypeOK, CountInv, ReportedHasSample
<1>2. QED
  BY <1>1, Invariant, PTL

\* Two cycles begin at least a period apart, and no longer than their commands or
\* the period, over any wrap of the counter and for every width that a period and
\* two commands fit into.
THEOREM PeriodCorrect == Spec => EverySecond
<1>1. IInv /\ IInv' /\ [Next]_vars
        => [CycleTime' /\ (NextCycle => elapsed >= Period)]_vars
  BY DEF IInv, TimeInv, NextCycle, Over
<1>2. QED
  BY <1>1, Invariant, PTL DEF Spec, EverySecond

-----------------------------------------------------------------------------
(* SdiLine: cutting the blanks off.                                        *)

\* A non-empty set of numbers up to n has a greatest one: of the intervals from
\* one of its members to n there is a smallest.
LEMMA Greatest ==
  ASSUME NEW n \in Nat, NEW A \in SUBSET (0 .. n), A # {}
  PROVE  \E k \in A : \A m \in A : m <= k
<1> DEFINE T == {k .. n : k \in A}
<1>1. T \subseteq FiniteSubsetsOf(0 .. n) /\ T # {}
  <2>1. ASSUME NEW k \in A PROVE k .. n \in FiniteSubsetsOf(0 .. n)
    <3>1. IsFiniteSet(k .. n)
      BY FS_Interval
    <3>2. QED
      BY <3>1 DEF FiniteSubsetsOf
  <2>2. QED
    BY <2>1
<1>2. IsWellFoundedOn(StrictSubsetOrdering(0 .. n), FiniteSubsetsOf(0 .. n))
  BY FS_StrictSubsetOrderingWellFounded
<1>3. PICK x \in T : \A y \in T : ~(<<y, x>> \in StrictSubsetOrdering(0 .. n))
  <2> HIDE DEF T
  <2>1. QED
    BY <1>1, <1>2, WFMin
<1>4. PICK k \in A : x = k .. n
  BY <1>3
<1>5. ASSUME NEW m \in A, ~(m <= k) PROVE FALSE
  <2>1. m .. n \in T
    OBVIOUS
  <2>2. m .. n \subseteq k .. n /\ k \in k .. n /\ k \notin m .. n
    BY <1>5
  <2>3. <<m .. n, k .. n>> \in StrictSubsetOrdering(0 .. n)
    BY <2>2 DEF StrictSubsetOrdering
  <2>4. QED
    BY <1>3, <1>4, <2>1, <2>3
<1>6. QED
  BY <1>5

\* Trimmed() is the sequence up to its last byte that is not blank.
LEMMA TrimmedIs ==
  ASSUME NEW s \in Seq(Chars)
  PROVE  \E n \in 0 .. Len(s) :
           /\ Trimmed(s) = SubSeq(s, 1, n)
           /\ n > 0 => ~Blank(s[n])
           /\ \A i \in n + 1 .. Len(s) : Blank(s[i])
<1> DEFINE A == {k \in 0 .. Len(s) : k > 0 => ~Blank(s[k])}
<1> DEFINE Cut(k) == /\ k > 0 => ~Blank(s[k])
                     /\ \A i \in k + 1 .. Len(s) : Blank(s[i])
<1>1. A # {} /\ A \in SUBSET (0 .. Len(s)) /\ Len(s) \in Nat
  <2>1. 0 \in A
    OBVIOUS
  <2>2. QED
    BY <2>1
<1>2. PICK k \in A : \A m \in A : m <= k
  BY <1>1, Greatest
<1>3. \A i \in k + 1 .. Len(s) : Blank(s[i])
  <2> SUFFICES ASSUME NEW i \in k + 1 .. Len(s), ~Blank(s[i]) PROVE FALSE
    OBVIOUS
  <2>1. i \in A
    BY <1>1
  <2>2. QED
    BY <1>2, <2>1
<1>4. \E n \in 0 .. Len(s) : Cut(n)
  BY <1>2, <1>3
<1> DEFINE c == CHOOSE n \in 0 .. Len(s) : Cut(n)
<1>5. c \in 0 .. Len(s) /\ Cut(c)
  BY <1>4
<1>6. Trimmed(s) = SubSeq(s, 1, c)
  BY DEF Trimmed
<1>7. QED
  BY <1>5, <1>6

-----------------------------------------------------------------------------
(* SdiLine: the inductive invariant.                                       *)

\* Whether a line ends at its i-th byte.
EndsAt(s, i) == s[i - 1] = "cr" /\ s[i] = "lf"

\* As long as the loop runs the buffer has all that came, with room for more, and
\* without an end of line in it.
LoopInv ==
  ~done =>
    /\ buf = heard /\ Len(buf) < RxBufLen - 1
    /\ \A i \in 2 .. Len(buf) : ~EndsAt(buf, i)

\* Every byte has paid for the time before it.
EffortInv ==
  ~done =>
    /\ waited <= Timeout + Blip
    /\ spent <= Len(heard) * (Timeout + ByteTime) + waited

LineInv ==
  /\ LineTypeOK
  /\ LoopInv /\ EffortInv
  /\ BoundedReceive /\ LineIsHeard /\ OneLine

-----------------------------------------------------------------------------
(* SdiLine: every step keeps it.                                           *)

\* A beginning of a sequence ends a line where the sequence has its bytes.
LEMMA PrefixEnds ==
  ASSUME NEW s \in Seq(Chars), NEW i \in 2 .. Len(s)
  PROVE  EndsLine(SubSeq(s, 1, i)) <=> EndsAt(s, i)
BY DEF EndsLine, EndsAt

\* What is left of the time is a plain difference while it is not up.
LEMMA AllowedIs ==
  ASSUME LineTypeOK, ~Expired
  PROVE  Allowed = Timeout - waited /\ Allowed \in Nat
<1>1. Timeout - waited \in 0 .. TimeWord - 1
  BY LineAssumption DEF LineTypeOK, Expired
<1>2. (Timeout - waited) % TimeWord = Timeout - waited
  BY <1>1, LineAssumption
<1>3. QED
  BY <1>1, <1>2 DEF Allowed

\* One more byte pays for one more timeout and its own time.
LEMMA Payment ==
  ASSUME NEW n \in Nat
  PROVE  /\ n * (Timeout + ByteTime) \in Nat
         /\ (n + 1) * (Timeout + ByteTime) = n * (Timeout + ByteTime) + Timeout + ByteTime
BY LineAssumption

\* What Finish() returns of a line that does not end before its last byte.
LEMMA FinishIs ==
  ASSUME NEW s \in Seq(Chars), Finish(s), Len(s) < RxBufLen,
         \A i \in 2 .. Len(s) - 1 : ~EndsAt(s, i)
  PROVE  /\ done' = TRUE /\ buf' \in Seq(Chars) /\ Len(buf') <= Len(s)
         /\ buf' = SubSeq(s, 1, Len(buf'))
         /\ buf' # <<>> => ~Blank(buf'[Len(buf')])
         /\ \A i \in Len(buf') + 1 .. Len(s) : Blank(s[i])
         /\ OneLine'
<1>1. PICK n \in 0 .. Len(s) :
        /\ Trimmed(s) = SubSeq(s, 1, n)
        /\ n > 0 => ~Blank(s[n])
        /\ \A i \in n + 1 .. Len(s) : Blank(s[i])
  BY TrimmedIs
<1>2. buf' = SubSeq(s, 1, n) /\ done' = TRUE
  BY <1>1 DEF Finish
<1>3. /\ buf' \in Seq(Chars) /\ Len(buf') = n
      /\ \A i \in 1 .. n : buf'[i] = s[i]
  BY <1>2
<1>4. buf' # <<>> => ~Blank(buf'[Len(buf')])
  BY <1>1, <1>3
<1>5. OneLine'
  <2> SUFFICES ASSUME NEW i \in 2 .. n, EndsLine(SubSeq(buf', 1, i)) PROVE FALSE
    BY <1>3 DEF OneLine
  <2>1. buf'[i] = "lf" /\ EndsAt(s, i)
    BY <1>3, PrefixEnds DEF EndsAt
  <2>2. i # n
    BY <2>1, <1>1, <1>3 DEF Blank
  <2>3. QED
    BY <2>1, <2>2
<1>6. QED
  BY <1>1, <1>2, <1>3, <1>4, <1>5

\* The call begins with nothing read.
LEMMA InitLineInv == LineInit => LineInv
<1> SUFFICES ASSUME LineInit PROVE LineInv
  OBVIOUS
<1>1. LineTypeOK /\ LoopInv
  <2>1. done = FALSE /\ buf = <<>> /\ heard = <<>> /\ buf \in Seq(Chars) /\ Len(buf) = 0
    BY DEF LineInit
  <2>2. LineTypeOK
    <3>1. waited = 0 /\ spent = 0 /\ heard \in Seq(Chars)
      BY DEF LineInit
    <3>2. 0 < RxBufLen
      BY LineAssumption
    <3>3. QED
      BY <2>1, <3>1, <3>2 DEF LineTypeOK
  <2>3. LoopInv
    BY <2>1, LineAssumption DEF LoopInv
  <2>4. QED
    BY <2>2, <2>3
<1>2. Len(heard) * (Timeout + ByteTime) \in Nat
  BY Payment DEF LineInit
<1>3. EffortInv /\ BoundedReceive
  BY <1>2, LineAssumption DEF LineInit, EffortInv, BoundedReceive
<1>4. LineIsHeard /\ OneLine
  BY DEF LineInit, LineIsHeard, OneLine
<1>5. QED
  BY <1>1, <1>3, <1>4 DEF LineInv

\* The loop ends with nothing more than it had.
LEMMA StopStep ==
  ASSUME LineInv, ~done, Finish(buf), UNCHANGED <<waited, heard>>,
         spent' \in Nat, spent' <= spent + Timeout - waited \/ spent' <= spent
                         \/ (waited <= Timeout /\ spent' < spent + Timeout - waited + Blip)
  PROVE  LineInv'
<1> USE DEF LineInv
<1>1. /\ done' = TRUE /\ buf' \in Seq(Chars) /\ Len(buf') <= Len(buf)
      /\ buf' = SubSeq(buf, 1, Len(buf'))
      /\ buf' # <<>> => ~Blank(buf'[Len(buf')])
      /\ \A i \in Len(buf') + 1 .. Len(buf) : Blank(buf[i])
      /\ OneLine'
  <2>1. buf \in Seq(Chars) /\ Len(buf) < RxBufLen
    BY DEF LineTypeOK
  <2>2. \A i \in 2 .. Len(buf) - 1 : ~EndsAt(buf, i)
    BY <2>1 DEF LoopInv
  <2>3. QED
    BY <2>1, <2>2, FinishIs
<1>2. LineTypeOK'
  <2>1. Len(buf') < RxBufLen
    BY <1>1, LineAssumption DEF LineTypeOK
  <2>2. QED
    BY <1>1, <2>1 DEF LineTypeOK
<1>3. LoopInv' /\ EffortInv'
  BY <1>1 DEF LoopInv, EffortInv
<1>4. LineIsHeard'
  BY <1>1 DEF LoopInv, LineIsHeard
<1>5. BoundedReceive'
  <2>1. Len(heard) \in Nat /\ waited \in Nat /\ spent \in Nat
    BY DEF LineTypeOK
  <2> DEFINE paid == Len(heard) * (Timeout + ByteTime)
  <2>2. paid \in Nat
    BY <2>1, Payment
  <2>3. spent <= paid + waited /\ waited <= Timeout + Blip
    BY DEF EffortInv
  <2> HIDE DEF paid
  <2>4. spent' <= paid + Timeout + Blip
    BY <2>1, <2>2, <2>3, LineAssumption
  <2>5. QED
    BY <2>4 DEF BoundedReceive, paid
<1>6. QED
  BY <1>1, <1>2, <1>3, <1>4, <1>5

\* A line that stays high: the call is over when the time is up.
LEMMA QuietStep == LineInv /\ Quiet => LineInv'
<1> SUFFICES ASSUME LineInv, Quiet PROVE LineInv'
  OBVIOUS
<1>1. ~done /\ ~Expired /\ Finish(buf) /\ spent' = spent + Allowed /\ UNCHANGED <<waited, heard>>
  BY DEF Quiet
<1>2. spent' = spent + Timeout - waited /\ spent' \in Nat
  BY <1>1, AllowedIs, LineAssumption DEF LineInv, LineTypeOK
<1>3. QED
  BY <1>1, <1>2, StopStep

\* The time is up already.
LEMMA ExpiresStep == LineInv /\ Expires => LineInv'
<1> SUFFICES ASSUME LineInv, Expires PROVE LineInv'
  OBVIOUS
<1>1. ~done /\ Finish(buf) /\ UNCHANGED <<waited, spent, heard>>
  BY DEF Expires
<1>2. spent' \in Nat /\ spent' <= spent
  BY <1>1 DEF LineInv, LineTypeOK
<1>3. QED
  BY <1>1, <1>2, StopStep

\* A false start costs what it lasts, or ends the call.
LEMMA FalseStartStep == LineInv /\ FalseStart => LineInv'
<1> SUFFICES ASSUME LineInv, FalseStart PROVE LineInv'
  OBVIOUS
<1>1. PICK w \in 0 .. Allowed :
        IF Blip > Allowed
        THEN Finish(buf) /\ spent' = spent + w + Allowed /\ UNCHANGED waited
        ELSE /\ waited' = waited + w + Blip
             /\ spent' = spent + w + Blip
             /\ UNCHANGED <<done, buf>>
  BY DEF FalseStart
<1>2. ~done /\ ~Expired /\ heard' = heard
  BY DEF FalseStart
<1>3. /\ Allowed = Timeout - waited /\ Allowed \in Nat /\ w \in Nat /\ w <= Allowed
      /\ waited \in Nat /\ spent \in Nat /\ waited <= Timeout
  <2>1. Allowed = Timeout - waited /\ Allowed \in Nat
    BY <1>2, AllowedIs DEF LineInv
  <2>2. QED
    BY <2>1, LineAssumption DEF LineInv, LineTypeOK
<1>4. CASE Blip > Allowed
  <2>1. Finish(buf) /\ spent' = spent + w + Allowed /\ UNCHANGED waited
    BY <1>1, <1>4
  <2>2. spent' \in Nat /\ spent' < spent + Timeout - waited + Blip
    BY <1>3, <1>4, <2>1, LineAssumption
  <2>3. QED
    BY <1>2, <1>3, <2>1, <2>2, StopStep
<1>5. CASE ~(Blip > Allowed)
  <2>1. waited' = waited + w + Blip /\ spent' = spent + w + Blip /\ UNCHANGED <<done, buf, heard>>
    BY <1>1, <1>2, <1>5
  <2>2. LineTypeOK'
    BY <1>3, <2>1, LineAssumption DEF LineInv, LineTypeOK
  <2>3. LoopInv' /\ LineIsHeard' /\ OneLine'
    BY <1>2, <2>1 DEF LineInv, LoopInv, LineIsHeard, OneLine
  <2> DEFINE paid == Len(heard) * (Timeout + ByteTime)
  <2>4. paid \in Nat /\ spent <= paid + waited
    BY <1>2, Payment DEF LineInv, EffortInv, LineTypeOK
  <2>5. waited' <= Timeout + Blip /\ spent' <= paid + waited' /\ spent' <= paid + Timeout + Blip
    <3> HIDE DEF paid
    <3>1. QED
      BY <1>3, <2>1, <2>4, LineAssumption
  <2>6. EffortInv' /\ BoundedReceive'
    BY <2>1, <2>5 DEF LineInv, EffortInv, BoundedReceive
  <2>7. QED
    BY <2>2, <2>3, <2>6 DEF LineInv
<1>6. QED
  BY <1>4, <1>5

\* A byte is stored, is the last one, or comes too late.
LEMMA ByteStep == LineInv /\ Byte => LineInv'
<1> SUFFICES ASSUME LineInv, Byte PROVE LineInv'
  OBVIOUS
<1>1. PICK w \in 0 .. Allowed, ch \in Chars :
        /\ heard' = Append(heard, ch)
        /\ IF ByteTime > Allowed
           THEN Finish(buf) /\ spent' = spent + w + Allowed /\ UNCHANGED waited
           ELSE /\ waited' = 0
                /\ spent' = spent + w + ByteTime
                /\ IF Enough(Append(buf, ch)) THEN Finish(Append(buf, ch))
                   ELSE buf' = Append(buf, ch) /\ UNCHANGED done
  BY DEF Byte
<1>2. /\ ~done /\ ~Expired /\ heard = buf /\ buf \in Seq(Chars) /\ Len(buf) < RxBufLen - 1
      /\ \A i \in 2 .. Len(buf) : ~EndsAt(buf, i)
  BY DEF Byte, LineInv, LineTypeOK, LoopInv
<1>3. /\ Allowed = Timeout - waited /\ Allowed \in Nat /\ w \in Nat /\ w <= Allowed
      /\ waited \in Nat /\ spent \in Nat
  <2>1. Allowed = Timeout - waited /\ Allowed \in Nat
    BY <1>2, AllowedIs DEF LineInv
  <2>2. QED
    BY <2>1 DEF LineInv, LineTypeOK
<1> DEFINE all == Append(buf, ch)
           n == Len(buf)
           paid == n * (Timeout + ByteTime)
<1>4. /\ all \in Seq(Chars) /\ n \in Nat /\ Len(all) = n + 1 /\ all[n + 1] = ch
      /\ \A i \in 1 .. n : all[i] = buf[i]
      /\ heard' = all
  BY <1>1, <1>2
<1>5. \A i \in 2 .. n : ~EndsAt(all, i)
  BY <1>2, <1>4 DEF EndsAt
<1>6. /\ paid \in Nat /\ spent <= paid + waited
      /\ Len(all) * (Timeout + ByteTime) = paid + Timeout + ByteTime
  BY <1>2, <1>4, Payment DEF LineInv, EffortInv
<1> HIDE DEF paid
<1>7. CASE ByteTime > Allowed
  <2>1. Finish(buf) /\ spent' = spent + w + Allowed /\ waited' = waited
    BY <1>1, <1>7
  <2>2. /\ done' = TRUE /\ buf' \in Seq(Chars) /\ Len(buf') <= n
        /\ buf' = SubSeq(buf, 1, Len(buf'))
        /\ buf' # <<>> => ~Blank(buf'[Len(buf')])
        /\ \A i \in Len(buf') + 1 .. n : Blank(buf[i])
        /\ OneLine'
    <3>1. Len(buf) < RxBufLen /\ \A i \in 2 .. Len(buf) - 1 : ~EndsAt(buf, i)
      BY <1>2, <1>4, LineAssumption
    <3>2. QED
      BY <1>2, <2>1, <3>1, FinishIs
  <2>3. LineTypeOK'
    <3>1. spent' \in Nat /\ waited' \in Nat
      BY <1>3, <2>1
    <3>2. Len(buf') < RxBufLen /\ heard' \in Seq(Chars)
      BY <1>2, <1>4, <2>2, LineAssumption
    <3>3. QED
      BY <2>2, <3>1, <3>2 DEF LineTypeOK
  <2>4. LineIsHeard'
    <3>1. buf' = SubSeq(all, 1, Len(buf'))
      BY <1>2, <1>4, <2>2
    <3>2. waited' + ByteTime > Timeout
      BY <1>3, <1>7, <2>1, LineAssumption
    <3>3. \A i \in Len(buf') + 1 .. Len(all) : Blank(all[i]) \/ i = Len(all)
      BY <1>4, <2>2
    <3>4. QED
      BY <1>4, <2>2, <3>1, <3>2, <3>3 DEF LineIsHeard
  <2>5. BoundedReceive'
    <3>1. spent' <= paid + Timeout + ByteTime + Timeout + Blip
      BY <1>3, <1>6, <1>7, <2>1, LineAssumption
    <3>2. Len(heard') < RxBufLen
      BY <1>2, <1>4, LineAssumption
    <3>3. QED
      BY <1>4, <1>6, <3>1, <3>2 DEF BoundedReceive
  <2>6. QED
    BY <2>2, <2>3, <2>4, <2>5 DEF LineInv, LoopInv, EffortInv
<1>8. CASE ~(ByteTime > Allowed)
  <2>1. /\ waited' = 0 /\ spent' = spent + w + ByteTime
        /\ IF Enough(all) THEN Finish(all) ELSE buf' = all /\ UNCHANGED done
    BY <1>1, <1>8
  <2>2. spent' \in Nat /\ waited' \in Nat /\ heard' \in Seq(Chars) /\ Len(all) < RxBufLen
    BY <1>2, <1>3, <1>4, <2>1, LineAssumption
  <2>3. spent' <= paid + Timeout + ByteTime
    BY <1>3, <1>6, <2>1, LineAssumption
  <2>4. BoundedReceive'
    <3>1. spent' <= paid + Timeout + ByteTime + Timeout + Blip
      BY <1>6, <2>2, <2>3, LineAssumption
    <3>2. QED
      BY <1>4, <1>6, <2>2, <3>1 DEF BoundedReceive
  <2>5. CASE Enough(all)
    <3>1. /\ done' = TRUE /\ buf' \in Seq(Chars) /\ Len(buf') <= Len(all)
          /\ buf' = SubSeq(all, 1, Len(buf'))
          /\ buf' # <<>> => ~Blank(buf'[Len(buf')])
          /\ \A i \in Len(buf') + 1 .. Len(all) : Blank(all[i])
          /\ OneLine'
      <4>1. Finish(all) /\ \A i \in 2 .. Len(all) - 1 : ~EndsAt(all, i)
        BY <1>4, <1>5, <2>1, <2>5
      <4>2. QED
        BY <1>4, <2>2, <4>1, FinishIs
    <3>2. LineTypeOK'
      <4>1. Len(buf') < RxBufLen
        BY <2>2, <3>1, <1>4, LineAssumption
      <4>2. QED
        BY <2>2, <3>1, <4>1 DEF LineTypeOK
    <3>3. LineIsHeard'
      BY <1>4, <3>1 DEF LineIsHeard
    <3>4. QED
      BY <2>4, <3>1, <3>2, <3>3 DEF LineInv, LoopInv, EffortInv
  <2>6. CASE ~Enough(all)
    <3>1. buf' = all /\ done' = done
      BY <2>1, <2>6
    <3>2. LineTypeOK'
      BY <1>4, <2>2, <3>1 DEF LineInv, LineTypeOK
    <3>3. Len(all) < RxBufLen - 1 /\ ~EndsLine(all)
      BY <1>4, <2>6, LineAssumption DEF Enough
    <3>4. \A i \in 2 .. Len(all) : ~EndsAt(all, i)
      BY <1>4, <1>5, <3>3 DEF EndsLine, EndsAt
    <3>5. LoopInv'
      BY <1>4, <3>1, <3>3, <3>4 DEF LoopInv
    <3>6. EffortInv'
      BY <1>4, <1>6, <2>1, <2>3, LineAssumption DEF EffortInv
    <3>7. LineIsHeard'
      BY <1>2, <3>1 DEF LineIsHeard
    <3>8. OneLine'
      BY <1>4, <3>1, <3>4, PrefixEnds DEF OneLine
    <3>9. QED
      BY <2>4, <3>2, <3>5, <3>6, <3>7, <3>8 DEF LineInv
  <2>7. QED
    BY <2>5, <2>6
<1>9. QED
  BY <1>7, <1>8

-----------------------------------------------------------------------------
(* SdiLine: what follows.                                                  *)

\* The inductive invariant holds throughout every call of sdi_recv_line().
THEOREM LineInvariant == LineSpec => []LineInv
<1>1. LineInv /\ [LineNext]_line_vars => LineInv'
  <2> SUFFICES ASSUME LineInv, [LineNext]_line_vars PROVE LineInv'
    OBVIOUS
  <2>1. CASE UNCHANGED line_vars
    BY <2>1 DEF line_vars, LineInv, LineTypeOK, LoopInv, EffortInv, BoundedReceive, LineIsHeard, OneLine
  <2>2. QED
    BY <2>1, QuietStep, ExpiresStep, FalseStartStep, ByteStep DEF LineNext
<1>2. QED
  BY <1>1, InitLineInv, PTL DEF LineSpec

\* The buffer is never overrun, whatever the sensor sends.
THEOREM LineTypeCorrect == LineSpec => []LineTypeOK
<1>1. LineInv => LineTypeOK
  BY DEF LineInv
<1>2. QED
  BY <1>1, LineInvariant, PTL

\* However many false starts there are, a call ends within a timeout and a byte
\* for each byte that came, and one timeout more.
THEOREM EffortCorrect == LineSpec => []BoundedReceive
<1>1. LineInv => BoundedReceive
  BY DEF LineInv
<1>2. QED
  BY <1>1, LineInvariant, PTL

\* A call returns one line at most, and that is what was sent, less blanks and a
\* byte out of time.
THEOREM LineCorrect == LineSpec => []LineIsRead
<1>1. LineInv => LineIsRead
  BY DEF LineInv, LineIsRead
<1>2. QED
  BY <1>1, LineInvariant, PTL

-----------------------------------------------------------------------------
(* SdiAnswer: loops as functions of the turns they have made.              *)

\* What holds before the first turn, and is kept by every turn, holds after all.
LEMMA Induct ==
  ASSUME NEW n \in Nat, NEW T, 0 \in T, \A k \in 1 .. n : k - 1 \in T => k \in T
  PROVE  \A k \in 0 .. n : k \in T
<1> DEFINE A == {k \in 0 .. n : \A j \in 0 .. k : j \in T}
<1>1. 0 \in A
  OBVIOUS
<1>2. PICK k \in A : \A m \in A : m <= k
  <2>1. A \in SUBSET (0 .. n) /\ A # {}
    BY <1>1
  <2> HIDE DEF A
  <2>2. QED
    BY <2>1, Greatest
<1>3. CASE k = n
  BY <1>2, <1>3
<1>4. CASE k < n
  <2>1. k + 1 \in T
    BY <1>2, <1>4
  <2>2. k + 1 \in A
    BY <1>2, <1>4, <2>1
  <2>3. QED
    BY <1>2, <2>2
<1>5. QED
  BY <1>2, <1>3, <1>4

\* A loop that makes n turns can be run.
Turns(S, n) == [S \X (1 .. n) -> S]
IsLoop(f, S, first, n, turn) ==
  /\ f \in [0 .. n -> S]
  /\ f[0] = first
  /\ \A k \in 1 .. n : f[k] = turn[<<f[k - 1], k>>]

LEMMA LoopRuns ==
  ASSUME NEW S, NEW first \in S, NEW n \in Nat, NEW turn \in Turns(S, n)
  PROVE  \E f : IsLoop(f, S, first, n, turn)
<1> USE DEF Turns
<1> DEFINE Runs(m, f) == f[0] = first /\ \A k \in 1 .. m : f[k] = turn[<<f[k - 1], k>>]
           T == {m \in 0 .. n : \E f \in [0 .. m -> S] : Runs(m, f)}
<1>1. 0 \in T
  <2>1. [k \in 0 .. 0 |-> first] \in [0 .. 0 -> S] /\ Runs(0, [k \in 0 .. 0 |-> first])
    OBVIOUS
  <2>2. \E f \in [0 .. 0 -> S] : Runs(0, f)
    <3> HIDE DEF Runs
    <3>1. QED
      BY <2>1
  <2>3. QED
    BY <2>2
<1>2. ASSUME NEW m \in 1 .. n, m - 1 \in T PROVE m \in T
  <2>1. PICK f \in [0 .. m - 1 -> S] : Runs(m - 1, f)
    BY <1>2
  <2> DEFINE g == [k \in 0 .. m |-> IF k = m THEN turn[<<f[m - 1], m>>] ELSE f[k]]
  <2>2. g \in [0 .. m -> S]
    <3>1. <<f[m - 1], m>> \in S \X (1 .. n)
      OBVIOUS
    <3>2. turn[<<f[m - 1], m>>] \in S
      BY <3>1
    <3>3. QED
      BY <3>2
  <2>3. Runs(m, g)
    <3>1. g[0] = first
      BY <2>1
    <3>2. ASSUME NEW k \in 1 .. m PROVE g[k] = turn[<<g[k - 1], k>>]
      <4>1. CASE k = m
        <5>1. k - 1 = m - 1 /\ k - 1 # m /\ k - 1 \in 0 .. m
          BY <4>1
        <5>2. QED
          BY <4>1, <5>1
      <4>2. CASE k # m
        <5>1. k \in 1 .. m - 1 /\ k - 1 \in 0 .. m /\ k - 1 # m
          BY <4>2
        <5>2. f[k] = turn[<<f[k - 1], k>>]
          BY <2>1, <5>1
        <5>3. QED
          BY <4>2, <5>1, <5>2
      <4>3. QED
        BY <4>1, <4>2
    <3>3. QED
      BY <3>1, <3>2
  <2>4. \E e \in [0 .. m -> S] : Runs(m, e)
    <3> HIDE DEF Runs, g
    <3>1. QED
      BY <2>2, <2>3
  <2>5. QED
    BY <2>4
<1>3. n \in T
  <2> HIDE DEF T
  <2>1. QED
    BY <1>1, <1>2, Induct
<1>4. QED
  BY <1>3 DEF IsLoop

-----------------------------------------------------------------------------
(* SdiAnswer: numbers.                                                     *)

\* Whole rounds do not change a remainder.
LEMMA WholeRounds ==
  ASSUME NEW w \in Nat \ {0}, NEW x \in Nat, NEW q \in Nat
  PROVE  (x + q * w) % w = x % w
<1> DEFINE y == x + q * w
<1>1. x = w * (x \div w) + (x % w) /\ x % w \in 0 .. w - 1 /\ x \div w \in Nat
  OBVIOUS
<1>2. q * w \in Nat /\ y \in Nat
  OBVIOUS
<1>3. y = w * (y \div w) + (y % w) /\ y % w \in 0 .. w - 1 /\ y \div w \in Nat
  <2> HIDE DEF y
  <2>1. QED
    BY <1>2
<1> DEFINE a == y \div w
           b == (x \div w) + q
<1>4. w * b = w * (x \div w) + q * w
  BY <1>1
<1>5. w * a + (y % w) = w * b + (x % w)
  BY <1>1, <1>3, <1>4
<1>6. a \in Nat /\ b \in Nat
  BY <1>1, <1>3
<1>7. CASE a = b
  BY <1>1, <1>3, <1>5, <1>7
<1>8. CASE a >= b + 1
  <2> HIDE DEF a, b
  <2>1. w * a >= w * (b + 1) /\ w * (b + 1) = w * b + w
    BY <1>6, <1>8
  <2>2. QED
    BY <1>1, <1>3, <1>5, <1>6, <2>1
<1>9. CASE b >= a + 1
  <2> HIDE DEF a, b
  <2>1. w * b >= w * (a + 1) /\ w * (a + 1) = w * a + w
    BY <1>6, <1>9
  <2>2. QED
    BY <1>1, <1>3, <1>5, <1>6, <2>1
<1>10. QED
  BY <1>6, <1>7, <1>8, <1>9

\* Arithmetic of a width may drop the rounds at any time.
LEMMA RoundsDrop ==
  ASSUME NEW w \in Nat \ {0}, NEW h \in Nat, NEW c \in Nat, NEW d \in Nat
  PROVE  ((h % w) * c + d) % w = (h * c + d) % w
<1> DEFINE r == h % w
           q == h \div w
<1>1. h = w * q + r /\ r \in Nat /\ q \in Nat
  OBVIOUS
<1> HIDE DEF r, q
<1>2. h * c + d = (r * c + d) + (q * c) * w
  <2>1. h * c = (w * q) * c + r * c
    BY <1>1
  <2>2. (w * q) * c = (q * c) * w
    BY <1>1
  <2>3. QED
    BY <1>1, <2>1, <2>2
<1>3. r * c + d \in Nat /\ q * c \in Nat
  BY <1>1
<1>4. (r * c + d + (q * c) * w) % w = (r * c + d) % w
  BY <1>3, WholeRounds
<1>5. QED
  BY <1>2, <1>4 DEF r

\* The powers of ten.
LEMMA TenToIs ==
  ASSUME AnswerAssumption
  PROVE  /\ TenTo = [k \in 0 .. MaxLen |-> IF k = 0 THEN 1 ELSE 10 * TenTo[k - 1]]
         /\ \A k \in 0 .. MaxLen : TenTo[k] \in Nat
<1>1. MaxLen \in Nat
  BY DEF AnswerAssumption
<1> DEFINE turn == [p \in Nat \X (1 .. MaxLen) |-> 10 * p[1]]
<1>2. turn \in [Nat \X (1 .. MaxLen) -> Nat]
  OBVIOUS
<1>3. PICK f \in [0 .. MaxLen -> Nat] :
         f[0] = 1 /\ \A k \in 1 .. MaxLen : f[k] = turn[<<f[k - 1], k>>]
  <2> DEFINE S == Nat
             first == 1
  <2>1. first \in S /\ turn \in Turns(S, MaxLen) /\ MaxLen \in Nat
    BY <1>1, <1>2 DEF Turns
  <2> HIDE DEF S, first, turn
  <2>2. \E f : IsLoop(f, S, first, MaxLen, turn)
    BY <2>1, LoopRuns
  <2>3. QED
    BY <2>2 DEF S, first, IsLoop
<1>4. f = [k \in 0 .. MaxLen |-> IF k = 0 THEN 1 ELSE 10 * f[k - 1]]
  <2>1. ASSUME NEW k \in 1 .. MaxLen PROVE turn[<<f[k - 1], k>>] = 10 * f[k - 1]
    <3>1. k - 1 \in 0 .. MaxLen
      BY <1>1
    <3>2. f[k - 1] \in Nat
      BY <3>1
    <3>3. QED
      BY <3>2
  <2>2. ASSUME NEW k \in 0 .. MaxLen
        PROVE  f[k] = IF k = 0 THEN 1 ELSE 10 * f[k - 1]
    <3>1. CASE k = 0
      BY <1>3, <3>1
    <3>2. CASE k # 0
      <4>1. k \in 1 .. MaxLen
        BY <1>1, <3>2
      <4>2. f[k] = turn[<<f[k - 1], k>>]
        BY <1>3, <4>1
      <4>3. QED
        BY <2>1, <3>2, <4>1, <4>2
    <3>3. QED
      BY <3>1, <3>2
  <2>3. QED
    BY <2>2
<1>5. TenTo = [k \in 0 .. MaxLen |-> IF k = 0 THEN 1 ELSE 10 * TenTo[k - 1]]
  BY <1>4 DEF TenTo
<1> DEFINE T == {k \in 0 .. MaxLen : TenTo[k] \in Nat}
<1>6. 0 \in T
  BY <1>1, <1>5
<1>7. ASSUME NEW k \in 1 .. MaxLen, k - 1 \in T PROVE k \in T
  BY <1>5, <1>7
<1>8. \A k \in 0 .. MaxLen : k \in T
  <2> HIDE DEF T
  <2>1. QED
    BY <1>1, <1>6, <1>7, Induct
<1>9. QED
  BY <1>5, <1>8

\* A digit's figure.
LEMMA DigitIs ==
  ASSUME NEW s, AllDigits(s), NEW k \in DOMAIN s
  PROVE  s[k] - 48 \in 0 .. 9
<1>1. s[k] \in Digits
  BY DEF AllDigits
<1>2. QED
  BY <1>1 DEF Digits

\* What parse_uint() has read of a row of digits, turn by turn.
LEMMA DigitsReadIs ==
  ASSUME AnswerAssumption, NEW s \in Seq(Nat), AllDigits(s)
  PROVE  /\ DigitsRead(s) = [k \in 0 .. Len(s) |->
              IF k = 0 THEN 0 ELSE AppendDigit(DigitsRead(s)[k - 1], s[k])]
         /\ \A k \in 0 .. Len(s) : DigitsRead(s)[k] \in Nat
<1> DEFINE n == Len(s)
           turn == [p \in Nat \X (1 .. n) |-> AppendDigit(p[1], s[p[2]])]
<1>1. n \in Nat /\ ValueWord \in Nat \ {0}
  BY DEF AnswerAssumption
<1>2. ASSUME NEW v \in Nat, NEW k \in 1 .. n PROVE AppendDigit(v, s[k]) \in Nat
  <2>1. s[k] - 48 \in 0 .. 9
    BY DigitIs
  <2>2. v * 10 + (s[k] - 48) \in Nat
    BY <2>1
  <2>3. QED
    BY <1>1, <2>2 DEF AppendDigit
<1>3. turn \in [Nat \X (1 .. n) -> Nat]
  BY <1>2
<1>4. PICK f \in [0 .. n -> Nat] :
         f[0] = 0 /\ \A k \in 1 .. n : f[k] = turn[<<f[k - 1], k>>]
  <2> DEFINE S == Nat
             first == 0
  <2>1. first \in S /\ turn \in Turns(S, n) /\ n \in Nat
    BY <1>1, <1>3 DEF Turns
  <2> HIDE DEF S, first, turn, n
  <2>2. \E f : IsLoop(f, S, first, n, turn)
    BY <2>1, LoopRuns
  <2>3. QED
    BY <2>2 DEF S, first, IsLoop
<1>5. f = [k \in 0 .. n |-> IF k = 0 THEN 0 ELSE AppendDigit(f[k - 1], s[k])]
  <2>1. ASSUME NEW k \in 1 .. n PROVE turn[<<f[k - 1], k>>] = AppendDigit(f[k - 1], s[k])
    <3>1. k - 1 \in 0 .. n
      OBVIOUS
    <3>2. f[k - 1] \in Nat
      BY <3>1
    <3>3. QED
      BY <3>2
  <2>2. ASSUME NEW k \in 0 .. n
        PROVE  f[k] = IF k = 0 THEN 0 ELSE AppendDigit(f[k - 1], s[k])
    <3>1. CASE k = 0
      BY <1>4, <3>1
    <3>2. CASE k # 0
      <4>1. k \in 1 .. n
        BY <1>1, <3>2
      <4>2. f[k] = turn[<<f[k - 1], k>>]
        BY <1>4, <4>1
      <4>3. QED
        BY <2>1, <3>2, <4>1, <4>2
    <3>3. QED
      BY <3>1, <3>2
  <2>3. QED
    BY <2>2
<1> DEFINE d == DigitsRead(s)
<1>6. d = [k \in 0 .. n |-> IF k = 0 THEN 0 ELSE AppendDigit(d[k - 1], s[k])]
  BY <1>5 DEF DigitsRead
<1> DEFINE T == {k \in 0 .. n : d[k] \in Nat}
<1>7. 0 \in T
  BY <1>1, <1>6
<1>8. ASSUME NEW k \in 1 .. n, k - 1 \in T PROVE k \in T
  <2>1. d[k] = AppendDigit(d[k - 1], s[k])
    <3>1. k \in 0 .. n /\ k # 0
      OBVIOUS
    <3> HIDE DEF d, n
    <3>2. QED
      BY <1>6, <3>1
  <2>2. d[k - 1] \in Nat
    BY <1>8
  <2>3. d[k] \in Nat
    BY <1>2, <2>1, <2>2
  <2>4. k \in 0 .. n
    OBVIOUS
  <2> HIDE DEF d
  <2>5. QED
    BY <2>3, <2>4
<1>9. \A k \in 0 .. n : k \in T
  <2> HIDE DEF T
  <2>1. QED
    BY <1>1, <1>7, <1>8, Induct
<1>10. QED
  BY <1>6, <1>9

\* What the digits of a number add up to, from the first on.
LEMMA SumsIs ==
  ASSUME AnswerAssumption, NEW s \in Seq(Nat), AllDigits(s), Len(s) <= MaxLen
  PROVE  Sums(s) = [k \in 0 .. Len(s) |->
           IF k = 0 THEN 0 ELSE Sums(s)[k - 1] + (s[k] - 48) * TenTo[Len(s) - k]]
<1> DEFINE n == Len(s)
           turn == [p \in Nat \X (1 .. n) |-> p[1] + (s[p[2]] - 48) * TenTo[n - p[2]]]
<1>1. n \in Nat /\ MaxLen \in Nat /\ n <= MaxLen
  BY DEF AnswerAssumption
<1>2. ASSUME NEW v \in Nat, NEW k \in 1 .. n
      PROVE  v + (s[k] - 48) * TenTo[n - k] \in Nat
  <2>1. s[k] - 48 \in Nat
    BY DigitIs
  <2>2. n - k \in 0 .. MaxLen
    BY <1>1
  <2>3. TenTo[n - k] \in Nat
    BY <2>2, TenToIs
  <2> DEFINE x == s[k] - 48
             t == TenTo[n - k]
  <2>4. x \in Nat /\ t \in Nat
    BY <2>1, <2>3
  <2> HIDE DEF x, t
  <2>5. v + x * t \in Nat
    BY <2>4
  <2>6. QED
    BY <2>5 DEF x, t
<1>3. turn \in [Nat \X (1 .. n) -> Nat]
  BY <1>2
<1>4. PICK f \in [0 .. n -> Nat] :
         f[0] = 0 /\ \A k \in 1 .. n : f[k] = turn[<<f[k - 1], k>>]
  <2> DEFINE S == Nat
             first == 0
  <2>1. first \in S /\ turn \in Turns(S, n) /\ n \in Nat
    BY <1>1, <1>3 DEF Turns
  <2> HIDE DEF S, first, turn, n
  <2>2. \E f : IsLoop(f, S, first, n, turn)
    BY <2>1, LoopRuns
  <2>3. QED
    BY <2>2 DEF S, first, IsLoop
<1>5. f = [k \in 0 .. n |-> IF k = 0 THEN 0 ELSE f[k - 1] + (s[k] - 48) * TenTo[n - k]]
  <2>1. ASSUME NEW k \in 1 .. n
        PROVE  turn[<<f[k - 1], k>>] = f[k - 1] + (s[k] - 48) * TenTo[n - k]
    <3>1. k - 1 \in 0 .. n
      OBVIOUS
    <3>2. f[k - 1] \in Nat
      BY <3>1
    <3>3. QED
      BY <3>2
  <2>2. ASSUME NEW k \in 0 .. n
        PROVE  f[k] = IF k = 0 THEN 0 ELSE f[k - 1] + (s[k] - 48) * TenTo[n - k]
    <3>1. CASE k = 0
      BY <1>4, <3>1
    <3>2. CASE k # 0
      <4>1. k \in 1 .. n
        BY <1>1, <3>2
      <4>2. f[k] = turn[<<f[k - 1], k>>]
        BY <1>4, <4>1
      <4>3. QED
        BY <2>1, <3>2, <4>1, <4>2
    <3>3. QED
      BY <3>1, <3>2
  <2>3. QED
    BY <2>2
<1>6. QED
  BY <1>5 DEF Sums

\* A row of digits is read as their sum, less whole rounds.
LEMMA DigitsAreNumber ==
  ASSUME AnswerAssumption, NEW s \in Seq(Nat), AllDigits(s), Len(s) <= MaxLen
  PROVE  Number(s) \in Nat /\ DigitsRead(s)[Len(s)] = Number(s) % ValueWord
<1> DEFINE n == Len(s)
           read == DigitsRead(s)
           Read(k, h) == read[k] = h % ValueWord /\ Sums(s)[k] = h * TenTo[n - k]
           T == {k \in 0 .. n : \E h \in Nat : Read(k, h)}
<1>1. n \in Nat /\ MaxLen \in Nat /\ n <= MaxLen /\ ValueWord \in Nat \ {0} /\ 48 \in Nat
  BY DEF AnswerAssumption
<1>2. \A k \in 0 .. n : TenTo[n - k] \in Nat
  BY <1>1, TenToIs
<1>3. 0 \in T
  <2>1. read[0] = 0 /\ Sums(s)[0] = 0
    BY <1>1, DigitsReadIs, SumsIs
  <2>2. 0 % ValueWord = 0 /\ 0 * TenTo[n - 0] = 0
    BY <1>1, <1>2
  <2>3. Read(0, 0)
    BY <2>1, <2>2
  <2>4. QED
    BY <1>1, <2>3
<1>4. ASSUME NEW k \in 1 .. n, k - 1 \in T PROVE k \in T
  <2>1. PICK h \in Nat : Read(k - 1, h)
    BY <1>4
  <2> DEFINE x == s[k] - 48
             t == TenTo[n - k]
  <2>2. x \in Nat /\ t \in Nat
    <3>1. k \in DOMAIN s /\ k \in 0 .. n
      OBVIOUS
    <3>2. x \in 0 .. 9
      BY <3>1, DigitIs
    <3>3. QED
      BY <1>2, <3>1, <3>2
  <2>3. read[k] = (read[k - 1] * 10 + x) % ValueWord
    BY DigitsReadIs DEF AppendDigit
  <2>4. Sums(s)[k] = Sums(s)[k - 1] + x * t
    BY SumsIs
  <2>5. TenTo[n - (k - 1)] = 10 * t
    <3>1. n - (k - 1) \in 1 .. MaxLen /\ n - (k - 1) - 1 = n - k
      BY <1>1
    <3>2. TenTo[n - (k - 1)] = 10 * TenTo[n - (k - 1) - 1]
      BY <3>1, TenToIs
    <3>3. QED
      BY <3>1, <3>2
  <2>6. Read(k, h * 10 + x)
    <3>1. read[k] = ((h % ValueWord) * 10 + x) % ValueWord
      BY <2>1, <2>3
    <3>2. Sums(s)[k] = h * (10 * t) + x * t
      BY <2>1, <2>4, <2>5
    <3> HIDE DEF x, t, read
    <3> DEFINE c == 10
               w == ValueWord
    <3>6. w \in Nat \ {0} /\ h \in Nat /\ c \in Nat /\ x \in Nat
      BY <1>1, <2>2
    <3> HIDE DEF c, w
    <3>7. ((h % w) * c + x) % w = (h * c + x) % w
      BY <3>6, RoundsDrop
    <3>3. ((h % ValueWord) * 10 + x) % ValueWord = (h * 10 + x) % ValueWord
      BY <3>7 DEF c, w
    <3>4. h * (10 * t) + x * t = (h * 10 + x) * t
      BY <2>2
    <3>5. QED
      BY <3>1, <3>2, <3>3, <3>4 DEF t
  <2>7. h * 10 + x \in Nat
    BY <2>2
  <2> HIDE DEF Read, x
  <2>8. QED
    BY <2>6, <2>7
<1>5. n \in T
  <2>1. n \in 0 .. n
    BY <1>1
  <2> HIDE DEF T, n
  <2>2. QED
    BY <1>1, <1>3, <1>4, <2>1, Induct
<1>6. PICK h \in Nat : Read(n, h)
  BY <1>5
<1>7. TenTo[n - n] = 1
  BY <1>1, TenToIs
<1>8. Number(s) = h
  BY <1>6, <1>7 DEF Number
<1>9. QED
  BY <1>6, <1>8

-----------------------------------------------------------------------------
(* SdiAnswer: numbers with decimals.                                       *)

FixedStates ==
  [ok : BOOLEAN, dot : BOOLEAN, whole : Nat, frac : Nat, digits : 0 .. 2]

\* What a byte does to each variable of parse_fixed_centi().
LEMMA FixedByteIs ==
  ASSUME AnswerAssumption, NEW st \in FixedStates, NEW ch \in Nat
  PROVE  /\ FixedByte(st, ch) \in FixedStates
         /\ ch = Dot =>
              FixedByte(st, ch) = [st EXCEPT !.ok = st.ok /\ ~st.dot, !.dot = TRUE]
         /\ ch \notin Digits \cup {Dot} => FixedByte(st, ch) = [st EXCEPT !.ok = FALSE]
         /\ ch \in Digits /\ ~st.dot =>
              FixedByte(st, ch) = [st EXCEPT !.whole = AppendDigit(st.whole, ch)]
         /\ ch \in Digits /\ st.dot =>
              FixedByte(st, ch) =
                IF st.digits < 2
                THEN [st EXCEPT !.frac = AppendDigit(st.frac, ch), !.digits = st.digits + 1]
                ELSE st
<1>1. Dot \notin Digits /\ ValueWord \in Nat \ {0}
  BY DEF Dot, Digits, AnswerAssumption
<1>2. /\ st.ok \in BOOLEAN /\ st.dot \in BOOLEAN /\ st.whole \in Nat /\ st.frac \in Nat
      /\ st.digits \in 0 .. 2
  BY DEF FixedStates
<1>3. CASE ch = Dot
  <2>1. FixedByte(st, ch) = [st EXCEPT !.ok = st.ok /\ ~st.dot, !.dot = TRUE]
    BY <1>1, <1>3, Zenon DEF FixedByte
  <2>2. (st.ok /\ ~st.dot) \in BOOLEAN
    OBVIOUS
  <2> DEFINE v == st.ok /\ ~st.dot
  <2> HIDE DEF v
  <2>3. [st EXCEPT !.ok = v, !.dot = TRUE] \in FixedStates
    BY <2>2 DEF FixedStates, v
  <2>4. QED
    BY <1>1, <1>3, <2>1, <2>3, Zenon DEF v
<1>4. CASE ch \notin Digits \cup {Dot}
  <2>1. FixedByte(st, ch) = [st EXCEPT !.ok = FALSE]
    BY <1>4, Zenon DEF FixedByte
  <2>2. [st EXCEPT !.ok = FALSE] \in FixedStates
    BY DEF FixedStates
  <2>3. QED
    BY <1>4, <2>1, <2>2, Zenon
<1>5. ASSUME ch \in Digits, NEW v \in Nat PROVE AppendDigit(v, ch) \in Nat
  <2>1. v * 10 + (ch - 48) \in Nat
    BY <1>5 DEF Digits
  <2>2. QED
    BY <1>1, <2>1 DEF AppendDigit
<1>6. CASE ch \in Digits /\ ~st.dot
  <2>1. FixedByte(st, ch) = [st EXCEPT !.whole = AppendDigit(st.whole, ch)]
    BY <1>1, <1>6, Zenon DEF FixedByte
  <2>2. AppendDigit(st.whole, ch) \in Nat
    BY <1>2, <1>5, <1>6
  <2>3. [st EXCEPT !.whole = AppendDigit(st.whole, ch)] \in FixedStates
    BY <2>2 DEF FixedStates
  <2>4. QED
    BY <1>1, <1>6, <2>1, <2>3, Zenon
<1>7. CASE ch \in Digits /\ st.dot
  <2> DEFINE kept == [st EXCEPT !.frac = AppendDigit(st.frac, ch), !.digits = st.digits + 1]
  <2>1. FixedByte(st, ch) = IF st.digits < 2 THEN kept ELSE st
    BY <1>1, <1>7, Zenon DEF FixedByte, Kept
  <2>2. st.digits < 2 => kept \in FixedStates
    <3>1. AppendDigit(st.frac, ch) \in Nat
      BY <1>2, <1>5, <1>7
    <3>2. st.digits < 2 => st.digits + 1 \in 0 .. 2
      BY <1>2
    <3>3. QED
      BY <3>1, <3>2 DEF FixedStates
  <2> HIDE DEF kept
  <2>3. (IF st.digits < 2 THEN kept ELSE st) \in FixedStates
    BY <2>2
  <2>4. QED
    BY <1>1, <1>7, <2>1, <2>3, Zenon DEF kept
<1>8. QED
  BY <1>2, <1>3, <1>4, <1>6, <1>7, Zenon

\* The variables of parse_fixed_centi(), turn by turn.
LEMMA FixedIs ==
  ASSUME AnswerAssumption, NEW s \in Seq(Nat)
  PROVE  /\ Fixed(s)[0] = FixedStart(s)
         /\ \A k \in 1 .. Len(s) : Fixed(s)[k] = FixedByte(Fixed(s)[k - 1], s[k])
         /\ \A k \in 0 .. Len(s) : Fixed(s)[k] \in FixedStates
<1> DEFINE n == Len(s)
           turn == [p \in FixedStates \X (1 .. n) |-> FixedByte(p[1], s[p[2]])]
           first == FixedStart(s)
<1>1. n \in Nat
  OBVIOUS
<1>2. ASSUME NEW st \in FixedStates, NEW k \in 1 .. n PROVE FixedByte(st, s[k]) \in FixedStates
  <2>1. s[k] \in Nat
    OBVIOUS
  <2>2. QED
    BY <2>1, FixedByteIs
<1>3. turn \in Turns(FixedStates, n)
  BY <1>2 DEF Turns
<1>4. first \in FixedStates
  <2>1. (s # <<>>) \in BOOLEAN
    OBVIOUS
  <2> DEFINE v == s # <<>>
  <2> HIDE DEF v
  <2>2. [ok |-> v, dot |-> FALSE, whole |-> 0, frac |-> 0, digits |-> 0] \in FixedStates
    BY <2>1 DEF FixedStates, v
  <2>3. QED
    BY <2>2 DEF FixedStart, v
<1>5. PICK f : IsLoop(f, FixedStates, first, n, turn)
  <2> HIDE DEF turn, n, first
  <2>1. QED
    BY <1>1, <1>3, <1>4, LoopRuns
<1>6. f = [k \in 0 .. n |-> IF k = 0 THEN FixedStart(s) ELSE FixedByte(f[k - 1], s[k])]
  <2>1. ASSUME NEW k \in 1 .. n PROVE turn[<<f[k - 1], k>>] = FixedByte(f[k - 1], s[k])
    <3>1. k - 1 \in 0 .. n
      BY <1>1
    <3>2. f[k - 1] \in FixedStates
      BY <1>5, <3>1 DEF IsLoop
    <3>3. QED
      BY <3>2
  <2>2. ASSUME NEW k \in 0 .. n
        PROVE  f[k] = IF k = 0 THEN FixedStart(s) ELSE FixedByte(f[k - 1], s[k])
    <3>1. CASE k = 0
      BY <1>5, <3>1 DEF IsLoop
    <3>2. CASE k # 0
      <4>1. k \in 1 .. n
        BY <1>1, <3>2
      <4>2. f[k] = turn[<<f[k - 1], k>>]
        BY <1>5, <4>1 DEF IsLoop
      <4>3. QED
        BY <2>1, <3>2, <4>1, <4>2
    <3>3. QED
      BY <3>1, <3>2
  <2>3. f \in [0 .. n -> FixedStates]
    BY <1>5 DEF IsLoop
  <2>4. QED
    BY <2>2, <2>3
<1> DEFINE d == Fixed(s)
<1>7. d = [k \in 0 .. n |-> IF k = 0 THEN FixedStart(s) ELSE FixedByte(d[k - 1], s[k])]
  BY <1>6 DEF Fixed
<1>8. d[0] = FixedStart(s)
  BY <1>1, <1>7
<1>9. ASSUME NEW k \in 1 .. n PROVE d[k] = FixedByte(d[k - 1], s[k])
  <2>1. k \in 0 .. n /\ k # 0
    BY <1>1
  <2> HIDE DEF d, n
  <2>2. QED
    BY <1>7, <2>1
<1> DEFINE T == {k \in 0 .. n : d[k] \in FixedStates}
<1>10. 0 \in T
  BY <1>1, <1>4, <1>8
<1>11. ASSUME NEW k \in 1 .. n, k - 1 \in T PROVE k \in T
  <2>1. d[k] \in FixedStates /\ k \in 0 .. n
    <3>1. d[k - 1] \in FixedStates
      BY <1>11
    <3> HIDE DEF d
    <3>2. QED
      BY <1>2, <1>9, <3>1
  <2> HIDE DEF d
  <2>2. QED
    BY <2>1
<1>12. \A k \in 0 .. n : k \in T
  <2> HIDE DEF T
  <2>1. QED
    BY <1>1, <1>10, <1>11, Induct
<1>13. QED
  BY <1>8, <1>9, <1>12

\* Up to the first ch there is none.
LEMMA LeadIs ==
  ASSUME NEW s \in Seq(Nat), NEW ch
  PROVE  /\ Lead(s, ch) \in 0 .. Len(s)
         /\ \A i \in 1 .. Lead(s, ch) : s[i] # ch
         /\ Lead(s, ch) < Len(s) => s[Lead(s, ch) + 1] = ch
<1> DEFINE n == Len(s)
           A == {m \in 0 .. n : \A i \in 1 .. m : s[i] # ch}
           First(m) == (\A i \in 1 .. m : s[i] # ch) /\ (m < n => s[m + 1] = ch)
<1>1. n \in Nat /\ 0 \in A
  OBVIOUS
<1>2. PICK m \in A : \A k \in A : k <= m
  <2>1. A \in SUBSET (0 .. n) /\ A # {}
    BY <1>1
  <2> HIDE DEF A, n
  <2>2. QED
    BY <1>1, <2>1, Greatest
<1>3. First(m)
  <2>1. CASE m < n /\ s[m + 1] # ch
    <3>1. m + 1 \in A
      BY <1>1, <2>1
    <3>2. QED
      BY <1>2, <3>1
  <2>2. QED
    BY <2>1
<1>4. \E k \in 0 .. n : First(k)
  BY <1>3
<1> DEFINE l == CHOOSE k \in 0 .. n : First(k)
<1>5. l \in 0 .. n /\ First(l)
  <2> HIDE DEF First
  <2>1. QED
    BY <1>4
<1>6. Lead(s, ch) = l
  BY DEF Lead
<1>7. QED
  BY <1>5, <1>6

\* The bytes before the first ch and those behind it.
LEMMA CutIs ==
  ASSUME NEW s \in Seq(Nat), NEW ch
  PROVE  /\ Before(s, ch) \in Seq(Nat) /\ Len(Before(s, ch)) = Lead(s, ch)
         /\ \A i \in 1 .. Lead(s, ch) : Before(s, ch)[i] = s[i]
         /\ Behind(s, ch) \in Seq(Nat)
         /\ Len(Behind(s, ch)) = IF Lead(s, ch) < Len(s) THEN Len(s) - Lead(s, ch) - 1 ELSE 0
         /\ \A i \in 1 .. Len(Behind(s, ch)) : Behind(s, ch)[i] = s[i + Lead(s, ch) + 1]
<1>1. Lead(s, ch) \in 0 .. Len(s) /\ Len(s) \in Nat
  BY LeadIs
<1> DEFINE m == Lead(s, ch)
<1> HIDE DEF m
<1>2. m \in 0 .. Len(s)
  BY <1>1 DEF m
<1>3. /\ SubSeq(s, 1, m) \in Seq(Nat) /\ Len(SubSeq(s, 1, m)) = m
      /\ \A i \in 1 .. m : SubSeq(s, 1, m)[i] = s[i]
  BY <1>1, <1>2
<1>4. /\ SubSeq(s, m + 2, Len(s)) \in Seq(Nat)
      /\ Len(SubSeq(s, m + 2, Len(s))) = IF m < Len(s) THEN Len(s) - m - 1 ELSE 0
      /\ \A i \in 1 .. Len(SubSeq(s, m + 2, Len(s))) : SubSeq(s, m + 2, Len(s))[i] = s[i + m + 1]
  BY <1>1, <1>2
<1>5. Before(s, ch) = SubSeq(s, 1, m) /\ Behind(s, ch) = SubSeq(s, m + 2, Len(s))
  BY DEF Before, Behind, m
<1>6. QED
  BY <1>3, <1>4, <1>5 DEF m

\* Up to the dot a number with decimals is read like one without.
LEMMA WholeIsRead ==
  ASSUME AnswerAssumption, NEW s \in Seq(Nat), NEW k \in 0 .. Lead(s, Dot)
  PROVE  /\ Fixed(s)[k].dot = FALSE /\ Fixed(s)[k].digits = 0 /\ Fixed(s)[k].frac = 0
         /\ Fixed(s)[k].ok <=> s # <<>> /\ \A i \in 1 .. k : s[i] \in Digits
         /\ AllDigits(Before(s, Dot)) => Fixed(s)[k].whole = DigitsRead(Before(s, Dot))[k]
<1> DEFINE b == Lead(s, Dot)
           t == Before(s, Dot)
           F == Fixed(s)
           Good(j) == s # <<>> /\ \A i \in 1 .. j : s[i] \in Digits
           Read(j) == /\ F[j].dot = FALSE /\ F[j].digits = 0 /\ F[j].frac = 0
                      /\ F[j].ok <=> Good(j)
                      /\ AllDigits(t) => F[j].whole = DigitsRead(t)[j]
           T == {j \in 0 .. b : Read(j)}
<1>1. b \in Nat /\ b <= Len(s) /\ \A i \in 1 .. b : s[i] # Dot
  BY LeadIs
<1>2. t \in Seq(Nat) /\ Len(t) = b /\ \A i \in 1 .. b : t[i] = s[i]
  BY CutIs
<1>3. AllDigits(t) => DigitsRead(t)[0] = 0 /\ \A j \in 1 .. b :
                        DigitsRead(t)[j] = AppendDigit(DigitsRead(t)[j - 1], s[j])
  <2>1. CASE AllDigits(t)
    <3> HIDE DEF b, t
    <3>1. DigitsRead(t) = [j \in 0 .. b |->
            IF j = 0 THEN 0 ELSE AppendDigit(DigitsRead(t)[j - 1], t[j])]
      BY <1>2, <2>1, DigitsReadIs
    <3> DEFINE d == DigitsRead(t)
    <3> HIDE DEF d
    <3>2. d = [j \in 0 .. b |-> IF j = 0 THEN 0 ELSE AppendDigit(d[j - 1], t[j])]
      BY <3>1 DEF d
    <3>3. d[0] = 0
      BY <1>1, <3>2
    <3>4. ASSUME NEW j \in 1 .. b PROVE d[j] = AppendDigit(d[j - 1], s[j])
      <4>1. j \in 0 .. b /\ j # 0 /\ t[j] = s[j]
        BY <1>1, <1>2
      <4>2. d[j] = AppendDigit(d[j - 1], t[j])
        BY <3>2, <4>1
      <4>3. QED
        BY <4>1, <4>2
    <3>5. QED
      BY <3>3, <3>4 DEF d
  <2>2. QED
    BY <2>1
<1>4. 0 \in T
  <2>1. F[0] = FixedStart(s)
    BY FixedIs
  <2>2. F[0].dot = FALSE /\ F[0].digits = 0 /\ F[0].frac = 0 /\ F[0].whole = 0
    BY <2>1 DEF FixedStart
  <2>3. F[0].ok <=> s # <<>>
    <3> DEFINE v == s # <<>>
    <3> HIDE DEF v, F
    <3>1. F[0] = [ok |-> v, dot |-> FALSE, whole |-> 0, frac |-> 0, digits |-> 0]
      BY <2>1 DEF FixedStart, v
    <3>2. F[0].ok = v
      BY <3>1
    <3>3. QED
      BY <3>2 DEF v
  <2>4. Good(0) <=> s # <<>>
    OBVIOUS
  <2> HIDE DEF F, Good, t
  <2>5. Read(0)
    BY <1>3, <2>2, <2>3, <2>4
  <2>6. QED
    BY <1>1, <2>5
<1>5. ASSUME NEW j \in 1 .. b, j - 1 \in T PROVE j \in T
  <2>1. Read(j - 1)
    BY <1>5
  <2>2. /\ F[j] = FixedByte(F[j - 1], s[j]) /\ F[j - 1] \in FixedStates
        /\ s[j] \in Nat /\ s[j] # Dot
    <3>1. j \in 1 .. Len(s) /\ j - 1 \in 0 .. Len(s)
      BY <1>1
    <3>2. F[j] = FixedByte(F[j - 1], s[j]) /\ F[j - 1] \in FixedStates
      BY <3>1, FixedIs
    <3>3. s[j] \in Nat
      BY <3>1
    <3>4. QED
      BY <1>1, <3>2, <3>3
  <2>3. Good(j) <=> Good(j - 1) /\ s[j] \in Digits
    <3>1. \A i \in 1 .. j : i \in 1 .. j - 1 \/ i = j
      BY <1>1
    <3>2. 1 .. j - 1 \subseteq 1 .. j /\ j \in 1 .. j
      BY <1>1
    <3>3. QED
      BY <3>1, <3>2
  <2>4. AllDigits(t) => s[j] \in Digits
    <3>1. j \in DOMAIN t /\ t[j] = s[j]
      BY <1>1, <1>2
    <3>2. QED
      BY <3>1, Zenon DEF AllDigits
  <2>5. CASE s[j] \in Digits
    <3>1. F[j] = [F[j - 1] EXCEPT !.whole = AppendDigit(F[j - 1].whole, s[j])]
      BY <2>1, <2>2, <2>5, FixedByteIs
    <3>2. /\ F[j].dot = F[j - 1].dot /\ F[j].digits = F[j - 1].digits
          /\ F[j].frac = F[j - 1].frac
          /\ F[j].whole = AppendDigit(F[j - 1].whole, s[j])
      BY <2>2, <3>1 DEF FixedStates
    <3>3. F[j].ok = F[j - 1].ok
      BY <2>2, <3>1 DEF FixedStates
    <3> HIDE DEF F, Good, t
    <3>4. Read(j)
      BY <1>3, <2>1, <2>3, <2>5, <3>2, <3>3
    <3>5. QED
      BY <1>1, <3>4
  <2>6. CASE s[j] \notin Digits
    <3>1. F[j] = [F[j - 1] EXCEPT !.ok = FALSE]
      BY <2>2, <2>6, FixedByteIs
    <3>2. /\ F[j].dot = F[j - 1].dot /\ F[j].digits = F[j - 1].digits
          /\ F[j].frac = F[j - 1].frac
      BY <2>2, <3>1 DEF FixedStates
    <3>3. F[j].ok = FALSE
      BY <2>2, <3>1 DEF FixedStates
    <3> HIDE DEF F, Good, t
    <3>4. Read(j)
      BY <2>1, <2>3, <2>4, <2>6, <3>2, <3>3
    <3>5. QED
      BY <1>1, <3>4
  <2>7. QED
    BY <2>5, <2>6
<1>6. k \in T
  <2>1. k \in 0 .. b
    OBVIOUS
  <2> HIDE DEF T, b
  <2>2. \A j \in 0 .. b : j \in T
    BY <1>1, <1>4, <1>5, Induct
  <2>3. QED
    BY <2>1, <2>2
<1>7. QED
  BY <1>6

\* What is less than a round has none in it.
LEMMA NoRounds ==
  ASSUME NEW w \in Nat \ {0}, NEW z \in Nat, z < w
  PROVE  z % w = z
<1>1. z = w * (z \div w) + (z % w) /\ z % w \in 0 .. w - 1 /\ z \div w \in Nat
  OBVIOUS
<1>2. CASE z \div w >= 1
  <2>1. w * (z \div w) >= w * 1
    BY <1>1, <1>2
  <2>2. QED
    BY <1>1, <2>1
<1>3. CASE z \div w = 0
  BY <1>1, <1>3
<1>4. QED
  BY <1>1, <1>2, <1>3

\* How many bytes precede the dot.
DotAfter(s, b) == b = Lead(s, Dot)

\* Behind the dot two decimals are read, and nothing but digits is taken.
LEMMA FractionIsRead ==
  ASSUME AnswerAssumption, NEW s \in Seq(Nat), NEW b \in Nat, DotAfter(s, b),
         NEW k \in b + 1 .. Len(s)
  PROVE  LET x == s[b + 2] - 48
             y == s[b + 3] - 48
             st == Fixed(s)[k]
         IN /\ st.whole = Fixed(s)[b].whole
            /\ st.ok <=> Fixed(s)[b].ok /\ \A i \in b + 2 .. k : s[i] \in Digits
            /\ st.ok => /\ k = b + 1 => st.digits = 0 /\ st.frac = 0
                        /\ k = b + 2 => st.digits = 1 /\ st.frac = x
                        /\ k >= b + 3 => st.digits = 2 /\ st.frac = x * 10 + y
<1> DEFINE n == Len(s)
           x == s[b + 2] - 48
           y == s[b + 3] - 48
           F == Fixed(s)
           Good(j) == F[b].ok /\ \A i \in b + 2 .. j : s[i] \in Digits
           Read(j) == /\ F[j].dot = TRUE
                      /\ F[j].whole = F[b].whole
                      /\ F[j].ok <=> Good(j)
                      /\ F[j].ok => /\ j = b + 1 => F[j].digits = 0 /\ F[j].frac = 0
                                    /\ j = b + 2 => F[j].digits = 1 /\ F[j].frac = x
                                    /\ j >= b + 3 => F[j].digits = 2 /\ F[j].frac = x * 10 + y
           m == n - (b + 1)
           T == {j \in 0 .. m : Read(b + 1 + j)}
<1>1. b \in Nat /\ n \in Nat /\ m \in Nat /\ b < n /\ s[b + 1] = Dot /\ Dot \in Nat
  <2>1. b \in 0 .. n /\ (b < n => s[b + 1] = Dot)
    BY LeadIs DEF DotAfter
  <2>2. b < n
    BY <2>1
  <2>3. QED
    BY <2>1, <2>2 DEF Dot
<1>2. \A j \in 1 .. n : F[j] = FixedByte(F[j - 1], s[j]) /\ F[j - 1] \in FixedStates /\ s[j] \in Nat
  <2> SUFFICES ASSUME NEW j \in 1 .. n
               PROVE  F[j] = FixedByte(F[j - 1], s[j]) /\ F[j - 1] \in FixedStates /\ s[j] \in Nat
    OBVIOUS
  <2>1. j - 1 \in 0 .. n
    BY <1>1
  <2>2. QED
    BY <2>1, FixedIs
<1>3. 0 \in T
  <2>1. b + 1 \in 1 .. n /\ (b + 1) - 1 = b
    BY <1>1
  <2>2. F[b + 1] = FixedByte(F[b], s[b + 1]) /\ F[b] \in FixedStates
    BY <1>2, <2>1
  <2>3. F[b + 1] = [F[b] EXCEPT !.ok = F[b].ok /\ ~F[b].dot, !.dot = TRUE]
    <3> HIDE DEF F
    <3>1. QED
      BY <1>1, <2>2, FixedByteIs
  <2>4. F[b].dot = FALSE /\ F[b].digits = 0 /\ F[b].frac = 0
    <3>1. b \in 0 .. Lead(s, Dot)
      BY <1>1 DEF DotAfter
    <3>2. QED
      BY <3>1, WholeIsRead
  <2> DEFINE v == F[b].ok /\ ~F[b].dot
  <2>5. v <=> F[b].ok
    BY <2>4
  <2> HIDE DEF v, F
  <2>6. F[b + 1] = [F[b] EXCEPT !.ok = v, !.dot = TRUE]
    BY <2>3 DEF v
  <2>7. /\ F[b + 1].dot = TRUE /\ F[b + 1].whole = F[b].whole
        /\ F[b + 1].digits = 0 /\ F[b + 1].frac = 0
    BY <2>2, <2>4, <2>6 DEF FixedStates
  <2>8. F[b + 1].ok = v
    BY <2>2, <2>6 DEF FixedStates
  <2>9. Good(b + 1) <=> F[b].ok
    BY <1>1
  <2>10. b + 1 # b + 2 /\ ~(b + 1 >= b + 3) /\ b + 1 + 0 = b + 1 /\ 0 \in 0 .. m
    BY <1>1
  <2> HIDE DEF Good, m
  <2>11. Read(b + 1)
    BY <2>5, <2>7, <2>8, <2>9, <2>10
  <2> HIDE DEF Read
  <2>12. QED
    BY <2>10, <2>11
<1>4. ASSUME NEW l \in 1 .. m, l - 1 \in T PROVE l \in T
  <2> DEFINE j == b + 1 + l
  <2>1. j \in 1 .. n /\ j \in Nat /\ j >= b + 2 /\ j - 1 = b + 1 + (l - 1)
    BY <1>1
  <2>2. Read(j - 1)
    <3>1. Read(b + 1 + (l - 1))
      BY <1>4
    <3> HIDE DEF Read, j
    <3>2. QED
      BY <2>1, <3>1
  <2> HIDE DEF j
  <2>3. F[j] = FixedByte(F[j - 1], s[j]) /\ F[j - 1] \in FixedStates /\ s[j] \in Nat
    BY <1>2, <2>1
  <2>4. Good(j) <=> Good(j - 1) /\ s[j] \in Digits
    <3>1. \A i \in b + 2 .. j : i \in b + 2 .. j - 1 \/ i = j
      BY <1>1, <2>1
    <3>2. b + 2 .. j - 1 \subseteq b + 2 .. j /\ j \in b + 2 .. j
      BY <1>1, <2>1
    <3> HIDE DEF F
    <3>3. QED
      BY <3>1, <3>2
  <2>5. CASE s[j] \in Digits
    <3> DEFINE st == F[j - 1]
    <3>1. F[j] = IF st.digits < 2
                 THEN [st EXCEPT !.frac = AppendDigit(st.frac, s[j]), !.digits = st.digits + 1]
                 ELSE st
      BY <2>2, <2>3, <2>5, FixedByteIs
    <3> HIDE DEF F
    <3>2. F[j].dot = TRUE /\ F[j].whole = F[b].whole
      BY <2>2, <2>3, <3>1 DEF FixedStates
    <3>3. F[j].ok = st.ok
      BY <2>3, <3>1 DEF FixedStates
    <3>4. st.digits < 2 => F[j].digits = st.digits + 1 /\ F[j].frac = AppendDigit(st.frac, s[j])
      BY <2>3, <3>1 DEF FixedStates
    <3>5. ~(st.digits < 2) => F[j].digits = st.digits /\ F[j].frac = st.frac
      BY <3>1
    <3>6. st.ok => \A i \in b + 2 .. j : s[i] \in Digits
      BY <2>2, <2>4, <2>5
    <3>7. ASSUME st.ok
          PROVE  /\ j = b + 2 => F[j].digits = 1 /\ F[j].frac = x
                 /\ j >= b + 3 => F[j].digits = 2 /\ F[j].frac = x * 10 + y
      <4>1. x \in 0 .. 9
        <5>1. s[b + 2] \in Digits
          BY <1>1, <2>1, <3>6, <3>7
        <5>2. QED
          BY <5>1 DEF Digits
      <4>2. j >= b + 3 => y \in 0 .. 9
        <5>1. j >= b + 3 => s[b + 3] \in Digits
          BY <1>1, <2>1, <3>6, <3>7
        <5>2. QED
          BY <5>1 DEF Digits
      <4>3. ValueWord \in Nat /\ ValueWord >= 100
        BY DEF AnswerAssumption
      <4>9. /\ j = b + 2 => AppendDigit(st.frac, s[j]) = (st.frac * 10 + x) % ValueWord
            /\ j = b + 3 => AppendDigit(st.frac, s[j]) = (st.frac * 10 + y) % ValueWord
        BY DEF AppendDigit
      <4> HIDE DEF x, y
      <4>4. CASE j = b + 2
        <5>1. st.digits = 0 /\ st.frac = 0
          BY <1>1, <2>2, <3>7, <4>4
        <5>2. F[j].digits = 1 /\ F[j].frac = (0 * 10 + x) % ValueWord
          BY <3>4, <4>4, <4>9, <5>1
        <5>3. (0 * 10 + x) % ValueWord = x
          BY <4>1, <4>3
        <5>4. QED
          BY <1>1, <4>4, <5>2, <5>3
      <4>5. CASE j = b + 3
        <5>1. st.digits = 1 /\ st.frac = x
          BY <1>1, <2>2, <3>7, <4>5
        <5>2. F[j].digits = 2 /\ F[j].frac = (x * 10 + y) % ValueWord
          BY <3>4, <4>5, <4>9, <5>1
        <5>3. (x * 10 + y) % ValueWord = x * 10 + y
          <6>1. y \in 0 .. 9
            BY <2>1, <4>2, <4>5
          <6>2. ASSUME NEW z \in Nat, z < 100 PROVE z % ValueWord = z
            <7> DEFINE w == ValueWord
            <7>1. w \in Nat \ {0} /\ z < w
              BY <4>3, <6>2
            <7> HIDE DEF w
            <7>2. z % w = z
              BY <7>1, NoRounds
            <7>3. QED
              BY <7>2 DEF w
          <6>3. x * 10 + y \in Nat /\ x * 10 + y < 100
            BY <4>1, <6>1
          <6>4. QED
            BY <6>2, <6>3
        <5>4. QED
          BY <1>1, <4>5, <5>2, <5>3
      <4>6. CASE j >= b + 4
        <5>1. st.digits = 2 /\ st.frac = x * 10 + y
          BY <1>1, <2>1, <2>2, <3>7, <4>6
        <5>2. QED
          BY <1>1, <2>1, <3>5, <4>6, <5>1
      <4>7. QED
        BY <1>1, <2>1, <4>4, <4>5, <4>6
    <3>8. Read(j)
      <4>1. j # b + 1
        BY <1>1, <2>1
      <4>2. F[j].ok <=> Good(j)
        <5> HIDE DEF Good
        <5>1. QED
          BY <2>2, <2>4, <2>5, <3>3
      <4> HIDE DEF Good, x, y
      <4>3. QED
        BY <3>2, <3>3, <3>7, <4>1, <4>2
    <3> HIDE DEF Read, m
    <3>9. QED
      BY <3>8 DEF j
  <2>6. CASE s[j] \notin Digits
    <3>1. F[j].dot = TRUE /\ F[j].whole = F[b].whole /\ F[j].ok = FALSE
      <4>1. CASE s[j] = Dot
        <5>1. F[j] = [F[j - 1] EXCEPT !.ok = F[j - 1].ok /\ ~F[j - 1].dot, !.dot = TRUE]
          BY <2>3, <4>1, FixedByteIs
        <5> HIDE DEF F
        <5>2. F[j].ok = (F[j - 1].ok /\ ~F[j - 1].dot)
          BY <2>3, <5>1 DEF FixedStates
        <5>3. F[j].dot = TRUE /\ F[j].whole = F[j - 1].whole
          BY <2>3, <5>1 DEF FixedStates
        <5>4. QED
          BY <2>2, <5>2, <5>3
      <4>2. CASE s[j] # Dot
        <5>1. F[j] = [F[j - 1] EXCEPT !.ok = FALSE]
          BY <2>3, <2>6, <4>2, FixedByteIs
        <5> HIDE DEF F
        <5>2. F[j].ok = FALSE /\ F[j].dot = F[j - 1].dot /\ F[j].whole = F[j - 1].whole
          BY <2>3, <5>1 DEF FixedStates
        <5>3. QED
          BY <2>2, <5>2
      <4>3. QED
        BY <4>1, <4>2
    <3>2. Read(j)
      <4> HIDE DEF Good, F, x, y
      <4>1. QED
        BY <2>4, <2>6, <3>1
    <3> HIDE DEF Read, m
    <3>3. QED
      BY <3>2 DEF j
  <2>7. QED
    BY <2>5, <2>6
<1>5. k - (b + 1) \in T
  <2>1. k - (b + 1) \in 0 .. m
    BY <1>1
  <2> HIDE DEF T, m
  <2>2. \A j \in 0 .. m : j \in T
    BY <1>1, <1>3, <1>4, Induct
  <2>3. QED
    BY <2>1, <2>2
<1>6. b + 1 + (k - (b + 1)) = k
  BY <1>1
<1>7. Read(k)
  <2>1. Read(b + 1 + (k - (b + 1)))
    BY <1>5
  <2> HIDE DEF Read
  <2>2. QED
    BY <1>6, <2>1
<1>8. QED
  BY <1>7

Results == [ok : BOOLEAN, value : Nat]

\* A remainder is a number.
LEMMA RemainderIs ==
  ASSUME AnswerAssumption, NEW v \in Nat
  PROVE  v % ValueWord \in Nat
<1>1. ValueWord \in Nat \ {0}
  BY DEF AnswerAssumption
<1>2. QED
  BY <1>1

\* parse_uint() takes rows of digits, for their number.
LEMMA UintIsRead ==
  ASSUME AnswerAssumption, NEW s \in Seq(Nat)
  PROVE  /\ ParseUint(s) \in Results
         /\ ParseUint(s).ok <=> s # <<>> /\ AllDigits(s)
         /\ ParseUint(s).ok /\ Len(s) <= MaxLen => ParseUint(s).value = Number(s) % ValueWord
<1>1. CASE s # <<>> /\ AllDigits(s)
  <2> DEFINE v == DigitsRead(s)[Len(s)]
  <2>1. ParseUint(s) = [ok |-> TRUE, value |-> v]
    BY <1>1 DEF ParseUint, Accepted
  <2>2. v \in Nat
    <3>1. Len(s) \in 0 .. Len(s)
      OBVIOUS
    <3>2. QED
      BY <1>1, <3>1, DigitsReadIs
  <2>3. Len(s) <= MaxLen => v = Number(s) % ValueWord
    BY <1>1, DigitsAreNumber
  <2> HIDE DEF v
  <2>4. QED
    BY <1>1, <2>1, <2>2, <2>3 DEF Results
<1>2. CASE ~(s # <<>> /\ AllDigits(s))
  <2>1. ParseUint(s) = [ok |-> FALSE, value |-> 0]
    BY <1>2 DEF ParseUint, Refused
  <2>2. QED
    BY <1>2, <2>1 DEF Results
<1>3. QED
  BY <1>1, <1>2

\* A number with decimals is in order if both its parts are digits.
InOrder(s) == s # <<>> /\ AllDigits(Before(s, Dot)) /\ AllDigits(Behind(s, Dot))

\* At the end the variables of parse_fixed_centi() have both parts.
LEMMA FixedEnds ==
  ASSUME AnswerAssumption, NEW s \in Seq(Nat)
  PROVE  LET end == Fixed(s)[Len(s)]
             t == Before(s, Dot)
             frac == Behind(s, Dot)
         IN /\ end \in FixedStates
            /\ end.ok <=> InOrder(s)
            /\ InOrder(s) =>
                 /\ end.whole = DigitsRead(t)[Len(t)]
                 /\ Hundredths(end) = Decimal(frac, 1) * 10 + Decimal(frac, 2)
<1> DEFINE t == Before(s, Dot)
           frac == Behind(s, Dot)
           n == Len(s)
           end == Fixed(s)[n]
<1>1. PICK b \in Nat : DotAfter(s, b) /\ b <= n
  BY LeadIs DEF DotAfter
<1>2. n \in Nat /\ end \in FixedStates
  <2>1. n \in Nat /\ n \in 0 .. n
    OBVIOUS
  <2>2. QED
    BY <2>1, FixedIs
<1>3. Len(t) = b /\ \A i \in 1 .. b : t[i] = s[i]
  BY <1>1, CutIs DEF DotAfter
<1>4. /\ Len(frac) = IF b < n THEN n - b - 1 ELSE 0
      /\ \A i \in 1 .. Len(frac) : frac[i] = s[i + b + 1]
  BY <1>1, CutIs DEF DotAfter
<1>5. t \in Seq(Nat) /\ frac \in Seq(Nat)
  BY CutIs
<1>6. AllDigits(t) <=> \A i \in 1 .. b : s[i] \in Digits
  <2>1. DOMAIN t = 1 .. b
    BY <1>3, <1>5
  <2> HIDE DEF t
  <2>2. QED
    BY <1>3, <2>1 DEF AllDigits
<1>7. AllDigits(frac) <=> \A i \in b + 2 .. n : s[i] \in Digits
  <2>1. DOMAIN frac = 1 .. Len(frac) /\ Len(frac) \in Nat
    BY <1>5
  <2> HIDE DEF frac, n
  <2>2. ASSUME AllDigits(frac), NEW i \in b + 2 .. n PROVE s[i] \in Digits
    <3>1. i - b - 1 \in 1 .. Len(frac) /\ (i - b - 1) + b + 1 = i
      BY <1>2, <1>4, <2>1
    <3>2. frac[i - b - 1] = s[i]
      BY <1>4, <3>1
    <3>3. QED
      BY <2>1, <2>2, <3>1, <3>2 DEF AllDigits
  <2>3. ASSUME \A i \in b + 2 .. n : s[i] \in Digits, NEW i \in 1 .. Len(frac)
        PROVE  frac[i] \in Digits
    <3>1. i + b + 1 \in b + 2 .. n
      BY <1>2, <1>4, <2>1
    <3>2. QED
      BY <1>4, <2>3, <3>1
  <2>4. QED
    BY <2>1, <2>2, <2>3 DEF AllDigits
<1> DEFINE mid == Fixed(s)[b]
<1>8. /\ mid.digits = 0 /\ mid.frac = 0
      /\ mid.ok <=> s # <<>> /\ AllDigits(t)
      /\ AllDigits(t) => mid.whole = DigitsRead(t)[Len(t)]
  <2>1. b \in 0 .. Lead(s, Dot)
    BY <1>1 DEF DotAfter
  <2> HIDE DEF t
  <2>2. /\ mid.digits = 0 /\ mid.frac = 0
        /\ mid.ok <=> s # <<>> /\ \A i \in 1 .. b : s[i] \in Digits
    BY <2>1, WholeIsRead
  <2>3. AllDigits(t) => mid.whole = DigitsRead(t)[b]
    BY <2>1, WholeIsRead DEF t
  <2>4. QED
    BY <1>3, <1>6, <2>2, <2>3
<1>9. CASE b = n
  <2>1. Len(frac) = 0
    BY <1>2, <1>4, <1>9
  <2>2. AllDigits(frac)
    BY <1>2, <1>7, <1>9
  <2>3. Decimal(frac, 1) = 0 /\ Decimal(frac, 2) = 0
    BY <1>5, <2>1 DEF Decimal
  <2>4. Hundredths(mid) = 0
    BY <1>8 DEF Hundredths
  <2>5. end = mid
    BY <1>9
  <2> HIDE DEF t, frac, end, mid
  <2>6. QED
    BY <1>2, <1>8, <2>2, <2>3, <2>4, <2>5 DEF InOrder, t, frac, end
<1>10. CASE b < n
  <2> DEFINE x == s[b + 2] - 48
             y == s[b + 3] - 48
  <2>1. n \in b + 1 .. n
    BY <1>2, <1>10
  <2>2. /\ end.whole = mid.whole
        /\ end.ok <=> mid.ok /\ \A i \in b + 2 .. n : s[i] \in Digits
        /\ end.ok => /\ n = b + 1 => end.digits = 0 /\ end.frac = 0
                     /\ n = b + 2 => end.digits = 1 /\ end.frac = x
                     /\ n >= b + 3 => end.digits = 2 /\ end.frac = x * 10 + y
    <3> HIDE DEF n
    <3>1. QED
      BY <1>1, <2>1, FractionIsRead DEF n
  <2>3. InOrder(s) <=> end.ok
    <3> HIDE DEF t, frac, mid, end
    <3>1. QED
      BY <1>7, <1>8, <2>2 DEF InOrder, t, frac
  <2>4. ASSUME InOrder(s)
        PROVE  Hundredths(end) = Decimal(frac, 1) * 10 + Decimal(frac, 2)
    <3>1. Len(frac) = n - b - 1 /\ DOMAIN frac = 1 .. Len(frac)
      BY <1>4, <1>5, <1>10
    <3>2. end.ok
      BY <2>3, <2>4
    <3>3. \A i \in b + 2 .. n : s[i] - 48 \in 0 .. 9
      BY <2>2, <3>2 DEF Digits
    <3> HIDE DEF n, frac, end
    <3>4. n >= b + 2 => Decimal(frac, 1) = x /\ x \in 0 .. 9
      <4>1. n >= b + 2 => 1 \in 1 .. Len(frac) /\ b + 2 \in b + 2 .. n /\ 1 + b + 1 = b + 2
        BY <1>2, <3>1
      <4>2. n >= b + 2 => frac[1] = s[b + 2]
        BY <1>4, <4>1
      <4>3. QED
        BY <3>1, <3>3, <4>1, <4>2 DEF Decimal
    <3>5. n >= b + 3 => Decimal(frac, 2) = y /\ y \in 0 .. 9
      <4>1. n >= b + 3 => 2 \in 1 .. Len(frac) /\ b + 3 \in b + 2 .. n /\ 2 + b + 1 = b + 3
        BY <1>2, <3>1
      <4>2. n >= b + 3 => frac[2] = s[b + 3]
        BY <1>4, <4>1
      <4>3. QED
        BY <3>1, <3>3, <4>1, <4>2 DEF Decimal
    <3>6. n < b + 2 => Decimal(frac, 1) = 0
      BY <1>2, <3>1 DEF Decimal
    <3>7. n < b + 3 => Decimal(frac, 2) = 0
      BY <1>2, <3>1 DEF Decimal
    <3> DEFINE d1 == Decimal(frac, 1)
               d2 == Decimal(frac, 2)
    <3> HIDE DEF x, y, d1, d2
    <3>8. Hundredths(end) = d1 * 10 + d2
      <4>1. CASE n = b + 1
        BY <2>2, <3>2, <3>6, <3>7, <4>1 DEF Hundredths, d1, d2
      <4>2. CASE n = b + 2
        <5>1. end.digits = 1 /\ end.frac = x
          BY <2>2, <3>2, <4>2
        <5>2. d1 = x /\ d2 = 0 /\ x \in 0 .. 9
          BY <3>4, <3>7, <4>2 DEF d1, d2
        <5>3. QED
          BY <5>1, <5>2 DEF Hundredths
      <4>3. CASE n >= b + 3
        <5>1. end.digits = 2 /\ end.frac = x * 10 + y
          BY <2>2, <3>2, <4>3
        <5>2. d1 = x /\ d2 = y
          <6>1. n >= b + 2
            BY <1>2, <4>3
          <6>2. QED
            BY <3>4, <3>5, <4>3, <6>1 DEF d1, d2
        <5>3. QED
          BY <5>1, <5>2 DEF Hundredths
      <4>4. QED
        BY <1>2, <1>10, <4>1, <4>2, <4>3
    <3>9. QED
      BY <3>8 DEF d1, d2
  <2>5. InOrder(s) => end.whole = DigitsRead(t)[Len(t)]
    BY <1>8, <2>2 DEF InOrder
  <2> HIDE DEF t, frac, end
  <2>6. QED
    BY <1>2, <2>3, <2>4, <2>5 DEF t, frac, end
<1>11. QED
  BY <1>1, <1>2, <1>9, <1>10

\* parse_fixed_centi() takes numbers with a dot at most, for their hundredths.
LEMMA FixedIsRead ==
  ASSUME AnswerAssumption, NEW s \in Seq(Nat)
  PROVE  /\ ParseFixedCenti(s) \in Results
         /\ ParseFixedCenti(s).ok <=> InOrder(s)
         /\ InOrder(s) /\ Len(s) <= MaxLen =>
              ParseFixedCenti(s).value = Centi(s) % ValueWord
<1> DEFINE end == Fixed(s)[Len(s)]
           t == Before(s, Dot)
           frac == Behind(s, Dot)
<1>1. /\ end \in FixedStates
      /\ end.ok <=> InOrder(s)
      /\ InOrder(s) =>
           /\ end.whole = DigitsRead(t)[Len(t)]
           /\ Hundredths(end) = Decimal(frac, 1) * 10 + Decimal(frac, 2)
  BY FixedEnds
<1> DEFINE v == (end.whole * 100 + Hundredths(end)) % ValueWord
<1>2. v \in Nat
  <2>1. end.whole * 100 + Hundredths(end) \in Nat
    BY <1>1 DEF FixedStates, Hundredths
  <2> DEFINE u == end.whole * 100 + Hundredths(end)
  <2> HIDE DEF u
  <2>2. u % ValueWord \in Nat
    BY <2>1, RemainderIs DEF u
  <2>3. QED
    BY <2>2 DEF u
<1>3. ParseFixedCenti(s) = IF end.ok THEN [ok |-> TRUE, value |-> v] ELSE [ok |-> FALSE, value |-> 0]
  BY DEF ParseFixedCenti, Accepted, Refused
<1>4. ASSUME InOrder(s), Len(s) <= MaxLen PROVE v = Centi(s) % ValueWord
  <2> DEFINE d == Hundredths(end)
             w == ValueWord
             h == Number(t)
             c == 100
  <2>1. t \in Seq(Nat) /\ Len(t) <= MaxLen /\ AllDigits(t)
    <3>1. Lead(s, Dot) <= Len(s) /\ Lead(s, Dot) \in Nat /\ Len(s) \in Nat /\ MaxLen \in Nat
      BY LeadIs DEF AnswerAssumption
    <3>2. t \in Seq(Nat) /\ Len(t) = Lead(s, Dot)
      BY CutIs
    <3>3. QED
      BY <1>4, <3>1, <3>2 DEF InOrder
  <2>2. h \in Nat /\ end.whole = h % w
    <3> HIDE DEF t, end
    <3>1. QED
      BY <1>1, <1>4, <2>1, DigitsAreNumber DEF t
  <2>3. d \in Nat /\ w \in Nat \ {0} /\ c \in Nat
    BY <1>1 DEF FixedStates, Hundredths, AnswerAssumption
  <2>4. Centi(s) = h * c + d
    <3> DEFINE d1 == Decimal(frac, 1)
               d2 == Decimal(frac, 2)
    <3>1. d1 \in Int /\ d2 \in Int
      <4>1. frac \in Seq(Nat)
        BY CutIs
      <4> HIDE DEF frac
      <4>2. QED
        BY <4>1 DEF Decimal
    <3>2. d = d1 * 10 + d2
      BY <1>1, <1>4
    <3>3. Centi(s) = h * 100 + d1 * 10 + d2
      BY DEF Centi
    <3> HIDE DEF d1, d2, d, h
    <3>4. QED
      BY <2>2, <3>1, <3>2, <3>3
  <2>5. v = ((h % w) * c + d) % w
    BY <2>2
  <2> HIDE DEF d, w, h, c
  <2>6. ((h % w) * c + d) % w = (h * c + d) % w
    BY <2>2, <2>3, RoundsDrop
  <2>7. QED
    BY <2>4, <2>5, <2>6 DEF w
<1> HIDE DEF v, end, t, frac
<1>5. CASE end.ok
  BY <1>1, <1>2, <1>3, <1>4, <1>5 DEF Results
<1>6. CASE ~end.ok
  BY <1>1, <1>3, <1>6 DEF Results
<1>7. QED
  BY <1>5, <1>6

-----------------------------------------------------------------------------
(* SdiAnswer: the fields.                                                  *)

ScanStates ==
  [field_index : 0 .. 3, start : Nat, direction : Results, strength : Results]

LEMMA ScanStatesAre ==
  ASSUME NEW st \in ScanStates, NEW a \in 0 .. 3, NEW b \in Nat, NEW f \in Results
  PROVE  /\ [st EXCEPT !.field_index = a, !.start = b] \in ScanStates
         /\ [st EXCEPT !.field_index = a, !.start = b, !.direction = f] \in ScanStates
         /\ [st EXCEPT !.field_index = a, !.start = b, !.strength = f] \in ScanStates
<1>1. [st EXCEPT !.field_index = a, !.start = b] \in ScanStates
  BY DEF ScanStates
<1> DEFINE next == [st EXCEPT !.field_index = a, !.start = b]
<1>2. /\ [st EXCEPT !.field_index = a, !.start = b, !.direction = f] = [next EXCEPT !.direction = f]
      /\ [st EXCEPT !.field_index = a, !.start = b, !.strength = f] = [next EXCEPT !.strength = f]
  OBVIOUS
<1>3. /\ [next EXCEPT !.direction = f] \in ScanStates
      /\ [next EXCEPT !.strength = f] \in ScanStates
  <2> HIDE DEF next
  <2>1. next \in ScanStates
    BY <1>1 DEF next
  <2>2. QED
    BY <2>1 DEF ScanStates
<1>4. QED
  BY <1>1, <1>2, <1>3

\* One turn of parse_d0_fields(), field by field.
LEMMA ScanTurnIs ==
  ASSUME AnswerAssumption, sdi_d_rx_buf \in Seq(Nat),
         NEW st \in ScanStates, NEW i \in 0 .. Len(sdi_d_rx_buf)
  PROVE  LET field == SubSeq(sdi_d_rx_buf, st.start + 1, i)
         IN /\ ScanTurn(st, i) \in ScanStates
            /\ st.field_index = 3 \/ ~FieldEnds(i) => ScanTurn(st, i) = st
            /\ FieldEnds(i) /\ st.field_index = 0 =>
                 ScanTurn(st, i) = [st EXCEPT !.field_index = 1, !.start = i + 1]
            /\ FieldEnds(i) /\ st.field_index = 1 =>
                 ScanTurn(st, i) = [st EXCEPT !.field_index = 2, !.start = i + 1,
                                              !.direction = ParseUint(field)]
            /\ FieldEnds(i) /\ st.field_index = 2 =>
                 ScanTurn(st, i) = [st EXCEPT !.field_index = 3, !.start = i + 1,
                                              !.strength = ParseFixedCenti(field)]
<1> DEFINE field == SubSeq(sdi_d_rx_buf, st.start + 1, i)
<1>1. /\ st.field_index \in 0 .. 3 /\ st.start \in Nat /\ st.direction \in Results
      /\ st.strength \in Results
      /\ i \in Nat /\ i + 1 \in Nat
  BY DEF ScanStates
<1>2. field \in Seq(Nat)
  <2>1. \A k \in st.start + 1 .. i : sdi_d_rx_buf[k] \in Nat
    BY <1>1
  <2>2. QED
    BY <1>1, <2>1
<1>3. ParseUint(field) \in Results /\ ParseFixedCenti(field) \in Results
  <2> HIDE DEF field
  <2>1. QED
    BY <1>2, UintIsRead, FixedIsRead
<1> DEFINE f == ParseUint(field)
           g == ParseFixedCenti(field)
<1>4. CASE st.field_index = 3 \/ ~FieldEnds(i)
  <2>1. ScanTurn(st, i) = st
    BY <1>4 DEF ScanTurn
  <2> HIDE DEF field
  <2>2. QED
    BY <1>4, <2>1
<1>5. CASE FieldEnds(i) /\ st.field_index = 0
  <2>1. ScanTurn(st, i) = [st EXCEPT !.field_index = st.field_index + 1, !.start = i + 1]
    BY <1>5 DEF ScanTurn
  <2>2. ScanTurn(st, i) = [st EXCEPT !.field_index = 1, !.start = i + 1]
    BY <1>5, <2>1
  <2>3. [st EXCEPT !.field_index = 1, !.start = i + 1] \in ScanStates
    <3> DEFINE a == 1
               b == i + 1
    <3>1. a \in 0 .. 3 /\ b \in Nat
      BY <1>1
    <3> HIDE DEF a, b, field
    <3>2. [st EXCEPT !.field_index = a, !.start = b] \in ScanStates
      BY <1>3, <3>1, ScanStatesAre
    <3>3. QED
      BY <3>2 DEF a, b
  <2> HIDE DEF field
  <2>4. QED
    BY <1>5, <2>2, <2>3
<1>6. CASE FieldEnds(i) /\ st.field_index = 1
  <2>1. ScanTurn(st, i) =
          [[st EXCEPT !.field_index = st.field_index + 1, !.start = i + 1] EXCEPT !.direction = f]
    BY <1>6 DEF ScanTurn
  <2>2. f \in Results
    BY <1>3
  <2> HIDE DEF f, g
  <2>3. ScanTurn(st, i) = [st EXCEPT !.field_index = 2, !.start = i + 1, !.direction = f]
    BY <1>1, <1>6, <2>1 DEF ScanStates
  <2>4. [st EXCEPT !.field_index = 2, !.start = i + 1, !.direction = f] \in ScanStates
    <3> DEFINE a == 2
               b == i + 1
    <3>1. a \in 0 .. 3 /\ b \in Nat
      BY <1>1
    <3> HIDE DEF a, b
    <3>2. [st EXCEPT !.field_index = a, !.start = b, !.direction = f] \in ScanStates
      BY <2>2, <3>1, ScanStatesAre
    <3>3. QED
      BY <3>2 DEF a, b
  <2>5. QED
    BY <1>6, <2>3, <2>4 DEF f
<1>7. CASE FieldEnds(i) /\ st.field_index = 2
  <2>1. ScanTurn(st, i) =
          [[st EXCEPT !.field_index = st.field_index + 1, !.start = i + 1] EXCEPT !.strength = g]
    BY <1>7 DEF ScanTurn
  <2>2. g \in Results
    BY <1>3
  <2> HIDE DEF f, g
  <2>3. ScanTurn(st, i) = [st EXCEPT !.field_index = 3, !.start = i + 1, !.strength = g]
    BY <1>1, <1>7, <2>1 DEF ScanStates
  <2>4. [st EXCEPT !.field_index = 3, !.start = i + 1, !.strength = g] \in ScanStates
    <3> DEFINE a == 3
               b == i + 1
    <3>1. a \in 0 .. 3 /\ b \in Nat
      BY <1>1
    <3> HIDE DEF a, b
    <3>2. [st EXCEPT !.field_index = a, !.start = b, !.strength = g] \in ScanStates
      BY <2>2, <3>1, ScanStatesAre
    <3>3. QED
      BY <3>2 DEF a, b
  <2>5. QED
    BY <1>7, <2>3, <2>4 DEF g
<1>8. QED
  BY <1>1, <1>4, <1>5, <1>6, <1>7

\* The variables of parse_d0_fields(), turn by turn.
LEMMA ScanIs ==
  ASSUME AnswerAssumption, sdi_d_rx_buf \in Seq(Nat)
  PROVE  /\ Scan[0] = ScanStart
         /\ \A i \in 0 .. Len(sdi_d_rx_buf) : Scan[i + 1] = ScanTurn(Scan[i], i)
         /\ \A k \in 0 .. Len(sdi_d_rx_buf) + 1 : Scan[k] \in ScanStates
<1> DEFINE n == Len(sdi_d_rx_buf) + 1
           turn == [p \in ScanStates \X (1 .. n) |-> ScanTurn(p[1], p[2] - 1)]
           first == ScanStart
<1>1. n \in Nat /\ Len(sdi_d_rx_buf) \in Nat
  OBVIOUS
<1>2. ASSUME NEW st \in ScanStates, NEW k \in 1 .. n PROVE ScanTurn(st, k - 1) \in ScanStates
  <2>1. k - 1 \in 0 .. Len(sdi_d_rx_buf)
    BY <1>1
  <2>2. QED
    BY <2>1, ScanTurnIs
<1>3. turn \in Turns(ScanStates, n)
  BY <1>2 DEF Turns
<1>4. first \in ScanStates
  BY DEF ScanStart, ScanStates, Refused, Results
<1>5. PICK f : IsLoop(f, ScanStates, first, n, turn)
  <2> HIDE DEF turn, n, first
  <2>1. QED
    BY <1>1, <1>3, <1>4, LoopRuns
<1>6. f = [k \in 0 .. n |-> IF k = 0 THEN ScanStart ELSE ScanTurn(f[k - 1], k - 1)]
  <2>1. ASSUME NEW k \in 1 .. n PROVE turn[<<f[k - 1], k>>] = ScanTurn(f[k - 1], k - 1)
    <3>1. k - 1 \in 0 .. n
      BY <1>1
    <3>2. f[k - 1] \in ScanStates
      BY <1>5, <3>1 DEF IsLoop
    <3>3. QED
      BY <3>2
  <2>2. ASSUME NEW k \in 0 .. n
        PROVE  f[k] = IF k = 0 THEN ScanStart ELSE ScanTurn(f[k - 1], k - 1)
    <3>1. CASE k = 0
      BY <1>5, <3>1 DEF IsLoop
    <3>2. CASE k # 0
      <4>1. k \in 1 .. n
        BY <1>1, <3>2
      <4>2. f[k] = turn[<<f[k - 1], k>>]
        BY <1>5, <4>1 DEF IsLoop
      <4>3. QED
        BY <2>1, <3>2, <4>1, <4>2
    <3>3. QED
      BY <3>1, <3>2
  <2>3. f \in [0 .. n -> ScanStates]
    BY <1>5 DEF IsLoop
  <2>4. QED
    BY <2>2, <2>3
<1> DEFINE d == Scan
<1>7. d = [k \in 0 .. n |-> IF k = 0 THEN ScanStart ELSE ScanTurn(d[k - 1], k - 1)]
  BY <1>6 DEF Scan
<1>8. d[0] = ScanStart
  BY <1>1, <1>7
<1>9. ASSUME NEW k \in 1 .. n PROVE d[k] = ScanTurn(d[k - 1], k - 1)
  <2>1. k \in 0 .. n /\ k # 0
    BY <1>1
  <2> HIDE DEF d, n
  <2>2. QED
    BY <1>7, <2>1
<1> DEFINE T == {k \in 0 .. n : d[k] \in ScanStates}
<1>10. 0 \in T
  BY <1>1, <1>4, <1>8
<1>11. ASSUME NEW k \in 1 .. n, k - 1 \in T PROVE k \in T
  <2>1. d[k] \in ScanStates /\ k \in 0 .. n
    <3>1. d[k - 1] \in ScanStates
      BY <1>11
    <3> HIDE DEF d
    <3>2. QED
      BY <1>2, <1>9, <3>1
  <2> HIDE DEF d
  <2>2. QED
    BY <2>1
<1>12. \A k \in 0 .. n : k \in T
  <2> HIDE DEF T, n
  <2>1. QED
    BY <1>1, <1>10, <1>11, Induct
<1>13. ASSUME NEW i \in 0 .. Len(sdi_d_rx_buf) PROVE d[i + 1] = ScanTurn(d[i], i)
  <2>1. i + 1 \in 1 .. n /\ (i + 1) - 1 = i
    BY <1>1
  <2>2. d[i + 1] = ScanTurn(d[(i + 1) - 1], (i + 1) - 1)
    <3> HIDE DEF d
    <3>1. QED
      BY <1>9, <2>1
  <2>3. QED
    BY <2>1, <2>2
<1>14. QED
  BY <1>8, <1>12, <1>13

\* Turns in which no field ends, or behind the third one, change nothing.
LEMMA ScanStays ==
  ASSUME AnswerAssumption, sdi_d_rx_buf \in Seq(Nat),
         NEW a \in Nat, NEW c \in Nat, a <= c, c <= Len(sdi_d_rx_buf) + 1,
         Scan[a].field_index = 3 \/ \A i \in a .. c - 1 : ~FieldEnds(i)
  PROVE  Scan[c] = Scan[a]
<1> DEFINE m == c - a
           T == {k \in 0 .. m : Scan[a + k] = Scan[a]}
<1>1. m \in Nat /\ a + m = c /\ a + 0 = a /\ Len(sdi_d_rx_buf) \in Nat
  OBVIOUS
<1>2. 0 \in T
  BY <1>1
<1>3. ASSUME NEW k \in 1 .. m, k - 1 \in T PROVE k \in T
  <2> DEFINE i == a + (k - 1)
  <2>1. i \in a .. c - 1 /\ i \in 0 .. Len(sdi_d_rx_buf) /\ i + 1 = a + k /\ k \in 0 .. m
    BY <1>1
  <2>2. Scan[i] = Scan[a]
    BY <1>3
  <2>6. i \in 0 .. Len(sdi_d_rx_buf) + 1
    BY <1>1, <2>1
  <2> HIDE DEF i
  <2>3. Scan[i + 1] = ScanTurn(Scan[i], i) /\ Scan[i] \in ScanStates
    BY <2>1, <2>6, ScanIs
  <2>4. ScanTurn(Scan[i], i) = Scan[i]
    <3> DEFINE st == Scan[i]
    <3>1. st \in ScanStates /\ (st.field_index = 3 \/ ~FieldEnds(i))
      BY <2>1, <2>2, <2>3
    <3> HIDE DEF st
    <3>2. ScanTurn(st, i) = st
      BY <2>1, <3>1, ScanTurnIs
    <3>3. QED
      BY <3>2 DEF st
  <2>5. QED
    BY <2>1, <2>2, <2>3, <2>4
<1>4. m \in T
  <2>1. m \in 0 .. m
    BY <1>1
  <2> HIDE DEF T, m
  <2>2. QED
    BY <1>1, <1>2, <1>3, <2>1, Induct
<1>5. QED
  BY <1>1, <1>4

\* How many bytes precede the next plus sign.
PlusAfter(s, m) == m = Lead(s, Plus)

\* What follows the first a bytes of the answer.
IsRest(s, a) ==
  /\ s \in Seq(Nat) /\ Len(s) = Len(sdi_d_rx_buf) - a
  /\ \A i \in 1 .. Len(s) : s[i] = sdi_d_rx_buf[i + a]

\* The field that begins there: where it ends, what is in it and what follows it.
LEMMA FieldIs ==
  ASSUME sdi_d_rx_buf \in Seq(Nat), NEW a \in Nat, a <= Len(sdi_d_rx_buf),
         NEW s, IsRest(s, a), NEW m \in Nat, PlusAfter(s, m)
  PROVE  /\ a + m <= Len(sdi_d_rx_buf)
         /\ \A i \in a .. a + m - 1 : ~FieldEnds(i)
         /\ FieldEnds(a + m)
         /\ Before(s, Plus) = SubSeq(sdi_d_rx_buf, a + 1, a + m)
         /\ Before(s, Plus) \in Seq(Nat) /\ Len(Before(s, Plus)) = m
         /\ a + m < Len(sdi_d_rx_buf) =>
              sdi_d_rx_buf[a + m + 1] = Plus /\ IsRest(Behind(s, Plus), a + m + 1)
<1> DEFINE B == sdi_d_rx_buf
           n == Len(B)
<1>1. /\ s \in Seq(Nat) /\ Len(s) = n - a /\ n \in Nat
      /\ \A i \in 1 .. n - a : s[i] = B[i + a]
  <2>1. s \in Seq(Nat) /\ Len(s) = n - a
    BY DEF IsRest
  <2>2. \A i \in 1 .. Len(s) : s[i] = B[i + a]
    BY DEF IsRest
  <2>3. QED
    BY <2>1, <2>2
<1>2. /\ m <= n - a
      /\ \A i \in 1 .. m : s[i] # Plus
      /\ m < n - a => s[m + 1] = Plus
  <2>1. /\ Lead(s, Plus) \in 0 .. Len(s)
        /\ \A i \in 1 .. Lead(s, Plus) : s[i] # Plus
        /\ Lead(s, Plus) < Len(s) => s[Lead(s, Plus) + 1] = Plus
    BY <1>1, LeadIs
  <2>2. Lead(s, Plus) = m
    BY DEF PlusAfter
  <2>3. /\ m \in 0 .. Len(s)
        /\ \A i \in 1 .. m : s[i] # Plus
        /\ m < Len(s) => s[m + 1] = Plus
    BY <2>1, <2>2
  <2>4. Len(s) = n - a
    BY <1>1
  <2> HIDE DEF n
  <2>5. QED
    BY <2>3, <2>4
<1>3. ASSUME NEW i \in a .. a + m - 1 PROVE ~FieldEnds(i)
  <2>1. i + 1 - a \in 1 .. m /\ i + 1 - a \in 1 .. n - a /\ (i + 1 - a) + a = i + 1 /\ i < n
    BY <1>1, <1>2
  <2>2. B[i + 1] # Plus
    BY <1>1, <1>2, <2>1
  <2>3. QED
    BY <2>1, <2>2 DEF FieldEnds
<1>4. a + m < n => B[a + m + 1] = Plus
  <2> SUFFICES ASSUME a + m < n PROVE B[a + m + 1] = Plus
    OBVIOUS
  <2>1. m + 1 \in 1 .. n - a /\ m < n - a /\ (m + 1) + a = a + m + 1
    BY <1>1
  <2>2. QED
    BY <1>1, <1>2, <2>1
<1>5. FieldEnds(a + m)
  BY <1>4 DEF FieldEnds
<1>6. /\ Before(s, Plus) \in Seq(Nat) /\ Len(Before(s, Plus)) = m
      /\ \A i \in 1 .. m : Before(s, Plus)[i] = s[i]
  BY <1>1, CutIs DEF PlusAfter
<1>7. Before(s, Plus) = SubSeq(B, a + 1, a + m)
  <2> DEFINE t == SubSeq(B, a + 1, a + m)
             u == Before(s, Plus)
  <2>1. t \in Seq(Nat) /\ Len(t) = m /\ \A i \in 1 .. m : t[i] = B[i + a]
    <3>1. \A i \in a + 1 .. a + m : B[i] \in Nat
      BY <1>1, <1>2
    <3>2. QED
      BY <1>1, <1>2, <3>1
  <2>2. ASSUME NEW i \in 1 .. m PROVE u[i] = B[i + a]
    <3>1. u[i] = s[i]
      BY <1>6
    <3>2. i \in 1 .. n - a
      BY <1>1, <1>2
    <3> HIDE DEF n, u
    <3>3. QED
      BY <1>1, <3>1, <3>2
  <2> HIDE DEF t, u, B
  <2>3. \A i \in 1 .. m : u[i] = t[i]
    BY <2>1, <2>2
  <2>4. u \in Seq(Nat) /\ Len(u) = m
    BY <1>6 DEF u
  <2>5. u = t
    BY <2>1, <2>3, <2>4, SeqEqual
  <2>6. QED
    BY <2>5 DEF t, u
<1>8. ASSUME a + m < n PROVE IsRest(Behind(s, Plus), a + m + 1)
  <2> DEFINE r == Behind(s, Plus)
  <2>1. /\ r \in Seq(Nat) /\ Len(r) = n - a - m - 1
        /\ \A i \in 1 .. Len(r) : r[i] = s[i + m + 1]
    <3>1. m < Len(s)
      BY <1>1, <1>8
    <3>2. QED
      BY <1>1, <3>1, CutIs DEF PlusAfter
  <2> HIDE DEF r
  <2>2. ASSUME NEW i \in 1 .. Len(r) PROVE r[i] = B[i + (a + m + 1)]
    <3>1. i + m + 1 \in 1 .. n - a /\ (i + m + 1) + a = i + (a + m + 1)
      <4>1. n \in Nat /\ Len(r) = n - a - m - 1 /\ i \in 1 .. Len(r)
        BY <1>1, <2>1
      <4> HIDE DEF n
      <4>2. i \in 1 .. n - a - m - 1
        BY <4>1
      <4>3. QED
        BY <4>1, <4>2
    <3>2. r[i] = s[i + m + 1] /\ s[i + m + 1] = B[(i + m + 1) + a]
      BY <1>1, <2>1, <3>1
    <3>3. QED
      BY <3>1, <3>2
  <2>3. Len(r) = n - (a + m + 1)
    BY <1>1, <2>1
  <2>4. QED
    BY <2>1, <2>2, <2>3 DEF IsRest, r
<1>9. a + m <= n
  BY <1>1, <1>2
<1>10. QED
  BY <1>3, <1>4, <1>5, <1>6, <1>7, <1>8, <1>9

\* What the scan has made of a field when it comes to its end.
FieldDone(st, next, start, field) ==
  /\ st.field_index = 0 => next = [st EXCEPT !.field_index = 1, !.start = start]
  /\ st.field_index = 1 =>
       next = [st EXCEPT !.field_index = 2, !.start = start, !.direction = ParseUint(field)]
  /\ st.field_index = 2 =>
       next = [st EXCEPT !.field_index = 3, !.start = start, !.strength = ParseFixedCenti(field)]

\* The field that begins there comes to its end in the scan.
LEMMA ScanField ==
  ASSUME AnswerAssumption, sdi_d_rx_buf \in Seq(Nat),
         NEW a \in Nat, a <= Len(sdi_d_rx_buf), Scan[a].start = a,
         NEW s, IsRest(s, a), NEW m \in Nat, PlusAfter(s, m)
  PROVE  FieldDone(Scan[a], Scan[a + m + 1], a + m + 1, Before(s, Plus))
<1> DEFINE n == Len(sdi_d_rx_buf)
           e == a + m
           st == Scan[a]
<1>1. /\ e <= n /\ n \in Nat /\ e \in Nat /\ a <= e
      /\ \A i \in a .. e - 1 : ~FieldEnds(i)
      /\ FieldEnds(e)
      /\ Before(s, Plus) = SubSeq(sdi_d_rx_buf, a + 1, e)
  <2>1. /\ a + m <= Len(sdi_d_rx_buf)
        /\ \A i \in a .. a + m - 1 : ~FieldEnds(i)
        /\ FieldEnds(a + m)
        /\ Before(s, Plus) = SubSeq(sdi_d_rx_buf, a + 1, a + m)
    BY FieldIs
  <2>2. a <= a + m /\ a + m \in Nat /\ n \in Nat
    OBVIOUS
  <2>3. QED
    BY <2>1, <2>2
<1> HIDE DEF e
<1>2. Scan[e] = st
  <2>1. e <= Len(sdi_d_rx_buf) + 1
    BY <1>1
  <2>2. QED
    BY <1>1, <2>1, ScanStays
<1>3. Scan[e + 1] = ScanTurn(st, e) /\ st \in ScanStates
  <2>1. e \in 0 .. n /\ a \in 0 .. n + 1
    BY <1>1
  <2>2. QED
    BY <1>2, <2>1, ScanIs
<1>4. e \in 0 .. n /\ st.start + 1 = a + 1
  BY <1>1
<1> HIDE DEF st
<1>5. /\ st.field_index = 0 =>
           ScanTurn(st, e) = [st EXCEPT !.field_index = 1, !.start = e + 1]
      /\ st.field_index = 1 =>
           ScanTurn(st, e) = [st EXCEPT !.field_index = 2, !.start = e + 1,
                                !.direction = ParseUint(SubSeq(sdi_d_rx_buf, st.start + 1, e))]
      /\ st.field_index = 2 =>
           ScanTurn(st, e) = [st EXCEPT !.field_index = 3, !.start = e + 1,
                                !.strength = ParseFixedCenti(SubSeq(sdi_d_rx_buf, st.start + 1, e))]
  BY <1>1, <1>3, <1>4, ScanTurnIs
<1>6. SubSeq(sdi_d_rx_buf, st.start + 1, e) = Before(s, Plus)
  BY <1>1, <1>4
<1>7. QED
  <2>1. FieldDone(st, ScanTurn(st, e), e + 1, Before(s, Plus))
    BY <1>5, <1>6 DEF FieldDone
  <2>2. QED
    BY <1>3, <2>1 DEF st, e

\* Every answer is read as it is meant.
LEMMA AnswerIsRead ==
  ASSUME AnswerAssumption, sdi_d_rx_buf \in Seq(Nat), Len(sdi_d_rx_buf) <= MaxLen
  PROVE  ReadAsMeant
<1> DEFINE B == sdi_d_rx_buf
           n == Len(B)
           R == Behind(B, Plus)
           Q == Behind(R, Plus)
           end == Scan[n + 1]
<1>1. n \in Nat /\ n + 1 \in Nat /\ IsRest(B, 0) /\ MaxLen \in Nat /\ n <= MaxLen
  BY DEF IsRest, AnswerAssumption
<1>2. Scan[0] = ScanStart
  BY ScanIs
<1>3. ParseD0.ok <=> end.direction.ok /\ end.strength.ok
  BY DEF ParseD0
<1>4. end.direction.ok /\ end.strength.ok =>
        /\ ParseD0.direction = end.direction.value % DirectionWord
        /\ ParseD0.strength = end.strength.value
  BY DEF ParseD0
<1>5. PICK p \in Nat : PlusAfter(B, p)
  BY LeadIs DEF PlusAfter
<1>6. /\ p <= n /\ \A i \in 0 .. p - 1 : ~FieldEnds(i)
      /\ p < n => B[p + 1] = Plus /\ IsRest(R, p + 1)
  <2>1. 0 \in Nat /\ 0 <= n /\ 0 + p = p
    BY <1>1
  <2>2. QED
    BY <1>1, <1>5, <2>1, FieldIs
<1>7. Scan[p + 1] = [field_index |-> 1, start |-> p + 1, direction |-> Refused, strength |-> Refused]
  <2>1. 0 \in Nat /\ 0 <= n /\ 0 + p + 1 = p + 1
    BY <1>1
  <2>2. Scan[0].start = 0 /\ Scan[0].field_index = 0
    BY <1>2 DEF ScanStart
  <2>3. Scan[p + 1] = [ScanStart EXCEPT !.field_index = 1, !.start = p + 1]
    <3> DEFINE a == 0
    <3>1. a \in Nat /\ a <= Len(sdi_d_rx_buf) /\ Scan[a].start = a /\ IsRest(B, a)
      BY <1>1, <2>1, <2>2
    <3>2. Scan[a].field_index = 0
      BY <2>2
    <3>3. a + p + 1 = p + 1 /\ Scan[a] = ScanStart
      BY <1>2
    <3> HIDE DEF a
    <3>4. FieldDone(Scan[a], Scan[a + p + 1], a + p + 1, Before(B, Plus))
      BY <1>5, <3>1, ScanField
    <3>5. Scan[a + p + 1] = [Scan[a] EXCEPT !.field_index = 1, !.start = a + p + 1]
      BY <3>2, <3>4 DEF FieldDone
    <3>6. QED
      BY <3>3, <3>5
  <2>4. QED
    BY <2>3 DEF ScanStart
<1>8. CASE p = n
  <2>1. end.direction = Refused
    BY <1>7, <1>8
  <2>2. ~ParseD0.ok
    BY <1>3, <2>1 DEF Refused
  <2>3. ~TwoPlus
    <3> SUFFICES ASSUME NEW i \in 1 .. n, B[i] = Plus PROVE FALSE
      BY <1>1 DEF TwoPlus
    <3>1. i - 1 \in 0 .. p - 1
      BY <1>1, <1>8
    <3>2. FieldEnds(i - 1)
      BY <1>1 DEF FieldEnds
    <3>3. QED
      BY <1>6, <3>1, <3>2
  <2>4. QED
    BY <2>2, <2>3 DEF ReadAsMeant, WellFormed
<1>9. CASE p < n
  <2>1. PICK q \in Nat : PlusAfter(R, q)
    <3>1. R \in Seq(Nat)
      BY <1>6, <1>9 DEF IsRest
    <3>2. QED
      BY <3>1, LeadIs DEF PlusAfter
  <2> DEFINE e == p + 1 + q
             dir == ParseUint(Direction)
  <2>2. /\ e <= n /\ \A i \in p + 1 .. e - 1 : ~FieldEnds(i)
        /\ Direction \in Seq(Nat) /\ Len(Direction) = q
        /\ e < n => B[e + 1] = Plus /\ IsRest(Q, e + 1)
    <3>1. p + 1 \in Nat /\ p + 1 <= n
      BY <1>1, <1>9
    <3>2. QED
      BY <1>6, <1>9, <2>1, <3>1, FieldIs DEF Direction
  <2>3. Scan[e + 1] = [field_index |-> 2, start |-> e + 1, direction |-> dir, strength |-> Refused]
    <3> DEFINE a == p + 1
               st == Scan[a]
    <3>1. a \in Nat /\ a <= Len(sdi_d_rx_buf) /\ IsRest(R, a)
      BY <1>1, <1>6, <1>9
    <3>2. Scan[a].start = a /\ Scan[a].field_index = 1
      BY <1>7
    <3>3. st = [field_index |-> 1, start |-> a, direction |-> Refused, strength |-> Refused]
      BY <1>7
    <3>4. a + q + 1 = e + 1
      OBVIOUS
    <3>5. dir = ParseUint(Before(R, Plus))
      BY DEF Direction
    <3> HIDE DEF a, R, e, dir, st
    <3>6. Scan[a + q + 1] = [Scan[a] EXCEPT !.field_index = 2, !.start = a + q + 1,
                                            !.direction = ParseUint(Before(R, Plus))]
      <4>1. FieldDone(Scan[a], Scan[a + q + 1], a + q + 1, Before(R, Plus))
        BY <2>1, <3>1, <3>2, ScanField
      <4>2. QED
        BY <3>2, <4>1 DEF FieldDone
    <3>7. Scan[e + 1] = [st EXCEPT !.field_index = 2, !.start = e + 1, !.direction = dir]
      BY <3>4, <3>5, <3>6 DEF st
    <3>8. QED
      BY <3>3, <3>7
  <2>4. e \in Nat
    OBVIOUS
  <2> HIDE DEF e
  <2>5. CASE e = n
    <3>1. end.strength = Refused
      BY <2>3, <2>5
    <3>2. ~ParseD0.ok
      BY <1>3, <3>1 DEF Refused
    <3>3. ~TwoPlus
      <4> SUFFICES ASSUME NEW i \in 1 .. n, NEW j \in 1 .. n, i < j, B[i] = Plus, B[j] = Plus
                   PROVE  FALSE
        BY <1>1 DEF TwoPlus
      <4>1. FieldEnds(i - 1) /\ FieldEnds(j - 1)
        <5>1. (i - 1) + 1 = i /\ (j - 1) + 1 = j
          OBVIOUS
        <5>2. QED
          BY <5>1 DEF FieldEnds
      <4>2. i - 1 \in 0 .. p - 1 \/ j - 1 \in p + 1 .. e - 1
        BY <1>1, <2>5
      <4>3. QED
        BY <1>6, <2>2, <4>1, <4>2
    <3>4. QED
      BY <3>2, <3>3 DEF ReadAsMeant, WellFormed
  <2>6. CASE e < n
    <3>1. PICK r \in Nat : PlusAfter(Q, r)
      <4>1. Q \in Seq(Nat)
        BY <2>2, <2>6 DEF IsRest
      <4>2. QED
        BY <4>1, LeadIs DEF PlusAfter
    <3> DEFINE f == e + 1 + r
               str == ParseFixedCenti(Strength)
    <3>2. e + 1 \in Nat /\ e + 1 <= n /\ IsRest(Q, e + 1)
      BY <1>1, <2>2, <2>4, <2>6
    <3>3. f <= n /\ Strength \in Seq(Nat) /\ Len(Strength) = r
      BY <3>1, <3>2, FieldIs DEF Strength
    <3>4. Scan[f + 1] = [field_index |-> 3, start |-> f + 1, direction |-> dir, strength |-> str]
      <4> DEFINE a == e + 1
                 st == Scan[a]
      <4>1. a \in Nat /\ a <= Len(sdi_d_rx_buf) /\ IsRest(Q, a)
        BY <3>2
      <4>2. Scan[a].start = a /\ Scan[a].field_index = 2
        BY <2>3
      <4>3. st = [field_index |-> 2, start |-> a, direction |-> dir, strength |-> Refused]
        BY <2>3
      <4>4. a + r + 1 = f + 1
        OBVIOUS
      <4>5. str = ParseFixedCenti(Before(Q, Plus))
        BY DEF Strength
      <4> HIDE DEF a, Q, R, f, dir, str, st
      <4>6. Scan[a + r + 1] = [Scan[a] EXCEPT !.field_index = 3, !.start = a + r + 1,
                                              !.strength = ParseFixedCenti(Before(Q, Plus))]
        <5>1. FieldDone(Scan[a], Scan[a + r + 1], a + r + 1, Before(Q, Plus))
          BY <3>1, <4>1, <4>2, ScanField
        <5>2. QED
          BY <4>2, <5>1 DEF FieldDone
      <4>7. Scan[f + 1] = [st EXCEPT !.field_index = 3, !.start = f + 1, !.strength = str]
        BY <4>4, <4>5, <4>6 DEF st
      <4>8. QED
        BY <4>3, <4>7
    <3>5. end = Scan[f + 1]
      <4>1. f + 1 \in Nat /\ f + 1 <= n + 1
        BY <1>1, <2>4, <3>3
      <4>2. Scan[f + 1].field_index = 3
        BY <3>4
      <4> HIDE DEF f
      <4>3. QED
        BY <1>1, <4>1, <4>2, ScanStays
    <3>6. end.direction = dir /\ end.strength = str
      BY <3>4, <3>5
    <3>7. TwoPlus
      <4>1. p + 1 \in 1 .. n /\ e + 1 \in 1 .. n /\ p + 1 < e + 1
        BY <1>1, <1>9, <2>4, <2>6 DEF e
      <4>2. QED
        BY <1>6, <1>9, <2>2, <2>6, <4>1 DEF TwoPlus
    <3>8. Len(Direction) <= MaxLen /\ Len(Strength) <= MaxLen
      BY <1>1, <2>2, <2>4, <3>3 DEF e
    <3>9. /\ dir.ok <=> Direction # <<>> /\ AllDigits(Direction)
          /\ dir.ok => dir.value = Number(Direction) % ValueWord
      BY <2>2, <3>8, UintIsRead
    <3>10. /\ str.ok <=> InOrder(Strength)
           /\ InOrder(Strength) => str.value = Centi(Strength) % ValueWord
      BY <3>3, <3>8, FixedIsRead
    <3> HIDE DEF dir, str, end
    <3>11. ParseD0.ok <=> WellFormed
      BY <1>3, <3>6, <3>7, <3>9, <3>10 DEF WellFormed, InOrder
    <3>12. WellFormed => /\ ParseD0.direction = (Number(Direction) % ValueWord) % DirectionWord
                         /\ ParseD0.strength = Centi(Strength) % ValueWord
      BY <1>3, <1>4, <3>6, <3>9, <3>10, <3>11
    <3>13. QED
      BY <3>11, <3>12 DEF ReadAsMeant
  <2>7. QED
    BY <1>1, <2>2, <2>4, <2>5, <2>6
<1>10. QED
  BY <1>1, <1>6, <1>8, <1>9

-----------------------------------------------------------------------------
(* SdiAnswer: what follows.                                                *)

\* The answer keeps its type, however many bytes come in.
THEOREM AnswerTypeCorrect == ASSUME AnswerAssumption PROVE AnswerSpec => []AnswerTypeOK
<1>1. AnswerInit => AnswerTypeOK
  BY DEF AnswerInit, AnswerTypeOK, AnswerAssumption
<1>2. AnswerTypeOK /\ [AnswerNext]_sdi_d_rx_buf => AnswerTypeOK'
  BY DEF AnswerTypeOK, AnswerNext, AnswerAssumption
<1>3. QED
  BY <1>1, <1>2, PTL DEF AnswerSpec

\* Whatever bytes come in, parse_d0_fields() takes the well-formed answers, for what they
\* mean (main.c:61).
THEOREM ReadCorrect == ASSUME AnswerAssumption PROVE AnswerSpec => []ReadAsMeant
<1>1. AnswerTypeOK => ReadAsMeant
  <2> SUFFICES ASSUME AnswerTypeOK PROVE ReadAsMeant
    OBVIOUS
  <2>1. sdi_d_rx_buf \in Seq(Nat) /\ Len(sdi_d_rx_buf) <= MaxLen
    <3>1. Alphabet \subseteq Nat
      BY DEF AnswerAssumption
    <3>2. \A i \in 1 .. Len(sdi_d_rx_buf) : sdi_d_rx_buf[i] \in Alphabet
      BY DEF AnswerTypeOK
    <3>3. \A i \in 1 .. Len(sdi_d_rx_buf) : sdi_d_rx_buf[i] \in Nat
      BY <3>1, <3>2
    <3>4. sdi_d_rx_buf = [i \in 1 .. Len(sdi_d_rx_buf) |-> sdi_d_rx_buf[i]]
          /\ Len(sdi_d_rx_buf) \in Nat /\ Len(sdi_d_rx_buf) <= MaxLen
      BY DEF AnswerTypeOK
    <3>5. QED
      BY <3>3, <3>4, SeqDef
  <2>2. QED
    BY <2>1, AnswerIsRead
<1>2. QED
  BY <1>1, AnswerTypeCorrect, PTL

-----------------------------------------------------------------------------
(* The parts side by side.  Each moves by its own specification, so that   *)
(* what is proved of it holds on the whole way.                            *)

ByteProofs == INSTANCE SdiByteProofs WITH Chars <- SentChars, heard <- command_heard
StatsProofs == INSTANCE WindStatsProofs WITH Readings <- SomeReadings

\* The bytes on the line are those of the module they are proved in.
LEMMA SameBytes ==
  /\ Bytes!Init => ByteProofs!Init
  /\ Bytes!Next => ByteProofs!Next
  /\ ByteProofs!BytesSurvive => Bytes!BytesSurvive
  /\ ByteProofs!TypeOK => Bytes!TypeOK
<1>1. Bytes!Init => ByteProofs!Init
  BY DEF Bytes!Init, ByteProofs!Init
<1>2. Bytes!Next => ByteProofs!Next
  BY DEF Bytes!Next, ByteProofs!Next, Bytes!RecvByte, ByteProofs!RecvByte,
         Bytes!SendByte, ByteProofs!SendByte, Bytes!ByteTicks, ByteProofs!ByteTicks,
         Bytes!Level, ByteProofs!Level, Bytes!BitOf, ByteProofs!BitOf,
         Bytes!Weight, ByteProofs!Weight, Bytes!Ones, ByteProofs!Ones,
         Bytes!Received, ByteProofs!Received, Bytes!CharOf, ByteProofs!CharOf,
         Bytes!Majority, ByteProofs!Majority, Bytes!Samples, ByteProofs!Samples,
         Bytes!Centre, ByteProofs!Centre, Bytes!SpanTicks, ByteProofs!SpanTicks,
         Bytes!Driven, ByteProofs!Driven, Bytes!Heard, ByteProofs!Heard
<1>3. ByteProofs!BytesSurvive => Bytes!BytesSurvive
  BY DEF Bytes!BytesSurvive, ByteProofs!BytesSurvive, Bytes!LineSurvives,
         ByteProofs!LineSurvives, Bytes!FirstBytesSurvive, ByteProofs!FirstBytesSurvive,
         Bytes!LagBefore, ByteProofs!LagBefore, Bytes!HeardIsSent, ByteProofs!HeardIsSent
<1>4. ByteProofs!TypeOK => Bytes!TypeOK
  BY DEF Bytes!TypeOK, ByteProofs!TypeOK
<1>5. QED
  BY <1>1, <1>2, <1>3, <1>4

\* So are the statistics.
LEMMA SameStats ==
  /\ Stats!Init => StatsProofs!Init
  /\ Stats!Next => StatsProofs!Next
  /\ StatsProofs!ExtremesHold => Stats!ExtremesHold
  /\ StatsProofs!DirectionIsMean => Stats!DirectionIsMean
  /\ StatsProofs!TypeOK => Stats!TypeOK
<1>1. ASSUME NEW q
      PROVE  /\ Stats!Sine(q) = StatsProofs!Sine(q) /\ Stats!Cosine(q) = StatsProofs!Cosine(q)
             /\ Stats!QuarterOn(q) = StatsProofs!QuarterOn(q)
  BY DEF Stats!Sine, StatsProofs!Sine, Stats!Cosine, StatsProofs!Cosine,
         Stats!QuarterOn, StatsProofs!QuarterOn
<1>2. ASSUME NEW i
      PROVE  Stats!WindowSum(i) = StatsProofs!WindowSum(i)
  BY DEF Stats!WindowSum, StatsProofs!WindowSum
<1>3. ASSUME NEW sin, NEW cos
      PROVE  Stats!Direction(sin, cos) = StatsProofs!Direction(sin, cos)
  BY DEF Stats!Direction, StatsProofs!Direction, Stats!Normalized, StatsProofs!Normalized,
         Stats!Atan2, StatsProofs!Atan2, Stats!Sign, StatsProofs!Sign
<1>4. Stats!Init => StatsProofs!Init
  BY DEF Stats!Init, StatsProofs!Init
<1>5. Stats!Next => StatsProofs!Next
  BY <1>1, <1>2, <1>3
     DEF Stats!Next, StatsProofs!Next, Stats!ReadSample, StatsProofs!ReadSample,
         Stats!Calculate, StatsProofs!Calculate, Stats!AddSample, StatsProofs!AddSample,
         Stats!Average, StatsProofs!Average, Stats!RollWindow, StatsProofs!RollWindow,
         Stats!Rolled, StatsProofs!Rolled, Stats!sums, StatsProofs!sums,
         Stats!results, StatsProofs!results, Stats!Window, StatsProofs!Window,
         Stats!Seed, StatsProofs!Seed, Stats!Larger, StatsProofs!Larger,
         Stats!Smaller, StatsProofs!Smaller
<1>6. StatsProofs!ExtremesHold => Stats!ExtremesHold
  BY <1>2
     DEF Stats!ExtremesHold, StatsProofs!ExtremesHold,
         Stats!RollingIsExtreme, StatsProofs!RollingIsExtreme,
         Stats!AverageIsBetween, StatsProofs!AverageIsBetween,
         Stats!Runs, StatsProofs!Runs, Stats!Window, StatsProofs!Window
<1>7. StatsProofs!DirectionIsMean => Stats!DirectionIsMean
  BY <1>1, <1>3
     DEF Stats!DirectionIsMean, StatsProofs!DirectionIsMean,
         Stats!TurnsWithWind, StatsProofs!TurnsWithWind,
         Stats!BetweenNeighbours, StatsProofs!BetweenNeighbours,
         Stats!HasAverage, StatsProofs!HasAverage
<1>8. StatsProofs!TypeOK => Stats!TypeOK
  BY DEF Stats!TypeOK, StatsProofs!TypeOK, Stats!Sectors, StatsProofs!Sectors
<1>9. QED
  BY <1>4, <1>5, <1>6, <1>7, <1>8

\* The assumptions are the same as well.
LEMMA SameAssumptions == ByteProofs!ByteAssumption /\ StatsProofs!StatsAssumption
BY PathAssumption
   DEF Bytes!ByteAssumption, ByteProofs!ByteAssumption,
       Stats!StatsAssumption, StatsProofs!StatsAssumption

\* Whatever part moves, each goes by its own specification.
LEMMA PartsMove ==
  PathSpec => Spec /\ LineSpec /\ ByteProofs!Spec /\ AnswerSpec /\ StatsProofs!Spec
<1>1. PathInit => Init /\ LineInit /\ ByteProofs!Init /\ AnswerInit /\ StatsProofs!Init
  BY SameBytes, SameStats DEF PathInit
<1>2. [PathNext]_<<part, vars, line_vars, byte_vars, sdi_d_rx_buf, stats_vars>>
        => /\ [Next]_vars /\ [LineNext]_line_vars
           /\ [ByteProofs!Next]_(ByteProofs!vars) /\ [AnswerNext]_sdi_d_rx_buf
           /\ [StatsProofs!Next]_(StatsProofs!vars)
  BY SameBytes, SameStats
     DEF PathNext, CyclePart, LinePart, BytesPart, AnswerPart, StatsPart, byte_vars, stats_vars,
         ByteProofs!vars, StatsProofs!vars, StatsProofs!sums, StatsProofs!results
<1>3. QED
  BY <1>1, <1>2, PTL DEF PathSpec, Spec, LineSpec, ByteProofs!Spec, AnswerSpec, StatsProofs!Spec

\* Every variable of every part keeps its type, and the receive buffer is not overrun,
\* whichever of them moves.
THEOREM PathTypeCorrect == PathSpec => []PathTypeOK
<1>1. Spec => []TypeOK
  BY TypeCorrect
<1>2. LineSpec => []LineTypeOK
  BY LineTypeCorrect
<1>3. ByteProofs!Spec => []Bytes!TypeOK
  BY ByteProofs!TypeCorrect, SameBytes, SameAssumptions, PTL
<1>4. StatsProofs!Spec => []Stats!TypeOK
  BY StatsProofs!TypeCorrect, SameStats, SameAssumptions, PTL
<1>5. AnswerAssumption
  BY PathAssumption
<1>6. AnswerSpec => []AnswerTypeOK
  BY <1>5, AnswerTypeCorrect
<1>7. TypeOK /\ LineTypeOK /\ Bytes!TypeOK /\ AnswerTypeOK /\ Stats!TypeOK => PathTypeOK
  BY DEF PathTypeOK
<1>8. QED
  BY <1>1, <1>2, <1>3, <1>4, <1>6, <1>7, PartsMove, PTL

\* Every byte of a line is read, as far as the clocks allow, and the sensor hears the ULP
\* (ulp_sdi_wind.cpp:154, sdi.c:144).
THEOREM PathBytes == PathSpec => []BytesSurvive
<1>1. ByteProofs!Spec => []Bytes!BytesSurvive
  BY ByteProofs!BytesCorrect, SameBytes, SameAssumptions, PTL
<1>2. Bytes!BytesSurvive => BytesSurvive
  BY DEF BytesSurvive
<1>3. QED
  BY <1>1, <1>2, PartsMove, PTL

\* Exactly the well-formed answers are taken, for what they mean (main.c:61,
\* ulp_sdi_wind.cpp:212).
THEOREM PathRead == PathSpec => []ReadAsMeant
<1>1. AnswerAssumption
  BY PathAssumption
<1>2. AnswerSpec => []ReadAsMeant
  BY <1>1, ReadCorrect
<1>3. QED
  BY <1>2, PartsMove, PTL

\* Gust and minimum are the extremes of all windows, and the average of a snapshot that
\* divides into windows lies between them (main.cpp:308).
THEOREM PathExtremes == PathSpec => []ExtremesHold
<1>1. StatsProofs!Spec => []Stats!ExtremesHold
  BY StatsProofs!ExtremesCorrect, SameStats, SameAssumptions, PTL
<1>2. Stats!ExtremesHold => ExtremesHold
  BY DEF ExtremesHold
<1>3. QED
  BY <1>1, <1>2, PartsMove, PTL

\* The mean direction turns with the wind and lies where it comes from (main.cpp:262).
THEOREM PathDirection == PathSpec => []DirectionIsMean
<1>1. StatsProofs!Spec => []Stats!DirectionIsMean
  BY StatsProofs!DirectionCorrect, SameStats, SameAssumptions, PTL
<1>2. Stats!DirectionIsMean => DirectionIsMean
  BY DEF DirectionIsMean
<1>3. QED
  BY <1>1, <1>2, PartsMove, PTL
=============================================================================
