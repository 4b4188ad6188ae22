-------------------------- MODULE TemperatureProofs -------------------------
(***************************************************************************)
(* Proofs about the temperature sensor.  Ds18b20, for every conversion     *)
(* time and timeout and any number of boots and faults: what a reading is, *)
(* and why it is wrong when it is.  OneWireCrc, for every temperature and  *)
(* every pattern of faults that it follows: which of them the CRC sees.    *)
(***************************************************************************)
EXTENDS MCTemperature, TLAPS

USE DEF device, vars, PowerOn, Zeroes, None

-----------------------------------------------------------------------------
(* Ds18b20: the inductive invariant.                                       *)

\* There is no reading before the scratchpad has been read.
ReadingInv ==
  /\ pc \in {"start", "meanwhile", "wait", "read"} => reading = None
  /\ scratchpad # 0

\* A sensor that has heard the command is at this boot's temperature, or has come
\* to it, or has lost it with its power.
ConversionInv ==
  pc \in {"meanwhile", "wait", "read"} /\ bus = "up" /\ "deaf" \notin troubles =>
    /\ left > 0 => converting = boot
    /\ left = 0 => scratchpad = boot \/ (scratchpad = PowerOn /\ "power" \in troubles)

\* Nothing is read but after the line has been high, and a line that is held down
\* is not high.
HighInv ==
  pc = "read" =>
    /\ bus = "up" => left = 0
    /\ bus = "low" => "shorted" \in troubles

IInv ==
  /\ TypeOK
  /\ ReadingInv /\ ConversionInv /\ HighInv
  /\ WrongHasCause /\ WorkingIsRead

-----------------------------------------------------------------------------
(* Ds18b20: every step keeps it.                                           *)

\* The first boot.
LEMMA InitIInv == Init => IInv
<1> SUFFICES ASSUME Init PROVE IInv
  OBVIOUS
<1>1. TypeOK
  BY SensorAssumption DEF Init, TypeOK
<1>2. ReadingInv /\ ConversionInv /\ HighInv /\ WrongHasCause /\ WorkingIsRead
  BY DEF Init, ReadingInv, ConversionInv, HighInv, WrongHasCause, WorkingIsRead
<1>3. QED
  BY <1>1, <1>2 DEF IInv

\* A conversion goes on, or ends with the temperature it was started at.
LEMMA TickIs ==
  ASSUME TypeOK, scratchpad # 0, Tick
  PROVE  /\ left' \in 0 .. ConversionTime /\ scratchpad' \in -1 .. MaxBoots
         /\ scratchpad' # 0
         /\ left' > 0 => left > 0
         /\ left' = 0 => (left = 0 /\ scratchpad' = scratchpad) \/ (left = 1 /\ scratchpad' = converting)
BY SensorAssumption DEF TypeOK, Tick

\* A fault is counted and remembered.
LEMMA FaultIs ==
  ASSUME TypeOK, NEW kind \in Kinds, Fault(kind)
  PROVE  /\ faults' \in 0 .. MaxFaults
         /\ troubles' = troubles \cup {kind} /\ troubles' \in SUBSET Kinds
BY SensorAssumption DEF TypeOK, Fault

\* The variables keep their types.
LEMMA TypeStep == IInv /\ [Next]_vars => TypeOK'
<1> SUFFICES ASSUME IInv, [Next]_vars PROVE TypeOK'
  OBVIOUS
<1> USE SensorAssumption DEF IInv
<1>1. CASE Replug
  <2>1. /\ bus' \in {"up", "off", "low"} /\ left' \in 0 .. ConversionTime
        /\ scratchpad' \in -1 .. MaxBoots
    BY <1>1 DEF Replug, TypeOK
  <2>2. faults' \in 0 .. MaxFaults /\ troubles' \in SUBSET Kinds
    BY <1>1, FaultIs DEF Replug, TypeOK, Kinds
  <2>3. QED
    BY <1>1, <2>1, <2>2 DEF Replug, TypeOK
<1>2. CASE Start
  <2>1. faults' \in 0 .. MaxFaults /\ troubles' \in SUBSET Kinds
    BY <1>2, FaultIs DEF Start, TypeOK, Kinds
  <2>2. left' \in 0 .. ConversionTime /\ converting' \in 1 .. MaxBoots
    BY <1>2 DEF Start, TypeOK
  <2>3. pc' \in {"start", "meanwhile", "wait", "read", "done"}
    BY <1>2 DEF Start
  <2>4. UNCHANGED <<polls, reading, bus, scratchpad, boot>>
    BY <1>2 DEF Start
  <2>5. QED
    BY <2>1, <2>2, <2>3, <2>4 DEF TypeOK
<1>3. CASE Meanwhile
  BY <1>3, TickIs DEF Meanwhile, ReadingInv, TypeOK
<1>4. CASE Wait
  BY <1>4, TickIs DEF Wait, MorePolls, AfterTimeout, ReadingInv, TypeOK
<1>5. CASE Read
  <2>1. faults' \in 0 .. MaxFaults /\ troubles' \in SUBSET Kinds
    BY <1>5, FaultIs DEF Read, TypeOK, Kinds
  <2>2. reading' \in -2 .. MaxBoots
    BY <1>5 DEF Read, Checks, TypeOK
  <2>3. pc' = "done" /\ UNCHANGED <<polls, bus, left, scratchpad, converting, boot>>
    BY <1>5 DEF Read
  <2>4. QED
    BY <2>1, <2>2, <2>3 DEF TypeOK
<1>6. CASE Boot
  BY <1>6 DEF Boot, TypeOK
<1>7. CASE UNCHANGED vars
  BY <1>7 DEF TypeOK
<1>8. QED
  BY <1>1, <1>2, <1>3, <1>4, <1>5, <1>6, <1>7 DEF Next

\* What the sensor holds, and what a reading is, follow the driver's progress.
LEMMA ReadingStep ==
  IInv /\ [Next]_vars =>
    ReadingInv' /\ ConversionInv' /\ HighInv' /\ WrongHasCause' /\ WorkingIsRead'
<1> SUFFICES ASSUME IInv, [Next]_vars
             PROVE  ReadingInv' /\ ConversionInv' /\ HighInv' /\ WrongHasCause' /\ WorkingIsRead'
  OBVIOUS
<1> USE SensorAssumption DEF IInv
<1>1. CASE Replug
  <2>1. /\ troubles \subseteq troubles' /\ troubles' # {}
        /\ bus' = "low" => bus = "up" /\ "shorted" \in troubles'
        /\ bus' = "up" => left' = 0 /\ scratchpad' = PowerOn /\ "power" \in troubles'
        /\ bus' # "up" => UNCHANGED scratchpad
    BY <1>1, FaultIs DEF Replug, Kinds
  <2>2. ReadingInv' /\ ConversionInv' /\ HighInv'
    BY <1>1, <2>1 DEF Replug, ReadingInv, ConversionInv, HighInv
  <2>3. WrongHasCause' /\ WorkingIsRead'
    BY <1>1, <2>1 DEF Replug, WrongHasCause, WorkingIsRead
  <2>4. QED
    BY <2>2, <2>3
<1>2. CASE Start
  <2>1. reading = None /\ reading' = None
    BY <1>2 DEF Start, ReadingInv
  <2>2. CASE ~Present
    BY <1>2, <2>1, <2>2 DEF Start, Present, ReadingInv, ConversionInv, HighInv, WrongHasCause, WorkingIsRead
  <2>3. CASE Present /\ ~Fault("deaf")
    BY <1>2, <2>1, <2>3 DEF Start, ReadingInv, ConversionInv, HighInv, WrongHasCause, WorkingIsRead
  <2>4. CASE Present /\ Fault("deaf")
    <3>1. "deaf" \in troubles'
      BY <2>4, FaultIs DEF Kinds
    <3>2. QED
      BY <1>2, <2>1, <2>4, <3>1 DEF Start, ReadingInv, ConversionInv, HighInv, WrongHasCause, WorkingIsRead
  <2>5. QED
    BY <2>2, <2>3, <2>4
<1>3. CASE Meanwhile
  BY <1>3, TickIs DEF Meanwhile, TypeOK, ReadingInv, ConversionInv, HighInv, WrongHasCause, WorkingIsRead
<1>4. CASE Wait
  <2>1. CASE MorePolls /\ ~ReadsHigh
    BY <1>4, <2>1, TickIs DEF Wait, TypeOK, ReadingInv, ConversionInv, HighInv, WrongHasCause, WorkingIsRead
  <2>2. CASE ReadsHigh
    BY <1>4, <2>2 DEF Wait, AfterTimeout, ReadsHigh, TypeOK, ReadingInv, ConversionInv, HighInv,
       WrongHasCause, WorkingIsRead
  <2>3. CASE ~MorePolls /\ ~ReadsHigh
    BY <1>4, <2>3 DEF Wait, MorePolls, AfterTimeout, TypeOK, ReadingInv, ConversionInv, HighInv,
       WrongHasCause, WorkingIsRead
  <2>4. QED
    BY <2>1, <2>2, <2>3
<1>5. CASE Read
  <2>1. pc' = "done" /\ UNCHANGED <<bus, left, scratchpad, converting, boot, polls>> /\ troubles \subseteq troubles'
    BY <1>5 DEF Read, Fault
  <2>2. CASE ~Present /\ reading' = None
    BY <1>5, <2>1, <2>2 DEF Present, ReadingInv, ConversionInv, HighInv, WrongHasCause, WorkingIsRead
  <2>3. CASE bus = "low" /\ reading' = Zeroes
    BY <1>5, <2>1, <2>3 DEF Read, ReadingInv, ConversionInv, HighInv, WrongHasCause, WorkingIsRead
  <2>4. CASE bus = "up" /\ reading' = scratchpad
    BY <1>5, <2>1, <2>4 DEF Read, TypeOK, ReadingInv, ConversionInv, HighInv, WrongHasCause, WorkingIsRead
  <2>5. CASE Fault("noise") /\ reading' = None
    BY <1>5, <2>1, <2>5, FaultIs DEF Kinds, ReadingInv, ConversionInv, HighInv, WrongHasCause, WorkingIsRead
  <2>6. QED
    BY <1>5, <2>2, <2>3, <2>4, <2>5 DEF Read, Checks
<1>6. CASE Boot
  BY <1>6 DEF Boot, TypeOK, ReadingInv, ConversionInv, HighInv, WrongHasCause, WorkingIsRead
<1>7. CASE UNCHANGED vars
  BY <1>7 DEF ReadingInv, ConversionInv, HighInv, WrongHasCause, WorkingIsRead
<1>8. QED
  BY <1>1, <1>2, <1>3, <1>4, <1>5, <1>6, <1>7 DEF Next

-----------------------------------------------------------------------------
(* Ds18b20: what follows.                                                  *)

\* The inductive invariant holds in every reachable state of the three calls.
THEOREM Invariant == Spec => []IInv
<1>1. IInv /\ [Next]_vars => IInv'
  BY TypeStep, ReadingStep DEF IInv
<1>2. QED
  BY <1>1, InitIInv, PTL DEF Spec

\* The polls never outlast the timeout, and every variable keeps its type.
THEOREM TypeCorrect == Spec => []TypeOK
<1>1. IInv => TypeOK
  BY DEF IInv
<1>2. QED
  BY <1>1, Invariant, PTL

\* A temperature in a message is this boot's, or its cause is one of three faults
\* that the driver cannot see.
THEOREM ReadingCorrect == Spec => []WrongHasCause
<1>1. IInv => WrongHasCause
  BY DEF IInv
<1>2. QED
  BY <1>1, Invariant, PTL

\* A sensor without trouble gives a reading unless its conversion outlasts the
\* timeout.
THEOREM WorkingCorrect == Spec => []WorkingIsRead
<1>1. IInv => WorkingIsRead
  BY DEF IInv
<1>2. QED
  BY <1>1, Invariant, PTL

-----------------------------------------------------------------------------
(* OneWireCrc: the register.  What the driver's CRC holds is what it would *)
(* hold without faults, which the division predicts, plus a trace of the   *)
(* faults, which goes its way through crc8() by itself.                    *)

Registers == [1 .. 8 -> Bit]
Sum(a, b) == [k \in 1 .. 8 |-> Xor(a[k], b[k])]

CrcTypeOK ==
  /\ data \in [1 .. 64 -> Bit] /\ dividend \in [1 .. 72 -> Bit]
  /\ pos \in 0 .. 72
  /\ raw \in Seq(Bit) /\ Len(raw) = IF pos < 16 THEN pos ELSE 16
  /\ crc \in Registers
  /\ flips \in 0 .. 4 /\ since \in 0 .. 9 /\ width \in 0 .. 9

\* The data and eight zeros.
Padded(j) == IF j <= 64 THEN data[j] ELSE 0

\* The division has not come further than eight bits beyond those that have been sent.
DividendInv == pos <= 64 => \A j \in pos + 9 .. 72 : dividend[j] = Padded(j)

\* The register without faults: what the division has changed of the bits to come, and
\* behind the data the remainder that is not sent yet.
Clean ==
  [k \in 1 .. 8 |-> IF pos <= 64 THEN Xor(dividend[pos + k], Padded(pos + k))
                    ELSE IF pos + k <= 72 THEN dividend[pos + k] ELSE 0]
Trace == Sum(crc, Clean)

\* Xor is a sum without carry.
LEMMA XorIs ==
  ASSUME NEW a \in Bit, NEW b \in Bit
  PROVE  Xor(a, b) \in Bit /\ Xor(a, 0) = a /\ Xor(b, a) = Xor(a, b) /\ Xor(Xor(a, b), a) = b
BY DEF Xor, Bit

\* One bit goes through the register of a sum as through each part.
LEMMA Linear ==
  ASSUME NEW a \in Registers, NEW b \in Registers, NEW x \in Bit, NEW y \in Bit
  PROVE  Crc8(Sum(a, b), Xor(x, y)) = Sum(Crc8(a, x), Crc8(b, y))
<1>1. \A k \in 1 .. 8 : a[k] \in Bit /\ b[k] \in Bit
  BY DEF Registers
<1> DEFINE one == Crc8(Sum(a, b), Xor(x, y))
           two == Sum(Crc8(a, x), Crc8(b, y))
<1>2. ASSUME NEW k \in 1 .. 8 PROVE one[k] = two[k]
  <2>1. Sum(a, b)[1] = Xor(a[1], b[1]) /\ a[1] \in Bit /\ b[1] \in Bit
    BY <1>1 DEF Sum
  <2>2. Feedback[k] \in Bit
    BY DEF Feedback, Bit
  <2>3. CASE k < 8
    <3>1. k + 1 \in 1 .. 8
      BY <2>3
    <3>2. Sum(a, b)[k + 1] = Xor(a[k + 1], b[k + 1]) /\ a[k + 1] \in Bit /\ b[k + 1] \in Bit
      BY <1>1, <3>1 DEF Sum
    <3>3. QED
      BY <2>1, <2>2, <2>3, <3>2 DEF Crc8, Sum, Xor, Bit
  <2>4. CASE ~(k < 8)
    BY <2>1, <2>2, <2>4 DEF Crc8, Sum, Xor, Bit
  <2>5. QED
    BY <2>3, <2>4
<1>3. one = [k \in 1 .. 8 |-> one[k]] /\ two = [k \in 1 .. 8 |-> two[k]]
  BY DEF Crc8, Sum
<1>4. QED
  BY <1>2, <1>3

\* Without faults the register follows the division.
LEMMA CleanStep ==
  ASSUME CrcTypeOK, DividendInv, ReadBit
  PROVE  Clean' = Crc8(Clean, OnLine) /\ OnLine \in Bit
<1>1. pos \in 0 .. 71 /\ pos' = pos + 1 /\ data' = data
  BY DEF CrcTypeOK, ReadBit
<1>2. dividend' = IF pos < 64 THEN Divide(dividend, pos + 1) ELSE dividend
  BY DEF ReadBit
<1>3. \A j \in 1 .. 72 : dividend[j] \in Bit /\ Padded(j) \in Bit
  <2>1. SUFFICES ASSUME NEW j \in 1 .. 72 PROVE dividend[j] \in Bit /\ Padded(j) \in Bit
    OBVIOUS
  <2>2. dividend[j] \in Bit
    BY DEF CrcTypeOK
  <2>3. j <= 64 => data[j] \in Bit
    <3>1. data \in [1 .. 64 -> Bit]
      BY DEF CrcTypeOK
    <3>2. j <= 64 => j \in 1 .. 64
      OBVIOUS
    <3>3. QED
      BY <3>1, <3>2
  <2>4. QED
    BY <2>2, <2>3 DEF Padded, Bit
<1>4. CASE pos < 64
  <2>1. pos + 1 \in 1 .. 72 /\ dividend[pos + 1] \in Bit /\ data[pos + 1] = Padded(pos + 1)
    BY <1>1, <1>3, <1>4 DEF Padded
  <2>2. OnLine = data[pos + 1] /\ Clean[1] = Xor(dividend[pos + 1], OnLine)
    BY <1>1, <1>4, <2>1 DEF OnLine, Clean
  <2>3. OnLine \in Bit /\ (Clean[1] = OnLine <=> dividend[pos + 1] = 0)
    BY <1>3, <2>1, <2>2 DEF Xor, Bit
  <2>4. ASSUME NEW k \in 1 .. 8 PROVE Clean'[k] = Crc8(Clean, OnLine)[k]
    <3>1. pos + 1 + k \in 1 .. 72 /\ dividend[pos + 1 + k] \in Bit /\ Padded(pos + 1 + k) \in Bit
      BY <1>1, <1>3, <1>4
    <3>2. Clean'[k] = Xor(dividend'[pos + 1 + k], Padded(pos + 1 + k))
      <4>1. pos' <= 64
        BY <1>1, <1>4
      <4>2. QED
        BY <1>1, <4>1 DEF Clean, Padded
    <3>3. dividend'[pos + 1 + k] = IF dividend[pos + 1] = 0 THEN dividend[pos + 1 + k]
                                   ELSE Xor(dividend[pos + 1 + k], Feedback[k])
      <4>1. pos + 1 + k \in pos + 1 .. pos + 1 + 8 /\ pos + 1 + k - (pos + 1) + 1 = k + 1
        BY <1>1
      <4>2. Generator[k + 1] = Feedback[k]
        BY DEF Generator, Feedback
      <4>3. QED
        BY <1>1, <1>2, <1>4, <3>1, <4>1, <4>2 DEF Divide
    <3>4. (IF k < 8 THEN Clean[k + 1] ELSE 0) = Xor(dividend[pos + 1 + k], Padded(pos + 1 + k))
      <4>1. CASE k < 8
        <5>1. k + 1 \in 1 .. 8 /\ pos + (k + 1) = pos + 1 + k /\ pos <= 64
          BY <1>1, <1>4, <4>1
        <5>2. QED
          BY <5>1, <4>1 DEF Clean
      <4>2. CASE ~(k < 8)
        <5>1. pos + 1 + k \in pos + 9 .. 72
          BY <1>1, <1>4, <4>2
        <5>2. dividend[pos + 1 + k] = Padded(pos + 1 + k)
          BY <1>4, <5>1, <1>1 DEF DividendInv
        <5>3. QED
          BY <4>2, <5>2 DEF Xor
      <4>3. QED
        BY <4>1, <4>2
    <3>5. Crc8(Clean, OnLine)[k] = IF dividend[pos + 1] = 0
                                   THEN Xor(dividend[pos + 1 + k], Padded(pos + 1 + k))
                                   ELSE Xor(Xor(dividend[pos + 1 + k], Padded(pos + 1 + k)), Feedback[k])
      BY <2>3, <3>4 DEF Crc8
    <3>6. Feedback[k] \in Bit
      BY DEF Feedback, Bit
    <3>7. QED
      BY <3>1, <3>2, <3>3, <3>5, <3>6 DEF Xor, Bit
  <2>5. Clean' = [k \in 1 .. 8 |-> Clean'[k]]
    BY DEF Clean
  <2>6. Crc8(Clean, OnLine) = [k \in 1 .. 8 |-> Crc8(Clean, OnLine)[k]]
    BY DEF Crc8
  <2>7. QED
    BY <2>3, <2>4, <2>5, <2>6
<1>5. CASE ~(pos < 64)
  <2>1. /\ OnLine = dividend[pos + 1] /\ OnLine \in Bit
        /\ Clean[1] = OnLine
    <3>1. pos + 1 \in 65 .. 72 /\ dividend[pos + 1] \in Bit
      BY <1>1, <1>3, <1>5
    <3>2. pos <= 64 => Padded(pos + 1) = 0
      BY <3>1 DEF Padded
    <3>3. QED
      BY <1>5, <3>1, <3>2, XorIs DEF OnLine, Clean, Bit
  <2>2. ASSUME NEW k \in 1 .. 8 PROVE Clean'[k] = Crc8(Clean, OnLine)[k]
    <3>1. Clean'[k] = IF pos + 1 + k <= 72 THEN dividend[pos + 1 + k] ELSE 0
      <4>1. ~(pos' <= 64) /\ dividend' = dividend /\ pos' = pos + 1
        BY <1>1, <1>2, <1>5
      <4>2. QED
        BY <4>1 DEF Clean
    <3>2. (IF k < 8 THEN Clean[k + 1] ELSE 0) = IF pos + 1 + k <= 72 THEN dividend[pos + 1 + k] ELSE 0
      <4>1. CASE k < 8
        <5>1. k + 1 \in 1 .. 8 /\ pos + (k + 1) = pos + 1 + k
          BY <1>1, <4>1
        <5>2. ASSUME pos <= 64 PROVE Xor(dividend[pos + 1 + k], Padded(pos + 1 + k)) = dividend[pos + 1 + k]
          <6>1. pos + 1 + k \in 65 .. 72
            BY <5>2, <1>1, <1>5, <4>1
          <6>2. Padded(pos + 1 + k) = 0 /\ dividend[pos + 1 + k] \in Bit
            BY <6>1, <1>3 DEF Padded
          <6>3. QED
            BY <6>2 DEF Xor, Bit
        <5>3. pos <= 64 => pos + 1 + k <= 72
          BY <1>1, <4>1
        <5>4. QED
          BY <4>1, <5>1, <5>2, <5>3 DEF Clean
      <4>2. CASE ~(k < 8)
        BY <1>1, <1>5, <4>2
      <4>3. QED
        BY <4>1, <4>2
    <3>3. QED
      BY <2>1, <3>1, <3>2 DEF Crc8
  <2>3. Clean' = [k \in 1 .. 8 |-> Clean'[k]]
    BY DEF Clean
  <2>4. Crc8(Clean, OnLine) = [k \in 1 .. 8 |-> Crc8(Clean, OnLine)[k]]
    BY DEF Crc8
  <2>5. QED
    BY <2>1, <2>2, <2>3, <2>4
<1>6. QED
  BY <1>4, <1>5

-----------------------------------------------------------------------------
(* OneWireCrc: the trace of the faults.                                    *)

\* A register, bit by bit, after one more.
LEMMA Crc8Is ==
  ASSUME NEW s \in Registers, NEW e \in Bit
  PROVE  LET t == Crc8(s, e) IN
         /\ t \in Registers
         /\ s[1] = e => /\ t[1] = s[2] /\ t[2] = s[3] /\ t[3] = s[4] /\ t[4] = s[5]
                        /\ t[5] = s[6] /\ t[6] = s[7] /\ t[7] = s[8] /\ t[8] = 0
         /\ s[1] # e => /\ t[1] = s[2] /\ t[2] = s[3] /\ t[3] = 1 - s[4] /\ t[4] = 1 - s[5]
                        /\ t[5] = s[6] /\ t[6] = s[7] /\ t[7] = s[8] /\ t[8] = 1
<1> DEFINE t == Crc8(s, e)
<1>1. \A k \in 1 .. 8 : s[k] \in Bit
  BY DEF Registers
<1>2. \A k \in 1 .. 8 : t[k] = LET shifted == IF k < 8 THEN s[k + 1] ELSE 0
                               IN IF s[1] = e THEN shifted ELSE Xor(shifted, Feedback[k])
  BY DEF Crc8
<1>3. /\ Feedback[1] = 0 /\ Feedback[2] = 0 /\ Feedback[3] = 1 /\ Feedback[4] = 1
      /\ Feedback[5] = 0 /\ Feedback[6] = 0 /\ Feedback[7] = 0 /\ Feedback[8] = 1
  BY DEF Feedback
<1>4. /\ t[1] = IF s[1] = e THEN s[2] ELSE Xor(s[2], 0)
      /\ t[2] = IF s[1] = e THEN s[3] ELSE Xor(s[3], 0)
      /\ t[3] = IF s[1] = e THEN s[4] ELSE Xor(s[4], 1)
      /\ t[4] = IF s[1] = e THEN s[5] ELSE Xor(s[5], 1)
      /\ t[5] = IF s[1] = e THEN s[6] ELSE Xor(s[6], 0)
      /\ t[6] = IF s[1] = e THEN s[7] ELSE Xor(s[7], 0)
      /\ t[7] = IF s[1] = e THEN s[8] ELSE Xor(s[8], 0)
      /\ t[8] = IF s[1] = e THEN 0 ELSE Xor(0, 1)
  BY <1>2, <1>3
<1>5. \A k \in 1 .. 8 : Xor(s[k], 0) = s[k] /\ Xor(s[k], 1) = 1 - s[k]
  BY <1>1 DEF Xor, Bit
<1>6. Xor(0, 1) = 1
  BY DEF Xor
<1>7. t \in Registers
  <2>1. \A k \in 1 .. 8 : t[k] \in Bit
    <3> SUFFICES ASSUME NEW k \in 1 .. 8 PROVE t[k] \in Bit
      OBVIOUS
    <3>1. k \in {1, 2, 3, 4, 5, 6, 7, 8}
      OBVIOUS
    <3>2. QED
      BY <1>1, <1>4, <3>1 DEF Xor, Bit
  <2>2. t = [k \in 1 .. 8 |-> t[k]]
    BY DEF Crc8
  <2>3. QED
    BY <2>1, <2>2 DEF Registers
<1>8. QED
  BY <1>4, <1>5, <1>6, <1>7

\* A register by its bits, and the one that is empty.
LEMMA RegisterIs ==
  ASSUME NEW s \in Registers
  PROVE  /\ s[1] \in Bit /\ s[2] \in Bit /\ s[3] \in Bit /\ s[4] \in Bit
         /\ s[5] \in Bit /\ s[6] \in Bit /\ s[7] \in Bit /\ s[8] \in Bit
         /\ s = Zeros <=> /\ s[1] = 0 /\ s[2] = 0 /\ s[3] = 0 /\ s[4] = 0
                          /\ s[5] = 0 /\ s[6] = 0 /\ s[7] = 0 /\ s[8] = 0
<1>1. \A k \in 1 .. 8 : s[k] \in Bit
  BY DEF Registers
<1>2. ASSUME /\ s[1] = 0 /\ s[2] = 0 /\ s[3] = 0 /\ s[4] = 0
             /\ s[5] = 0 /\ s[6] = 0 /\ s[7] = 0 /\ s[8] = 0
      PROVE  s = Zeros
  <2>1. \A k \in 1 .. 8 : s[k] = 0
    <3> SUFFICES ASSUME NEW k \in 1 .. 8 PROVE s[k] = 0
      OBVIOUS
    <3>1. k \in {1, 2, 3, 4, 5, 6, 7, 8}
      OBVIOUS
    <3>2. QED
      BY <1>2, <3>1
  <2>2. s = [k \in 1 .. 8 |-> s[k]]
    BY DEF Registers
  <2>3. QED
    BY <2>1, <2>2 DEF Zeros
<1>3. s = Zeros => \A k \in 1 .. 8 : s[k] = 0
  BY DEF Zeros
<1>4. QED
  BY <1>1, <1>2, <1>3

\* A trace has an odd number of bits if and only if an odd number has been turned over.
Parity(s) == (s[1] + s[2] + s[3] + s[4] + s[5] + s[6] + s[7] + s[8]) % 2

LEMMA ParityStep ==
  ASSUME NEW s \in Registers, NEW e \in Bit
  PROVE  Parity(Crc8(s, e)) = (Parity(s) + e) % 2
<1> DEFINE t == Crc8(s, e)
           n == s[1] + s[2] + s[3] + s[4] + s[5] + s[6] + s[7] + s[8]
           m == t[1] + t[2] + t[3] + t[4] + t[5] + t[6] + t[7] + t[8]
<1>1. CASE s[1] = e
  <2>1. m = n - e /\ n \in Int /\ e \in {0, 1}
    BY <1>1, Crc8Is, RegisterIs DEF Bit
  <2>2. QED
    BY <2>1 DEF Parity
<1>2. CASE s[1] # e
  <2>1. /\ s[1] \in {0, 1} /\ s[2] \in {0, 1} /\ s[3] \in {0, 1} /\ s[4] \in {0, 1}
        /\ s[5] \in {0, 1} /\ s[6] \in {0, 1} /\ s[7] \in {0, 1} /\ s[8] \in {0, 1}
        /\ e \in {0, 1}
    BY RegisterIs DEF Bit
  <2>2. /\ t[1] = s[2] /\ t[2] = s[3] /\ t[3] = 1 - s[4] /\ t[4] = 1 - s[5]
        /\ t[5] = s[6] /\ t[6] = s[7] /\ t[7] = s[8] /\ t[8] = 1
    BY <1>2, Crc8Is
  <2>3. s[1] = 1 - e
    BY <1>2, <2>1
  <2>4. n \in Int /\ 1 - s[4] - s[5] \in Int /\ e \in Int
    BY <2>1
  <2>5. m = s[2] + s[3] + (1 - s[4]) + (1 - s[5]) + s[6] + s[7] + s[8] + 1
    BY <2>2
  <2>6. m = n + e + 2 * (1 - s[4] - s[5])
    BY <2>1, <2>3, <2>5
  <2>7. QED
    BY <2>4, <2>6 DEF Parity
<1>3. QED
  BY <1>1, <1>2

\* A trace does not vanish unless another bit is turned over.
LEMMA TraceStays ==
  ASSUME NEW s \in Registers, s # Zeros
  PROVE  Crc8(s, 0) # Zeros
<1>1. 0 \in Bit
  BY DEF Bit
<1>2. Crc8(s, 0) \in Registers
  BY <1>1, Crc8Is
<1>3. QED
  BY <1>1, <1>2, Crc8Is, RegisterIs DEF Bit

\* The bits from which it can be told, up to eight bits later, that the first of them was
\* turned over, whatever became of the others.
Tell(j, s) ==
  CASE j = 1 -> s[8]
    [] j = 2 -> s[7]
    [] j = 3 -> s[6]
    [] j = 4 -> s[5]
    [] j = 5 -> (s[4] + s[8]) % 2
    [] j = 6 -> (s[3] + s[7] + s[8]) % 2
    [] j = 7 -> (s[2] + s[6] + s[7]) % 2
    [] j = 8 -> (s[1] + s[5] + s[6]) % 2

\* What follows the first bit of a burst does not change whether it can be told.
LEMMA TellStep ==
  ASSUME NEW s \in Registers, NEW e \in Bit
  PROVE  /\ \A j \in 1 .. 7 : Tell(j + 1, Crc8(s, e)) = Tell(j, s)
         /\ Tell(1, Crc8(Zeros, 1)) = 1
         /\ \A j \in 1 .. 8 : Tell(j, s) = 1 => s # Zeros
<1> DEFINE t == Crc8(s, e)
<1>1. /\ s[1] \in {0, 1} /\ s[2] \in {0, 1} /\ s[3] \in {0, 1} /\ s[4] \in {0, 1}
      /\ s[5] \in {0, 1} /\ s[6] \in {0, 1} /\ s[7] \in {0, 1} /\ s[8] \in {0, 1}
  BY RegisterIs DEF Bit
<1>2. /\ t[1] = s[2] /\ t[2] = s[3] /\ t[5] = s[6] /\ t[6] = s[7] /\ t[7] = s[8]
      /\ t[3] = IF t[8] = 0 THEN s[4] ELSE 1 - s[4]
      /\ t[4] = IF t[8] = 0 THEN s[5] ELSE 1 - s[5]
      /\ t[8] \in {0, 1}
  BY Crc8Is DEF Bit
<1>3. ASSUME NEW j \in 1 .. 7 PROVE Tell(j + 1, t) = Tell(j, s)
  <2>1. Tell(2, t) = Tell(1, s) /\ Tell(3, t) = Tell(2, s) /\ Tell(4, t) = Tell(3, s)
    BY <1>1, <1>2 DEF Tell
  <2>2. Tell(5, t) = Tell(4, s)
    BY <1>1, <1>2 DEF Tell
  <2>3. Tell(6, t) = Tell(5, s)
    BY <1>1, <1>2 DEF Tell
  <2>4. Tell(7, t) = Tell(6, s)
    BY <1>1, <1>2 DEF Tell
  <2>5. Tell(8, t) = Tell(7, s)
    BY <1>1, <1>2 DEF Tell
  <2>6. j \in {1, 2, 3, 4, 5, 6, 7}
    OBVIOUS
  <2>7. QED
    BY <2>1, <2>2, <2>3, <2>4, <2>5, <2>6
<1>4. Tell(1, Crc8(Zeros, 1)) = 1
  <2>1. Zeros \in Registers /\ Zeros[1] = 0 /\ 1 \in Bit
    BY DEF Zeros, Registers, Bit
  <2>2. Crc8(Zeros, 1)[8] = 1
    BY <2>1, Crc8Is
  <2>3. QED
    BY <2>2 DEF Tell
<1>5. ASSUME NEW j \in 1 .. 8, s = Zeros PROVE Tell(j, s) = 0
  <2>1. /\ s[1] = 0 /\ s[2] = 0 /\ s[3] = 0 /\ s[4] = 0
        /\ s[5] = 0 /\ s[6] = 0 /\ s[7] = 0 /\ s[8] = 0
    BY <1>5 DEF Zeros
  <2>2. j \in {1, 2, 3, 4, 5, 6, 7, 8}
    OBVIOUS
  <2>3. QED
    BY <2>1, <2>2 DEF Tell
<1>6. QED
  BY <1>3, <1>4, <1>5

\* The registers that one bit turned over goes through, as numbers: in 72 bits it does not
\* come back to the one that a second bit would wipe out.
Value(s) == s[1] + 2 * s[2] + 4 * s[3] + 8 * s[4] + 16 * s[5] + 32 * s[6] + 64 * s[7] + 128 * s[8]
Orbit == <<140, 70, 35, 157, 194, 97, 188, 94, 47, 155, 193, 236, 118, 59, 145, 196, 98, 49,
           148, 74, 37, 158, 79, 171, 217, 224, 112, 56, 28, 14, 7, 143, 203, 233, 248, 124,
           62, 31, 131, 205, 234, 117, 182, 91, 161, 220, 110, 55, 151, 199, 239, 251, 241, 244,
           122, 61, 146, 73, 168, 84, 42, 21, 134, 67, 173, 218, 109, 186, 93, 162, 81, 164>>

\* Half the number, or half of it with the feedback taken up.
LEMMA ValueStep ==
  ASSUME NEW s \in Registers
  PROVE  LET n == Value(s)  m == Value(Crc8(s, 0)) IN
         /\ n \in 0 .. 255 /\ m \in 0 .. 255
         /\ s[1] = 0 => n = 2 * m
         /\ s[1] = 1 => n = 2 * (m - 140) + 1 + 16 * s[4] + 32 * s[5]
         /\ s[1] = n % 2 /\ s[4] = (n \div 8) % 2 /\ s[5] = (n \div 16) % 2
<1>1. 0 \in Bit /\ \A k \in {0, 1} : k \in Bit
  BY DEF Bit
<1>2. /\ s[1] \in {0, 1} /\ s[2] \in {0, 1} /\ s[3] \in {0, 1} /\ s[4] \in {0, 1}
      /\ s[5] \in {0, 1} /\ s[6] \in {0, 1} /\ s[7] \in {0, 1} /\ s[8] \in {0, 1}
  BY RegisterIs DEF Bit
<1>3. QED
  BY <1>1, <1>2, Crc8Is DEF Value

\* The table is closed under a step of the register, and does not come to 1.
LEMMA OrbitIs ==
  ASSUME NEW k \in 1 .. 71
  PROVE  LET n == Orbit[k] IN
         /\ n \in 0 .. 255 /\ n # 1
         /\ Orbit[k + 1] = IF n % 2 = 0 THEN n \div 2
                          ELSE (n \div 2) + 140 - 8 * ((n \div 8) % 2) - 16 * ((n \div 16) % 2)
BY DEF Orbit

\* One bit turned over goes along the orbit; a second one never wipes out its trace.
LEMMA OrbitStep ==
  ASSUME NEW s \in Registers, NEW k \in 1 .. 71, Value(s) = Orbit[k]
  PROVE  Value(Crc8(s, 0)) = Orbit[k + 1] /\ Crc8(s, 1) # Zeros
<1> DEFINE n == Orbit[k]  m == Value(Crc8(s, 0))
<1>1. /\ s[1] \in {0, 1} /\ s[2] \in {0, 1} /\ s[3] \in {0, 1} /\ s[4] \in {0, 1}
      /\ s[5] \in {0, 1} /\ s[6] \in {0, 1} /\ s[7] \in {0, 1} /\ s[8] \in {0, 1}
      /\ 0 \in Bit /\ 1 \in Bit
  BY RegisterIs DEF Bit
<1>2. Value(Crc8(s, 0)) = Orbit[k + 1]
  <2>1. /\ n \in 0 .. 255 /\ m \in 0 .. 255
        /\ s[1] = 0 => n = 2 * m
        /\ s[1] = 1 => n = 2 * (m - 140) + 1 + 16 * s[4] + 32 * s[5]
        /\ s[1] = n % 2 /\ s[4] = (n \div 8) % 2 /\ s[5] = (n \div 16) % 2
    BY ValueStep
  <2>2. Orbit[k + 1] = IF s[1] = 0 THEN n \div 2 ELSE (n \div 2) + 140 - 8 * s[4] - 16 * s[5]
    BY <2>1, OrbitIs
  <2>3. CASE s[1] = 0
    BY <2>1, <2>2, <2>3
  <2>4. CASE s[1] = 1
    <3> HIDE DEF n, m
    <3>1. n = 2 * (m - 140 + 8 * s[4] + 16 * s[5]) + 1
      BY <1>1, <2>1, <2>4
    <3>2. m - 140 + 8 * s[4] + 16 * s[5] \in Int
      BY <1>1, <2>1
    <3>3. n \div 2 = m - 140 + 8 * s[4] + 16 * s[5]
      BY <3>1, <3>2
    <3>4. m = (n \div 2) + 140 - 8 * s[4] - 16 * s[5]
      BY <1>1, <2>1, <3>3
    <3>5. QED
      BY <2>2, <2>4, <3>4 DEF m
  <2>5. QED
    BY <1>1, <2>3, <2>4
<1>3. Crc8(s, 1) # Zeros
  <2>1. SUFFICES ASSUME Crc8(s, 1) = Zeros PROVE FALSE
    OBVIOUS
  <2>2. Value(s) # 1
    BY OrbitIs
  <2>3. /\ s[1] = 1 /\ s[2] = 0 /\ s[3] = 0 /\ s[4] = 0
        /\ s[5] = 0 /\ s[6] = 0 /\ s[7] = 0 /\ s[8] = 0
    <3> DEFINE t == Crc8(s, 1)
    <3>1. /\ t[1] = 0 /\ t[2] = 0 /\ t[3] = 0 /\ t[4] = 0
          /\ t[5] = 0 /\ t[6] = 0 /\ t[7] = 0 /\ t[8] = 0
      BY <2>1 DEF Zeros
    <3>2. s[1] = 1
      BY <1>1, <3>1, Crc8Is
    <3>3. /\ t[1] = s[2] /\ t[2] = s[3] /\ t[3] = s[4] /\ t[4] = s[5]
          /\ t[5] = s[6] /\ t[6] = s[7] /\ t[7] = s[8]
      BY <1>1, <3>2, Crc8Is
    <3>4. QED
      BY <3>1, <3>2, <3>3
  <2>4. Value(s) = 1
    BY <2>3 DEF Value
  <2>5. QED
    BY <2>2, <2>4
<1>4. QED
  BY <1>2, <1>3

-----------------------------------------------------------------------------
(* OneWireCrc: the inductive invariant.                                    *)

\* What the trace says of the faults: nothing if there were none, odd or even, one bit on
\* its orbit, two never wiped out, and the first of a burst told from where it must be.
TraceInv ==
  /\ flips = 0 <=> since = 0
  /\ flips = 0 => Trace = Zeros
  /\ flips <= 3 => Parity(Trace) = flips % 2
  /\ flips = 1 => \E k \in 1 .. pos : Value(Trace) = Orbit[k]
  /\ flips = 2 => Trace # Zeros
  /\ since \in 1 .. 8 => Tell(since, Trace) = 1
  /\ flips > 0 /\ width <= 8 => Trace # Zeros

\* Without faults the first bits are the temperature's.
RawInv == flips = 0 => \A i \in 1 .. Len(raw) : raw[i] = data[i]
DataInv == \E t \in Words : data = Data(t)

CrcInv == CrcTypeOK /\ DividendInv /\ TraceInv /\ RawInv /\ DataInv

\* A bit of a number, and the bits that the sensor sends.
LEMMA BitIs ==
  ASSUME NEW n \in Nat, NEW i \in 1 .. 16
  PROVE  BitOf(n, i) \in Bit
<1>1. Weight[i] \in Nat \ {0}
  BY DEF Weight
<1>2. ASSUME NEW w \in Nat \ {0} PROVE (n \div w) \in Nat
  OBVIOUS
<1>3. QED
  BY <1>1, <1>2 DEF BitOf, Bit

LEMMA DataIs ==
  ASSUME NEW t \in Int
  PROVE  Data(t) \in [1 .. 64 -> Bit]
<1> SUFFICES ASSUME NEW i \in 1 .. 64 PROVE Data(t)[i] \in Bit
  BY DEF Data
<1>1. CASE i <= 16
  <2>1. t % 65536 \in Nat
    OBVIOUS
  <2>2. QED
    BY <1>1, <2>1, BitIs DEF Data
<1>2. CASE ~(i <= 16)
  <2>1. (i - 17) \div 8 + 1 \in 1 .. 6 /\ ((i - 17) % 8) + 1 \in 1 .. 16
    BY <1>2
  <2>2. \A b \in 1 .. 6 : Settings[b] \in Nat
    BY DEF Settings
  <2>3. QED
    BY <1>2, <2>1, <2>2, BitIs DEF Data
<1>3. QED
  BY <1>1, <1>2

\* No bit has been read.
LEMMA InitCrcInv ==
  ASSUME WordsAssumption, CrcInit
  PROVE  CrcInv
<1>1. PICK t \in Words : data = Data(t)
  BY DEF CrcInit
<1>2. t \in Int /\ data \in [1 .. 64 -> Bit]
  <2>1. t \in Int
    BY DEF WordsAssumption
  <2>2. Data(t) \in [1 .. 64 -> Bit]
    BY <2>1, DataIs
  <2>3. QED
    BY <1>1, <2>1, <2>2
<1>3. /\ pos = 0 /\ raw = <<>> /\ crc = Zeros /\ flips = 0 /\ since = 0 /\ width = 0
      /\ dividend = [i \in 1 .. 72 |-> IF i <= 64 THEN data[i] ELSE 0]
  BY DEF CrcInit
<1>4. Zeros \in Registers
  BY DEF Zeros, Registers, Bit
<1>5. CrcTypeOK
  <2>1. dividend \in [1 .. 72 -> Bit]
    BY <1>2, <1>3 DEF Bit
  <2>2. raw \in Seq(Bit) /\ Len(raw) = 0
    BY <1>3
  <2>3. QED
    BY <1>2, <1>3, <1>4, <2>1, <2>2 DEF CrcTypeOK
<1>6. DividendInv
  BY <1>3 DEF DividendInv, Padded
<1>7. Trace = Zeros
  <2>1. \A k \in 1 .. 8 : Clean[k] = 0
    BY <1>3 DEF Clean, Padded, Xor
  <2>2. QED
    BY <1>3, <2>1 DEF Trace, Sum, Zeros, Xor
<1>8. Parity(Trace) = 0
  BY <1>7 DEF Zeros, Parity
<1>9. TraceInv
  BY <1>3, <1>7, <1>8 DEF TraceInv
<1>10. RawInv /\ DataInv
  BY <1>1, <1>3 DEF RawInv, DataInv
<1>11. QED
  BY <1>5, <1>6, <1>9, <1>10 DEF CrcInv

\* One more bit has been read.
LEMMA CrcTypeStep ==
  ASSUME CrcTypeOK, DividendInv, ReadBit
  PROVE  CrcTypeOK'
<1>1. pos \in 0 .. 71 /\ pos' = pos + 1 /\ data' = data /\ data' \in [1 .. 64 -> Bit]
  BY DEF CrcTypeOK, ReadBit
<1>2. PICK flip \in Bit :
        LET bit == Xor(OnLine, flip)
            begun == flips + flip > 0
        IN /\ crc' = Crc8(crc, bit)
           /\ raw' = IF pos < 16 THEN Append(raw, bit) ELSE raw
           /\ flips' = IF flips + flip > 4 THEN 4 ELSE flips + flip
           /\ since' = IF begun /\ since < 9 THEN since + 1 ELSE since
           /\ width' = IF flip = 1 THEN since' ELSE width
  BY DEF ReadBit
<1>3. Xor(OnLine, flip) \in Bit
  BY CleanStep, XorIs
<1>4. crc' \in Registers
  BY <1>2, <1>3, Crc8Is DEF CrcTypeOK
<1>5. dividend' \in [1 .. 72 -> Bit]
  <2>1. dividend \in [1 .. 72 -> Bit]
    BY DEF CrcTypeOK
  <2>2. Divide(dividend, pos + 1) \in [1 .. 72 -> Bit]
    BY <2>1 DEF Divide, Xor, Bit
  <2>3. QED
    BY <2>1, <2>2 DEF ReadBit
<1>6. raw' \in Seq(Bit) /\ Len(raw') = IF pos' < 16 THEN pos' ELSE 16
  <2>1. raw \in Seq(Bit) /\ Len(raw) = IF pos < 16 THEN pos ELSE 16
    BY DEF CrcTypeOK
  <2>2. CASE pos < 16
    <3>1. raw' = Append(raw, Xor(OnLine, flip))
      BY <1>2, <2>2
    <3>2. raw' \in Seq(Bit) /\ Len(raw') = pos + 1
      BY <1>3, <2>1, <2>2, <3>1
    <3>3. pos + 1 = IF pos' < 16 THEN pos' ELSE 16
      BY <1>1, <2>2
    <3>4. QED
      BY <3>2, <3>3
  <2>3. CASE ~(pos < 16)
    BY <1>1, <1>2, <2>1, <2>3
  <2>4. QED
    BY <2>2, <2>3
<1>7. flips' \in 0 .. 4 /\ since' \in 0 .. 9 /\ width' \in 0 .. 9
  <2>1. flips \in 0 .. 4 /\ since \in 0 .. 9 /\ width \in 0 .. 9
    BY DEF CrcTypeOK
  <2>2. flip \in {0, 1}
    BY DEF Bit
  <2>3. flips' \in 0 .. 4 /\ since' \in 0 .. 9
    BY <1>2, <2>1, <2>2
  <2>4. width' \in 0 .. 9
    BY <1>2, <2>1, <2>3
  <2>5. QED
    BY <2>3, <2>4
<1>8. QED
  BY <1>1, <1>4, <1>5, <1>6, <1>7 DEF CrcTypeOK

\* The division goes on by a bit.
LEMMA DividendStep ==
  ASSUME CrcTypeOK, DividendInv, ReadBit
  PROVE  DividendInv'
<1>1. pos \in 0 .. 71 /\ pos' = pos + 1 /\ data' = data
  BY DEF CrcTypeOK, ReadBit
<1>2. SUFFICES ASSUME pos' <= 64, NEW j \in pos' + 9 .. 72
               PROVE  dividend'[j] = Padded(j)'
  BY DEF DividendInv
<1>3. pos < 64 /\ j \in pos + 9 .. 72 /\ j \in 1 .. 72 /\ j \notin pos + 1 .. pos + 1 + 8
  BY <1>1, <1>2
<1>4. dividend'[j] = dividend[j]
  BY <1>1, <1>3 DEF ReadBit, Divide
<1>5. dividend[j] = Padded(j)
  BY <1>1, <1>3 DEF DividendInv
<1>6. QED
  BY <1>1, <1>4, <1>5 DEF Padded

\* A bit turned over joins the trace, whatever is sent.
LEMMA TraceStep ==
  ASSUME CrcTypeOK, DividendInv, ReadBit,
         NEW flip \in Bit, crc' = Crc8(crc, Xor(OnLine, flip))
  PROVE  Trace \in Registers /\ Trace' = Crc8(Trace, flip)
<1>1. Clean \in Registers
  <2>1. \A k \in 1 .. 8 : Clean[k] \in Bit
    <3> SUFFICES ASSUME NEW k \in 1 .. 8 PROVE Clean[k] \in Bit
      OBVIOUS
    <3>1. pos + k \in 1 .. 80 /\ 0 \in Bit
      BY DEF CrcTypeOK, Bit
    <3>2. pos + k <= 72 => dividend[pos + k] \in Bit
      <4>1. dividend \in [1 .. 72 -> Bit]
        BY DEF CrcTypeOK
      <4>2. pos + k <= 72 => pos + k \in 1 .. 72
        BY <3>1
      <4>3. QED
        BY <4>1, <4>2
    <3>3. pos <= 64 => pos + k <= 72
      BY DEF CrcTypeOK
    <3>4. pos <= 64 => Xor(dividend[pos + k], Padded(pos + k)) \in Bit
      BY DEF Xor, Bit
    <3>5. QED
      BY <3>1, <3>2, <3>4 DEF Clean
  <2>2. Clean = [k \in 1 .. 8 |-> Clean[k]]
    BY DEF Clean
  <2>3. QED
    BY <2>1, <2>2 DEF Registers
<1>2. crc \in Registers /\ OnLine \in Bit /\ Clean' = Crc8(Clean, OnLine)
  BY CleanStep DEF CrcTypeOK
<1>3. Trace \in Registers
  BY DEF Trace, Sum, Registers, Xor, Bit
<1>4. Xor(Xor(OnLine, flip), OnLine) = flip /\ Xor(OnLine, flip) \in Bit
  BY <1>2, XorIs
<1>5. Trace' = Sum(Crc8(crc, Xor(OnLine, flip)), Crc8(Clean, OnLine))
  BY <1>2 DEF Trace, Sum
<1>6. QED
  BY <1>1, <1>2, <1>3, <1>4, <1>5, Linear DEF Trace

\* So it goes on telling of them what it tells.
LEMMA TraceInvStep ==
  ASSUME CrcTypeOK, DividendInv, TraceInv, ReadBit
  PROVE  TraceInv'
<1>1. PICK flip \in Bit :
        /\ crc' = Crc8(crc, Xor(OnLine, flip))
        /\ flips' = IF flips + flip > 4 THEN 4 ELSE flips + flip
        /\ since' = IF flips + flip > 0 /\ since < 9 THEN since + 1 ELSE since
        /\ width' = IF flip = 1 THEN since' ELSE width
  BY DEF ReadBit
<1>2. /\ pos \in 0 .. 71 /\ pos' = pos + 1 /\ flip \in {0, 1}
      /\ flips \in 0 .. 4 /\ since \in 0 .. 9 /\ width \in 0 .. 9
  BY DEF CrcTypeOK, ReadBit, Bit
<1>3. Trace \in Registers /\ Trace' = Crc8(Trace, flip)
  BY <1>1, TraceStep
<1>4. flips' = 0 <=> since' = 0
  BY <1>1, <1>2 DEF TraceInv
<1>5. flips' = 0 => Trace' = Zeros
  <2>1. Crc8(Zeros, 0) = Zeros
    BY DEF Crc8, Zeros
  <2>2. QED
    BY <1>1, <1>2, <1>3, <2>1 DEF TraceInv
<1>6. flips' <= 3 => Parity(Trace') = flips' % 2
  <2>1. Parity(Trace') = (Parity(Trace) + flip) % 2
    BY <1>3, ParityStep
  <2>2. flips' <= 3 => flips' = flips + flip /\ flips <= 3
    BY <1>1, <1>2
  <2>3. flips <= 3 => ((flips % 2) + flip) % 2 = (flips + flip) % 2
    BY <1>2
  <2>4. QED
    BY <2>1, <2>2, <2>3 DEF TraceInv
<1>7. flips' = 1 => \E k \in 1 .. pos' : Value(Trace') = Orbit[k]
  <2>1. SUFFICES ASSUME flips' = 1 PROVE \E k \in 1 .. pos' : Value(Trace') = Orbit[k]
    OBVIOUS
  <2>2. CASE flip = 1
    <3>1. Trace' = Crc8(Zeros, 1)
      BY <1>1, <1>2, <1>3, <2>1, <2>2 DEF TraceInv
    <3>2. Zeros \in Registers /\ 1 \in Bit /\ Zeros[1] = 0 /\ \A i \in 1 .. 8 : Zeros[i] = 0
      BY DEF Zeros, Registers, Bit
    <3>3. Value(Crc8(Zeros, 1)) = 140
      BY <3>2, Crc8Is DEF Value
    <3>4. Orbit[1] = 140 /\ 1 \in 1 .. pos'
      BY <1>2 DEF Orbit
    <3>5. QED
      BY <3>1, <3>3, <3>4
  <2>3. CASE flip = 0
    <3>1. PICK k \in 1 .. pos : Value(Trace) = Orbit[k]
      BY <1>1, <1>2, <2>1, <2>3 DEF TraceInv
    <3>2. k \in 1 .. 71 /\ k + 1 \in 1 .. pos'
      BY <1>2
    <3>3. QED
      BY <1>3, <2>3, <3>1, <3>2, OrbitStep
  <2>4. QED
    BY <1>2, <2>2, <2>3
<1>8. flips' = 2 => Trace' # Zeros
  <2>1. SUFFICES ASSUME flips' = 2 PROVE Trace' # Zeros
    OBVIOUS
  <2>2. CASE flip = 1
    <3>1. PICK k \in 1 .. pos : Value(Trace) = Orbit[k]
      BY <1>1, <1>2, <2>1, <2>2 DEF TraceInv
    <3>2. k \in 1 .. 71
      BY <1>2
    <3>3. QED
      BY <1>3, <2>2, <3>1, <3>2, OrbitStep
  <2>3. CASE flip = 0
    <3>1. Trace # Zeros
      BY <1>1, <1>2, <2>1, <2>3 DEF TraceInv
    <3>2. QED
      BY <1>3, <2>3, <3>1, TraceStays
  <2>4. QED
    BY <1>2, <2>2, <2>3
<1>9. since' \in 1 .. 8 => Tell(since', Trace') = 1
  <2>1. SUFFICES ASSUME since' \in 1 .. 8 PROVE Tell(since', Trace') = 1
    OBVIOUS
  <2>2. CASE since = 0
    <3>1. flips = 0 /\ flip = 1 /\ since' = 1 /\ Trace = Zeros
      BY <1>1, <1>2, <2>1, <2>2 DEF TraceInv
    <3>2. QED
      BY <1>3, <3>1, TellStep
  <2>3. CASE since # 0
    <3>1. since \in 1 .. 7 /\ since' = since + 1
      BY <1>1, <1>2, <2>1, <2>3 DEF TraceInv
    <3>2. Tell(since, Trace) = 1
      BY <3>1 DEF TraceInv
    <3>3. QED
      BY <1>3, <3>1, <3>2, TellStep
  <2>4. QED
    BY <2>2, <2>3
<1>10. flips' > 0 /\ width' <= 8 => Trace' # Zeros
  <2>1. SUFFICES ASSUME flips' > 0, width' <= 8 PROVE Trace' # Zeros
    OBVIOUS
  <2>2. CASE flip = 1
    <3>1. since' \in 1 .. 8
      BY <1>1, <1>2, <1>4, <2>1, <2>2
    <3>2. Trace' \in Registers
      BY <1>3, Crc8Is
    <3>3. QED
      BY <1>9, <3>1, <3>2, TellStep
  <2>3. CASE flip = 0
    <3>1. Trace # Zeros
      BY <1>1, <1>2, <2>1, <2>3 DEF TraceInv
    <3>2. QED
      BY <1>3, <2>3, <3>1, TraceStays
  <2>4. QED
    BY <1>2, <2>2, <2>3
<1>11. QED
  BY <1>4, <1>5, <1>6, <1>7, <1>8, <1>9, <1>10 DEF TraceInv

\* The first sixteen bits are kept as they come.
LEMMA RawStep ==
  ASSUME CrcTypeOK, RawInv, ReadBit
  PROVE  RawInv'
<1>1. PICK flip \in Bit :
        /\ raw' = IF pos < 16 THEN Append(raw, Xor(OnLine, flip)) ELSE raw
        /\ flips' = IF flips + flip > 4 THEN 4 ELSE flips + flip
  BY DEF ReadBit
<1>2. SUFFICES ASSUME flips' = 0, NEW i \in 1 .. Len(raw')
               PROVE  raw'[i] = data'[i]
  BY DEF RawInv
<1>3. flips = 0 /\ flip = 0 /\ data' = data /\ raw \in Seq(Bit) /\ pos \in 0 .. 72
  <2>1. data' = data /\ raw \in Seq(Bit) /\ pos \in 0 .. 72 /\ flips \in 0 .. 4
    BY DEF CrcTypeOK, ReadBit
  <2>2. flip \in {0, 1}
    BY DEF Bit
  <2>3. QED
    BY <1>1, <1>2, <2>1, <2>2
<1>4. CASE pos < 16
  <2>1. Xor(OnLine, flip) = data[pos + 1]
    <3>1. pos + 1 \in 1 .. 64 /\ OnLine = data[pos + 1]
      <4>1. pos \in 0 .. 72 /\ pos < 64
        BY <1>3, <1>4
      <4>2. OnLine = data[pos + 1]
        BY <4>1 DEF OnLine
      <4>3. QED
        BY <4>1, <4>2, <1>4
    <3>2. data[pos + 1] \in Bit
      BY <3>1 DEF CrcTypeOK
    <3>3. QED
      BY <1>3, <3>1, <3>2, XorIs
  <2>2. Len(raw) = pos
    BY <1>4 DEF CrcTypeOK
  <2>3. CASE i = Len(raw) + 1
    BY <1>1, <1>3, <1>4, <2>1, <2>2, <2>3
  <2>4. CASE i \in 1 .. Len(raw)
    BY <1>1, <1>3, <1>4, <2>4 DEF RawInv
  <2>5. QED
    BY <1>1, <1>2, <1>3, <1>4, <2>3, <2>4
<1>5. CASE ~(pos < 16)
  BY <1>1, <1>2, <1>3, <1>5 DEF RawInv
<1>6. QED
  BY <1>4, <1>5

\* Sixteen bits are the number they are taken from.
LEMMA BitsAreNumber ==
  ASSUME NEW w \in Nat, w < 65536, NEW bits, \A i \in 1 .. 16 : bits[i] = BitOf(w, i)
  PROVE  Unsigned(bits) = w /\ (bits[16] = 1 <=> w >= 32768)
<1>1. \A i \in 1 .. 16 : Weight[i] \in Nat
  BY DEF Weight
<1> DEFINE n1 == w \div 2        n2 == w \div 4        n3 == w \div 8
           n4 == w \div 16       n5 == w \div 32       n6 == w \div 64
           n7 == w \div 128      n8 == w \div 256      n9 == w \div 512
           n10 == w \div 1024    n11 == w \div 2048    n12 == w \div 4096
           n13 == w \div 8192    n14 == w \div 16384   n15 == w \div 32768
<1>2. /\ bits[1] = w % 2 /\ bits[2] = n1 % 2 /\ bits[3] = n2 % 2 /\ bits[4] = n3 % 2
      /\ bits[5] = n4 % 2 /\ bits[6] = n5 % 2 /\ bits[7] = n6 % 2 /\ bits[8] = n7 % 2
      /\ bits[9] = n8 % 2 /\ bits[10] = n9 % 2 /\ bits[11] = n10 % 2 /\ bits[12] = n11 % 2
      /\ bits[13] = n12 % 2 /\ bits[14] = n13 % 2 /\ bits[15] = n14 % 2 /\ bits[16] = n15 % 2
  <2>1. w \div 1 = w
    OBVIOUS
  <2>2. QED
    BY <2>1 DEF BitOf, Weight
<1>3. /\ w = 2 * n1 + (w % 2) /\ n1 = 2 * n2 + (n1 % 2) /\ n2 = 2 * n3 + (n2 % 2)
      /\ n3 = 2 * n4 + (n3 % 2) /\ n4 = 2 * n5 + (n4 % 2) /\ n5 = 2 * n6 + (n5 % 2)
      /\ n6 = 2 * n7 + (n6 % 2) /\ n7 = 2 * n8 + (n7 % 2)
  OBVIOUS
<1>4. /\ n8 = 2 * n9 + (n8 % 2) /\ n9 = 2 * n10 + (n9 % 2) /\ n10 = 2 * n11 + (n10 % 2)
      /\ n11 = 2 * n12 + (n11 % 2) /\ n12 = 2 * n13 + (n12 % 2) /\ n13 = 2 * n14 + (n13 % 2)
      /\ n14 = 2 * n15 + (n14 % 2)
  OBVIOUS
<1>5. n15 \in {0, 1} /\ (n15 = 1 <=> w >= 32768)
  OBVIOUS
<1>6. /\ n1 \in Nat /\ n2 \in Nat /\ n3 \in Nat /\ n4 \in Nat /\ n5 \in Nat /\ n6 \in Nat
      /\ n7 \in Nat /\ n8 \in Nat /\ n9 \in Nat /\ n10 \in Nat /\ n11 \in Nat /\ n12 \in Nat
      /\ n13 \in Nat /\ n14 \in Nat /\ n15 \in Nat
  <2>1. ASSUME NEW d \in Nat \ {0} PROVE (w \div d) \in Nat
    OBVIOUS
  <2>2. QED
    BY <2>1
<1> HIDE DEF n1, n2, n3, n4, n5, n6, n7, n8, n9, n10, n11, n12, n13, n14, n15
<1>7. n15 % 2 = n15
  BY <1>5
<1>8. QED
  BY <1>2, <1>3, <1>4, <1>5, <1>6, <1>7 DEF Unsigned

-----------------------------------------------------------------------------
(* OneWireCrc: what follows.                                               *)

\* The inductive invariant holds throughout every transfer, for any set of temperatures.
THEOREM CrcInvariant ==
  ASSUME WordsAssumption
  PROVE  CrcSpec => []CrcInv
<1>1. CrcInit => CrcInv
  BY InitCrcInv
<1>2. CrcInv /\ [CrcNext]_crc_vars => CrcInv'
  <2>1. SUFFICES ASSUME CrcInv, [CrcNext]_crc_vars PROVE CrcInv'
    OBVIOUS
  <2>2. CASE ReadBit
    <3>1. CrcTypeOK' /\ DividendInv' /\ TraceInv' /\ RawInv'
      BY <2>1, <2>2, CrcTypeStep, DividendStep, TraceInvStep, RawStep DEF CrcInv
    <3>2. DataInv'
      BY <2>1, <2>2 DEF CrcInv, DataInv, ReadBit
    <3>3. QED
      BY <3>1, <3>2 DEF CrcInv
  <2>3. CASE UNCHANGED crc_vars
    <3>1. Trace' = Trace
      BY <2>3 DEF crc_vars, Trace, Clean, Padded, Sum
    <3>2. QED
      BY <2>1, <2>3, <3>1
         DEF crc_vars, CrcInv, CrcTypeOK, DividendInv, Padded, TraceInv, RawInv, DataInv
  <2>4. QED
    BY <2>1, <2>2, <2>3 DEF CrcNext
<1>3. QED
  BY <1>1, <1>2, PTL DEF CrcSpec

\* The register at the end is the trace: there is nothing left of the division.
LEMMA EndIsTrace ==
  ASSUME CrcTypeOK, pos = 72
  PROVE  crc = Trace
<1>1. \A k \in 1 .. 8 : Clean[k] = 0
  BY DEF Clean
<1>2. \A k \in 1 .. 8 : crc[k] \in Bit
  BY DEF CrcTypeOK, Registers
<1>3. \A k \in 1 .. 8 : Trace[k] = crc[k]
  BY <1>1, <1>2 DEF Trace, Sum, Xor, Bit
<1>4. Trace = [k \in 1 .. 8 |-> Trace[k]] /\ crc = [k \in 1 .. 8 |-> crc[k]]
  BY DEF Trace, Sum, CrcTypeOK, Registers
<1>5. QED
  BY <1>3, <1>4

\* A transfer without a fault is taken for the temperature it carries, below zero too; up
\* to three bits turned over anywhere in the nine bytes, or any number of them within
\* eight in a row, are refused (ds18b20.cpp:144).
THEOREM CrcCorrect ==
  ASSUME WordsAssumption
  PROVE  CrcSpec => []CrcDecides
<1>1. CrcInv => FaultIsSeen
  <2>1. SUFFICES ASSUME CrcInv, flips > 0, flips <= 3 \/ width <= 8, pos = 72
                 PROVE  Trace # Zeros
    BY EndIsTrace DEF CrcInv, FaultIsSeen, Valid
  <2>2. Parity(Zeros) = 0
    BY DEF Parity, Zeros
  <2>3. flips \in 1 .. 4
    BY <2>1 DEF CrcInv, CrcTypeOK
  <2>4. CASE flips \in {1, 3}
    <3>1. Parity(Trace) = 1
      BY <2>1, <2>4 DEF CrcInv, TraceInv
    <3>2. QED
      BY <2>2, <3>1
  <2>5. CASE flips = 2
    BY <2>1, <2>5 DEF CrcInv, TraceInv
  <2>6. CASE width <= 8
    BY <2>1, <2>6 DEF CrcInv, TraceInv
  <2>7. QED
    BY <2>1, <2>3, <2>4, <2>5, <2>6
<1>2. ASSUME WordsAssumption, CrcInv PROVE FaultlessIsRead
  <2>1. SUFFICES ASSUME pos = 72, flips = 0
                 PROVE  Valid /\ Celsius >= -32768 /\ Celsius < 32768 /\ data = Data(Celsius)
    BY DEF FaultlessIsRead
  <2>2. Valid
    BY <1>2, <2>1, EndIsTrace DEF CrcInv, TraceInv, Valid
  <2>3. PICK t \in Words : data = Data(t)
    BY <1>2 DEF CrcInv, DataInv
  <2>4. t \in Nat /\ t < 65536 /\ t % 65536 = t
    <3>1. t \in Nat /\ t < 65536
      BY <1>2, <2>3 DEF WordsAssumption
    <3>2. QED
      BY <3>1
  <2>5. \A i \in 1 .. 16 : raw[i] = BitOf(t, i)
    <3>1. Len(raw) = 16
      BY <1>2, <2>1 DEF CrcInv, CrcTypeOK
    <3>2. \A i \in 1 .. 16 : raw[i] = data[i]
      BY <1>2, <2>1, <3>1 DEF CrcInv, RawInv
    <3>3. \A i \in 1 .. 16 : Data(t)[i] = BitOf(t, i)
      BY <2>4 DEF Data
    <3>4. QED
      BY <2>3, <3>2, <3>3
  <2>6. Celsius = IF t >= 32768 THEN t - 65536 ELSE t
    BY <2>4, <2>5, BitsAreNumber DEF Celsius
  <2>7. Celsius % 65536 = t /\ Celsius >= -32768 /\ Celsius < 32768
    BY <2>4, <2>6
  <2>8. Data(Celsius) = Data(t)
    BY <2>4, <2>7 DEF Data
  <2>9. QED
    BY <2>2, <2>3, <2>7, <2>8
<1>3. QED
  BY <1>1, <1>2, CrcInvariant, PTL DEF CrcDecides

-----------------------------------------------------------------------------
(* Both side by side.                                                      *)

\* Whichever of the two moves, each goes by its own specification, so that a reading of
\* the whole run is the temperature of its boot or has a cause, and its CRC decides.
THEOREM TemperatureCorrect ==
  TemperatureSpec => [](WrongHasCause /\ WorkingIsRead /\ CrcDecides)
<1>1. TemperatureInit => Init /\ CrcInit
  BY DEF TemperatureInit
<1>2. [TemperatureNext]_<<part, vars, crc_vars>> => [Next]_vars /\ [CrcNext]_crc_vars
  BY DEF TemperatureNext, ReadingPart, TransferPart, crc_vars
<1>3. TemperatureSpec => Spec /\ CrcSpec
  BY <1>1, <1>2, PTL DEF TemperatureSpec, Spec, CrcSpec
<1>4. CrcSpec => []CrcDecides
  BY CrcCorrect, TemperatureAssumption
<1>5. QED
  BY <1>3, <1>4, ReadingCorrect, WorkingCorrect, PTL
=============================================================================
