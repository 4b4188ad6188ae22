----------------------------- MODULE SdiAnswer ------------------------------
(***************************************************************************)
(* How parse_d0_fields() (ulp/main.c) reads the answer to 0D0!, "a+d+s":   *)
(* an address, the direction in degrees, the strength with decimals.  All  *)
(* arithmetic is of ValueWord values, and the reader of the ring keeps 16  *)
(* bits of a direction.  Each loop is a function of the turns it has made. *)
(* The answer grows byte by byte over an alphabet that has digits, the two *)
(* signs that matter and one that does not.                                *)
(***************************************************************************)
EXTENDS Integers, Sequences

CONSTANTS
  Alphabet,      \* the bytes that come in, as ASCII
  MaxLen,        \* bound: bytes of an answer
  ValueWord,     \* 2 ^ 32
  DirectionWord  \* 2 ^ 16

Plus == 43
Dot == 46
Digits == 48 .. 57
AnswerAssumption ==
  /\ Alphabet \subseteq 0 .. 127 /\ MaxLen \in Nat
  /\ DirectionWord \in Nat \ {0}
  /\ ValueWord \in Nat /\ ValueWord >= DirectionWord /\ ValueWord >= 100

VARIABLE sdi_d_rx_buf

AnswerInit == sdi_d_rx_buf = <<>>
AnswerNext ==
  /\ Len(sdi_d_rx_buf) < MaxLen
  /\ \E ch \in Alphabet : sdi_d_rx_buf' = Append(sdi_d_rx_buf, ch)
AnswerSpec == AnswerInit /\ [][AnswerNext]_sdi_d_rx_buf

AnswerTypeOK == sdi_d_rx_buf \in Seq(Alphabet) /\ Len(sdi_d_rx_buf) <= MaxLen

-----------------------------------------------------------------------------
(* A number.                                                               *)

Refused == [ok |-> FALSE, value |-> 0]
Accepted(v) == [ok |-> TRUE, value |-> v]
AllDigits(s) == \A i \in DOMAIN s : s[i] \in Digits
AppendDigit(v, ch) == (v * 10 + (ch - 48)) % ValueWord

DigitsRead(s) ==
  LET parsed[k \in 0 .. Len(s)] == IF k = 0 THEN 0 ELSE AppendDigit(parsed[k - 1], s[k])
  IN parsed
ParseUint(s) ==
  IF s # <<>> /\ AllDigits(s) THEN Accepted(DigitsRead(s)[Len(s)]) ELSE Refused

-----------------------------------------------------------------------------
(* A number with decimals.                                                 *)

\* One byte of parse_fixed_centi().  Mutant: the third decimal is taken too.
Kept_All(digits) == TRUE
Kept(digits) == digits < 2
FixedByte(st, ch) ==
  CASE ch = Dot -> [st EXCEPT !.ok = @ /\ ~st.dot, !.dot = TRUE]
    [] ch \notin Digits \cup {Dot} -> [st EXCEPT !.ok = FALSE]
    [] ch \in Digits /\ ~st.dot -> [st EXCEPT !.whole = AppendDigit(@, ch)]
    [] ch \in Digits /\ st.dot ->
         IF Kept(st.digits)
         THEN [st EXCEPT !.frac = AppendDigit(@, ch), !.digits = @ + 1] ELSE st

FixedStart(s) == [ok |-> s # <<>>, dot |-> FALSE, whole |-> 0, frac |-> 0, digits |-> 0]
Fixed(s) ==
  LET fixed[k \in 0 .. Len(s)] == IF k = 0 THEN FixedStart(s) ELSE FixedByte(fixed[k - 1], s[k])
  IN fixed

Hundredths(st) == IF st.digits = 1 THEN st.frac * 10 ELSE st.frac
ParseFixedCenti(s) ==
  LET end == Fixed(s)[Len(s)]
  IN IF end.ok THEN Accepted((end.whole * 100 + Hundredths(end)) % ValueWord) ELSE Refused

-----------------------------------------------------------------------------
(* An answer.                                                              *)

\* One turn of parse_d0_fields(): a plus sign or the end ends a field, the third
\* field, field_index 2, ends the loop.
FieldEnds(i) == i < Len(sdi_d_rx_buf) => sdi_d_rx_buf[i + 1] = Plus
ScanTurn(st, i) ==
  LET field == SubSeq(sdi_d_rx_buf, st.start + 1, i)
      next == [st EXCEPT !.field_index = @ + 1, !.start = i + 1]
  IN IF st.field_index = 3 \/ ~FieldEnds(i) THEN st
     ELSE CASE st.field_index = 0 -> next
            [] st.field_index = 1 -> [next EXCEPT !.direction = ParseUint(field)]
            [] st.field_index = 2 -> [next EXCEPT !.strength = ParseFixedCenti(field)]

ScanStart == [field_index |-> 0, start |-> 0, direction |-> Refused, strength |-> Refused]
Scan ==
  LET scan[k \in 0 .. Len(sdi_d_rx_buf) + 1] ==
        IF k = 0 THEN ScanStart ELSE ScanTurn(scan[k - 1], k - 1)
  IN scan

\* parse_d0_fields(), with the cut that the reader of the ring makes.
ParseD0 ==
  LET end == Scan[Len(sdi_d_rx_buf) + 1]
  IN IF end.direction.ok /\ end.strength.ok
     THEN [ok |-> TRUE, direction |-> end.direction.value % DirectionWord,
           strength |-> end.strength.value]
     ELSE [ok |-> FALSE, direction |-> 0, strength |-> 0]

-----------------------------------------------------------------------------
(* Properties.                                                             *)

\* What an answer means: a number is the sum of its digits times powers of ten,
\* a strength is that of what precedes its dot, and two decimals.
TenTo[k \in 0 .. MaxLen] == IF k = 0 THEN 1 ELSE 10 * TenTo[k - 1]
Sums(s) ==
  LET sum[k \in 0 .. Len(s)] ==
        IF k = 0 THEN 0 ELSE sum[k - 1] + (s[k] - 48) * TenTo[Len(s) - k]
  IN sum
Number(s) == Sums(s)[Len(s)]

\* The bytes up to the first ch, and those behind it.
Lead(s, ch) ==
  CHOOSE m \in 0 .. Len(s) : /\ \A i \in 1 .. m : s[i] # ch
                             /\ m < Len(s) => s[m + 1] = ch
Before(s, ch) == SubSeq(s, 1, Lead(s, ch))
Behind(s, ch) == SubSeq(s, Lead(s, ch) + 2, Len(s))
Decimal(s, i) == IF i \in DOMAIN s THEN s[i] - 48 ELSE 0
Centi(s) == LET frac == Behind(s, Dot)
            IN Number(Before(s, Dot)) * 100 + Decimal(frac, 1) * 10 + Decimal(frac, 2)

Direction == Before(Behind(sdi_d_rx_buf, Plus), Plus)
Strength == Before(Behind(Behind(sdi_d_rx_buf, Plus), Plus), Plus)
TwoPlus ==
  \E i, j \in DOMAIN sdi_d_rx_buf : i < j /\ sdi_d_rx_buf[i] = Plus /\ sdi_d_rx_buf[j] = Plus
WellFormed ==
  /\ TwoPlus
  /\ Direction # <<>> /\ AllDigits(Direction)
  /\ Strength # <<>> /\ AllDigits(Before(Strength, Dot)) /\ AllDigits(Behind(Strength, Dot))

\* Exactly the well-formed answers are accepted, and they are read as what they
\* mean, to the hundredth, rounded down: a direction or a strength that is too
\* big for its integer comes out modulo its width, and no other one is changed
\* on the way (main.c:61, ulp_sdi_wind.cpp:212).
ReadAsMeant ==
  LET read == ParseD0 IN
  /\ read.ok <=> WellFormed
  /\ WellFormed => /\ read.direction = (Number(Direction) % ValueWord) % DirectionWord
                   /\ read.strength = Centi(Strength) % ValueWord
=============================================================================
