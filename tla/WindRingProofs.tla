--------------------------- MODULE WindRingProofs ---------------------------
(***************************************************************************)
(* Proofs about WindRing, for every buffer length, number of retries, set  *)
(* of requests and counter width: the inductive invariant, the exactness   *)
(* of an accepted snapshot, and that the reader implements SampleLog.      *)
(***************************************************************************)
EXTENDS WindRing, TLAPS

-----------------------------------------------------------------------------
(* Index and counter arithmetic.                                           *)

\* Back(h, a) walks a slots back from h, round the end of the ring.
LEMMA BackIs ==
  ASSUME NEW h \in Slots, NEW a \in 0 .. BufLen
  PROVE  /\ Back(h, a) = IF a <= h THEN h - a ELSE h + BufLen - a
         /\ a # 0 => Back(h, a) \in Slots
<1>1. CASE a <= h
  BY <1>1, BufLenAssumption DEF Back, Slots
<1>2. CASE a > h
  BY <1>2, BufLenAssumption DEF Back, Slots
<1>3. QED
  BY <1>1, <1>2, BufLenAssumption DEF Slots

\* The head moves on by one slot, round the end of the ring.
LEMMA NextSlotIs ==
  ASSUME NEW h \in Slots
  PROVE  /\ NextSlot(h) = IF h + 1 < BufLen THEN h + 1 ELSE 0
         /\ NextSlot(h) \in Slots
BY BufLenAssumption DEF NextSlot, Slots

\* Different samples of the ring are in different slots.
LEMMA BackDistinct ==
  ASSUME NEW h \in Slots, NEW a \in 1 .. BufLen - 1
  PROVE  Back(h, a) # h
<1>1. a \in 0 .. BufLen
  BY BufLenAssumption
<1>2. Back(h, a) = IF a <= h THEN h - a ELSE h + BufLen - a
  BY <1>1, BackIs
<1>3. QED
  BY <1>2, BufLenAssumption DEF Slots

\* After the head has moved on, the slots behind it are one further back.
LEMMA BackNext ==
  ASSUME NEW h \in Slots, NEW a \in 1 .. BufLen
  PROVE  Back(NextSlot(h), a) = IF a = 1 THEN h ELSE Back(h, a - 1)
<1>1. NextSlot(h) \in Slots /\ a \in 0 .. BufLen /\ a - 1 \in 0 .. BufLen
  BY NextSlotIs, BufLenAssumption
<1>2. Back(NextSlot(h), a) = IF a <= NextSlot(h) THEN NextSlot(h) - a
                                                 ELSE NextSlot(h) + BufLen - a
  BY <1>1, BackIs
<1>3. Back(h, a - 1) = IF a - 1 <= h THEN h - (a - 1) ELSE h + BufLen - (a - 1)
  BY <1>1, BackIs
<1>4. NextSlot(h) = IF h + 1 < BufLen THEN h + 1 ELSE 0
  BY NextSlotIs
<1>5. QED
  BY <1>2, <1>3, <1>4, BufLenAssumption DEF Slots

\* What the reader means to copy is a number of slots of the ring.
LEMMA TakeIs ==
  ASSUME TypeOK
  PROVE  /\ Take \in 0 .. BufLen
         /\ Take <= count
         /\ request # 0 /\ count # 0 => Take # 0
BY BufLenAssumption DEF TypeOK, Take, Least

\* The reader's next load is at the sample Take - Len(out) behind the head.
LEMMA IndexIs ==
  ASSUME TypeOK, Len(out) < Take
  PROVE  /\ Index = Back(head, Take - Len(out))
         /\ Index \in Slots
<1> DEFINE n == Len(out)
<1>1. n \in Nat /\ head \in Slots /\ Take \in 1 .. BufLen /\ n < Take
  BY TakeIs DEF TypeOK
<1>2. Start = (IF Take <= head THEN head - Take ELSE head + BufLen - Take)
      /\ Start \in Slots
  BY <1>1, BackIs DEF Start
<1>3. Index = IF Start + n < BufLen THEN Start + n ELSE Start + n - BufLen
  <2> HIDE DEF n
  <2>1. Start + n < 2 * BufLen /\ Start \in Nat
    BY <1>1, <1>2, BufLenAssumption DEF Slots
  <2>2. Index = (Start + n) % BufLen
    BY DEF Index, n
  <2> HIDE DEF Index
  <2>3. CASE Start + n < BufLen
    BY <2>1, <2>2, <2>3, <1>1, BufLenAssumption
  <2>4. CASE Start + n >= BufLen
    BY <2>1, <2>2, <2>4, <1>1, BufLenAssumption
  <2>5. QED
    BY <2>1, <2>3, <2>4, <1>1, BufLenAssumption
<1>4. Take - n \in 1 .. BufLen
  BY <1>1, BufLenAssumption
<1>5. Back(head, Take - n) =
        (IF Take - n <= head THEN head - (Take - n) ELSE head + BufLen - (Take - n))
      /\ Back(head, Take - n) \in Slots
  BY <1>1, <1>4, BackIs, BufLenAssumption
<1> HIDE DEF n
<1>6. Index = Back(head, Take - n)
  BY <1>1, <1>2, <1>3, <1>5, BufLenAssumption DEF Slots
<1>7. QED
  BY <1>5, <1>6 DEF n

\* An increment of the uint32_t counter, and what it does to the parity.
LEMMA IncIs ==
  ASSUME NEW s \in 0 .. SeqMod - 1
  PROVE  /\ Inc(s) = IF s + 1 < SeqMod THEN s + 1 ELSE 0
         /\ Inc(s) \in 0 .. SeqMod - 1
         /\ s % 2 = 0 => Inc(s) % 2 = 1
         /\ s % 2 = 1 => Inc(s) % 2 = 0
<1>1. /\ Inc(s) = IF s + 1 < SeqMod THEN s + 1 ELSE 0
      /\ Inc(s) \in 0 .. SeqMod - 1
  BY SequenceAssumption DEF Inc
<1>2. (s % 2 = 0 => Inc(s) % 2 = 1) /\ (s % 2 = 1 => Inc(s) % 2 = 0)
  BY <1>1, SequenceAssumption
<1>3. QED
  BY <1>1, <1>2

-----------------------------------------------------------------------------
(* The inductive invariant.                                                *)

LEMMA InitIInv == Init => IInv
<1> SUFFICES ASSUME Init PROVE IInv
  OBVIOUS
<1> USE BufLenAssumption, RetriesAssumption, SequenceAssumption DEF Init
<1>1. TypeOK
  BY DEF TypeOK, Slots, WriterSteps, AttemptSteps, ReaderSteps
<1>2. WriterInv
  BY DEF WriterInv, Least
<1>3. RingHoldsNewest
  BY DEF RingHoldsNewest, Whole, Newest, Least
<1>4. OverlapInv /\ ShapeInv /\ CopyInv
  BY DEF OverlapInv, ShapeInv, CopyInv, AttemptSteps
<1>5. QuietInv /\ EmptyOnlyWhenJustified
  BY DEF QuietInv, EmptyOnlyWhenJustified, AttemptSteps
<1>6. QED
  BY <1>1, <1>2, <1>3, <1>4, <1>5 DEF IInv

\* Types are kept by every step; the loads of the copy loop stay inside the
\* ring because the reader's copy has the right shape.
LEMMA TypeStep == IInv /\ [Next]_vars => TypeOK'
<1> SUFFICES ASSUME IInv, [Next]_vars PROVE TypeOK'
  OBVIOUS
<1> USE BufLenAssumption, RetriesAssumption, RequestsAssumption
<1>0. TypeOK /\ ShapeInv
  BY DEF IInv
<1>1. /\ Inc(sample_sequence) \in 0 .. SeqMod - 1
      /\ NextSlot(sample_head) \in Slots
      /\ Bump(sample_count) \in 0 .. BufLen
  <2>1. Inc(sample_sequence) \in 0 .. SeqMod - 1
    BY <1>0, IncIs DEF TypeOK
  <2>2. NextSlot(sample_head) \in Slots
    BY <1>0, NextSlotIs DEF TypeOK
  <2>3. Bump(sample_count) \in 0 .. BufLen
    BY <1>0 DEF TypeOK, Bump
  <2>4. QED
    BY <2>1, <2>2, <2>3
<1> USE DEF shared, ulp, local, reader, vars
<1>2. CASE Ulp
  <2>1. CASE PushBegin
    BY <1>0, <1>1, <2>1 DEF PushBegin, Store, TypeOK, WriterSteps
  <2>2. CASE StoreDirection
    BY <1>0, <2>2 DEF StoreDirection, Store, TypeOK, WriterSteps
  <2>3. CASE StoreStrength
    BY <1>0, <2>3 DEF StoreStrength, Store, TypeOK, WriterSteps
  <2>4. CASE StoreLast
    BY <1>0, <2>4 DEF StoreLast, Store, TypeOK, WriterSteps
  <2>5. CASE StoreHead
    BY <1>0, <1>1, <2>5 DEF StoreHead, Store, TypeOK, WriterSteps
  <2>6. CASE StoreCount
    BY <1>0, <1>1, <2>6 DEF StoreCount, Store, TypeOK, WriterSteps
  <2>7. CASE PushEnd
    BY <1>0, <1>1, <2>7 DEF PushEnd, Store, TypeOK, WriterSteps
  <2>8. QED
    BY <1>2, <2>1, <2>2, <2>3, <2>4, <2>5, <2>6, <2>7 DEF Ulp
<1>3. ASSUME NEW m \in Requests, Call(m) PROVE TypeOK'
  BY <1>0, <1>3 DEF Call, TypeOK, ReaderSteps
<1>4. CASE Load
  <2>1. CASE LoadBefore
    BY <1>0, <2>1 DEF LoadBefore, NextAttempt, TypeOK, ReaderSteps, AttemptSteps
  <2>2. CASE LoadCount
    BY <1>0, <2>2 DEF LoadCount, TypeOK, ReaderSteps, AttemptSteps
  <2>3. CASE LoadHead
    BY <1>0, <2>3 DEF LoadHead, TypeOK, ReaderSteps, AttemptSteps
  <2>4. CASE LoadDirection
    <3>1. Index \in Slots
      BY <1>0, <2>4, IndexIs DEF LoadDirection, ShapeInv
    <3>2. QED
      BY <1>0, <2>4, <3>1 DEF LoadDirection, TypeOK, ReaderSteps, AttemptSteps
  <2>5. CASE LoadStrength
    <3>1. Index \in Slots
      BY <1>0, <2>5, IndexIs DEF LoadStrength, ShapeInv
    <3>2. <<direction_deg, strength_samples[Index]>> \in Nat \X Nat
      BY <1>0, <3>1 DEF TypeOK
    <3>3. out' \in Seq(Nat \X Nat)
      BY <1>0, <2>5, <3>2 DEF LoadStrength, TypeOK
    <3>4. QED
      BY <1>0, <2>5, <3>3 DEF LoadStrength, TypeOK, ReaderSteps, AttemptSteps
  <2>6. CASE LoadAfter
    <3>1. out' \in Seq(Nat \X Nat)
      <4>1. out' = out \/ out' = << >>
        BY <2>6 DEF LoadAfter
      <4>2. << >> \in Seq(Nat \X Nat)
        OBVIOUS
      <4>3. QED
        BY <1>0, <4>1, <4>2, Zenon DEF TypeOK
    <3>2. rpc' \in ReaderSteps /\ attempt' \in 0 .. Retries - 1
      <4>1. CASE Stable(sample_sequence)
        <5>1. rpc' = "idle" /\ attempt' = attempt
          BY <2>6, <4>1 DEF LoadAfter
        <5>2. QED
          BY <1>0, <5>1 DEF TypeOK, ReaderSteps
      <4>2. CASE ~Stable(sample_sequence)
        <5>1. NextAttempt
          BY <2>6, <4>2 DEF LoadAfter
        <5>2. QED
          BY <1>0, <5>1 DEF NextAttempt, TypeOK, ReaderSteps
      <4>3. QED
        BY <4>1, <4>2
    <3>3. QED
      BY <1>0, <2>6, <3>1, <3>2 DEF LoadAfter, TypeOK
  <2>7. QED
    BY <1>4, <2>1, <2>2, <2>3, <2>4, <2>5, <2>6 DEF Load
<1>5. CASE UNCHANGED vars
  BY <1>0, <1>5 DEF TypeOK
<1>6. QED
  BY <1>2, <1>3, <1>4, <1>5 DEF Next

\* The reader and a refused call leave everything of the ULP alone.
LEMMA ReaderKeepsUlp ==
  ASSUME Load \/ (\E m \in Requests : Call(m))
  PROVE  UNCHANGED ulp
BY DEF Load, LoadBefore, LoadCount, LoadHead, LoadDirection, LoadStrength,
       LoadAfter, Call

\* And the ULP leaves everything of the reader alone.
LEMMA UlpKeepsReader ==
  ASSUME Ulp
  PROVE  UNCHANGED reader
BY DEF Ulp, PushBegin, StoreDirection, StoreStrength, StoreLast, StoreHead,
       StoreCount, PushEnd

\* The sequence stays odd exactly while push_sample is at work.
LEMMA WriterStep == IInv /\ [Next]_vars => WriterInv'
<1> SUFFICES ASSUME IInv, [Next]_vars PROVE WriterInv'
  OBVIOUS
<1>0. TypeOK /\ WriterInv
  BY DEF IInv
<1>1. CASE Ulp
  <2> USE BufLenAssumption
  <2>0. /\ sample_sequence % 2 = 0 => Inc(sample_sequence) % 2 = 1
        /\ sample_sequence % 2 = 1 => Inc(sample_sequence) % 2 = 0
    BY <1>0, IncIs DEF TypeOK
  <2>1. CASE PushBegin
    <3>1. wpc = "idle" /\ wpc' = "direction" /\ sample_sequence' = Inc(sample_sequence)
          /\ UNCHANGED <<sample_head, sample_count, direction_samples,
                         strength_samples, pushes>>
      BY <2>1 DEF PushBegin, Store
    <3>2. sample_sequence' % 2 = 1
      <4>1. sample_sequence % 2 = 0
        BY <1>0, <3>1 DEF WriterInv
      <4>2. QED
        BY <2>0, <3>1, <4>1
    <3>3. QED
      BY <1>0, <3>1, <3>2 DEF WriterInv
  <2>2. CASE StoreDirection
    BY <1>0, <2>2 DEF StoreDirection, Store, WriterInv, TypeOK
  <2>3. CASE StoreStrength
    BY <1>0, <2>3 DEF StoreStrength, Store, WriterInv, TypeOK
  <2>4. CASE StoreLast
    BY <1>0, <2>4 DEF StoreLast, Store, WriterInv
  <2>5. CASE StoreHead
    BY <1>0, <2>5 DEF StoreHead, Store, WriterInv
  <2>6. CASE StoreCount
    BY <1>0, <2>6 DEF StoreCount, Store, WriterInv, TypeOK, Bump, Least
  <2>7. CASE PushEnd
    <3>1. wpc = "end" /\ wpc' = "idle" /\ sample_sequence' = Inc(sample_sequence)
          /\ pushes' = pushes + 1 /\ sample_count' = sample_count
      BY <2>7 DEF PushEnd, Store
    <3>2. sample_sequence' % 2 = 0
      <4>1. sample_sequence % 2 = 1
        BY <1>0, <3>1 DEF WriterInv
      <4>2. QED
        BY <2>0, <3>1, <4>1
    <3>3. QED
      BY <1>0, <3>1, <3>2 DEF WriterInv
  <2>8. QED
    BY <1>1, <2>1, <2>2, <2>3, <2>4, <2>5, <2>6, <2>7 DEF Ulp
<1>2. CASE UNCHANGED ulp
  BY <1>0, <1>2 DEF WriterInv, ulp, shared
<1>3. QED
  BY <1>1, <1>2, ReaderKeepsUlp DEF Next, vars

\* Going back from the head the ring keeps holding the newest samples: the
\* slot being overwritten is never one of them, and when the head moves on
\* every sample is one slot further back.
LEMMA RingStep == IInv /\ [Next]_vars => RingHoldsNewest'
<1> SUFFICES ASSUME IInv, [Next]_vars PROVE RingHoldsNewest'
  OBVIOUS
<1>0. TypeOK /\ WriterInv /\ RingHoldsNewest
  BY DEF IInv
<1>1. CASE Ulp
  <2> USE BufLenAssumption
  <2>0. sample_head \in Slots /\ pushes \in Nat
    BY <1>0 DEF TypeOK
  <2>1. CASE PushBegin
    BY <1>0, <2>0, <2>1 DEF PushBegin, Store, RingHoldsNewest, Whole, Newest, Least
  <2>2. CASE StoreDirection
    <3>1. Whole' = Whole /\ Newest' = Newest /\ Whole \in 0 .. BufLen - 1
      BY <2>0, <2>2 DEF StoreDirection, Store, Whole, Newest, Least
    <3>2. \A a \in 1 .. Whole :
            direction_samples'[Back(sample_head, a)] = direction_samples[Back(sample_head, a)]
      <4> TAKE a \in 1 .. Whole
      <4>1. a \in 1 .. BufLen - 1 /\ a \in 0 .. BufLen
        BY <3>1
      <4>2. Back(sample_head, a) # sample_head /\ Back(sample_head, a) \in Slots
        BY <2>0, <4>1, BackDistinct, BackIs
      <4>3. QED
        BY <1>0, <2>2, <4>2 DEF StoreDirection, TypeOK
    <3>3. UNCHANGED <<sample_head, strength_samples>>
      BY <2>2 DEF StoreDirection
    <3>4. QED
      BY <1>0, <3>1, <3>2, <3>3 DEF RingHoldsNewest
  <2>3. CASE StoreStrength
    <3>1. Whole' = Whole /\ Newest' = Newest /\ Whole \in 0 .. BufLen - 1
      BY <2>0, <2>3 DEF StoreStrength, Store, Whole, Newest, Least
    <3>2. \A a \in 1 .. Whole :
            strength_samples'[Back(sample_head, a)] = strength_samples[Back(sample_head, a)]
      <4> TAKE a \in 1 .. Whole
      <4>1. a \in 1 .. BufLen - 1 /\ a \in 0 .. BufLen
        BY <3>1
      <4>2. Back(sample_head, a) # sample_head /\ Back(sample_head, a) \in Slots
        BY <2>0, <4>1, BackDistinct, BackIs
      <4>3. QED
        BY <1>0, <2>3, <4>2 DEF StoreStrength, TypeOK
    <3>3. UNCHANGED <<sample_head, direction_samples>>
      BY <2>3 DEF StoreStrength
    <3>4. QED
      BY <1>0, <3>1, <3>2, <3>3 DEF RingHoldsNewest
  <2>4. CASE StoreLast
    BY <1>0, <2>4 DEF StoreLast, Store, RingHoldsNewest, Whole, Newest
  <2>5. CASE StoreHead
    <3>1. /\ Whole' = Least(pushes + 1, BufLen)
          /\ Whole = Least(pushes, BufLen - 1)
          /\ Newest' = pushes + 1
          /\ Newest = pushes
      BY <2>5 DEF StoreHead, Store, Whole, Newest
    <3>2. ASSUME NEW a \in 1 .. Whole'
          PROVE  /\ direction_samples'[Back(sample_head', a)] = Newest' + 1 - a
                 /\ strength_samples'[Back(sample_head', a)] = Newest' + 1 - a
      <4>1. a \in 1 .. BufLen /\ (a # 1 => a - 1 \in 1 .. Whole)
        BY <2>0, <3>1 DEF Least
      <4>2. Back(sample_head', a) = IF a = 1 THEN sample_head ELSE Back(sample_head, a - 1)
        BY <2>0, <2>5, <4>1, BackNext DEF StoreHead
      <4>3. UNCHANGED <<direction_samples, strength_samples>>
        BY <2>5 DEF StoreHead
      <4>4. CASE a = 1
        BY <1>0, <2>0, <2>5, <3>1, <4>2, <4>3, <4>4 DEF WriterInv, StoreHead, Store
      <4>5. CASE a # 1
        <5>1. /\ direction_samples[Back(sample_head, a - 1)] = pushes + 1 - (a - 1)
              /\ strength_samples[Back(sample_head, a - 1)] = pushes + 1 - (a - 1)
          BY <1>0, <3>1, <4>1, <4>5 DEF RingHoldsNewest
        <5>2. pushes + 1 - (a - 1) = Newest' + 1 - a
          BY <2>0, <3>1, <4>1
        <5>3. QED
          BY <4>2, <4>3, <4>5, <5>1, <5>2
      <4>6. QED
        BY <4>4, <4>5
    <3>3. QED
      BY <3>2 DEF RingHoldsNewest
  <2>6. CASE StoreCount
    BY <1>0, <2>6 DEF StoreCount, Store, RingHoldsNewest, Whole, Newest
  <2>7. CASE PushEnd
    BY <1>0, <2>7 DEF PushEnd, Store, RingHoldsNewest, Whole, Newest
  <2>8. QED
    BY <1>1, <2>1, <2>2, <2>3, <2>4, <2>5, <2>6, <2>7 DEF Ulp
<1>2. CASE UNCHANGED ulp
  BY <1>0, <1>2 DEF RingHoldsNewest, Whole, Newest, ulp, shared
<1>3. QED
  BY <1>1, <1>2, ReaderKeepsUlp DEF Next, vars

\* While an attempt is under way the sequence is where the pushes since
\* seq_before have taken it, and those are too few to bring it round.
LEMMA OverlapStep == IInv /\ [Next]_vars => OverlapInv'
<1> SUFFICES ASSUME IInv, [Next]_vars PROVE OverlapInv'
  OBVIOUS
<1>0. TypeOK /\ WriterInv /\ OverlapInv
  BY DEF IInv
<1>1. /\ pushes \in Nat /\ seen \in Nat
      /\ seq_before \in 0 .. SeqMod - 1 /\ sample_sequence \in 0 .. SeqMod - 1
      /\ SeqMod \in Nat /\ MaxOverlap \in Nat /\ 2 * MaxOverlap < SeqMod
  BY <1>0, SequenceAssumption DEF TypeOK
<1>2. CASE /\ UNCHANGED <<sample_sequence, wpc, pushes, seen, seq_before>>
           /\ rpc' \in AttemptSteps => rpc \in AttemptSteps
  BY <1>0, <1>2 DEF OverlapInv, Moved, Wrapped
<1>3. CASE Ulp
  <2>1. UNCHANGED <<rpc, seen, seq_before>>
    BY <1>3, UlpKeepsReader DEF reader, local
  <2> SUFFICES ASSUME rpc \in AttemptSteps PROVE OverlapInv'
    BY <2>1 DEF OverlapInv
  <2>2. /\ seq_before % 2 = 0
        /\ seen <= pushes
        /\ pushes - seen <= MaxOverlap
        /\ wpc # "idle" => pushes - seen < MaxOverlap
        /\ sample_sequence = Wrapped(seq_before + Moved)
    BY <1>0 DEF OverlapInv
  <2>3. Inc(sample_sequence) =
          IF sample_sequence + 1 < SeqMod THEN sample_sequence + 1 ELSE 0
    BY <1>1, IncIs
  <2>4. CASE PushBegin
    <3>1. /\ wpc = "idle" /\ wpc' = "direction" /\ pushes' = pushes
          /\ pushes - seen < MaxOverlap
          /\ sample_sequence' = Inc(sample_sequence)
      BY <2>4 DEF PushBegin, Store
    <3>2. Moved = 2 * (pushes - seen) /\ Moved' = 2 * (pushes - seen) + 1
      BY <2>1, <3>1, <1>1 DEF Moved
    <3>3. sample_sequence' = Wrapped(seq_before + 2 * (pushes - seen) + 1)
      BY <1>1, <2>2, <2>3, <3>1, <3>2 DEF Wrapped
    <3>4. QED
      BY <1>1, <2>1, <2>2, <3>1, <3>2, <3>3 DEF OverlapInv, Wrapped
  <2>5. CASE PushEnd
    <3>1. /\ wpc = "end" /\ wpc' = "idle" /\ pushes' = pushes + 1
          /\ sample_sequence' = Inc(sample_sequence)
      BY <2>5 DEF PushEnd, Store
    <3>2. Moved = 2 * (pushes - seen) + 1 /\ Moved' = 2 * (pushes - seen) + 2
      BY <2>1, <3>1, <1>1 DEF Moved
    <3>3. sample_sequence' = Wrapped(seq_before + 2 * (pushes - seen) + 2)
      BY <1>1, <2>2, <2>3, <3>1, <3>2 DEF Wrapped
    <3>4. QED
      BY <1>1, <2>1, <2>2, <3>1, <3>2, <3>3 DEF OverlapInv, Wrapped
  <2>6. CASE ~PushBegin /\ ~PushEnd
    <3>1. /\ UNCHANGED <<sample_sequence, pushes>>
          /\ wpc # "idle" /\ wpc' # "idle"
      BY <1>3, <2>6 DEF Ulp, StoreDirection, StoreStrength, StoreLast,
                        StoreHead, StoreCount, Store
    <3>2. Moved' = Moved
      BY <2>1, <3>1 DEF Moved
    <3>3. QED
      BY <2>1, <2>2, <3>1, <3>2 DEF OverlapInv, Wrapped
  <2>7. QED
    BY <2>4, <2>5, <2>6
<1>4. CASE LoadBefore
  <2>1. UNCHANGED <<sample_sequence, wpc, pushes>>
    BY <1>4 DEF LoadBefore, ulp, shared
  <2>2. seq_before' = sample_sequence /\ seen' = pushes
    BY <1>4 DEF LoadBefore
  <2>3. CASE Busy(sample_sequence)
    BY <1>4, <2>3 DEF LoadBefore, NextAttempt, OverlapInv, AttemptSteps
  <2>4. CASE ~Busy(sample_sequence)
    <3>1. wpc = "idle" /\ sample_sequence % 2 = 0
      BY <1>0, <2>4 DEF Busy, WriterInv
    <3>2. Moved' = 0
      BY <1>1, <2>1, <2>2, <3>1 DEF Moved
    <3>3. Wrapped(seq_before' + 0) = sample_sequence
      BY <1>1, <2>2 DEF Wrapped
    <3>4. QED
      BY <1>1, <2>1, <2>2, <3>1, <3>2, <3>3 DEF OverlapInv, Wrapped
  <2>5. QED
    BY <2>3, <2>4
<1>5. CASE Load /\ ~LoadBefore
  <2>1. UNCHANGED <<sample_sequence, wpc, pushes, seen, seq_before>>
    BY <1>5 DEF Load, LoadCount, LoadHead, LoadDirection, LoadStrength,
                LoadAfter, ulp, shared
  <2>2. rpc \in AttemptSteps
    BY <1>5 DEF Load, LoadCount, LoadHead, LoadDirection, LoadStrength,
                LoadAfter, AttemptSteps
  <2>3. QED
    BY <1>2, <2>1, <2>2
<1>6. ASSUME NEW m \in Requests, Call(m) PROVE OverlapInv'
  BY <1>6 DEF Call, OverlapInv, AttemptSteps
<1>7. CASE UNCHANGED vars
  BY <1>2, <1>7 DEF vars, ulp, shared, reader, local
<1>8. QED
  BY <1>3, <1>4, <1>5, <1>6, <1>7 DEF Next

\* The copy has the length the reader's loop counter says.
LEMMA ShapeStep == IInv /\ [Next]_vars => ShapeInv'
<1> SUFFICES ASSUME IInv, [Next]_vars PROVE ShapeInv'
  OBVIOUS
<1>0. TypeOK /\ ShapeInv
  BY DEF IInv
<1>1. CASE UNCHANGED <<rpc, out, request, count>>
  BY <1>0, <1>1 DEF ShapeInv, Take
<1>2. CASE Ulp \/ UNCHANGED vars
  BY <1>1, <1>2, UlpKeepsReader DEF reader, local, vars
<1>3. ASSUME NEW m \in Requests, Call(m) PROVE ShapeInv'
  BY <1>3 DEF Call, ShapeInv
<1>4. CASE Load
  <2>1. CASE LoadBefore
    BY <1>0, <2>1 DEF LoadBefore, NextAttempt, ShapeInv
  <2>2. CASE LoadCount
    BY <1>0, <2>2 DEF LoadCount, ShapeInv
  <2>3. CASE LoadHead
    <3>1. Take \in 0 .. BufLen /\ (request # 0 /\ count # 0 => Take # 0)
      BY <1>0, TakeIs
    <3>2. Take' = Take /\ Len(out) = 0
      BY <1>0, <2>3 DEF LoadHead, Take, ShapeInv
    <3>3. QED
      BY <1>0, <2>3, <3>1, <3>2, BufLenAssumption DEF LoadHead, ShapeInv
  <2>4. CASE LoadDirection
    BY <1>0, <2>4 DEF LoadDirection, ShapeInv, Take
  <2>5. CASE LoadStrength
    <3>1. Take \in 0 .. BufLen /\ Take' = Take
      BY <1>0, <2>5, TakeIs DEF LoadStrength, Take
    <3>2. Len(out) \in Nat /\ Len(out') = Len(out) + 1
      BY <1>0, <2>5 DEF LoadStrength, TypeOK
    <3>3. QED
      BY <1>0, <2>5, <3>1, <3>2, BufLenAssumption DEF LoadStrength, ShapeInv
  <2>6. CASE LoadAfter
    BY <1>0, <2>6 DEF LoadAfter, NextAttempt, ShapeInv
  <2>7. QED
    BY <1>4, <2>1, <2>2, <2>3, <2>4, <2>5, <2>6 DEF Load
<1>5. QED
  BY <1>2, <1>3, <1>4 DEF Next

\* While the sequence has not moved, no push is under way, none has ended
\* since seq_before, and the ring holds what the loads expect.
LEMMA StillRing ==
  ASSUME IInv, rpc \in AttemptSteps, Moved = 0
  PROVE  /\ wpc = "idle" /\ seen = pushes
         /\ sample_count = Least(pushes, BufLen)
         /\ Newest = pushes /\ Whole = sample_count
<1>1. pushes \in Nat /\ seen \in Nat /\ seen <= pushes
  BY DEF IInv, TypeOK, OverlapInv
<1>2. wpc = "idle" /\ seen = pushes
  BY <1>1 DEF Moved
<1>3. QED
  BY <1>2 DEF IInv, WriterInv, Newest, Whole

\* What the next load of the copy loop finds in the two arrays.
LEMMA NextLoad ==
  ASSUME IInv, rpc \in {"direction", "strength"}, Moved = 0
  PROVE  /\ direction_samples[Index] = pushes - Take + Len(out) + 1
         /\ strength_samples[Index] = pushes - Take + Len(out) + 1
<1> DEFINE a == Take - Len(out)
<1>0. TypeOK /\ ShapeInv /\ CopyInv /\ RingHoldsNewest
  BY DEF IInv
<1>1. /\ Newest = pushes /\ Whole = sample_count
      /\ count = sample_count /\ head = sample_head
  BY <1>0, StillRing DEF CopyInv, AttemptSteps
<1>2. /\ Len(out) \in Nat /\ Len(out) < Take /\ Take \in 0 .. BufLen
      /\ Take <= count /\ pushes \in Nat /\ count \in Nat
  BY <1>0, TakeIs DEF ShapeInv, TypeOK
<1>3. a \in 1 .. Whole
  BY <1>1, <1>2, BufLenAssumption
<1>4. Index = Back(sample_head, a)
  BY <1>0, <1>1, <1>2, IndexIs
<1>5. /\ direction_samples[Index] = pushes + 1 - a
      /\ strength_samples[Index] = pushes + 1 - a
  BY <1>0, <1>1, <1>3, <1>4 DEF RingHoldsNewest
<1>6. pushes + 1 - a = pushes - Take + Len(out) + 1
  BY <1>2, BufLenAssumption
<1>7. QED
  BY <1>5, <1>6

\* As long as the sequence has not moved, every step leaves the copy right.
LEMMA CopyStep == IInv /\ [Next]_vars => CopyInv'
<1> SUFFICES ASSUME IInv, [Next]_vars, (rpc \in AttemptSteps)', Moved' = 0
             PROVE  CopyInv'
  BY DEF CopyInv
<1>0. TypeOK /\ ShapeInv /\ CopyInv /\ OverlapInv
  BY DEF IInv
<1>1. pushes \in Nat /\ seen \in Nat
  BY <1>0 DEF TypeOK
<1>2. CASE Ulp
  <2>1. UNCHANGED <<rpc, seen>> /\ seen <= pushes
    BY <1>0, <1>2, UlpKeepsReader DEF reader, local, OverlapInv
  <2>2. CASE PushEnd
    BY <1>1, <2>1, <2>2 DEF PushEnd, Moved
  <2>3. CASE ~PushEnd
    <3>1. wpc' # "idle" /\ pushes' = pushes
      BY <1>2, <2>3 DEF Ulp, PushBegin, StoreDirection, StoreStrength,
                        StoreLast, StoreHead, StoreCount, Store
    <3>2. Moved' # 0
      BY <1>1, <2>1, <3>1 DEF Moved
    <3>3. QED
      BY <3>2
  <2>4. QED
    BY <2>2, <2>3
<1>3. ASSUME NEW m \in Requests, Call(m) PROVE CopyInv'
  BY <1>3 DEF Call, AttemptSteps
<1>4. CASE Load
  <2>1. UNCHANGED <<wpc, pushes, sample_count, sample_head>>
    BY <1>4, ReaderKeepsUlp DEF ulp, shared
  <2>2. CASE LoadBefore
    <3>1. rpc' = "count" /\ out' = << >>
      BY <1>0, <2>2 DEF LoadBefore, NextAttempt, AttemptSteps, ShapeInv
    <3>2. QED
      BY <3>1 DEF CopyInv
  <2>3. CASE ~LoadBefore
    <3>1. rpc \in AttemptSteps /\ Moved = 0
      BY <1>4, <2>1, <2>3 DEF Load, LoadCount, LoadHead, LoadDirection,
                 LoadStrength, LoadAfter, AttemptSteps, Moved
    <3>2. CASE LoadCount
      BY <1>0, <2>1, <3>2 DEF LoadCount, CopyInv, ShapeInv
    <3>3. CASE LoadHead
      BY <1>0, <2>1, <3>1, <3>3 DEF LoadHead, CopyInv, ShapeInv
    <3>4. CASE LoadDirection
      <4>1. direction_deg' = pushes - Take + Len(out) + 1
        BY <3>1, <3>4, NextLoad DEF LoadDirection
      <4>2. UNCHANGED <<pushes, count, head, out, Take>> /\ rpc = "direction"
            /\ rpc' = "strength"
        BY <2>1, <3>4 DEF LoadDirection, Take
      <4>3. QED
        BY <1>0, <2>1, <3>1, <4>1, <4>2 DEF CopyInv
    <3>5. CASE LoadStrength
      <4> DEFINE n == Len(out)
      <4>1. /\ direction_deg = pushes - Take + n + 1
            /\ strength_samples[Index] = pushes - Take + n + 1
        BY <1>0, <3>1, <3>5, NextLoad DEF LoadStrength, CopyInv
      <4>2. /\ UNCHANGED <<pushes, count, head, Take>> /\ rpc = "strength"
            /\ rpc' \in {"after", "direction"}
            /\ out' = Append(out, <<direction_deg, strength_samples[Index]>>)
        BY <2>1, <3>5 DEF LoadStrength, Take
      <4>3. n \in Nat /\ Take \in Nat
        BY <1>0, TakeIs, BufLenAssumption DEF TypeOK
      <4>4. \A i \in 1 .. n : out[i] = <<pushes - Take + i, pushes - Take + i>>
        BY <1>0, <3>1 DEF CopyInv
      <4>5. /\ Len(out') = n + 1
            /\ \A i \in 1 .. n : out'[i] = out[i]
            /\ out'[n + 1] = <<direction_deg, strength_samples[Index]>>
        <5> DEFINE e == <<direction_deg, strength_samples[Index]>>
        <5>1. Index \in Slots
          BY <1>0, <3>5, IndexIs DEF LoadStrength, ShapeInv
        <5>2. e \in Nat \X Nat /\ out \in Seq(Nat \X Nat)
          BY <1>0, <5>1 DEF TypeOK
        <5>3. out' = Append(out, e)
          BY <4>2
        <5> HIDE DEF e
        <5>4. Len(out') = n + 1 /\ (\A i \in 1 .. n : out'[i] = out[i]) /\ out'[n + 1] = e
          BY <5>2, <5>3
        <5>5. QED
          BY <5>4 DEF e
      <4>6. pushes - Take + n + 1 = pushes - Take + (n + 1)
        BY <1>1, <4>3
      <4>7. \A i \in 1 .. n + 1 :
              out'[i] = <<pushes - Take + i, pushes - Take + i>>
        <5> HIDE DEF n
        <5> TAKE i \in 1 .. n + 1
        <5>1. CASE i = n + 1
          BY <4>1, <4>5, <4>6, <5>1
        <5>2. CASE i # n + 1
          BY <4>3, <4>4, <4>5, <5>2
        <5>3. QED
          BY <5>1, <5>2
      <4>8. QED
        BY <1>0, <2>1, <3>1, <4>2, <4>5, <4>7 DEF CopyInv
    <3>6. CASE LoadAfter
      BY <3>6 DEF LoadAfter, NextAttempt, AttemptSteps
    <3>7. QED
      BY <1>4, <2>3, <3>2, <3>3, <3>4, <3>5, <3>6 DEF Load
  <2>4. QED
    BY <2>2, <2>3
<1>5. CASE UNCHANGED vars
  BY <1>0, <1>5 DEF vars, ulp, shared, reader, local, CopyInv, Moved, Take
<1>6. QED
  BY <1>2, <1>3, <1>4, <1>5 DEF Next

\* A read that no push overlaps succeeds at its first attempt.
LEMMA QuietStep == IInv /\ [Next]_vars => QuietInv' /\ EmptyOnlyWhenJustified'
<1> SUFFICES ASSUME IInv, [Next]_vars
             PROVE  QuietInv' /\ EmptyOnlyWhenJustified'
  OBVIOUS
<1>0. TypeOK /\ WriterInv /\ ShapeInv /\ CopyInv /\ QuietInv /\ EmptyOnlyWhenJustified
      /\ OverlapInv
  BY DEF IInv
<1> USE DEF QuietInv, EmptyOnlyWhenJustified
<1>1. CASE Ulp
  <2>1. UNCHANGED <<rpc, initialized, out, request, known, seen>>
    BY <1>1, UlpKeepsReader DEF reader, local
  <2>2. CASE PushBegin
    BY <1>0, <2>1, <2>2 DEF PushBegin
  <2>3. CASE ~PushBegin
    BY <1>0, <1>1, <2>1, <2>3 DEF Ulp, StoreDirection, StoreStrength, StoreLast,
                                  StoreHead, StoreCount, PushEnd, Store
  <2>4. QED
    BY <2>2, <2>3
<1>2. ASSUME NEW m \in Requests, Call(m)
      PROVE  QuietInv' /\ EmptyOnlyWhenJustified'
  BY <1>0, <1>2, RequestsAssumption DEF Call, ulp, AttemptSteps
<1>3. CASE Load
  <2>1. UNCHANGED <<wpc, pushes, initialized, known, quiet, sample_sequence, request>>
    BY <1>3 DEF Load, LoadBefore, LoadCount, LoadHead, LoadDirection,
                LoadStrength, LoadAfter, ulp, shared
  <2>2. CASE LoadBefore
    <3>1. quiet => ~Busy(sample_sequence)
      BY <1>0 DEF WriterInv, Busy
    <3>2. quiet => rpc' = "count" /\ seen' = pushes
      BY <2>2, <3>1 DEF LoadBefore
    <3>3. rpc = "before"
      BY <2>2 DEF LoadBefore
    <3>4. QED
      BY <1>0, <2>1, <3>2, <3>3
  <2>3. CASE ~LoadBefore
    <3>1. rpc \in AttemptSteps
      BY <1>3, <2>3 DEF Load, LoadCount, LoadHead, LoadDirection, LoadStrength,
                        LoadAfter, AttemptSteps
    <3>2. UNCHANGED seen
      BY <1>3, <2>3 DEF Load, LoadCount, LoadHead, LoadDirection, LoadStrength, LoadAfter
    <3>3. QuietInv'
      BY <1>0, <2>1, <3>1, <3>2 DEF AttemptSteps
    <3>4. ASSUME rpc' = "idle", out' = << >>, quiet, known # 0
          PROVE  FALSE
      <4>1. /\ wpc = "idle" /\ seen = pushes /\ pushes = known
            /\ pushes \in Nat /\ seq_before \in 0 .. SeqMod - 1
            /\ SeqMod \in Nat
        BY <1>0, <3>1, <3>4, SequenceAssumption DEF TypeOK
      <4>2. Moved = 0
        BY <4>1 DEF Moved
      <4>3. CASE LoadHead
        <5>1. count = Least(pushes, BufLen) /\ count = 0
          BY <1>0, <3>1, <3>4, <4>2, <4>3, StillRing DEF LoadHead, CopyInv
        <5>2. QED
          BY <3>4, <4>1, <5>1, BufLenAssumption DEF Least
      <4>4. CASE LoadAfter
        <5>1. sample_sequence = seq_before /\ seq_before % 2 = 0
          BY <1>0, <3>1, <4>1, <4>2 DEF OverlapInv, Wrapped
        <5>2. out' = out /\ Len(out) = Take /\ request # 0 /\ count # 0
          BY <1>0, <4>4, <5>1 DEF LoadAfter, Stable, ShapeInv
        <5>3. Take # 0
          BY <1>0, <5>2, TakeIs
        <5>4. QED
          BY <3>4, <5>2, <5>3
      <4>5. LoadHead \/ LoadAfter
        BY <1>3, <2>3, <3>4 DEF Load, LoadCount, LoadDirection, LoadStrength
      <4>6. QED
        BY <4>3, <4>4, <4>5
    <3>5. QED
      BY <2>1, <3>3, <3>4
  <2>4. QED
    BY <2>2, <2>3
<1>4. CASE UNCHANGED vars
  BY <1>0, <1>4 DEF vars, ulp, shared, reader, local
<1>5. QED
  BY <1>1, <1>2, <1>3, <1>4 DEF Next

\* The invariant holds in every reachable state.
THEOREM Invariant == Spec => []IInv
<1>1. Init => IInv
  BY InitIInv
<1>2. IInv /\ [Next]_vars => IInv'
  BY TypeStep, WriterStep, RingStep, OverlapStep, ShapeStep, CopyStep, QuietStep
     DEF IInv
<1>3. QED
  BY <1>1, <1>2, PTL DEF Spec

-----------------------------------------------------------------------------
(* What follows from it.                                                   *)

\* Every variable keeps its type: no index leaves the ring, the counts stay
\* within its capacity.
THEOREM TypeCorrect == Spec => []TypeOK
<1>1. IInv => TypeOK
  BY DEF IInv
<1>2. QED
  BY <1>1, Invariant, PTL

\* At every store of push_sample the ring holds the newest samples in order.
THEOREM RingCorrect == Spec => []RingHoldsNewest
<1>1. IInv => RingHoldsNewest
  BY DEF IInv
<1>2. QED
  BY <1>1, Invariant, PTL

\* A read comes back empty only for one of the documented reasons.
THEOREM EmptyCorrect == Spec => []EmptyOnlyWhenJustified
<1>1. IInv => EmptyOnlyWhenJustified
  BY DEF IInv
<1>2. QED
  BY <1>1, Invariant, PTL

\* A snapshot that passes the second load of the sequence is exactly the
\* newest samples of that moment.
LEMMA Accepted == IInv => AcceptedIsLatest
<1> SUFFICES ASSUME IInv, rpc = "after", Stable(sample_sequence)
             PROVE  out = Log!Latest(pushes, request)
  BY DEF AcceptedIsLatest
<1>0. TypeOK /\ OverlapInv /\ ShapeInv /\ CopyInv
  BY DEF IInv
<1>1. /\ pushes \in Nat /\ seen \in Nat /\ seen <= pushes
      /\ pushes - seen <= MaxOverlap
      /\ wpc # "idle" => pushes - seen < MaxOverlap
      /\ seq_before \in 0 .. SeqMod - 1
      /\ sample_sequence = Wrapped(seq_before + Moved)
      /\ sample_sequence = seq_before
      /\ MaxOverlap \in Nat /\ SeqMod \in Nat /\ 2 * MaxOverlap < SeqMod
  BY <1>0, SequenceAssumption DEF TypeOK, OverlapInv, AttemptSteps, Stable
<1>2. Moved \in Nat /\ Moved < SeqMod
  BY <1>1 DEF Moved
<1>3. Moved = 0
  BY <1>1, <1>2 DEF Wrapped
<1>4. count = Least(pushes, BufLen)
  BY <1>0, <1>3, StillRing DEF CopyInv, AttemptSteps
<1>5. Take = Least(request, Least(pushes, BufLen)) /\ Take \in Nat
  BY <1>0, <1>1, <1>4, BufLenAssumption DEF Take, Least, TypeOK
<1>6. /\ out \in Seq(Nat \X Nat) /\ Len(out) = Take
      /\ \A i \in 1 .. Take : out[i] = <<pushes - Take + i, pushes - Take + i>>
  BY <1>0, <1>3 DEF TypeOK, ShapeInv, CopyInv, AttemptSteps
<1>7. out = [i \in 1 .. Take |-> <<pushes - Take + i, pushes - Take + i>>]
  BY <1>5, <1>6
<1>8. QED
  BY <1>5, <1>7 DEF Log!Latest, Log!Least, Least

THEOREM SnapshotCorrect == Spec => []AcceptedIsLatest
BY Accepted, Invariant, PTL

-----------------------------------------------------------------------------
(* The reader implements the atomic read of SampleLog.                     *)

\* A step of the ring is a step of the log or leaves the log alone: pushes
\* are pushes, the last step of a read is its return.
LEMMA LogStep == IInv /\ [Next]_vars => [Log!Next]_(Log!vars)
<1> SUFFICES ASSUME IInv, [Next]_vars PROVE [Log!Next]_(Log!vars)
  OBVIOUS
<1> USE DEF Log!vars
<1>0. TypeOK /\ ShapeInv /\ AcceptedIsLatest
  BY Accepted DEF IInv
<1>1. CASE Ulp
  <2>1. UNCHANGED <<rpc, out, request>>
    BY <1>1, UlpKeepsReader DEF reader, local
  <2>2. CASE PushEnd
    BY <2>1, <2>2 DEF PushEnd, Log!Push, Log!Next
  <2>3. CASE ~PushEnd
    BY <1>1, <2>1, <2>3 DEF Ulp, PushBegin, StoreDirection, StoreStrength,
                            StoreLast, StoreHead, StoreCount
  <2>4. QED
    BY <2>2, <2>3
<1>2. ASSUME NEW m \in Requests, Call(m) PROVE Log!Next
  <2>1. Log!Call(m)
    BY <1>2 DEF Call, Log!Call, ulp
  <2>2. QED
    BY <2>1 DEF Log!Next
<1>3. CASE Load
  <2>1. pushes' = pushes /\ request' = request /\ rpc # "idle"
    BY <1>3 DEF Load, LoadBefore, LoadCount, LoadHead, LoadDirection,
                LoadStrength, LoadAfter, ulp
  <2>2. CASE rpc' # "idle"
    BY <2>1, <2>2
  <2>3. CASE rpc' = "idle"
    <3>1. out' = Log!Latest(pushes, request) \/ out' = << >>
      <4>1. CASE LoadBefore
        BY <1>0, <4>1 DEF LoadBefore, ShapeInv
      <4>2. CASE LoadHead
        BY <1>0, <4>2 DEF LoadHead, ShapeInv
      <4>3. CASE LoadAfter
        <5>1. CASE Stable(sample_sequence)
          BY <1>0, <4>3, <5>1 DEF LoadAfter, AcceptedIsLatest
        <5>2. CASE ~Stable(sample_sequence)
          BY <4>3, <5>2 DEF LoadAfter
        <5>3. QED
          BY <5>1, <5>2
      <4>4. QED
        BY <1>3, <2>3, <4>1, <4>2, <4>3 DEF Load, LoadCount, LoadDirection, LoadStrength
    <3>2. Log!Return
      BY <2>1, <2>3, <3>1 DEF Log!Return
    <3>3. QED
      BY <3>2 DEF Log!Next
  <2>4. QED
    BY <2>2, <2>3
<1>4. CASE UNCHANGED vars
  BY <1>4 DEF vars, ulp, reader
<1>5. QED
  BY <1>1, <1>2, <1>3, <1>4 DEF Next

\* The seqlock read implements the atomic one.
THEOREM Refinement == Spec => ImplementsLog
<1>1. Init => Log!Init
  BY DEF Init, Log!Init
<1>2. IInv /\ [Next]_vars => [Log!Next]_(Log!vars)
  BY LogStep
<1>3. QED
  BY <1>1, <1>2, Invariant, PTL DEF Spec, ImplementsLog, Log!Spec

=============================================================================
