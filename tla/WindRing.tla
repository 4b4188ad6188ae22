------------------------------ MODULE WindRing ------------------------------
(***************************************************************************)
(* The ring of wind samples in RTC slow memory.  The ULP coprocessor       *)
(* appends with push_sample() (ulp/main.c); the main CPU copies the newest *)
(* samples out with read_recent_samples() (ulp_sdi_wind.cpp).  There is no *)
(* lock: the writer makes sdi_sample_sequence odd while it is at work and  *)
(* the reader discards what it copied if the sequence moved, a bounded     *)
(* number of times.                                                        *)
(*                                                                         *)
(* Every access to a shared word is a step of its own.  Both sides use     *)
(* volatile accesses on in-order cores, so steps take effect in program    *)
(* order.  Samples are only ever copied, so the k-th push stores k in both *)
(* arrays: distinct values tell every mixture apart.  Init is the memory   *)
(* as ulp_riscv_load_binary() and then init_state() leave it.              *)
(***************************************************************************)
EXTENDS Integers, Sequences

CONSTANTS
  BufLen,       \* SDI_SAMPLE_BUF_LEN (120)
  Retries,      \* SNAPSHOT_RETRY_COUNT (5)
  Requests,     \* values callers pass as max_samples (120, or 1 by read_latest)
  SeqMod,       \* the sequence is a uint32_t: 2^32
  MaxOverlap,   \* bound: pushes that can start during one read attempt
  MaxPushes     \* bound: pushes in a behaviour

ASSUME BufLenAssumption == BufLen \in Nat \ {0}
ASSUME RetriesAssumption == Retries \in Nat \ {0}
ASSUME RequestsAssumption == Requests \subseteq Nat
ASSUME MaxPushesAssumption == MaxPushes \in Nat
\* The ULP pushes once a second and an attempt is a few hundred loads: no
\* attempt lasts the 2^31 pushes that would bring the sequence round.
ASSUME SequenceAssumption ==
  /\ SeqMod \in Nat /\ SeqMod % 2 = 0
  /\ MaxOverlap \in Nat /\ 2 * MaxOverlap < SeqMod

VARIABLES
  sample_sequence, sample_head, sample_count,     \* shared, written by the ULP
  direction_samples, strength_samples, last,
  wpc,          \* ULP: the next store of push_sample
  pushes,       \* history: pushes completed
  initialized,  \* main CPU: g_initialized
  rpc,          \* main CPU: the next load of read_recent_samples
  request, attempt, seq_before, count, head, direction_deg, out,   \* its locals
  seen,         \* history: pushes when seq_before was loaded
  known,        \* history: pushes when the read was called
  quiet         \* history: no push has overlapped the read

shared == <<sample_sequence, sample_head, sample_count,
            direction_samples, strength_samples, last>>
ulp == <<shared, wpc, pushes>>
local == <<attempt, seq_before, count, head, direction_deg, seen>>
reader == <<initialized, rpc, request, local, out, known>>
vars == <<ulp, reader, quiet>>

Slots == 0 .. BufLen - 1
WriterSteps == {"idle", "direction", "strength", "last", "head", "count", "end"}
AttemptSteps == {"count", "head", "direction", "strength", "after"}
ReaderSteps == {"idle", "before"} \cup AttemptSteps

TypeOK ==
  /\ sample_sequence \in 0 .. SeqMod - 1
  /\ sample_head \in Slots
  /\ sample_count \in 0 .. BufLen
  /\ direction_samples \in [Slots -> Nat]
  /\ strength_samples \in [Slots -> Nat]
  /\ last \in Nat \X Nat
  /\ wpc \in WriterSteps
  /\ pushes \in Nat
  /\ initialized \in BOOLEAN
  /\ rpc \in ReaderSteps
  /\ request \in Nat
  /\ attempt \in 0 .. Retries - 1
  /\ seq_before \in 0 .. SeqMod - 1
  /\ count \in 0 .. BufLen
  /\ head \in Slots
  /\ direction_deg \in Nat
  /\ out \in Seq(Nat \X Nat)
  /\ seen \in Nat
  /\ known \in Nat
  /\ quiet \in BOOLEAN

Init ==
  /\ sample_sequence = 0
  /\ sample_head = 0
  /\ sample_count = 0
  /\ direction_samples = [i \in Slots |-> 0]
  /\ strength_samples = [i \in Slots |-> 0]
  /\ last = <<0, 0>>
  /\ wpc = "idle"
  /\ pushes = 0
  /\ initialized \in BOOLEAN
  /\ rpc = "idle"
  /\ request = 0
  /\ attempt = 0
  /\ seq_before = 0
  /\ count = 0
  /\ head = 0
  /\ direction_deg = 0
  /\ out = << >>
  /\ seen = 0
  /\ known = 0
  /\ quiet = TRUE

-----------------------------------------------------------------------------
(* The ULP: push_sample, one action per store.                             *)

Store(from, to) == wpc = from /\ wpc' = to

\* uint32_t increment.
Inc(s) == (s + 1) % SeqMod

\* Mutant: the ring wraps one slot early.
NextSlot_Short(h) == (h + 1) % (BufLen - 1)
NextSlot(h) == (h + 1) % BufLen

\* Mutant: the count is not capped at the capacity.
Bump_NoCap(c) == c + 1
Bump(c) == IF c < BufLen THEN c + 1 ELSE c

PushBegin ==
  /\ Store("idle", "direction")
  /\ pushes < MaxPushes
  /\ rpc \in AttemptSteps => pushes - seen < MaxOverlap
  /\ sample_sequence' = Inc(sample_sequence)
  /\ quiet' = FALSE
  /\ UNCHANGED <<sample_head, sample_count, direction_samples, strength_samples,
                 last, pushes, reader>>

StoreDirection ==
  /\ Store("direction", "strength")
  /\ direction_samples' = [direction_samples EXCEPT ![sample_head] = pushes + 1]
  /\ UNCHANGED <<sample_sequence, sample_head, sample_count, strength_samples,
                 last, pushes, reader, quiet>>

StoreStrength ==
  /\ Store("strength", "last")
  /\ strength_samples' = [strength_samples EXCEPT ![sample_head] = pushes + 1]
  /\ UNCHANGED <<sample_sequence, sample_head, sample_count, direction_samples,
                 last, pushes, reader, quiet>>

\* sdi_last_direction and sdi_last_strength_centi: only the ULP reads them.
StoreLast ==
  /\ Store("last", "head")
  /\ last' = <<pushes + 1, pushes + 1>>
  /\ UNCHANGED <<sample_sequence, sample_head, sample_count, direction_samples,
                 strength_samples, pushes, reader, quiet>>

StoreHead ==
  /\ Store("head", "count")
  /\ sample_head' = NextSlot(sample_head)
  /\ UNCHANGED <<sample_sequence, sample_count, direction_samples,
                 strength_samples, last, pushes, reader, quiet>>

StoreCount ==
  /\ Store("count", "end")
  /\ sample_count' = Bump(sample_count)
  /\ UNCHANGED <<sample_sequence, sample_head, direction_samples,
                 strength_samples, last, pushes, reader, quiet>>

PushEnd ==
  /\ Store("end", "idle")
  /\ sample_sequence' = Inc(sample_sequence)
  /\ pushes' = pushes + 1
  /\ UNCHANGED <<sample_head, sample_count, direction_samples, strength_samples,
                 last, reader, quiet>>

Ulp == \/ PushBegin \/ StoreDirection \/ StoreStrength \/ StoreLast
       \/ StoreHead \/ StoreCount \/ PushEnd

-----------------------------------------------------------------------------
(* The main CPU: read_recent_samples, one action per load.                 *)

Least(a, b) == IF a <= b THEN a ELSE b

\* The slot a samples behind h.
Back(h, a) == (h + BufLen - a) % BufLen

Take == Least(request, Least(count, BufLen))
\* Mutant: the subtraction is not kept above zero before the unsigned modulo.
Start_Underflow == ((head - Take) % SeqMod) % BufLen
Start == Back(head, Take)
Index == (Start + Len(out)) % BufLen

\* Mutants: the second load of the sequence is not compared with the first;
\* the parity test on the first is swapped.
Stable_NoCompare(s) == s % 2 = 0
Stable(s) == seq_before = s /\ s % 2 = 0
Busy_Swapped(s) == s % 2 = 0
Busy(s) == s % 2 # 0

\* Mutant: `continue` without the loop counter.
NextAttempt_Forever == rpc' = "before" /\ attempt' = attempt
NextAttempt ==
  IF attempt + 1 < Retries
    THEN rpc' = "before" /\ attempt' = attempt + 1
    ELSE rpc' = "idle" /\ attempt' = attempt

Call(m) ==
  /\ rpc = "idle"
  /\ request' = m
  /\ attempt' = 0
  /\ out' = << >>
  /\ rpc' = IF initialized /\ m # 0 THEN "before" ELSE "idle"
  /\ known' = pushes
  /\ quiet' = (wpc = "idle")
  /\ UNCHANGED <<ulp, initialized, seq_before, count, head, direction_deg, seen>>

LoadBefore ==
  /\ rpc = "before"
  /\ seq_before' = sample_sequence
  /\ seen' = pushes
  /\ IF Busy(sample_sequence) THEN NextAttempt
                              ELSE rpc' = "count" /\ attempt' = attempt
  /\ UNCHANGED <<ulp, initialized, request, count, head, direction_deg, out, known, quiet>>

LoadCount ==
  /\ rpc = "count" /\ rpc' = "head"
  /\ count' = sample_count
  /\ UNCHANGED <<ulp, initialized, request, attempt, seq_before, head,
                 direction_deg, out, seen, known, quiet>>

LoadHead ==
  /\ rpc = "head"
  /\ head' = sample_head
  /\ rpc' = IF count = 0 THEN "idle" ELSE "direction"
  /\ UNCHANGED <<ulp, initialized, request, attempt, seq_before, count,
                 direction_deg, out, seen, known, quiet>>

LoadDirection ==
  /\ rpc = "direction" /\ rpc' = "strength"
  /\ direction_deg' = direction_samples[Index]
  /\ UNCHANGED <<ulp, initialized, request, attempt, seq_before, count, head,
                 out, seen, known, quiet>>

LoadStrength ==
  /\ rpc = "strength"
  /\ out' = Append(out, <<direction_deg, strength_samples[Index]>>)
  /\ rpc' = IF Len(out) + 1 = Take THEN "after" ELSE "direction"
  /\ UNCHANGED <<ulp, initialized, request, attempt, seq_before, count, head,
                 direction_deg, seen, known, quiet>>

LoadAfter ==
  /\ rpc = "after"
  /\ IF Stable(sample_sequence)
       THEN rpc' = "idle" /\ UNCHANGED <<attempt, out>>
       ELSE NextAttempt /\ out' = << >>
  /\ UNCHANGED <<ulp, initialized, request, seq_before, count, head,
                 direction_deg, seen, known, quiet>>

Load == \/ LoadBefore \/ LoadCount \/ LoadHead
        \/ LoadDirection \/ LoadStrength \/ LoadAfter

Next == Ulp \/ (\E m \in Requests : Call(m)) \/ Load

Spec == Init /\ [][Next]_vars

\* The reader's loop runs to its end once called.  Nothing is assumed of the
\* ULP: ulp_riscv_halt() may stop it in the middle of a push.
FairSpec == Spec /\ WF_vars(Load)

-----------------------------------------------------------------------------
(* Properties.                                                             *)

\* The number of the newest whole sample, and how many of the samples behind
\* the head are whole: one less than the ring holds while the oldest slot is
\* being overwritten.
Newest == IF wpc \in {"count", "end"} THEN pushes + 1 ELSE pushes
Whole == IF wpc \in {"direction", "strength", "last", "head"}
           THEN Least(pushes, BufLen - 1)
           ELSE Least(Newest, BufLen)

\* Going back from the head the ring holds the newest samples in order,
\* direction and strength of each together, at every store of push_sample
\* (ulp/main.c) and across any number of laps.
RingHoldsNewest ==
  \A a \in 1 .. Whole :
    /\ direction_samples[Back(sample_head, a)] = Newest + 1 - a
    /\ strength_samples[Back(sample_head, a)] = Newest + 1 - a

\* What read_recent_samples() accepts is what the ring holds at that moment:
\* the newest samples, in order, none torn between two pushes, although the
\* ULP kept pushing while they were copied and the sequence may have wrapped.
Log == INSTANCE SampleLog WITH
         reading <- rpc # "idle",
         result <- IF rpc = "idle" THEN out ELSE << >>

AcceptedIsLatest ==
  rpc = "after" /\ Stable(sample_sequence) => out = Log!Latest(pushes, request)

\* read_recent_samples() implements the atomic read of SampleLog.
ImplementsLog == Log!Spec

\* A read comes back empty only if it was refused, if no sample was complete
\* when it was called, or if a push overlapped it; otherwise the wind fields
\* of the published message would be null for no reason.
EmptyOnlyWhenJustified ==
  rpc = "idle" /\ out = << >> =>
    ~initialized \/ request = 0 \/ known = 0 \/ ~quiet

\* Every read returns, even if the ULP has been halted half-way through a
\* push and leaves the sequence odd for good.
ReadReturns == rpc # "idle" ~> rpc = "idle"

-----------------------------------------------------------------------------
(* The inductive invariant behind the properties above.                    *)

\* The ring side: the sequence is odd exactly while push_sample runs, the
\* count follows the pushes, and the slot being written fills up in order.
WriterInv ==
  /\ sample_sequence % 2 = IF wpc = "idle" THEN 0 ELSE 1
  /\ sample_count = Least(IF wpc = "end" THEN pushes + 1 ELSE pushes, BufLen)
  /\ wpc \in {"strength", "last", "head"} => direction_samples[sample_head] = pushes + 1
  /\ wpc \in {"last", "head"} => strength_samples[sample_head] = pushes + 1

\* The distance the sequence has moved since seq_before was loaded, which is
\* always too short to bring it round.
Moved == 2 * (pushes - seen) + (IF wpc = "idle" THEN 0 ELSE 1)
Wrapped(s) == IF s < SeqMod THEN s ELSE s - SeqMod

OverlapInv ==
  rpc \in AttemptSteps =>
    /\ seq_before % 2 = 0
    /\ seen <= pushes
    /\ pushes - seen <= MaxOverlap
    /\ wpc # "idle" => pushes - seen < MaxOverlap
    /\ sample_sequence = Wrapped(seq_before + Moved)

\* The shape of the reader's copy, whatever it copied.
ShapeInv ==
  /\ rpc = "before" => out = << >>
  /\ rpc \in {"count", "head"} => out = << >>
  /\ rpc \in {"direction", "strength"} => Len(out) < Take
  /\ rpc = "after" => Len(out) = Take
  /\ rpc # "idle" => request # 0
  /\ rpc \in {"direction", "strength", "after"} => count # 0

\* As long as the sequence has not moved the copy is right so far.
CopyInv ==
  rpc \in AttemptSteps /\ Moved = 0 =>
    /\ rpc # "count" => count = sample_count
    /\ rpc \notin {"count", "head"} => head = sample_head
    /\ \A i \in 1 .. Len(out) :
         out[i] = <<pushes - Take + i, pushes - Take + i>>
    /\ rpc = "strength" => direction_deg = pushes - Take + Len(out) + 1

\* A read that no push has overlapped has seen nothing move, so its first
\* attempt succeeds.
QuietInv ==
  /\ rpc # "idle" => initialized
  /\ quiet => wpc = "idle" /\ pushes = known
  /\ quiet /\ rpc \in AttemptSteps => seen = pushes

IInv ==
  /\ TypeOK
  /\ WriterInv
  /\ RingHoldsNewest
  /\ OverlapInv
  /\ ShapeInv
  /\ CopyInv
  /\ QuietInv
  /\ EmptyOnlyWhenJustified

=============================================================================
