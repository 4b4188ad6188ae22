----------------------------- MODULE SampleLog -----------------------------
(***************************************************************************)
(* What the wind ring promises to its reader: an append-only log of        *)
(* samples, and a read that either returns exactly the newest samples of   *)
(* one instant between its call and its return, or gives up empty-handed.  *)
(* There is no torn sample, no gap, no old sample passed off as new.       *)
(*                                                                         *)
(* The k-th sample is the pair <<k, k>>: its direction and its strength    *)
(* are kept apart so that a mixture of two samples is not a sample.        *)
(***************************************************************************)
EXTENDS Integers, Sequences

CONSTANTS
  BufLen,     \* how many samples are kept
  Requests    \* the values callers pass as max_samples

VARIABLES
  pushes,     \* samples appended so far
  reading,    \* a read has been called and has not returned
  request,    \* its max_samples
  result      \* what the last read returned, << >> while one is under way

vars == <<pushes, reading, request, result>>

\* std::min, as the reader uses it.
Least(a, b) == IF a <= b THEN a ELSE b

\* The newest samples of a log of n, at most m of them, oldest first.
Latest(n, m) ==
  LET take == Least(m, Least(n, BufLen))
  IN  [i \in 1 .. take |-> <<n - take + i, n - take + i>>]

Init ==
  /\ pushes = 0
  /\ reading = FALSE
  /\ request = 0
  /\ result = << >>

Push ==
  /\ pushes' = pushes + 1
  /\ UNCHANGED <<reading, request, result>>

Call(m) ==
  /\ ~reading
  /\ request' = m
  /\ reading' \in BOOLEAN       \* FALSE: refused on the spot
  /\ result' = << >>
  /\ UNCHANGED pushes

Return ==
  /\ reading
  /\ reading' = FALSE
  /\ result' \in {Latest(pushes, request), << >>}
  /\ UNCHANGED <<pushes, request>>

Next ==
  \/ Push
  \/ \E m \in Requests : Call(m)
  \/ Return

Spec == Init /\ [][Next]_vars

=============================================================================
