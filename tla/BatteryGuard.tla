---------------------------- MODULE BatteryGuard ----------------------------
(***************************************************************************)
(* What the power cycle promises about the battery: a latch with two       *)
(* thresholds.  It is set by a reading below EnterMv, and released by a    *)
(* reading of at least RecoverMv, by a reading the PMU could not give (0), *)
(* or by a reset that is not a deep-sleep wake.  Set, the probe sleeps     *)
(* protected; released, it sleeps sampling the wind.                       *)
(***************************************************************************)
EXTENDS Integers

CONSTANTS EnterMv, RecoverMv

VARIABLES
  mode,       \* "awake", asleep "sampling", asleep "protected"
  latched,    \* the guard
  reading     \* the battery voltage last read, 0 if the PMU gave none

vars == <<mode, latched, reading>>

Init ==
  /\ mode = "awake"
  /\ latched = FALSE
  /\ reading = 0

\* Threshold in force: the higher one while the guard is set.
Threshold == IF latched THEN RecoverMv ELSE EnterMv

\* A reading below the threshold sets the guard or keeps it set; any other
\* one releases it or leaves it released.
Measure ==
  /\ mode = "awake"
  /\ reading' \in Nat
  /\ latched' = (reading' > 0 /\ reading' < Threshold)
  /\ UNCHANGED mode

Sleep ==
  /\ mode = "awake"
  /\ mode' = IF latched THEN "protected" ELSE "sampling"
  /\ UNCHANGED <<latched, reading>>

Wake ==
  /\ mode # "awake"
  /\ mode' = "awake"
  /\ UNCHANGED <<latched, reading>>

Reset ==
  /\ mode' = "awake"
  /\ latched' = FALSE
  /\ UNCHANGED reading

Next ==
  \/ Measure
  \/ Sleep
  \/ Wake
  \/ Reset

Spec == Init /\ [][Next]_vars

=============================================================================
