-------------------------- MODULE PowerCycleProofs --------------------------
(***************************************************************************)
(* Proofs about PowerCycle, for every pair of thresholds, every set of     *)
(* battery voltages and any number of resets and of failing exchanges with *)
(* the PMU, each write to it taken by itself: the inductive invariant,     *)
(* what follows from it about sleeping and waking, and that app_main()     *)
(* implements the latch of BatteryGuard.                                   *)
(***************************************************************************)
EXTENDS PowerCycle, TLAPS

USE DEF boot, cpu, ram, rtc, pmu, power, coproc, env, vars

-----------------------------------------------------------------------------
(* Types: the flags apart from the data, since they need different provers. *)

FlagsTyped ==
  /\ from_wakeup \in BOOLEAN
  /\ from_power_cut_sleep \in BOOLEAN
  /\ from_low_battery_guard \in BOOLEAN
  /\ pmu_ready \in BOOLEAN
  /\ g_initialized \in BOOLEAN
  /\ rtc_power_cut \in BOOLEAN
  /\ rtc_guard \in BOOLEAN
  /\ rtc_periph \in BOOLEAN
  /\ reported \in BOOLEAN
  /\ ulp_failed \in BOOLEAN
  /\ net \in BOOLEAN

DataTyped ==
  /\ pc \in PCs
  /\ plan \in {"fast", "full", "recover", "last"}
  /\ reset_reason \in {"deepsleep", "other"}
  /\ batt_mv \in Volts \cup {0}
  /\ rails \subseteq Rails
  /\ rail \in Rails
  /\ missed \subseteq Rails
  /\ ulp \in {"halted", "running"}
  /\ ring \in {"empty", "live", "old"}
  /\ modem \in {"off", "cold", "ready"}
  /\ mv \in Volts
  /\ faults \in 0 .. MaxFaults
  /\ resets \in 0 .. MaxResets

\* TypeOK in two parts, because the provers treat Booleans and data apart.
LEMMA Typed == TypeOK <=> FlagsTyped /\ DataTyped
BY DEF TypeOK, FlagsTyped, DataTyped

\* The boot state is typed.
LEMMA InitTyped == Init => TypeOK
<1>1. Init => FlagsTyped
  BY Zenon DEF Init, FlagsTyped
<1>2. Init => DataTyped
  BY BoundsAssumption DEF Init, DataTyped, PCs, Rails
<1>3. QED
  BY <1>1, <1>2, Typed

\* Every step of the boot cycle keeps the flags Boolean.
LEMMA FlagsStep == TypeOK /\ [Next]_vars => FlagsTyped'
<1> SUFFICES ASSUME TypeOK, [Next]_vars PROVE FlagsTyped'
  OBVIOUS
<1>0. FlagsTyped
  BY Typed
<1> USE DEF FlagsTyped
<1>1. CASE Boot
  BY <1>0, <1>1, Zenon DEF Boot, Goto
<1>2. CASE PmuInit
  BY <1>0, <1>2, Zenon DEF PmuInit, Goto
<1>3. CASE CheckBattery
  BY <1>0, <1>3, Zenon DEF CheckBattery, EnterGuard, LeaveGuard
<1>4. CASE PreparePower
  BY <1>0, <1>4, Zenon DEF PreparePower, SwitchRails
<1>5. CASE AttachUlp
  BY <1>0, <1>5, Zenon DEF AttachUlp, Goto, Resumes
<1>6. CASE StartUlp
  BY <1>0, <1>6, Zenon DEF StartUlp, Goto, Resumes
<1>7. CASE StartCycle
  BY <1>0, <1>7, Zenon DEF StartCycle, Resumes
<1>8. CASE BringUpDone
  BY <1>0, <1>8, Zenon DEF BringUpDone
<1>9. CASE BringUpWaits
  BY <1>0, <1>9, Zenon DEF BringUpWaits, Goto
<1>10. CASE RestartModem
  BY <1>0, <1>10, Zenon DEF RestartModem, Goto
<1>11. CASE Snapshot
  BY <1>0, <1>11, Zenon DEF Snapshot, Goto
<1>12. CASE PublishOk
  BY <1>0, <1>12, Zenon DEF PublishOk, Goto
<1>13. CASE PublishFails
  BY <1>0, <1>13, Zenon DEF PublishFails
<1>14. CASE RecheckBattery
  BY <1>0, <1>14, Zenon DEF RecheckBattery, EnterGuard
<1>15. CASE PrepareSleep
  BY <1>0, <1>15, Zenon DEF PrepareSleep, SwitchRails
<1>16. CASE NormalSleep
  BY <1>0, <1>16, Zenon DEF NormalSleep, DeepSleep, KeepPeriph, Halt
<1>17. CASE CutUlp
  BY <1>0, <1>17, Zenon DEF CutUlp, Goto, StopUlp, Halt
<1>18. CASE CutRails
  BY <1>0, <1>18, Zenon DEF CutRails, SwitchRails
<1>19. CASE CutI2c
  BY <1>0, <1>19, Zenon DEF CutI2c, Goto
<1>20. CASE PowerCutSleep
  BY <1>0, <1>20, Zenon DEF PowerCutSleep, DeepSleep, Halt
<1>21. CASE Wake
  BY <1>0, <1>21, Zenon DEF Wake, Goto
<1>22. CASE UlpCycle
  BY <1>0, <1>22, Zenon DEF UlpCycle
<1>23. CASE Reset
  BY <1>0, <1>23, Zenon DEF Reset, Halt
<1>24. CASE World
  BY <1>0, <1>24, Zenon DEF World
<1>25. CASE UNCHANGED vars
  BY <1>0, <1>25, Zenon
<1>26. QED
  BY <1>1, <1>2, <1>3, <1>4, <1>5, <1>6, <1>7, <1>8, <1>9, <1>10, <1>11,
     <1>12, <1>13, <1>14, <1>15, <1>16, <1>17, <1>18, <1>19, <1>20, <1>21,
     <1>22, <1>23, <1>24, <1>25 DEF Next, Cpu

\* The modem has power exactly while DC3 is on.
Fed == modem = "off" <=> "DC3" \notin rails

\* What an order to the PMU leaves of the rails and of the modem.
LEMMA SwitchEffect ==
  ASSUME rails \subseteq Rails, missed \subseteq Rails, modem \in {"off", "cold", "ready"},
         NEW r \in Rails, NEW on \in BOOLEAN, NEW ok \in BOOLEAN, Switch(r, on, ok)
  PROVE  /\ rails' \subseteq Rails /\ missed' \subseteq Rails
         /\ modem' \in {"off", "cold", "ready"}
         /\ Fed => Fed'
         /\ on => /\ rails \subseteq rails'
                  /\ r \in rails' \/ r \in missed'
                  /\ missed \ rails' \subseteq missed'
                  /\ Fed /\ modem = "ready" => modem' = "ready"
         /\ ~on => /\ rails' \subseteq rails
                   /\ r \notin rails' \/ r \in missed'
                   /\ missed \cap rails' \subseteq missed'
BY DEF Switch, Rails, Fed

\* What a battery reading leaves of them.
LEMMA ReadEffect ==
  ASSUME rails \subseteq Rails, missed \subseteq Rails, modem \in {"off", "cold", "ready"},
         ReadBattery
  PROVE  /\ rails' \subseteq Rails /\ missed' \subseteq Rails
         /\ modem' \in {"off", "cold", "ready"}
         /\ Fed => Fed'
         /\ rails \subseteq rails' /\ missed \ rails' \subseteq missed'
         /\ Fed /\ modem = "ready" => modem' = "ready"
         /\ batt_mv' > 0 => pmu_ready
<1>1. CASE pmu_ready /\ \E ok \in BOOLEAN : Switch("BLDO1", TRUE, ok)
  <2>1. PICK ok \in BOOLEAN : Switch("BLDO1", TRUE, ok)
    BY <1>1
  <2>2. "BLDO1" \in Rails
    BY DEF Rails
  <2>3. QED
    BY <1>1, <2>1, <2>2, SwitchEffect
<1>2. CASE ~pmu_ready /\ batt_mv' = 0 /\ UNCHANGED pmu
  BY <1>2 DEF Fed
<1>3. QED
  BY <1>1, <1>2 DEF ReadBattery

\* What one turn of a function that switches all rails leaves of them: its
\* control, and the part of its work that is done.
LEMMA TurnEffect ==
  ASSUME rails \subseteq Rails, missed \subseteq Rails, modem \in {"off", "cold", "ready"},
         rail \in Rails, pmu_ready \in BOOLEAN,
         NEW from, NEW to, from # to, NEW on \in BOOLEAN, SwitchRails(from, to, on)
  PROVE  /\ rails' \subseteq Rails /\ missed' \subseteq Rails /\ rail' \in Rails
         /\ modem' \in {"off", "cold", "ready"}
         /\ Fed => Fed'
         /\ pc = from /\ pc' \in {from, to}
         /\ pc' = from => pmu_ready
         /\ pc' = to /\ (pmu_ready \/ rail = "DC3") => rail' = "DC3"
         /\ on => /\ rails \subseteq rails'
                  /\ missed \ rails' \subseteq missed'
                  /\ Fed /\ modem = "ready" => modem' = "ready"
         /\ on /\ Earlier[rail] \ rails \subseteq missed =>
              IF pc' = to THEN Rails \ rails' \subseteq missed'
                          ELSE Earlier[rail'] \ rails' \subseteq missed'
         /\ ~on /\ Earlier[rail] \cap rails \subseteq missed =>
              IF pc' = to THEN rails' \subseteq missed'
                          ELSE Earlier[rail'] \cap rails' \subseteq missed'
<1>1. CASE pmu_ready
  <2>1. PICK ok \in BOOLEAN : Switch(rail, on, ok)
    BY <1>1 DEF SwitchRails
  <2>2. rail' = After[rail] /\ pc = from /\ pc' = (IF rail = "BLDO1" THEN to ELSE from)
    BY <1>1 DEF SwitchRails
  <2> HIDE DEF Switch
  <2>3. CASE rail = "DC3"
    BY <1>1, <2>1, <2>2, <2>3, SwitchEffect DEF Rails, Earlier, After
  <2>4. CASE rail = "DC5"
    BY <1>1, <2>1, <2>2, <2>4, SwitchEffect DEF Rails, Earlier, After
  <2>5. CASE rail = "BLDO1"
    BY <1>1, <2>1, <2>2, <2>5, SwitchEffect DEF Rails, Earlier, After
  <2>6. QED
    BY <2>3, <2>4, <2>5 DEF Rails
<1>2. CASE ~pmu_ready
  <2>1. /\ missed' = Rails /\ pc = from /\ pc' = to
        /\ UNCHANGED <<rails, modem, rail>>
    BY <1>2 DEF SwitchRails
  <2>2. QED
    BY <1>2, <2>1 DEF Fed
<1>3. QED
  BY <1>1, <1>2

\* A battery reading is one of the voltages or 0, and costs a fault at most.
LEMMA ReadTyped ==
  ASSUME TypeOK, ReadBattery
  PROVE  batt_mv' \in Volts \cup {0} /\ faults' \in 0 .. MaxFaults
<1>1. batt_mv' \in {mv, 0}
  BY DEF ReadBattery
<1>2. faults' = faults \/ (faults < MaxFaults /\ faults' = faults + 1)
  <2>1. NoFault \/ Fault
    BY DEF ReadBattery
  <2>2. QED
    BY <2>1 DEF NoFault, Fault
<1>3. QED
  BY <1>1, <1>2, BoundsAssumption DEF TypeOK

\* A turn that ends without a fault so far had none before, and misses nothing.
LEMMA TurnFaults ==
  ASSUME faults \in Nat, NEW from, NEW to, NEW on \in BOOLEAN, SwitchRails(from, to, on), faults' = 0
  PROVE  faults = 0 /\ (pmu_ready /\ missed = {} => missed' = {})
<1>1. CASE pmu_ready
  <2>1. PICK ok \in BOOLEAN : Switch(rail, on, ok) /\ (IF ok THEN NoFault ELSE Fault)
    BY <1>1 DEF SwitchRails
  <2>2. ok /\ NoFault
    BY <2>1 DEF Fault, NoFault
  <2>3. QED
    BY <2>1, <2>2 DEF Switch, NoFault
<1>2. CASE ~pmu_ready
  BY <1>2 DEF SwitchRails, NoFault
<1>3. QED
  BY <1>1, <1>2

\* Nor does a battery reading.
LEMMA ReadFaults ==
  ASSUME faults \in Nat, ReadBattery, faults' = 0
  PROVE  faults = 0 /\ (missed = {} => missed' = {})
<1>1. CASE pmu_ready
  <2>1. PICK ok \in BOOLEAN :
          Switch("BLDO1", TRUE, ok) /\ (IF ok /\ batt_mv' = mv THEN NoFault ELSE Fault)
    BY <1>1 DEF ReadBattery
  <2>2. ok /\ NoFault
    BY <2>1 DEF Fault, NoFault
  <2>3. QED
    BY <2>1, <2>2 DEF Switch, NoFault
<1>2. CASE ~pmu_ready
  BY <1>2 DEF ReadBattery, NoFault
<1>3. QED
  BY <1>1, <1>2

\* The data after a turn are typed, and the rest of them unchanged.
LEMMA TurnTyped ==
  ASSUME TypeOK, NEW from, NEW to \in PCs, from # to, NEW on \in BOOLEAN,
         SwitchRails(from, to, on)
  PROVE  DataTyped'
<1>1. /\ rails' \subseteq Rails /\ missed' \subseteq Rails /\ rail' \in Rails
      /\ modem' \in {"off", "cold", "ready"}
      /\ pc = from /\ pc' \in {from, to}
  BY TurnEffect DEF TypeOK
<1>2. faults' \in 0 .. MaxFaults
  BY BoundsAssumption DEF TypeOK, SwitchRails, Fault, NoFault
<1>3. UNCHANGED <<plan, boot, ram, rtc, batt_mv, rtc_periph, coproc, env, resets>>
  BY DEF SwitchRails
<1>4. QED
  BY <1>1, <1>2, <1>3 DEF TypeOK, DataTyped

\* Every step of the boot cycle keeps the other variables in their ranges.
LEMMA DataStep == TypeOK /\ [Next]_vars => DataTyped'
<1> SUFFICES ASSUME TypeOK, [Next]_vars PROVE DataTyped'
  OBVIOUS
<1>0. DataTyped
  BY Typed
<1> USE VoltsAssumption, BoundsAssumption DEF DataTyped, PCs, Rails
<1>1. CASE Boot
  BY <1>0, <1>1 DEF Boot, Goto
<1>2. CASE PmuInit
  BY <1>0, <1>2 DEF PmuInit, Goto, Fault, NoFault
<1>3. CASE CheckBattery
  <2>1. batt_mv' \in Volts \cup {0} /\ faults' \in 0 .. MaxFaults
    BY <1>0, <1>3, ReadTyped DEF CheckBattery
  <2>2. QED
    BY <1>0, <1>3, <2>1, ReadEffect DEF CheckBattery, EnterGuard, LeaveGuard
<1>4. CASE PreparePower
  BY <1>4, TurnTyped DEF PreparePower, PCs
<1>5. CASE AttachUlp
  BY <1>0, <1>5 DEF AttachUlp, Goto
<1>6. CASE StartUlp
  BY <1>0, <1>6 DEF StartUlp, Frozen, Goto, Fault, NoFault
<1>7. CASE StartCycle
  BY <1>0, <1>7 DEF StartCycle, Resumes
<1>8. CASE BringUpDone
  BY <1>0, <1>8 DEF BringUpDone, Covered
<1>9. CASE BringUpWaits
  BY <1>0, <1>9 DEF BringUpWaits, Goto
<1>10. CASE RestartModem
  BY <1>0, <1>10 DEF RestartModem, Goto
<1>11. CASE Snapshot
  BY <1>0, <1>11 DEF Snapshot, Goto
<1>12. CASE PublishOk
  BY <1>0, <1>12 DEF PublishOk, Goto
<1>13. CASE PublishFails
  BY <1>0, <1>13 DEF PublishFails
<1>14. CASE RecheckBattery
  <2>1. batt_mv' \in Volts \cup {0} /\ faults' \in 0 .. MaxFaults
    BY <1>0, <1>14, ReadTyped DEF RecheckBattery
  <2>2. QED
    BY <1>0, <1>14, <2>1, ReadEffect DEF RecheckBattery, EnterGuard
<1>15. CASE PrepareSleep
  BY <1>15, TurnTyped DEF PrepareSleep
<1>16. CASE NormalSleep
  BY <1>0, <1>16 DEF NormalSleep, DeepSleep, KeepPeriph
<1>17. CASE CutUlp
  BY <1>0, <1>17 DEF CutUlp, Goto, StopUlp, Halt, Frozen
<1>18. CASE CutRails
  BY <1>18, TurnTyped DEF CutRails
<1>19. CASE CutI2c
  BY <1>0, <1>19 DEF CutI2c, Goto
<1>20. CASE PowerCutSleep
  BY <1>0, <1>20 DEF PowerCutSleep, DeepSleep, Halt, Frozen
<1>21. CASE Wake
  BY <1>0, <1>21 DEF Wake, Goto
<1>22. CASE UlpCycle
  BY <1>0, <1>22 DEF UlpCycle
<1>23. CASE Reset
  BY <1>0, <1>23 DEF Reset, Halt, Frozen
<1>24. CASE World
  BY <1>0, <1>24 DEF World
<1>25. CASE UNCHANGED vars
  BY <1>0, <1>25
<1>26. QED
  BY <1>1, <1>2, <1>3, <1>4, <1>5, <1>6, <1>7, <1>8, <1>9, <1>10, <1>11,
     <1>12, <1>13, <1>14, <1>15, <1>16, <1>17, <1>18, <1>19, <1>20, <1>21,
     <1>22, <1>23, <1>24, <1>25 DEF Next, Cpu

-----------------------------------------------------------------------------
(* The inductive invariant.                                                *)

StateInv ==
  /\ FlagsInv
  /\ ModemInv
  /\ UlpInv
  /\ RailsInv
  /\ FaultsInv
  /\ CutInv
  /\ ProtectedIsOff
  /\ SamplingIsOn
  /\ UlpPowered

\* The boot state satisfies the rest of the invariant.
LEMMA InitState == Init => StateInv
BY DEF Init, StateInv, FlagsInv, ModemInv, UlpInv, RailsInv, FaultsInv, CutInv, Warm,
       Resumes, Before, Normal, Started, Cut, ProtectedIsOff, SamplingIsOn,
       UlpPowered

\* Every step of app_main(), of the coprocessor and of the world keeps the
\* rest of the invariant.
LEMMA StateStep == IInv /\ [Next]_vars => StateInv'
<1> SUFFICES ASSUME IInv, [Next]_vars PROVE StateInv'
  OBVIOUS
<1>0. TypeOK /\ StateInv
  BY DEF IInv, StateInv
<1> USE VoltsAssumption, ThresholdAssumption
    DEF TypeOK, StateInv, FlagsInv, ModemInv, UlpInv, RailsInv, FaultsInv, CutInv, Warm,
        Resumes, Before, Normal, Started, Cut, ProtectedIsOff, SamplingIsOn,
        UlpPowered, PCs, Rails
<1>1. CASE Boot
  BY <1>0, <1>1 DEF Boot, Goto
<1>2. CASE PmuInit
  BY <1>0, <1>2 DEF PmuInit, Goto, Fault, NoFault
<1>3. CASE CheckBattery
  <2>1. /\ rails' \subseteq Rails /\ missed' \subseteq Rails
        /\ modem' \in {"off", "cold", "ready"}
        /\ Fed => Fed'
        /\ rails \subseteq rails' /\ missed \ rails' \subseteq missed'
        /\ Fed /\ modem = "ready" => modem' = "ready"
        /\ batt_mv' > 0 => pmu_ready
    BY <1>0, <1>3, ReadEffect DEF CheckBattery
  <2>2. faults' = 0 => faults = 0 /\ missed' = {}
    BY <1>0, <1>3, ReadFaults, BoundsAssumption DEF CheckBattery
  <2>3. CASE batt_mv' > 0 /\ batt_mv' < StartThreshold
    BY <1>0, <1>3, <2>1, <2>3, <2>2 DEF CheckBattery, EnterGuard, Fed
  <2>4. CASE ~(batt_mv' > 0 /\ batt_mv' < StartThreshold)
    <3>1. pc = "check" /\ pc' = "power" /\ rtc_guard' = FALSE /\ rtc_power_cut' = FALSE
          /\ UNCHANGED <<boot, ram, rail, rtc_periph, coproc>>
      BY <1>3, <2>4 DEF CheckBattery, LeaveGuard
    <3>2. FlagsInv' /\ UlpInv' /\ CutInv' /\ ProtectedIsOff' /\ SamplingIsOn'
      BY <1>0, <3>1
    <3>3. RailsInv' /\ FaultsInv'
      BY <1>0, <2>2, <3>1 DEF Earlier
    <3>4. ModemInv' /\ UlpPowered'
      BY <1>0, <2>1, <3>1 DEF Fed
    <3>5. QED
      BY <3>2, <3>3, <3>4
  <2>5. QED
    BY <2>3, <2>4
<1>4. CASE PreparePower
  <2>1. SwitchRails("power", "ulp", TRUE)
    BY <1>4 DEF PreparePower
  <2> HIDE DEF StateInv, FlagsInv, ModemInv, UlpInv, RailsInv, FaultsInv, CutInv, Warm
  <2>2. /\ Fed => Fed'
        /\ pc = "power" /\ pc' \in {"power", "ulp"}
        /\ pc' = "power" => pmu_ready
        /\ pc' = "ulp" /\ (pmu_ready \/ rail = "DC3") => rail' = "DC3"
        /\ rails \subseteq rails' /\ missed \ rails' \subseteq missed'
        /\ Fed /\ modem = "ready" => modem' = "ready"
        /\ Earlier[rail] \ rails \subseteq missed =>
             IF pc' = "ulp" THEN Rails \ rails' \subseteq missed'
                         ELSE Earlier[rail'] \ rails' \subseteq missed'
    BY <1>0, <2>1, TurnEffect DEF TypeOK
  <2>3. UNCHANGED <<plan, boot, ram, rtc, batt_mv, rtc_periph, coproc, env, resets>>
    BY <2>1 DEF SwitchRails
  <2> USE DEF StateInv, FlagsInv, ModemInv, UlpInv, RailsInv, FaultsInv, CutInv, Warm, Fed
  <2>4. FlagsInv' /\ UlpInv' /\ FaultsInv'
    <3>1. FlagsInv' /\ UlpInv'
      BY <1>0, <2>2, <2>3
    <3>2. faults \in Nat
      BY <1>0, BoundsAssumption
    <3>3. faults' = 0 => faults = 0 /\ (pmu_ready /\ missed = {} => missed' = {})
      <4> HIDE DEF StateInv, FlagsInv, ModemInv, UlpInv, RailsInv, CutInv, Warm, TypeOK
      <4>1. QED
        BY <2>1, <3>2, TurnFaults
    <3>4. FaultsInv'
      BY <1>0, <2>2, <2>3, <3>3
    <3>5. QED
      BY <3>1, <3>4
  <2>5. ModemInv' /\ UlpPowered'
    BY <1>0, <2>2, <2>3
  <2>6. RailsInv' /\ CutInv'
    BY <1>0, <2>2, <2>3
  <2>7. ProtectedIsOff' /\ SamplingIsOn'
    BY <1>0, <2>2, <2>3
  <2>8. QED
    BY <2>4, <2>5, <2>6, <2>7
<1>5. CASE AttachUlp
  BY <1>0, <1>5 DEF AttachUlp, Goto
<1>6. CASE StartUlp
  BY <1>0, <1>6 DEF StartUlp, Frozen, Goto, Fault, NoFault
<1>7. CASE StartCycle
  BY <1>0, <1>7 DEF StartCycle
<1>8. CASE BringUpDone
  BY <1>0, <1>8 DEF BringUpDone, Covered
<1>9. CASE BringUpWaits
  BY <1>0, <1>9 DEF BringUpWaits, Goto
<1>10. CASE RestartModem
  BY <1>0, <1>10 DEF RestartModem, Goto
<1>11. CASE Snapshot
  BY <1>0, <1>11 DEF Snapshot, Goto
<1>12. CASE PublishOk
  BY <1>0, <1>12 DEF PublishOk, Goto
<1>13. CASE PublishFails
  BY <1>0, <1>13 DEF PublishFails
<1>14. CASE RecheckBattery
  <2>1. /\ rails' \subseteq Rails /\ missed' \subseteq Rails
        /\ modem' \in {"off", "cold", "ready"}
        /\ Fed => Fed'
        /\ rails \subseteq rails' /\ missed \ rails' \subseteq missed'
        /\ Fed /\ modem = "ready" => modem' = "ready"
        /\ batt_mv' > 0 => pmu_ready
    BY <1>0, <1>14, ReadEffect DEF RecheckBattery
  <2>2. faults' = 0 => faults = 0 /\ missed' = {}
    BY <1>0, <1>14, ReadFaults, BoundsAssumption DEF RecheckBattery
  <2>3. CASE batt_mv' > 0 /\ batt_mv' < EnterMv
    BY <1>0, <1>14, <2>1, <2>3, <2>2 DEF RecheckBattery, EnterGuard, Fed
  <2>4. CASE ~(batt_mv' > 0 /\ batt_mv' < EnterMv)
    BY <1>0, <1>14, <2>1, <2>4, <2>2 DEF RecheckBattery, LeaveGuard, Fed
  <2>5. QED
    BY <2>3, <2>4
<1>15. CASE PrepareSleep
  <2>1. SwitchRails("prepare", "sleep", TRUE)
    BY <1>15 DEF PrepareSleep
  <2> HIDE DEF StateInv, FlagsInv, ModemInv, UlpInv, RailsInv, FaultsInv, CutInv, Warm
  <2>2. /\ Fed => Fed'
        /\ pc = "prepare" /\ pc' \in {"prepare", "sleep"}
        /\ pc' = "prepare" => pmu_ready
        /\ pc' = "sleep" /\ (pmu_ready \/ rail = "DC3") => rail' = "DC3"
        /\ rails \subseteq rails' /\ missed \ rails' \subseteq missed'
        /\ Fed /\ modem = "ready" => modem' = "ready"
        /\ Earlier[rail] \ rails \subseteq missed =>
             IF pc' = "sleep" THEN Rails \ rails' \subseteq missed'
                         ELSE Earlier[rail'] \ rails' \subseteq missed'
    BY <1>0, <2>1, TurnEffect DEF TypeOK
  <2>3. UNCHANGED <<plan, boot, ram, rtc, batt_mv, rtc_periph, coproc, env, resets>>
    BY <2>1 DEF SwitchRails
  <2> USE DEF StateInv, FlagsInv, ModemInv, UlpInv, RailsInv, FaultsInv, CutInv, Warm, Fed
  <2>4. FlagsInv' /\ UlpInv' /\ FaultsInv'
    <3>1. FlagsInv' /\ UlpInv'
      BY <1>0, <2>2, <2>3
    <3>2. faults \in Nat
      BY <1>0, BoundsAssumption
    <3>3. faults' = 0 => faults = 0 /\ (pmu_ready /\ missed = {} => missed' = {})
      <4> HIDE DEF StateInv, FlagsInv, ModemInv, UlpInv, RailsInv, CutInv, Warm, TypeOK
      <4>1. QED
        BY <2>1, <3>2, TurnFaults
    <3>4. FaultsInv'
      BY <1>0, <2>2, <2>3, <3>3
    <3>5. QED
      BY <3>1, <3>4
  <2>5. ModemInv' /\ UlpPowered'
    BY <1>0, <2>2, <2>3
  <2>6. RailsInv' /\ CutInv'
    BY <1>0, <2>2, <2>3
  <2>7. ProtectedIsOff' /\ SamplingIsOn'
    BY <1>0, <2>2, <2>3
  <2>8. QED
    BY <2>4, <2>5, <2>6, <2>7
<1>16. CASE NormalSleep
  BY <1>0, <1>16 DEF NormalSleep, DeepSleep, KeepPeriph
<1>17. CASE CutUlp
  BY <1>0, <1>17 DEF CutUlp, Goto, StopUlp, Halt, Frozen, Earlier
<1>18. CASE CutRails
  <2>1. SwitchRails("cut_rails", "cut_i2c", FALSE)
    BY <1>18 DEF CutRails
  <2> HIDE DEF StateInv, FlagsInv, ModemInv, UlpInv, RailsInv, FaultsInv, CutInv, Warm
  <2>2. /\ Fed => Fed'
        /\ pc = "cut_rails" /\ pc' \in {"cut_rails", "cut_i2c"}
        /\ pc' = "cut_rails" => pmu_ready
        /\ pc' = "cut_i2c" /\ (pmu_ready \/ rail = "DC3") => rail' = "DC3"
        /\ Earlier[rail] \cap rails \subseteq missed =>
             IF pc' = "cut_i2c" THEN rails' \subseteq missed'
                         ELSE Earlier[rail'] \cap rails' \subseteq missed'
    BY <1>0, <2>1, TurnEffect DEF TypeOK
  <2>3. UNCHANGED <<plan, boot, ram, rtc, batt_mv, rtc_periph, coproc, env, resets>>
    BY <2>1 DEF SwitchRails
  <2> USE DEF StateInv, FlagsInv, ModemInv, UlpInv, RailsInv, FaultsInv, CutInv, Warm, Fed
  <2>4. FlagsInv' /\ UlpInv' /\ FaultsInv'
    <3>1. FlagsInv' /\ UlpInv'
      BY <1>0, <2>2, <2>3
    <3>2. faults \in Nat
      BY <1>0, BoundsAssumption
    <3>3. faults' = 0 => faults = 0 /\ (pmu_ready /\ missed = {} => missed' = {})
      <4> HIDE DEF StateInv, FlagsInv, ModemInv, UlpInv, RailsInv, CutInv, Warm, TypeOK
      <4>1. QED
        BY <2>1, <3>2, TurnFaults
    <3>4. FaultsInv'
      BY <1>0, <2>2, <2>3, <3>3
    <3>5. QED
      BY <3>1, <3>4
  <2>5. ModemInv' /\ UlpPowered'
    BY <1>0, <2>2, <2>3
  <2>6. RailsInv' /\ CutInv'
    BY <1>0, <2>2, <2>3
  <2>7. ProtectedIsOff' /\ SamplingIsOn'
    BY <1>0, <2>2, <2>3
  <2>8. QED
    BY <2>4, <2>5, <2>6, <2>7
<1>19. CASE CutI2c
  BY <1>0, <1>19 DEF CutI2c, Goto
<1>20. CASE PowerCutSleep
  BY <1>0, <1>20 DEF PowerCutSleep, DeepSleep, Halt, Frozen
<1>21. CASE Wake
  BY <1>0, <1>21 DEF Wake, Goto
<1>22. CASE UlpCycle
  BY <1>0, <1>22 DEF UlpCycle
<1>23. CASE Reset
  <2>1. /\ pc' = "boot" /\ reset_reason' = "other" /\ rail' = "DC3"
        /\ rtc_power_cut' = FALSE /\ rtc_guard' = FALSE
        /\ UNCHANGED <<pmu, faults, from_wakeup, from_power_cut_sleep>>
    BY <1>23 DEF Reset
  <2>2. ulp_failed' = ulp_failed /\ reported' = reported
        /\ (ulp' = "halted" \/ ulp' = ulp) /\ (ulp' = "running" => ring' = ring)
    BY <1>23 DEF Reset, Halt
  <2>3. FlagsInv' /\ UlpInv' /\ ProtectedIsOff' /\ SamplingIsOn'
    BY <1>0, <2>1, <2>2
  <2>4. ModemInv' /\ RailsInv' /\ FaultsInv' /\ CutInv' /\ UlpPowered'
    BY <1>0, <2>1, <2>2
  <2>5. QED
    BY <2>3, <2>4
<1>24. CASE World
  BY <1>0, <1>24 DEF World
<1>25. CASE UNCHANGED vars
  BY <1>0, <1>25
<1>26. QED
  BY <1>1, <1>2, <1>3, <1>4, <1>5, <1>6, <1>7, <1>8, <1>9, <1>10, <1>11,
     <1>12, <1>13, <1>14, <1>15, <1>16, <1>17, <1>18, <1>19, <1>20, <1>21,
     <1>22, <1>23, <1>24, <1>25 DEF Next, Cpu

\* The invariant holds in every reachable state.
THEOREM Invariant == Spec => []IInv
<1>1. Init => IInv
  BY InitTyped, InitState DEF IInv, StateInv
<1>2. IInv /\ [Next]_vars => IInv'
  <2> SUFFICES ASSUME IInv, [Next]_vars PROVE IInv'
    OBVIOUS
  <2>1. TypeOK'
    <3>1. FlagsTyped' /\ DataTyped'
      BY FlagsStep, DataStep DEF IInv
    <3>2. QED
      BY <3>1 DEF FlagsTyped, DataTyped, TypeOK
  <2>2. StateInv'
    BY StateStep
  <2>3. QED
    BY <2>1, <2>2 DEF IInv, StateInv
<1>3. QED
  BY <1>1, <1>2, PTL DEF Spec

-----------------------------------------------------------------------------
(* What follows from it.                                                   *)

\* Every variable of app_main() and of the hardware keeps its type.
THEOREM TypeCorrect == Spec => []TypeOK
<1>1. IInv => TypeOK
  BY DEF IInv
<1>2. QED
  BY <1>1, Invariant, PTL

\* However the guard is entered, its sleep has the coprocessor stopped, and a
\* rail is on only if the order to switch it off was lost.
THEOREM ProtectedCorrect == Spec => []ProtectedIsOff
<1>1. IInv => ProtectedIsOff
  BY DEF IInv
<1>2. QED
  BY <1>1, Invariant, PTL

\* As long as no exchange with the PMU and no call of the ULP driver fails, no
\* order is missed: what the theorems about power except does not arise.
THEOREM Faultless == Spec => [](faults = 0 => missed = {} /\ ~ulp_failed)
<1>1. IInv => (faults = 0 => missed = {} /\ ~ulp_failed)
  BY DEF IInv, FaultsInv
<1>2. QED
  BY <1>1, Invariant, PTL

\* A normal sleep keeps the wind sampled: it lacks a rail only if the order to
\* switch it on was lost, and the coprocessor only if its start failed.
THEOREM SamplingCorrect == Spec => []SamplingIsOn
<1>1. IInv => SamplingIsOn
  BY DEF IInv
<1>2. QED
  BY <1>1, Invariant, PTL

\* A coprocessor that runs lacks the power of its anemometer or the level
\* conversion only if the order to switch them on was lost or the PMU did not
\* answer, in every state between two calls of app_main().
THEOREM PoweredCorrect == Spec => []UlpPowered
<1>1. IInv => UlpPowered
  BY DEF IInv
<1>2. QED
  BY <1>1, Invariant, PTL

\* The wind that is published is live: a wake attaches only to a coprocessor that
\* runs, and reads an old ring only if init() fails in the same boot.
THEOREM WindCorrect == Spec => []WindIsLive
<1>1. IInv => AttachedIsAlive
  BY DEF IInv, UlpInv, Warm, AttachedIsAlive
<1>2. IInv => SnapshotIsLive
  BY DEF IInv, TypeOK, UlpInv, Started, SnapshotIsLive
<1>3. IInv => WindIsLive
  BY <1>1, <1>2 DEF WindIsLive
<1>4. QED
  BY <1>3, Invariant, PTL

\* The optimistic publish finds a modem that was brought up and kept power.
THEOREM SessionCorrect == Spec => []FastHasSession
<1>1. IInv => FastHasSession
  BY DEF IInv, ModemInv, FastHasSession
<1>2. QED
  BY <1>1, Invariant, PTL

-----------------------------------------------------------------------------
(* app_main() implements the latch.                                        *)

\* A step that keeps the CPU awake and touches neither the guard nor the
\* battery reading is invisible to the latch.
LEMMA GuardStep == IInv /\ [Next]_vars => [Guard!Next]_(Guard!vars)
<1> SUFFICES ASSUME IInv, [Next]_vars PROVE [Guard!Next]_(Guard!vars)
  OBVIOUS
<1> USE DEF Guard!vars
<1>0. TypeOK /\ FlagsInv
  BY DEF IInv
<1>1. CASE CheckBattery
  <2>1. batt_mv' \in Nat
    <3>1. batt_mv' \in Volts \cup {0}
      BY <1>0, <1>1, ReadTyped DEF CheckBattery
    <3>2. QED
      BY <3>1, VoltsAssumption
  <2>2. StartThreshold = Guard!Threshold
    BY <1>0, <1>1 DEF CheckBattery, FlagsInv, StartThreshold, Guard!Threshold
  <2>3. rtc_guard' = (batt_mv' > 0 /\ batt_mv' < StartThreshold)
    BY <1>1 DEF CheckBattery, EnterGuard, LeaveGuard
  <2>4. pc # "asleep" /\ pc' # "asleep"
    BY <1>1 DEF CheckBattery, EnterGuard
  <2>5. Guard!Measure
    BY <2>1, <2>2, <2>3, <2>4 DEF Guard!Measure
  <2>6. QED
    BY <2>5 DEF Guard!Next
<1>2. CASE RecheckBattery
  <2>1. batt_mv' \in Nat
    <3>1. batt_mv' \in Volts \cup {0}
      BY <1>0, <1>2, ReadTyped DEF RecheckBattery
    <3>2. QED
      BY <3>1, VoltsAssumption
  <2>2. ~rtc_guard /\ Guard!Threshold = EnterMv
    BY <1>0, <1>2 DEF RecheckBattery, FlagsInv, Normal, Started, Guard!Threshold
  <2>3. rtc_guard' = (batt_mv' > 0 /\ batt_mv' < EnterMv)
    <3>1. rtc_guard = FALSE
      BY <1>0, <2>2 DEF TypeOK
    <3>2. CASE batt_mv' > 0 /\ batt_mv' < EnterMv
      BY <1>2, <3>2 DEF RecheckBattery, EnterGuard
    <3>3. CASE ~(batt_mv' > 0 /\ batt_mv' < EnterMv)
      <4>1. rtc_guard' = FALSE
        BY <1>2, <3>1, <3>3 DEF RecheckBattery
      <4>2. QED
        BY <3>3, <4>1
    <3>4. QED
      BY <3>2, <3>3
  <2>4. pc # "asleep" /\ pc' # "asleep"
    BY <1>2 DEF RecheckBattery, EnterGuard
  <2>5. Guard!Measure
    BY <2>1, <2>2, <2>3, <2>4 DEF Guard!Measure
  <2>6. QED
    BY <2>5 DEF Guard!Next
<1>3. CASE NormalSleep \/ PowerCutSleep
  <2>1. Guard!Sleep
    BY <1>3 DEF NormalSleep, PowerCutSleep, DeepSleep, Guard!Sleep
  <2>2. QED
    BY <2>1 DEF Guard!Next
<1>4. CASE Wake
  <2>1. Guard!Wake
    BY <1>4 DEF Wake, Goto, Guard!Wake
  <2>2. QED
    BY <2>1 DEF Guard!Next
<1>5. CASE Reset
  <2>1. Guard!Reset
    BY <1>5 DEF Reset, Guard!Reset
  <2>2. QED
    BY <2>1 DEF Guard!Next
<1>6. CASE UNCHANGED <<pc, rtc_guard, batt_mv>>
  BY <1>6
<1>7. CASE pc # "asleep" /\ pc' # "asleep" /\ UNCHANGED <<rtc_guard, batt_mv>>
  BY <1>7
<1>8. CASE UlpCycle \/ World \/ UNCHANGED vars
  BY <1>6, <1>8 DEF UlpCycle, World
<1>9. CASE Cpu /\ ~CheckBattery /\ ~RecheckBattery /\ ~NormalSleep
           /\ ~PowerCutSleep /\ ~Wake
  <2>1. pc # "asleep" /\ pc' # "asleep"
    BY <1>9 DEF Cpu, Goto, Boot, PmuInit, PreparePower, AttachUlp, StartUlp,
       StartCycle, BringUpDone, BringUpWaits, RestartModem, Snapshot,
       PublishOk, PublishFails, PrepareSleep, CutUlp, CutRails, CutI2c,
       SwitchRails
  <2>2. UNCHANGED <<rtc_guard, batt_mv>>
    BY <1>9 DEF Cpu, Boot, PmuInit, PreparePower, AttachUlp, StartUlp,
       StartCycle, BringUpDone, BringUpWaits, RestartModem, Snapshot,
       PublishOk, PublishFails, PrepareSleep, CutUlp, CutRails, CutI2c,
       SwitchRails
  <2>3. QED
    BY <1>7, <2>1, <2>2
<1>10. QED
  BY <1>1, <1>2, <1>3, <1>4, <1>5, <1>8, <1>9 DEF Next, Cpu

\* The power cycle implements the two-threshold latch, through every sleep,
\* wake and reset.
THEOREM Refinement == Spec => ImplementsGuard
<1>1. Init => Guard!Init
  BY DEF Init, Guard!Init
<1>2. IInv /\ [Next]_vars => [Guard!Next]_(Guard!vars)
  BY GuardStep
<1>3. QED
  BY <1>1, <1>2, Invariant, PTL DEF Spec, ImplementsGuard, Guard!Spec

=============================================================================
