----------------------------- MODULE PowerCycle -----------------------------
(***************************************************************************)
(* One boot after another of app_main() (src/main.cpp): the PMU rails, the *)
(* two flags in RTC memory, the ULP coprocessor that outlives the main     *)
(* CPU's sleep, and the low-battery guard.  One action per call that       *)
(* changes state, in the order of the code, so that a reset may strike     *)
(* between any two of them.  The modem is seen from outside: it has power, *)
(* and it has or has not been brought up.                                  *)
(*                                                                         *)
(* The environment changes the battery voltage and the radio coverage, the *)
(* PMU may fail to answer, each write to it may be lost without app_main() *)
(* noticing, ULP calls may return an error, the chip may be reset.  Two    *)
(* history variables remember which of this has happened: no guard reads   *)
(* them, the properties do.                                                *)
(***************************************************************************)
EXTENDS Integers

CONSTANTS
  EnterMv, RecoverMv,   \* LOW_BATTERY_ENTER_MV, LOW_BATTERY_RECOVER_MV
  Volts,                \* the battery voltages the environment may set
  MaxFaults,            \* bound: exchanges with the PMU and ULP calls that fail
  MaxResets             \* bound: resets other than a deep-sleep wake

ASSUME ThresholdAssumption ==
  /\ EnterMv \in Nat /\ RecoverMv \in Nat
  /\ 0 < EnterMv /\ EnterMv <= RecoverMv
ASSUME VoltsAssumption == Volts \subseteq Nat \ {0}
ASSUME BoundsAssumption == MaxFaults \in Nat /\ MaxResets \in Nat

VARIABLES
  pc,            \* the next call of app_main()
  plan,          \* run_modem_network_cycle(): how far recovery has got
  reset_reason,  \* esp_reset_reason(): "deepsleep" or "other"
  from_wakeup, from_power_cut_sleep, from_low_battery_guard,
  pmu_ready, g_initialized,          \* RAM, lost in deep sleep
  rtc_power_cut, rtc_guard,          \* RTC_DATA_ATTR, kept in deep sleep
  batt_mv,       \* what read_battery_mv() last returned
  rails,         \* outputs the PMU has switched on
  rail,          \* the one a function of the PMU switches next
  missed,        \* history: the last order to switch these had no effect
  rtc_periph,    \* RTC_PERIPH kept on in deep sleep
  ulp,           \* "halted" or "running"
  reported,      \* ulp_sdi_report_sequence # 0
  ring,          \* samples in the ring: "empty", "live", or "old" ones
  ulp_failed,    \* history: the last ulp_sdi_wind::init() returned false
  modem,         \* "off", "cold" (powered), "ready" (brought up)
  mv, net,       \* environment: battery voltage, radio coverage
  faults, resets

boot == <<reset_reason, from_wakeup, from_power_cut_sleep, from_low_battery_guard>>
cpu == <<pc, plan, boot>>
ram == <<pmu_ready, g_initialized>>
rtc == <<rtc_power_cut, rtc_guard>>
pmu == <<rails, modem, missed>>
power == <<pmu, rail, rtc_periph>>
coproc == <<ulp, reported, ring, ulp_failed>>
env == <<mv, net>>
vars == <<cpu, ram, rtc, batt_mv, power, coproc, env, faults, resets>>

Rails == {"DC3", "DC5", "BLDO1"}     \* modem, anemometer, level conversion

PCs == {"boot", "pmu", "check", "power", "ulp", "cycle", "bringup", "restart",
        "snapshot", "publish", "recheck", "prepare", "sleep",
        "cut_ulp", "cut_rails", "cut_i2c", "cut_sleep", "asleep"}

TypeOK ==
  /\ pc \in PCs
  /\ plan \in {"fast", "full", "recover", "last"}
  /\ reset_reason \in {"deepsleep", "other"}
  /\ from_wakeup \in BOOLEAN
  /\ from_power_cut_sleep \in BOOLEAN
  /\ from_low_battery_guard \in BOOLEAN
  /\ pmu_ready \in BOOLEAN
  /\ g_initialized \in BOOLEAN
  /\ rtc_power_cut \in BOOLEAN
  /\ rtc_guard \in BOOLEAN
  /\ batt_mv \in Volts \cup {0}
  /\ rails \subseteq Rails
  /\ rail \in Rails
  /\ missed \subseteq Rails
  /\ rtc_periph \in BOOLEAN
  /\ ulp \in {"halted", "running"}
  /\ reported \in BOOLEAN
  /\ ring \in {"empty", "live", "old"}
  /\ ulp_failed \in BOOLEAN
  /\ modem \in {"off", "cold", "ready"}
  /\ mv \in Volts
  /\ net \in BOOLEAN
  /\ faults \in 0 .. MaxFaults
  /\ resets \in 0 .. MaxResets

\* Power-on: RTC memory is cleared by the boot loader except for the ULP's
\* part, the PMU comes up with whichever outputs it was programmed for.
Init ==
  /\ pc = "boot"
  /\ plan = "full"
  /\ reset_reason = "other"
  /\ from_wakeup = FALSE
  /\ from_power_cut_sleep = FALSE
  /\ from_low_battery_guard = FALSE
  /\ pmu_ready = FALSE
  /\ g_initialized = FALSE
  /\ rtc_power_cut = FALSE
  /\ rtc_guard = FALSE
  /\ batt_mv = 0
  /\ rails \in SUBSET Rails
  /\ rail = "DC3"
  /\ missed = {}
  /\ rtc_periph = TRUE
  /\ ulp = "halted"
  /\ reported \in BOOLEAN
  /\ ring = "old"
  /\ ulp_failed = FALSE
  /\ modem = IF "DC3" \in rails THEN "cold" ELSE "off"
  /\ mv \in Volts
  /\ net \in BOOLEAN
  /\ faults = 0
  /\ resets = 0

-----------------------------------------------------------------------------
(* Steps of app_main().                                                    *)

Goto(from, to) == pc = from /\ pc' = to

\* A fault is one more of the MaxFaults that may happen.
Fault == faults < MaxFaults /\ faults' = faults + 1
NoFault == faults' = faults

\* An order to the PMU to switch r on or off, which is carried out (ok) or
\* lost on the bus.  DC3 is what powers the modem.  A rail that is on has its
\* voltage: the voltage settings are left out.
Switch(r, on, ok) ==
  /\ rails' = IF ~ok THEN rails ELSE IF on THEN rails \cup {r} ELSE rails \ {r}
  /\ missed' = IF ok THEN missed \ {r} ELSE missed \cup {r}
  /\ modem' = IF "DC3" \notin rails' THEN "off" ELSE IF modem = "off" THEN "cold" ELSE modem

\* The rails before r in the order DC3, DC5, BLDO1 of the functions below.
Earlier == [DC3 |-> {}, DC5 |-> {"DC3"}, BLDO1 |-> {"DC3", "DC5"}]
After == [DC3 |-> "DC5", DC5 |-> "BLDO1", BLDO1 |-> "DC3"]

\* A function that switches every rail on or off: one after the other, each
\* result ignored, and none if pmu_init() has failed.
SwitchRails(from, to, on) ==
  /\ pc = from
  /\ \/ /\ pmu_ready
        /\ \E ok \in BOOLEAN : Switch(rail, on, ok) /\ (IF ok THEN NoFault ELSE Fault)
        /\ rail' = After[rail]
        /\ pc' = IF rail = "BLDO1" THEN to ELSE from
     \/ /\ ~pmu_ready
        /\ missed' = Rails
        /\ pc' = to
        /\ NoFault
        /\ UNCHANGED <<rails, modem, rail>>
  /\ UNCHANGED <<plan, boot, ram, rtc, batt_mv, rtc_periph, coproc, env, resets>>

\* Halting freezes the ring where it is.
Frozen == IF ring = "live" THEN "old" ELSE ring

Halt ==
  /\ ulp' = "halted"
  /\ ring' = Frozen
  /\ UNCHANGED <<reported, ulp_failed>>

\* app_main() reads the reset reason and the RTC flags; RAM starts afresh.
Boot ==
  /\ Goto("boot", "pmu")
  /\ from_wakeup' = (reset_reason = "deepsleep")
  /\ from_power_cut_sleep' = (reset_reason = "deepsleep" /\ rtc_power_cut)
  /\ from_low_battery_guard' = (reset_reason = "deepsleep" /\ rtc_guard)
  /\ pmu_ready' = FALSE
  /\ g_initialized' = FALSE
  /\ UNCHANGED <<plan, reset_reason, rtc, batt_mv, power, coproc, env, faults, resets>>

\* i2c_bus_init() and pmu_init(): either may fail, the boot goes on.
PmuInit ==
  /\ Goto("pmu", "check")
  /\ \/ pmu_ready' = TRUE /\ NoFault
     \/ pmu_ready' = FALSE /\ Fault
  /\ UNCHANGED <<plan, boot, g_initialized, rtc, batt_mv, power, coproc, env, resets>>

\* Mutants: the ADC keeps an old value; another rail is switched on.
ReadBattery_Stale ==
  /\ IF pmu_ready THEN Switch("BLDO1", TRUE, TRUE) ELSE UNCHANGED pmu
  /\ batt_mv' = batt_mv /\ NoFault
ReadBattery_Bldo2 ==
  /\ IF pmu_ready THEN Switch("BLDO2", TRUE, TRUE) ELSE UNCHANGED pmu
  /\ batt_mv' = (IF pmu_ready THEN mv ELSE 0) /\ NoFault
\* read_battery_mv(): 0 without a PMU or without a battery detected, and the
\* level conversion is switched on for the measurement; the order may be lost
\* and the battery not be read.
ReadBattery ==
  \/ /\ pmu_ready
     /\ batt_mv' \in {mv, 0}
     /\ \E ok \in BOOLEAN :
          /\ Switch("BLDO1", TRUE, ok)
          /\ IF ok /\ batt_mv' = mv THEN NoFault ELSE Fault
  \/ /\ ~pmu_ready
     /\ batt_mv' = 0
     /\ NoFault
     /\ UNCHANGED pmu

\* enter_low_battery_sleep() and enter_power_cut_sleep() set both flags first.
EnterGuard ==
  /\ rtc_guard' = TRUE
  /\ rtc_power_cut' = TRUE
  /\ pc' = "cut_ulp"

\* Mutants: the wake from the guard is judged by the lower threshold, or
\* leaves it only above the higher one.
StartThreshold_Low == EnterMv
StartThreshold_Above == IF from_low_battery_guard THEN RecoverMv + 1 ELSE EnterMv
StartThreshold == IF from_low_battery_guard THEN RecoverMv ELSE EnterMv
LeaveGuard == rtc_guard' = FALSE /\ rtc_power_cut' = FALSE

CheckBattery ==
  /\ pc = "check"
  /\ ReadBattery
  /\ IF batt_mv' > 0 /\ batt_mv' < StartThreshold
       THEN EnterGuard
       ELSE LeaveGuard /\ pc' = "power"
  /\ UNCHANGED <<plan, boot, ram, rail, rtc_periph, coproc, env, resets>>

\* pmu_prepare_modem_power()
PreparePower == SwitchRails("power", "ulp", TRUE)

\* Mutant: every deep-sleep wake counts as a fast resume.
Resumes_AfterCut == from_wakeup
Resumes == from_wakeup /\ ~from_power_cut_sleep

\* start_or_attach_ulp() on a wake that finds the ULP has reported ...
AttachUlp ==
  /\ Goto("ulp", "cycle")
  /\ Resumes /\ reported
  /\ g_initialized' = TRUE
  /\ UNCHANGED <<plan, boot, pmu_ready, rtc, batt_mv, power, coproc, env, faults, resets>>

\* ... and on any other boot: ulp_sdi_wind::init() loads the program, which
\* clears its memory, and starts it.  An attach that found no report has
\* already set g_initialized, and a call of init() that fails leaves it so:
\* the coprocessor is reset by then, its memory is cleared or not.
StartUlp ==
  /\ Goto("ulp", "cycle")
  /\ ~(Resumes /\ reported)
  /\ reported' = FALSE
  /\ \/ /\ ulp' = "running" /\ ring' = "empty" /\ ulp_failed' = FALSE
        /\ g_initialized' = TRUE
        /\ NoFault
     \/ /\ ulp' = "halted" /\ ring' \in {Frozen, "empty"} /\ ulp_failed' = TRUE
        /\ g_initialized' = Resumes
        /\ Fault
  /\ UNCHANGED <<plan, boot, pmu_ready, rtc, batt_mv, power, env, resets>>

-----------------------------------------------------------------------------
(* run_modem_network_cycle().                                              *)

\* A wake publishes at once with the session it finds, every other boot
\* brings the modem up first.
StartCycle ==
  /\ pc = "cycle"
  /\ IF Resumes THEN plan' = "fast" /\ pc' = "snapshot"
                ELSE plan' = "full" /\ pc' = "restart"
  /\ UNCHANGED <<boot, ram, rtc, batt_mv, power, coproc, env, faults, resets>>

\* modem_basic_init() returns only when the modem answers and has a network.
Covered == net /\ modem # "off"

BringUpDone ==
  /\ pc = "bringup"
  /\ Covered
  /\ pc' = IF plan = "full" THEN "snapshot" ELSE "publish"
  /\ modem' = "ready"
  /\ UNCHANGED <<plan, boot, ram, rtc, batt_mv, rails, rail, missed, rtc_periph,
                 coproc, env, faults, resets>>

\* Until then it waits, and power-cycles the modem every three minutes.
BringUpWaits ==
  /\ Goto("bringup", "restart")
  /\ ~Covered
  /\ UNCHANGED <<plan, boot, ram, rtc, batt_mv, power, coproc, env, faults, resets>>

RestartModem ==
  /\ Goto("restart", "bringup")
  /\ modem' = IF modem = "off" THEN "off" ELSE "cold"
  /\ UNCHANGED <<plan, boot, ram, rtc, batt_mv, rails, rail, missed, rtc_periph,
                 coproc, env, faults, resets>>

\* read_wind_stats_snapshot()
Snapshot ==
  /\ Goto("snapshot", "publish")
  /\ UNCHANGED <<plan, boot, ram, rtc, batt_mv, power, coproc, env, faults, resets>>

PublishOk ==
  /\ Goto("publish", "recheck")
  /\ modem = "ready" /\ net
  /\ UNCHANGED <<plan, boot, ram, rtc, batt_mv, power, coproc, env, faults, resets>>

\* The optimistic publish falls back to a full bring-up; a publish after
\* that restarts the modem once more, unless CoAP could not be set up.
PublishFails ==
  /\ pc = "publish"
  /\ \/ plan = "fast" /\ plan' = "recover" /\ pc' = "restart"
     \/ plan \in {"full", "recover"} /\ plan' = "last" /\ pc' = "restart"
     \/ plan # "fast" /\ plan' = plan /\ pc' = "recheck"
  /\ UNCHANGED <<boot, ram, rtc, batt_mv, power, coproc, env, faults, resets>>

-----------------------------------------------------------------------------
(* Going to sleep.                                                         *)

RecheckBattery ==
  /\ pc = "recheck"
  /\ ReadBattery
  /\ IF batt_mv' > 0 /\ batt_mv' < EnterMv
       THEN EnterGuard
       ELSE pc' = "prepare" /\ UNCHANGED rtc
  /\ UNCHANGED <<plan, boot, ram, rail, rtc_periph, coproc, env, resets>>

\* pmu_prepare_for_sleep()
PrepareSleep == SwitchRails("prepare", "sleep", TRUE)

\* Mutant: the normal sleep lets RTC_PERIPH power down.
KeepPeriph_Off == FALSE
KeepPeriph == TRUE

\* enter_deep_sleep(): with RTC_PERIPH off the coprocessor stops.
DeepSleep(keep_rtc_periph_on) ==
  /\ pc' = "asleep"
  /\ reset_reason' = "deepsleep"
  /\ rtc_periph' = keep_rtc_periph_on
  /\ IF keep_rtc_periph_on THEN UNCHANGED coproc ELSE Halt
  /\ UNCHANGED <<plan, from_wakeup, from_power_cut_sleep, from_low_battery_guard,
                 ram, rtc, batt_mv, pmu, rail, env, faults, resets>>

NormalSleep == pc = "sleep" /\ DeepSleep(KeepPeriph)

\* ulp_sdi_wind::stop()
\* Mutant: the ULP is left running into the power cut.
StopUlp_Skip == UNCHANGED <<coproc, g_initialized>>
StopUlp == Halt /\ g_initialized' = FALSE

CutUlp ==
  /\ Goto("cut_ulp", "cut_rails")
  /\ StopUlp
  /\ UNCHANGED <<plan, boot, pmu_ready, rtc, batt_mv, power, env, faults, resets>>

\* pmu_prepare_for_low_battery_sleep()
\* Mutant: the level conversion is left on, for the bus.
CutRails_KeepBldo1 ==
  IF rail # "BLDO1"
    THEN SwitchRails("cut_rails", "cut_i2c", FALSE)
    ELSE /\ Goto("cut_rails", "cut_i2c")
         /\ rail' = "DC3"
         /\ UNCHANGED <<plan, boot, ram, rtc, batt_mv, pmu, rtc_periph, coproc,
                        env, faults, resets>>
CutRails == SwitchRails("cut_rails", "cut_i2c", FALSE)

\* release_pmu_i2c()
CutI2c ==
  /\ Goto("cut_i2c", "cut_sleep")
  /\ pmu_ready' = FALSE
  /\ UNCHANGED <<plan, boot, g_initialized, rtc, batt_mv, power, coproc, env,
                 faults, resets>>

PowerCutSleep == pc = "cut_sleep" /\ DeepSleep(FALSE)

\* The sleep timer.
Wake ==
  /\ Goto("asleep", "boot")
  /\ UNCHANGED <<plan, boot, ram, rtc, batt_mv, power, coproc, env, faults, resets>>

Cpu ==
  \/ Boot \/ PmuInit \/ CheckBattery \/ PreparePower \/ AttachUlp \/ StartUlp
  \/ StartCycle \/ BringUpDone \/ BringUpWaits \/ RestartModem \/ Snapshot
  \/ PublishOk \/ PublishFails \/ RecheckBattery \/ PrepareSleep \/ NormalSleep
  \/ CutUlp \/ CutRails \/ CutI2c \/ PowerCutSleep \/ Wake

-----------------------------------------------------------------------------
(* The coprocessor and the world.                                          *)

\* finish_cycle(): a sample, and the report that it is there.
UlpCycle ==
  /\ ulp = "running"
  /\ reported' = TRUE
  /\ ring' = "live"
  /\ UNCHANGED <<cpu, ram, rtc, batt_mv, power, ulp, ulp_failed, env, faults, resets>>

\* A panic, a watchdog, a brown-out: the boot loader initializes the RTC
\* variables again; the PMU and the modem do not notice.
Reset ==
  /\ resets < MaxResets
  /\ resets' = resets + 1
  /\ pc' = "boot"
  /\ reset_reason' = "other"
  /\ rtc_power_cut' = FALSE /\ rtc_guard' = FALSE
  /\ rail' = "DC3"
  /\ UNCHANGED coproc \/ Halt
  /\ UNCHANGED <<plan, from_wakeup, from_power_cut_sleep, from_low_battery_guard,
                 ram, batt_mv, pmu, rtc_periph, env, faults>>

World ==
  /\ mv' \in Volts /\ net' \in BOOLEAN
  /\ UNCHANGED <<cpu, ram, rtc, batt_mv, power, coproc, faults, resets>>

Next == Cpu \/ UlpCycle \/ Reset \/ World

Spec == Init /\ [][Next]_vars

\* The main CPU runs and its timers fire, the coprocessor completes its
\* cycles.  Nothing is assumed of the battery, the network or the faults.
FairSpec == Spec /\ WF_vars(Cpu) /\ WF_vars(UlpCycle)

-----------------------------------------------------------------------------
(* Properties.                                                             *)

\* The guard is a latch with two thresholds, across every sleep and reset:
\* app_main() implements BatteryGuard.
Guard == INSTANCE BatteryGuard WITH
           mode <- IF pc # "asleep" THEN "awake"
                   ELSE IF rtc_guard THEN "protected" ELSE "sampling",
           latched <- rtc_guard,
           reading <- batt_mv

ImplementsGuard == Guard!Spec

\* Asleep in the guard the coprocessor and its power domain are off, whichever
\* way it was entered, and so is every rail but one whose last write was lost:
\* no reset and no earlier failure leaves another one on.
ProtectedIsOff ==
  pc = "asleep" /\ rtc_guard => rails \subseteq missed /\ ulp = "halted" /\ ~rtc_periph

\* Asleep between measurements, the wind is being sampled: the power domain
\* is on, a rail is off only if the PMU could not be told to switch it on, and
\* the coprocessor runs unless its last start failed.
SamplingIsOn ==
  pc = "asleep" /\ ~rtc_guard =>
    rtc_periph /\ Rails \ rails \subseteq missed /\ (ulp = "running" \/ ulp_failed)

\* The coprocessor samples an anemometer without power, which it reports as
\* calm, only if the PMU could not be told to switch that rail on: app_main()
\* starts it all the same.  No other path, through guard, sleep or reset,
\* takes the power from under a running coprocessor.
UlpPowered ==
  ulp = "running" => {"DC5", "BLDO1"} \ rails \subseteq missed

\* attach_shared_state() looks at ulp_sdi_report_sequence, which outlives the
\* program: it is called only when the coprocessor runs.
AttachedIsAlive ==
  pc = "ulp" /\ Resumes /\ reported => ulp = "running"

\* The ring is read only when it was filled since the last start of the
\* coprocessor.  The code has one exception: init() fails in this boot after
\* attach_shared_state() has set g_initialized.
SnapshotIsLive ==
  pc = "snapshot" /\ g_initialized /\ ring = "old" =>
    ulp_failed /\ Resumes /\ ~reported

\* The wind that is published is measured by a coprocessor that still runs, and
\* not before a power cut, though everything it left in RTC memory outlives it.
WindIsLive == AttachedIsAlive /\ SnapshotIsLive

\* The optimistic publish is tried only on a modem that has been brought up
\* and has kept its power since.
FastHasSession ==
  plan = "fast" /\ pc \in {"snapshot", "publish"} => modem = "ready"

Protected == pc = "asleep" /\ rtc_guard

\* A battery that stays low ends up in the guard, again and again, as long
\* as there is coverage and the PMU answers.
LowBatteryGuards ==
  <>[](mv < EnterMv /\ net /\ faults = 0) => []<>Protected

\* A battery that has recovered lets the probe sample and sleep normally.
RecoveredSamples ==
  <>[](mv >= RecoverMv /\ net /\ faults = 0) => []<>(pc = "asleep" /\ ~rtc_guard)

\* README.md: "Leave low-battery guard only after reaching this voltage".
LeavesOnlyRecovered ==
  [][rtc_guard /\ ~rtc_guard' => batt_mv' >= RecoverMv]_vars

\* README.md: "The low-battery guard protects the battery from deeper
\* discharge": a battery that stays low reaches the guard.
LowBatteryAlwaysGuards ==
  <>[](mv < EnterMv) => <>Protected

-----------------------------------------------------------------------------
(* The inductive invariant behind the safety properties.                   *)

Before == {"boot", "pmu", "check"}
Started == {"cycle", "bringup", "restart", "snapshot", "publish", "recheck",
            "prepare", "sleep"}
Normal == {"power", "ulp"} \cup Started
Cut == {"cut_ulp", "cut_rails", "cut_i2c", "cut_sleep"}

\* This boot continues, or will continue, a normal sleep.
Warm ==
  \/ pc = "asleep" /\ ~rtc_guard
  \/ pc = "boot" /\ reset_reason = "deepsleep" /\ ~rtc_guard
  \/ pc \in {"pmu", "check", "power", "ulp", "cycle"} /\ Resumes

\* The two RTC flags go together, and the locals taken from them agree with
\* them until the battery has been checked.
FlagsInv ==
  /\ rtc_power_cut = rtc_guard
  /\ pc \in Cut => rtc_guard
  /\ pc \in Normal => ~rtc_guard
  /\ pc \in Before /\ reset_reason = "other" => ~rtc_guard
  /\ pc = "asleep" => reset_reason = "deepsleep"
  /\ pc \in {"pmu", "check"} =>
       /\ from_wakeup = (reset_reason = "deepsleep")
       /\ from_low_battery_guard = rtc_guard
       /\ from_power_cut_sleep = rtc_guard

\* The modem has power exactly while DC3 is on, and keeps its session from
\* the end of a bring-up through a normal sleep.
ModemInv ==
  /\ modem = "off" <=> "DC3" \notin rails
  /\ Warm => modem = "ready"
  /\ pc \in {"snapshot", "publish", "recheck", "prepare", "sleep"} => modem = "ready"

\* A coprocessor that has reported and has not been stopped is running.
UlpInv ==
  /\ Warm \/ pc \in Started => (reported => ulp = "running")
  /\ ulp = "running" => ring # "old"
  /\ pc \in Started /\ ulp = "halted" => ulp_failed /\ ~reported
  /\ pc \in Started /\ ulp = "halted" /\ g_initialized => Resumes

\* The rails that have been switched on in this boot are on, but for those
\* whose write was lost.
RailsInv ==
  /\ pc \in {"ulp"} \cup Started => Rails \ rails \subseteq missed
  /\ pc = "power" => Earlier[rail] \ rails \subseteq missed
  /\ ~pmu_ready \/ pc \notin {"power", "prepare", "cut_rails"} => rail = "DC3"

\* Nothing is missed without a fault.
FaultsInv ==
  faults = 0 =>
    /\ missed = {} /\ ~ulp_failed
    /\ pc \in {"check"} \cup Normal => pmu_ready

\* The guard is entered on a reading, so the PMU is there to cut the rails.
CutInv ==
  /\ pc \in {"cut_ulp", "cut_rails"} => pmu_ready
  /\ pc \in {"cut_rails", "cut_i2c", "cut_sleep"} => ulp = "halted"
  /\ pc = "cut_rails" => Earlier[rail] \cap rails \subseteq missed
  /\ pc \in {"cut_i2c", "cut_sleep"} => rails \subseteq missed

IInv ==
  /\ TypeOK
  /\ FlagsInv
  /\ ModemInv
  /\ UlpInv
  /\ RailsInv
  /\ FaultsInv
  /\ CutInv
  /\ ProtectedIsOff
  /\ SamplingIsOn
  /\ UlpPowered

=============================================================================
