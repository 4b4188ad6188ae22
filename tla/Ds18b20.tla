------------------------------ MODULE Ds18b20 -------------------------------
(***************************************************************************)
(* One temperature reading per boot: start_conversion(), whatever the main *)
(* CPU does meanwhile, wait_for_conversion(), read_temperature()           *)
(* (ds18b20.cpp, called by run_modem_network_cycle()), on a one-wire bus   *)
(* whose sensor may come off, lose its power, miss a command, be shorted,  *)
(* or be read with bits turned over.                                       *)
(*                                                                         *)
(* The n-th boot converts temperature n.  A bus nobody drives reads high,  *)
(* which is also how a sensor says that its conversion is over.            *)
(***************************************************************************)
EXTENDS Integers

CONSTANTS
  ConversionTime, \* polls that a conversion takes
  PollTimeout,    \* kDs18b20ConversionTimeoutMs, in polls
  MaxBoots,       \* bound: boots
  MaxFaults       \* bound: faults of the bus and the sensor

ASSUME SensorAssumption ==
  /\ ConversionTime \in Nat \ {0} /\ PollTimeout \in Nat
  /\ MaxBoots \in Nat \ {0} /\ MaxFaults \in Nat

PowerOn == -1   \* the scratchpad after power-up, 85 degrees
Zeroes == -2    \* nine bytes of a bus held low

VARIABLES
  pc, polls,
  reading,     \* what the payload gets: a temperature, or None
  bus,         \* "up", "off" (no sensor on it) or "low" (held down)
  left,        \* the sensor: polls until its conversion is over
  scratchpad,  \* the sensor: the last conversion
  converting,  \* the sensor: the temperature it is at
  boot, faults,
  troubles     \* history: the faults of this boot, by kind

device == <<bus, left, scratchpad, converting>>
vars == <<pc, polls, reading, device, boot, faults, troubles>>

None == 0
Kinds == {"unplugged", "shorted", "power", "deaf", "noise"}

TypeOK ==
  /\ pc \in {"start", "meanwhile", "wait", "read", "done"}
  /\ polls \in 0 .. PollTimeout
  /\ reading \in -2 .. MaxBoots
  /\ bus \in {"up", "off", "low"}
  /\ left \in 0 .. ConversionTime
  /\ scratchpad \in -1 .. MaxBoots /\ converting \in 1 .. MaxBoots
  /\ boot \in 1 .. MaxBoots /\ faults \in 0 .. MaxFaults
  /\ troubles \in SUBSET Kinds

Init ==
  /\ pc = "start" /\ polls = 0 /\ reading = None
  /\ bus \in {"up", "off"} /\ left = 0 /\ scratchpad = PowerOn /\ converting = 1
  /\ boot = 1 /\ faults = 0 /\ troubles = {}

-----------------------------------------------------------------------------
(* The bus.                                                                *)

\* onewire_reset(): somebody pulls the line low.  Mutant: the other level is taken.
Present_High == bus = "off"
Present == bus # "off"
ReadsHigh == bus = "off" \/ (bus = "up" /\ left = 0)

\* crc8() over the nine bytes.
Checks(noise) == ~noise

\* The sensor works while the CPU does something else.
Tick ==
  IF left = 1 THEN left' = 0 /\ scratchpad' = converting
  ELSE left' = (IF left > 0 THEN left - 1 ELSE 0) /\ UNCHANGED scratchpad

Fault(kind) ==
  /\ faults < MaxFaults
  /\ faults' = faults + 1
  /\ troubles' = troubles \cup {kind}

\* The bus changes; a sensor that was off or shorted has lost its power.
Replug ==
  /\ \/ bus = "up" /\ bus' = "off" /\ Fault("unplugged") /\ UNCHANGED <<left, scratchpad>>
     \/ bus = "up" /\ bus' = "low" /\ Fault("shorted") /\ UNCHANGED <<left, scratchpad>>
     \/ bus = "up" /\ bus' = "up" /\ Fault("power") /\ left' = 0 /\ scratchpad' = PowerOn
     \/ bus # "up" /\ bus' = "up" /\ left' = 0 /\ scratchpad' = PowerOn
        /\ troubles' = troubles \cup {"power"} /\ UNCHANGED faults
  /\ UNCHANGED <<pc, polls, reading, converting, boot>>

-----------------------------------------------------------------------------
(* The driver.                                                             *)

\* start_conversion(): no sensor, no reading.
Start ==
  /\ pc = "start"
  /\ IF ~Present
     THEN pc' = "done" /\ UNCHANGED <<left, converting, faults, troubles>>
     ELSE /\ pc' = "meanwhile"
          /\ \/ /\ bus = "up"
                /\ left' = ConversionTime /\ converting' = boot
                /\ UNCHANGED <<faults, troubles>>
             \/ Fault("deaf") /\ UNCHANGED <<left, converting>>
             \/ bus = "low" /\ UNCHANGED <<left, converting, faults, troubles>>
  /\ UNCHANGED <<polls, reading, bus, scratchpad, boot>>

\* The modem is started and, after a cold boot, brought up.
Meanwhile ==
  /\ pc = "meanwhile"
  /\ Tick
  /\ pc' \in {"meanwhile", "wait"}
  /\ UNCHANGED <<polls, reading, bus, converting, boot, faults, troubles>>

\* wait_for_conversion(): polls, and one more when the time is up.  Mutant: a
\* conversion that has timed out is read all the same.
MorePolls == polls < PollTimeout
AfterTimeout_Read == "read"
AfterTimeout == IF ReadsHigh THEN "read" ELSE "done"

Wait ==
  /\ pc = "wait"
  /\ IF MorePolls
     THEN IF ReadsHigh THEN pc' = "read" /\ UNCHANGED <<polls, left, scratchpad>>
          ELSE polls' = polls + 1 /\ Tick /\ UNCHANGED pc
     ELSE pc' = AfterTimeout /\ UNCHANGED <<polls, left, scratchpad>>
  /\ UNCHANGED <<reading, bus, converting, boot, faults, troubles>>

\* read_temperature().
Read ==
  /\ pc = "read"
  /\ pc' = "done"
  /\ \/ ~Present /\ reading' = None /\ UNCHANGED <<faults, troubles>>
     \/ bus = "low" /\ reading' = Zeroes /\ UNCHANGED <<faults, troubles>>
     \/ bus = "up" /\ reading' = scratchpad /\ UNCHANGED <<faults, troubles>>
     \/ /\ bus = "up" /\ Fault("noise")
        /\ reading' = IF Checks(TRUE) THEN Zeroes ELSE None
  /\ UNCHANGED <<polls, device, boot>>

\* The CPU sleeps and boots again; the sensor stays as it is.
Boot ==
  /\ pc = "done" /\ boot < MaxBoots
  /\ pc' = "start" /\ polls' = 0 /\ reading' = None
  /\ boot' = boot + 1 /\ troubles' = {}
  /\ left' = 0 /\ scratchpad' = IF left > 0 THEN converting ELSE scratchpad
  /\ UNCHANGED <<bus, converting, faults>>

Next == Replug \/ Start \/ Meanwhile \/ Wait \/ Read \/ Boot
Spec == Init /\ [][Next]_vars

-----------------------------------------------------------------------------
(* Properties.                                                             *)

\* A reading is the temperature of this boot.  Each wrong value has its own cause,
\* in this boot: an old temperature a conversion command that was missed, 85
\* degrees a sensor that lost its power, or one that had and missed the command,
\* 0 degrees a short that came after the conversion was over; a short that was
\* there before is refused (ds18b20.cpp:119, ds18b20.cpp:144).
WrongHasCause ==
  reading \notin {None, boot} =>
    \/ reading > 0 /\ "deaf" \in troubles
    \/ reading = PowerOn /\ troubles \cap {"power", "deaf"} # {}
    \/ reading = Zeroes /\ "shorted" \in troubles

\* A sensor that works gives a reading, unless it takes longer than it is given.
WorkingIsRead ==
  pc = "done" /\ troubles = {} /\ reading = None =>
    bus # "up" \/ polls = PollTimeout
=============================================================================
