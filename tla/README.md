# Meteosonic LP: formal models

Models in TLA+ of the firmware of the Meteosonic LP weather probe, checked with
TLC and, where it says so, proved with TLAPS. Paths and line numbers refer to
the firmware repository.

## The system

An ESP32-S3 sleeps for a minute, wakes, publishes the wind, and sleeps again.
While its main CPU sleeps, the ULP coprocessor reads an anemometer over SDI-12
once a second into a ring in RTC memory. An AXP2101 PMU switches the supply of
the modem (DC3), the anemometer (DC5) and the level conversion (BLDO1). A
SIM7080G NB-IoT modem sends one CoAP message per wake. When the battery is low
everything is switched off and only the battery is looked at every 20 minutes.

| Component | Source | State | Operations | Interacts with |
| --- | --- | --- | --- | --- |
| Sample ring | `ulp/main.c` push_sample; `ulp_sdi_wind.cpp` read_recent_samples | ring, head, count, sequence (RTC memory) | push (ULP), snapshot (CPU) | shared memory without a lock |
| Boot, guard, sleep | `src/main.cpp` | RTC flags, pmu_ready, PMU outputs, g_initialized | app_main and what it calls | PMU (I2C), ULP (load, run, halt), modem driver |
| Modem session | `nbiot/modem.c`, run_modem_network_cycle | cached flags, DTR, retry counters | bring-up, PDP, CoAP, publish, sleep, resume | modem (AT commands, PWRKEY, DTR) |
| Modem line protocol | `nbiot/modem.c` | UART, queue of 24 lines | rx task, expect loops, URCs | a task of its own, the session |
| ULP cycle and SDI-12 bus | `ulp/main.c`, `ulp/sdi.c` | cycle and report words, timing | run_cycle, send, receive | anemometer; main CPU through RTC memory |
| SDI-12 parsing | `ulp/main.c` | none | parse_uint, parse_fixed_centi, parse_d0_fields | ULP cycle |
| Wind statistics | `src/main.cpp` | none | average, direction, gust and minimum of three | snapshot |
| DS18B20 | `ds18b20.cpp` | none | start, wait, read, CRC | 1-Wire sensor |

What is hard in it: two cores share memory without a lock; one of them keeps
running while the other sleeps or resets, so every boot finds hardware and RTC
memory in some state of the previous one; most decisions rest on cached
beliefs (the modem sleeps, the context is active, the coprocessor runs); all
of the modem's answers may be late or missing; and nobody is there to press
reset. What makes each part correct:

* ring: a snapshot is what the ring held at one moment, and is only refused
  for a reason;
* boot, guard, sleep: each kind of sleep leaves the hardware as that sleep
  needs it, each kind of boot continues only what is really still there, and
  the guard is a latch with hysteresis;
* modem session: effort is bounded, a failure reaches the last resort, what is
  answered is not sent again, the modem sleeps when the probe does, and any
  disturbance is overcome;
* line protocol: an answer is taken for the command it belongs to;
* cycle, parser, statistics: one sample a second, a number is read as it was
  sent or refused, and gust and minimum are those of consecutive samples.

`PROJECT.json` lists the hazards behind these, each at its line.

## The modules

| Module | Models | Its part |
| --- | --- | --- |
| `SampleLog` | the promise of the ring | an atomic append-only log |
| `WindRing` | push_sample against read_recent_samples | every load and store of a shared word is an action |
| `WindRingProofs` | | proofs about `WindRing` |
| `BatteryGuard` | the promise about the battery | a latch with two thresholds |
| `PowerCycle` | app_main, PMU, ULP life cycle | one action per call that changes state |
| `PowerCycleProofs` | | proofs about `PowerCycle` |
| `ModemSession` | modem.c and run_modem_network_cycle | one action per AT command that matters |
| `ModemSessionProofs` | | proofs about `ModemSession` |
| `CommandPort` | the promise of the line protocol | a synchronous port |
| `ModemLink` | the receive task, its queue and the expect loops of modem.c | one action per line said, read or lost |
| `ModemLinkProofs` | | proofs about `ModemLink` |
| `UlpCycle` | run_cycle() and the wait for the next second | one action per step of the cycle |
| `SdiLine` | sdi_recv_line() | one action per turn of its loop |
| `SdiByte` | sdi_recv_byte(), sdi_send_byte() | one action per byte, sampled tick by tick |
| `SdiByteProofs` | | proofs about `SdiByte` |
| `SdiAnswer` | the three parse functions | one function per loop, of the turns it has made |
| `WindStats` | calculate_wind_stats() | one action per turn of its loops |
| `WindStatsProofs` | | proofs about `WindStats` |
| `Ds18b20` | the temperature reading of each boot | one action per call and per poll |
| `OneWireCrc` | the transfer of the scratchpad, crc8() | one action per bit |
| `MCWindPath` | | the five parts of a sample's way side by side, for TLC |
| `WindPathProofs` | | proofs about `UlpCycle`, `SdiLine`, `SdiAnswer` and the parts side by side |
| `MCTemperature` | | the reading and the transfer side by side, for TLC |
| `TemperatureProofs` | | proofs about `Ds18b20`, `OneWireCrc` and the two side by side |

`WindRing` instantiates `SampleLog`, `PowerCycle` instantiates `BatteryGuard`
and `ModemLink` instantiates `CommandPort` as the abstract specification it
implements. Variables have the names of the source where there is one.
Operators whose name ends in `_Something` are mutants: forms with a plausible
mistake, used to see that a property notices it. They take no part in the
specification.

Who rests on whom: `UlpCycle` takes each command and its answer as one step
with an outcome and a cost; `SdiLine` shows that the cost is bounded and what
an answer is, `SdiByte` when the bytes of one are right, `SdiAnswer` what it is
read as. `WindRing` has the push of `UlpCycle` store by store, and `PowerCycle`
when the ULP runs at all; `WindStats` takes the snapshot of `WindRing`.
`ModemSession` lets every command be answered, lost or not heard; `ModemLink`
shows what an answer that a call takes for its own really is.

### WindRing

The ULP's variables are the shared words; `wpc` is the next store of
push_sample(), and the history variable `pushes` counts finished pushes. The
k-th push stores k as direction and k as strength, which is enough because
samples are only copied. The reader's variables are the locals of
read_recent_samples() and `rpc`, its next load. Accesses are volatile and the
cores in-order, so they take effect in program order. The sequence wraps at
`SeqMod`. `SequenceAssumption` says that a read attempt does not last 2^31
pushes, that is 2^31 seconds. Nothing is assumed of the ULP, which may be slow
or stop in any step: a read must end all the same.

### PowerCycle

`pc` follows app_main(). RAM (`pmu_ready`, `g_initialized`) starts afresh on a
boot, the RTC flags survive deep sleep only, and rails, modem and coprocessor
survive everything but the loss of their power. Every PMU write is a step of its
own, DC3, DC5 and BLDO1 in the order of the source (`Switch`), and each may be
lost, since app_main() ignores the result; so may the reading of the battery,
and the PMU may not answer at all. The history variable `missed` holds the rails
whose last order was lost, `ulp_failed` that the last start of the coprocessor
failed: the properties say with them what such a fault costs and that nothing
else does. `Reset` strikes between any two steps, and the battery and the
coverage change at will. The modem is `off`, `cold` or `ready`; the bring-up
ends only under coverage, as modem_basic_init() does. A publish may fail
although there is coverage. Between its two attempts on the full path the
bring-up may be done again. The ring is `empty`, `live` or `old` (left by a
coprocessor that has been stopped).

### ModemSession

An action is one AT command that matters with its outcome: answered, lost (the
modem may have acted on it) or not heard (the modem is off, or held asleep by
DTR). Commands whose outcome nothing depends on (CMEE, CPSMS, CGACT?,
CNETLIGHT) are left out. `ctx` says on whose behalf the code runs: the
optimistic publish of a wake, the full path, and the two recoveries inside
coap_publish(). Time is counted in iterations of the bring-up loops. Taken from
how the driver uses the modem: PWRKEY switches it on, and one that is on either
off or on again; a session (CSCLK, PDP, CoAP) does not survive that; CoAP can
be initialized only over an active context. `DeviceRestarts`, `PdpDrops` and
`ColdBoot` are the disturbances; a +APP PDP: 0,DEACTIVE may be lost in
modem_flush_input().

### ModemLink

A line carries the number of the command it answers, which the driver does not
see; URCs carry 0. The modem takes its commands one after another, obeys,
refuses or ignores each, and says the lines of an answer one by one, with the
news that the PDP context is gone between any two of them. The queue drops the
newest line when full. The expect loops are `ReadOn`, `ReadLast`, `ReadError`
and `TimeOut`; the publish is two commands, the request waiting for OK and
report in either order. `late` counts the calls that gave up while the modem was
not done, those whose deadline was too short. `Boot` is the sleep and the flush
of modem_driver_start(). `Restart` is a modem that starts afresh between two
calls, by a PWRKEY pulse of modem_basic_init() or of its own accord: it says
nothing of the context it loses, and the flag of the driver stays. The history
variable `missed` holds why the driver may be wrong about the context; `report`
is the request whose report the wait has read, and `backed` has one such request
for each publish that returned true, over all boots. That bytes make lines is
one step.

### UlpCycle, SdiLine, SdiByte, SdiAnswer

In `UlpCycle` the sensor's n-th measurement has direction and strength n, so a
sample shows which measurement it is and whether its halves belong together.
0M! may be heard or not, answered or not, or a stray byte may pass for its
answer; 0D0! returns the latest measurement, however old. `elapsed` is time as
it passes, `ccount` the counter that wraps.

`SdiLine` is the receive loop with a silent line, false starts and bytes at any
time, and the unsigned subtraction that leaves what remains of the timeout.
`SdiByte` has the line tick by tick: a start bit, three samples per data bit,
the parity, and ten bits of the ULP's clock until the call returns. The
sensor's bit may be shorter or longer; the part of a byte by which the ULP
comes late adds up over a line. One of the three samples of every bit may be
wrong. Sent bytes are inverted, with even parity on the line. `SdiAnswer` reads
every answer over an alphabet of two digits, the plus sign, the dot and a
letter, in 32 and 16 bits of its own size. Each of the three loops is a function
from the number of turns made to the values of its variables. What an answer
means is defined apart from them: its fields are cut at the plus signs, and a
number is the sum of its digits times powers of ten.

### WindStats

`stage` and `index` follow the loops: the samples are read, summed up, and
rolled over three at a time. Speeds are whole and sums are kept whole, so gust,
minimum and average are exact; directions are quarters of a turn, for which
sine, cosine and the sector of atan2 are exact. The history variable `turned`
holds the sums of the same wind turned by a quarter.

### Ds18b20, OneWireCrc

The n-th boot converts temperature n, so a reading shows where it comes from.
The bus may be in order, without a sensor, or held low, the sensor may lose its
power or miss the command, and bits may be turned over. A bus nobody drives
reads high. `OneWireCrc` reads 72 bits one by one through the register of
crc8(). The sensor's CRC is defined apart from it, as the remainder of a division
of polynomials: with every bit it sends the sensor takes one step of it
(`dividend`).

## The runs

| Run | Question | Size |
| --- | --- | --- |
| `WindRing.cfg` | is an accepted snapshot right, an empty one justified, and does every read end | 3 slots, 5 pushes, sequence mod 8, 2 attempts |
| `PowerCycle.cfg` | do hardware, flags and the guard agree on every path; is the guard reached, and left | 3 voltages, 2 faults, 1 reset |
| `ModemSession.cfg` | are sleep, effort, fallback and delivery right, and does the driver recover | 2 lost answers, 1 upset, 1 reset |
| `ModemLink.cfg` | what does a returned true mean with late answers, news and a full queue | queue of 2, 4 commands, 2 late, 1 drop, 2 boots, 1 restart |
| `WindPath.cfg` | is a sample right from the line to the message, and taken every second | 3 cycles, counter mod 9; buffer of 5; lines of 12 bytes; answers of 7 bytes; 6 samples |
| `Temperature.cfg` | which wrong temperatures get into a message | 3 boots, 3 faults; 72 bits, 3 errors or a burst of 8 |
| `GuardHysteresis.cfg` | is the guard left only at the recovery voltage: no | 1 fault |
| `GuardCoverage.cfg` | does a low battery reach the guard: no | no fault |
| `SleepTruth.cfg` | does modem_enter_sleep() tell the truth: no | 1 lost answer |
| `PdpTruth.cfg` | is CoAP only set up over an active context: no | no disturbance |
| `LinkShift.cfg` | does every call get its own answer: no | 1 late answer |
| `LinkNews.cfg` | is news that was read kept: no | no late answer |

The parts of `MCWindPath`, and the two of `MCTemperature`, share no variable.
They are not composed: the initial state picks the part that moves, so that one
run checks all of them and the states of the parts add up.

Bounds. Five pushes into three slots go round the ring and, at two increments
each, round a sequence modulo 8; three pushes may overlap one attempt, the most
that modulus allows; the requests 0, 1, 2, 3 are a refused, a smallest, a
partial and a full one. In `PowerCycle` the voltages lie below both thresholds,
between them and above; two faults are enough to lose two of the three rails, or
a rail and the start of the coprocessor; a fault falls on any PMU write or
reading, on pmu_init() or on the start of the coprocessor, the reset between any
two steps, and the number of sleeps is unbounded. In `ModemSession` the retry
counts are small but keep the order of the source (a PWRKEY pulse after some
failures, the three minutes at another period), two lost answers allow a failed
set-up and a failed sleep in one cycle, and the number of wakes is unbounded. In
`ModemLink` a queue of two lines is filled by one answer and one URC, four
commands are two publishes or a set-up whose late answer shifts twice. In
`WindPath` the two commands may take less than the period or more, and the
counter wraps within a cycle from every value; the buffer holds a letter, a
blank and an end of line; a bit is 240 ticks and the sensor's off by up to a
twenty-fourth; seven bytes hold an answer with two decimals or with a number
that passes both widths. In `Temperature` the conversion takes longer than it is
waited for, so both ends of the wait occur. What depends on larger values is
covered by the proofs where there are any.

Fairness. The main CPU runs and its timers fire (`WF` on its steps); in
`PowerCycle` the coprocessor completes its cycles. Every command of the modem
driver returns by its timeout. No fairness is assumed of the battery, the
coverage, the modem, or of the ULP in `WindRing`, and none in `ModemLink`,
`WindPath` and `Temperature`, whose properties are of safety. `LowBatteryGuards`,
`RecoveredSamples` and `Heals` ask for coverage that stays, because the code
waits for it without end; the two `PowerCycle` properties also ask for a PMU that
works. In `Heals` the disturbances are finitely many by
the bounds. The PWRKEY pulses of the two timers must not always coincide:
in the source they come after about 36 s and after 180 s less the pulses, in
the run after 3 and 4 iterations. `ModemLink`, `WindPath` and `Temperature` may
stop: their commands, cycles, bytes and boots are bounded.

### Where code and documentation differ

1. `LeavesOnlyRecovered`: a reading of 0 from the PMU ends the guard
   (`src/main.cpp:563-567`), against "Leave low-battery guard only after
   reaching this voltage" (`README.md:38`).
2. `LowBatteryAlwaysGuards`: without coverage modem_basic_init()
   (`modem.c:608`) does not return and the battery is not looked at, against
   "The low-battery guard protects the battery from deeper discharge"
   (`README.md:103`).
3. `EnterSleepTruthful`: modem_resume_fast() (`modem.c:927`) takes CSCLK to be
   on. After one failed AT+CSCLK=1 every further modem_enter_sleep() returns
   true without effect as long as publishing works, against `modem.h:65` and
   `README.md:93`.
4. `PdpBeforeCoap`: g_pdp_known_active survives the restart of the modem in
   coap_publish() (`modem.c:796`, `modem.c:578`), so that the bring-up skips
   the activation that `modem.h:51` promises. `Heals` shows that the next wake
   makes up for it.

5. `OwnAnswer`: the queue is not flushed between the commands of a set-up, so
   one OK after its deadline is taken for that of the next command
   (`modem.c:245`, `modem.c:687`), against "Returns true on success"
   (`modem.h:69`) and "Simple synchronous modem driver" (`modem.c:1`).
   `PublishedWasSent` shows how far that goes: no publish succeeds on a request
   that was never sent, and no two on the same one. But a report that comes
   after the flush of the next boot may be taken by that boot's publish, in the
   place of its own.
6. `PdpNewsKept`: is_pdp_active() overwrites the flag that a DEACTIVE has just
   cleared with the older answer (`modem.c:573`), against "URC: PDP
   deactivated -> restart CoAP init" (`modem.c:75`). Nothing else remembers the
   news: g_coap_restart is never read.

What the documentation does not decide: a cycle without an answer pushes a
sample of 0, which the statistics count as calm. `SampleIsTold` shows that the
report tells one from the other; the snapshot does not.

## The proofs

Each is for every value of the constants: any ring capacity, sequence width,
retry count, thresholds, voltages, queue and buffer length, counter width and
timeout, bit time, line, answer and snapshot length, and any number of faults,
losses, late answers and resets. They use only the named assumptions of the
modules. Where a module is instantiated with other names than its own
(`SdiByte`, `WindStats`), or put beside others (`SdiAnswer`), its theorems carry
the assumption as an ASSUME, and `PathAssumption` provides it.

Every invariant and action property of the six passing runs is stated by a
theorem. None of them is more than its formula: what they except is said here
and in the comment of each property. `ProtectedIsOff`, `SamplingIsOn` and
`UlpPowered` except a rail whose last order was lost, since the code takes no
notice of that; `Faultless` says that without faults there is none.
`PublishedWasSent` holds for late answers and over any number of sleeps; only
its last part, that the request is one of this boot, excepts boots with an
answer from before the sleep still to come. `KnownUnlessMissed` lists the four
ways by which the driver is wrong about the context.

`WindRingProofs`. The inductive invariant `IInv` has these parts. `WriterInv`:
the sequence is odd exactly during a push, and the slot being written fills in
order. `RingHoldsNewest`: the slots behind the head are whole. `OverlapInv`:
the sequence is `Moved` steps from `seq_before`, and `Moved` is less than the
modulus, so an equal sequence means that nothing moved; this is where
`SequenceAssumption` is used. `CopyInv`: as long as nothing moved, the copy is
right so far; it cannot be strengthened to a copy that is always right, since
a torn copy exists until the second load of the sequence rejects it.
`QuietInv`: a read that no push overlaps has seen nothing move. From these:
`SnapshotCorrect`, `RingCorrect`, `EmptyCorrect`, `TypeCorrect`, and
`Refinement`: the ring implements `SampleLog`; the read takes effect at its
last load.

`PowerCycleProofs`. `FlagsInv` ties the RTC flags and the locals read from them
together, `ModemInv`, `UlpInv` and `RailsInv` carry the state of the hardware
from the end of one boot to the point of the next that relies on it, `RailsInv`
and `CutInv` follow the rails write by write, up to those that were lost, and
`FaultsInv` says that those are the work of faults. The safety properties need
them because what they say of sleep is decided many steps, and a boot, earlier.
From these: `ProtectedCorrect`, `SamplingCorrect`, `PoweredCorrect`,
`WindCorrect`, `SessionCorrect`, `Faultless`, `TypeCorrect`, and `Refinement`:
app_main() implements `BatteryGuard`.

`ModemSessionProofs`. `EffortInv` says how much each context can have behind it,
`FallbackInv` which contexts may give up and `SentInv` what was sent on the way
to sleep, `CsclkInv` why the
driver's belief about CSCLK is right as long as no answer is lost and the modem
does not restart by itself. From these: `EffortCorrect`, `FallbackCorrect`,
`SentCorrect`, `SleepCorrect`, `AwakeCorrect`, `TypeCorrect`.

`ModemLinkProofs`. `PortInv` says, while nothing has been given up too early,
where the answer to the one command under way can be: with the modem, being
said, in the queue or read, and that nothing of it is left when the call
returns; that last part is what a queue without numbers needs, and what a late
answer destroys. `WaitInv` says what may have been read, `SentInv` that a
report read in this boot, or in the queue, means a request sent in this boot
unless an answer was inherited, and `ReportInv` that there is one report of each
request sent, to be said, queued, read, taken by a publish, or lost;
`AskedFresh`, that a command not begun with has had no answer, lets the modem
make a new one. `BeliefInv` says that the flag, the lines read
and the lines queued together know of every dropped context but for news that
was dropped with a full queue, flushed or overwritten by a query, and contexts
lost in a restart. From these:
`AnswerCorrect`, `PublishCorrect`, `BeliefCorrect`, `TypeCorrect`, and
`Implements`: every step is one of `CommandPort` until the first call that
gives up too early.

`WindPathProofs` has four parts.

`UlpCycle`: `TimeInv` says that the distance of the counter from the start of
the loop, modulo its width, is the time that has passed; `Distance` is the lemma
that a step keeps it across a wrap. `MeasuredInv`, `AnswerInv`, `PushedInv` and
`CountInv` tie the answer, the pushed sample and the status words to the
measurement of the cycle. From these: `SampleCorrect`, `ReportCorrect`,
`PeriodCorrect`, `TypeCorrect`.

`SdiLine`: by `EffortInv` the time spent is paid for by the bytes read, plus what
has been waited since the last; a false start adds to both. By `LoopInv` the
buffer is what was heard, without an end of line before its last byte. That a
line can be cut after its last letter needs `Greatest`, proved from the
well-foundedness of finite sets. From these: `EffortCorrect`, `LineCorrect`,
`LineTypeCorrect`.

`SdiAnswer`: the variables of a loop are a function that is defined by what it
was a turn before. `LoopRuns` shows that there is such a function, by extending
one for fewer turns, and `Induct` that what every turn keeps holds after all of
them; both rest on `Greatest`, so that no induction theorem is needed.
`RoundsDrop` lets the width of the integers be applied once, after the sum,
instead of in every turn. With it `DigitsAreNumber` is that the digits read one
after another are the sum of digits times powers of ten. `FixedEnds` puts what
precedes the dot, the first two decimals and the factor of one decimal together,
and `ScanField` steps from one plus sign to the next. From these: `ReadCorrect`,
`AnswerTypeCorrect`.

The parts side by side: `PartsMove` shows that whichever part moves each of them
goes by its own specification, and with it every theorem of a part holds in
`MCWindPath`: `PathTypeCorrect`, `PathBytes`, `PathRead`, `PathExtremes`,
`PathDirection`.

`SdiByteProofs`. A sample is right if it is taken inside the slot of its bit.
`OnTime` says of a start bit that was seen so late that all the samples of its
byte still are, the one of the parity included (`OnTimeIsRead`), with one wrong
sample of three in each bit (`GlitchIsOutvoted`). `LagInv` says how late the ULP
can be by now: not at all if its clock is not slow, and otherwise by its
difference over the bytes before. `FastIsOnTime` and `SlowIsOnTime` are where the
twenty-fourth and the third of a bit come from. From these: `BytesCorrect`,
`TypeCorrect`, for every bit time from 12 ticks.

`WindStatsProofs`. The speeds of the samples are summed in one loop and the
windows rolled in another; `SpeedInv` holds the partial sums, which the second
loop no longer sees, and `Tiled` says of the windows side by side so far that
their sum lies between as many minima and as many gusts. That is what
`AverageIsBetween` needs; `RollInv` is for the extremes. `QuarterInv` says how far
the sums go along a quarter (`Along`) when the wind comes from two neighbouring
ones, `TurnInv` that turning the wind takes the sine for the cosine. From these:
`ExtremesCorrect`, `DirectionCorrect`, `TypeCorrect`, for snapshots of every length.

`TemperatureProofs`. For `Ds18b20`, `ConversionInv` says what the scratchpad
holds while, and after, the sensor converts, given what has gone wrong in this
boot, `HighInv` what a line that reads high means, `ReadingInv` what a reading
can be. From these: `ReadingCorrect`, `WorkingCorrect`, `TypeCorrect`.

For `OneWireCrc`, `Clean` is the register as it would be without faults, read off
the division, and `Trace` the exclusive or of the register with it. crc8() is linear
(`Linear`), so that the trace goes through it by itself, fed by the bits that
are turned over. `TraceInv` says what is known of it: its parity is that of the
number of faults, since the generator has an even number of terms, so one or
three are seen; one fault runs along the table `Orbit`, which does not come to
the value a second one would wipe out within 72 bits; and of a burst the first
bit can be told (`Tell`) from where eight steps must have taken it.
`BitsAreNumber` reads sixteen bits back as the temperature. From these:
`CrcCorrect`, and `TemperatureCorrect` for the two side by side.

Only model-checked: the liveness properties (`ReadReturns`, `LowBatteryGuards`,
`RecoveredSamples`, `Heals`), which TLAPS does not cover, and the six differences
above, each of which TLC refutes.

`SdiByte` gives a figure that the code does not: a ULP whose clock runs fast by
up to a twenty-fourth of a bit reads lines of any length, one that runs slow
loses ten times the difference with every byte, until a third of a bit is used
up. ULP_CLOCK_SCALE (985/1000) makes the ULP's bit shorter, which is the safe
side; the calibration is not repeated while the probe wakes normally.

## Not modelled, and the plan

1. `Probe`: `PowerCycle` with `ModemSession` in the place of its abstract
   modem, so that a power cut, a reset and the driver's flags meet. Proofs:
   what `PowerCycle` says of the modem follows from `ModemSession`.
2. `ModemSession` with the queue of `ModemLink` in the place of its choice
   between answered and lost.

Left out for good: the Yamartino deviation and the rounding of floats (no
exact arithmetic), the JSON text and escape_at_quoted_arg() (no control depends
on them), how bytes make a line in the receive task, the break and mark of
sdi_send_cmd() and the slots of 1-Wire (hardware timing), GPIO leakage states,
the order of the last PMU writes over a bus whose pull-ups are off, GNSS, CPSI,
modem_try_resume() and modem_wake_with_pwrkey(), which nothing calls, and the
stuck detection and tick() of `ulp_sdi_wind.cpp`, which have no effect either.
