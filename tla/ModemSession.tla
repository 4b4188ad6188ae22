---------------------------- MODULE ModemSession ----------------------------
(***************************************************************************)
(* The modem driver (components/nbiot/modem.c) and its one caller,         *)
(* run_modem_network_cycle() (main.cpp), over a sequence of wakes and cold *)
(* boots, against a SIM7080G that can be switched on and off, that may     *)
(* restart by itself, and whose answers may get lost.                      *)
(*                                                                         *)
(* A step is one AT command that matters, with its answer or its timeout.  *)
(* The driver's flags live in RAM and start afresh on every boot; the      *)
(* modem lives on.  Time is counted in iterations of the bring-up loops.   *)
(***************************************************************************)
EXTENDS Integers

CONSTANTS
  AtRetries, EchoRetries, \* failures of AT, ATE0 let pass before a PWRKEY pulse
  InitPatience,   \* loop iterations that fit INIT_TIMEOUT_MS
  PdpRetries,     \* rounds of activation in ensure_pdp_active()
  PublishRetries, \* attempts in coap_publish()
  MaxLost,        \* bound: commands whose answer is lost
  MaxUpsets,      \* bound: modem restarts and PDP drops of their own accord
  MaxResets       \* bound: boots other than a wake

ASSUME RetriesAssumption ==
  /\ AtRetries \in Nat /\ EchoRetries \in Nat /\ InitPatience \in Nat
  /\ PdpRetries \in Nat \ {0} /\ PublishRetries \in Nat \ {0}
ASSUME BoundsAssumption == MaxLost \in Nat /\ MaxUpsets \in Nat /\ MaxResets \in Nat

VARIABLES
  pc,           \* the next command
  ctx,          \* on whose behalf: see Contexts
  caller,       \* who called ensure_pdp_active()
  tries,        \* the counter of the loop at hand
  elapsed,      \* loop iterations since g_init_start_ms
  g_pdp_known_active, g_sleep_enabled,
  dtr_high,     \* the DTR line, held while the CPU sleeps
  slept,        \* what modem_enter_sleep() last returned
  published,    \* what modem_publish_coap() has returned in this boot
  power, csclk, pdp, coap,    \* the modem: on, CSCLK=1, context, CoAP set up
  net,          \* environment: coverage
  attempts, bringups, sent,   \* in this boot: CoAP requests tried, bring-ups,
                              \* requests the modem has sent
  lost, upsets, resets

control == <<pc, ctx, caller, tries, elapsed>>
flags == <<g_pdp_known_active, g_sleep_enabled>>
results == <<slept, published>>
session == <<csclk, pdp, coap>>
device == <<power, session>>
history == <<attempts, bringups, sent>>
vars == <<control, flags, dtr_high, results, device, net, history, lost, upsets, resets>>

\* modem_basic_init() in order; the last three wait for the network.
Stages == {"at", "echo", "cfun", "sim", "signal", "cereg", "service"}
NeedsNet == {"signal", "cereg", "service"}
After(stage) ==
  CASE stage = "at" -> "echo"
    [] stage = "echo" -> "cfun"
    [] stage = "cfun" -> "sim"
    [] stage = "sim" -> "signal"
    [] stage = "signal" -> "cereg"
    [] stage = "cereg" -> "service"
    [] stage = "service" -> "pdp"

\* The optimistic publish of a wake, the publish after a full bring-up, and
\* the two recoveries inside coap_publish().
Contexts == {"fast", "full", "reinit", "restart"}

TypeOK ==
  /\ pc \in Stages \cup {"pdp", "define", "activate", "confirm", "coapinit",
                         "publish", "sleep", "asleep"}
  /\ ctx \in Contexts
  /\ caller \in {"basic_init", "coap_init", "publish"}
  /\ tries \in Nat
  /\ elapsed \in 0 .. InitPatience
  /\ g_pdp_known_active \in BOOLEAN
  /\ g_sleep_enabled \in BOOLEAN
  /\ dtr_high \in BOOLEAN
  /\ slept \in BOOLEAN
  /\ published \in BOOLEAN
  /\ power \in BOOLEAN
  /\ csclk \in BOOLEAN
  /\ pdp \in BOOLEAN
  /\ coap \in BOOLEAN
  /\ net \in BOOLEAN
  /\ attempts \in Nat
  /\ bringups \in Nat
  /\ sent \in Nat
  /\ lost \in 0 .. MaxLost
  /\ upsets \in 0 .. MaxUpsets
  /\ resets \in 0 .. MaxResets

-----------------------------------------------------------------------------
(* The modem, as the driver's commands and waits take it to be.            *)

\* A modem that has no power, or that DTR holds in slow-clock sleep, is deaf.
DeviceAsleep == power /\ csclk /\ dtr_high
Replies == power /\ ~DeviceAsleep

Answered == Replies /\ lost' = lost
Lost == Replies /\ lost < MaxLost /\ lost' = lost + 1
Deaf == ~Replies /\ lost' = lost

\* No answer, or not the one that is expected when ok holds.
FailsUnless(ok) == Lost \/ Deaf \/ (Answered /\ ~ok)

\* A PWRKEY pulse switches the modem on, and one that is on either off or on
\* again; the session is gone in any case.
NoSession == csclk' = FALSE /\ pdp' = FALSE /\ coap' = FALSE
Pulsed(p) == {TRUE, ~p}
Pulse(n) ==
  /\ n = 0 => UNCHANGED device
  /\ n = 1 => power' \in Pulsed(power) /\ NoSession
  /\ n = 2 => power' \in UNION {Pulsed(p) : p \in Pulsed(power)} /\ NoSession

-----------------------------------------------------------------------------
(* modem_basic_init().                                                     *)

\* The call: a pulse, and the wait for an answer begins.
BasicInit(c) ==
  /\ pc' = "at"
  /\ ctx' = c
  /\ caller' = "basic_init"
  /\ tries' = 0
  /\ elapsed' = 0
  /\ bringups' = bringups + 1
  /\ Pulse(1)

\* Mutant: CSCLK is taken to survive the bring-up.
AfterEcho_Keep == g_sleep_enabled
AfterEcho == FALSE
Passes(stage) == stage \in NeedsNet => net

\* A stage whose command is answered as expected.
StageOk ==
  /\ pc \in Stages
  /\ Answered /\ Passes(pc)
  /\ pc' = After(pc)
  /\ tries' = 0
  /\ g_sleep_enabled' = IF pc = "echo" THEN AfterEcho ELSE g_sleep_enabled
  /\ UNCHANGED <<ctx, caller, elapsed, g_pdp_known_active, dtr_high, results, device,
                 net, history, upsets, resets>>

Allowance == IF pc = "at" THEN AtRetries ELSE EchoRetries

\* PWRKEY after too many failures, and check_init_timeout().
\* Mutant: the three minutes end one iteration late.
RetryPulse == pc \in {"at", "echo"} /\ tries > Allowance
InitTimeout_Late == elapsed > InitPatience
InitTimeout == elapsed = InitPatience
RetryPulses == IF RetryPulse THEN 1 ELSE 0
TimeoutPulses == IF InitTimeout THEN 1 ELSE 0

\* Any other outcome: count, pulse PWRKEY when the retries or the three
\* minutes are used up (or both: two pulses), and send the command again.
StageFails ==
  /\ pc \in Stages
  /\ FailsUnless(Passes(pc))
  /\ tries' = IF RetryPulse \/ pc \notin {"at", "echo"} THEN 0 ELSE tries + 1
  /\ elapsed' = IF InitTimeout THEN 0 ELSE elapsed + 1
  /\ Pulse(RetryPulses + TimeoutPulses)
  /\ UNCHANGED <<pc, ctx, caller, flags, dtr_high, results, net, history, upsets, resets>>

-----------------------------------------------------------------------------
(* ensure_pdp_active() and coap_init_internal().                           *)

EnsurePdp(c) ==
  /\ pc' = "pdp"
  /\ caller' = c
  /\ tries' = 0

GoToSleep == pc' = "sleep" /\ caller' = caller /\ tries' = 0
StartPublish == pc' = "publish" /\ caller' = caller /\ tries' = 0

\* ... returns true.
PdpOk ==
  /\ \/ caller = "basic_init" /\ EnsurePdp("coap_init")
     \/ caller = "coap_init" /\ pc' = "coapinit" /\ caller' = caller /\ tries' = 0
     \/ caller = "publish" /\ StartPublish
  /\ UNCHANGED <<ctx, elapsed, bringups, power>>

\* coap_init_internal() returns false: in recovery a modem restart is left,
\* otherwise the cycle ends without a publish.
CoapInitFailed ==
  \/ ctx = "reinit" /\ BasicInit("restart")
  \/ ctx # "reinit" /\ GoToSleep /\ UNCHANGED <<ctx, elapsed, bringups, device>>

\* ... returns false, which modem_basic_init() only logs.
PdpFailed ==
  \/ caller = "basic_init" /\ EnsurePdp("coap_init")
       /\ UNCHANGED <<ctx, elapsed, bringups, device>>
  \/ caller = "coap_init" /\ CoapInitFailed
  \/ caller = "publish" /\ GoToSleep /\ UNCHANGED <<ctx, elapsed, bringups, device>>

\* Mutant: any answer to the query will do.
PdpQuery_Assume == TRUE
PdpQuery == pdp

\* The context is taken to be active, or the modem says it is ...
PdpKnown ==
  /\ pc = "pdp"
  /\ \/ g_pdp_known_active /\ UNCHANGED <<g_pdp_known_active, lost>>
     \/ ~g_pdp_known_active /\ Answered /\ PdpQuery /\ g_pdp_known_active' = TRUE
  /\ PdpOk
  /\ UNCHANGED <<g_sleep_enabled, dtr_high, results, session, net, attempts, sent,
                 upsets, resets>>

\* ... or not, or does not answer.
PdpUnknown ==
  /\ pc = "pdp" /\ ~g_pdp_known_active
  /\ FailsUnless(PdpQuery)
  /\ pc' = "define"
  /\ UNCHANGED <<ctx, caller, tries, elapsed, flags, dtr_high, results, device, net,
                 history, upsets, resets>>

\* AT+CGDCONT
DefinePdp ==
  /\ pc = "define"
  /\ \/ Answered /\ pc' = "activate" /\ tries' = 0
        /\ UNCHANGED <<ctx, caller, elapsed, bringups, device>>
     \/ (Lost \/ Deaf) /\ PdpFailed
  /\ UNCHANGED <<flags, dtr_high, results, net, attempts, sent, upsets, resets>>

\* One round: AT+CGACT and AT+CNACT, whose answers are ignored, ...
ActivatePdp ==
  /\ pc = "activate" /\ pc' = "confirm"
  /\ \/ Answered /\ pdp' = (pdp \/ net)
     \/ Lost /\ (pdp' = (pdp \/ net) \/ pdp' = pdp)
     \/ Deaf /\ pdp' = pdp
  /\ UNCHANGED <<ctx, caller, tries, elapsed, flags, dtr_high, results, power, csclk,
                 coap, net, history, upsets, resets>>

\* ... and the modem is asked whether that worked ...
PdpConfirmed ==
  /\ pc = "confirm"
  /\ Answered /\ PdpQuery
  /\ g_pdp_known_active' = TRUE
  /\ PdpOk
  /\ UNCHANGED <<g_sleep_enabled, dtr_high, results, session, net, attempts, sent,
                 upsets, resets>>

\* ... or it did not, and another round or none is left.
PdpNotYet ==
  /\ pc = "confirm"
  /\ FailsUnless(PdpQuery)
  /\ IF tries + 1 < PdpRetries
       THEN /\ pc' = "activate" /\ tries' = tries + 1
            /\ UNCHANGED <<ctx, caller, elapsed, bringups, device>>
       ELSE PdpFailed
  /\ UNCHANGED <<flags, dtr_high, results, net, attempts, sent, upsets, resets>>

\* AT+CCOAPINIT, whose answer is ignored, and AT+CCOAPURL.
CoapReady == coap \/ pdp

CoapInitOk ==
  /\ pc = "coapinit"
  /\ Answered
  /\ coap' = CoapReady
  /\ IF ctx = "full" THEN EnsurePdp("publish") ELSE StartPublish
  /\ UNCHANGED <<ctx, elapsed, flags, dtr_high, results, power, csclk, pdp, net,
                 history, upsets, resets>>

\* The modem may have set CoAP up though its answer was lost: that lasts unless
\* a bring-up follows.
CoapInitUnheard ==
  /\ Lost /\ coap' = CoapReady
  /\ ctx # "reinit" /\ GoToSleep
  /\ UNCHANGED <<ctx, elapsed, bringups, power, csclk, pdp>>

CoapInitFails ==
  /\ pc = "coapinit"
  /\ (FailsUnless(CoapReady) /\ CoapInitFailed) \/ CoapInitUnheard
  /\ UNCHANGED <<flags, dtr_high, results, net, attempts, sent, upsets, resets>>

-----------------------------------------------------------------------------
(* coap_publish() and the cycle around it.                                 *)

\* AT+CCOAPPARA and AT+CCOAPACTION.
CanSend == Replies /\ pdp /\ coap /\ net

\* Mutant: an OK is not enough to stop.
AfterPublish_Again == "publish"
AfterPublish == "sleep"

PublishOk ==
  /\ pc = "publish"
  /\ CanSend /\ Answered
  /\ attempts' = attempts + 1
  /\ sent' = sent + 1
  /\ published' = TRUE
  /\ pc' = AfterPublish
  /\ tries' = 0
  /\ UNCHANGED <<ctx, caller, elapsed, flags, dtr_high, slept, device, net,
                 bringups, upsets, resets>>

\* Attempts in a row; the recoveries have one each.  Mutant: they
\* have one too many.
Attempts_OneMore == IF ctx \in {"fast", "full"} THEN PublishRetries ELSE 2
Attempts == IF ctx \in {"fast", "full"} THEN PublishRetries ELSE 1

\* After the last of them: a wake is not to set CoAP up again but falls back
\* to the full path, which tries CoAP again, then the modem, then gives up.
\* Mutant: the modem is not tried.
Fallback_NoRestart ==
  \/ ctx = "fast" /\ BasicInit("full")
  \/ ctx = "full" /\ ctx' = "reinit" /\ EnsurePdp("coap_init")
       /\ UNCHANGED <<elapsed, bringups, device>>
  \/ ctx \in {"reinit", "restart"} /\ GoToSleep /\ UNCHANGED <<ctx, elapsed, bringups, device>>
Fallback ==
  \/ ctx = "fast" /\ BasicInit("full")
  \/ ctx = "full" /\ ctx' = "reinit" /\ EnsurePdp("coap_init")
       /\ UNCHANGED <<elapsed, bringups, device>>
  \/ ctx = "reinit" /\ BasicInit("restart")
  \/ ctx = "restart" /\ GoToSleep /\ UNCHANGED <<ctx, elapsed, bringups, device>>

\* A request that was sent but whose answer is lost counts as failed.
PublishFails ==
  /\ pc = "publish"
  /\ \/ FailsUnless(CanSend) /\ sent' = sent
     \/ Lost /\ CanSend /\ sent' = sent + 1
  /\ attempts' = attempts + 1
  /\ IF tries + 1 < Attempts
       THEN tries' = tries + 1 /\ UNCHANGED <<pc, ctx, caller, elapsed, bringups, device>>
       ELSE Fallback
  /\ UNCHANGED <<flags, dtr_high, results, net, upsets, resets>>

-----------------------------------------------------------------------------
(* Sleep and wake.                                                         *)

\* modem_enter_sleep(): CSCLK is enabled once per bring-up, DTR does the rest.
SleepOk ==
  /\ \/ g_sleep_enabled /\ UNCHANGED <<csclk, lost>>
     \/ ~g_sleep_enabled /\ Answered /\ csclk' = TRUE
  /\ g_sleep_enabled' = TRUE
  /\ dtr_high' = TRUE
  /\ slept' = TRUE

\* AT+CSCLK=1 may have been heard though its answer was not.
SleepRefused ==
  /\ ~g_sleep_enabled
  /\ \/ Lost /\ (csclk' = TRUE \/ csclk' = csclk)
     \/ Deaf /\ csclk' = csclk
  /\ slept' = FALSE
  /\ UNCHANGED <<g_sleep_enabled, dtr_high>>

EnterSleep ==
  /\ pc = "sleep" /\ pc' = "asleep"
  /\ SleepOk \/ SleepRefused
  /\ UNCHANGED <<ctx, caller, tries, elapsed, g_pdp_known_active, published, power,
                 pdp, coap, net, history, upsets, resets>>

\* Mutant: the hold of the sleeping CPU is not released.
ExitDtr_Held == dtr_high
ExitDtr == FALSE

\* modem_driver_start()
StartDriver ==
  /\ g_pdp_known_active' = FALSE
  /\ dtr_high' = ExitDtr
  /\ published' = FALSE
  /\ attempts' = 0
  /\ sent' = 0
  /\ UNCHANGED <<slept, net>>

\* A wake: modem_resume_fast() and the optimistic publish.
FastWake ==
  /\ pc = "asleep"
  /\ StartDriver
  /\ g_sleep_enabled' = TRUE
  /\ ctx' = "fast"
  /\ StartPublish
  /\ bringups' = 0
  /\ UNCHANGED <<elapsed, device, lost, upsets, resets>>

\* A boot of another kind, after a power cut or a reset: bring-up at once.
\* The pulse finds the modem off, or as it was.
ColdBoot ==
  /\ resets < MaxResets /\ resets' = resets + 1
  /\ StartDriver
  /\ g_sleep_enabled' = FALSE
  /\ pc' = "at" /\ ctx' = "full" /\ caller' = "basic_init"
  /\ tries' = 0 /\ elapsed' = 0
  /\ bringups' = 1
  /\ power' \in Pulsed(power)
  /\ NoSession
  /\ UNCHANGED <<lost, upsets>>

Init ==
  /\ pc = "at" /\ ctx = "full" /\ caller = "basic_init"
  /\ tries = 0 /\ elapsed = 0
  /\ g_pdp_known_active = FALSE /\ g_sleep_enabled = FALSE
  /\ dtr_high = FALSE
  /\ slept = FALSE /\ published = FALSE
  /\ power \in BOOLEAN
  /\ csclk = FALSE /\ pdp = FALSE /\ coap = FALSE
  /\ net \in BOOLEAN
  /\ attempts = 0 /\ bringups = 1 /\ sent = 0
  /\ lost = 0 /\ upsets = 0 /\ resets = 0

Cpu ==
  \/ StageOk \/ StageFails \/ PdpKnown \/ PdpUnknown \/ DefinePdp \/ ActivatePdp
  \/ PdpConfirmed \/ PdpNotYet \/ CoapInitOk \/ CoapInitFails \/ PublishOk
  \/ PublishFails \/ EnterSleep \/ FastWake

-----------------------------------------------------------------------------
(* The modem by itself, and the network.                                   *)

\* It restarts, or switches off.
DeviceRestarts ==
  /\ power
  /\ upsets < MaxUpsets /\ upsets' = upsets + 1
  /\ power' \in BOOLEAN
  /\ NoSession
  /\ UNCHANGED <<control, flags, dtr_high, results, net, history, lost, resets>>

\* The network takes the context away.  The URC that says so is read between
\* the lines of an answer, or thrown away by modem_flush_input().
PdpDrops ==
  /\ pdp
  /\ upsets < MaxUpsets /\ upsets' = upsets + 1
  /\ pdp' = FALSE
  /\ g_pdp_known_active' \in {g_pdp_known_active, FALSE}
  /\ coap' \in {coap, FALSE}
  /\ UNCHANGED <<control, g_sleep_enabled, dtr_high, results, power, csclk, net,
                 history, lost, resets>>

Coverage ==
  /\ net' = ~net
  /\ UNCHANGED <<control, flags, dtr_high, results, device, history, lost, upsets, resets>>

Next == Cpu \/ ColdBoot \/ DeviceRestarts \/ PdpDrops \/ Coverage

Spec == Init /\ [][Next]_vars

\* The calls return by their timeouts, and the sleep timer fires.
FairSpec == Spec /\ WF_vars(Cpu)

-----------------------------------------------------------------------------
(* Properties.                                                             *)

\* No command is ever sent to a modem that DTR holds asleep: it would not be
\* answered, and the recovery would power-cycle a healthy modem.
AwakeIsAwake == pc # "asleep" => ~DeviceAsleep

\* Without losses the probe never sleeps beside a modem that is awake, drawing
\* its current for the whole interval, however often the modem was restarted.
SleepsForReal ==
  pc = "asleep" /\ lost = 0 /\ upsets = 0 => slept /\ DeviceAsleep

\* The radio time of a wake is bounded: the retries, the fallback and the two
\* recoveries add up.
BoundedEffort ==
  /\ attempts <= 2 * PublishRetries + 2
  /\ bringups <= 2

\* A cycle gives up only behind the last recovery, the restart of the modem, or
\* when its full path had neither a context nor CoAP and so made no request at
\* all; and the wake that publishes at once leaves the modem alone.
GivesUpLast ==
  /\ ctx = "fast" => bringups = 0
  /\ pc = "asleep" /\ ~published =>
       ctx = "restart" \/ (ctx = "full" /\ attempts <= PublishRetries)

\* A measurement reaches the network more than once only if answers were lost:
\* no more often than in all boots together.
SentOnce == sent <= 1 + lost

\* Whatever has happened to the modem, once there is coverage to stay, the probe
\* sleeps again and again, and from some time on never without having published.
Heals ==
  <>[]net => []<>(pc = "asleep") /\ <>[](pc = "asleep" => published)

\* modem.h: "Enter or exit SIM7080 slow-clock sleep controlled by DTR": a
\* modem_enter_sleep() that returned true has put the modem to sleep.
EnterSleepTruthful == pc = "asleep" /\ slept /\ upsets = 0 => DeviceAsleep

\* modem.h: "Perform full modem bring-up (AT, CFUN, PDP, etc.)", and modem.c:
\* "CoAP init aborted: PDP is not active": CoAP is set up over an active context.
PdpBeforeCoap == pc = "coapinit" /\ upsets = 0 => pdp

-----------------------------------------------------------------------------
(* The inductive invariant behind the safety properties.                   *)

Idle == {"sleep", "asleep"}

\* DTR is high only while the CPU sleeps.
DtrInv == dtr_high => pc = "asleep"

\* The requests a context can have behind it when it begins, and the bring-ups.
Spent ==
  CASE ctx = "fast" -> 0
    [] ctx = "full" -> PublishRetries
    [] ctx = "reinit" -> 2 * PublishRetries
    [] ctx = "restart" -> 2 * PublishRetries + 1

EffortInv ==
  /\ ctx = "fast" => pc \in Idle \cup {"publish"} /\ bringups = 0
  /\ ctx \in {"full", "reinit"} => bringups = 1
  /\ ctx = "restart" => bringups = 2
  /\ pc \notin Idle \cup {"publish"} => attempts <= Spent
  /\ pc = "publish" => tries < Attempts /\ attempts <= Spent + tries
  /\ pc \in Idle => attempts <= Spent + Attempts

\* An optimistic publish that fails does not end the cycle, nor does a recovery
\* that has another behind it, nor the full path once it has made a request.
FallbackInv ==
  /\ ctx = "reinit" => caller = "coap_init"
  /\ pc \in Idle /\ ~published =>
       ctx = "restart" \/ (ctx = "full" /\ attempts <= PublishRetries)

\* As long as the cycle still tries, every request sent has lost its answer.
SentInv == sent <= IF pc \in Idle THEN lost + 1 ELSE lost

\* From ATE0 to the sleep the driver knows that CSCLK is off; otherwise, if
\* nothing was lost, what it believes of CSCLK is true.
CsclkInv ==
  /\ pc \in Stages \ {"at", "echo"} => ~g_sleep_enabled
  /\ lost = 0 /\ upsets = 0 =>
       /\ pc \notin Stages => power
       /\ g_sleep_enabled /\ pc \notin Stages => csclk
       /\ pc = "asleep" => slept /\ dtr_high /\ csclk

IInv ==
  /\ TypeOK
  /\ DtrInv
  /\ EffortInv
  /\ FallbackInv
  /\ SentInv
  /\ CsclkInv

=============================================================================
