------------------------- MODULE ModemSessionProofs -------------------------
(***************************************************************************)
(* Proofs about ModemSession, for every number of retries and any number   *)
(* of lost answers, upsets and resets: the inductive invariant, and what   *)
(* follows from it about sleep, effort and delivery.                       *)
(***************************************************************************)
EXTENDS ModemSession, TLAPS

USE DEF control, flags, results, device, session, history, vars

-----------------------------------------------------------------------------
(* Types: the Booleans apart from the data, since they need different      *)
(* provers.                                                                *)

BooleansTyped ==
  /\ g_pdp_known_active \in BOOLEAN
  /\ g_sleep_enabled \in BOOLEAN
  /\ dtr_high \in BOOLEAN
  /\ slept \in BOOLEAN
  /\ published \in BOOLEAN
  /\ power \in BOOLEAN
  /\ csclk \in BOOLEAN
  /\ pdp \in BOOLEAN
  /\ coap \in BOOLEAN
  /\ net \in BOOLEAN

DataTyped ==
  /\ pc \in Stages \cup {"pdp", "define", "activate", "confirm", "coapinit",
                         "publish", "sleep", "asleep"}
  /\ ctx \in Contexts
  /\ caller \in {"basic_init", "coap_init", "publish"}
  /\ tries \in Nat
  /\ elapsed \in 0 .. InitPatience
  /\ attempts \in Nat
  /\ bringups \in Nat
  /\ sent \in Nat
  /\ lost \in 0 .. MaxLost
  /\ upsets \in 0 .. MaxUpsets
  /\ resets \in 0 .. MaxResets

\* TypeOK in two parts.
LEMMA Typed == TypeOK <=> BooleansTyped /\ DataTyped
BY DEF TypeOK, BooleansTyped, DataTyped

\* The state at power-on satisfies the invariant.
LEMMA InitIInv == Init => IInv
<1>1. Init => BooleansTyped
  BY Zenon DEF Init, BooleansTyped
<1>2. Init => DataTyped
  BY RetriesAssumption, BoundsAssumption DEF Init, DataTyped, Stages, Contexts
<1>3. Init => DtrInv /\ EffortInv /\ FallbackInv /\ SentInv /\ CsclkInv
  BY RetriesAssumption DEF Init, DtrInv, EffortInv, FallbackInv, SentInv,
     CsclkInv, Idle, Spent, Stages, Contexts
<1>4. QED
  BY <1>1, <1>2, <1>3, Typed DEF IInv

\* A pulse, or two, or none, leave the modem's state Boolean.
LEMMA PulseTyped ==
  ASSUME TypeOK, NEW n \in {0, 1, 2}, Pulse(n)
  PROVE  /\ power' \in BOOLEAN
         /\ csclk' \in BOOLEAN
         /\ pdp' \in BOOLEAN
         /\ coap' \in BOOLEAN
<1>1. CASE n = 0
  <2>1. UNCHANGED device
    BY <1>1 DEF Pulse
  <2>2. QED
    BY <2>1, Zenon DEF TypeOK
<1>2. CASE n \in {1, 2}
  <2>1. /\ csclk' = FALSE /\ pdp' = FALSE /\ coap' = FALSE
        /\ \/ power' \in Pulsed(power)
           \/ power' \in UNION {Pulsed(p) : p \in Pulsed(power)}
    BY <1>2 DEF Pulse, NoSession
  <2>2. Pulsed(power) \subseteq BOOLEAN
    BY Zenon DEF Pulsed
  <2>3. UNION {Pulsed(p) : p \in Pulsed(power)} \subseteq BOOLEAN
    BY Zenon DEF Pulsed
  <2>4. power' \in BOOLEAN
    BY <2>1, <2>2, <2>3, Zenon
  <2>5. QED
    BY <2>1, <2>4, Zenon
<1>3. QED
  BY <1>1, <1>2

\* Every step keeps the Booleans Boolean.
LEMMA BooleansStep == TypeOK /\ [Next]_vars => BooleansTyped'
<1> SUFFICES ASSUME TypeOK, [Next]_vars PROVE BooleansTyped'
  OBVIOUS
<1> USE DEF BooleansTyped
<1>1. CASE StageOk
  BY <1>1, Typed, Zenon DEF StageOk, Passes, After, AfterEcho
<1>2. CASE StageFails
  <2>1. RetryPulses + TimeoutPulses \in {0, 1, 2}
    BY DEF RetryPulses, TimeoutPulses
  <2>2. Pulse(RetryPulses + TimeoutPulses)
    BY <1>2 DEF StageFails
  <2>3. /\ power' \in BOOLEAN /\ csclk' \in BOOLEAN
        /\ pdp' \in BOOLEAN /\ coap' \in BOOLEAN
    BY <2>1, <2>2, PulseTyped
  <2>4. UNCHANGED <<flags, dtr_high, results, net>>
    BY <1>2 DEF StageFails
  <2>5. QED
    BY <2>3, <2>4, Typed, Zenon
<1>3. CASE PdpKnown
  BY <1>3, Typed, Zenon DEF PdpKnown, PdpQuery, PdpOk, EnsurePdp,
     StartPublish
<1>4. CASE PdpUnknown
  BY <1>4, Typed, Zenon DEF PdpUnknown
<1>5. CASE DefinePdp
  BY <1>5, Typed, Zenon DEF DefinePdp, PdpFailed, EnsurePdp,
     CoapInitFailed, BasicInit, Pulse, Pulsed, NoSession, GoToSleep
<1>6. CASE ActivatePdp
  BY <1>6, Typed, Zenon DEF ActivatePdp
<1>7. CASE PdpConfirmed
  BY <1>7, Typed, Zenon DEF PdpConfirmed, PdpQuery, PdpOk, EnsurePdp,
     StartPublish
<1>8. CASE PdpNotYet
  BY <1>8, Typed, Zenon DEF PdpNotYet, PdpFailed, EnsurePdp,
     CoapInitFailed, BasicInit, Pulse, Pulsed, NoSession, GoToSleep
<1>9. CASE CoapInitOk
  BY <1>9, Typed, Zenon DEF CoapInitOk, CoapReady, EnsurePdp, StartPublish
<1>10. CASE CoapInitFails
  BY <1>10, Typed, Zenon DEF CoapInitFails, CoapInitFailed, BasicInit,
     Pulse, Pulsed, NoSession, GoToSleep, CoapInitUnheard, CoapReady, Lost
<1>11. CASE PublishOk
  BY <1>11, Typed, Zenon DEF PublishOk, AfterPublish
<1>12. CASE PublishFails
  <2>1. UNCHANGED <<flags, dtr_high, results, net>>
    BY <1>12 DEF PublishFails
  <2>2. UNCHANGED device \/ Pulse(1)
    <3>1. CASE tries + 1 < Attempts
      BY <1>12, <3>1 DEF PublishFails
    <3>2. CASE ~(tries + 1 < Attempts)
      BY <1>12, <3>2 DEF PublishFails, Fallback, BasicInit
    <3>3. QED
      BY <3>1, <3>2
  <2>3. CASE UNCHANGED device
    BY <2>1, <2>3, Typed, Zenon
  <2>4. CASE Pulse(1)
    <3>1. /\ power' \in BOOLEAN /\ csclk' \in BOOLEAN
          /\ pdp' \in BOOLEAN /\ coap' \in BOOLEAN
      BY <2>4, PulseTyped
    <3>2. QED
      BY <2>1, <3>1, Typed, Zenon
  <2>5. QED
    BY <2>2, <2>3, <2>4
<1>13. CASE EnterSleep
  BY <1>13, Typed, Zenon DEF EnterSleep, SleepOk, SleepRefused
<1>14. CASE FastWake
  BY <1>14, Typed, Zenon DEF FastWake, StartDriver, ExitDtr, StartPublish
<1>15. CASE ColdBoot
  BY <1>15, Typed, Zenon DEF ColdBoot, StartDriver, ExitDtr, Pulsed,
     NoSession
<1>16. CASE DeviceRestarts
  BY <1>16, Typed, Zenon DEF DeviceRestarts, NoSession
<1>17. CASE PdpDrops
  BY <1>17, Typed, Zenon DEF PdpDrops
<1>18. CASE Coverage
  BY <1>18, Typed, Zenon DEF Coverage
<1>19. CASE UNCHANGED vars
  BY <1>19, Typed, Zenon
<1>20. QED
  BY <1>1, <1>2, <1>3, <1>4, <1>5, <1>6, <1>7, <1>8, <1>9, <1>10, <1>11,
     <1>12, <1>13, <1>14, <1>15, <1>16, <1>17, <1>18, <1>19 DEF Next, Cpu

\* Every step keeps the other variables in their ranges.
LEMMA DataStep == TypeOK /\ [Next]_vars => DataTyped'
<1> SUFFICES ASSUME TypeOK, [Next]_vars PROVE DataTyped'
  OBVIOUS
<1> USE DEF DataTyped, Stages, Contexts
<1>1. CASE StageOk
  BY <1>1, Typed, RetriesAssumption, BoundsAssumption DEF StageOk,
     Answered, Passes, After, AfterEcho
<1>2. CASE StageFails
  BY <1>2, Typed, RetriesAssumption, BoundsAssumption DEF StageFails,
     FailsUnless, Answered, Lost, Deaf, Passes, RetryPulses,
     TimeoutPulses, RetryPulse, InitTimeout
<1>3. CASE PdpKnown
  BY <1>3, Typed, RetriesAssumption, BoundsAssumption DEF PdpKnown,
     Answered, PdpQuery, PdpOk, EnsurePdp, StartPublish
<1>4. CASE PdpUnknown
  BY <1>4, Typed, RetriesAssumption, BoundsAssumption DEF PdpUnknown,
     FailsUnless, Answered, Lost, Deaf
<1>5. CASE DefinePdp
  BY <1>5, Typed, RetriesAssumption, BoundsAssumption DEF DefinePdp,
     Answered, Lost, Deaf, PdpFailed, EnsurePdp, CoapInitFailed,
     BasicInit, GoToSleep
<1>6. CASE ActivatePdp
  BY <1>6, Typed, RetriesAssumption, BoundsAssumption DEF ActivatePdp,
     Answered, Lost, Deaf
<1>7. CASE PdpConfirmed
  BY <1>7, Typed, RetriesAssumption, BoundsAssumption DEF PdpConfirmed,
     Answered, PdpQuery, PdpOk, EnsurePdp, StartPublish
<1>8. CASE PdpNotYet
  BY <1>8, Typed, RetriesAssumption, BoundsAssumption DEF PdpNotYet,
     FailsUnless, Answered, Lost, Deaf, PdpFailed, EnsurePdp,
     CoapInitFailed, BasicInit, GoToSleep
<1>9. CASE CoapInitOk
  BY <1>9, Typed, RetriesAssumption, BoundsAssumption DEF CoapInitOk,
     Answered, CoapReady, EnsurePdp, StartPublish
<1>10. CASE CoapInitFails
  BY <1>10, Typed, RetriesAssumption, BoundsAssumption DEF CoapInitFails,
     CoapInitUnheard, FailsUnless, Answered, Lost, Deaf, CoapInitFailed, BasicInit,
     GoToSleep
<1>11. CASE PublishOk
  BY <1>11, Typed, RetriesAssumption, BoundsAssumption DEF PublishOk,
     Answered, AfterPublish
<1>12. CASE PublishFails
  BY <1>12, Typed, RetriesAssumption, BoundsAssumption DEF PublishFails,
     FailsUnless, Answered, Lost, Deaf, Fallback, BasicInit, EnsurePdp,
     GoToSleep
<1>13. CASE EnterSleep
  <2>1. CASE SleepOk
    BY <1>13, <2>1, Typed, RetriesAssumption, BoundsAssumption DEF
       EnterSleep, SleepOk, SleepRefused, Answered, Lost, Deaf
  <2>2. CASE SleepRefused
    BY <1>13, <2>2, Typed, RetriesAssumption, BoundsAssumption DEF
       EnterSleep, SleepOk, SleepRefused, Answered, Lost, Deaf
  <2>3. QED
    BY <1>13, <2>1, <2>2 DEF EnterSleep
<1>14. CASE FastWake
  BY <1>14, Typed, RetriesAssumption, BoundsAssumption DEF FastWake,
     StartDriver, ExitDtr, StartPublish
<1>15. CASE ColdBoot
  BY <1>15, Typed, RetriesAssumption, BoundsAssumption DEF ColdBoot,
     StartDriver, ExitDtr
<1>16. CASE DeviceRestarts
  BY <1>16, Typed, RetriesAssumption, BoundsAssumption DEF DeviceRestarts
<1>17. CASE PdpDrops
  BY <1>17, Typed, RetriesAssumption, BoundsAssumption DEF PdpDrops
<1>18. CASE Coverage
  BY <1>18, Typed, RetriesAssumption, BoundsAssumption DEF Coverage
<1>19. CASE UNCHANGED vars
  BY <1>19, Typed, RetriesAssumption, BoundsAssumption
<1>20. QED
  BY <1>1, <1>2, <1>3, <1>4, <1>5, <1>6, <1>7, <1>8, <1>9, <1>10, <1>11,
     <1>12, <1>13, <1>14, <1>15, <1>16, <1>17, <1>18, <1>19 DEF Next, Cpu

-----------------------------------------------------------------------------
(* The parts of the invariant.                                             *)

\* Only modem_enter_sleep() raises DTR, and every boot lowers it.
LEMMA DtrStep == IInv /\ [Next]_vars => DtrInv'
<1> SUFFICES ASSUME IInv, [Next]_vars PROVE DtrInv'
  OBVIOUS
<1> USE DEF IInv, DtrInv, TypeOK, Stages
<1>1. CASE StageOk
  BY <1>1 DEF StageOk, Answered, Passes, After, AfterEcho
<1>2. CASE StageFails
  BY <1>2 DEF StageFails, FailsUnless, Answered, Lost, Deaf, Passes,
     RetryPulses, TimeoutPulses, RetryPulse, InitTimeout
<1>3. CASE PdpKnown
  BY <1>3 DEF PdpKnown, Answered, PdpQuery, PdpOk, EnsurePdp, StartPublish
<1>4. CASE PdpUnknown
  BY <1>4 DEF PdpUnknown, FailsUnless, Answered, Lost, Deaf
<1>5. CASE DefinePdp
  BY <1>5 DEF DefinePdp, Answered, Lost, Deaf, PdpFailed, EnsurePdp,
     CoapInitFailed, BasicInit, GoToSleep
<1>6. CASE ActivatePdp
  BY <1>6 DEF ActivatePdp, Answered, Lost, Deaf
<1>7. CASE PdpConfirmed
  BY <1>7 DEF PdpConfirmed, Answered, PdpQuery, PdpOk, EnsurePdp,
     StartPublish
<1>8. CASE PdpNotYet
  BY <1>8 DEF PdpNotYet, FailsUnless, Answered, Lost, Deaf, PdpFailed,
     EnsurePdp, CoapInitFailed, BasicInit, GoToSleep
<1>9. CASE CoapInitOk
  BY <1>9 DEF CoapInitOk, Answered, CoapReady, EnsurePdp, StartPublish
<1>10. CASE CoapInitFails
  BY <1>10 DEF CoapInitFails, CoapInitUnheard, FailsUnless, Answered, Lost, Deaf,
     CoapInitFailed, BasicInit, GoToSleep
<1>11. CASE PublishOk
  BY <1>11 DEF PublishOk, Answered, AfterPublish
<1>12. CASE PublishFails
  BY <1>12 DEF PublishFails, FailsUnless, Answered, Lost, Deaf, Fallback,
     BasicInit, EnsurePdp, GoToSleep
<1>13. CASE EnterSleep
  BY <1>13 DEF EnterSleep, SleepOk, SleepRefused, Answered, Lost, Deaf
<1>14. CASE FastWake
  BY <1>14 DEF FastWake, StartDriver, ExitDtr, StartPublish
<1>15. CASE ColdBoot
  BY <1>15 DEF ColdBoot, StartDriver, ExitDtr
<1>16. CASE DeviceRestarts
  BY <1>16 DEF DeviceRestarts
<1>17. CASE PdpDrops
  BY <1>17 DEF PdpDrops
<1>18. CASE Coverage
  BY <1>18 DEF Coverage
<1>19. CASE UNCHANGED vars
  BY <1>19
<1>20. QED
  BY <1>1, <1>2, <1>3, <1>4, <1>5, <1>6, <1>7, <1>8, <1>9, <1>10, <1>11,
     <1>12, <1>13, <1>14, <1>15, <1>16, <1>17, <1>18, <1>19 DEF Next, Cpu

\* The attempts and bring-ups of a boot add up along the fallbacks.
LEMMA EffortStep == IInv /\ [Next]_vars => EffortInv'
<1> SUFFICES ASSUME IInv, [Next]_vars PROVE EffortInv'
  OBVIOUS
<1> USE DEF IInv, EffortInv, TypeOK, Idle, Spent, Attempts, Stages, Contexts
<1>1. CASE StageOk
  BY <1>1, RetriesAssumption DEF StageOk, Answered, Passes, After,
     AfterEcho
<1>2. CASE StageFails
  BY <1>2, RetriesAssumption DEF StageFails, FailsUnless, Answered, Lost,
     Deaf, Passes, RetryPulses, TimeoutPulses, RetryPulse, InitTimeout
<1>3. CASE PdpKnown
  BY <1>3, RetriesAssumption DEF PdpKnown, Answered, PdpQuery, PdpOk,
     EnsurePdp, StartPublish
<1>4. CASE PdpUnknown
  BY <1>4, RetriesAssumption DEF PdpUnknown, FailsUnless, Answered, Lost,
     Deaf
<1>5. CASE DefinePdp
  BY <1>5, RetriesAssumption DEF DefinePdp, Answered, Lost, Deaf,
     PdpFailed, EnsurePdp, CoapInitFailed, BasicInit, GoToSleep
<1>6. CASE ActivatePdp
  BY <1>6, RetriesAssumption DEF ActivatePdp, Answered, Lost, Deaf
<1>7. CASE PdpConfirmed
  BY <1>7, RetriesAssumption DEF PdpConfirmed, Answered, PdpQuery, PdpOk,
     EnsurePdp, StartPublish
<1>8. CASE PdpNotYet
  BY <1>8, RetriesAssumption DEF PdpNotYet, FailsUnless, Answered, Lost,
     Deaf, PdpFailed, EnsurePdp, CoapInitFailed, BasicInit, GoToSleep
<1>9. CASE CoapInitOk
  BY <1>9, RetriesAssumption DEF CoapInitOk, Answered, CoapReady,
     EnsurePdp, StartPublish
<1>10. CASE CoapInitFails
  BY <1>10, RetriesAssumption DEF CoapInitFails, CoapInitUnheard, FailsUnless, Answered,
     Lost, Deaf, CoapInitFailed, BasicInit, GoToSleep
<1>11. CASE PublishOk
  BY <1>11, RetriesAssumption DEF PublishOk, Answered, AfterPublish
<1>12. CASE PublishFails
  BY <1>12, RetriesAssumption DEF PublishFails, FailsUnless, Answered,
     Lost, Deaf, Fallback, BasicInit, EnsurePdp, GoToSleep
<1>13. CASE EnterSleep
  BY <1>13, RetriesAssumption DEF EnterSleep, SleepOk, SleepRefused,
     Answered, Lost, Deaf
<1>14. CASE FastWake
  BY <1>14, RetriesAssumption DEF FastWake, StartDriver, ExitDtr,
     StartPublish
<1>15. CASE ColdBoot
  BY <1>15, RetriesAssumption DEF ColdBoot, StartDriver, ExitDtr
<1>16. CASE DeviceRestarts
  BY <1>16, RetriesAssumption DEF DeviceRestarts
<1>17. CASE PdpDrops
  BY <1>17, RetriesAssumption DEF PdpDrops
<1>18. CASE Coverage
  BY <1>18, RetriesAssumption DEF Coverage
<1>19. CASE UNCHANGED vars
  BY <1>19, RetriesAssumption
<1>20. QED
  BY <1>1, <1>2, <1>3, <1>4, <1>5, <1>6, <1>7, <1>8, <1>9, <1>10, <1>11,
     <1>12, <1>13, <1>14, <1>15, <1>16, <1>17, <1>18, <1>19 DEF Next, Cpu

\* A publish that fails leads to sleep only behind the last recovery.
LEMMA FallbackStep == IInv /\ [Next]_vars => FallbackInv'
<1> SUFFICES ASSUME IInv, [Next]_vars PROVE FallbackInv'
  OBVIOUS
<1> USE DEF IInv, EffortInv, FallbackInv, TypeOK, Idle, Spent, Contexts, Stages
<1>1. CASE StageOk
  BY <1>1 DEF StageOk, Answered, Passes, After, AfterEcho
<1>2. CASE StageFails
  BY <1>2 DEF StageFails, FailsUnless, Answered, Lost, Deaf, Passes,
     RetryPulses, TimeoutPulses, RetryPulse, InitTimeout
<1>3. CASE PdpKnown
  BY <1>3 DEF PdpKnown, Answered, PdpQuery, PdpOk, EnsurePdp, StartPublish
<1>4. CASE PdpUnknown
  BY <1>4 DEF PdpUnknown, FailsUnless, Answered, Lost, Deaf
<1>5. CASE DefinePdp
  BY <1>5 DEF DefinePdp, Answered, Lost, Deaf, PdpFailed, EnsurePdp,
     CoapInitFailed, BasicInit, GoToSleep
<1>6. CASE ActivatePdp
  BY <1>6 DEF ActivatePdp, Answered, Lost, Deaf
<1>7. CASE PdpConfirmed
  BY <1>7 DEF PdpConfirmed, Answered, PdpQuery, PdpOk, EnsurePdp,
     StartPublish
<1>8. CASE PdpNotYet
  BY <1>8 DEF PdpNotYet, FailsUnless, Answered, Lost, Deaf, PdpFailed,
     EnsurePdp, CoapInitFailed, BasicInit, GoToSleep
<1>9. CASE CoapInitOk
  BY <1>9 DEF CoapInitOk, Answered, CoapReady, EnsurePdp, StartPublish
<1>10. CASE CoapInitFails
  BY <1>10 DEF CoapInitFails, CoapInitUnheard, FailsUnless, Answered, Lost, Deaf,
     CoapInitFailed, BasicInit, GoToSleep
<1>11. CASE PublishOk
  BY <1>11 DEF PublishOk, Answered, AfterPublish
<1>12. CASE PublishFails
  BY <1>12 DEF PublishFails, FailsUnless, Answered, Lost, Deaf, Fallback,
     BasicInit, EnsurePdp, GoToSleep
<1>13. CASE EnterSleep
  <2>1. CASE SleepOk
    BY <1>13, <2>1 DEF EnterSleep, SleepOk, SleepRefused, Answered, Lost,
       Deaf
  <2>2. CASE SleepRefused
    BY <1>13, <2>2 DEF EnterSleep, SleepOk, SleepRefused, Answered, Lost,
       Deaf
  <2>3. QED
    BY <1>13, <2>1, <2>2 DEF EnterSleep
<1>14. CASE FastWake
  BY <1>14 DEF FastWake, StartDriver, ExitDtr, StartPublish
<1>15. CASE ColdBoot
  BY <1>15 DEF ColdBoot, StartDriver, ExitDtr
<1>16. CASE DeviceRestarts
  BY <1>16 DEF DeviceRestarts
<1>17. CASE PdpDrops
  BY <1>17 DEF PdpDrops
<1>18. CASE Coverage
  BY <1>18 DEF Coverage
<1>19. CASE UNCHANGED vars
  BY <1>19
<1>20. QED
  BY <1>1, <1>2, <1>3, <1>4, <1>5, <1>6, <1>7, <1>8, <1>9, <1>10, <1>11,
     <1>12, <1>13, <1>14, <1>15, <1>16, <1>17, <1>18, <1>19 DEF Next, Cpu

\* The first request that is answered is the last one sent.
LEMMA SentStep == IInv /\ [Next]_vars => SentInv'
<1> SUFFICES ASSUME IInv, [Next]_vars PROVE SentInv'
  OBVIOUS
<1> USE DEF IInv, SentInv, TypeOK, Idle, Stages
<1>1. CASE StageOk
  BY <1>1 DEF StageOk, Answered, Passes, After, AfterEcho
<1>2. CASE StageFails
  BY <1>2 DEF StageFails, FailsUnless, Answered, Lost, Deaf, Passes,
     RetryPulses, TimeoutPulses, RetryPulse, InitTimeout
<1>3. CASE PdpKnown
  BY <1>3 DEF PdpKnown, Answered, PdpQuery, PdpOk, EnsurePdp, StartPublish
<1>4. CASE PdpUnknown
  BY <1>4 DEF PdpUnknown, FailsUnless, Answered, Lost, Deaf
<1>5. CASE DefinePdp
  BY <1>5 DEF DefinePdp, Answered, Lost, Deaf, PdpFailed, EnsurePdp,
     CoapInitFailed, BasicInit, GoToSleep
<1>6. CASE ActivatePdp
  BY <1>6 DEF ActivatePdp, Answered, Lost, Deaf
<1>7. CASE PdpConfirmed
  BY <1>7 DEF PdpConfirmed, Answered, PdpQuery, PdpOk, EnsurePdp,
     StartPublish
<1>8. CASE PdpNotYet
  BY <1>8 DEF PdpNotYet, FailsUnless, Answered, Lost, Deaf, PdpFailed,
     EnsurePdp, CoapInitFailed, BasicInit, GoToSleep
<1>9. CASE CoapInitOk
  BY <1>9 DEF CoapInitOk, Answered, CoapReady, EnsurePdp, StartPublish
<1>10. CASE CoapInitFails
  BY <1>10 DEF CoapInitFails, CoapInitUnheard, FailsUnless, Answered, Lost, Deaf,
     CoapInitFailed, BasicInit, GoToSleep
<1>11. CASE PublishOk
  BY <1>11 DEF PublishOk, Answered, AfterPublish
<1>12. CASE PublishFails
  BY <1>12 DEF PublishFails, FailsUnless, Answered, Lost, Deaf, Fallback,
     BasicInit, EnsurePdp, GoToSleep
<1>13. CASE EnterSleep
  BY <1>13 DEF EnterSleep, SleepOk, SleepRefused, Answered, Lost, Deaf
<1>14. CASE FastWake
  BY <1>14 DEF FastWake, StartDriver, ExitDtr, StartPublish
<1>15. CASE ColdBoot
  BY <1>15 DEF ColdBoot, StartDriver, ExitDtr
<1>16. CASE DeviceRestarts
  BY <1>16 DEF DeviceRestarts
<1>17. CASE PdpDrops
  BY <1>17 DEF PdpDrops
<1>18. CASE Coverage
  BY <1>18 DEF Coverage
<1>19. CASE UNCHANGED vars
  BY <1>19
<1>20. QED
  BY <1>1, <1>2, <1>3, <1>4, <1>5, <1>6, <1>7, <1>8, <1>9, <1>10, <1>11,
     <1>12, <1>13, <1>14, <1>15, <1>16, <1>17, <1>18, <1>19 DEF Next, Cpu

\* What the driver believes of CSCLK stays true as long as nothing is lost.
LEMMA CsclkStep == IInv /\ [Next]_vars => CsclkInv'
<1> SUFFICES ASSUME IInv, [Next]_vars PROVE CsclkInv'
  OBVIOUS
<1> USE DEF IInv, CsclkInv, EffortInv, DtrInv, TypeOK, Idle, Stages
<1>1. CASE StageOk
  BY <1>1 DEF StageOk, Answered, Passes, After, AfterEcho, Replies
<1>2. CASE StageFails
  BY <1>2 DEF StageFails, FailsUnless, Answered, Lost, Deaf, Passes,
     RetryPulses, TimeoutPulses, RetryPulse, InitTimeout
<1>3. CASE PdpKnown
  BY <1>3 DEF PdpKnown, Answered, PdpQuery, PdpOk, EnsurePdp, StartPublish
<1>4. CASE PdpUnknown
  BY <1>4 DEF PdpUnknown, FailsUnless, Answered, Lost, Deaf
<1>5. CASE DefinePdp
  BY <1>5 DEF DefinePdp, Answered, Lost, Deaf, PdpFailed, EnsurePdp,
     CoapInitFailed, BasicInit, GoToSleep
<1>6. CASE ActivatePdp
  BY <1>6 DEF ActivatePdp, Answered, Lost, Deaf
<1>7. CASE PdpConfirmed
  BY <1>7 DEF PdpConfirmed, Answered, PdpQuery, PdpOk, EnsurePdp,
     StartPublish
<1>8. CASE PdpNotYet
  BY <1>8 DEF PdpNotYet, FailsUnless, Answered, Lost, Deaf, PdpFailed,
     EnsurePdp, CoapInitFailed, BasicInit, GoToSleep
<1>9. CASE CoapInitOk
  BY <1>9 DEF CoapInitOk, Answered, CoapReady, EnsurePdp, StartPublish
<1>10. CASE CoapInitFails
  BY <1>10 DEF CoapInitFails, CoapInitUnheard, FailsUnless, Answered, Lost, Deaf,
     CoapInitFailed, BasicInit, GoToSleep
<1>11. CASE PublishOk
  BY <1>11 DEF PublishOk, Answered, AfterPublish
<1>12. CASE PublishFails
  BY <1>12 DEF PublishFails, FailsUnless, Answered, Lost, Deaf, Fallback,
     BasicInit, EnsurePdp, GoToSleep
<1>13. CASE EnterSleep
  <2>1. CASE SleepOk
    BY <1>13, <2>1 DEF EnterSleep, SleepOk, SleepRefused, Answered, Lost,
       Deaf, Replies, DeviceAsleep
  <2>2. CASE SleepRefused
    BY <1>13, <2>2 DEF EnterSleep, SleepOk, SleepRefused, Answered, Lost,
       Deaf, Replies, DeviceAsleep
  <2>3. QED
    BY <1>13, <2>1, <2>2 DEF EnterSleep
<1>14. CASE FastWake
  BY <1>14 DEF FastWake, StartDriver, ExitDtr, StartPublish
<1>15. CASE ColdBoot
  BY <1>15 DEF ColdBoot, StartDriver, ExitDtr
<1>16. CASE DeviceRestarts
  BY <1>16 DEF DeviceRestarts
<1>17. CASE PdpDrops
  BY <1>17 DEF PdpDrops
<1>18. CASE Coverage
  BY <1>18 DEF Coverage
<1>19. CASE UNCHANGED vars
  BY <1>19
<1>20. QED
  BY <1>1, <1>2, <1>3, <1>4, <1>5, <1>6, <1>7, <1>8, <1>9, <1>10, <1>11,
     <1>12, <1>13, <1>14, <1>15, <1>16, <1>17, <1>18, <1>19 DEF Next, Cpu

-----------------------------------------------------------------------------
(* The theorems.                                                           *)

\* The invariant holds in every reachable state.
THEOREM Invariant == Spec => []IInv
<1>1. IInv /\ [Next]_vars => IInv'
  <2> SUFFICES ASSUME IInv, [Next]_vars PROVE IInv'
    OBVIOUS
  <2>1. TypeOK'
    <3>1. TypeOK
      BY DEF IInv
    <3>2. BooleansTyped' /\ DataTyped'
      BY <3>1, BooleansStep, DataStep
    <3>3. QED
      BY <3>2 DEF TypeOK, BooleansTyped, DataTyped
  <2>2. DtrInv' /\ EffortInv' /\ FallbackInv' /\ SentInv' /\ CsclkInv'
    BY DtrStep, EffortStep, FallbackStep, SentStep, CsclkStep
  <2>3. QED
    BY <2>1, <2>2 DEF IInv
<1>2. QED
  BY <1>1, InitIInv, PTL DEF Spec

\* Every variable of the driver and of the modem keeps its type.
THEOREM TypeCorrect == Spec => []TypeOK
<1>1. IInv => TypeOK
  BY DEF IInv
<1>2. QED
  BY <1>1, Invariant, PTL

\* No command is sent to a modem that DTR holds asleep.
THEOREM AwakeCorrect == Spec => []AwakeIsAwake
<1>1. IInv => AwakeIsAwake
  BY DEF IInv, DtrInv, AwakeIsAwake, DeviceAsleep
<1>2. QED
  BY <1>1, Invariant, PTL

\* If no answer was lost and the modem did not misbehave, a sleeping probe
\* has a sleeping modem, however often it was brought up and reset.
THEOREM SleepCorrect == Spec => []SleepsForReal
<1>1. IInv => SleepsForReal
  BY DEF IInv, CsclkInv, SleepsForReal, DeviceAsleep, Stages
<1>2. QED
  BY <1>1, Invariant, PTL

\* The requests and bring-ups of a boot are bounded, for every retry count.
THEOREM EffortCorrect == Spec => []BoundedEffort
<1>1. IInv => BoundedEffort
  BY RetriesAssumption DEF IInv, TypeOK, EffortInv, BoundedEffort, Spent, Attempts,
     Idle, Contexts
<1>2. QED
  BY <1>1, Invariant, PTL

\* No cycle ends unpublished before the last recovery, unless its full path could
\* make no request, and a wake that publishes at once brings nothing up.
THEOREM FallbackCorrect == Spec => []GivesUpLast
<1>1. IInv => GivesUpLast
  BY DEF IInv, TypeOK, EffortInv, FallbackInv, GivesUpLast, Idle, Contexts
<1>2. QED
  BY <1>1, Invariant, PTL

\* A measurement is sent once more than answers were lost, at most.
THEOREM SentCorrect == Spec => []SentOnce
<1>1. IInv => SentOnce
  BY DEF IInv, TypeOK, SentInv, SentOnce
<1>2. QED
  BY <1>1, Invariant, PTL

=============================================================================
