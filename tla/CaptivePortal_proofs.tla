------------------------- MODULE CaptivePortal_proofs -------------------------
(***************************************************************************)
(* What holds of the captive portal modules for all their constants.       *)
(* CaptivePortalService: its types, the agreement of state, timer and      *)
(* probe, the agreement of backoff and history, the delay between probes,  *)
(* and that it implements CaptivePortalCheck.  CaptivePortal: no tab waits *)
(* for an answer that will not come, none is held broken after the portal  *)
(* is gone, the helper's raw pointer and the reloader's flags follow the   *)
(* same load, there is one login tab, and only tabs that a portal broke,   *)
(* or may have, are reloaded, without interrupting a load.                 *)
(***************************************************************************)
EXTENDS CaptivePortalService, CaptivePortal, FiniteSetTheorems, TLAPS

\* Checks are begun only below the bound, and the count grows only at the end
\* of one; so it stays below the bound while a check is outstanding.
RoomForCheck == state # "IDLE" => numChecks < MaxChecks

\* ServiceTypeOK alone is not inductive: that numChecks stays within its bound depends
\* on when checks begin, and what a completing probe finds on BusyConsistent.
ServiceInv == ServiceTypeOK /\ BusyConsistent /\ RoomForCheck /\ BackoffMatchesHistory

\* The types of the backoff entry and of the timer.
Entries == [initialDelay : Nat, failures : Nat, release : Nat]
Timers == [running : BOOLEAN, left : Nat]

USE DEF DetectionResults, States, clientVars, historyVars, serviceVars, StoppedTimer

\* A fresh backoff entry is well typed and has no failures.
LEMMA FreshEntry ==
    ASSUME NEW on \in BOOLEAN, NEW result \in DetectionResults
    PROVE  /\ ResetBackoffEntry(on, result) \in Entries
           /\ ResetBackoffEntry(on, result).failures = 0
           /\ ResetBackoffEntry(on, result).release = 0
           /\ ResetBackoffEntry(on, result).initialDelay =
                 IF ~on \/ result = "BEHIND_CAPTIVE_PORTAL"
                 THEN InitialBackoffPortal ELSE InitialBackoffNoPortal
BY DelaysAssumption DEF ResetBackoffEntry, Entries

\* The invariant holds when the constructor returns.
LEMMA ServiceInitInv == ServiceInit => ServiceInv
<1> SUFFICES ASSUME ServiceInit PROVE ServiceInv
  OBVIOUS
<1>1. ServiceTypeOK
  <2>1. backoff \in Entries
    BY FreshEntry DEF ServiceInit
  <2>2. timer \in Timers
    BY DEF ServiceInit, Timers
  <2>3. numChecks \in 0..MaxChecks /\ prefChanges \in 0..MaxPrefChanges /\ sinceCheck \in Nat
    BY BoundsAssumption DEF ServiceInit
  <2> QED BY <2>1, <2>2, <2>3 DEF ServiceInit, ServiceTypeOK, Entries, Timers
<1>2. BusyConsistent /\ RoomForCheck
  BY DEF ServiceInit, BusyConsistent, RoomForCheck
<1>3. BackoffMatchesHistory
  BY FreshEntry DEF ServiceInit, BackoffMatchesHistory
<1> QED BY <1>1, <1>2, <1>3 DEF ServiceInv

\* Every step of the service preserves the invariant.
LEMMA ServiceNextInv == ServiceInv /\ [ServiceNext]_serviceVars => ServiceInv'
<1> SUFFICES ASSUME ServiceInv, [ServiceNext]_serviceVars PROVE ServiceInv'
  OBVIOUS
<1> USE DEF ServiceInv
<1>1. CASE DetectCaptivePortal
  BY <1>1 DEF DetectCaptivePortal, ServiceTypeOK, BusyConsistent, RoomForCheck, BackoffMatchesHistory
<1>2. CASE StartProbe
  BY <1>2 DEF StartProbe, ServiceTypeOK, BusyConsistent, RoomForCheck, BackoffMatchesHistory
<1>3. CASE ClaimConnected
  <2>1. backoff \in Entries /\ backoff.failures = 0
    BY <1>3 DEF ClaimConnected, ServiceTypeOK, BackoffMatchesHistory, Entries
  <2>2. Larger(backoff.initialDelay, backoff.release) \in Nat
    BY <2>1 DEF Larger, Entries
  <2>3. backoff' = [backoff EXCEPT !.failures = 0,
                                   !.release = Larger(backoff.initialDelay, backoff.release)]
    BY <1>3, <2>1 DEF ClaimConnected, InformOfSuccess, Entries
  <2>4. /\ backoff' \in Entries
        /\ backoff'.failures = 0
        /\ backoff'.initialDelay = backoff.initialDelay
    BY <2>1, <2>2, <2>3 DEF Entries
  <2> QED
    BY <1>3, <2>1, <2>4 DEF ClaimConnected, OnResult, ServiceTypeOK, BusyConsistent, RoomForCheck,
                            BackoffMatchesHistory, Entries
<1>4. ASSUME NEW result \in DetectionResults, NEW retryAfter \in RetryAfters,
             OnPortalDetectionCompleted(result, retryAfter)
      PROVE  ServiceInv'
  <2> USE <1>4 DEF OnPortalDetectionCompleted, OnResult
  <2>1. retryAfter \in Nat /\ MaxChecks \in Nat \ {0}
    BY DelaysAssumption, BoundsAssumption
  <2>2. state = "CHECKING_FOR_PORTAL" /\ enabled /\ numChecks < MaxChecks /\ ~timer.running
    BY DEF BusyConsistent, RoomForCheck
  <2>3. BusyConsistent' /\ RoomForCheck'
    BY <2>2 DEF BusyConsistent, RoomForCheck
  <2>4. CASE ~checkedBefore \/ result # lastResult
    <3>1. /\ numChecks' = 1
          /\ backoff' = [ResetBackoffEntry(enabled, result) EXCEPT !.release = retryAfter]
      BY <2>4 DEF NewResult, SetCustomReleaseTime
    <3>2. /\ backoff' \in Entries
          /\ backoff'.failures = 0
          /\ backoff'.initialDelay = IF result = "BEHIND_CAPTIVE_PORTAL"
                                     THEN InitialBackoffPortal ELSE InitialBackoffNoPortal
      BY <2>1, <2>2, <3>1, FreshEntry DEF Entries
    <3>3. ServiceTypeOK'
      <4>1. numChecks' \in 0..MaxChecks /\ sinceCheck' \in Nat
        BY <2>1, <3>1
      <4> QED BY <3>2, <4>1 DEF ServiceTypeOK, Entries
    <3>4. BackoffMatchesHistory'
      <4>1. checkedBefore' /\ enabled' /\ numChecks' = 1 /\ lastResult' = result
        BY <2>2, <3>1
      <4> QED BY <3>2, <4>1 DEF BackoffMatchesHistory
    <3> QED BY <2>3, <3>3, <3>4
  <2>5. CASE checkedBefore /\ result = lastResult
    <3>1. PICK delay \in Delays(backoff.initialDelay, backoff.failures + 1) :
             backoff' = InformOfFailure(SetCustomReleaseTime(backoff, retryAfter), delay)
      BY <2>5 DEF SameResult
    <3>2. delay \in Nat
      BY <3>1, DelaysAssumption DEF Delays
    <3>3. numChecks' = numChecks + 1 /\ numChecks > 0
      BY <2>5 DEF SameResult, BackoffMatchesHistory
    <3>4. /\ backoff \in Entries
          /\ backoff.failures + 1 \in Nat
          /\ Larger(retryAfter, delay) \in Nat
      BY <2>1, <3>2 DEF Larger, ServiceTypeOK, Entries
    <3>5. backoff' = [backoff EXCEPT !.failures = backoff.failures + 1,
                                     !.release = Larger(retryAfter, delay)]
      BY <3>1, <3>4 DEF InformOfFailure, SetCustomReleaseTime, Entries
    <3>6. /\ backoff' \in Entries
          /\ backoff'.failures = backoff.failures + 1
          /\ backoff'.initialDelay = backoff.initialDelay
      BY <3>4, <3>5 DEF Entries
    <3>7. ServiceTypeOK'
      <4>1. numChecks' \in 0..MaxChecks /\ sinceCheck' \in Nat
        BY <2>1, <2>2, <3>3 DEF ServiceTypeOK
      <4> QED BY <3>6, <4>1 DEF ServiceTypeOK, Entries
    <3>8. BackoffMatchesHistory'
      BY <2>2, <2>5, <3>3, <3>6 DEF BackoffMatchesHistory, ServiceTypeOK
    <3> QED BY <2>3, <3>7, <3>8
  <2> QED BY <2>4, <2>5
<1>5. CASE UpdateEnabledState
  <2>1. /\ backoff' = ResetBackoffEntry(~enabled, lastResult)
        /\ enabled' = ~enabled /\ numChecks' = 0 /\ ~checkedBefore' /\ sinceCheck' = 0
        /\ prefChanges' \in 0..MaxPrefChanges
        /\ lastResult' = lastResult /\ previousResult' = previousResult
    BY <1>5, BoundsAssumption DEF UpdateEnabledState, ServiceTypeOK
  <2>2. /\ backoff' \in Entries
        /\ backoff'.failures = 0
        /\ backoff'.release = 0
        /\ backoff'.initialDelay = IF ~enabled' \/ lastResult' = "BEHIND_CAPTIVE_PORTAL"
                                   THEN InitialBackoffPortal ELSE InitialBackoffNoPortal
    BY <2>1, FreshEntry DEF ServiceTypeOK
  <2>3. /\ numChecks' \in 0..MaxChecks /\ sinceCheck' \in Nat
        /\ enabled' \in BOOLEAN /\ checkedBefore' \in BOOLEAN
    <3>1. numChecks' \in 0..MaxChecks /\ sinceCheck' \in Nat
      BY <2>1, BoundsAssumption
    <3>2. enabled' \in BOOLEAN
      BY <1>5, Zenon DEF UpdateEnabledState
    <3>3. checkedBefore' \in BOOLEAN
      BY <1>5, Zenon DEF UpdateEnabledState
    <3> QED BY <3>1, <3>2, <3>3
  <2>4. CASE state = "IDLE"
    <3>1. UNCHANGED <<state, timer, detecting>>
      BY <1>5, <2>4 DEF UpdateEnabledState, RestartCheck
    <3>2. BusyConsistent'
      BY <2>4, <3>1 DEF BusyConsistent
    <3>3. ServiceTypeOK'
      BY <2>1, <2>2, <2>3, <3>1 DEF ServiceTypeOK, Entries
    <3> QED BY <2>1, <2>2, <3>2, <3>3, BoundsAssumption DEF RoomForCheck, BackoffMatchesHistory
  <2>5. CASE state # "IDLE"
    <3>1. /\ state' = "TIMER_RUNNING" /\ ~detecting'
          /\ timer' = [running |-> TRUE, left |-> 0]
      BY <1>5, <2>2, <2>5 DEF UpdateEnabledState, RestartCheck
    <3>2. BusyConsistent'
      BY <3>1 DEF BusyConsistent
    <3>3. ServiceTypeOK'
      <4>1. timer' \in Timers
        BY <3>1 DEF Timers
      <4>2. detecting' \in BOOLEAN
        BY <1>5, <2>5 DEF UpdateEnabledState, RestartCheck
      <4> QED BY <2>1, <2>2, <2>3, <3>1, <4>1, <4>2 DEF ServiceTypeOK, Entries, Timers
    <3> QED BY <2>1, <2>2, <3>2, <3>3, BoundsAssumption DEF RoomForCheck, BackoffMatchesHistory
  <2> QED BY <2>4, <2>5
<1>6. CASE Tick
  BY <1>6 DEF Tick, Countdown, ServiceTypeOK, BusyConsistent, RoomForCheck, BackoffMatchesHistory
<1>7. CASE UNCHANGED serviceVars
  BY <1>7 DEF ServiceTypeOK, BusyConsistent, RoomForCheck, BackoffMatchesHistory
<1> QED
  BY <1>1, <1>2, <1>3, <1>4, <1>5, <1>6, <1>7
  DEF ServiceNext, DetectCaptivePortalInternal, ProbeReturns

LEMMA ServiceInvariant == ServiceSpec => []ServiceInv
BY ServiceInitInv, ServiceNextInv, PTL DEF ServiceSpec

\* Timer, probe, backoff and history agree at all times, so the assertions of
\* DetectCaptivePortalInternal and OnPortalDetectionCompleted never fail.
THEOREM Consistency == ServiceSpec => []StateConsistent
BY ServiceInvariant, PTL DEF ServiceInv, StateConsistent

\* A step of the service is a step or a stutter of its abstract promise.
LEMMA StepRefines == ServiceInv /\ [ServiceNext]_serviceVars => [Check!CheckNext]_(Check!checkVars)
<1> SUFFICES ASSUME ServiceInv, [ServiceNext]_serviceVars
             PROVE  [Check!CheckNext]_(Check!checkVars)
  OBVIOUS
<1> USE DEF ServiceInv, Check!CheckNext, Check!checkVars
<1>1. CASE DetectCaptivePortal
  BY <1>1 DEF DetectCaptivePortal, Check!RequestCheck
<1>2. CASE StartProbe
  BY <1>2 DEF StartProbe, BusyConsistent
<1>3. CASE ClaimConnected
  <2>1. Check!Answer("INTERNET_CONNECTED")
    BY <1>3 DEF ClaimConnected, OnResult, BusyConsistent, Check!Answer
  <2> QED BY <2>1 DEF Check!Results
<1>4. ASSUME NEW result \in DetectionResults, NEW retryAfter \in RetryAfters,
             OnPortalDetectionCompleted(result, retryAfter)
      PROVE  Check!CheckNext
  <2>1. Check!Answer(result)
    BY <1>4 DEF OnPortalDetectionCompleted, OnResult, BusyConsistent, Check!Answer
  <2> QED BY <2>1 DEF Check!Results
<1>5. CASE UpdateEnabledState
  BY <1>5 DEF UpdateEnabledState, RestartCheck, ServiceTypeOK, Check!ChangeEnabled
<1>6. CASE Tick \/ UNCHANGED serviceVars
  BY <1>6 DEF Tick
<1> QED
  BY <1>1, <1>2, <1>3, <1>4, <1>5, <1>6
  DEF ServiceNext, DetectCaptivePortalInternal, ProbeReturns

\* CaptivePortalService implements CaptivePortalCheck: no request is dropped, no
\* answer comes unasked, and a disabled service answers INTERNET_CONNECTED only.
THEOREM Refinement == ServiceSpec => ImplementsCheck
<1>1. ServiceInit => Check!CheckInit
  BY DEF ServiceInit, Check!CheckInit
<1> QED
  BY <1>1, StepRefines, ServiceInvariant, PTL DEF ServiceSpec, ImplementsCheck, Check!CheckSpec

-----------------------------------------------------------------------------
(* Throttling *)

\* What the results in a row have earned, at least, as far as time is told apart.
Earned == Smaller(ShortestDelay(numChecks), ElapsedCap)

\* The time passed since the last probe and the time still to wait, for the backoff
\* entry or for a timer that was started from it, make up the delay earned.
DelayKept ==
    /\ backoff.release + sinceCheck >= Earned
    /\ timer.running => timer.left + sinceCheck >= Earned
ThrottleInv == ServiceInv /\ DelayKept

\* A delay that may be drawn is no shorter than the shortest, which is a number.
LEMMA DelayFacts ==
    ASSUME NEW initial \in Nat, NEW f \in Nat
    PROVE  LET shortest == Smaller(Jittered(FullDelay(initial, f)), MaximumBackoff)
           IN  /\ shortest \in Int
               /\ \A d \in Delays(initial, f) : d \in Nat /\ shortest <= d
<1>1. Exponent(f) \in Nat
  BY PolicyAssumption DEF Exponent
<1>2. 2 ^ Exponent(f) \in Int
  BY <1>1
<1> DEFINE full == FullDelay(initial, f)
<1>3. full \in Int
  <2> DEFINE power == 2 ^ Exponent(f)
  <2>1. power \in Int /\ full = initial * power
    BY <1>2 DEF FullDelay
  <2> HIDE DEF power, full
  <2>. QED
    BY <2>1
<1>4. \A d \in Delays(initial, f) :
         /\ d \in 0..MaximumBackoff
         /\ d >= Jittered(full) \/ d = MaximumBackoff
  BY DEF Delays
<1> HIDE DEF full
<1>5. Jittered(full) \in Int
  <2> DEFINE part == full * JitterTenths
  <2>1. part \in Int
    BY <1>3, PolicyAssumption
  <2>2. Jittered(full) = full - part \div 10
    BY DEF Jittered
  <2> HIDE DEF part
  <2>. QED
    BY <1>3, <2>1, <2>2
<1>. QED
  BY <1>4, <1>5, DelaysAssumption DEF Smaller, full

LEMMA EarnedType ==
    ASSUME ServiceInv
    PROVE  ShortestDelay(numChecks) \in Int /\ Earned \in Int
<1>1. numChecks \in Nat /\ backoff.initialDelay \in Nat
  BY BoundsAssumption DEF ServiceInv, ServiceTypeOK
<1>2. ShortestDelay(numChecks) \in Int
  <2>1. CASE numChecks < 2
    BY <2>1 DEF ShortestDelay
  <2>2. CASE ~(numChecks < 2)
    <3>1. numChecks - 1 \in Nat
      BY <1>1, <2>2
    <3>. QED
      BY <1>1, <2>2, <3>1, DelayFacts DEF ShortestDelay
  <2>. QED
    BY <2>1, <2>2
<1>. QED
  BY <1>2, BoundsAssumption DEF Earned, Smaller

LEMMA ThrottleInit == ServiceInit => ThrottleInv
<1> SUFFICES ASSUME ServiceInit PROVE ThrottleInv
  OBVIOUS
<1>1. ServiceInv
  BY ServiceInitInv
<1>2. /\ numChecks = 0 /\ sinceCheck = 0 /\ ~timer.running
      /\ backoff.release = 0
  BY FreshEntry DEF ServiceInit
<1>3. Earned = 0
  BY <1>2, BoundsAssumption DEF Earned, ShortestDelay, Smaller
<1>. QED
  BY <1>1, <1>2, <1>3 DEF ThrottleInv, DelayKept

\* As long as history and backoff entry stay, the delay earned stays.
LEMMA EarnedKept ==
    ASSUME numChecks' = numChecks, backoff'.initialDelay = backoff.initialDelay
    PROVE  Earned' = Earned
BY DEF Earned, ShortestDelay

\* A history of less than two equal results has earned nothing.
LEMMA NothingEarned ==
    ASSUME numChecks' \in {0, 1} PROVE Earned' = 0
BY BoundsAssumption DEF Earned, ShortestDelay, Smaller

LEMMA ThrottleStep == ThrottleInv /\ [ServiceNext]_serviceVars => ThrottleInv'
<1> SUFFICES ASSUME ThrottleInv, [ServiceNext]_serviceVars PROVE ThrottleInv'
  OBVIOUS
<1>1. /\ ServiceInv /\ ServiceInv' /\ DelayKept /\ Earned \in Int
      /\ sinceCheck \in Nat /\ backoff \in Entries /\ timer \in Timers
      /\ numChecks \in Nat /\ ElapsedCap \in Nat
  BY ServiceNextInv, EarnedType, BoundsAssumption
  DEF ThrottleInv, ServiceInv, ServiceTypeOK, Entries, Timers
<1>2. /\ backoff.release \in Nat /\ backoff.initialDelay \in Nat /\ backoff.failures \in Nat
      /\ timer.left \in Nat /\ sinceCheck' \in Nat
  BY <1>1 DEF Entries, Timers, ServiceInv, ServiceTypeOK
<1>3. Earned <= ElapsedCap
  BY <1>1, EarnedType DEF Earned, Smaller
<1> SUFFICES DelayKept'
  BY <1>1 DEF ThrottleInv
<1>4. CASE DetectCaptivePortal
  <2>1. /\ timer'.left = backoff.release
        /\ UNCHANGED <<numChecks, sinceCheck, backoff>>
    BY <1>4 DEF DetectCaptivePortal
  <2>2. Earned' = Earned
    BY <2>1, EarnedKept
  <2>. QED
    BY <1>1, <2>1, <2>2 DEF DelayKept
<1>5. CASE StartProbe
  <2>1. ~timer'.running /\ UNCHANGED <<numChecks, sinceCheck, backoff>>
    BY <1>5 DEF StartProbe
  <2>2. Earned' = Earned
    BY <2>1, EarnedKept
  <2>. QED
    BY <1>1, <2>1, <2>2 DEF DelayKept
<1>6. CASE ClaimConnected
  <2>1. /\ ~timer'.running /\ UNCHANGED <<numChecks, sinceCheck>>
        /\ backoff' = [backoff EXCEPT
                          !.failures = IF backoff.failures > 0 THEN backoff.failures - 1 ELSE 0,
                          !.release = Larger(backoff.initialDelay, backoff.release)]
    BY <1>1, <1>6 DEF ClaimConnected, InformOfSuccess, Entries
  <2>2. /\ backoff'.initialDelay = backoff.initialDelay
        /\ backoff'.release = Larger(backoff.initialDelay, backoff.release)
    BY <1>1, <2>1 DEF Entries
  <2>3. Earned' = Earned
    BY <2>1, <2>2, EarnedKept
  <2>4. backoff'.release \in Nat /\ backoff'.release >= backoff.release
    BY <1>2, <2>2 DEF Larger
  <2>. QED
    BY <1>1, <1>2, <2>1, <2>3, <2>4 DEF DelayKept
<1>7. ASSUME NEW result \in DetectionResults, NEW retryAfter \in RetryAfters,
             OnPortalDetectionCompleted(result, retryAfter)
      PROVE  DelayKept'
  <2>1. /\ ~timer.running /\ timer' = timer /\ sinceCheck' = 0 /\ retryAfter \in Nat
        /\ numChecks = backoff.failures + 1 \/ ~checkedBefore
    BY <1>1, <1>7, DelaysAssumption
    DEF OnPortalDetectionCompleted, ServiceInv, BusyConsistent, BackoffMatchesHistory, ServiceTypeOK
  <2>2. CASE ~checkedBefore \/ result # lastResult
    <3>1. numChecks' = 1
      BY <1>7, <2>2 DEF OnPortalDetectionCompleted, NewResult
    <3>2. Earned' = 0
      BY <3>1, NothingEarned
    <3>3. backoff'.release \in Nat
      BY <1>1 DEF ServiceInv, ServiceTypeOK
    <3>. QED
      BY <2>1, <3>2, <3>3 DEF DelayKept
  <2>3. CASE checkedBefore /\ result = lastResult
    <3> DEFINE f == backoff.failures + 1
    <3>1. /\ numChecks' = numChecks + 1 /\ numChecks = f
          /\ \E delay \in Delays(backoff.initialDelay, f) :
                backoff' = InformOfFailure(SetCustomReleaseTime(backoff, retryAfter), delay)
      BY <1>7, <2>1, <2>3 DEF OnPortalDetectionCompleted, SameResult
    <3>2. PICK delay \in Delays(backoff.initialDelay, f) :
             backoff' = InformOfFailure(SetCustomReleaseTime(backoff, retryAfter), delay)
      BY <3>1
    <3>3. f \in Nat /\ f >= 1
      BY <1>2
    <3> DEFINE shortest == Smaller(Jittered(FullDelay(backoff.initialDelay, f)), MaximumBackoff)
    <3>4. shortest \in Int /\ delay \in Nat /\ shortest <= delay
      BY <1>2, <3>2, <3>3, DelayFacts
    <3>5. /\ backoff'.initialDelay = backoff.initialDelay
          /\ backoff'.release = Larger(retryAfter, delay)
      BY <1>1, <3>2 DEF InformOfFailure, SetCustomReleaseTime, Entries
    <3>6. ShortestDelay(numChecks)' = shortest
      <4>1. numChecks' - 1 = f /\ ~(numChecks' < 2)
        BY <3>1, <3>3
      <4>. QED
        BY <3>5, <4>1 DEF ShortestDelay
    <3> HIDE DEF shortest, f
    <3>7. Earned' <= shortest /\ Earned' \in Int
      BY <1>1, <3>4, <3>6 DEF Earned, Smaller
    <3>8. backoff'.release \in Nat /\ shortest <= backoff'.release
      BY <2>1, <3>4, <3>5 DEF Larger
    <3>. QED
      BY <2>1, <3>4, <3>7, <3>8 DEF DelayKept
  <2>. QED
    BY <2>2, <2>3
<1>8. CASE UpdateEnabledState
  <2>1. numChecks' = 0
    BY <1>8 DEF UpdateEnabledState
  <2>2. Earned' = 0
    BY <2>1, NothingEarned
  <2>3. backoff'.release \in Nat /\ timer'.left \in Nat
    BY <1>1 DEF ServiceInv, ServiceTypeOK
  <2>. QED
    BY <1>2, <2>2, <2>3 DEF DelayKept
<1>9. CASE Tick
  <2>1. /\ backoff' = [backoff EXCEPT !.release = Countdown(backoff.release)]
        /\ timer' = [timer EXCEPT !.left = Countdown(timer.left)]
        /\ numChecks' = numChecks
        /\ sinceCheck' = IF checkedBefore /\ sinceCheck < ElapsedCap
                         THEN sinceCheck + 1 ELSE sinceCheck
    BY <1>9 DEF Tick
  <2>2. /\ backoff'.release = Countdown(backoff.release)
        /\ backoff'.initialDelay = backoff.initialDelay
        /\ timer'.left = Countdown(timer.left) /\ timer'.running = timer.running
    BY <1>1, <2>1 DEF Entries, Timers
  <2>3. Earned' = Earned
    BY <2>1, <2>2, EarnedKept
  <2>4. ~checkedBefore => Earned = 0
    <3>1. ~checkedBefore => numChecks = 0
      BY <1>1 DEF ServiceInv, BackoffMatchesHistory
    <3>. QED
      BY <3>1, BoundsAssumption DEF Earned, ShortestDelay, Smaller
  <2>5. \A left \in Nat : left + sinceCheck >= Earned =>
                             Countdown(left) + sinceCheck' >= Earned
    BY <1>1, <1>3, <2>1, <2>4 DEF Countdown
  <2>. QED
    BY <1>1, <1>2, <2>2, <2>3, <2>5 DEF DelayKept
<1>10. CASE UNCHANGED serviceVars
  BY <1>1, <1>10, EarnedKept DEF DelayKept
<1>. QED
  BY <1>4, <1>5, <1>6, <1>7, <1>8, <1>9, <1>10
  DEF ServiceNext, DetectCaptivePortalInternal, ProbeReturns

\* CaptivePortalService probes the network only when the delay earned by its last
\* results has passed (DetectCaptivePortal, GetTimeUntilRelease), whatever the
\* policy, the jitter and the Retry-After headers.
THEOREM Throttling == ServiceSpec => ProbesThrottled
<1>1. ThrottleInv /\ [ServiceNext]_serviceVars =>
         [StartProbe => sinceCheck >= Smaller(ShortestDelay(numChecks), ElapsedCap)]_serviceVars
  <2>. SUFFICES ASSUME ThrottleInv, StartProbe
                PROVE  sinceCheck >= Smaller(ShortestDelay(numChecks), ElapsedCap)
    OBVIOUS
  <2>1. timer.running /\ timer.left = 0 /\ sinceCheck \in Nat
    BY DEF StartProbe, ThrottleInv, ServiceInv, ServiceTypeOK
  <2>2. 0 + sinceCheck >= Earned /\ Earned \in Int
    BY <2>1, EarnedType DEF ThrottleInv, DelayKept
  <2>. QED
    BY <2>1, <2>2 DEF Earned
<1>. QED
  BY <1>1, ThrottleInit, ThrottleStep, PTL DEF ServiceSpec, ProbesThrottled

-----------------------------------------------------------------------------
(* The tabs *)

USE DEF vars, checkVars, Results, ReloaderStates

\* A fresh tab is well typed.
LEMMA NewTabType ==
    ASSUME NEW o \in BOOLEAN, NEW l \in BOOLEAN
    PROVE  NewTab(o, l) \in TabType
BY DEF NewTab, TabType

\* What the reloader makes of a tab is a tab, and which fields it leaves alone.
LEMMA StartType ==
    ASSUME NEW tab \in TabType, NEW ssl \in BOOLEAN
    PROVE  /\ OnLoadStart(tab, ssl) \in TabType
           /\ OnLoadStart(tab, ssl).state = IF ssl THEN "TIMER_RUNNING" ELSE "NONE"
           /\ OnLoadStart(tab, ssl).provisional
           /\ OnLoadStart(tab, ssl).sslSeen = ssl
           /\ OnLoadStart(tab, ssl).tracked = tab.tracked
           /\ OnLoadStart(tab, ssl).open = tab.open
           /\ OnLoadStart(tab, ssl).login = tab.login
BY DEF OnLoadStart, TabType

LEMMA AbortType ==
    ASSUME NEW tab \in TabType
    PROVE  /\ OnAbort(tab) \in TabType
           /\ OnAbort(tab).state = "NONE"
           /\ ~OnAbort(tab).provisional
           /\ ~OnAbort(tab).sslSeen
           /\ OnAbort(tab).open = tab.open
           /\ OnAbort(tab).login = tab.login
BY DEF OnAbort, TabType

LEMMA CommitType ==
    ASSUME NEW tab \in TabType, NEW portalError \in BOOLEAN,
           NEW done, done = OnLoadCommitted(tab, portalError)
    PROVE  /\ done \in TabType
           /\ done.state = CommittedState(tab.state, portalError)
           /\ ~done.provisional
           /\ ~done.sslSeen
           /\ done.open = tab.open
           /\ done.login = tab.login
           /\ done.state = "NEEDS_RELOAD" => done.reloadTasks > 0
<1>1. CommittedState(tab.state, portalError) \in ReloaderStates
  BY DEF CommittedState, TabType
<1>2. tab.reloadTasks + 1 \in Nat /\ tab.reloadTasks + 1 > 0
  BY DEF TabType
<1>3. CASE portalError /\ tab.state = "NEEDS_RELOAD"
  BY <1>1, <1>2, <1>3 DEF OnLoadCommitted, TabType
<1>4. CASE ~(portalError /\ tab.state = "NEEDS_RELOAD")
  <2>1. CommittedState(tab.state, portalError) # "NEEDS_RELOAD"
    BY <1>4 DEF CommittedState
  <2> QED BY <1>1, <1>4, <2>1 DEF OnLoadCommitted, TabType
<1> QED BY <1>3, <1>4

LEMMA RedirectType ==
    ASSUME NEW tab \in TabType, NEW ssl \in BOOLEAN,
           NEW done, done = OnRedirect(tab, ssl)
    PROVE  /\ done \in TabType
           /\ done.state \in {"NONE", "TIMER_RUNNING"}
           /\ done.state = "TIMER_RUNNING" => ssl
           /\ ssl => done.sslSeen
           /\ done.sslSeen => ssl \/ tab.sslSeen
           /\ done.provisional = tab.provisional
           /\ done.tracked = tab.tracked
           /\ done.open = tab.open
           /\ done.login = tab.login
BY DEF OnRedirect, TabType

\* A reload leaves NEEDS_RELOAD; without one, a load is in progress.
LEMMA ReloadType ==
    ASSUME NEW tab \in TabType, NEW done, done = ReloadTabIfNeeded(tab)
    PROVE  /\ done \in TabType
           /\ done.state \in {tab.state, "NONE"}
           /\ done.state = "NEEDS_RELOAD" => tab.provisional
           /\ done.provisional = tab.provisional
           /\ done.sslSeen = tab.sslSeen
           /\ done.tracked = tab.tracked
           /\ done.open = tab.open
           /\ done.login = tab.login
           /\ done.reloadTasks = tab.reloadTasks
BY DEF ReloadTabIfNeeded, TabType

\* What a result makes of a tab: nobody stays in doubt, a portal leaves tabs
\* broken, anything else frees them, and the load in progress is left alone.
LEMMA ResultsType ==
    ASSUME NEW tab \in TabType, NEW previous \in Results, NEW result \in Results,
           NEW done, done = HelperOnResults(tab, previous, result)
    PROVE  /\ done \in TabType
           /\ done.state # "MAYBE_BROKEN_BY_PORTAL"
           /\ done.state = "BROKEN_BY_PORTAL" => result = "BEHIND_CAPTIVE_PORTAL"
           /\ done.state = "NEEDS_RELOAD" => tab.state = "NEEDS_RELOAD" \/ done.provisional
           /\ done.state = "TIMER_RUNNING" => tab.state = "TIMER_RUNNING"
           /\ done.provisional = tab.provisional
           /\ done.sslSeen = tab.sslSeen
           /\ done.tracked = tab.tracked
           /\ done.open = tab.open
           /\ done.reloadTasks = tab.reloadTasks
           /\ done.login => tab.login
           /\ done.login => result = "BEHIND_CAPTIVE_PORTAL"
<1> DEFINE mid == ReloaderOnResults(tab, previous, result)
           need == [tab EXCEPT !.state = "NEEDS_RELOAD"]
<1>1. /\ mid \in TabType
      /\ mid.state # "MAYBE_BROKEN_BY_PORTAL"
      /\ mid.state = "BROKEN_BY_PORTAL" => result = "BEHIND_CAPTIVE_PORTAL"
      /\ mid.state = "NEEDS_RELOAD" => tab.state = "NEEDS_RELOAD" \/ mid.provisional
      /\ mid.state = "TIMER_RUNNING" => tab.state = "TIMER_RUNNING"
      /\ mid.provisional = tab.provisional
      /\ mid.sslSeen = tab.sslSeen
      /\ mid.tracked = tab.tracked
      /\ mid.open = tab.open
      /\ mid.login = tab.login
      /\ mid.reloadTasks = tab.reloadTasks
  <2>1. CASE mid = tab /\ tab.state \in {"NONE", "NEEDS_RELOAD"}
    BY <2>1
  <2>2. CASE result = "BEHIND_CAPTIVE_PORTAL"
    BY <2>2 DEF ReloaderOnResults, TabType
  <2>3. CASE result # "BEHIND_CAPTIVE_PORTAL" /\ mid = EnterNeedsReload(tab)
    <3>1. /\ need \in TabType /\ need.state = "NEEDS_RELOAD"
          /\ need.provisional = tab.provisional /\ need.sslSeen = tab.sslSeen
          /\ need.tracked = tab.tracked /\ need.open = tab.open
          /\ need.reloadTasks = tab.reloadTasks /\ need.login = tab.login
      BY DEF TabType
    <3>2. mid = ReloadTabIfNeeded(need)
      BY <2>3 DEF EnterNeedsReload
    <3> HIDE DEF mid, need
    <3> QED BY <2>3, <3>1, <3>2, ReloadType
  <2>4. CASE result # "BEHIND_CAPTIVE_PORTAL" /\ mid = [tab EXCEPT !.state = "NONE"]
    BY <2>4 DEF TabType
  <2> QED BY <2>1, <2>2, <2>3, <2>4 DEF ReloaderOnResults, TabType
<1>2. done = [mid EXCEPT !.login = @ /\ result = "BEHIND_CAPTIVE_PORTAL"]
  BY DEF HelperOnResults, DetectorOnResults
<1> HIDE DEF mid, need
<1> QED BY <1>1, <1>2 DEF TabType

-----------------------------------------------------------------------------
(* The invariant, one tab at a time *)

\* The invariant of one tab, given its navigations, whether a result is still to
\* come, and the last one it was told.
\* It holds all of the properties together because none is inductive alone: a
\* committed load leaves its tab in doubt only if it was timed, a load is timed
\* only while it is followed, and a closed slot has nothing to follow.
TabInv(tab, handles, waiting, last) ==
    /\ tab \in TabType
    /\ ~tab.open => /\ tab = NewTab(FALSE, FALSE)
                    /\ \A h \in Handles : handles[h].phase = "None"
    /\ tab.provisional <=> tab.tracked # None
    /\ tab.tracked # None => handles[tab.tracked].phase # "None"
    /\ tab.state = "TIMER_RUNNING" => tab.provisional /\ tab.sslSeen
    /\ tab.sslSeen => tab.provisional
    /\ tab.state = "NEEDS_RELOAD" => tab.provisional \/ tab.reloadTasks > 0
    /\ tab.state = "MAYBE_BROKEN_BY_PORTAL" => waiting
    /\ tab.state = "BROKEN_BY_PORTAL" => last = "BEHIND_CAPTIVE_PORTAL"
    /\ tab.login => last = "BEHIND_CAPTIVE_PORTAL"

\* The tab will be told a result: of this notification, or of the next.
Waiting(t) == pending \/ t \in informing

\* The inductive invariant.
PortalInv ==
    /\ CheckTypeOK
    /\ tabs = [t \in Tabs |-> tabs[t]]
    /\ navigations \in [Tabs -> [Handles -> NavigationType]]
    /\ \A t \in informing : t \in Tabs /\ tabs[t].open
    /\ \A t \in Tabs : TabInv(tabs[t], navigations[t], Waiting(t), LastTold(t))
    /\ \A t, u \in Tabs : tabs[t].login /\ tabs[u].login => t = u

\* An empty slot satisfies the invariant, whatever the rest of the system does.
LEMMA NewTabInv ==
    ASSUME NEW o \in BOOLEAN, NEW l \in BOOLEAN, NEW handles, NEW waiting, NEW last,
           o \/ (~l /\ \A h \in Handles : handles[h].phase = "None"),
           l => last = "BEHIND_CAPTIVE_PORTAL"
    PROVE  /\ TabInv(NewTab(o, l), handles, waiting, last)
           /\ NewTab(o, l).login = l
<1>1. NewTab(o, l) \in TabType
  BY NewTabType
<1>2. /\ NewTab(o, l).tracked = None /\ NewTab(o, l).state = "NONE"
      /\ ~NewTab(o, l).provisional /\ ~NewTab(o, l).sslSeen /\ NewTab(o, l).open = o
      /\ NewTab(o, l).login = l
  BY DEF NewTab
<1>3. ~o => ~l /\ o = FALSE /\ l = FALSE
  OBVIOUS
<1> QED BY <1>1, <1>2, <1>3 DEF TabInv

\* Between notifications every tab has been told the service's last result.
LEMMA AllTold ==
    ASSUME informing = {}, pending \in BOOLEAN
    PROVE  \A t \in Tabs : Waiting(t) = pending /\ LastTold(t) = lastDetection
BY DEF Waiting, LastTold

\* Steps between notifications that change one tab and its navigations, and perhaps
\* ask for a check, need only be looked at for that tab.
LEMMA OneTab ==
    ASSUME PortalInv, BetweenNotifications,
           NEW t \in Tabs, NEW done, NEW handles \in [Handles -> NavigationType],
           tabs' = [tabs EXCEPT ![t] = done],
           navigations' = [navigations EXCEPT ![t] = handles],
           CheckTypeOK', pending => pending', lastDetection' = lastDetection,
           done.login => tabs[t].login,
           TabInv(done, handles, pending', lastDetection)
    PROVE  PortalInv'
<1>1. /\ tabs' = [u \in Tabs |-> tabs'[u]]
      /\ navigations' \in [Tabs -> [Handles -> NavigationType]]
  BY DEF PortalInv
<1>2. ASSUME NEW u \in Tabs
      PROVE  /\ TabInv(tabs'[u], navigations'[u], pending', lastDetection')
             /\ tabs'[u].login => tabs[u].login
  <2>1. CASE u = t
    BY <2>1 DEF PortalInv
  <2>2. CASE u # t
    <3>1. tabs'[u] = tabs[u] /\ navigations'[u] = navigations[u]
      BY <2>2 DEF PortalInv
    <3>2. TabInv(tabs[u], navigations[u], pending, lastDetection)
      BY AllTold DEF PortalInv, BetweenNotifications, CheckTypeOK
    <3> QED BY <3>1, <3>2 DEF TabInv
  <2> QED BY <2>1, <2>2
<1>3. /\ \A u \in informing' : u \in Tabs /\ tabs'[u].open
      /\ \A u \in Tabs : Waiting(u)' = pending' /\ LastTold(u)' = lastDetection'
  <2>1. informing' = {} /\ pending' \in BOOLEAN
    BY DEF BetweenNotifications, CheckTypeOK
  <2> QED BY <2>1 DEF Waiting, LastTold
<1> QED BY <1>1, <1>2, <1>3 DEF PortalInv

LEMMA InitInv == Init => PortalInv
<1> SUFFICES ASSUME Init PROVE PortalInv
  OBVIOUS
<1>1. CheckTypeOK
  BY DEF Init, CheckInit, CheckTypeOK
<1>2. \A t \in Tabs : tabs[t] = NewTab(FALSE, FALSE) /\ ~tabs[t].login
  BY DEF Init, NewTab
<1>3. \A t \in Tabs : TabInv(tabs[t], navigations[t], Waiting(t), LastTold(t))
  <2>1. \A t \in Tabs, h \in Handles : navigations[t][h].phase = "None"
    BY DEF Init, NoNavigation
  <2> QED BY <1>2, <2>1, NewTabInv
<1>4. navigations \in [Tabs -> [Handles -> NavigationType]]
  BY DEF Init, NoNavigation, NavigationType
<1> QED BY <1>1, <1>2, <1>3, <1>4 DEF Init, PortalInv

\* Following a navigation from its start, or from its late discovery.
LEMMA TrackInv ==
    ASSUME PortalInv, NEW t \in Tabs, tabs[t].open, NEW h \in Handles, NEW ssl \in BOOLEAN,
           NEW done, done = Track(t, h, ssl)
    PROVE  /\ done \in TabType
           /\ done.open /\ done.tracked = h /\ done.provisional
           /\ done.sslSeen = ssl
           /\ done.state = IF ssl THEN "TIMER_RUNNING" ELSE "NONE"
           /\ done.login = tabs[t].login
<1> DEFINE superseded == /\ tabs[t].tracked # None
                         /\ navigations[t][tabs[t].tracked].phase # "Committed"
           told == IF superseded THEN OnAbort(tabs[t]) ELSE tabs[t]
           mid == [told EXCEPT !.tracked = h, !.reloading = FALSE]
<1>1. tabs[t] \in TabType
  BY DEF PortalInv, TabInv
<1>2. told \in TabType /\ told.open = tabs[t].open /\ told.login = tabs[t].login
  BY <1>1, AbortType
<1>3. mid \in TabType /\ mid.open = told.open /\ mid.login = told.login /\ mid.tracked = h
  <2> HIDE DEF told
  <2> QED BY <1>2 DEF TabType
<1>4. done = OnLoadStart(mid, ssl)
  BY DEF Track
<1>5. mid.open
  BY <1>2, <1>3
<1> HIDE DEF mid, told
<1>6. /\ done \in TabType
      /\ done.provisional
      /\ done.sslSeen = ssl
      /\ done.state = IF ssl THEN "TIMER_RUNNING" ELSE "NONE"
      /\ done.tracked = mid.tracked
      /\ done.open = mid.open
      /\ done.login = mid.login
  BY <1>3, <1>4, StartType
<1> QED BY <1>2, <1>3, <1>5, <1>6

\* To begin a notification changes no tab.
LEMMA NotifyInv ==
    ASSUME PortalInv, NEW result \in Results, NotifyResult(result)
    PROVE  PortalInv'
<1>1. /\ CheckTypeOK' /\ UNCHANGED <<tabs, navigations>>
      /\ informing = {} /\ informing' = {t \in Tabs : tabs[t].open}
      /\ previousDetection' = lastDetection
  BY DEF PortalInv, NotifyResult, Answer, CheckTypeOK
<1>2. ASSUME NEW t \in Tabs
      PROVE  TabInv(tabs'[t], navigations'[t], Waiting(t)', LastTold(t)')
  <2>1. TabInv(tabs[t], navigations[t], pending, lastDetection)
    BY <1>1, AllTold DEF PortalInv, CheckTypeOK
  <2>2. CASE tabs[t].open
    <3>1. Waiting(t)' /\ LastTold(t)' = lastDetection
      BY <1>1, <2>2 DEF Waiting, LastTold
    <3> QED BY <1>1, <2>1, <3>1 DEF TabInv
  <2>3. CASE ~tabs[t].open
    <3>1. tabs[t] = NewTab(FALSE, FALSE) /\ \A h \in Handles : navigations[t][h].phase = "None"
      BY <2>1, <2>3 DEF TabInv
    <3> QED BY <1>1, <3>1, NewTabInv
  <2> QED BY <2>2, <2>3
<1> QED BY <1>1, <1>2 DEF PortalInv

\* To tell one tab leaves the others as they are; a login tab is opened only where
\* there is none.
LEMMA TellInv ==
    ASSUME PortalInv, NEW t \in Tabs, TellTab(t)
    PROVE  PortalInv'
<1> DEFINE done == HelperOnResults(tabs[t], previousDetection, lastDetection)
           told == [tabs EXCEPT ![t] = done]
<1>1. /\ UNCHANGED <<navigations, pending, lastDetection, previousDetection>> /\ CheckTypeOK'
      /\ t \in informing /\ informing' = informing \ {t}
      /\ lastDetection \in Results /\ previousDetection \in Results
  BY DEF PortalInv, TellTab, CheckTypeOK
<1>2. \A u \in Tabs : TabInv(tabs[u], navigations[u], Waiting(u), LastTold(u))
  BY DEF PortalInv
<1>3. /\ tabs[t].open /\ tabs[t] \in TabType
      /\ TabInv(tabs[t], navigations[t], Waiting(t), LastTold(t))
  BY <1>1, <1>2 DEF PortalInv, TabInv
<1>4. /\ done \in TabType /\ done.open
      /\ done.state # "MAYBE_BROKEN_BY_PORTAL"
      /\ done.state = "BROKEN_BY_PORTAL" => lastDetection = "BEHIND_CAPTIVE_PORTAL"
      /\ done.state = "NEEDS_RELOAD" => tabs[t].state = "NEEDS_RELOAD" \/ done.provisional
      /\ done.state = "TIMER_RUNNING" => tabs[t].state = "TIMER_RUNNING"
      /\ done.provisional = tabs[t].provisional
      /\ done.sslSeen = tabs[t].sslSeen
      /\ done.tracked = tabs[t].tracked
      /\ done.reloadTasks = tabs[t].reloadTasks
      /\ done.login => tabs[t].login
      /\ done.login => lastDetection = "BEHIND_CAPTIVE_PORTAL"
  BY <1>1, <1>3, ResultsType
<1> HIDE DEF done
<1>5. /\ \A u \in Tabs : told[u] = IF u = t THEN done ELSE tabs[u]
      /\ told = [u \in Tabs |-> told[u]]
  BY DEF PortalInv
<1>6. ASSUME NEW u \in Tabs
      PROVE  /\ TabInv(told[u], navigations[u], Waiting(u)', LastTold(u)')
             /\ told[u].login => tabs[u].login
             /\ told[u].open = tabs[u].open
  <2>1. CASE u = t
    <3>1. LastTold(u)' = lastDetection
      BY <1>1, <2>1 DEF LastTold
    <3>2. TabInv(done, navigations[t], Waiting(u)', lastDetection)
      BY <1>3, <1>4 DEF TabInv
    <3> QED BY <1>3, <1>4, <1>5, <2>1, <3>1, <3>2 DEF TabType
  <2>2. CASE u # t
    <3>1. Waiting(u)' = Waiting(u) /\ LastTold(u)' = LastTold(u)
      BY <1>1, <2>2 DEF Waiting, LastTold
    <3> QED BY <1>2, <1>5, <2>2, <3>1
  <2> QED BY <2>1, <2>2
<1>7. \A u \in informing' : u \in Tabs /\ tabs[u].open
  BY <1>1 DEF PortalInv
<1> HIDE DEF told
<1>8. CASE tabs' = told
  BY <1>1, <1>5, <1>6, <1>7, <1>8 DEF PortalInv
<1>9. ASSUME OpensLoginTab(t), NEW s \in Tabs, ~tabs[s].open,
             tabs' = [told EXCEPT ![s] = NewTab(TRUE, TRUE)]
      PROVE  PortalInv'
  <2>1. lastDetection = "BEHIND_CAPTIVE_PORTAL" /\ LoginTabs = {}
    BY <1>9 DEF OpensLoginTab
  <2>2. \A u \in Tabs : ~tabs[u].login
    <3>1. ASSUME NEW u \in Tabs, tabs[u].login PROVE FALSE
      <4>1. CASE tabs[u].open
        BY <2>1, <3>1, <4>1 DEF LoginTabs
      <4>2. CASE ~tabs[u].open
        BY <1>2, <3>1, <4>2 DEF TabInv, NewTab
      <4> QED BY <4>1, <4>2
    <3> QED BY <3>1
  <2>3. LastTold(s)' = lastDetection
    BY <1>1, <1>7, <1>9 DEF LastTold
  <2>4. TabInv(NewTab(TRUE, TRUE), navigations[s], Waiting(s)', LastTold(s)')
    BY <2>1, <2>3, NewTabInv
  <2>5. /\ \A u \in Tabs : u # s => tabs'[u] = told[u]
        /\ tabs'[s] = NewTab(TRUE, TRUE) /\ tabs' = [u \in Tabs |-> tabs'[u]]
    BY <1>5, <1>9
  <2>6. \A u \in Tabs : TabInv(tabs'[u], navigations[u], Waiting(u)', LastTold(u)')
    BY <1>6, <2>4, <2>5
  <2>7. \A u \in Tabs : u # s => ~tabs'[u].login
    BY <1>6, <2>2, <2>5
  <2>8. \A u \in informing' : u \in Tabs /\ tabs'[u].open
    BY <1>6, <1>7, <1>9, <2>5
  <2> QED BY <1>1, <2>5, <2>6, <2>7, <2>8 DEF PortalInv
<1> QED BY <1>8, <1>9 DEF TellTab, told, done

\* Between notifications every step preserves the invariant.
LEMMA QuietInv ==
    ASSUME PortalInv, BetweenNotifications, QuietStep
    PROVE  PortalInv'
<1>0. /\ CheckTypeOK
      /\ \A t \in Tabs : TabInv(tabs[t], navigations[t], pending, lastDetection)
      /\ \A t \in Tabs : tabs[t] \in TabType
      /\ \A t \in Tabs : navigations[t] \in [Handles -> NavigationType]
      /\ None \notin Handles
  BY AllTold, HandlesAssumption DEF PortalInv, TabInv, BetweenNotifications, CheckTypeOK
<1>2. CASE ServiceStep
  <2>1. /\ CheckTypeOK' /\ UNCHANGED <<tabs, navigations, pending, lastDetection, previousDetection,
                                   informing>>
    BY <1>0, <1>2 DEF ServiceStep, ChangeEnabled, CheckTypeOK, BetweenNotifications
  <2> QED BY <2>1 DEF PortalInv, Waiting, LastTold
<1>4. ASSUME NEW t \in Tabs, NEW h \in Handles, NEW ssl \in BOOLEAN,
             DidStartNavigation(t, h, ssl)
      PROVE  PortalInv'
  <2> DEFINE handles == [navigations[t] EXCEPT ![h] = [phase |-> "Ongoing", ssl |-> ssl]]
             done == Track(t, h, ssl)
  <2>1. /\ tabs' = [tabs EXCEPT ![t] = done]
        /\ navigations' = [navigations EXCEPT ![t] = handles]
        /\ UNCHANGED checkVars /\ tabs[t].open
    BY <1>4 DEF DidStartNavigation
  <2>2. handles \in [Handles -> NavigationType] /\ handles[h].phase # "None"
    BY <1>0 DEF NavigationType
  <2>3. /\ done \in TabType
        /\ done.open /\ done.tracked = h /\ done.provisional
        /\ done.sslSeen = ssl
        /\ done.state = IF ssl THEN "TIMER_RUNNING" ELSE "NONE"
        /\ done.login = tabs[t].login
    BY <2>1, TrackInv
  <2> HIDE DEF done, handles
  <2>4. TabInv(done, handles, pending, lastDetection)
    BY <1>0, <2>2, <2>3 DEF TabInv
  <2> QED BY <1>0, <2>1, <2>2, <2>3, <2>4, OneTab DEF CheckTypeOK
<1>5. ASSUME NEW t \in Tabs, NEW h \in Handles, NEW ssl \in BOOLEAN,
             DidRedirectNavigation(t, h, ssl)
      PROVE  PortalInv'
  <2> DEFINE handles == [navigations[t] EXCEPT ![h].ssl = ssl]
             done == IF tabs[t].tracked = h THEN OnRedirect(tabs[t], ssl) ELSE tabs[t]
  <2>1. /\ tabs' = [tabs EXCEPT ![t] = done]
        /\ navigations' = [navigations EXCEPT ![t] = handles]
        /\ UNCHANGED checkVars
    BY <1>5 DEF DidRedirectNavigation, PortalInv
  <2>2. /\ handles \in [Handles -> NavigationType]
        /\ \A g \in Handles : handles[g].phase = navigations[t][g].phase
    BY <1>0 DEF NavigationType
  <2>3. TabInv(tabs[t], handles, pending, lastDetection)
    BY <1>0, <2>2 DEF TabInv, TabType
  <2>4. CASE tabs[t].tracked = h
    <3>1. tabs[t].provisional /\ tabs[t].tracked # None
      BY <1>0, <2>4 DEF TabInv
    <3>2. tabs[t].open
      BY <1>0, <3>1 DEF TabInv, NewTab
    <3>3. done = OnRedirect(tabs[t], ssl)
      BY <2>4
    <3> HIDE DEF done, handles
    <3>4. /\ done \in TabType
          /\ done.state \in {"NONE", "TIMER_RUNNING"}
          /\ done.state = "TIMER_RUNNING" => done.sslSeen
          /\ done.provisional /\ done.open
          /\ done.tracked = tabs[t].tracked
          /\ done.login = tabs[t].login
      BY <1>0, <3>1, <3>2, <3>3, RedirectType
    <3>5. TabInv(done, handles, pending, lastDetection)
      BY <1>0, <2>3, <3>1, <3>4 DEF TabInv
    <3> QED BY <1>0, <2>1, <2>2, <3>4, <3>5, OneTab DEF CheckTypeOK
  <2>5. CASE tabs[t].tracked # h
    <3>1. done = tabs[t]
      BY <2>5
    <3> HIDE DEF done, handles
    <3> QED BY <1>0, <2>1, <2>2, <2>3, <3>1, OneTab DEF CheckTypeOK
  <2> QED BY <2>4, <2>5
<1>6. ASSUME NEW t \in Tabs, NEW h \in Handles, Commit(t, h)
      PROVE  PortalInv'
  <2> DEFINE handles == [navigations[t] EXCEPT ![h].phase = "Committed"]
  <2>1. /\ tabs' = [tabs EXCEPT ![t] = tabs[t]]
        /\ navigations' = [navigations EXCEPT ![t] = handles]
        /\ UNCHANGED checkVars
    BY <1>6 DEF Commit, PortalInv
  <2>2. /\ handles \in [Handles -> NavigationType]
        /\ \A g \in Handles : navigations[t][g].phase # "None" => handles[g].phase # "None"
    BY <1>0 DEF NavigationType
  <2>3. navigations[t][h].phase # "None"
    BY <1>6 DEF Commit
  <2> HIDE DEF handles
  <2>4. tabs[t].open
    BY <1>0, <2>3 DEF TabInv
  <2>5. tabs[t].tracked # None => handles[tabs[t].tracked].phase # "None"
    BY <1>0, <2>2 DEF TabInv, TabType
  <2>6. TabInv(tabs[t], handles, pending, lastDetection)
    BY <1>0, <2>4, <2>5 DEF TabInv
  <2> QED BY <1>0, <2>1, <2>2, <2>6, OneTab DEF CheckTypeOK
<1>7. ASSUME NEW t \in Tabs, NEW h \in Handles, FinishAborted(t, h)
      PROVE  PortalInv'
  <2> DEFINE handles == [navigations[t] EXCEPT ![h] = NoNavigation]
             aborted == OnAbort(tabs[t])
             over == [aborted EXCEPT !.tracked = None]
             done == IF tabs[t].tracked = h THEN over ELSE tabs[t]
  <2>1. /\ tabs' = [tabs EXCEPT ![t] = done]
        /\ navigations' = [navigations EXCEPT ![t] = handles]
        /\ UNCHANGED checkVars
    BY <1>7 DEF FinishAborted, PortalInv
  <2>2. /\ handles \in [Handles -> NavigationType]
        /\ \A g \in Handles \ {h} : handles[g] = navigations[t][g]
    BY <1>0 DEF NavigationType, NoNavigation
  <2>3. CASE tabs[t].tracked = h
    <3>1. tabs[t].open
      BY <1>0, <2>3 DEF TabInv, NewTab
    <3>2. /\ aborted \in TabType /\ aborted.state = "NONE" /\ ~aborted.provisional
          /\ ~aborted.sslSeen /\ aborted.open /\ aborted.login = tabs[t].login
      BY <1>0, <3>1, AbortType
    <3>3. done = over
      BY <2>3
    <3> HIDE DEF aborted, done, handles
    <3>4. /\ over \in TabType /\ over.state = "NONE" /\ ~over.provisional
          /\ ~over.sslSeen /\ over.open /\ over.login = tabs[t].login /\ over.tracked = None
      BY <3>2 DEF TabType
    <3> HIDE DEF over
    <3>5. TabInv(over, handles, pending, lastDetection)
      BY <1>0, <3>4 DEF TabInv
    <3> QED BY <1>0, <2>1, <2>2, <3>3, <3>4, <3>5, OneTab DEF CheckTypeOK
  <2>4. CASE tabs[t].tracked # h
    <3>1. done = tabs[t]
      BY <2>4
    <3> HIDE DEF done, handles
    <3>2. tabs[t].tracked # None => handles[tabs[t].tracked] = navigations[t][tabs[t].tracked]
      BY <1>0, <2>2, <2>4 DEF TabType
    <3>3. ~tabs[t].open => FALSE
      BY <1>0, <1>7 DEF TabInv, FinishAborted
    <3>4. TabInv(tabs[t], handles, pending, lastDetection)
      BY <1>0, <3>2, <3>3 DEF TabInv
    <3> QED BY <1>0, <2>1, <2>2, <3>1, <3>4, OneTab DEF CheckTypeOK
  <2> QED BY <2>3, <2>4
<1>8. ASSUME NEW t \in Tabs, NEW h \in Handles, NEW portalError \in BOOLEAN,
             FinishCommitted(t, h, portalError)
      PROVE  PortalInv'
  <2> DEFINE handles == [navigations[t] EXCEPT ![h] = NoNavigation]
             started == IF tabs[t].tracked = h
                        THEN tabs[t] ELSE Track(t, h, navigations[t][h].ssl)
             loaded == OnLoadCommitted(started, portalError)
             done == [loaded EXCEPT !.tracked = None]
  <2>1. /\ tabs' = [tabs EXCEPT ![t] = done]
        /\ navigations' = [navigations EXCEPT ![t] = handles]
        /\ IF portalError /\ started.state = "TIMER_RUNNING"
           THEN RequestCheck ELSE UNCHANGED checkVars
        /\ navigations[t][h].phase = "Committed"
    BY <1>8 DEF FinishCommitted
  <2>2. handles \in [Handles -> NavigationType]
    BY <1>0 DEF NavigationType, NoNavigation
  <2>3. tabs[t].open
    BY <1>0, <2>1 DEF TabInv
  <2>4. navigations[t][h].ssl \in BOOLEAN
    BY <1>0 DEF NavigationType
  <2>5. /\ started \in TabType /\ started.open
        /\ started.login = tabs[t].login
        /\ started.state = "MAYBE_BROKEN_BY_PORTAL" => pending
        /\ started.state = "BROKEN_BY_PORTAL" => lastDetection = "BEHIND_CAPTIVE_PORTAL"
    <3>1. CASE tabs[t].tracked = h
      BY <1>0, <2>3, <3>1 DEF TabInv
    <3>2. CASE tabs[t].tracked # h
      <4>1. started = Track(t, h, navigations[t][h].ssl)
        BY <3>2
      <4> HIDE DEF started
      <4>2. /\ started \in TabType /\ started.open
            /\ started.login = tabs[t].login
            /\ started.state \in {"TIMER_RUNNING", "NONE"}
        BY <2>3, <2>4, <4>1, TrackInv
      <4> QED BY <4>2
    <3> QED BY <3>1, <3>2
  <2> HIDE DEF started
  <2>6. /\ loaded \in TabType
        /\ loaded.state = CommittedState(started.state, portalError)
        /\ ~loaded.provisional /\ ~loaded.sslSeen
        /\ loaded.open /\ loaded.login = tabs[t].login
        /\ loaded.state = "NEEDS_RELOAD" => loaded.reloadTasks > 0
    BY <2>5, CommitType
  <2> HIDE DEF loaded, handles
  <2>7. /\ done \in TabType
        /\ done.state = CommittedState(started.state, portalError)
        /\ ~done.provisional /\ ~done.sslSeen /\ done.tracked = None
        /\ done.open /\ done.login = tabs[t].login
        /\ done.state = "NEEDS_RELOAD" => done.reloadTasks > 0
    BY <2>6 DEF TabType
  <2> HIDE DEF done
  <2>8. /\ pending => pending'
        /\ portalError /\ started.state = "TIMER_RUNNING" => pending'
        /\ lastDetection' = lastDetection /\ CheckTypeOK'
    BY <1>0, <2>1 DEF RequestCheck, CheckTypeOK
  <2>9. /\ done.state = "MAYBE_BROKEN_BY_PORTAL" => pending'
        /\ done.state = "BROKEN_BY_PORTAL" => lastDetection = "BEHIND_CAPTIVE_PORTAL"
        /\ done.state # "TIMER_RUNNING"
    BY <2>5, <2>7, <2>8 DEF CommittedState
  <2>10. TabInv(done, handles, pending', lastDetection)
    BY <1>0, <2>7, <2>9 DEF TabInv
  <2> QED BY <2>1, <2>2, <2>7, <2>8, <2>10, OneTab
<1>9. ASSUME NEW t \in Tabs, OnSlowSSLConnect(t) PROVE PortalInv'
  <2> DEFINE done == [tabs[t] EXCEPT !.state = "MAYBE_BROKEN_BY_PORTAL"]
  <2>1. /\ tabs' = [tabs EXCEPT ![t] = done]
        /\ navigations' = [navigations EXCEPT ![t] = navigations[t]]
        /\ pending' /\ lastDetection' = lastDetection /\ CheckTypeOK'
        /\ tabs[t].state = "TIMER_RUNNING"
    BY <1>0, <1>9 DEF OnSlowSSLConnect, RequestCheck, PortalInv, CheckTypeOK
  <2>2. tabs[t].open
    BY <1>0, <2>1 DEF TabInv, NewTab
  <2>3. /\ done \in TabType /\ done.state = "MAYBE_BROKEN_BY_PORTAL"
        /\ done.open = tabs[t].open /\ done.login = tabs[t].login
        /\ done.provisional = tabs[t].provisional /\ done.sslSeen = tabs[t].sslSeen
        /\ done.tracked = tabs[t].tracked
    BY <1>0 DEF TabType
  <2> HIDE DEF done
  <2>4. TabInv(done, navigations[t], pending', lastDetection)
    BY <1>0, <2>1, <2>2, <2>3 DEF TabInv
  <2> QED BY <1>0, <2>1, <2>3, <2>4, OneTab
<1>10. ASSUME NEW t \in Tabs, OnSSLCertError(t) PROVE PortalInv'
  <2> DEFINE next == IF tabs[t].state = "TIMER_RUNNING"
                      THEN "MAYBE_BROKEN_BY_PORTAL" ELSE tabs[t].state
             done == [tabs[t] EXCEPT !.interstitial = TRUE, !.state = next]
  <2>1. /\ tabs' = [tabs EXCEPT ![t] = done]
        /\ navigations' = [navigations EXCEPT ![t] = navigations[t]]
        /\ pending => pending'
        /\ next = "MAYBE_BROKEN_BY_PORTAL" => pending'
        /\ lastDetection' = lastDetection /\ CheckTypeOK'
        /\ tabs[t].provisional
    BY <1>0, <1>10 DEF OnSSLCertError, RequestCheck, PortalInv, CheckTypeOK, TabInv, TabType
  <2>2. tabs[t].open
    BY <1>0, <2>1 DEF TabInv, NewTab
  <2>3. /\ done \in TabType /\ done.state = next
        /\ done.open = tabs[t].open /\ done.login = tabs[t].login
        /\ done.provisional = tabs[t].provisional /\ done.sslSeen = tabs[t].sslSeen
        /\ done.tracked = tabs[t].tracked /\ done.reloadTasks = tabs[t].reloadTasks
    BY <1>0 DEF TabType
  <2>4. next \in {tabs[t].state, "MAYBE_BROKEN_BY_PORTAL"}
    OBVIOUS
  <2> HIDE DEF done, next
  <2>5. TabInv(done, navigations[t], pending', lastDetection)
    BY <1>0, <2>1, <2>2, <2>3, <2>4 DEF TabInv
  <2> QED BY <1>0, <2>1, <2>3, <2>5, OneTab
<1>11. ASSUME NEW t \in Tabs, InterstitialGone(t) PROVE PortalInv'
  <2> DEFINE done == [tabs[t] EXCEPT !.interstitial = FALSE]
  <2>1. /\ tabs' = [tabs EXCEPT ![t] = done]
        /\ navigations' = [navigations EXCEPT ![t] = navigations[t]]
        /\ UNCHANGED checkVars /\ tabs[t].interstitial
    BY <1>11 DEF InterstitialGone, PortalInv
  <2>2. tabs[t].open
    BY <1>0, <2>1 DEF TabInv, NewTab
  <2>3. /\ done \in TabType /\ done.state = tabs[t].state
        /\ done.open = tabs[t].open /\ done.login = tabs[t].login
        /\ done.provisional = tabs[t].provisional /\ done.sslSeen = tabs[t].sslSeen
        /\ done.tracked = tabs[t].tracked /\ done.reloadTasks = tabs[t].reloadTasks
    BY <1>0 DEF TabType
  <2> HIDE DEF done
  <2>4. TabInv(done, navigations[t], pending, lastDetection)
    BY <1>0, <2>2, <2>3 DEF TabInv
  <2> QED BY <1>0, <2>1, <2>3, <2>4, OneTab DEF CheckTypeOK
<1>12. ASSUME NEW t \in Tabs, RunReloadTask(t) PROVE PortalInv'
  <2> DEFINE taken == [tabs[t] EXCEPT !.reloadTasks = @ - 1]
             done == ReloadTabIfNeeded(taken)
  <2>1. /\ tabs' = [tabs EXCEPT ![t] = done]
        /\ navigations' = [navigations EXCEPT ![t] = navigations[t]]
        /\ UNCHANGED checkVars /\ tabs[t].reloadTasks > 0
    BY <1>12 DEF RunReloadTask, PortalInv
  <2>2. tabs[t].open
    BY <1>0, <2>1 DEF TabInv, NewTab
  <2>3. /\ taken \in TabType /\ taken.open /\ taken.login = tabs[t].login
        /\ taken.state = tabs[t].state /\ taken.provisional = tabs[t].provisional
        /\ taken.sslSeen = tabs[t].sslSeen /\ taken.tracked = tabs[t].tracked
    BY <1>0, <2>1, <2>2 DEF TabType
  <2> HIDE DEF taken
  <2>4. /\ done \in TabType /\ done.open /\ done.login = tabs[t].login
        /\ done.state \in {tabs[t].state, "NONE"}
        /\ done.state = "NEEDS_RELOAD" => done.provisional
        /\ done.provisional = tabs[t].provisional
        /\ done.sslSeen = tabs[t].sslSeen /\ done.tracked = tabs[t].tracked
    BY <2>3, ReloadType
  <2> HIDE DEF done
  <2>5. TabInv(done, navigations[t], pending, lastDetection)
    BY <1>0, <2>4 DEF TabInv
  <2> QED BY <1>0, <2>1, <2>4, <2>5, OneTab DEF CheckTypeOK
<1>13. ASSUME NEW t \in Tabs, DidStopLoading(t) PROVE PortalInv'
  <2> DEFINE done == [tabs[t] EXCEPT !.firstLoad = FALSE]
  <2>1. /\ tabs' = [tabs EXCEPT ![t] = done]
        /\ navigations' = [navigations EXCEPT ![t] = navigations[t]]
        /\ pending => pending'
        /\ lastDetection' = lastDetection /\ CheckTypeOK' /\ tabs[t].open
    BY <1>0, <1>13 DEF DidStopLoading, RequestCheck, PortalInv, CheckTypeOK
  <2>2. /\ done \in TabType /\ done.state = tabs[t].state
        /\ done.open = tabs[t].open /\ done.login = tabs[t].login
        /\ done.provisional = tabs[t].provisional /\ done.sslSeen = tabs[t].sslSeen
        /\ done.tracked = tabs[t].tracked /\ done.reloadTasks = tabs[t].reloadTasks
    BY <1>0 DEF TabType
  <2> HIDE DEF done
  <2>3. TabInv(done, navigations[t], pending', lastDetection)
    BY <1>0, <2>1, <2>2 DEF TabInv
  <2> QED BY <1>0, <2>1, <2>2, <2>3, OneTab
<1>14. ASSUME NEW t \in Tabs, OpenTab(t) PROVE PortalInv'
  <2> DEFINE done == NewTab(TRUE, FALSE)
  <2>1. /\ tabs' = [tabs EXCEPT ![t] = done]
        /\ navigations' = [navigations EXCEPT ![t] = navigations[t]]
        /\ UNCHANGED checkVars
    BY <1>14 DEF OpenTab, PortalInv
  <2>2. TabInv(done, navigations[t], pending, lastDetection) /\ ~done.login
    BY NewTabInv
  <2> HIDE DEF done
  <2> QED BY <1>0, <2>1, <2>2, OneTab DEF CheckTypeOK
<1>15. ASSUME NEW t \in Tabs, CloseTab(t) PROVE PortalInv'
  <2> DEFINE done == NewTab(FALSE, FALSE)
             handles == [h \in Handles |-> NoNavigation]
  <2>1. /\ tabs' = [tabs EXCEPT ![t] = done]
        /\ navigations' = [navigations EXCEPT ![t] = handles]
        /\ UNCHANGED checkVars
    BY <1>15 DEF CloseTab
  <2>2. /\ handles \in [Handles -> NavigationType]
        /\ \A h \in Handles : handles[h].phase = "None"
    BY DEF NoNavigation, NavigationType
  <2> HIDE DEF handles
  <2>3. TabInv(done, handles, pending, lastDetection) /\ ~done.login
    BY <2>2, NewTabInv
  <2> HIDE DEF done
  <2> QED BY <1>0, <2>1, <2>2, <2>3, OneTab DEF CheckTypeOK
<1> QED
  BY <1>2, <1>4, <1>5, <1>6, <1>7, <1>8, <1>9, <1>10, <1>11, <1>12,
     <1>13, <1>14, <1>15, EnvironmentAssumption
  DEF QuietStep, DidFinishNavigation

\* Every step preserves the invariant.
LEMMA NextInv == PortalInv /\ [Next]_vars => PortalInv'
<1>1. ASSUME PortalInv, NEW result \in Results, NotifyResult(result) PROVE PortalInv'
  BY <1>1, NotifyInv
<1>2. ASSUME PortalInv, NEW t \in Tabs, TellTab(t) PROVE PortalInv'
  BY <1>2, TellInv
<1>3. ASSUME PortalInv, UNCHANGED vars PROVE PortalInv'
  BY <1>3 DEF PortalInv, CheckTypeOK, Waiting, LastTold
<1>4. ASSUME PortalInv, BetweenNotifications, QuietStep PROVE PortalInv'
  BY <1>4, QuietInv
<1> QED
  BY <1>1, <1>2, <1>3, <1>4 DEF Next

LEMMA PortalInvariant == Spec => []PortalInv
BY InitInv, NextInv, PTL DEF Spec

\* For any number of tabs and navigations: no tab waits for an answer that will
\* not come, and none is held broken once it was told that the portal is gone.
THEOREM TabsFollow == Spec => []TabsFollowService
<1>1. PortalInv => TypeOK
  BY DEF PortalInv, TabInv, TypeOK
<1>2. PortalInv => MaybeBrokenHasCheck
  BY DEF PortalInv, TabInv, Waiting, MaybeBrokenHasCheck, MaybeBroken
<1>3. PortalInv => BrokenMeansBehind
  BY DEF PortalInv, TabInv, BrokenMeansBehind
<1>4. PortalInv => TabsFollowService
  BY <1>1, <1>2, <1>3 DEF TabsFollowService
<1> QED BY <1>4, PortalInvariant, PTL

\* A tab that needs a reload has a load or a posted task that will bring it.
THEOREM ReloadIsDue == Spec => []NeedsReloadIsDue
<1>1. PortalInv => NeedsReloadIsDue
  BY DEF PortalInv, TabInv, NeedsReloadIsDue
<1> QED BY <1>1, PortalInvariant, PTL

\* Helper and reloader follow the same load, through a pointer that is alive.
THEOREM LoadsFollowed == Spec => []LoadsTracked
<1>1. PortalInv => LoadsTracked
  BY DEF PortalInv, TabInv, LoadsTracked
<1> QED BY <1>1, PortalInvariant, PTL

\* However many tabs one result finds broken, one after the other, the window has
\* one login tab at most, and none once its tabs were told that the portal is gone.
THEOREM LoginTabIsUnique == Spec => []OneLoginTab
<1>1. ASSUME PortalInv PROVE OneLoginTab
  <2>1. \A t \in LoginTabs : LastTold(t) = "BEHIND_CAPTIVE_PORTAL"
    BY <1>1 DEF PortalInv, TabInv, LoginTabs
  <2>2. CASE LoginTabs = {}
    BY <2>1, <2>2, FS_EmptySet DEF OneLoginTab
  <2>3. CASE LoginTabs # {}
    <3>1. PICK t \in LoginTabs : TRUE
      BY <2>3
    <3>2. \A u \in LoginTabs : u = t
      BY <1>1, <3>1 DEF PortalInv, LoginTabs
    <3>3. LoginTabs = {t}
      BY <3>1, <3>2
    <3> HIDE DEF LoginTabs
    <3>4. Cardinality(LoginTabs) = 1
      BY <3>3, FS_Singleton
    <3> QED BY <2>1, <3>4 DEF OneLoginTab
  <2> QED BY <2>2, <2>3
<1> QED BY <1>1, PortalInvariant, PTL

-----------------------------------------------------------------------------
(* Reloads *)

\* Navigations never ask for a reload, and only OnLoadStart's caller takes a
\* request back.
LEMMA NavigationsKeepReloading ==
    ASSUME NEW tab \in TabType, NEW b \in BOOLEAN
    PROVE  /\ OnLoadStart(tab, b).reloading = tab.reloading
           /\ OnAbort(tab).reloading = tab.reloading
           /\ OnRedirect(tab, b).reloading = tab.reloading
           /\ OnLoadCommitted(tab, b).reloading = tab.reloading
BY DEF OnLoadStart, OnAbort, OnRedirect, OnLoadCommitted, TabType

LEMMA TrackClearsReloading ==
    ASSUME PortalInv, NEW t \in Tabs, NEW h \in Handles, NEW ssl \in BOOLEAN
    PROVE  ~Track(t, h, ssl).reloading
<1> DEFINE superseded == /\ tabs[t].tracked # None
                         /\ navigations[t][tabs[t].tracked].phase # "Committed"
           told == IF superseded THEN OnAbort(tabs[t]) ELSE tabs[t]
           mid == [told EXCEPT !.tracked = h, !.reloading = FALSE]
<1>1. told \in TabType
  BY AbortType DEF PortalInv, TabInv
<1>2. Track(t, h, ssl) = OnLoadStart(mid, ssl)
  BY DEF Track
<1> HIDE DEF told
<1>3. mid \in TabType /\ ~mid.reloading
  BY <1>1 DEF TabType
<1> HIDE DEF mid
<1> QED BY <1>2, <1>3, NavigationsKeepReloading

\* ReloadTabIfNeeded reloads what needs it, and no load is in its way.
LEMMA ReloadBegins ==
    ASSUME NEW tab \in TabType, ~tab.reloading, ReloadTabIfNeeded(tab).reloading
    PROVE  tab.state = "NEEDS_RELOAD" /\ (~tab.provisional \/ tab.interstitial)
BY DEF ReloadTabIfNeeded

\* What EnterNeedsReload makes of a tab: it begins a reload or leaves it due.
LEMMA EnterBegins ==
    ASSUME NEW tab \in TabType, ~tab.reloading, EnterNeedsReload(tab).reloading
    PROVE  ~tab.provisional \/ tab.interstitial
<1> DEFINE need == [tab EXCEPT !.state = "NEEDS_RELOAD"]
<1>1. /\ need \in TabType /\ ~need.reloading /\ need.provisional = tab.provisional
      /\ need.interstitial = tab.interstitial
  BY DEF TabType
<1>2. ReloadTabIfNeeded(need).reloading
  BY DEF EnterNeedsReload
<1> HIDE DEF need
<1> QED BY <1>1, <1>2, ReloadBegins

\* A result has a tab reloaded, at once or later, only when it is not another portal
\* and the tab was broken by one, or may have been while the result before was one.
LEMMA ResultBegins ==
    ASSUME NEW tab \in TabType, NEW previous, NEW result,
           NEW done, done = HelperOnResults(tab, previous, result)
    PROVE  /\ done.reloading /\ ~tab.reloading =>
                 /\ ~tab.provisional \/ tab.interstitial
                 /\ result # "BEHIND_CAPTIVE_PORTAL"
                 /\ \/ tab.state = "BROKEN_BY_PORTAL"
                    \/ /\ tab.state \in {"TIMER_RUNNING", "MAYBE_BROKEN_BY_PORTAL"}
                       /\ previous = "BEHIND_CAPTIVE_PORTAL"
           /\ done.state = "NEEDS_RELOAD" /\ tab.state # "NEEDS_RELOAD" =>
                 /\ result # "BEHIND_CAPTIVE_PORTAL"
                 /\ \/ tab.state = "BROKEN_BY_PORTAL"
                    \/ /\ tab.state \in {"TIMER_RUNNING", "MAYBE_BROKEN_BY_PORTAL"}
                       /\ previous = "BEHIND_CAPTIVE_PORTAL"
<1> DEFINE mid == ReloaderOnResults(tab, previous, result)
           begins == /\ result # "BEHIND_CAPTIVE_PORTAL"
                     /\ \/ tab.state = "BROKEN_BY_PORTAL"
                        \/ /\ tab.state \in {"TIMER_RUNNING", "MAYBE_BROKEN_BY_PORTAL"}
                           /\ previous = "BEHIND_CAPTIVE_PORTAL"
<1>1. \/ begins /\ mid = EnterNeedsReload(tab)
      \/ /\ mid.reloading = tab.reloading
         /\ mid.state = "NEEDS_RELOAD" => tab.state = "NEEDS_RELOAD"
  BY DEF ReloaderOnResults, TabType
<1>2. /\ done.reloading = mid.reloading
      /\ done.state = mid.state
  <2>1. done = [mid EXCEPT !.login = @ /\ result = "BEHIND_CAPTIVE_PORTAL"]
    BY DEF HelperOnResults, DetectorOnResults
  <2>2. /\ [mid EXCEPT !.login = @ /\ result = "BEHIND_CAPTIVE_PORTAL"].reloading = mid.reloading
        /\ [mid EXCEPT !.login = @ /\ result = "BEHIND_CAPTIVE_PORTAL"].state = mid.state
    OBVIOUS
  <2> QED BY <2>1, <2>2
<1> HIDE DEF mid
<1> QED BY <1>1, <1>2, EnterBegins

\* What ReloadsWarranted says of one tab.
Warranted(t) ==
    /\ tabs'[t].state = "NEEDS_RELOAD" /\ tabs[t].state # "NEEDS_RELOAD" =>
          PortalGoneFor(t)
    /\ tabs'[t].reloading /\ ~tabs[t].reloading =>
          /\ ~tabs[t].provisional \/ tabs[t].interstitial
          /\ tabs[t].state = "NEEDS_RELOAD" \/ PortalGoneFor(t)

\* Telling a result is warranted, whichever tab is told.
LEMMA TellWarranted ==
    ASSUME PortalInv, NEW u \in Tabs, TellTab(u), NEW t \in Tabs
    PROVE  Warranted(t)
<1> DEFINE done == HelperOnResults(tabs[u], previousDetection, lastDetection)
           told == [tabs EXCEPT ![u] = done]
           blank == NewTab(TRUE, TRUE)
<1>1. /\ tabs[t] \in TabType /\ tabs = [v \in Tabs |-> tabs[v]]
      /\ u \in informing
      /\ TabInv(tabs[u], navigations[u], Waiting(u), LastTold(u))
      /\ TabInv(tabs[t], navigations[t], Waiting(t), LastTold(t))
  BY DEF PortalInv, TabInv, TellTab
<1>2. tabs' = told \/ \E s \in Tabs : tabs' = [told EXCEPT ![s] = blank]
  BY DEF TellTab
<1>3. ~blank.reloading /\ blank.state = "NONE"
  BY DEF NewTab
<1> HIDE DEF done, blank
<1>4. tabs'[t] = blank \/ tabs'[t] = IF t = u THEN done ELSE tabs[t]
  BY <1>1, <1>2
<1>5. CASE t = u /\ tabs'[t] = done
  <2>1. tabs[t].state = "BROKEN_BY_PORTAL" => previousDetection = "BEHIND_CAPTIVE_PORTAL"
    BY <1>1, <1>5 DEF TabInv, LastTold
  <2>2. /\ done.reloading /\ ~tabs[t].reloading =>
              /\ ~tabs[t].provisional \/ tabs[t].interstitial
              /\ PortalGoneFor(t)
        /\ done.state = "NEEDS_RELOAD" /\ tabs[t].state # "NEEDS_RELOAD" => PortalGoneFor(t)
    <3>1. done = HelperOnResults(tabs[t], previousDetection, lastDetection)
      BY <1>5 DEF done
    <3> QED BY <1>1, <1>5, <2>1, <3>1, ResultBegins DEF PortalGoneFor
  <2> QED BY <1>5, <2>2 DEF Warranted
<1>6. CASE tabs'[t] = tabs[t] \/ tabs'[t] = blank
  BY <1>3, <1>6 DEF Warranted
<1> QED BY <1>4, <1>5, <1>6

\* What the reloader makes of a tab without a result never has it need a reload
\* that it did not need.
LEMMA NavigationsKeepState ==
    ASSUME NEW tab \in TabType, NEW b \in BOOLEAN
    PROVE  /\ OnLoadStart(tab, b).state # "NEEDS_RELOAD"
           /\ OnAbort(tab).state # "NEEDS_RELOAD"
           /\ OnRedirect(tab, b).state # "NEEDS_RELOAD"
           /\ CommittedState(tab.state, b) = "NEEDS_RELOAD" => tab.state = "NEEDS_RELOAD"
BY DEF OnLoadStart, OnAbort, OnRedirect, CommittedState, TabType

\* Between notifications only a posted task reloads, a tab that needs it.
LEMMA QuietWarranted ==
    ASSUME PortalInv, QuietStep, NEW t \in Tabs
    PROVE  Warranted(t)
<1> DEFINE Goal == Warranted(t)
<1> SUFFICES Goal
  OBVIOUS
<1>0. /\ tabs[t] \in TabType
      /\ \A u \in Tabs : tabs[u] \in TabType
      /\ tabs = [u \in Tabs |-> tabs[u]]
      /\ \A u \in Tabs, h \in Handles : navigations[u][h].ssl \in BOOLEAN
  <2>1. \A u \in Tabs : TabInv(tabs[u], navigations[u], Waiting(u), LastTold(u))
    BY DEF PortalInv
  <2>2. \A u \in Tabs, h \in Handles : navigations[u][h] \in NavigationType
    BY DEF PortalInv
  <2>3. tabs = [u \in Tabs |-> tabs[u]]
    BY DEF PortalInv
  <2> QED BY <2>1, <2>2, <2>3 DEF TabInv, NavigationType
<1>2. ASSUME tabs' = tabs PROVE Goal
  BY <1>2 DEF Warranted
<1>3. ASSUME NEW u \in Tabs, NEW done, tabs' = [tabs EXCEPT ![u] = done],
             ~done.reloading \/ done.reloading = tabs[u].reloading,
             done.state = "NEEDS_RELOAD" => tabs[u].state = "NEEDS_RELOAD"
      PROVE  Goal
  <2>1. tabs'[t] = IF u = t THEN done ELSE tabs[t]
    BY <1>0, <1>3
  <2> QED BY <1>3, <2>1 DEF Warranted
<1>4. ASSUME NEW u \in Tabs, NEW h \in Handles, NEW ssl \in BOOLEAN,
             DidStartNavigation(u, h, ssl)
      PROVE  Goal
  <2>1. tabs' = [tabs EXCEPT ![u] = Track(u, h, ssl)] /\ tabs[u].open
    BY <1>4 DEF DidStartNavigation
  <2>2. ~Track(u, h, ssl).reloading /\ Track(u, h, ssl).state # "NEEDS_RELOAD"
    BY <2>1, TrackInv, TrackClearsReloading
  <2> QED BY <1>3, <2>1, <2>2
<1>5. ASSUME NEW u \in Tabs, NEW h \in Handles, NEW ssl \in BOOLEAN,
             DidRedirectNavigation(u, h, ssl)
      PROVE  Goal
  <2>1. tabs' = tabs \/ tabs' = [tabs EXCEPT ![u] = OnRedirect(tabs[u], ssl)]
    BY <1>5 DEF DidRedirectNavigation
  <2>2. /\ OnRedirect(tabs[u], ssl).reloading = tabs[u].reloading
        /\ OnRedirect(tabs[u], ssl).state # "NEEDS_RELOAD"
    BY <1>0, NavigationsKeepReloading, NavigationsKeepState
  <2> QED BY <1>2, <1>3, <2>1, <2>2
<1>6. ASSUME NEW u \in Tabs, NEW h \in Handles, FinishAborted(u, h) PROVE Goal
  <2> DEFINE over == [OnAbort(tabs[u]) EXCEPT !.tracked = None]
  <2>1. tabs' = tabs \/ tabs' = [tabs EXCEPT ![u] = over]
    BY <1>6 DEF FinishAborted
  <2>2. over.reloading = OnAbort(tabs[u]).reloading /\ over.state = OnAbort(tabs[u]).state
    OBVIOUS
  <2>3. over.reloading = tabs[u].reloading /\ over.state # "NEEDS_RELOAD"
    BY <1>0, <2>2, NavigationsKeepReloading, NavigationsKeepState
  <2> HIDE DEF over
  <2> QED BY <1>2, <1>3, <2>1, <2>3
<1>7. ASSUME NEW u \in Tabs, NEW h \in Handles, NEW portalError \in BOOLEAN,
             FinishCommitted(u, h, portalError)
      PROVE  Goal
  <2> DEFINE ssl == navigations[u][h].ssl
             started == IF tabs[u].tracked = h THEN tabs[u] ELSE Track(u, h, ssl)
             loaded == OnLoadCommitted(started, portalError)
             done == [loaded EXCEPT !.tracked = None]
  <2>1. tabs' = [tabs EXCEPT ![u] = done] /\ navigations[u][h].phase = "Committed"
    BY <1>7 DEF FinishCommitted
  <2>2. ssl \in BOOLEAN /\ tabs[u].open
    BY <1>0, <2>1 DEF PortalInv, TabInv
  <2>3. /\ started \in TabType /\ (started.reloading => tabs[u].reloading)
        /\ started.state = "NEEDS_RELOAD" => tabs[u].state = "NEEDS_RELOAD"
    BY <1>0, <2>2, TrackInv, TrackClearsReloading
  <2>4. done.reloading = loaded.reloading /\ done.state = loaded.state
    OBVIOUS
  <2> HIDE DEF started
  <2>5. loaded.reloading = started.reloading
    BY <2>3, NavigationsKeepReloading
  <2>6. done.reloading \in BOOLEAN /\ tabs[u].reloading \in BOOLEAN
    BY <1>0, <2>3, <2>4, <2>5 DEF TabType
  <2>7. ~done.reloading \/ done.reloading = tabs[u].reloading
    BY <2>3, <2>4, <2>5, <2>6
  <2>8. loaded.state = CommittedState(started.state, portalError)
    BY <2>3, CommitType
  <2>9. done.state = "NEEDS_RELOAD" => tabs[u].state = "NEEDS_RELOAD"
    BY <2>3, <2>4, <2>8, NavigationsKeepState
  <2> HIDE DEF loaded, done
  <2> QED BY <1>3, <2>1, <2>7, <2>9
<1>8. ASSUME NEW u \in Tabs, RunReloadTask(u) PROVE Goal
  <2> DEFINE taken == [tabs[u] EXCEPT !.reloadTasks = @ - 1]
  <2>1. tabs' = [tabs EXCEPT ![u] = ReloadTabIfNeeded(taken)] /\ tabs[u].reloadTasks > 0
    BY <1>8 DEF RunReloadTask
  <2>2. /\ taken \in TabType /\ taken.reloading = tabs[u].reloading
        /\ taken.state = tabs[u].state /\ taken.provisional = tabs[u].provisional
        /\ taken.interstitial = tabs[u].interstitial
    BY <1>0, <2>1 DEF TabType
  <2> HIDE DEF taken
  <2>3. CASE u = t
    <3>1. tabs'[t] = ReloadTabIfNeeded(taken)
      BY <1>0, <2>1, <2>3
    <3>2. ReloadTabIfNeeded(taken).state \in {taken.state, "NONE"}
      BY <2>2, ReloadType
    <3> QED BY <2>2, <2>3, <3>1, <3>2, ReloadBegins DEF Warranted
  <2>4. CASE u # t
    BY <1>0, <2>1, <2>4 DEF Warranted
  <2> QED BY <2>3, <2>4
<1>9. ASSUME NEW u \in Tabs,
             \/ OnSlowSSLConnect(u) \/ OnSSLCertError(u)
             \/ InterstitialGone(u) \/ DidStopLoading(u)
      PROVE  Goal
  <2>1. \/ tabs' = [tabs EXCEPT ![u].state = "MAYBE_BROKEN_BY_PORTAL"]
        \/ tabs' = [tabs EXCEPT ![u].interstitial = TRUE,
                                ![u].state = IF @ = "TIMER_RUNNING"
                                             THEN "MAYBE_BROKEN_BY_PORTAL" ELSE @]
        \/ tabs' = [tabs EXCEPT ![u].interstitial = FALSE]
        \/ tabs' = [tabs EXCEPT ![u].firstLoad = FALSE]
    BY <1>9 DEF OnSlowSSLConnect, OnSSLCertError, InterstitialGone, DidStopLoading
  <2>2. /\ tabs'[t].reloading = tabs[t].reloading
        /\ tabs'[t].state = "NEEDS_RELOAD" => tabs[t].state = "NEEDS_RELOAD"
    BY <1>0, <2>1 DEF TabType
  <2> QED BY <2>2 DEF Warranted
<1>10. ASSUME NEW u \in Tabs, OpenTab(u) \/ CloseTab(u) PROVE Goal
  <2> DEFINE blank == NewTab(TRUE, FALSE)
             empty == NewTab(FALSE, FALSE)
  <2>1. /\ ~blank.reloading /\ blank.state # "NEEDS_RELOAD"
        /\ ~empty.reloading /\ empty.state # "NEEDS_RELOAD"
    BY DEF NewTab
  <2>2. tabs' = [tabs EXCEPT ![u] = blank] \/ tabs' = [tabs EXCEPT ![u] = empty]
    BY <1>10 DEF OpenTab, CloseTab
  <2> HIDE DEF blank, empty
  <2> QED BY <1>3, <2>1, <2>2
<1>11. ASSUME NEW u \in Tabs, NEW h \in Handles, Commit(u, h) PROVE Goal
  BY <1>2, <1>11 DEF Commit
<1>12. CASE ServiceStep
  BY <1>2, <1>12 DEF ServiceStep
<1> HIDE DEF Goal
<1>13. CASE \E u \in Tabs : \E h \in Handles, ssl \in Schemes :
               DidStartNavigation(u, h, ssl) \/ DidRedirectNavigation(u, h, ssl)
  BY <1>4, <1>5, <1>13, EnvironmentAssumption
<1>14. CASE \E u \in Tabs, h \in Handles : Commit(u, h) \/ DidFinishNavigation(u, h)
  BY <1>6, <1>7, <1>11, <1>14 DEF DidFinishNavigation
<1>15. CASE \E u \in Tabs :
               \/ OnSlowSSLConnect(u) \/ OnSSLCertError(u) \/ InterstitialGone(u)
               \/ RunReloadTask(u) \/ DidStopLoading(u)
               \/ OpenTab(u) \/ CloseTab(u)
  BY <1>8, <1>9, <1>10, <1>15
<1> QED BY <1>12, <1>13, <1>14, <1>15 DEF QuietStep

\* A tab comes to need a reload, and is reloaded, only when a portal broke it or may
\* have and it is told that the portal is gone; no reload interrupts a load, except
\* under an interstitial.
THEOREM ReloadsAreWarranted == Spec => ReloadsWarranted
<1>1. ASSUME PortalInv, [Next]_vars, NEW t \in Tabs PROVE Warranted(t)
  <2>1. CASE \E result \in Results : NotifyResult(result)
    BY <2>1 DEF NotifyResult, Warranted
  <2>2. CASE \E u \in Tabs : TellTab(u)
    BY <1>1, <2>2, TellWarranted
  <2>3. CASE QuietStep
    BY <1>1, <2>3, QuietWarranted
  <2>4. CASE UNCHANGED vars
    BY <2>4 DEF Warranted
  <2> QED BY <1>1, <2>1, <2>2, <2>3, <2>4 DEF Next
<1>2. PortalInv /\ [Next]_vars => [\A t \in Tabs : Warranted(t)]_vars
  BY <1>1
<1>3. [][\A t \in Tabs : Warranted(t)]_vars => ReloadsWarranted
  BY DEF Warranted, ReloadsWarranted
<1> QED BY <1>2, <1>3, PortalInvariant, PTL DEF Spec
=============================================================================
