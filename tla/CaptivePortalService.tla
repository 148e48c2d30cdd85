------------------------ MODULE CaptivePortalService ------------------------
(***************************************************************************)
(* CaptivePortalService (captive_portal_service.cc): one check at a time,  *)
(* throttled by a net::BackoffEntry, restarted when the preference that    *)
(* enables the service changes.                                            *)
(*                                                                         *)
(* Clocks are relative.  The code keeps absolute TimeTicks; every one of   *)
(* them is here the distance between it and now (time still to run, or     *)
(* time passed), so that Tick moves all of them and time needs no bound.   *)
(* Only POSIX builds in state NOT_TESTING are modelled:                    *)
(* ShouldDeferToNativeCaptivePortalDetection is FALSE.                     *)
(***************************************************************************)
EXTENDS Integers

CONSTANTS
    InitialBackoffNoPortal,  \* recheck_policy_.initial_backoff_no_portal_ms
    InitialBackoffPortal,    \* recheck_policy_.initial_backoff_portal_ms
    MaximumBackoff,          \* backoff_policy.maximum_backoff_ms
    NumErrorsToIgnore,       \* backoff_policy.num_errors_to_ignore
    JitterTenths,            \* 10 * backoff_policy.jitter_factor
    RetryAfters,             \* the Retry-After values a probe may come back with
    MaxChecks,               \* bound: checks in a row with the same result
    MaxPrefChanges,          \* bound: changes of the preference
    ElapsedCap               \* bound: time passed is not told apart beyond it

ASSUME DelaysAssumption ==
    /\ InitialBackoffNoPortal \in Nat
    /\ InitialBackoffPortal \in Nat
    /\ MaximumBackoff \in Nat
    /\ RetryAfters \subseteq Nat
ASSUME PolicyAssumption ==
    /\ NumErrorsToIgnore \in Nat
    /\ JitterTenths \in 0..10
ASSUME BoundsAssumption ==
    /\ MaxChecks \in Nat \ {0}
    /\ MaxPrefChanges \in Nat
    /\ ElapsedCap \in Nat

VARIABLES
    state,           \* state_
    enabled,         \* enabled_
    lastResult,      \* last_detection_result_
    previousResult,  \* Results::previous_result as last notified
    numChecks,       \* num_checks_with_same_result_
    checkedBefore,   \* ~last_check_time_.is_null()
    sinceCheck,      \* now - last_check_time_
    backoff,         \* *backoff_entry_ and the initial_delay_ms of its policy
    timer,           \* check_captive_portal_timer_
    detecting,       \* captive_portal_detector_ has a probe in flight
    prefChanges      \* changes of the preference so far

clientVars == <<state, enabled, lastResult, previousResult>>
historyVars == <<numChecks, checkedBefore, sinceCheck>>
serviceVars == <<clientVars, historyVars, backoff, timer, detecting, prefChanges>>

DetectionResults == {"INTERNET_CONNECTED", "NO_RESPONSE", "BEHIND_CAPTIVE_PORTAL"}
States == {"IDLE", "TIMER_RUNNING", "CHECKING_FOR_PORTAL"}

Larger(a, b) == IF a > b THEN a ELSE b
Smaller(a, b) == IF a < b THEN a ELSE b

ServiceTypeOK ==
    /\ state \in States
    /\ enabled \in BOOLEAN
    /\ lastResult \in DetectionResults
    /\ previousResult \in DetectionResults
    /\ numChecks \in 0..MaxChecks
    /\ checkedBefore \in BOOLEAN
    /\ sinceCheck \in Nat
    /\ backoff \in [initialDelay : Nat, failures : Nat, release : Nat]
    /\ timer \in [running : BOOLEAN, left : Nat]
    /\ detecting \in BOOLEAN
    /\ prefChanges \in 0..MaxPrefChanges

-----------------------------------------------------------------------------
(* net::BackoffEntry, as the service uses it *)

\* The delays that f failures in a row can earn: always_use_initial_delay makes
\* the first one count, each failure past the ignored ones doubles the delay,
\* jitter may shorten it, and the maximum cuts it off.
Exponent(f) == IF f > NumErrorsToIgnore THEN f - NumErrorsToIgnore ELSE 0
FullDelay(initial, f) == initial * 2 ^ Exponent(f)
Jittered(full) == full - (full * JitterTenths) \div 10
Delays(initial, f) ==
    LET full == FullDelay(initial, f)
    IN  {d \in 0..MaximumBackoff :
            d <= full /\ (d >= Jittered(full) \/ d = MaximumBackoff)}

StoppedTimer == [running |-> FALSE, left |-> 0]

\* ResetBackoffEntry(result) under the value `on` of enabled_.
ResetBackoffEntry(on, result) ==
    [initialDelay |-> IF ~on \/ result = "BEHIND_CAPTIVE_PORTAL"
                      THEN InitialBackoffPortal ELSE InitialBackoffNoPortal,
     failures |-> 0,
     release |-> 0]

\* SetCustomReleaseTime(now + delay) overrides the release time.
SetCustomReleaseTime(entry, delay) == [entry EXCEPT !.release = delay]

\* InformOfRequest(false) may only move it further away.
InformOfFailure(entry, delay) ==
    [entry EXCEPT !.failures = @ + 1, !.release = Larger(@, delay)]

\* InformOfRequest(true): one failure is forgiven, the initial delay still holds.
InformOfSuccess(entry) ==
    [entry EXCEPT !.failures = IF @ > 0 THEN @ - 1 ELSE 0,
                  !.release = Larger(entry.initialDelay, @)]

-----------------------------------------------------------------------------
(* The constructor reads the preference through UpdateEnabledState. *)
ServiceInit ==
    /\ state = "IDLE"
    /\ enabled \in BOOLEAN
    /\ lastResult = "INTERNET_CONNECTED"
    /\ previousResult = "INTERNET_CONNECTED"
    /\ numChecks = 0
    /\ checkedBefore = FALSE
    /\ sinceCheck = 0
    /\ backoff = ResetBackoffEntry(enabled, "INTERNET_CONNECTED")
    /\ timer = StoppedTimer
    /\ detecting = FALSE
    /\ prefChanges = 0

\* Faulty variant: the timer ignores the backoff entry.
DetectCaptivePortal_Unthrottled ==
    /\ state = "IDLE"
    /\ numChecks < MaxChecks
    /\ state' = "TIMER_RUNNING"
    /\ timer' = [running |-> TRUE, left |-> 0]
    /\ UNCHANGED <<enabled, lastResult, previousResult, historyVars, backoff,
                   detecting, prefChanges>>

DetectCaptivePortal ==
    /\ state = "IDLE"
    /\ numChecks < MaxChecks
    /\ state' = "TIMER_RUNNING"
    /\ timer' = [running |-> TRUE, left |-> backoff.release]
    /\ UNCHANGED <<enabled, lastResult, previousResult, historyVars, backoff,
                   detecting, prefChanges>>

\* Faulty variant: the last result is overwritten before it is passed on.
OnResult_OverwrittenFirst(result) ==
    /\ state' = "IDLE"
    /\ previousResult' = result
    /\ lastResult' = result

\* OnResult: the service is idle again before any observer hears of the result.
OnResult(result) ==
    /\ state' = "IDLE"
    /\ previousResult' = lastResult
    /\ lastResult' = result

\* The timer fires DetectCaptivePortalInternal, which probes the network ...
StartProbe ==
    /\ timer.running /\ timer.left = 0
    /\ enabled
    /\ timer' = StoppedTimer
    /\ state' = "CHECKING_FOR_PORTAL"
    /\ detecting' = TRUE
    /\ UNCHANGED <<enabled, lastResult, previousResult, historyVars, backoff, prefChanges>>

\* ... or, for a disabled service, claims a connection without probing.
ClaimConnected ==
    /\ timer.running /\ timer.left = 0
    /\ ~enabled
    /\ timer' = StoppedTimer
    /\ backoff' = InformOfSuccess(backoff)
    /\ OnResult("INTERNET_CONNECTED")
    /\ UNCHANGED <<enabled, historyVars, detecting, prefChanges>>

DetectCaptivePortalInternal == StartProbe \/ ClaimConnected

\* Faulty variant: a new result keeps the backoff entry of the old one.
NewResult_KeepEntry(result, retryAfter) ==
    /\ numChecks' = 1
    /\ backoff' = SetCustomReleaseTime(backoff, retryAfter)

\* The probe comes back with a result that is not the last one (or is the first).
NewResult(result, retryAfter) ==
    /\ numChecks' = 1
    /\ backoff' = SetCustomReleaseTime(ResetBackoffEntry(enabled, result), retryAfter)

\* Faulty variant: the Retry-After of the probe is set last and wins.
SameResult_CustomLast(retryAfter) ==
    /\ numChecks' = numChecks + 1
    /\ \E delay \in Delays(backoff.initialDelay, backoff.failures + 1) :
          backoff' = SetCustomReleaseTime(InformOfFailure(backoff, delay), retryAfter)

\* The probe comes back with the result it had the time before.
SameResult(retryAfter) ==
    /\ numChecks' = numChecks + 1
    /\ \E delay \in Delays(backoff.initialDelay, backoff.failures + 1) :
          backoff' = InformOfFailure(SetCustomReleaseTime(backoff, retryAfter), delay)

OnPortalDetectionCompleted(result, retryAfter) ==
    /\ detecting
    /\ detecting' = FALSE
    /\ IF ~checkedBefore \/ result # lastResult
       THEN NewResult(result, retryAfter)
       ELSE SameResult(retryAfter)
    /\ checkedBefore' = TRUE
    /\ sinceCheck' = 0
    /\ OnResult(result)
    /\ UNCHANGED <<enabled, timer, prefChanges>>

\* Faulty variants: what becomes of a pending check when the preference changes.
CheckKept == UNCHANGED <<state, timer, detecting>>
CheckStopped ==
    IF state = "IDLE"
    THEN UNCHANGED <<state, timer, detecting>>
    ELSE timer' = StoppedTimer /\ detecting' = FALSE /\ UNCHANGED state

\* A pending check is cancelled and asked for again, now without delay.
RestartCheck ==
    IF state = "IDLE"
    THEN UNCHANGED <<state, timer, detecting>>
    ELSE /\ detecting' = FALSE
         /\ state' = "TIMER_RUNNING"
         /\ timer' = [running |-> TRUE, left |-> backoff'.release]

\* The preference changes: history and backoff start anew.
UpdateEnabledState ==
    /\ prefChanges < MaxPrefChanges
    /\ prefChanges' = prefChanges + 1
    /\ enabled' = ~enabled
    /\ numChecks' = 0
    /\ checkedBefore' = FALSE
    /\ sinceCheck' = 0
    /\ backoff' = ResetBackoffEntry(~enabled, lastResult)
    /\ RestartCheck
    /\ UNCHANGED <<lastResult, previousResult>>

Countdown(n) == IF n > 0 THEN n - 1 ELSE 0

\* One unit of time passes for every clock.
Tick ==
    /\ backoff' = [backoff EXCEPT !.release = Countdown(@)]
    /\ timer' = [timer EXCEPT !.left = Countdown(@)]
    /\ sinceCheck' = IF checkedBefore /\ sinceCheck < ElapsedCap
                     THEN sinceCheck + 1 ELSE sinceCheck
    /\ UNCHANGED <<clientVars, numChecks, checkedBefore, detecting, prefChanges>>

ProbeReturns == \E result \in DetectionResults, retryAfter \in RetryAfters :
                    OnPortalDetectionCompleted(result, retryAfter)

ServiceNext ==
    \/ DetectCaptivePortal
    \/ DetectCaptivePortalInternal
    \/ ProbeReturns
    \/ UpdateEnabledState
    \/ Tick

\* Time passes, an expired timer runs its task, and CaptivePortalDetector
\* answers every probe it was not told to cancel.
ServiceFairness ==
    /\ WF_serviceVars(Tick)
    /\ WF_serviceVars(DetectCaptivePortalInternal)
    /\ WF_serviceVars(ProbeReturns)

ServiceSpec == ServiceInit /\ [][ServiceNext]_serviceVars /\ ServiceFairness

-----------------------------------------------------------------------------
(* Properties *)

\* The three ways of being busy never disagree: the timer runs exactly in
\* TIMER_RUNNING, a probe is in flight exactly in CHECKING_FOR_PORTAL, and only
\* an enabled service probes.  These are the DCHECKs of
\* OnPortalDetectionCompleted and DetectCaptivePortalInternal; they depend on
\* UpdateEnabledState cancelling both the timer and the probe.
BusyConsistent ==
    /\ timer.running <=> state = "TIMER_RUNNING"
    /\ detecting <=> state = "CHECKING_FOR_PORTAL"
    /\ detecting => enabled

\* The backoff entry and the history tell the same story: every same result but
\* the first is one failure, a service that has seen no probe has no failures,
\* and the delay base is the portal's exactly when the service is disabled or
\* behind a portal.
BackoffMatchesHistory ==
    /\ checkedBefore <=> numChecks > 0
    /\ backoff.failures = IF numChecks > 0 THEN numChecks - 1 ELSE 0
    /\ backoff.initialDelay =
          IF ~enabled \/ lastResult = "BEHIND_CAPTIVE_PORTAL"
          THEN InitialBackoffPortal ELSE InitialBackoffNoPortal
    /\ checkedBefore => enabled

\* Timer, probe, backoff and history agree after every step, whatever result or
\* preference change arrives in whichever state (OnPortalDetectionCompleted,
\* UpdateEnabledState).
StateConsistent == ServiceTypeOK /\ BusyConsistent /\ BackoffMatchesHistory

\* The shortest delay that a number of equal results in a row earn.
ShortestDelay(n) ==
    IF n < 2 THEN 0
    ELSE Smaller(Jittered(FullDelay(backoff.initialDelay, n - 1)), MaximumBackoff)

\* Throttling: the network is probed again only when the delay earned by the
\* results in a row has passed since the last probe came back.
ProbesThrottled ==
    [][StartProbe => sinceCheck >= Smaller(ShortestDelay(numChecks), ElapsedCap)]_serviceVars

\* A check asked for is answered: the service cannot stay pending for ever, even
\* if the preference changes under it (a bounded number of times).
EveryRequestAnswered == state # "IDLE" ~> state = "IDLE"

\* The service implements its abstract promise.
Check == INSTANCE CaptivePortalCheck WITH
            pending <- state # "IDLE",
            serviceEnabled <- enabled,
            lastDetection <- lastResult,
            previousDetection <- previousResult

\* Every step of the service is a request, one answer, a change of the
\* preference or a stutter of CaptivePortalCheck: no answer without a request, no
\* request dropped, no answer lost or reordered in the chain of previous results.
ImplementsCheck == Check!CheckSpec
=============================================================================
