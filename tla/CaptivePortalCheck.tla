------------------------- MODULE CaptivePortalCheck -------------------------
(***************************************************************************)
(* What CaptivePortalService promises its clients                          *)
(* (browser/captive_portal/captive_portal_service.h): any number of calls  *)
(* of DetectCaptivePortal made while a check is outstanding share that     *)
(* check, the check is answered exactly once and never from inside the     *)
(* call, each answer carries the answer before it, and a disabled service  *)
(* only ever answers INTERNET_CONNECTED.  When the check is made, and how  *)
(* it is throttled, is the business of CaptivePortalService, which         *)
(* implements this module.  CaptivePortal composes it with the tabs.       *)
(***************************************************************************)

VARIABLES
    pending,            \* state_ is STATE_TIMER_RUNNING or STATE_CHECKING_FOR_PORTAL
    serviceEnabled,     \* enabled_
    lastDetection,      \* last_detection_result_, Results::result
    previousDetection   \* Results::previous_result of the last notification

checkVars == <<pending, serviceEnabled, lastDetection, previousDetection>>

Results == {"INTERNET_CONNECTED", "NO_RESPONSE", "BEHIND_CAPTIVE_PORTAL"}

CheckTypeOK ==
    /\ pending \in BOOLEAN
    /\ serviceEnabled \in BOOLEAN
    /\ lastDetection \in Results
    /\ previousDetection \in Results

CheckInit ==
    /\ pending = FALSE
    /\ serviceEnabled \in BOOLEAN
    /\ lastDetection = "INTERNET_CONNECTED"
    /\ previousDetection = "INTERNET_CONNECTED"

\* A client asks; while a check is outstanding the call changes nothing.
RequestCheck ==
    /\ pending' = TRUE
    /\ UNCHANGED <<serviceEnabled, lastDetection, previousDetection>>

\* The outstanding check is answered, to every observer at once.
Answer(result) ==
    /\ pending
    /\ serviceEnabled \/ result = "INTERNET_CONNECTED"
    /\ pending' = FALSE
    /\ previousDetection' = lastDetection
    /\ lastDetection' = result
    /\ UNCHANGED serviceEnabled

\* The preference changes.  An outstanding check stays outstanding: it is
\* cancelled and begun anew, because a client may be waiting for it.
ChangeEnabled ==
    /\ serviceEnabled' = ~serviceEnabled
    /\ UNCHANGED <<pending, lastDetection, previousDetection>>

CheckNext ==
    \/ RequestCheck
    \/ \E result \in Results : Answer(result)
    \/ ChangeEnabled

CheckSpec == CheckInit /\ [][CheckNext]_checkVars
=============================================================================
