---------------------------- MODULE CaptivePortal ----------------------------
(***************************************************************************)
(* The tabs of one window and the captive portal service they share: per   *)
(* tab a CaptivePortalTabHelper that follows navigations, the              *)
(* CaptivePortalTabReloader and the CaptivePortalLoginDetector it owns.    *)
(* The service is its promise, CaptivePortalCheck (CaptivePortalService    *)
(* implements it).  Every action is one call on the UI thread, with the    *)
(* calls it makes in turn.  A notification is a step for each tab it tells *)
(* and one to begin with, since a tab may look through the window and open *)
(* another; nothing else runs on the thread before all have been told.     *)
(*                                                                         *)
(* Navigations are content::NavigationHandles.  A handle can have          *)
(* committed before DidFinishNavigation reaches this observer, since an    *)
(* observer told earlier may start another navigation in between.  Not     *)
(* modelled: entries with POST data (they are not reloaded), other windows *)
(* (each is a copy of this one) and login tabs opened by a blocking page.  *)
(***************************************************************************)
EXTENDS CaptivePortalCheck, Naturals, FiniteSets

CONSTANTS
    Tabs,              \* slots for tabs in the window
    Handles,           \* slots for the navigation handles of a tab
    None,              \* no handle (nullptr)
    MaxReloadTasks,    \* bound: posted ReloadTabIfNeeded tasks of a tab
    Schemes,           \* bound: whether the URLs loaded are SSL
    CertErrors         \* bound: whether certificates may be in error

ASSUME HandlesAssumption == None \notin Handles
ASSUME TasksAssumption == MaxReloadTasks \in Nat
ASSUME EnvironmentAssumption == Schemes \subseteq BOOLEAN /\ CertErrors \in BOOLEAN

VARIABLES
    tabs,          \* the helper, reloader and detector of each tab
    navigations,   \* content's live navigations, by tab and handle
    informing      \* the tabs that the notification under way has yet to tell

vars == <<checkVars, tabs, navigations, informing>>

ReloaderStates == {"NONE", "TIMER_RUNNING", "MAYBE_BROKEN_BY_PORTAL",
                   "BROKEN_BY_PORTAL", "NEEDS_RELOAD"}

TabType == [open : BOOLEAN,
            tracked : Handles \cup {None},   \* navigation_handle_
            state : ReloaderStates,          \* state_ (and the slow load timer)
            provisional : BOOLEAN,           \* provisional_main_frame_load_
            sslSeen : BOOLEAN,               \* ssl_url_in_redirect_chain_
            reloadTasks : Nat,               \* posted ReloadTabIfNeeded tasks
            reloading : BOOLEAN,             \* Reload asked for, not begun
            interstitial : BOOLEAN,          \* an interstitial covers the page
            login : BOOLEAN,                 \* is_login_tab_
            firstLoad : BOOLEAN]             \* first_login_tab_load_
NavigationType == [phase : {"None", "Ongoing", "Committed"}, ssl : BOOLEAN]

TypeOK ==
    /\ CheckTypeOK
    /\ tabs \in [Tabs -> TabType]
    /\ navigations \in [Tabs -> [Handles -> NavigationType]]
    /\ informing \subseteq {t \in Tabs : tabs[t].open}

NewTab(isOpen, isLogin) ==
    [open |-> isOpen, tracked |-> None, state |-> "NONE", provisional |-> FALSE,
     sslSeen |-> FALSE, reloadTasks |-> 0, reloading |-> FALSE,
     interstitial |-> FALSE, login |-> isLogin, firstLoad |-> isLogin]
NoNavigation == [phase |-> "None", ssl |-> FALSE]

Init ==
    /\ CheckInit
    /\ tabs = [t \in Tabs |-> NewTab(FALSE, FALSE)]
    /\ navigations = [t \in Tabs |-> [h \in Handles |-> NoNavigation]]
    /\ informing = {}

-----------------------------------------------------------------------------
(* CaptivePortalTabReloader, as functions on the tab.  SetState starts and    *)
(* stops the slow load timer, which therefore runs exactly in TIMER_RUNNING;  *)
(* entering MAYBE_BROKEN_BY_PORTAL asks the service, which callers add.       *)

OnLoadStart(tab, ssl) ==
    [tab EXCEPT !.provisional = TRUE, !.sslSeen = ssl,
                !.state = IF ssl THEN "TIMER_RUNNING" ELSE "NONE"]

OnAbort(tab) ==
    [tab EXCEPT !.provisional = FALSE, !.sslSeen = FALSE, !.state = "NONE"]

\* Only the first SSL URL of a redirect chain starts the timer.
OnRedirect(tab, ssl) ==
    [tab EXCEPT !.sslSeen = @ \/ ssl,
                !.state = IF ssl /\ ~tab.sslSeen THEN "TIMER_RUNNING" ELSE "NONE"]

\* Where a committed load leaves the reloader; `portalError` says that the net
\* error is one a captive portal may cause.
CommittedState(state, portalError) ==
    IF ~portalError THEN "NONE"
    ELSE IF state = "TIMER_RUNNING" THEN "MAYBE_BROKEN_BY_PORTAL"
    ELSE state
\* Faulty variant: no reload task is posted for a tab that needs a reload.
OnLoadCommitted_NoTask(tab, portalError) ==
    [tab EXCEPT !.provisional = FALSE, !.sslSeen = FALSE,
                !.state = CommittedState(@, portalError)]
OnLoadCommitted(tab, portalError) ==
    [tab EXCEPT !.provisional = FALSE, !.sslSeen = FALSE,
                !.state = CommittedState(@, portalError),
                !.reloadTasks = IF portalError /\ tab.state = "NEEDS_RELOAD"
                                THEN @ + 1 ELSE @]

\* Faulty variant: a load in progress does not hold the reload back.
ReloadTabIfNeeded_Eager(tab) ==
    IF tab.state # "NEEDS_RELOAD"
    THEN tab
    ELSE [tab EXCEPT !.state = "NONE", !.reloading = TRUE]
ReloadTabIfNeeded(tab) ==
    IF tab.state # "NEEDS_RELOAD" \/ (tab.provisional /\ ~tab.interstitial)
    THEN tab
    ELSE [tab EXCEPT !.state = "NONE", !.reloading = TRUE]

EnterNeedsReload(tab) == ReloadTabIfNeeded([tab EXCEPT !.state = "NEEDS_RELOAD"])

\* Faulty variants: a broken tab is not told that the portal is gone; a tab that
\* may be broken only listens for a portal; a tab nothing is known of is reloaded.
ReloaderOnResults_KeepBroken(tab, previous, result) ==
    IF tab.state # "MAYBE_BROKEN_BY_PORTAL" THEN tab
    ELSE IF result = "BEHIND_CAPTIVE_PORTAL"
    THEN [tab EXCEPT !.state = "BROKEN_BY_PORTAL"]
    ELSE [tab EXCEPT !.state = "NONE"]
ReloaderOnResults_OnlyPortal(tab, previous, result) ==
    IF result = "BEHIND_CAPTIVE_PORTAL" /\ tab.state = "MAYBE_BROKEN_BY_PORTAL"
    THEN [tab EXCEPT !.state = "BROKEN_BY_PORTAL"]
    ELSE IF result # "BEHIND_CAPTIVE_PORTAL" /\ tab.state = "BROKEN_BY_PORTAL"
    THEN EnterNeedsReload(tab)
    ELSE tab

ReloaderOnResults_Unasked(tab, previous, result) ==
    IF result = "BEHIND_CAPTIVE_PORTAL"
    THEN IF tab.state = "MAYBE_BROKEN_BY_PORTAL"
         THEN [tab EXCEPT !.state = "BROKEN_BY_PORTAL"]
         ELSE tab
    ELSE IF previous = "BEHIND_CAPTIVE_PORTAL" THEN EnterNeedsReload(tab)
    ELSE [tab EXCEPT !.state = "NONE"]

\* CaptivePortalTabReloader::OnCaptivePortalResults
ReloaderOnResults(tab, previous, result) ==
    LET loading == tab.state \in {"MAYBE_BROKEN_BY_PORTAL", "TIMER_RUNNING"}
        portalGone == previous = "BEHIND_CAPTIVE_PORTAL"
    IN  IF result = "BEHIND_CAPTIVE_PORTAL"
        THEN IF tab.state = "MAYBE_BROKEN_BY_PORTAL"
             THEN [tab EXCEPT !.state = "BROKEN_BY_PORTAL"]
             ELSE tab
        ELSE IF tab.state = "BROKEN_BY_PORTAL" \/ (loading /\ portalGone)
        THEN EnterNeedsReload(tab)
        ELSE IF loading THEN [tab EXCEPT !.state = "NONE"]
        ELSE tab

\* CaptivePortalLoginDetector::OnCaptivePortalResults
DetectorOnResults(tab, result) ==
    [tab EXCEPT !.login = @ /\ result = "BEHIND_CAPTIVE_PORTAL"]

\* CaptivePortalTabHelper::OnCaptivePortalResults: reloader first, detector next.
HelperOnResults(tab, previous, result) ==
    DetectorOnResults(ReloaderOnResults(tab, previous, result), result)

-----------------------------------------------------------------------------
(* CaptivePortalTabHelper: navigations *)

\* DidStartNavigation: follow this navigation from now on; the one followed so
\* far, unless it has committed, is reported as aborted.
Track(t, h, ssl) ==
    LET tab == tabs[t]
        superseded == /\ tab.tracked # None
                      /\ navigations[t][tab.tracked].phase # "Committed"
        told == IF superseded THEN OnAbort(tab) ELSE tab
    IN  OnLoadStart([told EXCEPT !.tracked = h, !.reloading = FALSE], ssl)

DidStartNavigation(t, h, ssl) ==
    /\ tabs[t].open
    /\ navigations[t][h].phase = "None"
    /\ navigations' = [navigations EXCEPT ![t][h] = [phase |-> "Ongoing", ssl |-> ssl]]
    /\ tabs' = [tabs EXCEPT ![t] = Track(t, h, ssl)]
    /\ UNCHANGED checkVars

DidRedirectNavigation(t, h, ssl) ==
    /\ navigations[t][h].phase = "Ongoing"
    /\ navigations' = [navigations EXCEPT ![t][h].ssl = ssl]
    /\ tabs' = IF tabs[t].tracked = h
               THEN [tabs EXCEPT ![t] = OnRedirect(@, ssl)] ELSE tabs
    /\ UNCHANGED checkVars

\* content commits the navigation; observers hear of it in DidFinishNavigation.
Commit(t, h) ==
    /\ navigations[t][h].phase = "Ongoing"
    /\ navigations' = [navigations EXCEPT ![t][h].phase = "Committed"]
    /\ UNCHANGED <<checkVars, tabs>>

\* A navigation that was not followed and did not commit is none of our business.
FinishAborted(t, h) ==
    /\ navigations[t][h].phase = "Ongoing"
    /\ navigations' = [navigations EXCEPT ![t][h] = NoNavigation]
    /\ tabs' = IF tabs[t].tracked = h
               THEN [tabs EXCEPT ![t] = [OnAbort(@) EXCEPT !.tracked = None]] ELSE tabs
    /\ UNCHANGED checkVars

\* Faulty variant: the handle is not forgotten when its navigation is over.
FinishCommitted_KeepHandle(t, h, portalError) ==
    /\ navigations[t][h].phase = "Committed"
    /\ navigations' = [navigations EXCEPT ![t][h] = NoNavigation]
    /\ LET started == IF tabs[t].tracked = h
                      THEN tabs[t] ELSE Track(t, h, navigations[t][h].ssl)
       IN  /\ tabs' = [tabs EXCEPT ![t] = OnLoadCommitted(started, portalError)]
           /\ IF portalError /\ started.state = "TIMER_RUNNING"
              THEN RequestCheck ELSE UNCHANGED checkVars

\* A committed navigation that was not followed is begun and committed at once.
\* A portal error on an SSL load still timed asks the service for a check.
FinishCommitted(t, h, portalError) ==
    /\ navigations[t][h].phase = "Committed"
    /\ tabs[t].reloadTasks < MaxReloadTasks
    /\ navigations' = [navigations EXCEPT ![t][h] = NoNavigation]
    /\ LET started == IF tabs[t].tracked = h
                      THEN tabs[t] ELSE Track(t, h, navigations[t][h].ssl)
       IN  /\ tabs' = [tabs EXCEPT ![t] =
                         [OnLoadCommitted(started, portalError) EXCEPT !.tracked = None]]
           /\ IF portalError /\ started.state = "TIMER_RUNNING"
              THEN RequestCheck ELSE UNCHANGED checkVars

DidFinishNavigation(t, h) ==
    \/ FinishAborted(t, h)
    \/ \E portalError \in BOOLEAN : FinishCommitted(t, h, portalError)

-----------------------------------------------------------------------------
(* Timer, posted task, certificate errors, login tabs *)

\* Faulty variant: the service is not asked.
OnSlowSSLConnect_NoCheck(t) ==
    /\ tabs[t].state = "TIMER_RUNNING"
    /\ tabs' = [tabs EXCEPT ![t].state = "MAYBE_BROKEN_BY_PORTAL"]
    /\ UNCHANGED <<checkVars, navigations>>
\* The slow load timer fires.
OnSlowSSLConnect(t) ==
    /\ tabs[t].state = "TIMER_RUNNING"
    /\ tabs' = [tabs EXCEPT ![t].state = "MAYBE_BROKEN_BY_PORTAL"]
    /\ RequestCheck
    /\ UNCHANGED navigations

\* A certificate error: an interstitial covers the page, and an SSL load still
\* timed is checked at once.
OnSSLCertError(t) ==
    /\ CertErrors
    /\ tabs[t].provisional /\ tabs[t].sslSeen
    /\ tabs' = [tabs EXCEPT ![t].interstitial = TRUE,
                            ![t].state = IF @ = "TIMER_RUNNING"
                                         THEN "MAYBE_BROKEN_BY_PORTAL" ELSE @]
    /\ IF tabs[t].state = "TIMER_RUNNING" THEN RequestCheck ELSE UNCHANGED checkVars
    /\ UNCHANGED navigations

InterstitialGone(t) ==
    /\ tabs[t].interstitial
    /\ tabs' = [tabs EXCEPT ![t].interstitial = FALSE]
    /\ UNCHANGED <<checkVars, navigations>>

\* The task OnLoadCommitted posted runs.
RunReloadTask(t) ==
    /\ tabs[t].reloadTasks > 0
    /\ tabs' = [tabs EXCEPT ![t] = ReloadTabIfNeeded([tabs[t] EXCEPT !.reloadTasks = @ - 1])]
    /\ UNCHANGED <<checkVars, navigations>>

\* DidStopLoading: a login tab asks for a check after every load but its first.
DidStopLoading(t) ==
    /\ tabs[t].open
    /\ tabs' = [tabs EXCEPT ![t].firstLoad = FALSE]
    /\ IF tabs[t].login /\ ~tabs[t].firstLoad THEN RequestCheck ELSE UNCHANGED checkVars
    /\ UNCHANGED navigations

LoginTabs == {t \in Tabs : tabs[t].open /\ tabs[t].login}
MaybeBroken == {t \in Tabs : tabs[t].open /\ tabs[t].state = "MAYBE_BROKEN_BY_PORTAL"}

\* The service begins to notify its result; every tab is an observer.
NotifyResult(result) ==
    /\ informing = {}
    /\ Answer(result)
    /\ informing' = {t \in Tabs : tabs[t].open}
    /\ UNCHANGED <<tabs, navigations>>

\* Faulty variant: the window is not searched for a login tab.
OpensLoginTab_NoSearch(t) ==
    lastDetection = "BEHIND_CAPTIVE_PORTAL" /\ t \in MaybeBroken
\* OpenLoginTabForWebContents: a tab just found broken searches its window, as the
\* tabs told before it have left it, and opens a login tab if it finds none.
OpensLoginTab(t) ==
    lastDetection = "BEHIND_CAPTIVE_PORTAL" /\ t \in MaybeBroken /\ LoginTabs = {}

\* The next tab is told.  A login tab takes a free slot, as long as there is one.
TellTab(t) ==
    /\ t \in informing
    /\ informing' = informing \ {t}
    /\ LET told == [tabs EXCEPT ![t] =
                        HelperOnResults(@, previousDetection, lastDetection)]
           free == {s \in Tabs : ~tabs[s].open}
       IN  IF OpensLoginTab(t) /\ free # {}
           THEN \E s \in free : tabs' = [told EXCEPT ![s] = NewTab(TRUE, TRUE)]
           ELSE tabs' = told
    /\ UNCHANGED <<checkVars, navigations>>

OpenTab(t) ==
    /\ ~tabs[t].open
    /\ tabs' = [tabs EXCEPT ![t] = NewTab(TRUE, FALSE)]
    /\ UNCHANGED <<checkVars, navigations>>

\* The helper goes with its tab; the weak pointer cancels its posted tasks.
CloseTab(t) ==
    /\ tabs[t].open
    /\ tabs' = [tabs EXCEPT ![t] = NewTab(FALSE, FALSE)]
    /\ navigations' = [navigations EXCEPT ![t] = [h \in Handles |-> NoNavigation]]
    /\ UNCHANGED checkVars

ServiceStep == ChangeEnabled /\ UNCHANGED <<tabs, navigations>>

\* The UI thread is at no notification.
BetweenNotifications == informing = {} /\ UNCHANGED informing

\* What else happens on it.
QuietStep ==
    \/ ServiceStep
    \/ \E t \in Tabs :
          \/ \E h \in Handles, ssl \in Schemes :
                DidStartNavigation(t, h, ssl) \/ DidRedirectNavigation(t, h, ssl)
          \/ \E h \in Handles : Commit(t, h) \/ DidFinishNavigation(t, h)
          \/ OnSlowSSLConnect(t) \/ OnSSLCertError(t) \/ InterstitialGone(t)
          \/ RunReloadTask(t) \/ DidStopLoading(t)
          \/ OpenTab(t) \/ CloseTab(t)

Next ==
    \/ \E result \in Results : NotifyResult(result)
    \/ \E t \in Tabs : TellTab(t)
    \/ BetweenNotifications /\ QuietStep

\* The service answers (EveryRequestAnswered of CaptivePortalService), a
\* notification goes on, posted tasks run, what committed is reported, and every
\* navigation comes to an end, unless an interstitial has it wait for a person.
Fairness ==
    /\ WF_vars(\E result \in Results : NotifyResult(result))
    /\ WF_vars(\E t \in Tabs : TellTab(t))
    /\ \A t \in Tabs : WF_vars(BetweenNotifications /\ RunReloadTask(t))
    /\ \A t \in Tabs, h \in Handles :
          /\ WF_vars(/\ BetweenNotifications
                     /\ \E portalError \in BOOLEAN : FinishCommitted(t, h, portalError))
          /\ WF_vars(BetweenNotifications /\ ~tabs[t].interstitial /\ FinishAborted(t, h))

Spec == Init /\ [][Next]_vars /\ Fairness

-----------------------------------------------------------------------------
(* Properties *)

\* The last result a tab was told: during a notification, some have the one before.
LastTold(t) == IF t \in informing THEN previousDetection ELSE lastDetection

\* A tab that may be broken is always waiting for an answer that will come: the
\* reloader asks when it enters the state, and no answer passes it by.
MaybeBrokenHasCheck == \A t \in MaybeBroken : pending \/ t \in informing

\* A tab is held to be broken only while the last it was told is that there is a
\* portal; the first other result, for whichever tab, sets it free.
BrokenMeansBehind ==
    \A t \in Tabs : tabs[t].state = "BROKEN_BY_PORTAL" =>
                        LastTold(t) = "BEHIND_CAPTIVE_PORTAL"

\* Whatever the order of results, loads and errors, no tab's doubt outlives the
\* service's (SetState, OnCaptivePortalResults).
TabsFollowService == TypeOK /\ MaybeBrokenHasCheck /\ BrokenMeansBehind

\* There is never more than one login tab, not even half way through a notification
\* that finds several tabs broken, one after the other; and it is one no longer than
\* the portal is there (OpenLoginTabForWebContents, DetectorOnResults).
OneLoginTab ==
    /\ Cardinality(LoginTabs) <= 1
    /\ \A t \in LoginTabs : LastTold(t) = "BEHIND_CAPTIVE_PORTAL"

\* A tab that needs a reload is never forgotten: a load is still to end, or the
\* posted task will reload it.
NeedsReloadIsDue ==
    \A t \in Tabs : tabs[t].state = "NEEDS_RELOAD" =>
                        tabs[t].provisional \/ tabs[t].reloadTasks > 0

\* Helper and reloader agree on the load in progress, the helper's raw pointer
\* never outlives its navigation, and only the load it follows can be timed or
\* have its SSL URLs remembered.
LoadsTracked ==
    \A t \in Tabs :
        /\ tabs[t].provisional <=> tabs[t].tracked # None
        /\ tabs[t].tracked # None => navigations[t][tabs[t].tracked].phase # "None"
        /\ tabs[t].state = "TIMER_RUNNING" => tabs[t].provisional /\ tabs[t].sslSeen
        /\ tabs[t].sslSeen => tabs[t].provisional

\* A tab that a portal broke, or may be breaking, is told that the portal is gone.
PortalGoneFor(t) ==
    /\ t \in informing
    /\ previousDetection = "BEHIND_CAPTIVE_PORTAL"
    /\ lastDetection # "BEHIND_CAPTIVE_PORTAL"
    /\ tabs[t].state \in {"TIMER_RUNNING", "MAYBE_BROKEN_BY_PORTAL", "BROKEN_BY_PORTAL"}

\* A tab comes to need a reload only when it was broken, or may have been, by a
\* portal that it is just told is gone; only such a tab is reloaded, then or later;
\* and no reload interrupts a load, except under an interstitial.
ReloadsWarranted ==
    [][\A t \in Tabs :
          /\ tabs'[t].state = "NEEDS_RELOAD" /\ tabs[t].state # "NEEDS_RELOAD" =>
                PortalGoneFor(t)
          /\ tabs'[t].reloading /\ ~tabs[t].reloading =>
                /\ ~tabs[t].provisional \/ tabs[t].interstitial
                /\ tabs[t].state = "NEEDS_RELOAD" \/ PortalGoneFor(t)]_vars

\* A certificate error holds up the load, until a person decides.
HeldByPerson(t) == tabs[t].provisional /\ tabs[t].interstitial

\* No tab stays in doubt for ever; nor owed a reload, unless a person is asked about
\* a certificate first (OnSSLCertError reloads nothing).
TabsSettle ==
    \A t \in Tabs :
        /\ tabs[t].state = "MAYBE_BROKEN_BY_PORTAL" ~>
              tabs[t].state # "MAYBE_BROKEN_BY_PORTAL"
        /\ tabs[t].state = "NEEDS_RELOAD" /\ ~HeldByPerson(t) ~>
              tabs[t].state # "NEEDS_RELOAD" \/ HeldByPerson(t)
=============================================================================
