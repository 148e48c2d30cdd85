----------------------------- MODULE AppBannerManager -----------------------------
(***************************************************************************)
(* AppBannerManager (banners/app_banner_manager.cc) of one tab with its    *)
(* desktop subclass (app_banner_manager_desktop.cc) and the infobar: the   *)
(* pipeline from engagement over manifest, installability and the page's   *)
(* reply to the banner, against navigations and the page's own wishes.     *)
(*                                                                         *)
(* Pages are numbered by their commits.  Callers request a banner for the  *)
(* last committed url, so that an active pipeline is one for the same page.*)
(* Content settings, InstallableManager and page answer as they like; the  *)
(* objects which install the app are known by their callback only.         *)
(***************************************************************************)
EXTENDS Integers

CONSTANTS
    MaxPages,      \* bound: commits in the tab
    MaxRequestID   \* bound: prompt requests of all tabs

ASSUME BannerAssumption == MaxPages \in Nat \ {0} /\ MaxRequestID \in Nat

VARIABLES
    page, loading, navigating,  \* the tab: last commit, its load, a pending navigation
    alive,                      \* until the tab is destroyed
    zeroEngagement,             \* HasSufficientEngagement(0)
    load_finished_, banner_request_queued_, observing, playing,
    run,       \* the flags of the pipeline; page, reports, refused, asked, shows
               \* and cut are its history
    waiting,   \* which callback is expected
    data,      \* the pages validated_url_, manifest_ and primary_icon_ are of
    binding_,  \* the page which may call DisplayAppBanner
    event_,    \* bound
    event_request_id_, gCurrentRequestID,
    infobar,   \* the one displayed
    install    \* DidFinishCreatingBookmarkApp is to be called

tabVars == <<page, loading, navigating, alive, zeroEngagement>>
triggerVars == <<load_finished_, banner_request_queued_, observing, playing>>
pipeVars == <<run, waiting, binding_, event_>>
idVars == <<event_request_id_, gCurrentRequestID>>
vars == <<tabVars, triggerVars, pipeVars, data, idVars, infobar, install>>

Pages == 1..MaxPages
NoPage == 0
NoInfobar == [page |-> NoPage, id |-> -1, weak |-> FALSE]

RunType ==
    [is_active_ : BOOLEAN, is_debug_mode_ : BOOLEAN, was_canceled_by_page_ : BOOLEAN,
     page_requested_prompt_ : BOOLEAN, need_to_log_status_ : BOOLEAN,
     page : Pages \cup {NoPage}, reports : 0..2, shows : 0..1,
     refused : BOOLEAN, asked : BOOLEAN, cut : BOOLEAN]

TypeOK ==
    /\ page \in Pages /\ loading \in BOOLEAN /\ navigating \in BOOLEAN /\ alive \in BOOLEAN
    /\ zeroEngagement \in BOOLEAN
    /\ load_finished_ \in BOOLEAN /\ banner_request_queued_ \in BOOLEAN
    /\ observing \in BOOLEAN /\ playing \in BOOLEAN
    /\ run \in RunType
    /\ waiting \in {"nothing", "manifest", "installable", "reply"}
    /\ data \in [{"url", "manifest", "icon"} -> Pages \cup {NoPage}]
    /\ binding_ \in Pages \cup {NoPage} /\ event_ \in BOOLEAN
    /\ event_request_id_ \in -1..MaxRequestID /\ gCurrentRequestID \in -1..MaxRequestID
    /\ infobar \in [page : Pages \cup {NoPage}, id : -1..MaxRequestID, weak : BOOLEAN]
    /\ install \in BOOLEAN

NewRun(active, debug) ==
    [is_active_ |-> active, is_debug_mode_ |-> debug,
     was_canceled_by_page_ |-> FALSE, page_requested_prompt_ |-> FALSE,
     need_to_log_status_ |-> active /\ ~debug,
     page |-> IF active THEN page ELSE NoPage,
     reports |-> 0, refused |-> FALSE, asked |-> FALSE, shows |-> 0, cut |-> FALSE]

Init ==
    /\ page = 1 /\ loading = TRUE /\ navigating = FALSE /\ alive = TRUE
    /\ zeroEngagement \in BOOLEAN
    /\ load_finished_ = FALSE /\ banner_request_queued_ = FALSE
    /\ observing = TRUE /\ playing = FALSE
    /\ run = NewRun(FALSE, FALSE) /\ waiting = "nothing"
    /\ data = [of \in {"url", "manifest", "icon"} |-> NoPage]
    /\ binding_ = NoPage /\ event_ = FALSE
    /\ event_request_id_ = -1 /\ gCurrentRequestID = -1
    /\ infobar = NoInfobar /\ install = FALSE

-----------------------------------------------------------------------------
(* The pipeline *)

\* Only a run that is not for debugging logs a status.
ReportStatus(r) ==
    IF r.is_debug_mode_ THEN r
    ELSE [r EXCEPT !.need_to_log_status_ = FALSE, !.reports = r.reports + 1]

\* Stop keeps was_canceled_by_page_.
Stopped(r) ==
    LET s == IF r.was_canceled_by_page_ /\ ~r.page_requested_prompt_ THEN ReportStatus(r) ELSE r
    IN  [s EXCEPT !.is_active_ = FALSE, !.need_to_log_status_ = FALSE,
                  !.cut = s.cut \/ s.need_to_log_status_]

\* Faulty variant: weak pointers stay valid, and callbacks come after all.
StopPipeline_KeepPtrs(r) ==
    /\ run' = Stopped(r)
    /\ binding_' = NoPage /\ event_' = FALSE
    /\ UNCHANGED <<waiting, install>>

\* Invalid weak pointers end the callback expected, an install's too.
StopPipeline(r) ==
    /\ run' = Stopped(r)
    /\ waiting' = "nothing"
    /\ binding_' = NoPage /\ event_' = FALSE
    /\ install' = FALSE

Stop(r) == StopPipeline(r) /\ infobar' = [infobar EXCEPT !.weak = FALSE]

Proceed(r, next) == run' = r /\ waiting' = next /\ UNCHANGED <<infobar, install>>

\* Incognito tabs and insecure pages are not suitable.
RequestAppBanner(debug, suitable) ==
    IF run.is_active_ THEN UNCHANGED <<pipeVars, infobar, install>>
    ELSE IF ~suitable THEN Stop(ReportStatus(NewRun(TRUE, debug)))
    ELSE /\ Proceed(NewRun(TRUE, debug), "manifest")
         /\ binding_' = NoPage
         /\ UNCHANGED event_

ValidatedUrl == IF data.url = NoPage THEN page ELSE data.url

\* Developer tools ask for the banner of the current page.
DebugRequest ==
    /\ \E suitable \in BOOLEAN :
           /\ RequestAppBanner(TRUE, suitable)
           /\ data' = IF suitable /\ ~run.is_active_
                      THEN [data EXCEPT !["url"] = ValidatedUrl] ELSE data
    /\ UNCHANGED <<tabVars, triggerVars, idVars>>

\* A site whose banner was blocked, ignored or installed ends the run.
OnDidGetManifest ==
    /\ waiting = "manifest"
    /\ \E ok, show \in BOOLEAN :
           /\ data' = IF ok THEN [data EXCEPT !["manifest"] = run.page] ELSE data
           /\ IF ok /\ (run.is_debug_mode_ \/ show)
              THEN Proceed(run, "installable") /\ UNCHANGED <<binding_, event_>>
              ELSE Stop(ReportStatus(run))
    /\ UNCHANGED <<tabVars, triggerVars, idVars>>

SendBannerPromptRequest ==
    /\ gCurrentRequestID < MaxRequestID
    /\ gCurrentRequestID' = gCurrentRequestID + 1
    /\ event_request_id_' = gCurrentRequestID'
    /\ binding_' = page /\ event_' = TRUE

\* Faulty variant: an icon fetched before is not fetched again.
OnDidPerformInstallableCheck_KeepIcon ==
    /\ waiting = "installable"
    /\ \/ /\ data' = IF data["icon"] = NoPage THEN [data EXCEPT !["icon"] = run.page] ELSE data
          /\ Proceed(run, "reply")
          /\ SendBannerPromptRequest
       \/ Stop(ReportStatus(run)) /\ UNCHANGED <<data, idVars>>
    /\ UNCHANGED <<tabVars, triggerVars>>

OnDidPerformInstallableCheck ==
    /\ waiting = "installable"
    /\ \/ /\ data' = [data EXCEPT !["icon"] = run.page]
          /\ Proceed(run, "reply")
          /\ SendBannerPromptRequest
       \/ Stop(ReportStatus(run)) /\ UNCHANGED <<data, idVars>>
    /\ UNCHANGED <<tabVars, triggerVars>>

\* The infobar is not added twice.  The object of an earlier install goes.
ShowBanner ==
    /\ infobar' = IF infobar.page = NoPage
                  THEN [page |-> page, id |-> event_request_id_, weak |-> TRUE] ELSE infobar
    /\ install' = FALSE

\* Faulty variant: the page's cancellation outlives the banner it asked for.
Shown_StillCanceled(r) ==
    [ReportStatus(r) EXCEPT !.is_active_ = FALSE, !.shows = r.shows + 1]

Shown(r) ==
    [ReportStatus(r) EXCEPT !.is_active_ = FALSE, !.was_canceled_by_page_ = FALSE,
                            !.shows = r.shows + 1]

\* Faulty variant: the page's request to display the banner is ignored, a cancellation too.
HandleReply_Ignore(r, cancel) ==
    /\ waiting' = "nothing"
    /\ run' = Shown(r)
    /\ ShowBanner

HandleReply(r, cancel) ==
    /\ waiting' = "nothing"
    /\ IF cancel /\ ~r.page_requested_prompt_
       THEN run' = [r EXCEPT !.was_canceled_by_page_ = TRUE] /\ UNCHANGED <<infobar, install>>
       ELSE run' = Shown(r) /\ ShowBanner

OnBannerPromptReply ==
    /\ waiting = "reply"
    /\ \E cancel \in BOOLEAN : HandleReply([run EXCEPT !.refused = cancel], cancel)
    /\ UNCHANGED <<tabVars, triggerVars, data, binding_, event_, idVars>>

\* The page may ask before its reply has come, or any time after.
DisplayAppBanner ==
    /\ binding_ # NoPage
    /\ IF run.was_canceled_by_page_
       THEN HandleReply([run EXCEPT !.asked = TRUE], FALSE)
       ELSE /\ run' = [run EXCEPT !.page_requested_prompt_ = TRUE, !.asked = TRUE]
            /\ UNCHANGED <<waiting, infobar, install>>
    /\ UNCHANGED <<tabVars, triggerVars, data, binding_, event_, idVars>>

-----------------------------------------------------------------------------
(* Triggers *)

DidStartNavigation ==
    /\ ~navigating
    /\ navigating' = TRUE
    /\ load_finished_' = FALSE /\ observing' = TRUE
    /\ UNCHANGED <<page, loading, alive, zeroEngagement, banner_request_queued_, playing,
                   pipeVars, data, idVars, infobar, install>>

\* The url and the manifest of the last page go, and with them a pipeline under way; the
\* infobar goes by itself.  The icon stays, and so does a banner request queued before.
DidFinishNavigation ==
    /\ navigating /\ page < MaxPages
    /\ navigating' = FALSE
    /\ page' = page + 1 /\ loading' = TRUE
    /\ data' = [data EXCEPT !["url"] = NoPage, !["manifest"] = NoPage] /\ playing' = FALSE
    /\ IF run.is_active_ THEN StopPipeline(run) ELSE UNCHANGED <<pipeVars, install>>
    /\ infobar' = NoInfobar
    /\ UNCHANGED <<alive, zeroEngagement, load_finished_, banner_request_queued_, observing, idVars>>

\* A download or a cancelled navigation commits nothing.
NavigationAborts ==
    /\ navigating /\ navigating' = FALSE
    /\ UNCHANGED <<page, loading, alive, zeroEngagement, triggerVars, pipeVars, data, idVars,
                   infobar, install>>

DidFinishLoad ==
    /\ loading /\ loading' = FALSE
    /\ load_finished_' = TRUE
    /\ data' = [data EXCEPT !["url"] = page]
    /\ IF banner_request_queued_ \/ zeroEngagement
       THEN /\ observing' = FALSE /\ banner_request_queued_' = FALSE
            /\ \E suitable \in BOOLEAN : RequestAppBanner(FALSE, suitable)
       ELSE UNCHANGED <<observing, banner_request_queued_, pipeVars, infobar, install>>
    /\ UNCHANGED <<page, navigating, alive, zeroEngagement, playing, idVars>>

\* Enough engagement with this tab.
OnEngagementIncreased ==
    /\ observing /\ ~playing
    /\ observing' = FALSE
    /\ IF load_finished_
       THEN \E suitable \in BOOLEAN :
                /\ RequestAppBanner(FALSE, suitable)
                /\ data' = IF suitable /\ ~run.is_active_
                           THEN [data EXCEPT !["url"] = ValidatedUrl] ELSE data
                /\ UNCHANGED banner_request_queued_
       ELSE /\ banner_request_queued_' = TRUE
            /\ UNCHANGED <<pipeVars, data, infobar, install>>
    /\ UNCHANGED <<tabVars, load_finished_, playing, idVars>>

MediaChanges ==
    /\ playing' = ~playing
    /\ UNCHANGED <<tabVars, load_finished_, banner_request_queued_, observing, pipeVars, data,
                   idVars, infobar, install>>

-----------------------------------------------------------------------------
(* The user's answer, and the end *)

\* SendBannerDismissed and SendBannerAccepted only tell the renderer.
InfoBarDismissed ==
    /\ infobar.page # NoPage /\ infobar' = NoInfobar
    /\ UNCHANGED <<tabVars, triggerVars, pipeVars, data, idVars, install>>

Accept ==
    /\ infobar.page # NoPage /\ infobar' = NoInfobar
    /\ install' = (infobar.weak \/ install)
    /\ UNCHANGED <<tabVars, triggerVars, pipeVars, data, idVars>>

\* A failed install stops the pipeline, whichever page it is of by now.
DidFinishCreatingBookmarkApp ==
    /\ install
    /\ \/ Stop(run)
       \/ install' = FALSE /\ UNCHANGED <<pipeVars, infobar>>
    /\ UNCHANGED <<tabVars, triggerVars, data, idVars>>

OtherTabRequests ==
    /\ gCurrentRequestID < MaxRequestID
    /\ gCurrentRequestID' = gCurrentRequestID + 1
    /\ UNCHANGED <<tabVars, triggerVars, pipeVars, data, event_request_id_, infobar, install>>

WebContentsDestroyed ==
    /\ alive' = FALSE
    /\ Stop(run)
    /\ UNCHANGED <<page, loading, navigating, zeroEngagement, triggerVars, data, idVars>>

Next ==
    /\ alive
    /\ \/ DebugRequest \/ OnDidGetManifest \/ OnDidPerformInstallableCheck
       \/ OnBannerPromptReply \/ DisplayAppBanner
       \/ DidStartNavigation \/ DidFinishNavigation \/ NavigationAborts \/ DidFinishLoad
       \/ OnEngagementIncreased \/ MediaChanges
       \/ InfoBarDismissed \/ Accept \/ DidFinishCreatingBookmarkApp \/ OtherTabRequests
       \/ WebContentsDestroyed

Spec == Init /\ [][Next]_vars

-----------------------------------------------------------------------------
(* Properties *)

\* A callback of the pipeline is expected only by the run of the page displayed, and from
\* the prompt request until the banner may be shown url, manifest and icon are that
\* page's, though the icon of an earlier one is kept until then; a status is owed only
\* while a run is active, and an answer to the infobar, or the end of an install, whose
\* id is the last one finds the event bound.
PipelineConsistent ==
    /\ TypeOK
    /\ run.need_to_log_status_ => run.is_active_
    /\ run.is_active_ => run.page = page /\ data["url"] = page
    /\ waiting # "nothing" => run.is_active_ /\ ~run.was_canceled_by_page_
    /\ (waiting = "reply" \/ (run.is_active_ /\ run.was_canceled_by_page_)) =>
           /\ event_ /\ binding_ = page
           /\ \A of \in DOMAIN data : data[of] = page
    /\ run.is_active_ => waiting # "nothing" \/ run.was_canceled_by_page_
    /\ (infobar.weak /\ infobar.id = gCurrentRequestID) => event_
    /\ (install /\ event_request_id_ = gCurrentRequestID) => event_

\* The banner is shown once in a run, over the page the run is for, and after that page
\* has cancelled only because it has asked for the banner in the same run.
BannerWarranted ==
    /\ run.shows <= 1
    /\ (run.shows = 1 /\ run.refused) => run.asked
    /\ infobar.page \in {NoPage, page}

\* Every run which is not for debugging reports one status before it ends, unless it
\* is cut off while it waits, and no second one while the tab lives.
StatusOnce ==
    /\ [](run.page # NoPage /\ ~run.is_active_ /\ ~run.is_debug_mode_ =>
              run.cut = (run.reports = 0))
    /\ [][run'.reports > run.reports => run'.reports = 1 \/ ~alive']_vars

===================================================================================
