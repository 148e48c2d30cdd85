-------------------------- MODULE AppBannerManager_proofs --------------------------
(***************************************************************************)
(* The banner pipeline of one tab, for any number of pages and prompt      *)
(* requests.                                                               *)
(***************************************************************************)
EXTENDS AppBannerManager, TLAPS

\* A run under way has shown and reported nothing, and owes a status unless it is
\* for debugging; a cancellation stands until the page wishes for the banner.
UnderWay(r) ==
    r.is_active_ => /\ r.reports = 0 /\ r.shows = 0 /\ ~r.cut
                    /\ r.need_to_log_status_ = ~r.is_debug_mode_
                    /\ r.was_canceled_by_page_ => ~r.page_requested_prompt_

\* Of a run that has ended one status was reported, or it was cut off.
Ended(r) ==
    ~r.is_active_ =>
        /\ ~r.need_to_log_status_
        /\ r.page # NoPage /\ ~r.is_debug_mode_ => r.cut = (r.reports = 0)
        /\ r.was_canceled_by_page_ /\ ~r.is_debug_mode_ => r.reports > 0

\* The banner is shown once, after a cancellation at the page's own wish.
Warranted(r) ==
    /\ r.page_requested_prompt_ => r.asked
    /\ (r.shows = 1 /\ r.refused) => r.asked

RunInv(r) == r \in RunType /\ UnderWay(r) /\ Ended(r) /\ Warranted(r)

\* The page has had its say: nobody is left who might end the run again.
CanceledIsOver ==
    run.was_canceled_by_page_ /\ ~run.is_active_ =>
        binding_ = NoPage /\ ~infobar.weak /\ ~install

\* Url and manifest are of the page displayed or gone; the icon may be of any page.
OfPage(d) ==
    /\ d \in [{"url", "manifest", "icon"} -> Pages \cup {NoPage}]
    /\ d["url"] \in {NoPage, page} /\ d["manifest"] \in {NoPage, page}

\* The manifest is the page's before installability is checked.
DataOfPage == OfPage(data) /\ (waiting = "installable" => data["manifest"] = page)

\* Whoever may call back about an install finds the event bound.
EventBound == infobar.weak \/ install => event_

BannerInv ==
    /\ PipelineConsistent
    /\ infobar.page \in {NoPage, page}
    /\ RunInv(run)
    /\ alive => run.reports <= 1
    /\ CanceledIsOver /\ DataOfPage /\ EventBound

-----------------------------------------------------------------------------
(* What the functions of a run make of it *)

LEMMA NewRunInv ==
    ASSUME NEW active \in BOOLEAN, NEW debug \in BOOLEAN, page \in Pages
    PROVE  LET s == NewRun(active, debug)
           IN  /\ RunInv(s)
               /\ s.is_active_ = active /\ s.reports = 0 /\ ~s.was_canceled_by_page_
               /\ active => s.page = page
<1>1. NewRun(active, debug) \in RunType
  BY DEF RunType, NewRun
<1>2. UnderWay(NewRun(active, debug)) /\ Ended(NewRun(active, debug))
  BY DEF RunType, NewRun, UnderWay, Ended
<1>3. Warranted(NewRun(active, debug))
  BY DEF RunType, NewRun, Warranted
<1>. QED
  BY <1>1, <1>2, <1>3 DEF RunInv, NewRun

LEMMA ReportStatusType ==
    ASSUME NEW r \in RunType, r.reports <= 1
    PROVE  ReportStatus(r) \in RunType
<1>1. r.reports + 1 \in 0..2
  BY DEF RunType
<1>2. ASSUME NEW n \in 0..2
      PROVE  [r EXCEPT !.need_to_log_status_ = FALSE, !.reports = n] \in RunType
  BY DEF RunType
<1>. QED
  BY <1>1, <1>2 DEF ReportStatus

LEMMA StoppedType ==
    ASSUME NEW r \in RunType, r.reports <= 1
    PROVE  Stopped(r) \in RunType
<1>. DEFINE s == IF r.was_canceled_by_page_ /\ ~r.page_requested_prompt_
                 THEN ReportStatus(r) ELSE r
<1>1. s \in RunType
  BY ReportStatusType
<1>2. Stopped(r) = [s EXCEPT !.is_active_ = FALSE, !.need_to_log_status_ = FALSE,
                             !.cut = s.cut \/ s.need_to_log_status_]
  BY DEF Stopped
<1>. HIDE DEF s
<1>. QED
  BY <1>1, <1>2 DEF RunType

LEMMA ReportedRun ==
    ASSUME NEW r, RunInv(r), r.is_active_
    PROVE  LET s == ReportStatus(r)
           IN  /\ s \in RunType
               /\ s.reports = IF r.is_debug_mode_ THEN 0 ELSE 1
               /\ ~s.need_to_log_status_
               /\ s.is_active_ /\ s.shows = 0 /\ ~s.cut
               /\ s.was_canceled_by_page_ = r.was_canceled_by_page_
               /\ s.page_requested_prompt_ = r.page_requested_prompt_
               /\ s.is_debug_mode_ = r.is_debug_mode_
               /\ s.page = r.page /\ s.asked = r.asked /\ s.refused = r.refused
<1>1. ReportStatus(r) \in RunType
  BY ReportStatusType DEF RunInv, UnderWay
<1>2. LET s == ReportStatus(r)
      IN  /\ s.reports = IF r.is_debug_mode_ THEN 0 ELSE 1
          /\ ~s.need_to_log_status_
          /\ s.is_active_ /\ s.shows = 0 /\ ~s.cut
  BY DEF ReportStatus, RunType, RunInv, UnderWay
<1>3. LET s == ReportStatus(r)
      IN  /\ s.was_canceled_by_page_ = r.was_canceled_by_page_
          /\ s.page_requested_prompt_ = r.page_requested_prompt_
          /\ s.is_debug_mode_ = r.is_debug_mode_
          /\ s.page = r.page /\ s.asked = r.asked /\ s.refused = r.refused
  BY DEF ReportStatus, RunType, RunInv, UnderWay
<1>. QED
  BY <1>1, <1>2, <1>3

\* A run may be cut off at any time before its second report ...
LEMMA StoppedRun ==
    ASSUME NEW r, RunInv(r), r.reports <= 1
    PROVE  LET s == Stopped(r)
           IN  /\ RunInv(s) /\ ~s.is_active_
               /\ r.is_active_ => s.reports <= 1
               /\ ~r.was_canceled_by_page_ => s.reports = r.reports
               /\ s.was_canceled_by_page_ = r.was_canceled_by_page_
<1>1. Stopped(r) \in RunType
  BY StoppedType DEF RunInv
<1>2. UnderWay(Stopped(r)) /\ ~Stopped(r).is_active_
  BY DEF Stopped, ReportStatus, RunType, RunInv, UnderWay
<1>3. Warranted(Stopped(r))
  BY DEF Stopped, ReportStatus, RunType, RunInv, Warranted
<1>4. Ended(Stopped(r))
  BY DEF Stopped, ReportStatus, RunType, RunInv, UnderWay, Ended
<1>5. r.is_active_ => Stopped(r).reports <= 1
  BY DEF Stopped, ReportStatus, RunType, RunInv, UnderWay
<1>6. /\ ~r.was_canceled_by_page_ => Stopped(r).reports = r.reports
      /\ Stopped(r).was_canceled_by_page_ = r.was_canceled_by_page_
  BY DEF Stopped, ReportStatus, RunType, RunInv, UnderWay
<1>. QED
  BY <1>1, <1>2, <1>3, <1>4, <1>5, <1>6 DEF RunInv

\* ... or stopped after its report, while it waits and has not been cancelled.
LEMMA StoppedAfterReport ==
    ASSUME NEW r, RunInv(r), r.is_active_, ~r.was_canceled_by_page_
    PROVE  LET s == Stopped(ReportStatus(r))
           IN  RunInv(s) /\ ~s.is_active_ /\ s.reports <= 1 /\ ~s.was_canceled_by_page_
<1>. DEFINE q == ReportStatus(r)
<1>1. /\ q \in RunType /\ ~q.was_canceled_by_page_ /\ ~q.cut /\ ~q.need_to_log_status_
      /\ q.shows = 0 /\ q.reports = (IF r.is_debug_mode_ THEN 0 ELSE 1)
      /\ q.is_debug_mode_ = r.is_debug_mode_ /\ q.asked = r.asked
      /\ q.page_requested_prompt_ = r.page_requested_prompt_
  BY ReportedRun
<1>2. Warranted(r)
  BY DEF RunInv
<1>. HIDE DEF q
<1>3. Stopped(q) \in RunType
  BY <1>1, StoppedType DEF RunType
<1>4. Stopped(q) = [q EXCEPT !.is_active_ = FALSE, !.need_to_log_status_ = FALSE,
                             !.cut = q.cut \/ q.need_to_log_status_]
  BY <1>1 DEF Stopped
<1>5. UnderWay(Stopped(q)) /\ ~Stopped(q).is_active_
  BY <1>1, <1>4 DEF RunType, UnderWay
<1>6. Ended(Stopped(q))
  BY <1>1, <1>4 DEF RunType, Ended
<1>7. Warranted(Stopped(q))
  BY <1>1, <1>2, <1>4 DEF RunType, Warranted
<1>8. Stopped(q).reports <= 1 /\ ~Stopped(q).was_canceled_by_page_
  BY <1>1, <1>4 DEF RunType
<1>. QED
  BY <1>3, <1>5, <1>6, <1>7, <1>8 DEF RunInv, q

LEMMA ShownRun ==
    ASSUME NEW r, RunInv(r), r.is_active_,
           r.refused => r.asked
    PROVE  LET s == Shown(r)
           IN  RunInv(s) /\ ~s.is_active_ /\ s.reports <= 1 /\ ~s.was_canceled_by_page_
<1>1. Shown(r) \in RunType
  <2>. DEFINE s == ReportStatus(r)
  <2>1. s \in RunType
    BY ReportedRun
  <2>2. r.shows + 1 \in 0..1
    BY DEF RunInv, UnderWay
  <2>3. ASSUME NEW n \in 0..1
        PROVE  [s EXCEPT !.is_active_ = FALSE, !.was_canceled_by_page_ = FALSE,
                         !.shows = n] \in RunType
    <3>. HIDE DEF s
    <3>. QED
      BY <2>1 DEF RunType
  <2>. QED
    BY <2>2, <2>3 DEF Shown
<1>2. Ended(Shown(r)) /\ UnderWay(Shown(r)) /\ Warranted(Shown(r))
  BY DEF Shown, ReportStatus, RunType, RunInv, UnderWay, Ended, Warranted
<1>3. /\ ~Shown(r).is_active_ /\ Shown(r).reports <= 1
      /\ ~Shown(r).was_canceled_by_page_
  BY DEF Shown, ReportStatus, RunType, RunInv, UnderWay
<1>. QED
  BY <1>1, <1>2, <1>3 DEF RunInv

-----------------------------------------------------------------------------
(* What the parts of several actions preserve *)

\* The end of a run leaves nobody to call back.
LEMMA StopPreserves ==
    ASSUME BannerInv, NEW r, Stop(r),
           RunInv(Stopped(r)), ~Stopped(r).is_active_, alive' => Stopped(r).reports <= 1,
           alive' \in BOOLEAN, loading' \in BOOLEAN, load_finished_' \in BOOLEAN,
           banner_request_queued_' \in BOOLEAN, observing' \in BOOLEAN,
           OfPage(data'),
           UNCHANGED <<page, navigating, zeroEngagement, playing, idVars>>
    PROVE  BannerInv'
<1>. USE DEF NoPage
<1>1. /\ run' = Stopped(r) /\ waiting' = "nothing" /\ binding_' = NoPage /\ ~event_'
      /\ ~install' /\ infobar' = [infobar EXCEPT !.weak = FALSE]
      /\ event_' \in BOOLEAN /\ install' \in BOOLEAN
  BY DEF Stop, StopPipeline
<1>2. RunInv(run') /\ ~run'.is_active_ /\ (alive' => run'.reports <= 1)
  BY <1>1
<1>3. /\ infobar' \in [page : Pages \cup {NoPage}, id : -1..MaxRequestID, weak : BOOLEAN]
      /\ infobar'.page \in {NoPage, page'} /\ ~infobar'.weak
  BY <1>1 DEF BannerInv, PipelineConsistent, TypeOK
<1>4. page \in Pages /\ page' = page
  BY DEF BannerInv, PipelineConsistent, TypeOK
<1>5. TypeOK'
  BY <1>1, <1>2, <1>3, <1>4 DEF OfPage, RunInv, BannerInv, PipelineConsistent, TypeOK, idVars
<1>6. ~run'.need_to_log_status_
  BY <1>2 DEF RunInv, Ended
<1>7. PipelineConsistent'
  BY <1>1, <1>2, <1>3, <1>5, <1>6 DEF PipelineConsistent
<1>8. CanceledIsOver' /\ EventBound' /\ DataOfPage'
  BY <1>1, <1>3, <1>4 DEF CanceledIsOver, EventBound, DataOfPage, OfPage
<1>. QED
  BY <1>2, <1>3, <1>7, <1>8 DEF BannerInv

\* A request for a banner, whoever makes it.
LEMMA RequestPreserves ==
    ASSUME BannerInv, alive, NEW debug \in BOOLEAN, NEW suitable \in BOOLEAN,
           RequestAppBanner(debug, suitable),
           loading' \in BOOLEAN, load_finished_' \in BOOLEAN,
           banner_request_queued_' \in BOOLEAN, observing' \in BOOLEAN,
           data' = data \/ data' = [data EXCEPT !["url"] = page],
           suitable /\ ~run.is_active_ => data'["url"] = page,
           UNCHANGED <<page, navigating, alive, zeroEngagement, playing, idVars>>
    PROVE  BannerInv'
<1>1. /\ page \in Pages /\ data \in [{"url", "manifest", "icon"} -> Pages \cup {NoPage}]
      /\ DataOfPage
  BY DEF BannerInv, PipelineConsistent, TypeOK
<1>2. OfPage(data')
  BY <1>1 DEF DataOfPage, OfPage
<1>3. CASE run.is_active_
  <2>1. UNCHANGED <<run, waiting, binding_, event_, infobar, install>>
    BY <1>3 DEF RequestAppBanner, pipeVars
  <2>2. data' = data
    <3>1. data["url"] = page
      BY <1>3 DEF BannerInv, PipelineConsistent
    <3>. QED
      BY <3>1, <1>1
  <2>3. TypeOK'
    BY <2>1, <2>2 DEF BannerInv, PipelineConsistent, TypeOK, idVars
  <2>4. PipelineConsistent'
    BY <2>1, <2>2, <2>3 DEF BannerInv, PipelineConsistent, idVars
  <2>. QED
    BY <2>1, <2>2, <2>4 DEF BannerInv, CanceledIsOver, DataOfPage, OfPage, EventBound
<1>4. CASE ~run.is_active_ /\ ~suitable
  <2>. DEFINE q == NewRun(TRUE, debug)
  <2>1. Stop(ReportStatus(q))
    BY <1>4 DEF RequestAppBanner
  <2>2. RunInv(q) /\ q.is_active_ /\ ~q.was_canceled_by_page_
    BY <1>1, NewRunInv
  <2>. HIDE DEF q
  <2>3. /\ RunInv(Stopped(ReportStatus(q))) /\ ~Stopped(ReportStatus(q)).is_active_
        /\ Stopped(ReportStatus(q)).reports <= 1
    BY <2>2, StoppedAfterReport
  <2>4. alive' \in BOOLEAN
    BY DEF BannerInv, PipelineConsistent, TypeOK
  <2>. QED
    BY <1>2, <2>1, <2>3, <2>4, StopPreserves
<1>5. CASE ~run.is_active_ /\ suitable
  <2>. DEFINE q == NewRun(TRUE, debug)
  <2>1. /\ run' = q /\ waiting' = "manifest" /\ binding_' = NoPage
        /\ UNCHANGED <<event_, infobar, install>>
    BY <1>5 DEF RequestAppBanner, Proceed
  <2>2. /\ RunInv(q) /\ q.is_active_ /\ ~q.was_canceled_by_page_ /\ q.reports = 0
        /\ q.page = page
    BY <1>1, NewRunInv
  <2>. HIDE DEF q
  <2>3. TypeOK'
    BY <1>1, <1>2, <2>1, <2>2 DEF RunInv, BannerInv, PipelineConsistent, TypeOK, idVars
  <2>4. EventBound' /\ CanceledIsOver' /\ DataOfPage'
    BY <1>2, <2>1, <2>2 DEF BannerInv, EventBound, CanceledIsOver, DataOfPage, OfPage
  <2>5. PipelineConsistent'
    BY <1>5, <2>1, <2>2, <2>3, <2>4 DEF PipelineConsistent, EventBound
  <2>. QED
    BY <2>1, <2>2, <2>4, <2>5 DEF BannerInv
<1>. QED
  BY <1>3, <1>4, <1>5

\* The banner is shown for a run under way whose page may still call.
LEMMA ShownPreserves ==
    ASSUME BannerInv, NEW r, RunInv(r), r.is_active_, r.refused => r.asked,
           run' = Shown(r), waiting' = "nothing", ShowBanner,
           event_,
           UNCHANGED <<tabVars, triggerVars, data, binding_, event_, idVars>>
    PROVE  BannerInv'
<1>. USE DEF NoPage
<1>1. /\ RunInv(run') /\ ~run'.is_active_ /\ run'.reports <= 1
      /\ ~run'.was_canceled_by_page_
  BY ShownRun
<1>2. /\ infobar' \in [page : Pages \cup {NoPage}, id : -1..MaxRequestID, weak : BOOLEAN]
      /\ infobar'.page \in {NoPage, page'} /\ ~install' /\ install' \in BOOLEAN
  BY DEF ShowBanner, BannerInv, PipelineConsistent, TypeOK, tabVars
<1>3. TypeOK'
  BY <1>1, <1>2 DEF RunInv, BannerInv, PipelineConsistent, TypeOK, tabVars, triggerVars, idVars
<1>4. ~run'.need_to_log_status_
  BY <1>1 DEF RunInv, Ended
<1>5. PipelineConsistent'
  BY <1>1, <1>2, <1>3, <1>4 DEF PipelineConsistent
<1>6. CanceledIsOver' /\ EventBound' /\ DataOfPage'
  BY <1>1, <1>2 DEF BannerInv, CanceledIsOver, EventBound, DataOfPage, OfPage, tabVars
<1>. QED
  BY <1>1, <1>2, <1>5, <1>6 DEF BannerInv

-----------------------------------------------------------------------------
(* The initial state and the steps *)

LEMMA InitBanner == Init => BannerInv
<1>. SUFFICES ASSUME Init PROVE BannerInv
  OBVIOUS
<1>1. page \in Pages /\ page = 1
  BY BannerAssumption DEF Init, Pages
<1>2. RunInv(run) /\ ~run.is_active_ /\ run.reports = 0 /\ ~run.was_canceled_by_page_
  BY <1>1, NewRunInv DEF Init
<1>3. /\ infobar = NoInfobar /\ waiting = "nothing" /\ ~install /\ ~event_
      /\ data = [of \in {"url", "manifest", "icon"} |-> NoPage]
      /\ event_request_id_ = -1 /\ gCurrentRequestID = -1 /\ binding_ = NoPage
  BY DEF Init
<1>4. TypeOK
  <2>1. /\ event_request_id_ \in -1..MaxRequestID /\ gCurrentRequestID \in -1..MaxRequestID
        /\ infobar \in [page : Pages \cup {NoPage}, id : -1..MaxRequestID, weak : BOOLEAN]
    BY <1>3, BannerAssumption DEF NoInfobar
  <2>2. run \in RunType
    BY <1>2 DEF RunInv
  <2>. QED
    BY <1>1, <1>3, <2>1, <2>2 DEF Init, TypeOK
<1>5. ~run.need_to_log_status_
  BY <1>2 DEF RunInv, Ended
<1>6. PipelineConsistent
  BY <1>2, <1>3, <1>4, <1>5 DEF PipelineConsistent, NoInfobar
<1>7. infobar.page = NoPage /\ ~infobar.weak
  BY <1>3 DEF NoInfobar
<1>. QED
  BY <1>2, <1>3, <1>6, <1>7 DEF BannerInv, CanceledIsOver, DataOfPage, OfPage, EventBound

\* A callback of the pipeline finds its run under way and not cancelled.
LEMMA WaitingRun ==
    ASSUME BannerInv, waiting # "nothing"
    PROVE  /\ run.is_active_ /\ ~run.was_canceled_by_page_ /\ RunInv(run)
           /\ run.page = page /\ data["url"] = page /\ page \in Pages
           /\ OfPage(data)
BY DEF BannerInv, PipelineConsistent, TypeOK, DataOfPage, OfPage

LEMMA DebugRequestStep ==
    ASSUME BannerInv, alive, DebugRequest
    PROVE  BannerInv'
<1>1. PICK suitable \in BOOLEAN :
          /\ RequestAppBanner(TRUE, suitable)
          /\ data' = IF suitable /\ ~run.is_active_
                     THEN [data EXCEPT !["url"] = ValidatedUrl] ELSE data
  BY DEF DebugRequest
<1>2. ValidatedUrl = page
  BY DEF BannerInv, DataOfPage, OfPage, PipelineConsistent, TypeOK, ValidatedUrl
<1>3. data' = data \/ data' = [data EXCEPT !["url"] = page]
  BY <1>1, <1>2
<1>4. suitable /\ ~run.is_active_ => data'["url"] = page
  BY <1>1, <1>2 DEF BannerInv, PipelineConsistent, TypeOK
<1>5. /\ loading' \in BOOLEAN /\ load_finished_' \in BOOLEAN
      /\ banner_request_queued_' \in BOOLEAN /\ observing' \in BOOLEAN
      /\ UNCHANGED <<page, navigating, alive, zeroEngagement, playing, idVars>>
  BY DEF DebugRequest, BannerInv, PipelineConsistent, TypeOK, tabVars, triggerVars
<1>. QED
  BY <1>1, <1>3, <1>4, <1>5, RequestPreserves

LEMMA ManifestStep ==
    ASSUME BannerInv, alive, OnDidGetManifest
    PROVE  BannerInv'
<1>1. PICK ok, show \in BOOLEAN :
          /\ data' = IF ok THEN [data EXCEPT !["manifest"] = run.page] ELSE data
          /\ IF ok /\ (run.is_debug_mode_ \/ show)
             THEN Proceed(run, "installable") /\ UNCHANGED <<binding_, event_>>
             ELSE Stop(ReportStatus(run))
  BY DEF OnDidGetManifest
<1>2. waiting # "nothing" /\ UNCHANGED <<tabVars, triggerVars, idVars>>
  BY DEF OnDidGetManifest
<1>3. /\ run.is_active_ /\ ~run.was_canceled_by_page_ /\ RunInv(run)
      /\ run.page = page /\ data["url"] = page /\ page \in Pages
      /\ OfPage(data)
  BY <1>2, WaitingRun
<1>4. OfPage(data') /\ data'["url"] = page
  BY <1>1, <1>3 DEF OfPage
<1>5. CASE ok /\ (run.is_debug_mode_ \/ show)
  <2>1. /\ UNCHANGED <<run, binding_, event_, infobar, install>>
        /\ waiting' = "installable" /\ data'["manifest"] = page
    BY <1>1, <1>3, <1>5 DEF OfPage, Proceed
  <2>2. TypeOK'
    BY <1>2, <1>3, <1>4, <2>1
    DEF OfPage, BannerInv, PipelineConsistent, TypeOK, tabVars, triggerVars, idVars
  <2>3. PipelineConsistent'
    BY <1>2, <1>3, <1>4, <2>1, <2>2
    DEF BannerInv, PipelineConsistent, tabVars, idVars
  <2>4. CanceledIsOver' /\ DataOfPage' /\ EventBound'
    BY <1>2, <1>3, <1>4, <2>1
    DEF BannerInv, CanceledIsOver, DataOfPage, OfPage, EventBound, tabVars
  <2>. QED
    BY <1>2, <2>1, <2>3, <2>4 DEF BannerInv, tabVars
<1>6. CASE ~(ok /\ (run.is_debug_mode_ \/ show))
  <2>1. Stop(ReportStatus(run))
    BY <1>1, <1>6
  <2>2. /\ RunInv(Stopped(ReportStatus(run))) /\ ~Stopped(ReportStatus(run)).is_active_
        /\ Stopped(ReportStatus(run)).reports <= 1
    BY <1>3, StoppedAfterReport
  <2>3. /\ alive' \in BOOLEAN /\ loading' \in BOOLEAN /\ load_finished_' \in BOOLEAN
        /\ banner_request_queued_' \in BOOLEAN /\ observing' \in BOOLEAN
        /\ UNCHANGED <<page, navigating, zeroEngagement, playing, idVars>>
    BY <1>2 DEF BannerInv, PipelineConsistent, TypeOK, tabVars, triggerVars
  <2>. QED
    BY <1>4, <2>1, <2>2, <2>3, StopPreserves
<1>. QED
  BY <1>5, <1>6

LEMMA InstallableStep ==
    ASSUME BannerInv, alive, OnDidPerformInstallableCheck
    PROVE  BannerInv'
<1>1. waiting = "installable" /\ UNCHANGED <<tabVars, triggerVars>>
  BY DEF OnDidPerformInstallableCheck
<1>2. /\ run.is_active_ /\ ~run.was_canceled_by_page_ /\ RunInv(run)
      /\ run.page = page /\ data["url"] = page /\ page \in Pages
      /\ OfPage(data)
  BY <1>1, WaitingRun
<1>3. data["manifest"] = page
  BY <1>1 DEF BannerInv, DataOfPage, OfPage
<1>4. CASE /\ data' = [data EXCEPT !["icon"] = run.page]
           /\ Proceed(run, "reply")
           /\ SendBannerPromptRequest
  <2>1. /\ UNCHANGED <<run, infobar, install>> /\ waiting' = "reply"
        /\ binding_' = page /\ event_' = TRUE
    BY <1>4 DEF Proceed, SendBannerPromptRequest
  <2>2. event_request_id_' \in -1..MaxRequestID /\ gCurrentRequestID' \in -1..MaxRequestID
    <3>1. gCurrentRequestID \in -1..MaxRequestID
      BY DEF BannerInv, PipelineConsistent, TypeOK
    <3>. QED
      BY <1>4, <3>1, BannerAssumption DEF SendBannerPromptRequest
  <2>3. /\ OfPage(data')
        /\ data'["url"] = page /\ data'["manifest"] = page /\ data'["icon"] = page
    BY <1>2, <1>3, <1>4 DEF OfPage
  <2>4. \A of \in DOMAIN data' : data'[of] = page
    BY <2>3 DEF OfPage
  <2>5. TypeOK'
    BY <1>1, <1>2, <2>1, <2>2, <2>3
    DEF OfPage, BannerInv, PipelineConsistent, TypeOK, tabVars, triggerVars
  <2>6. PipelineConsistent'
    BY <1>1, <1>2, <2>1, <2>3, <2>4, <2>5 DEF BannerInv, PipelineConsistent, tabVars
  <2>7. CanceledIsOver' /\ DataOfPage' /\ EventBound'
    BY <1>1, <1>2, <2>1, <2>3, <2>4
    DEF BannerInv, CanceledIsOver, DataOfPage, OfPage, EventBound, tabVars
  <2>. QED
    BY <1>1, <2>1, <2>6, <2>7 DEF BannerInv, tabVars
<1>5. CASE Stop(ReportStatus(run)) /\ UNCHANGED <<data, idVars>>
  <2>1. /\ RunInv(Stopped(ReportStatus(run))) /\ ~Stopped(ReportStatus(run)).is_active_
        /\ Stopped(ReportStatus(run)).reports <= 1
    BY <1>2, StoppedAfterReport
  <2>2. /\ alive' \in BOOLEAN /\ loading' \in BOOLEAN /\ load_finished_' \in BOOLEAN
        /\ banner_request_queued_' \in BOOLEAN /\ observing' \in BOOLEAN
        /\ UNCHANGED <<page, navigating, zeroEngagement, playing>>
    BY <1>1 DEF BannerInv, PipelineConsistent, TypeOK, tabVars, triggerVars
  <2>. QED
    BY <1>2, <1>5, <2>1, <2>2, StopPreserves
<1>. QED
  BY <1>4, <1>5 DEF OnDidPerformInstallableCheck

LEMMA ReplyStep ==
    ASSUME BannerInv, alive, OnBannerPromptReply
    PROVE  BannerInv'
<1>1. /\ waiting = "reply"
      /\ UNCHANGED <<tabVars, triggerVars, data, binding_, event_, idVars>>
  BY DEF OnBannerPromptReply
<1>2. /\ run.is_active_ /\ ~run.was_canceled_by_page_ /\ RunInv(run)
      /\ run.page = page /\ data["url"] = page /\ page \in Pages
  BY <1>1, WaitingRun
<1>3. event_ /\ binding_ = page /\ \A of \in DOMAIN data : data[of] = page
  BY <1>1 DEF BannerInv, PipelineConsistent
<1>4. PICK cancel \in BOOLEAN : HandleReply([run EXCEPT !.refused = cancel], cancel)
  BY DEF OnBannerPromptReply
<1>. DEFINE r == [run EXCEPT !.refused = cancel]
<1>5. RunInv(r) /\ r.is_active_
  <2>1. r \in RunType
    BY <1>2 DEF RunInv, RunType
  <2>2. UnderWay(r) /\ Ended(r) /\ r.is_active_
    BY <1>2 DEF RunInv, RunType, UnderWay, Ended
  <2>3. Warranted(r)
    BY <1>2 DEF RunInv, RunType, UnderWay, Warranted
  <2>. QED
    BY <2>1, <2>2, <2>3 DEF RunInv
<1>6. /\ r.refused = cancel /\ r.page_requested_prompt_ = run.page_requested_prompt_
      /\ r.page = page /\ (r.page_requested_prompt_ => r.asked)
  BY <1>2 DEF RunInv, RunType, Warranted
<1>7. HandleReply(r, cancel)
  BY <1>4
<1>. HIDE DEF r
<1>8. CASE cancel /\ ~r.page_requested_prompt_
  <2>1. /\ run' = [r EXCEPT !.was_canceled_by_page_ = TRUE] /\ waiting' = "nothing"
        /\ UNCHANGED <<infobar, install>>
    BY <1>7, <1>8 DEF HandleReply
  <2>2. RunInv(run') /\ run'.is_active_ /\ run'.page = page /\ run'.reports <= 1
    <3>1. run' \in RunType
      BY <1>5, <2>1 DEF RunInv, RunType
    <3>2. UnderWay(run') /\ Ended(run') /\ run'.is_active_ /\ run'.page = page
      BY <1>5, <1>6, <1>8, <2>1 DEF RunInv, RunType, UnderWay, Ended
    <3>3. Warranted(run')
      BY <1>5, <1>6, <1>8, <2>1 DEF RunInv, RunType, UnderWay, Warranted
    <3>4. run'.reports <= 1
      BY <3>1, <3>2 DEF UnderWay
    <3>. QED
      BY <3>1, <3>2, <3>3, <3>4 DEF RunInv
  <2>3. TypeOK'
    BY <1>1, <2>1, <2>2
    DEF RunInv, BannerInv, PipelineConsistent, TypeOK, tabVars, triggerVars, idVars
  <2>4. run'.was_canceled_by_page_
    BY <1>5, <2>1 DEF RunInv, RunType
  <2>5. PipelineConsistent'
    BY <1>1, <1>2, <1>3, <2>1, <2>2, <2>3, <2>4
    DEF BannerInv, PipelineConsistent, tabVars, idVars
  <2>6. CanceledIsOver' /\ DataOfPage' /\ EventBound'
    BY <1>1, <2>1, <2>2 DEF BannerInv, CanceledIsOver, DataOfPage, OfPage, EventBound, tabVars
  <2>. QED
    BY <1>1, <2>1, <2>2, <2>5, <2>6 DEF BannerInv, tabVars
<1>9. CASE ~(cancel /\ ~r.page_requested_prompt_)
  <2>1. run' = Shown(r) /\ waiting' = "nothing" /\ ShowBanner
    BY <1>7, <1>9 DEF HandleReply
  <2>2. r.refused => r.asked
    BY <1>6, <1>9
  <2>. QED
    BY <1>1, <1>3, <1>5, <2>1, <2>2, ShownPreserves
<1>. QED
  BY <1>8, <1>9

LEMMA DisplayStep ==
    ASSUME BannerInv, alive, DisplayAppBanner
    PROVE  BannerInv'
<1>1. /\ binding_ # NoPage
      /\ UNCHANGED <<tabVars, triggerVars, data, binding_, event_, idVars>>
  BY DEF DisplayAppBanner
<1>2. RunInv(run)
  BY DEF BannerInv
<1>3. CASE run.was_canceled_by_page_
  <2>. DEFINE r == [run EXCEPT !.asked = TRUE]
  <2>1. run.is_active_ /\ event_
    BY <1>1, <1>3 DEF BannerInv, CanceledIsOver, PipelineConsistent
  <2>2. r \in RunType
    BY <1>2 DEF RunInv, RunType
  <2>3. UnderWay(r) /\ Ended(r) /\ r.is_active_ /\ r.asked
    BY <1>2, <2>1 DEF RunInv, RunType, UnderWay, Ended
  <2>4. Warranted(r)
    BY <2>3 DEF Warranted
  <2>5. HandleReply(r, FALSE)
    BY <1>3 DEF DisplayAppBanner
  <2>. HIDE DEF r
  <2>6. run' = Shown(r) /\ waiting' = "nothing" /\ ShowBanner
    BY <2>5 DEF HandleReply
  <2>7. RunInv(r)
    BY <2>2, <2>3, <2>4 DEF RunInv
  <2>. QED
    BY <1>1, <2>1, <2>3, <2>6, <2>7, ShownPreserves
<1>4. CASE ~run.was_canceled_by_page_
  <2>1. /\ run' = [run EXCEPT !.page_requested_prompt_ = TRUE, !.asked = TRUE]
        /\ UNCHANGED <<waiting, infobar, install>>
    BY <1>4 DEF DisplayAppBanner
  <2>2. run' \in RunType
    BY <1>2, <2>1 DEF RunInv, RunType
  <2>3. /\ run'.is_active_ = run.is_active_ /\ run'.page = run.page
        /\ run'.need_to_log_status_ = run.need_to_log_status_
        /\ run'.was_canceled_by_page_ = run.was_canceled_by_page_
        /\ run'.reports = run.reports
    BY <1>2, <2>1 DEF RunInv, RunType
  <2>4. UnderWay(run') /\ Ended(run')
    BY <1>2, <1>4, <2>1 DEF RunInv, RunType, UnderWay, Ended
  <2>5. Warranted(run')
    BY <1>2, <2>1 DEF RunInv, RunType, Warranted
  <2>6. TypeOK'
    BY <1>1, <2>1, <2>2
    DEF BannerInv, PipelineConsistent, TypeOK, tabVars, triggerVars, idVars
  <2>7. PipelineConsistent'
    BY <1>1, <1>4, <2>1, <2>3, <2>6 DEF BannerInv, PipelineConsistent, tabVars, idVars
  <2>8. CanceledIsOver' /\ DataOfPage' /\ EventBound'
    BY <1>1, <1>4, <2>1, <2>3
    DEF BannerInv, CanceledIsOver, DataOfPage, OfPage, EventBound, tabVars
  <2>. QED
    BY <1>1, <2>1, <2>2, <2>3, <2>4, <2>5, <2>7, <2>8 DEF BannerInv, RunInv, tabVars
<1>. QED
  BY <1>3, <1>4

LEMMA FinishNavigationStep ==
    ASSUME BannerInv, alive, DidFinishNavigation
    PROVE  BannerInv'
<1>. USE DEF NoPage
<1>1. /\ page' = page + 1 /\ page' \in Pages /\ infobar' = NoInfobar /\ alive' = alive
      /\ UNCHANGED idVars
  <2>1. page \in 1..MaxPages /\ page < MaxPages
    BY DEF DidFinishNavigation, BannerInv, PipelineConsistent, TypeOK, Pages
  <2>2. page + 1 \in 1..MaxPages
    BY <2>1, BannerAssumption
  <2>. QED
    BY <2>2 DEF DidFinishNavigation, Pages
<1>2. /\ data' \in [{"url", "manifest", "icon"} -> Pages \cup {NoPage}]
      /\ data'["url"] = NoPage /\ data'["manifest"] = NoPage
  BY DEF DidFinishNavigation, BannerInv, PipelineConsistent, TypeOK
<1>3. /\ RunInv(run') /\ ~run'.is_active_ /\ waiting' = "nothing" /\ run'.reports <= 1
      /\ install' \in BOOLEAN /\ event_' \in BOOLEAN /\ binding_' \in Pages \cup {NoPage}
      /\ install' => event_'
      /\ run'.was_canceled_by_page_ => binding_' = NoPage /\ ~install'
  <2>1. CASE run.is_active_
    <3>1. /\ run' = Stopped(run) /\ waiting' = "nothing"
          /\ binding_' = NoPage /\ event_' = FALSE /\ install' = FALSE
      BY <2>1 DEF DidFinishNavigation, StopPipeline
    <3>2. RunInv(run) /\ run.reports <= 1
      BY DEF BannerInv
    <3>3. RunInv(Stopped(run)) /\ ~Stopped(run).is_active_ /\ Stopped(run).reports <= 1
      BY <2>1, <3>2, StoppedRun
    <3>. QED
      BY <3>1, <3>3
  <2>2. CASE ~run.is_active_
    <3>1. UNCHANGED <<run, waiting, binding_, event_, install>>
      BY <2>2 DEF DidFinishNavigation, pipeVars
    <3>. QED
      BY <2>2, <3>1
      DEF BannerInv, PipelineConsistent, TypeOK, CanceledIsOver, EventBound
  <2>. QED
    BY <2>1, <2>2
<1>4. /\ infobar' \in [page : Pages \cup {NoPage}, id : -1..MaxRequestID, weak : BOOLEAN]
      /\ infobar'.page = NoPage /\ ~infobar'.weak
  BY <1>1, BannerAssumption DEF NoInfobar
<1>5. TypeOK'
  <2>1. /\ loading' = TRUE /\ navigating' = FALSE /\ playing' = FALSE
        /\ UNCHANGED <<zeroEngagement, load_finished_, banner_request_queued_, observing>>
    BY DEF DidFinishNavigation
  <2>2. run' \in RunType
    BY <1>3 DEF RunInv
  <2>. QED
    BY <1>1, <1>2, <1>3, <1>4, <2>1, <2>2
    DEF BannerInv, PipelineConsistent, TypeOK, idVars
<1>6. ~run'.need_to_log_status_
  BY <1>3 DEF RunInv, Ended
<1>7. PipelineConsistent'
  BY <1>3, <1>4, <1>5, <1>6 DEF PipelineConsistent
<1>8. CanceledIsOver' /\ DataOfPage' /\ EventBound'
  BY <1>2, <1>3, <1>4 DEF CanceledIsOver, DataOfPage, OfPage, EventBound
<1>. QED
  BY <1>3, <1>4, <1>7, <1>8 DEF BannerInv

LEMMA FinishLoadStep ==
    ASSUME BannerInv, alive, DidFinishLoad
    PROVE  BannerInv'
<1>1. /\ loading' = FALSE /\ load_finished_' = TRUE /\ data' = [data EXCEPT !["url"] = page]
      /\ UNCHANGED <<page, navigating, alive, zeroEngagement, playing, idVars>>
  BY DEF DidFinishLoad
<1>2. /\ page \in Pages /\ OfPage(data')
      /\ data'["url"] = page
  BY <1>1 DEF BannerInv, PipelineConsistent, TypeOK, DataOfPage, OfPage
<1>3. CASE banner_request_queued_ \/ zeroEngagement
  <2>1. observing' = FALSE /\ banner_request_queued_' = FALSE
    BY <1>3 DEF DidFinishLoad
  <2>2. PICK suitable \in BOOLEAN : RequestAppBanner(FALSE, suitable)
    BY <1>3 DEF DidFinishLoad
  <2>. QED
    BY <1>1, <1>2, <2>1, <2>2, RequestPreserves
<1>4. CASE ~(banner_request_queued_ \/ zeroEngagement)
  <2>1. UNCHANGED <<observing, banner_request_queued_, pipeVars, infobar, install>>
    BY <1>4 DEF DidFinishLoad
  <2>2. data["manifest"] = data'["manifest"] /\ data["icon"] = data'["icon"]
    BY <1>1 DEF BannerInv, PipelineConsistent, TypeOK
  <2>3. TypeOK'
    <3>1. /\ data' \in [{"url", "manifest", "icon"} -> Pages \cup {NoPage}]
          /\ loading' \in BOOLEAN /\ load_finished_' \in BOOLEAN
      BY <1>1, <1>2 DEF OfPage
    <3>2. /\ UNCHANGED <<page, navigating, alive, zeroEngagement, playing>>
          /\ UNCHANGED <<observing, banner_request_queued_, infobar, install>>
          /\ UNCHANGED <<run, waiting, binding_, event_, event_request_id_, gCurrentRequestID>>
      BY <1>1, <2>1 DEF pipeVars, idVars
    <3>. QED
      BY <3>1, <3>2 DEF BannerInv, PipelineConsistent, TypeOK
  <2>4. PipelineConsistent'
    <3>1. (\A of \in DOMAIN data : data[of] = page)
              => \A of \in DOMAIN data' : data'[of] = page'
      BY <1>1 DEF BannerInv, PipelineConsistent, TypeOK
    <3>. QED
      BY <1>1, <1>2, <2>1, <2>3, <3>1 DEF BannerInv, PipelineConsistent, pipeVars, idVars
  <2>5. CanceledIsOver' /\ DataOfPage' /\ EventBound'
    BY <1>1, <1>2, <2>1, <2>2
    DEF BannerInv, CanceledIsOver, DataOfPage, OfPage, EventBound, pipeVars
  <2>. QED
    BY <1>1, <2>1, <2>4, <2>5 DEF BannerInv, pipeVars
<1>. QED
  BY <1>3, <1>4

LEMMA EngagementStep ==
    ASSUME BannerInv, alive, OnEngagementIncreased
    PROVE  BannerInv'
<1>1. observing' = FALSE /\ UNCHANGED <<tabVars, load_finished_, playing, idVars>>
  BY DEF OnEngagementIncreased
<1>2. CASE load_finished_
  <2>1. PICK suitable \in BOOLEAN :
            /\ RequestAppBanner(FALSE, suitable)
            /\ data' = IF suitable /\ ~run.is_active_
                       THEN [data EXCEPT !["url"] = ValidatedUrl] ELSE data
            /\ UNCHANGED banner_request_queued_
    BY <1>2 DEF OnEngagementIncreased
  <2>2. ValidatedUrl = page
    BY DEF BannerInv, DataOfPage, OfPage, PipelineConsistent, TypeOK, ValidatedUrl
  <2>3. data' = data \/ data' = [data EXCEPT !["url"] = page]
    BY <2>1, <2>2
  <2>4. suitable /\ ~run.is_active_ => data'["url"] = page
    BY <2>1, <2>2 DEF BannerInv, PipelineConsistent, TypeOK
  <2>5. /\ loading' \in BOOLEAN /\ load_finished_' \in BOOLEAN
        /\ banner_request_queued_' \in BOOLEAN
        /\ UNCHANGED <<page, navigating, alive, zeroEngagement, playing, idVars>>
    BY <1>1, <2>1 DEF BannerInv, PipelineConsistent, TypeOK, tabVars
  <2>. QED
    BY <1>1, <2>1, <2>3, <2>4, <2>5, RequestPreserves
<1>3. CASE ~load_finished_
  <2>1. banner_request_queued_' = TRUE /\ UNCHANGED <<pipeVars, data, infobar, install>>
    BY <1>3 DEF OnEngagementIncreased
  <2>2. TypeOK'
    <3>1. observing' \in BOOLEAN /\ banner_request_queued_' \in BOOLEAN
      BY <1>1, <2>1
    <3>2. /\ UNCHANGED <<page, loading, navigating, alive, zeroEngagement>>
          /\ UNCHANGED <<load_finished_, playing, data, infobar, install>>
          /\ UNCHANGED <<run, waiting, binding_, event_, event_request_id_, gCurrentRequestID>>
      BY <1>1, <2>1 DEF tabVars, pipeVars, idVars
    <3>. QED
      BY <3>1, <3>2 DEF BannerInv, PipelineConsistent, TypeOK
  <2>3. PipelineConsistent'
    BY <1>1, <2>1, <2>2 DEF BannerInv, PipelineConsistent, tabVars, pipeVars, idVars
  <2>. QED
    BY <1>1, <2>1, <2>3
    DEF BannerInv, CanceledIsOver, DataOfPage, OfPage, EventBound, tabVars, pipeVars
<1>. QED
  BY <1>2, <1>3

\* What only the tab and its triggers see.
LEMMA TriggerStep ==
    ASSUME BannerInv, alive, DidStartNavigation \/ NavigationAborts \/ MediaChanges
    PROVE  BannerInv'
<1>1. /\ UNCHANGED <<page, loading, alive, zeroEngagement, banner_request_queued_, pipeVars,
                     data, idVars, infobar, install>>
      /\ navigating' \in BOOLEAN /\ load_finished_' \in BOOLEAN
      /\ observing' \in BOOLEAN /\ playing' \in BOOLEAN
  BY DEF DidStartNavigation, NavigationAborts, MediaChanges, BannerInv, PipelineConsistent,
         TypeOK, tabVars, triggerVars
<1>. QED
  BY <1>1 DEF BannerInv, PipelineConsistent, TypeOK, CanceledIsOver, DataOfPage, OfPage, EventBound,
              pipeVars, idVars

LEMMA InfobarStep ==
    ASSUME BannerInv, alive, InfoBarDismissed \/ Accept
    PROVE  BannerInv'
<1>1. /\ infobar' = NoInfobar
      /\ UNCHANGED <<tabVars, triggerVars, pipeVars, data, idVars>>
      /\ install' = install \/ install' = (infobar.weak \/ install)
  BY DEF InfoBarDismissed, Accept
<1>2. install' \in BOOLEAN /\ (install' => infobar.weak \/ install)
  <2>1. install \in BOOLEAN /\ infobar.weak \in BOOLEAN
    BY DEF BannerInv, PipelineConsistent, TypeOK
  <2>2. CASE infobar.weak \/ install
    BY <1>1, <2>1, <2>2
  <2>3. CASE ~(infobar.weak \/ install)
    BY <1>1, <2>1, <2>3
  <2>. QED
    BY <2>2, <2>3
<1>3. /\ infobar' \in [page : Pages \cup {NoPage}, id : -1..MaxRequestID, weak : BOOLEAN]
      /\ infobar'.page = NoPage /\ ~infobar'.weak
  BY <1>1, BannerAssumption DEF NoInfobar
<1>4. TypeOK'
  BY <1>1, <1>2, <1>3
  DEF BannerInv, PipelineConsistent, TypeOK, tabVars, triggerVars, pipeVars, idVars
<1>5. CanceledIsOver' /\ DataOfPage' /\ EventBound'
  BY <1>1, <1>2, <1>3
  DEF BannerInv, CanceledIsOver, DataOfPage, OfPage, EventBound, tabVars, pipeVars
<1>6. PipelineConsistent'
  BY <1>1, <1>3, <1>4, <1>5
  DEF BannerInv, PipelineConsistent, EventBound, tabVars, pipeVars, idVars
<1>. QED
  BY <1>1, <1>3, <1>5, <1>6 DEF BannerInv, tabVars, pipeVars

\* Nobody is told of an install by a run which has ended after a cancellation.
LEMMA BookmarkAppStep ==
    ASSUME BannerInv, alive, DidFinishCreatingBookmarkApp
    PROVE  BannerInv'
<1>1. install /\ UNCHANGED <<tabVars, triggerVars, data, idVars>>
  BY DEF DidFinishCreatingBookmarkApp
<1>2. CASE Stop(run)
  <2>1. RunInv(run) /\ run.reports <= 1 /\ (run.was_canceled_by_page_ => run.is_active_)
    BY <1>1 DEF BannerInv, CanceledIsOver
  <2>2. RunInv(Stopped(run)) /\ ~Stopped(run).is_active_ /\ Stopped(run).reports <= 1
    BY <2>1, StoppedRun
  <2>3. OfPage(data')
    BY <1>1 DEF BannerInv, PipelineConsistent, TypeOK, DataOfPage, OfPage
  <2>4. /\ alive' \in BOOLEAN /\ loading' \in BOOLEAN /\ load_finished_' \in BOOLEAN
        /\ banner_request_queued_' \in BOOLEAN /\ observing' \in BOOLEAN
        /\ UNCHANGED <<page, navigating, zeroEngagement, playing, idVars>>
    BY <1>1 DEF BannerInv, PipelineConsistent, TypeOK, tabVars, triggerVars
  <2>. QED
    BY <1>2, <2>2, <2>3, <2>4, StopPreserves
<1>3. CASE install' = FALSE /\ UNCHANGED <<pipeVars, infobar>>
  <2>1. TypeOK'
    <3>1. install' \in BOOLEAN
      BY <1>3
    <3>2. UNCHANGED <<tabVars, triggerVars, data, infobar>>
      BY <1>1, <1>3
    <3>3. UNCHANGED <<run, waiting, binding_, event_, event_request_id_, gCurrentRequestID>>
      BY <1>1, <1>3 DEF pipeVars, idVars
    <3>. QED
      BY <3>1, <3>2, <3>3
      DEF BannerInv, PipelineConsistent, TypeOK, tabVars, triggerVars
  <2>2. PipelineConsistent'
    BY <1>1, <1>3, <2>1 DEF BannerInv, PipelineConsistent, tabVars, pipeVars, idVars
  <2>. QED
    BY <1>1, <1>3, <2>2
    DEF BannerInv, CanceledIsOver, DataOfPage, OfPage, EventBound, tabVars, pipeVars
<1>. QED
  BY <1>2, <1>3 DEF DidFinishCreatingBookmarkApp

LEMMA OtherTabStep ==
    ASSUME BannerInv, alive, OtherTabRequests
    PROVE  BannerInv'
<1>1. /\ gCurrentRequestID' = gCurrentRequestID + 1 /\ gCurrentRequestID < MaxRequestID
      /\ UNCHANGED <<tabVars, triggerVars, pipeVars, data, event_request_id_, infobar, install>>
  BY DEF OtherTabRequests
<1>2. gCurrentRequestID' \in -1..MaxRequestID
  <2>1. gCurrentRequestID \in -1..MaxRequestID
    BY DEF BannerInv, PipelineConsistent, TypeOK
  <2>. QED
    BY <1>1, <2>1, BannerAssumption
<1>3. TypeOK'
  BY <1>1, <1>2
  DEF BannerInv, PipelineConsistent, TypeOK, tabVars, triggerVars, pipeVars
<1>4. CanceledIsOver' /\ DataOfPage' /\ EventBound'
  BY <1>1 DEF BannerInv, CanceledIsOver, DataOfPage, OfPage, EventBound, tabVars, pipeVars
<1>5. PipelineConsistent'
  BY <1>1, <1>3, <1>4 DEF BannerInv, PipelineConsistent, EventBound, tabVars, pipeVars
<1>. QED
  BY <1>1, <1>4, <1>5 DEF BannerInv, tabVars, pipeVars

LEMMA DestroyedStep ==
    ASSUME BannerInv, alive, WebContentsDestroyed
    PROVE  BannerInv'
<1>1. /\ alive' = FALSE /\ Stop(run)
      /\ UNCHANGED <<page, loading, navigating, zeroEngagement, triggerVars, data, idVars>>
  BY DEF WebContentsDestroyed
<1>2. RunInv(run) /\ run.reports <= 1
  BY DEF BannerInv
<1>3. RunInv(Stopped(run)) /\ ~Stopped(run).is_active_
  BY <1>2, StoppedRun
<1>4. OfPage(data')
  BY <1>1 DEF BannerInv, PipelineConsistent, TypeOK, DataOfPage, OfPage
<1>5. /\ alive' \in BOOLEAN /\ loading' \in BOOLEAN /\ load_finished_' \in BOOLEAN
      /\ banner_request_queued_' \in BOOLEAN /\ observing' \in BOOLEAN
      /\ UNCHANGED <<page, navigating, zeroEngagement, playing, idVars>>
  BY <1>1 DEF BannerInv, PipelineConsistent, TypeOK, triggerVars
<1>. QED
  BY <1>1, <1>3, <1>4, <1>5, StopPreserves

LEMMA NextBanner == BannerInv /\ [Next]_vars => BannerInv'
<1>. SUFFICES ASSUME BannerInv, [Next]_vars PROVE BannerInv'
  OBVIOUS
<1>1. CASE Next
  BY <1>1, DebugRequestStep, ManifestStep, InstallableStep, ReplyStep, DisplayStep,
     TriggerStep, FinishNavigationStep, FinishLoadStep, EngagementStep, InfobarStep,
     BookmarkAppStep, OtherTabStep, DestroyedStep DEF Next
<1>2. CASE UNCHANGED vars
  BY <1>2
  DEF BannerInv, PipelineConsistent, TypeOK, CanceledIsOver, DataOfPage, OfPage, EventBound,
      vars, tabVars, triggerVars, pipeVars, idVars
<1>. QED
  BY <1>1, <1>2

-----------------------------------------------------------------------------
(* Theorems *)

\* In every reachable state the run, the page, the callback expected, the event bound
\* and the infobar fit together as BannerInv says.
THEOREM BannerInvariant == Spec => []BannerInv
BY InitBanner, NextBanner, PTL DEF Spec

\* A callback of the pipeline is for the page displayed, whose url, manifest and icon are
\* there when the banner may be shown, a status is owed by active runs only, and an answer
\* or an install whose id is the last one finds the event bound.
THEOREM PipelineCorrect == Spec => []PipelineConsistent
<1>1. BannerInv => PipelineConsistent
  BY DEF BannerInv
<1>. QED
  BY <1>1, BannerInvariant, PTL

\* The banner is shown once in a run, over its own page, and never against the page's
\* cancellation unless the page itself has asked for it since.
THEOREM BannersWarranted == Spec => []BannerWarranted
<1>1. BannerInv => BannerWarranted
  BY DEF BannerInv, RunInv, RunType, Warranted, BannerWarranted
<1>. QED
  BY <1>1, BannerInvariant, PTL

\* A run which has ended has reported one status or was cut off, and no second status
\* is reported before the tab is destroyed.
THEOREM StatusReportedOnce == Spec => StatusOnce
<1>. DEFINE Once == run.page # NoPage /\ ~run.is_active_ /\ ~run.is_debug_mode_ =>
                        run.cut = (run.reports = 0)
            Step == run'.reports > run.reports => run'.reports = 1 \/ ~alive'
<1>1. BannerInv => Once
  BY DEF BannerInv, RunInv, Ended
<1>2. BannerInv /\ BannerInv' /\ [Next]_vars => [Step]_vars
  <2>. SUFFICES ASSUME BannerInv, BannerInv' PROVE Step
    OBVIOUS
  <2>1. run.reports \in 0..2 /\ run'.reports \in 0..2 /\ (alive' => run'.reports <= 1)
    BY DEF BannerInv, RunInv, RunType
  <2>. QED
    BY <2>1
<1>3. Spec => []Once
  <2>. HIDE DEF Once
  <2>. QED
    BY <1>1, BannerInvariant, PTL
<1>4. Spec => [][Step]_vars
  BY <1>2, BannerInvariant, PTL DEF Spec
<1>. QED
  BY <1>3, <1>4, PTL DEF StatusOnce
=================================================================================
