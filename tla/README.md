# A verification of Chromium's `browser/` layer in TLA+

The repository is one directory of Chromium, `src/browser/` (418 files): the part of
the browser process that belongs to Chrome and not to its content layer.  It is a set of
components that share two threads and a profile and little else.  Most of it is tables,
factories and glue.  This directory models the components that keep state across
asynchronous steps: their handlers, timers, posted tasks, shared files and other
processes.

Contents:

1. [Inventory](#1-inventory): the components, their state, operations and hazards
2. [Plan](#2-plan): the modules, in order
3. [Modules](#3-modules): how state and actions correspond to the code
4. [Runs](#4-runs): what is model-checked, with which bounds
5. [Fairness](#5-fairness)
6. [Proofs](#6-proofs)
7. [Findings](#7-findings)
8. [Limits](#8-limits): what is only checked, what is not modelled

Every module names the code it stands for in its header; `PROJECT.json` maps each
definition to its source lines.

## 1. Inventory

All paths are below `src/browser/`.  "UI" and "IO" are the browser's threads.

### 1.1 Modelled

| Component | State | Operations | Interacts with |
|---|---|---|---|
| Captive portal service (`captive_portal/captive_portal_service.*`) | state, enabled, last result and how often in a row, time of the last check, `net::BackoffEntry`, timer, detector | `DetectCaptivePortal`, timer task, `OnPortalDetectionCompleted`, `UpdateEnabledState` | preference, `CaptivePortalDetector`; notifies every tab |
| Captive portal tabs (`captive_portal_tab_helper.*`, `..._tab_reloader.*`, `..._login_detector.*`) | per tab: followed navigation, provisional load, reloader state, posted reload tasks, interstitial, login flags | navigation callbacks, certificate error, slow-load timer, posted reload, service notification, opening a login tab | asks the service; looks through the tabs of its window |
| Process singleton, POSIX (`process_singleton_posix.cc`, `process_singleton.h`, `chrome_process_singleton.*`) | on disk: `SingletonLock`, `SingletonSocket`, `SingletonCookie`; per process: where it is in `NotifyOtherProcessOrCreate`, retries, peer | connect, parse, unlink, send, await, kill, create, serve, clean up | other Chrome processes on the same profile, and on other hosts |
| Singleton watcher (same file, `process_singleton_startup_lock.*`, `process_singleton_modal_dialog_lock.*`) | descriptors, `SocketReader`s with timer and watch, tasks posted to UI and IO, saved command lines, dialog | accept, read, time out, `HandleMessage`, `FinishWithACK`, `Unlock` | both threads; the clients above |
| Pepper Flash settings (`pepper_flash_settings_manager.*`) | manager: current core, next id; core: state, queued and sent requests, channel; tasks on both threads | requests, initialize, connect, send, results, channel error, detach, destroy | UI, IO, plugin broker process, the client's callbacks |
| Budget service (`budget_service/budget_manager.cc`, `budget_database.cc`) | cache of chunks per origin, LevelDB, reservations, tasks and replies | get, reserve, consume, spend; load, award, clean up, write | the database's task runner, engagement scores |
| Cloud policy invalidator (`policy/cloud/cloud_policy_invalidator.*`) | registered object, pending invalidation and version, delayed refresh | start, stop, invalidate, refresh, store loaded, shutdown | core, store and scheduler; the invalidation service |
| Remote commands invalidator (`policy/cloud/remote_commands_invalidator*`) | shut down, stopped, started; registered object | initialize, start, stop, reload policy data, shutdown | the same core and service |
| User policy sign-in (`policy/cloud/user_policy_signin_service*`) | account, token, registration helper, posted shutdown | sign-in, sign-out, register, fetch, shutdown | connects and disconnects the core that both invalidators observe |
| File select helper (`file_select_helper.cc`, `file_select_helper_mac.mm`) | references to itself, frame and page served, dialog, listing, temporary files | choose, types on the file thread, verdict, selection, listing, packaging | frame, page, dialog, download protection |
| Bitmap fetcher service (`bitmap_fetcher/`) | requests, one fetcher for each url, cache of 5 | request, cancel, prefetch, complete | `URLFetcher`, the image decoder |
| Image decoder (`image_decoder.*`) | counter, map of the decodes to their requests | start, cancel, result | its clients on any thread, the decoding process |
| App banner manager (`banners/app_banner_manager.*`, `app_banner_manager_desktop.cc`) | active flag, stage, data of the page, binding, event, queued engagement, status to log | request, manifest, installability, reply, display request, stop | navigations, engagement, InstallableManager, page, infobar |

What is hard, and what correct means:

- **Captive portal service.** A preference may change, and observers may ask again, at any
  point of a check; Retry-After and exponential backoff compete for one release time.
  Correct: every request is answered once, state, timer and probe agree, an earned delay
  is never lost.
- **Captive portal tabs.** Navigations overlap and are reported late; one result reaches
  many tabs in one notification; the reload is posted.  Correct: no tab waits for a check
  nobody makes, none is owed a reload that nobody does, none is reloaded without a
  reason, one login tab per window.
- **Process singleton.** Processes interleave at system calls on three links; they crash,
  hang and are killed; links lead to nobody or to another host.  Correct: one browser per
  profile, a start that quits has had its request accepted, every start decides, a crash
  never locks a profile for good.
- **Singleton watcher.** Two threads share raw reader pointers; descriptors are reused;
  requests are acknowledged before they are carried out.  Correct: no task meets a deleted
  reader, descriptors are owned, nothing acknowledged is forgotten.
- **Pepper Flash settings.** A failure, a reply and a new request pass each other between
  the threads; the client may call or delete the manager from an answer.  Correct: every
  request is answered exactly once, in order, never after the manager is gone, and a core
  lives as long as anything uses it.
- **Budget service.** Loads, awards, spends and writes of one origin interleave on two
  threads; a write fails after the cache has changed; a restart loses what was not
  written.  Correct: nothing is performed that was not paid for out of what was earned,
  and cache and database do not part in the origin's favour.
- **Policy.** Invalidations come late, twice and without a version, a policy may have been
  fetched before the change it seems to answer, and sign-out, shutdown, token and store
  come in any order.  Correct: invalidators follow the core, no change is acknowledged
  that is neither stored nor pending, a pending one is settled.
- **File select helper.** It holds a reference to itself through threads, dialog and
  listing while its frame and page may go.  Correct: it lives exactly as long as
  anything calls it, answers a frame that is there, and takes its files along.
- **Bitmap fetcher service and image decoder.** Several requests share a fetch; requests
  are destroyed while their image is decoded, and others take their memory.  Correct: a
  result reaches only what it was started for, and every request ends.
- **App banner manager.** A navigation comes between any two steps, the page's wish to
  display the banner before or after its refusal, an install ends pages later.  Correct:
  the pipeline's callbacks come while its page is there, the banner is made of that page's
  data, none is shown against the page's wish, one status.

### 1.2 Without a module so far

| Component | State | Operations | What is hard | Correct when |
|---|---|---|---|---|
| Intranet redirect detector (`intranet_redirect_detector.*`) | fetches, origins, result, preference, sleep | wake up, fetch complete, network change | three answers in any order; a round cut off by the next | the result does not depend on the order, and is what is stored |
| After-startup tasks (`after_startup_task_utils.*`) | flag, queued tasks, observer | post, set complete, load, timer, tab closed | the flag is set while a task travels to the UI thread | every task is run once, none before start-up completes |
| Upgrade detector (`upgrade_detector*`) | detected version, stage, critical flags, timers | check, detected, notify, idle check | results of an outdated check; stages fall back | the stage rises only, until another upgrade is found |
| Internal authentication (`internal_auth.*`) | keys, used ticks, dark tick | generate, change key, verify | pruning; the window of an old key | a credential is accepted once, and only in its window |
| Quota permission (`chrome_quota_permission_context.cc`) | one callback | accept, deny, dismiss, destroy | answered and then destroyed | the callback runs once |
| Shutdown (`browser_process_impl.*`, `browser_shutdown.*`) | shutdown type, rundown counter | start, end session, wait, late task | bounded wait against posted writes | writes that were awaited have happened, unless it timed out |
| Icon manager, preferences service, process resource usage | caches and flags | load, set, refresh | re-entrant callbacks, errors in the middle | every caller is told once |

They are small, and each is a question of its own that would need a run of its own; the
runs go to the components above, where more depends on the order of steps.

### 1.3 Left out

Listed one by one, with the reason, in `PROJECT.json`: the Windows singleton (the
kernel's mutex), preference stores and registrations, policy handlers, factories and path
parsers, the policy test server, the main parts and the IO thread (straight-line set-up),
the content browser client (stateless answers), flag tables, shell and desktop
integration, the Mac application, memory and site details, the certificate manager model,
small single-threaded classes that unit tests enumerate, banner display and settings,
platform utilities.  Browser tests, resources and build files are not components.

### 1.4 Hazards

`PROJECT.json` lists the main hazards of the modelled components at their lines, each with
the properties that would catch it; two have none, `banners/app_banner_manager.cc:416` and
`policy/cloud/cloud_policy_invalidator.cc:125`, see section 7.  Of the components without a
module, section 1.2 says what is hard; at these lines it bites:

- `after_startup_task_utils.cc:85` a task from another thread reads the flag before start-up
  completes and is queued after; `:127` load, closed tab and timer each end the observation
- `intranet_redirect_detector.cc:132` three fetches in any order; `:70` a round cut off by the
  next
- `internal_auth.cc:235` used ticks are pruned and the key changes while credentials are valid
- `upgrade_detector_impl.cc:365` results of an outdated check
- `chrome_quota_permission_context.cc:195` answered, then destroyed
- `browser_process_impl.cc:516` a bounded wait against a late task
- `icon_manager.cc:77`, `prefs/preferences_service.cc:45`, `process_resource_usage.cc:48`
  callbacks and errors in the middle of an update

Two lines of modelled components are outside their models: `process_singleton_posix.cc:633`
(requests longer than the buffer) and `file_select_helper.cc:571` (a platform without dialogs,
where the helper would neither answer nor go).

## 2. Plan

| # | Module | Composes or refines | Properties aimed at | Checked | Proof |
|---|---|---|---|---|---|
| 1 | `CaptivePortalService` | refines `CaptivePortalCheck` | agreement, throttling, answers | yes | done |
| 2 | `CaptivePortal` | composes `CaptivePortalCheck` with the tabs | doubt answered, reloads due, loads tracked, login tab | yes | done |
| 3 | `ProcessSingleton` | - | mutual exclusion, service, decision | yes | done |
| 4 | `SingletonWatcher` | details `NotificationCallback` of 3 | readers, descriptors, acknowledged requests | yes | done |
| 5 | `PepperFlashSettings` | - | answered once, nothing lost, order, references | yes | done |
| 6 | `BudgetService` | refines `BudgetLedger` | ledger, cache against database | yes | done |
| 7 | `UserPolicySignin` | composes `CloudPolicyInvalidator`, `RemoteCommandsInvalidator` over `PolicyCore` | consistency, no change forgotten, settled | yes | done |
| 8 | `FileSelectHelper` | - | references, answers, files | yes | done |
| 9 | `BitmapFetcherService` | uses `ImageDecoder` | one fetcher, right images, requests end | yes | done |
| 10 | `AppBannerManager` | - | one page, the page's wish, one status | yes | done |
| 11 | section 1.2 | - | | | |

The abstract specifications are those clients rely on: `CaptivePortalCheck`, and
`BudgetLedger` (operations paid for and performed, no cache, no database).

Every safety property of every run is a theorem (section 6); liveness stays with TLC.  Theorems
next: what the operators of the models promise on their own, beyond the lemmas that the
invariants needed (the order in which `NotifyError` fails requests, the eviction order of the
image cache, how much a covered spend leaves of each chunk).  Runs stay few: one per module for
safety and liveness together, another only for a different question.

Conventions: clocks are countdowns relative to now, so that time needs no bound; things
that are interchangeable are numbered in their order of appearance where liveness is
checked, and permuted by SYMMETRY where only safety is; bounds on the environment are
constants named `Max...` and marked "bound"; faulty variants, the operators named
`X_Fault`, stand beside the definition they vary and are used by no specification.

## 3. Modules

### `CaptivePortalCheck`, the promise of the captive portal service

Requests made while a check is outstanding share it; it is answered once; an answer
carries the previous one; a disabled service answers INTERNET_CONNECTED.  It is what
`captive_portal_service.h` says to clients, and the composition with tabs uses nothing
else.

### `CaptivePortalService`, `captive_portal_service.cc`

State: `state`, `enabled`, `lastResult`, `previousResult`, `numChecks`, `backoff` (failures,
initial delay and release time of the `BackoffEntry`), `timer`, `detecting`.  Times are
distances from now; `Tick` moves all of them.  `net::BackoffEntry` is external and modelled
from the policy this code gives it: jitter is a nondeterministic choice within its range.

| Action | Code |
|---|---|
| `DetectCaptivePortal` | the call: idle only, starts the timer for the backoff's remaining time |
| `StartProbe`, `ClaimConnected` | the timer task, enabled or not |
| `OnPortalDetectionCompleted` | the probe's result with its Retry-After, a new one (`NewResult`) or the same (`SameResult`), then `OnResult` |
| `UpdateEnabledState` | the preference: reset, and a pending check restarted |
| `Tick` | time |

### `CaptivePortal`, helper, reloader and login detector of each tab

Extends `CaptivePortalCheck`.  `tabs[t]` is one record per tab with the fields of the three
classes; `navigations[t][h]` are content's navigation handles (external).  The reloader's
handlers are functions from tab to tab, as they are synchronous and called in a fixed
order; an action is one callback with all of them.  The slow-load timer runs exactly in
`TIMER_RUNNING`, so it needs no variable.  A notification is one step to begin with,
`NotifyResult`, and one for each tab, `TellTab`, in any order: `informing` holds the tabs not
told yet, and nothing else runs on the thread until it is empty.  Each tab found broken
looks through the window as the tabs told before have left it
(`OpenLoginTabForWebContents`) and opens a login tab if it finds none.  A tab opened in this
way is not told; being behind a portal would mean nothing to it.

### `ProcessSingleton`, `process_singleton_posix.cc`

`pc[p]` is where a process is in `NotifyOtherProcessWithTimeoutOrCreate`, `Create` and its
later life; a step is one system call another process can see, with the decision taken on its
outcome.  Reading the lock and removing it are therefore different steps, as are `unlink` and
`kill`, the three links of `Create`, and the two links removed one after the other at the
beginning of `Create` and at the end.  A lock of another host that carries the process id of
a Chrome here leads to the retry, or is taken for the process itself; any other asks the
person (`DisplayProfileInUseError`, places `Asking`).  `round` is 2 after `Create` failed,
when `kill_unresponsive` is false.  An uninitialised `pid` (section 7) is any process.
`NotificationCallback` summarises `SingletonWatcher` for one request: a request stays in the
socket when its client gives up, and may be served afterwards.

`displaced`, `served` and `troubled` are history variables for the properties: whose lock
was taken away, whose request was accepted, and whether anything but ordinary starts and
ends happened.  `troubled` begins TRUE when the profile is found locked.

### `SingletonWatcher`, the serving side

An action is one task of one thread.  `socket[f]` is the connection open on descriptor
`f`, and `fd[c]` the number a reader remembers, which are different things once a
descriptor was closed behind the reader's back.  `uiTasks` and `ioTasks` are the posted
`HandleMessage` and `RemoveSocketReader`, first in, first out.  `Notify` is the chain of
callbacks that the main parts set up: the modal dialog lock around the startup lock around
`ProcessSingletonNotificationCallback`.

### `PepperFlashSettings`

`ui` and `io` are the queues of the two threads, each first in, first out, as message
loops are; `core` is `core_`; per core `state`, `queued` (`pending_requests_`) and `unreplied`
(`pending_responses_`).  The broker gets `sent` in order and replies in any order, or its
channel breaks.  `NotifyError` is one turn of the loop over failed requests, because the
client's callback runs in between and may make requests or delete the manager.  References
to a core are not counted: `Referenced` says who holds one.

### `BudgetLedger` and `BudgetService`

The ledger has three numbers of one origin: hours passed, operations paid for, operations
performed.  `BudgetService` has the cache (`budget_map_`), what is stored, the tasks of the
database's runner and the replies on their way back, and `reservations`.  A task carries what
is to follow it (`next`): award, clean up, spend, write.  One origin suffices, since origins
share only the order of the runner.  `Restart` loses everything but the database.  Budgets
are integers, time is counted in hours; rounding and predictions are left out.  The loops
over chunks are written with their sums: a spend erases the chunks before the first whose sum
exceeds the bill.

### `PolicyCore`, `CloudPolicyInvalidator`, `RemoteCommandsInvalidator`, `UserPolicySignin`

`PolicyCore` is what surrounds the three: core, store, scheduler, server and invalidation
service, all external.  A policy is the number of its content, and the invalidation of a
change bears that number.  The handlers of the invalidators are functions of their state,
`inv` and `rc`, as they call each other; `UserPolicySignin` has the actions, and what it does
to core and store reaches both invalidators in the same step.  `excused` is history: what
was acknowledged with no fetch to follow, of two kinds (section 7).  One is what
`IsInvalidationExpired` let go, with the pending invalidation that goes with it; the other,
invalidations without a version that arrived beside a newer one that is not fetched for.

### `FileSelectHelper`

One helper and one request.  `at` is where its next callback comes from: tasks, which hold
references, or dialog, lister and packaging task, which do not.  `selfRef` is the balance of
`AddRef` and `Release`.  `build` is the platform, `desktop`, `mac` or `chromeos`, since
packaging exists only on Mac and conversion only on Chrome OS.  `Over` is the end, with a
place of its own, `noView`, for the end because the page has no native view
(`RunFileChooserOnUIThread`): there the frame is not answered.

### `ImageDecoder` and `BitmapFetcherService`

The decoder is its map from ids to addresses and what is being decoded for each id.  A
fetcher is an address too, and so is another client's request; an address is free again
when its object is gone, so that a result for a destroyed request could reach a new one.
An image is known by the url it was fetched from.  `observers` records what every observer
was told.  Requests end in one step with everything `OnFetchComplete` does: observers,
cache, removal of the fetcher, cancellation of its decodes.

### `AppBannerManager`

`run` holds the flags of the code and, as history, the page a run is for, how many statuses
it reported, whether the page refused, asked and was shown a banner.  `waiting` is the
callback bound to a valid weak pointer; `StopPipeline` invalidates them all.  `data` says of
which page url, manifest and icon are; a navigation resets the first two and keeps the
icon.  A navigation starts, and commits or aborts later;
infobars go with their page.  Callers ask for the page displayed, so that the branch for
an active run of another url (`:73-76`) is left out; the objects that install an app are
represented by their callback.

## 4. Runs

| Run | Question | Bounds | Result |
|---|---|---|---|
| `captive_portal_service` | agreement, throttling, refinement, answers | delays 3, 1, at most 5; one ignored error; jitter 0.3; Retry-After 0 or 2; 4 checks; 2 preference changes | 1 068 states |
| `captive_portal_tabs` | tabs against service, login tab, reloads | 3 interchangeable tabs, 1 SSL navigation each, 1 posted reload, no certificate errors | 1 823 636 states |
| `captive_portal_navigations` | overlapping navigations, tabs settle | 1 tab, 2 navigations, 2 posted reloads, certificate errors | 33 084 states |
| `process_singleton` | who gets the profile, who quits, who decides | 2 processes, free, stale and foreign lock, 2 retries, 1 mishap | 55 433 states |
| `singleton_watcher` | readers, descriptors, acknowledged requests | 3 connections, 2 descriptors, 2 requests | 213 132 states |
| `pepper_flash_settings` | once, in order, never after | 4 requests, so up to 4 cores | 107 060 states |
| `budget_service` | ledger, order of chunks, cache against database | 1 origin, 1 day of 2 hours, 5 hours, 3 operations in flight, cost 2, 0 or 1 an hour | 424 982 states |
| `user_policy` | consistency, no change forgotten, settled | 2 policies published after the cached one; contents 0 and 1 share an object, 2 has another | 391 250 states |
| `file_select` | references, answers, files | 1 request of each kind, all platforms | 338 states |
| `bitmap_fetcher` | one fetcher, right images, requests end | 2 urls, 2 addresses, 3 requests, 3 decodes; limit 1, cache 1 | 411 992 states |
| `app_banner` | one page, the page's wish, one status | 3 pages, 3 prompt requests of all tabs | 210 968 states |
| `process_singleton_stale_lock` | section 7 | 2 processes | a counterexample |

Why these are enough:

- *Service.* Four equal results pass through the ignored failure, the first doubling and the
  maximum (3, then 5 instead of 6; behind a portal 1, 2, 4); Retry-After 2 is below and above
  what backoff earns; two changes disable and enable again.  `ElapsedCap` 6 exceeds the longest
  delay, so that not telling larger times apart hides nothing.
- *Tabs.* Three slots are the least for one result to find two tabs broken with room for a
  login tab: the first opens it in the third slot, and the second has to find it there.  A
  second one opened in the same notification would need a fourth slot, which is left to the
  proof; opened by a later result it has room once another tab has closed.  Loads without SSL leave a
  reloader in NONE, where it does nothing, and are in the other run, as are certificate
  errors.  One tab with two handles is the least for overlap and for a navigation committed
  but not reported.  Safety holds for any number of both by proof.
- *Singleton.* Two starts meet in every pair of places; a third one would matter for what is
  proved for any number of processes (section 6).  `RetryAttempts` 2 (20 in the code) still has
  a first, a middle and a last retry.  One mishap puts one crash or failed `Create` anywhere; a
  stale lock needs none.
- *Watcher.* Two descriptors for three connections force one to be used again; two
  requests give equal ones, for the de-duplication in `Unlock`, and different ones.
- *Pepper.* Two requests behind the failing one, and one that starts a new core while the
  old one's failure travels, is four.
- *Budget.* A day of two hours still has an award that lapses while another lives, and five
  hours pass a whole duration twice.  Three operations in flight are two loads with a
  spend between them.
- *Policy.* Two changes are one that replaces another while it is pending; with two
  objects one of them is a change of registration.
- *Bitmaps.* Two requests in flight (the limit admits one more than it says) make the third
  fail; with one entry the cache evicts; two addresses are the least for one to be free
  and one used again, and two of three decodes may be one object's.
- *Banner.* The third page is the least on which something of the first may turn up after
  the second; prompt requests of this tab and of another pass each other.

Where CHECK_DEADLOCK is FALSE the system stops for good in states that are meant to be
ends: every process has been started once and is gone, every connection has been dealt
with, every request was made and the manager is gone, or the profile or tab is gone.

Each property has a faulty variant of a modelled definition that violates it under the
same configuration; they are listed as mutants in `PROJECT.json`.

## 5. Fairness

Only what runs the code is fair; what a person or another process decides is not.

- *Service*: time passes, an expired timer runs its task, a probe not cancelled is
  answered (the detector's URL fetcher always calls back).  Preference changes are not fair,
  and bounded, or a check could be restarted for ever.
- *Tabs*: the service answers what was asked (this is `EveryRequestAnswered` of the module
  that implements it), a notification goes on to the next tab, posted tasks run, what has
  committed is reported, and a navigation ends unless it is under an interstitial.  There a
  person decides, if ever: `TabsSettle` leaves out a tab owed a reload while this lasts
  (`HeldByPerson`).  Commits, certificate errors, slow loads and the end of an interstitial
  are not fair.
- *Singleton*: the steps of a start.  Each ends by itself: a call that returns, or a wait
  with a time out (`ReadFromSocket`).  The dialog about a profile in use on another host is
  not one of them; it waits for a person and is not fair, and `EveryStartDecides` counts being
  asked as one of the outcomes, after which the start has to decide again.  Browsers get no
  fairness at all: they may hang at any point, and a start must decide all the same.
- *Watcher*: both threads run their tasks, timers fire, the browser comes up.  A client
  need not send anything.
- *Pepper*: both threads run their queues, opening a channel calls back, and a broker that
  owes a reply sends one or dies.
- *Policy*: the refresh task, a posted shutdown and a scheduled fetch run; of fetches
  repeated for ever, not every one fails (strong fairness).  Nothing that the user, the
  administrator or the invalidation service does is fair.
- *File select*: tasks run and the lister ends.  The dialog may stay open for good, which
  `HelperGoes` leaves out; frame and page need not go.
- *Bitmaps*: a `URLFetcher` reports in the end, and so does a decode, with an empty image
  when its process dies.  `BudgetService` and `AppBannerManager` claim no liveness.

## 6. Proofs

The theorems hold for every value of the constants that satisfies the ASSUMEs.

**`CaptivePortal_proofs`**, first part, the service: `Consistency` (types, busy state and
backoff), `Throttling`, `Refinement`. Assumed: delays are naturals, jitter lies in 0..1, at
least one check.  The invariant `ServiceInv` is `ServiceTypeOK`, `BusyConsistent`,
`BackoffMatchesHistory` and `RoomForCheck`: types alone are not inductive, since `numChecks`
stays within its bound only because a check begins below it and nothing counts until it ends.
The refinement maps a pending check to "timer or probe"; its step lemma needs
`BusyConsistent` for two facts: what is answered was pending, and a disabled service has no
probe in flight whose result could be anything.  For `Throttling`, `ThrottleInv` adds
`DelayKept`: the time passed since the last probe and the time still to wait come to at least
the delay earned, for the backoff entry and for a timer started from it.  Of the powers of
two it needs only that they are integers, so that any growth would do.

**`CaptivePortal_proofs`**, second part, the tabs: `TabsFollow`, `ReloadIsDue`,
`LoadsFollowed`, `LoginTabIsUnique`, `ReloadsAreWarranted`, for any number of tabs and
navigations.  `PortalInv` is an invariant of each tab (`TabInv`), given its navigations,
whether it will be told a result (`Waiting`) and the last it was told (`LastTold`), and the
uniqueness of the login tab, at each point of a notification.  The parts need each other: a
committed load leaves a tab in doubt only if it was timed, it was timed only while it was
followed, and a closed slot follows nothing.  One lemma per handler says what it makes of a
tab; `OneTab` lifts a step on one tab to all.

**`ProcessSingleton_proofs`**, both sides of the singleton: the watcher first, then the
processes.

The watcher, for any number of connections, descriptors and requests: `ReadersOutliveTasks`,
`OwnDescriptors`, `AcknowledgedKept`, `ReplayedOnce`.  `WatcherInv` is `WatcherTypeOK`,
`TasksInv` (each reader has at most one task posted, on one of the threads, and no timer
then), `DescriptorsInv` (until a read fails, open descriptors and readers belong to each
other) and `AcknowledgedIsKept`.  A reader is deleted by its timer or by its one task, which
is why no task outlives it.  `ReplayedOnce` is about `Replay` alone: what `Unlock` opens is
injective, is everything saved, and is in order of first arrival, for lists of any length.

The processes: `TypeCorrect`, `Sharing`, `MutualExclusion`, `NotifiedServed`, `ServedOnce`,
`GentleSecondRound`, `UntroubledSafety` (all that holds while nothing goes wrong), for any
number of processes, retries and mishaps. `SingletonInv` is the conjunction of
- `TypeOK`;
- `ClientInv`: a client that sends or waits knows its peer, and whoever has or had an
  acknowledgement was served;
- `LockKept`: whoever passed `symlink` and was not displaced still has the lock.  Two
  undisplaced owners would be the same lock, which is `SharersAreDisplaced`;
- `Calm`: while nothing went wrong, nobody kills or removes a lock but its own, the lock is
  free or held, links are free when they are made, peers listen, and every request in a
  socket is one its client waits for.  Mutual exclusion needs all of it, because what makes a
  start kill or take over is always an answer that did not come.  Each of
  the two links is known to be free from its own `unlink` until it is made.

`MutualExclusion` is conditional on purpose.  Without the condition it is false (section 7).

**`FileSelectHelper_proofs`**: `KeptAlive`, `Answered`, for every platform and with or
without the check of downloads.  Assumed: platforms are those of the module.  `HelperInv`
adds to the two invariants that while a callback is due nothing was answered and nothing
waits for deletion (else a second release or answer would be possible), that only the page's
own end takes frame or page from a pending chooser, which a page without a view ends
unanswered, and that packaging happens on the Mac alone, so that no conversion follows with
files left over.

**`PepperFlashSettings_proofs`**: `AnsweredAtMostOnce`, `NoRequestLost`, `DetachedIsLast`,
`RequestsInOrder`, `NoAnswerAfterwards`, for any number of requests and cores.  `FlashInv` is
`TypeOK` with five parts: `IoInv` and `UiInv` (what may be on its way to each thread, in
which order, given the state of its core), `PlacesInv` (a request the IO thread has taken is
in one place only: held by one core, in one posted answer, or answered), `OrderInv` and
`CoreInv` (a core that failed holds nothing, and is the manager's until its detachment is
posted).  Losing nothing and answering once are one argument: every step moves a request from
one place to the next.

**`AppBannerManager_proofs`**: `PipelineCorrect`, `BannersWarranted`, `StatusReportedOnce`,
for any number of pages and prompt requests.  `BannerInv` adds to `PipelineConsistent` what a
run may be in each stage, that a run cancelled by its page is over, that url and manifest
are of the page displayed or gone, whatever page the icon is of, and that whoever may still
call back about an install finds the event bound.

**`UserPolicySignin_proofs`**: `ServicesAgree`, `ChangesKept`, for any number of policies and
of policies for each invalidation object, named or not.  `PolicyInv` is `TypeOK`, `CoreInv`,
`SentInv` (a change is announced once, for the object of the policy before it),
`InvalidatorInv`, `FollowsCore`, `DebtInv`, `RemoteInv` and `SigninInv`.  `DebtInv` is what
`NoChangeForgotten` lacks to be inductive: an announced change not yet fetched is stored
already, or is one of the registered object while an invalidation is pending under a version
that only a fetch bringing all of them can settle.  An invalidation without a version is
covered by the newest one of its batch if that one is fetched for (`Pends`), and is excused
otherwise: `ChangesKept` does not promise that no change is lost (section 7).  Assumed:
contents per object are positive, so that the policies of an object are an interval, and
`NoInvalidation` is no invalidation.

**`BitmapFetcherService_proofs`**: `RequestsStayAttached`, `ImagesReachTheirs`, for any urls,
addresses and limits.  `FetcherServiceInv` is `ObserversInv`, `CacheInv`, `FetchersInv`,
`DecodesInv` and `RequestsInv`.  An address may be used again, so that the images are right
only because every id in the decoder's map belongs to an object that exists, and to the
decode of its own image. Assumed: no url is the name of an outcome.

**`BudgetService_proofs`**: `InOrder`, `CacheMatches`, `LedgerKept`, `ExactSpend`, for any
costs, durations, engagement and number of operations in flight.  `BudgetInv` has
- `Core`, of four parts: `CoreSound` (entries are in order and capped, in the cache, in the
  database and in every task), `CoreFollows` (no live chunk of the cache is larger than in
  the database or in any write still queued), `CoreKept` (until a write fails, it is as large
  as in the last write queued, or in the database if none is) and `CoreBacked` (what is left
  and what was stored as spent do not exceed what the most engagement earns until the last
  award, also with the writes still to come);
- `RepliesMatch`: while nothing is cached, replies bring only what is stored, so that of two
  loads the first decides;
- `reservations + consumed <= paid`.

The refinement follows: a spend is reported after it was stored, and what is stored is
backed. `ExactSpend` is the DCHECK of `SpendBudgetAfterSync`.  Assumed: `HourlyBudgets` has a
maximum, and `NotCached` is no entry.  `Sums` is a recursive function; that the recursion
defines one, and what its values are, is `SumsDef`.

Where an argument needs induction over the length of a list (`Replay`, `Sums`, the newest of
some policies), the proof takes the least counterexample, which exists because < is
well-founded on the naturals (`Smallest`), and refutes it.

## 7. Findings

One disagreement between the code and what the repository says of it has a run that shows
it: `process_singleton_stale_lock` (code).  Two starts that read the same stale lock can both
become the browser.  The lock is judged by its content and removed by its name; in between,
the other start has removed it and made its own.

Others were met while modelling.  The models have the code's behaviour, and where a
property would fail for it, the property says so:

- `process_singleton_posix.cc`: a start that loses the race for the lock to a browser that then
  shuts down ends with LOCK_ERROR, neither having notified nor grabbed.
  `KillProcessByLockPath` does not look at the result of `ParseLockPath`; if the lock is gone
  by then, `pid` was never assigned, and is killed if positive (any process in the model).
- Same file: a reader whose `read()` fails closes its descriptor and stays until its timer
  fires, when its destructor closes the number again, which may be another reader's by then.
  `DescriptorsOwned` and `AcknowledgedIsKept` are stated for executions in which no read
  failed.
- `captive_portal_tab_reloader.h`: a load start and an abort are said to reset the reloader
  "unless this is a login tab", which the reloader does not know; the list of what ends
  STATE_BROKEN_BY_PORTAL leaves out a redirect.
- `cloud_policy_invalidator.cc` acknowledges an announced change and loses it in two ways;
  `NoChangeForgotten` leaves both out (`excused`) and covers the rest.  First, at `:209`, an
  invalidation without a version that comes within 30 seconds of a fetch replaces the pending
  one before it is found to be expired and ignored; the pending one, acknowledged in the
  process, is fetched by nobody.  Second, at `:121-127`, of several invalidations that arrive
  together all but the newest are acknowledged, and one without a version counts as the
  oldest.  Change 1 is pending and its fetch under way; 1 arrives again with change 2, which
  has no version.  1 is ignored as known (`:193-197`), 2 was acknowledged, the fetch brings
  the policy of change 1, and 2 is lost until the next scheduled refresh.
- `app_banner_manager.cc:307`: `Stop` keeps `was_canceled_by_page_`.  When a page refused the
  banner and was navigated away from, `Stop` has logged RENDERER_CANCELLED; closing the tab
  calls `Stop` again and logs it a second time, against the assertion in `ReportStatus` that
  "we haven't yet logged a status code for this page" (`:292`).  `StatusOnce` speaks of the
  tab's lifetime.
- `app_banner_manager.cc:416`: a banner request queued while a page loads survives a
  navigation, although `app_banner_manager.h:39` says that navigation "discards any work in
  progress"; the next page to finish loading gets the pipeline, whatever its engagement.  A
  navigation that never commits, such as a download, is enough to have engagement queued.
- `app_banner_manager_desktop.cc:38`: an install may end after a navigation.  It then reports
  acceptance with the current `event_request_id()`, which may be another page's event, asks for
  the identifier of a manifest that was reset, or stops the new page's pipeline.
- `app_banner_manager.h:161` "Resets all fetched data for the current page":
  `ResetCurrentPageData` (`app_banner_manager.cc:299-305`) keeps `primary_icon_` and its url.
  Nothing uses them before the next installability check has replaced them.
- `file_select_helper.cc:432` "will keep itself alive until it sends the result message", again
  at `:444`: a page without a native view when the dialog is due ends the helper with no
  message to a frame that may be there (`:561-566`), and so does an error in
  `EnumerateDirectory` (`:276-279`).  `ChooserAnswered` excepts the first and is not about the
  second.  The answer of an enumeration goes through a raw host (`:287`) that may be gone.
- `bitmap_fetcher_service.h:53-57`: a request refused for the limit is said to call its
  observer; it is deleted uncalled, and `requests_.size() > kMaxRequests` admits one more than
  the limit.
- `intranet_redirect_detector.cc:150-166` (not modelled): when the first two origins agree the
  result is not stored, and when the first and the third agree it is cleared again, against
  "any two fetches" of the comment at `:131`.

## 8. Limits

Only model-checked is liveness (`EveryRequestAnswered` twice, `TabsSettle`,
`EveryStartDecides`, `LoneStartTakesOver`, `EveryReaderGoes`, `InvalidationsSettle`,
`HelperGoes`, `RequestsEnd`): temporal proofs under fairness are out of reach of the
installed provers.

Abstracted or left out in the modelled parts:

- *Service*: histograms, the switches for tests, and the deferral to the native detection
  on Windows 8 and later, where the service is always disabled.
- *Tabs*: one window, since login tabs are sought per window and tabs of other windows are
  further tabs to the service; entries with POST data, which are not reloaded; the login
  tab opened by a blocking page.
- *Singleton*: sockets and locks from before the links, process ids used again, the upgrade
  of locks on Mac, the contents of messages, the user's dialog (a free choice).
- *Watcher*: partial reads and messages longer than the buffer.
- *Pepper*: the six kinds of request are one; the removal of an old file on Chrome OS.
- *Budget*: rounding of doubles, predictions, origins that are not secure, a clock set back.
  The cap in `AddEngagementBudget` never applies, since cleanup removes what would reach it.
- *Policy*: delays are abstract, metrics are left out, and the Android and Chrome OS
  services are not modelled.
- *File select*: file names, types and listings; dialogs exist on the platform, a profile
  outlives its pages, and the host of an enumeration is never null, as each tab has one
  (`file_select_helper.cc:274` returns early if it is).
- *Bitmaps*: observers that call the service from their callback, which would change the list
  being walked (`bitmap_fetcher_service.cc:185`); ids beyond 31 bits; codecs and sizes.
- *Banner*: native apps, metrics, and the lifetime of `BookmarkAppHelper`.

The share of source lines that definitions stand for is low because most of `src/browser/` is
browser tests, tables of flags, policies and preferences, platform calls and set-up code
(section 1.3), none of which has a state that could be modelled.

Components without a module are in sections 1.2 and 1.3.
