----------------------------- MODULE FileSelectHelper -----------------------------
(***************************************************************************)
(* FileSelectHelper (file_select_helper.cc, file_select_helper_mac.mm):    *)
(* one helper, which keeps itself alive across the threads, the dialog and *)
(* the directory listing its request goes through, while the frame and the *)
(* page it serves may go at any moment.                                    *)
(*                                                                         *)
(* Tasks hold references to the helper; the dialog, the directory lister   *)
(* and the reply of the packaging task have a raw pointer.  Dialogs exist  *)
(* on the platform (SelectFileDialog::Create gives one), a profile         *)
(* outlives its pages, so that IsValidProfile decides nothing here, and    *)
(* frames and tabs have a render view host, so that OnListDone does not    *)
(* find the null it checks for.                                            *)
(***************************************************************************)
EXTENDS Naturals

CONSTANTS
    Platforms,     \* which of the platforms below are explored
    SafeBrowsing   \* whether FULL_SAFE_BROWSING is built

AllPlatforms == {"desktop", "mac", "chromeos"}
ASSUME FileSelectAssumption == Platforms \subseteq AllPlatforms /\ SafeBrowsing \subseteq BOOLEAN

VARIABLES
    build,       \* the platform and whether downloads are checked
    request,     \* "files", "folder", or "enumerate" for EnumerateDirectory
    at,          \* where the next callback comes from
    selfRef,     \* references of the helper to itself: AddRef and Release
    frameSet,    \* render_frame_host_ is set
    pageSet,     \* web_contents_ is set and observed
    temporary,   \* temporary_files_ is not empty
    frameAlive, pageAlive,  \* the frame and the page themselves
    zip,         \* the packaged upload on disk
    answers      \* results sent to the renderer

helperVars == <<selfRef, frameSet, pageSet, temporary>>
pageVars == <<frameAlive, pageAlive>>
vars == <<build, request, at, helperVars, pageVars, zip, answers>>

Tasks == {"types", "filename", "verdict", "packing", "conversion"}  \* hold references
Callbacks == {"dialog", "listing", "packed"}                        \* do not
Over == {"none", "noView"}  \* no callback: the end, or the end for want of a view
Places == Over \cup Tasks \cup Callbacks

TypeOK ==
    /\ build \in [platform : AllPlatforms, checked : BOOLEAN]
    /\ request \in {"files", "folder", "enumerate"}
    /\ at \in Places
    /\ selfRef \in 0..1 /\ answers \in 0..1
    /\ frameSet \in BOOLEAN /\ pageSet \in BOOLEAN /\ temporary \in BOOLEAN
    /\ frameAlive \in BOOLEAN /\ pageAlive \in BOOLEAN
    /\ zip \in {"none", "made", "deleting", "deleted"}

Destroyed == selfRef = 0 /\ at \notin Tasks

\* RunFileChooser posts its first task; EnumerateDirectory starts the lister at
\* once and knows no frame.
Init ==
    /\ build \in [platform : Platforms, checked : SafeBrowsing]
    /\ request \in {"files", "folder", "enumerate"}
    /\ at = IF request = "enumerate" THEN "listing" ELSE "types"
    /\ selfRef = 1
    /\ frameSet = (request # "enumerate") /\ pageSet = (request # "enumerate")
    /\ temporary = FALSE /\ zip = "none"
    /\ frameAlive = TRUE /\ pageAlive = TRUE
    /\ answers = 0

-----------------------------------------------------------------------------
(* Ends *)

\* Faulty variant: the reference is given up although files are left to delete.
RunFileChooserEnd_Always ==
    /\ selfRef' = selfRef - 1
    /\ frameSet' = FALSE /\ pageSet' = FALSE

\* With files to be deleted the helper waits for the page to go.
RunFileChooserEnd ==
    IF temporary' THEN UNCHANGED <<selfRef, frameSet, pageSet>>
    ELSE /\ selfRef' = selfRef - 1
         /\ frameSet' = FALSE /\ pageSet' = FALSE

NotifyAfterConversion ==
    /\ at' = "none"
    /\ answers' = IF frameSet THEN answers + 1 ELSE answers
    /\ RunFileChooserEnd

GoOn(next) == at' = next /\ UNCHANGED <<selfRef, frameSet, pageSet, answers>>

\* ChromeOS converts what was selected on the way.
NotifyRenderFrameHostAndEnd(files) ==
    IF frameSet /\ files /\ build.platform = "chromeos"
    THEN GoOn("conversion")
    ELSE NotifyAfterConversion

EndAt(place) ==
    /\ at' = place
    /\ RunFileChooserEnd
    /\ UNCHANGED answers
End == EndAt("none")

-----------------------------------------------------------------------------
(* The way to the dialog *)

GetFileTypesOnFileThread ==
    /\ at = "types"
    /\ at' = "filename"
    /\ UNCHANGED <<build, request, helperVars, pageVars, zip, answers>>

\* A page or frame that has gone in the meantime gets no dialog; nor does a page
\* that is there but has no native view just then (GetNativeView, external).
RunFileChooserOnUIThread ==
    IF frameSet /\ pageSet THEN GoOn("dialog") \/ EndAt("noView") ELSE End

GetSanitizedFilenameOnUIThread ==
    /\ at = "filename"
    /\ temporary' = temporary
    /\ IF build.checked THEN GoOn("verdict") ELSE RunFileChooserOnUIThread
    /\ UNCHANGED <<build, request, pageVars, zip>>

\* Faulty variant: a request that is not allowed is forgotten.
Refuse_Silently == End
Refuse == NotifyRenderFrameHostAndEnd(FALSE)

ProceedWithSafeBrowsingVerdict ==
    /\ at = "verdict"
    /\ temporary' = temporary
    /\ RunFileChooserOnUIThread \/ Refuse
    /\ UNCHANGED <<build, request, pageVars, zip>>

-----------------------------------------------------------------------------
(* The answer of the dialog *)

FileSelectionCanceled ==
    /\ at = "dialog"
    /\ temporary' = temporary
    /\ NotifyRenderFrameHostAndEnd(FALSE)
    /\ UNCHANGED <<build, request, pageVars, zip>>

\* A folder is listed; on the Mac, packages among the files are packed first.
FilesSelected ==
    /\ at = "dialog"
    /\ temporary' = temporary
    /\ \/ request = "folder" /\ frameSet /\ GoOn("listing")
       \/ request = "files" /\ build.platform = "mac" /\ GoOn("packing")
       \/ request = "files" /\ build.platform # "mac" /\ NotifyRenderFrameHostAndEnd(TRUE)
       \/ ~frameSet /\ End
    /\ UNCHANGED <<build, request, pageVars, zip>>

\* The lister has ended, with what it found or with an error.  An enumeration is
\* answered through the host that the listing began with, a raw pointer: what a
\* call through it does once the host has gone is undefined.
OnListDone ==
    /\ at = "listing"
    /\ temporary' = temporary
    /\ IF request = "enumerate"
       THEN \/ /\ at' = "none" /\ selfRef' = selfRef - 1
               /\ answers' \in IF frameAlive THEN {answers + 1} ELSE {answers, answers + 1}
               /\ UNCHANGED <<frameSet, pageSet>>
            \/ NotifyRenderFrameHostAndEnd(FALSE)
       ELSE \E files \in BOOLEAN : NotifyRenderFrameHostAndEnd(files)
    /\ UNCHANGED <<build, request, pageVars, zip>>

ProcessSelectedFilesMac ==
    /\ at = "packing"
    /\ at' = "packed"
    /\ zip' \in {"none", "made"}
    /\ UNCHANGED <<build, request, helperVars, pageVars, answers>>

\* Faulty variant: the page is supposed to be there still.
ProcessSelectedFilesMacOnUIThread_NoCheck ==
    /\ at = "packed"
    /\ temporary' = (zip = "made")
    /\ NotifyRenderFrameHostAndEnd(TRUE)
    /\ UNCHANGED <<build, request, pageVars, zip>>

\* The packed files live as long as the page, which may have gone already.
ProcessSelectedFilesMacOnUIThread ==
    /\ at = "packed"
    /\ IF zip = "made" /\ ~pageSet
       THEN temporary' = FALSE /\ zip' = "deleting" /\ End
       ELSE /\ temporary' = (zip = "made")
            /\ NotifyRenderFrameHostAndEnd(TRUE)
            /\ UNCHANGED zip
    /\ UNCHANGED <<build, request, pageVars>>

Convert ==
    /\ at = "conversion"
    /\ temporary' = temporary
    /\ NotifyAfterConversion
    /\ UNCHANGED <<build, request, pageVars, zip>>

DeleteFiles ==
    /\ zip = "deleting"
    /\ zip' = "deleted"
    /\ UNCHANGED <<build, request, at, helperVars, pageVars, answers>>

-----------------------------------------------------------------------------
(* The frame and the page *)

\* Observe, RenderFrameHostChanged and RenderFrameDeleted.
FrameGoes ==
    /\ frameAlive
    /\ frameAlive' = FALSE
    /\ frameSet' = FALSE
    /\ UNCHANGED <<build, request, at, selfRef, pageSet, temporary, pageAlive, zip, answers>>

\* WebContentsDestroyed, with CleanUp.
WebContentsDestroyed ==
    /\ pageAlive /\ ~frameAlive
    /\ pageAlive' = FALSE
    /\ pageSet' = FALSE
    /\ IF pageSet /\ temporary
       THEN temporary' = FALSE /\ zip' = "deleting" /\ selfRef' = selfRef - 1
       ELSE UNCHANGED <<temporary, zip, selfRef>>
    /\ UNCHANGED <<build, request, at, frameSet, frameAlive, answers>>

Callback ==
    \/ GetFileTypesOnFileThread
    \/ GetSanitizedFilenameOnUIThread
    \/ ProceedWithSafeBrowsingVerdict
    \/ OnListDone
    \/ ProcessSelectedFilesMac
    \/ ProcessSelectedFilesMacOnUIThread
    \/ Convert
    \/ DeleteFiles

DialogCloses == FileSelectionCanceled \/ FilesSelected

Next == Callback \/ DialogCloses \/ FrameGoes \/ WebContentsDestroyed

\* Tasks run and the lister ends; a person may leave the dialog open for good.
Spec == Init /\ [][Next]_vars /\ WF_vars(Callback)

-----------------------------------------------------------------------------
(* Properties *)

\* A callback with a raw pointer finds the helper, which releases itself once:
\* it lives from the request to its last callback, and longer only for files
\* that wait for the page to go (AddRef in RunFileChooser, Release in
\* RunFileChooserEnd, EnumerateDirectoryEnd and CleanUp).
HelperKeptAlive ==
    /\ TypeOK
    /\ at \notin Over => selfRef = 1
    /\ at \in Over => (selfRef = 1 <=> temporary)
    /\ temporary => pageSet
    /\ frameSet => frameAlive
    /\ pageSet => pageAlive

\* "FileSelectHelper will keep itself alive until it sends the result message":
\* a chooser that ended while its frame was there has answered it, once.  The one
\* exception is a page without a native view when the dialog was due, whose frame
\* never hears of its request (RunFileChooserOnUIThread).
ChooserAnswered ==
    request # "enumerate" /\ at \in Over /\ frameAlive =>
        answers = IF at = "noView" THEN 0 ELSE 1

\* Unless its dialog stays open for good the helper does not stay: it goes when the
\* request is done, or keeps only packed files, which the page it uploaded them
\* from takes along.
HelperGoes ==
    /\ <>[](at = "dialog") \/ <>(Destroyed \/ temporary)
    /\ (~pageAlive /\ at # "dialog") ~> (Destroyed /\ zip # "made")
=============================================================================
