-------------------------- MODULE FileSelectHelper_proofs --------------------------
(***************************************************************************)
(* The reference count and the answer of FileSelectHelper, on every        *)
(* platform and with or without the check of downloads.                    *)
(***************************************************************************)
EXTENDS FileSelectHelper, TLAPS

USE DEF Over

\* While a callback is due nothing was answered and nothing is left to delete.
NotDoneYet == at \notin Over => answers = 0 /\ ~temporary

\* Only the page's own end takes the frame or the page from a pending chooser.
FrameServed ==
    at \notin Over /\ request # "enumerate" /\ frameAlive => frameSet /\ pageSet

\* Packaging is the Mac's: no conversion follows it.
PackagingOnMac == at \in {"packing", "packed"} => build.platform = "mac"

HelperInv ==
    /\ HelperKeptAlive
    /\ ChooserAnswered
    /\ NotDoneYet
    /\ FrameServed
    /\ PackagingOnMac

LEMMA InitHelper == Init => HelperInv
<1>. SUFFICES ASSUME Init PROVE HelperInv
  OBVIOUS
<1>1. TypeOK
  <2>1. build \in [platform : AllPlatforms, checked : BOOLEAN]
    <3>1. PICK p \in Platforms, c \in SafeBrowsing : build = [platform |-> p, checked |-> c]
      BY DEF Init
    <3>2. p \in AllPlatforms /\ c \in BOOLEAN
      BY FileSelectAssumption
    <3>. QED
      BY <3>1, <3>2
  <2>2. frameSet \in BOOLEAN /\ pageSet \in BOOLEAN
    BY ZenonT(20) DEF Init
  <2>3. at \in Places /\ request \in {"files", "folder", "enumerate"}
    BY DEF Init, Places, Tasks, Callbacks
  <2>4. selfRef \in 0..1 /\ answers \in 0..1
    BY DEF Init
  <2>. QED
    BY <2>1, <2>2, <2>3, <2>4, Zenon DEF Init, TypeOK
<1>2. HelperKeptAlive
  BY <1>1 DEF Init, HelperKeptAlive
<1>. QED
  BY <1>2 DEF Init, HelperInv, ChooserAnswered, NotDoneYet, FrameServed, PackagingOnMac

\* What an answer to the frame does, from any place but the end: the request is
\* over and answered, or goes on to the conversion.
LEMMA NotifyPreserves ==
    ASSUME HelperInv, at \notin Over, NEW files,
           NotifyRenderFrameHostAndEnd(files),
           temporary' \in BOOLEAN, temporary' => at = "packed" /\ pageSet,
           UNCHANGED <<build, request, pageVars, zip>>
    PROVE  HelperInv'
<1>. USE DEF HelperInv, HelperKeptAlive, TypeOK, Places, Tasks, Callbacks, ChooserAnswered,
             NotDoneYet, FrameServed, PackagingOnMac, pageVars, GoOn, NotifyAfterConversion,
             RunFileChooserEnd, NotifyRenderFrameHostAndEnd
<1>1. CASE frameSet /\ files /\ build.platform = "chromeos"
  BY <1>1
<1>2. CASE ~(frameSet /\ files /\ build.platform = "chromeos")
  <2>0. answers' = IF frameSet THEN answers + 1 ELSE answers
    BY <1>2, Zenon
  <2>1. CASE temporary'
    <3>1. at = "packed" /\ pageSet /\ at' = "none" /\ UNCHANGED <<selfRef, frameSet, pageSet>>
      BY <1>2, <2>1
    <3>2. selfRef = 1 /\ answers = 0 /\ temporary' = TRUE
      BY <2>1
    <3>3. answers' = IF frameSet THEN 1 ELSE 0
      BY <2>0, <3>2
    <3>4. HelperKeptAlive'
      BY <3>1, <3>2, <3>3
    <3>. QED
      BY <3>1, <3>2, <3>3, <3>4
  <2>2. CASE ~temporary'
    <3>1. /\ frameSet' = FALSE /\ pageSet' = FALSE /\ at' = "none"
          /\ selfRef' = 0 /\ answers' \in 0..1
      BY <1>2, <2>2
    <3>2. temporary' = FALSE
      BY <2>2
    <3>3. answers' = IF frameSet THEN 1 ELSE 0
      BY <1>2
    <3>4. TypeOK'
      BY <3>1, <3>2
    <3>. QED
      BY <3>1, <3>2, <3>3, <3>4
  <2>. QED
    BY <2>1, <2>2
<1>. QED
  BY <1>1, <1>2

\* A request given up without an answer has no frame to answer any more, or ends for
\* want of a view.
LEMMA EndPreserves ==
    ASSUME HelperInv, at \notin Over, NEW place \in Over,
           EndAt(place), temporary' = FALSE,
           place = "none" =>
               (frameAlive /\ request # "enumerate" => ~(frameSet /\ pageSet)),
           zip' \in {"none", "made", "deleting", "deleted"},
           UNCHANGED <<build, request, pageVars>>
    PROVE  HelperInv'
<1>. USE DEF HelperInv, HelperKeptAlive, TypeOK, Places, Tasks, Callbacks, ChooserAnswered,
             NotDoneYet, FrameServed, PackagingOnMac, pageVars, EndAt, RunFileChooserEnd
<1>1. at' = place /\ selfRef' = 0 /\ frameSet' = FALSE /\ pageSet' = FALSE /\ answers' = 0
  OBVIOUS
<1>2. TypeOK'
  BY <1>1
<1>. QED
  BY <1>1, <1>2

\* A request that goes on keeps its reference.
LEMMA GoOnPreserves ==
    ASSUME HelperInv, at \notin Over, NEW next \in Places \ Over,
           GoOn(next), next \in {"packing", "packed"} => build.platform = "mac",
           UNCHANGED <<build, request, temporary, pageVars, zip>>
    PROVE  HelperInv'
BY DEF HelperInv, HelperKeptAlive, TypeOK, ChooserAnswered, NotDoneYet, FrameServed,
       PackagingOnMac, pageVars, GoOn

LEMMA ToDialogPreserves ==
    ASSUME HelperInv, at \notin Over, RunFileChooserOnUIThread,
           UNCHANGED <<build, request, temporary, pageVars, zip>>
    PROVE  HelperInv'
<1>1. CASE frameSet /\ pageSet
  <2>1. CASE GoOn("dialog")
    BY <2>1, GoOnPreserves DEF Places, Tasks, Callbacks
  <2>2. CASE EndAt("noView")
    <3>1. temporary' = FALSE /\ zip' \in {"none", "made", "deleting", "deleted"}
      BY DEF HelperInv, HelperKeptAlive, TypeOK, NotDoneYet
    <3>. QED
      BY <2>2, <3>1, EndPreserves
  <2>. QED
    BY <1>1, <2>1, <2>2 DEF RunFileChooserOnUIThread
<1>2. CASE ~(frameSet /\ pageSet)
  <2>1. /\ EndAt("none") /\ temporary' = FALSE
        /\ zip' \in {"none", "made", "deleting", "deleted"}
    BY <1>2 DEF RunFileChooserOnUIThread, End, HelperInv, HelperKeptAlive, TypeOK, NotDoneYet
  <2>. QED
    BY <1>2, <2>1, EndPreserves
<1>. QED
  BY <1>1, <1>2

LEMMA StepHelper == HelperInv /\ [Next]_vars => HelperInv'
<1>. SUFFICES ASSUME HelperInv, [Next]_vars PROVE HelperInv'
  OBVIOUS
<1>0. TypeOK /\ (at \notin Over => ~temporary)
  BY DEF HelperInv, HelperKeptAlive, NotDoneYet
<1>1. CASE GetFileTypesOnFileThread
  BY <1>1, GoOnPreserves
  DEF GetFileTypesOnFileThread, GoOn, helperVars, Places, Tasks, Callbacks
<1>2. CASE GetSanitizedFilenameOnUIThread
  <2>1. CASE build.checked
    BY <1>2, <2>1, GoOnPreserves
    DEF GetSanitizedFilenameOnUIThread, Places, Tasks, Callbacks
  <2>2. CASE ~build.checked
    BY <1>2, <2>2, ToDialogPreserves DEF GetSanitizedFilenameOnUIThread
  <2>. QED
    BY <2>1, <2>2
<1>3. CASE ProceedWithSafeBrowsingVerdict
  <2>1. CASE RunFileChooserOnUIThread
    BY <1>3, <2>1, ToDialogPreserves DEF ProceedWithSafeBrowsingVerdict
  <2>2. CASE Refuse
    BY <1>0, <1>3, <2>2, NotifyPreserves DEF ProceedWithSafeBrowsingVerdict, Refuse, TypeOK
  <2>. QED
    BY <1>3, <2>1, <2>2 DEF ProceedWithSafeBrowsingVerdict
<1>4. CASE FileSelectionCanceled
  BY <1>0, <1>4, NotifyPreserves DEF FileSelectionCanceled, TypeOK
<1>5. CASE FilesSelected
  <2>0. at = "dialog" /\ UNCHANGED <<build, request, temporary, pageVars, zip>>
    BY <1>5 DEF FilesSelected
  <2>1. CASE GoOn("listing")
    BY <2>0, <2>1, GoOnPreserves DEF Places, Tasks, Callbacks
  <2>2. CASE build.platform = "mac" /\ GoOn("packing")
    BY <2>0, <2>2, GoOnPreserves DEF Places, Tasks, Callbacks
  <2>3. CASE NotifyRenderFrameHostAndEnd(TRUE)
    BY <1>0, <2>0, <2>3, NotifyPreserves DEF TypeOK
  <2>4. CASE ~frameSet /\ End
    BY <1>0, <2>0, <2>4, EndPreserves DEF TypeOK, End, Places, Tasks, Callbacks
  <2>. QED
    BY <1>5, <2>1, <2>2, <2>3, <2>4 DEF FilesSelected
<1>6. CASE OnListDone
  <2>0. at = "listing" /\ UNCHANGED <<build, request, temporary, pageVars, zip>>
    BY <1>6 DEF OnListDone
  <2>1. ASSUME NEW files, NotifyRenderFrameHostAndEnd(files) PROVE HelperInv'
    BY <1>0, <2>0, <2>1, NotifyPreserves DEF TypeOK
  <2>2. CASE /\ request = "enumerate"
             /\ at' = "none" /\ selfRef' = selfRef - 1
             /\ answers' \in IF frameAlive THEN {answers + 1} ELSE {answers, answers + 1}
             /\ UNCHANGED <<frameSet, pageSet>>
    BY <2>0, <2>2
    DEF HelperInv, HelperKeptAlive, TypeOK, Places, Tasks, Callbacks, ChooserAnswered,
        NotDoneYet, FrameServed, PackagingOnMac, pageVars
  <2>. QED
    BY <1>6, <2>1, <2>2 DEF OnListDone
<1>7. CASE ProcessSelectedFilesMac
  BY <1>7
  DEF ProcessSelectedFilesMac, HelperInv, HelperKeptAlive, TypeOK, Places, Tasks, Callbacks,
      ChooserAnswered, NotDoneYet, FrameServed, PackagingOnMac, pageVars, helperVars
<1>8. CASE ProcessSelectedFilesMacOnUIThread
  <2>1. CASE zip = "made" /\ ~pageSet
    BY <1>8, <2>1, EndPreserves DEF ProcessSelectedFilesMacOnUIThread, End
  <2>2. CASE ~(zip = "made" /\ ~pageSet)
    <3>1. temporary' \in BOOLEAN /\ (temporary' => at = "packed" /\ pageSet)
      BY <1>0, <1>8, <2>2 DEF ProcessSelectedFilesMacOnUIThread, TypeOK
    <3>. QED
      BY <1>8, <2>2, <3>1, NotifyPreserves DEF ProcessSelectedFilesMacOnUIThread
  <2>. QED
    BY <2>1, <2>2
<1>9. CASE Convert
  <2>1. NotifyRenderFrameHostAndEnd(FALSE)
    BY <1>9 DEF Convert, NotifyRenderFrameHostAndEnd
  <2>. QED
    BY <1>0, <1>9, <2>1, NotifyPreserves DEF Convert, TypeOK
<1>10. CASE DeleteFiles
  BY <1>10
  DEF DeleteFiles, HelperInv, HelperKeptAlive, TypeOK, ChooserAnswered, NotDoneYet,
      FrameServed, PackagingOnMac, pageVars, helperVars
<1>11. CASE FrameGoes
  BY <1>11
  DEF FrameGoes, HelperInv, HelperKeptAlive, TypeOK, ChooserAnswered, NotDoneYet,
      FrameServed, PackagingOnMac
<1>12. CASE WebContentsDestroyed
  <2>. USE DEF WebContentsDestroyed, HelperInv, HelperKeptAlive, TypeOK, ChooserAnswered,
               NotDoneYet, FrameServed, PackagingOnMac
  <2>1. CASE temporary
    <3>1. pageSet /\ at \in Over /\ selfRef = 1
      BY <2>1
    <3>2. /\ temporary' = FALSE /\ zip' = "deleting" /\ selfRef' = 0
          /\ pageSet' = FALSE /\ pageAlive' = FALSE
          /\ UNCHANGED <<build, request, at, frameSet, frameAlive, answers>>
      BY <1>12, <2>1, <3>1
    <3>3. ~frameAlive /\ ~frameSet
      BY <1>12
    <3>4. frameSet \in BOOLEAN /\ frameAlive \in BOOLEAN
      BY Zenon
    <3>5. TypeOK'
      <4>1. (frameSet \in BOOLEAN /\ frameAlive \in BOOLEAN)'
        BY <3>2, <3>4, Zenon
      <4>2. (pageSet \in BOOLEAN /\ temporary \in BOOLEAN /\ pageAlive \in BOOLEAN)'
        BY <3>2, Zenon
      <4>3. selfRef' \in 0..1 /\ zip' \in {"none", "made", "deleting", "deleted"}
        BY <3>2
      <4>. QED
        BY <3>2, <4>1, <4>2, <4>3, Zenon
    <3>. QED
      BY <3>1, <3>2, <3>3, <3>5
  <2>2. CASE ~temporary
    <3>1. /\ pageSet' = FALSE /\ pageAlive' = FALSE
          /\ UNCHANGED <<build, request, at, selfRef, frameSet, frameAlive>>
          /\ UNCHANGED <<temporary, zip, answers>>
      BY <1>12, <2>2
    <3>2. ~frameAlive /\ ~frameSet
      BY <1>12
    <3>3. TypeOK'
      BY <3>1
    <3>. QED
      BY <2>2, <3>1, <3>2, <3>3
  <2>. QED
    BY <2>1, <2>2
<1>13. CASE UNCHANGED vars
  BY <1>13
  DEF vars, pageVars, helperVars, HelperInv, HelperKeptAlive, TypeOK, ChooserAnswered,
      NotDoneYet, FrameServed, PackagingOnMac
<1>. QED
  BY <1>1, <1>2, <1>3, <1>4, <1>5, <1>6, <1>7, <1>8, <1>9, <1>10, <1>11, <1>12, <1>13
  DEF Next, Callback, DialogCloses

\* A callback with a raw pointer finds the helper, and the helper stays after
\* the last one only for files that wait for the page to go.
THEOREM KeptAlive == Spec => []HelperKeptAlive
<1>1. HelperInv => HelperKeptAlive
  BY DEF HelperInv
<1>. QED
  BY <1>1, InitHelper, StepHelper, PTL DEF Spec

\* A chooser that ended while its frame was there has answered it once, unless its
\* page had no native view when the dialog was due: then it has answered nothing.
THEOREM Answered == Spec => []ChooserAnswered
<1>1. HelperInv => ChooserAnswered
  BY DEF HelperInv
<1>. QED
  BY <1>1, InitHelper, StepHelper, PTL DEF Spec
=============================================================================
