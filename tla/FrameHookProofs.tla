-------------------------- MODULE FrameHookProofs --------------------------
(***************************************************************************)
(* Proofs about FrameHook for any set of frame threads, any pages and any  *)
(* length of the quiescence wait.                                          *)
(*                                                                         *)
(* Three inductive invariants, each for what it is needed for: UnloadInv   *)
(* (the count and the sampled instruction pointers); WriteInv (nobody who  *)
(* could be suspended stands under a write); PageInv (nobody is left       *)
(* without a trampoline), which needs that nothing is installed before a   *)
(* cold answer.  A fourth, ReadIsValid, says what a removal knows of the   *)
(* site's bytes while it waits.                                            *)
(***************************************************************************)
EXTENDS FrameHook, TLAPS, FiniteSetTheorems

CountedThreads == {t \in FrameThreads : pos[t] \in Counted}

\* Nobody will execute another instruction of the module.
Quiet == \A t \in FrameThreads : pos[t] \notin Inside

-----------------------------------------------------------------------------
(* Why the module may be unmapped.                                         *)

CountIsExact == activeDetours = Cardinality(CountedThreads)

\* A thread the sample is done with stands outside the image and stays there:
\* it is suspended, or it was not in the snapshot and cannot enter, because
\* the hook is out.
SampledOutside ==
  ctl = "q_suspend" =>
    \A t \in FrameThreads \ todo :
      \/ t \in suspended /\ pos[t] \notin OnImage
      \/ pos[t] \in {"none", "game", "site", "stolen"}

\* g_patched says so whenever the patch is in, but for the moment between the
\* write and its publication.
PatchedIsKnown == site = "patched" => patched \/ ctl = "i_publish"

OutWhileWaiting ==
  ctl \in {"q_check", "q_suspend", "q_wait"} => site # "patched"

\* What is put back is never this module's own jump.
SavedIsClean ==
  /\ saved \in {"original", "other"}
  /\ ctl = "i_copy" => site \in {"original", "other"}

ColdIsQuiet == outcome.cold => site # "patched" /\ Quiet

GoneIsQuiet == ~loaded => ctl = "idle" /\ site # "patched" /\ Quiet

DetachParts ==
  /\ SampledOutside
  /\ PatchedIsKnown
  /\ OutWhileWaiting
  /\ SavedIsClean
  /\ ColdIsQuiet
  /\ GoneIsQuiet

UnloadInv == TypeOK /\ CountIsExact /\ DetachParts

-----------------------------------------------------------------------------
(* Why nobody stands under a write.                                        *)

\* A thread the suspension is done with is held outside the stolen bytes.
HeldOutside ==
  ctl \in Rewriting =>
    \A t \in FrameThreads \ (todo \cup late) :
      \/ t \in suspended /\ pos[t] \notin {"site", "stolen"}
      \/ pos[t] = "none"

AllVisited == ctl \in {"i_write", "r_write"} => todo = {}

TornInAWrite == site = "torn" => ctl \in {"i_write", "r_write"}

StolenIsWhole ==
  \A t \in FrameThreads \ late : pos[t] = "stolen" => site \notin {"torn", "patched"}

WriteParts == HeldOutside /\ AllVisited /\ TornInAWrite /\ StolenIsWhole

WriteInv == UnloadInv /\ WriteParts

-----------------------------------------------------------------------------
(* Why a thread always has a page to leave through.                        *)

\* Before the first install nobody has been let in.
UnknownIsQuiet ==
  ~siteKnown /\ ctl # "i_publish" => site # "patched" /\ Quiet

\* An install in progress finds nobody inside, and has a page of its own.
InstallIsQuiet ==
  ctl \in {"i_copy", "i_suspend", "i_write"} => site # "patched" /\ Quiet

InstallHasPage ==
  ctl \in {"i_suspend", "i_write"} =>
    /\ trampoline \in pages
    /\ \A t \in FrameThreads : pos[t] = "tramp" => r11[t] # trampoline

HookHasPage == site = "patched" => trampoline \in pages

PageInv ==
  /\ UnloadInv
  /\ UnknownIsQuiet
  /\ InstallIsQuiet
  /\ InstallHasPage
  /\ HookHasPage
  /\ TrampolineIsThere

-----------------------------------------------------------------------------
USE HookAssumption DEF HookAssumption
USE DEF codeVars, otherCode, pageVars, threadVars, suspendVars, waitVars,
        Registers, Step, Goto

LEMMA InitType == Init => TypeOK
<1> SUFFICES ASSUME Init PROVE TypeOK  OBVIOUS
<1> USE DEF Init
<1>1. loaded \in BOOLEAN /\ patched \in BOOLEAN /\ siteKnown \in BOOLEAN
  OBVIOUS
<1>2. /\ site \in SiteBytes /\ ctl \in ControllerStates
      /\ saved \in SiteBytes /\ meddled \in BOOLEAN
  BY DEF SiteBytes, ControllerStates
<1>3. pos \in [FrameThreads -> Positions]  BY DEF Positions
<1>4. outcome \in [verified : BOOLEAN, cold : BOOLEAN]  BY DEF NoAnswer
<1>5. r11 \in [FrameThreads -> Pages \cup {NoPage}]  OBVIOUS
<1>6. /\ activeDetours \in Int
      /\ passes \in 0..MaxPasses
      /\ trampoline \in Pages \cup {NoPage}
      /\ pages \in SUBSET Pages
      /\ suspended \in SUBSET FrameThreads
      /\ todo \in SUBSET FrameThreads
      /\ late \in SUBSET FrameThreads
  OBVIOUS
<1>7. QED  BY <1>1, <1>2, <1>3, <1>4, <1>5, <1>6 DEF TypeOK

LEMMA FrameType ==
  ASSUME TypeOK, NEW t \in FrameThreads, FrameStep(t)
  PROVE  TypeOK'
<1> USE DEF TypeOK, Positions, Inside, OnImage
<1>1. CASE Exit(t)             BY <1>1 DEF Exit
<1>2. CASE Start(t)            BY <1>2 DEF Start
<1>3. CASE CallFunction(t)     BY <1>3 DEF CallFunction
<1>4. CASE RunOriginal(t)      BY <1>4 DEF RunOriginal
<1>5. CASE RunPatch(t)         BY <1>5 DEF RunPatch
<1>6. CASE RunOther(t)         BY <1>6 DEF RunOther
<1>7. CASE LeaveStolen(t)      BY <1>7 DEF LeaveStolen
<1>8. CASE Claim(t)            BY <1>8 DEF Claim
<1>9. CASE DrainCalls(t)       BY <1>9 DEF DrainCalls
<1>10. CASE DrainReturns(t)    BY <1>10 DEF DrainReturns
<1>11. CASE LoadTrampoline(t)  BY <1>11 DEF LoadTrampoline
<1>12. CASE Release(t)         BY <1>12 DEF Release
<1>13. CASE JumpToTrampoline(t) BY <1>13 DEF JumpToTrampoline
<1>14. CASE LeaveTrampoline(t) BY <1>14 DEF LeaveTrampoline
<1>15. QED
  BY <1>1, <1>2, <1>3, <1>4, <1>5, <1>6, <1>7, <1>8, <1>9, <1>10, <1>11,
     <1>12, <1>13, <1>14 DEF FrameStep

LEMMA ControllerType ==
  ASSUME TypeOK, Suspend \/ Install \/ Remove \/ Quiesce \/ Unload \/ Foreign
  PROVE  TypeOK'
<1> USE DEF TypeOK, SiteBytes, ControllerStates, StartSuspending,
            ResumeThreads, NoAnswer
<1>1. ASSUME NEW t \in FrameThreads, SuspendNext(t) PROVE TypeOK'
  BY <1>1 DEF SuspendNext
<1>2. ASSUME NEW t \in FrameThreads, SkipExited(t) PROVE TypeOK'
  BY <1>2 DEF SkipExited
<1>3. CASE InstallBegin \/ InstallRefused
  BY <1>3 DEF InstallBegin, InstallRefused
<1>4. CASE InstallCopy     BY <1>4 DEF InstallCopy, SampleMatches
<1>5. CASE InstallFails    BY <1>5 DEF InstallFails
<1>6. CASE InstallWrites   BY <1>6 DEF InstallWrites
<1>7. CASE InstallWritten  BY <1>7 DEF InstallWritten
<1>8. CASE InstallPublish  BY <1>8 DEF InstallPublish
<1>9. CASE RemoveBegin     BY <1>9 DEF RemoveBegin
<1>10. CASE RemoveAgain
  <2>1. outcome' \in [verified : BOOLEAN, cold : BOOLEAN]
    <3>1. ReadsRestored \in BOOLEAN  BY DEF ReadsRestored
    <3>2. QED  BY <1>10, <3>1 DEF RemoveAgain
  <2>2. /\ UNCHANGED <<codeVars, pageVars, threadVars, suspendVars, late>>
        /\ ctl' = "q_check" /\ passes' = 0 /\ meddled' = FALSE
    BY <1>10 DEF RemoveAgain
  <2>3. /\ passes' \in 0..MaxPasses
        /\ ctl' \in ControllerStates
        /\ meddled' \in BOOLEAN
    <3>1. passes' \in 0..MaxPasses  BY <2>2
    <3>2. ctl' \in ControllerStates  BY <2>2
    <3>3. meddled' \in BOOLEAN  BY <2>2
    <3>4. QED  BY <3>1, <3>2, <3>3
  <2>4. UNCHANGED <<loaded, site, patched, siteKnown, saved, trampoline, pages,
                    activeDetours, pos, r11, suspended, todo, late>>
    BY <2>2
  <2>5. /\ loaded' \in BOOLEAN /\ patched' \in BOOLEAN /\ siteKnown' \in BOOLEAN
        /\ meddled' \in BOOLEAN /\ site' \in SiteBytes /\ saved' \in SiteBytes
    BY <2>3, <2>4
  <2>6. /\ trampoline' \in Pages \cup {NoPage} /\ pages' \in SUBSET Pages
        /\ activeDetours' \in Int /\ pos' \in [FrameThreads -> Positions]
        /\ r11' \in [FrameThreads -> Pages \cup {NoPage}]
        /\ suspended' \in SUBSET FrameThreads /\ todo' \in SUBSET FrameThreads
        /\ late' \in SUBSET FrameThreads
    BY <2>4
  <2>7. QED  BY <2>1, <2>3, <2>5, <2>6, Zenon
<1>11. CASE RemoveFails    BY <1>11 DEF RemoveFails
<1>12. CASE RemoveWrites   BY <1>12 DEF RemoveWrites
<1>13. CASE RemoveWritten  BY <1>13 DEF RemoveWritten
<1>14. CASE RemoveVerified
  <2>1. outcome' \in [verified : BOOLEAN, cold : BOOLEAN]
    BY <1>14 DEF RemoveVerified
  <2>2. /\ UNCHANGED <<loaded, site, siteKnown, saved, pageVars, threadVars,
                      suspendVars, late, meddled>>
        /\ ctl' = "q_check" /\ passes' = 0 /\ patched' = FALSE
    BY <1>14 DEF RemoveVerified, PagesAfterRemoval
  <2>3. /\ passes' \in 0..MaxPasses
        /\ ctl' \in ControllerStates
        /\ patched' \in BOOLEAN
    <3>1. passes' \in 0..MaxPasses  BY <2>2
    <3>2. ctl' \in ControllerStates  BY <2>2
    <3>3. patched' \in BOOLEAN  BY <2>2
    <3>4. QED  BY <3>1, <3>2, <3>3
  <2>4. UNCHANGED <<loaded, site, siteKnown, saved, trampoline, pages,
                    activeDetours, pos, r11, suspended, todo, late, meddled>>
    BY <2>2
  <2>5. /\ loaded' \in BOOLEAN /\ patched' \in BOOLEAN /\ siteKnown' \in BOOLEAN
        /\ meddled' \in BOOLEAN /\ site' \in SiteBytes /\ saved' \in SiteBytes
    BY <2>3, <2>4
  <2>6. /\ trampoline' \in Pages \cup {NoPage} /\ pages' \in SUBSET Pages
        /\ activeDetours' \in Int /\ pos' \in [FrameThreads -> Positions]
        /\ r11' \in [FrameThreads -> Pages \cup {NoPage}]
        /\ suspended' \in SUBSET FrameThreads /\ todo' \in SUBSET FrameThreads
        /\ late' \in SUBSET FrameThreads
    BY <2>4
  <2>7. QED  BY <2>1, <2>3, <2>5, <2>6, Zenon
<1>15. CASE RemoveUnverified BY <1>15 DEF RemoveUnverified
<1>16. CASE QuiesceProbe   BY <1>16 DEF QuiesceProbe
<1>17. CASE QuiesceUnsafe  BY <1>17 DEF QuiesceUnsafe
<1>18. CASE QuiesceSample
  <2>1. outcome' \in [verified : BOOLEAN, cold : BOOLEAN]
    <3>1. Cold \in BOOLEAN  BY DEF Cold
    <3>2. QED  BY <1>18, <3>1 DEF QuiesceSample
  <2>2. ctl' \in ControllerStates  BY <1>18 DEF QuiesceSample
  <2>3. /\ UNCHANGED <<codeVars, pageVars, threadVars, passes, meddled>>
        /\ ResumeThreads
    BY <1>18 DEF QuiesceSample
  <2>4. QED  BY <2>1, <2>2, <2>3
<1>19. CASE QuiesceRetry   BY <1>19 DEF QuiesceRetry, TimeLeft
<1>20. CASE QuiesceGivesUp BY <1>20 DEF QuiesceGivesUp
<1>21. CASE Unload         BY <1>21 DEF Unload
<1>22. CASE Foreign        BY <1>22 DEF Foreign
<1>23. QED
  BY <1>1, <1>2, <1>3, <1>4, <1>5, <1>6, <1>7, <1>8, <1>9, <1>10, <1>11,
     <1>12, <1>13, <1>14, <1>15, <1>16, <1>17, <1>18, <1>19, <1>20, <1>21,
     <1>22
     DEF Suspend, Install, Remove, Quiesce

LEMMA NextType == ASSUME TypeOK, [Next]_vars PROVE TypeOK'
<1>1. CASE Frame BY <1>1, FrameType DEF Frame
<1>2. CASE Suspend \/ Install \/ Remove \/ Quiesce \/ Unload \/ Foreign
  BY <1>2, ControllerType
<1>3. CASE UNCHANGED vars BY <1>3 DEF vars, TypeOK
<1>4. QED BY <1>1, <1>2, <1>3 DEF Next

\* The variables keep their types: in particular the count stays a number and
\* the passes of one wait stay within its timeout.
THEOREM TypeCorrect == Spec => []TypeOK
  BY InitType, NextType, PTL DEF Spec
-----------------------------------------------------------------------------
(* What a step of a frame thread, and one of the controller, leaves alone. *)

Away == {"none", "game", "site", "stolen"}

LEMMA FrameMoves ==
  ASSUME TypeOK, NEW t \in FrameThreads, FrameStep(t)
  PROVE  /\ UNCHANGED <<codeVars, pageVars, suspendVars, ctl, waitVars, meddled>>
         /\ t \notin suspended
         /\ \A u \in FrameThreads : u # t => pos'[u] = pos[u]
         /\ pos'[t] \in Inside => pos[t] \in Inside \/ site = "patched"
         /\ pos[t] \in Away /\ site # "patched" => pos'[t] \in Away
         /\ pos'[t] = "stolen" => site = "original"
         /\ late \ {t} \subseteq late' /\ late' \subseteq late \cup {t}
         /\ ctl \in Rewriting =>
              t \in late' \/ pos'[t] = "none" \/ (t \notin late /\ pos[t] # "none")
         /\ pos[t] = "stolen" => pos'[t] # "stolen"
<1> USE DEF TypeOK, Inside, OnImage, Away
<1>1. CASE Exit(t)             BY <1>1 DEF Exit
<1>2. CASE Start(t)            BY <1>2 DEF Start
<1>3. CASE CallFunction(t)     BY <1>3 DEF CallFunction
<1>4. CASE RunOriginal(t)      BY <1>4 DEF RunOriginal
<1>5. CASE RunPatch(t)         BY <1>5 DEF RunPatch
<1>6. CASE RunOther(t)         BY <1>6 DEF RunOther
<1>7. CASE LeaveStolen(t)      BY <1>7 DEF LeaveStolen
<1>8. CASE Claim(t)            BY <1>8 DEF Claim
<1>9. CASE DrainCalls(t)       BY <1>9 DEF DrainCalls
<1>10. CASE DrainReturns(t)    BY <1>10 DEF DrainReturns
<1>11. CASE LoadTrampoline(t)  BY <1>11 DEF LoadTrampoline
<1>12. CASE Release(t)         BY <1>12 DEF Release
<1>13. CASE JumpToTrampoline(t) BY <1>13 DEF JumpToTrampoline
<1>14. CASE LeaveTrampoline(t) BY <1>14 DEF LeaveTrampoline
<1>15. QED
  BY <1>1, <1>2, <1>3, <1>4, <1>5, <1>6, <1>7, <1>8, <1>9, <1>10, <1>11,
     <1>12, <1>13, <1>14 DEF FrameStep

Controller == Suspend \/ Install \/ Remove \/ Quiesce \/ Unload \/ Foreign

LEMMA ControllerKeepsThreads ==
  ASSUME Controller
  PROVE  UNCHANGED threadVars
  BY DEF Controller, Suspend, Install, Remove, Quiesce, Foreign, SuspendNext,
         SkipExited, InstallBegin, InstallRefused, InstallCopy, InstallFails,
         InstallWrites, InstallWritten, InstallPublish, RemoveBegin, RemoveAgain,
         RemoveFails, RemoveWrites, RemoveWritten, RemoveVerified,
         RemoveUnverified, QuiesceProbe, QuiesceUnsafe, QuiesceSample,
         QuiesceRetry, QuiesceGivesUp, Unload, Foreign

-----------------------------------------------------------------------------
(* The count is the number of threads between the two locked instructions. *)

LEMMA CountStep ==
  ASSUME TypeOK, CountIsExact, [Next]_vars
  PROVE  CountIsExact'
<1> IsFiniteSet(CountedThreads)
  BY FS_Subset DEF CountedThreads
<1>1. CASE UNCHANGED threadVars
  BY <1>1 DEF CountIsExact, CountedThreads
<1>2. ASSUME NEW t \in FrameThreads, FrameStep(t) PROVE CountIsExact'
  <2> USE DEF TypeOK, CountedThreads, Counted
  <2>1. CASE Claim(t)
    <3>1. t \notin CountedThreads /\ CountedThreads' = CountedThreads \cup {t}
      BY <2>1 DEF Claim
    <3>2. Cardinality(CountedThreads \cup {t}) = Cardinality(CountedThreads) + 1
      <4> HIDE DEF CountedThreads, TypeOK
      <4> QED  BY <3>1, FS_AddElement
    <3>3. QED  BY <2>1, <3>1, <3>2 DEF Claim, CountIsExact
  <2>2. CASE Release(t)
    <3>1. t \in CountedThreads /\ CountedThreads' = CountedThreads \ {t}
      BY <2>2 DEF Release
    <3>2. Cardinality(CountedThreads \ {t}) = Cardinality(CountedThreads) - 1
      <4> HIDE DEF CountedThreads, TypeOK
      <4> QED  BY <3>1, FS_RemoveElement
    <3>3. QED  BY <2>2, <3>1, <3>2 DEF Release, CountIsExact
  <2>3. CASE ~Claim(t) /\ ~Release(t)
    <3>1. CountedThreads' = CountedThreads /\ activeDetours' = activeDetours
      BY <1>2, <2>3 DEF FrameStep, Exit, Start, CallFunction, RunOriginal,
         RunPatch, RunOther, LeaveStolen, DrainCalls, DrainReturns,
         LoadTrampoline, JumpToTrampoline, LeaveTrampoline
    <3>2. QED  BY <3>1 DEF CountIsExact
  <2>4. QED  BY <2>1, <2>2, <2>3
<1>3. QED
  BY <1>1, <1>2, ControllerKeepsThreads DEF Next, Frame, Controller, vars
-----------------------------------------------------------------------------
(* The detach: the answer "cold" and the unload that relies on it.         *)

LEMMA UnloadInvInit == Init => UnloadInv
<1> SUFFICES ASSUME Init PROVE UnloadInv  OBVIOUS
<1>1. CountIsExact
  <2>1. CountedThreads = {}  BY DEF Init, CountedThreads, Counted
  <2>2. QED  BY <2>1, FS_EmptySet DEF Init, CountIsExact
<1>2. SampledOutside /\ PatchedIsKnown /\ OutWhileWaiting
  BY DEF Init, SampledOutside, PatchedIsKnown, OutWhileWaiting
<1>3. ColdIsQuiet /\ SavedIsClean
  BY DEF Init, ColdIsQuiet, NoAnswer, SavedIsClean
<1>4. GoneIsQuiet  BY DEF Init, GoneIsQuiet
<1>5. QED  BY <1>1, <1>2, <1>3, <1>4, InitType DEF UnloadInv, DetachParts

LEMMA UnloadInvFrame ==
  ASSUME UnloadInv, NEW t \in FrameThreads, FrameStep(t)
  PROVE  DetachParts'
<1> USE FrameMoves DEF UnloadInv, DetachParts
<1>1. SampledOutside'
  BY DEF SampledOutside, OutWhileWaiting, Away
<1>2. OutWhileWaiting' /\ PatchedIsKnown' /\ SavedIsClean'
  BY DEF OutWhileWaiting, PatchedIsKnown, SavedIsClean
<1>3. ColdIsQuiet'  BY DEF ColdIsQuiet, Quiet
<1>4. GoneIsQuiet'  BY DEF GoneIsQuiet, Quiet
<1>5. QED  BY <1>1, <1>2, <1>3, <1>4

\* With everybody suspended outside the image and nobody counted, nobody is
\* inside: a thread inside either stands on the image or is counted.
LEMMA ColdSample ==
  ASSUME UnloadInv, ctl = "q_suspend", todo = {}, Cold
  PROVE  site # "patched" /\ Quiet
<1>1. IsFiniteSet(CountedThreads)
  BY FS_Subset DEF CountedThreads
<1>2. CountedThreads = {}
  BY <1>1, FS_EmptySet DEF UnloadInv, CountIsExact, Cold
<1>3. \A t \in FrameThreads : pos[t] \notin OnImage
  BY DEF UnloadInv, DetachParts, SampledOutside, OnImage
<1>4. Quiet
  BY <1>2, <1>3 DEF Quiet, Inside, CountedThreads, Counted
<1>5. QED  BY <1>4 DEF UnloadInv, DetachParts, OutWhileWaiting

LEMMA UnloadInvController ==
  ASSUME UnloadInv, Controller
  PROVE  DetachParts'
<1> USE ControllerKeepsThreads
    DEF UnloadInv, DetachParts, SampledOutside, PatchedIsKnown, OutWhileWaiting,
        SavedIsClean, ColdIsQuiet, GoneIsQuiet, Quiet, NoAnswer, StartSuspending, ResumeThreads
<1>1. ASSUME NEW t \in FrameThreads, SuspendNext(t) \/ SkipExited(t)
      PROVE  DetachParts'
  BY <1>1 DEF SuspendNext, SkipExited, Suspending, Forbidden
<1>2. CASE InstallBegin  BY <1>2 DEF InstallBegin, SampleMatches
<1>3. CASE InstallRefused  BY <1>3 DEF InstallRefused
<1>4. CASE InstallCopy  BY <1>4 DEF InstallCopy
<1>5. CASE InstallFails  BY <1>5 DEF InstallFails
<1>6. CASE InstallWrites  BY <1>6 DEF InstallWrites
<1>7. CASE InstallWritten  BY <1>7 DEF InstallWritten
<1>8. CASE InstallPublish  BY <1>8 DEF InstallPublish
<1>9. CASE RemoveBegin  BY <1>9 DEF RemoveBegin
<1>10. CASE RemoveAgain
  <2>1. outcome'.cold = FALSE  BY <1>10 DEF RemoveAgain
  <2>2. /\ UNCHANGED <<codeVars, pageVars, threadVars, suspendVars>>
        /\ ctl = "idle" /\ ctl' = "q_check" /\ loaded
    BY <1>10 DEF RemoveAgain
  <2>3. site # "patched"  BY <1>10 DEF RemoveAgain
  <2>4. QED  BY <2>1, <2>2, <2>3
<1>11. CASE RemoveFails  BY <1>11 DEF RemoveFails
<1>12. CASE RemoveWrites  BY <1>12 DEF RemoveWrites
<1>13. CASE RemoveWritten  BY <1>13 DEF RemoveWritten, SavedIsClean
<1>14. CASE RemoveVerified  BY <1>14 DEF RemoveVerified, PagesAfterRemoval, TypeOK, SiteBytes
<1>15. CASE RemoveUnverified  BY <1>15 DEF RemoveUnverified
<1>16. CASE QuiesceProbe  BY <1>16 DEF QuiesceProbe
<1>17. CASE QuiesceUnsafe  BY <1>17 DEF QuiesceUnsafe
<1>18. CASE QuiesceSample  BY <1>18, ColdSample DEF QuiesceSample
<1>19. CASE QuiesceRetry  BY <1>19 DEF QuiesceRetry
<1>20. CASE QuiesceGivesUp  BY <1>20 DEF QuiesceGivesUp
<1>21. CASE Unload  BY <1>21 DEF Unload, SavedIsClean
<1>22. CASE Foreign  BY <1>22 DEF Foreign
<1>23. QED
  BY <1>1, <1>2, <1>3, <1>4, <1>5, <1>6, <1>7, <1>8, <1>9, <1>10, <1>11,
     <1>12, <1>13, <1>14, <1>15, <1>16, <1>17, <1>18, <1>19, <1>20, <1>21,
     <1>22
     DEF Controller, Suspend, Install, Remove, Quiesce

LEMMA UnloadInvStep ==
  ASSUME UnloadInv, [Next]_vars
  PROVE  UnloadInv'
<1>1. TypeOK'  BY NextType DEF UnloadInv
<1>2. CountIsExact'  BY CountStep DEF UnloadInv
<1>3. DetachParts'
  <2>1. CASE Frame  BY <2>1, UnloadInvFrame DEF Frame
  <2>2. CASE Controller  BY <2>2, UnloadInvController
  <2>3. CASE UNCHANGED vars
    BY <2>3 DEF vars, UnloadInv, DetachParts, SampledOutside, PatchedIsKnown,
       OutWhileWaiting, SavedIsClean, ColdIsQuiet, GoneIsQuiet, Quiet
  <2>4. QED  BY <2>1, <2>2, <2>3 DEF Next, Controller
<1>4. QED  BY <1>1, <1>2, <1>3 DEF UnloadInv

\* When the module is unmapped no thread will execute another instruction of
\* it, for any number of frame threads, whatever they do and whoever installs
\* when: the count and the instruction pointers sampled under one suspension
\* decide it.
THEOREM UnloadSafety == Spec => []UnloadIsSafe
<1>1. UnloadInv => UnloadIsSafe
  BY DEF UnloadInv, DetachParts, GoneIsQuiet, Quiet, UnloadIsSafe
<1>2. QED  BY <1>1, UnloadInvInit, UnloadInvStep, PTL DEF Spec
-----------------------------------------------------------------------------
(* The write: nobody stands in the bytes that are being replaced.          *)

LEMMA WriteInvInit == Init => WriteInv
  BY UnloadInvInit DEF Init, WriteInv, WriteParts, HeldOutside, AllVisited,
     TornInAWrite, StolenIsWhole, Rewriting

\* A thread that is held does not move, and one that starts meanwhile is late.
LEMMA WriteInvFrame ==
  ASSUME WriteInv, NEW t \in FrameThreads, FrameStep(t)
  PROVE  WriteParts'
<1> USE FrameMoves DEF WriteInv, WriteParts, UnloadInv
<1>1. HeldOutside'  BY DEF HeldOutside, Rewriting
<1>2. AllVisited' /\ TornInAWrite'  BY DEF AllVisited, TornInAWrite
<1>3. StolenIsWhole'  BY DEF StolenIsWhole
<1>4. QED  BY <1>1, <1>2, <1>3

LEMMA WriteInvController ==
  ASSUME WriteInv, Controller
  PROVE  WriteParts'
<1> USE ControllerKeepsThreads
    DEF WriteInv, WriteParts, HeldOutside, AllVisited, TornInAWrite,
        StolenIsWhole, StartSuspending, ResumeThreads, Rewriting
<1>1. ASSUME NEW t \in FrameThreads, SuspendNext(t) \/ SkipExited(t)
      PROVE  WriteParts'
  BY <1>1 DEF SuspendNext, SkipExited, Suspending, Forbidden, UnloadInv,
     DetachParts, OutWhileWaiting
<1>2. CASE InstallBegin  BY <1>2 DEF InstallBegin
<1>3. CASE InstallRefused  BY <1>3 DEF InstallRefused
<1>4. CASE InstallCopy  BY <1>4 DEF InstallCopy
<1>5. CASE InstallFails  BY <1>5 DEF InstallFails
<1>6. CASE InstallWrites  BY <1>6 DEF InstallWrites
<1>7. CASE InstallWritten  BY <1>7 DEF InstallWritten
<1>8. CASE InstallPublish  BY <1>8 DEF InstallPublish
<1>9. CASE RemoveBegin  BY <1>9 DEF RemoveBegin
<1>10. CASE RemoveAgain  BY <1>10 DEF RemoveAgain
<1>11. CASE RemoveFails  BY <1>11 DEF RemoveFails
<1>12. CASE RemoveWrites  BY <1>12 DEF RemoveWrites
<1>13. CASE RemoveWritten  BY <1>13 DEF RemoveWritten, UnloadInv, DetachParts, SavedIsClean
<1>14. CASE RemoveVerified  BY <1>14 DEF RemoveVerified
<1>15. CASE RemoveUnverified  BY <1>15 DEF RemoveUnverified
<1>16. CASE QuiesceProbe  BY <1>16 DEF QuiesceProbe
<1>17. CASE QuiesceUnsafe  BY <1>17 DEF QuiesceUnsafe
<1>18. CASE QuiesceSample  BY <1>18 DEF QuiesceSample
<1>19. CASE QuiesceRetry  BY <1>19 DEF QuiesceRetry
<1>20. CASE QuiesceGivesUp  BY <1>20 DEF QuiesceGivesUp
<1>21. CASE Unload  BY <1>21 DEF Unload, UnloadInv, DetachParts, SavedIsClean
<1>22. CASE Foreign  BY <1>22 DEF Foreign
<1>23. QED
  BY <1>1, <1>2, <1>3, <1>4, <1>5, <1>6, <1>7, <1>8, <1>9, <1>10, <1>11,
     <1>12, <1>13, <1>14, <1>15, <1>16, <1>17, <1>18, <1>19, <1>20, <1>21,
     <1>22
     DEF Controller, Suspend, Install, Remove, Quiesce

LEMMA WriteInvStep ==
  ASSUME WriteInv, [Next]_vars
  PROVE  WriteInv'
<1>1. UnloadInv'  BY UnloadInvStep DEF WriteInv
<1>2. WriteParts'
  <2>1. CASE Frame  BY <2>1, WriteInvFrame DEF Frame
  <2>2. CASE Controller  BY <2>2, WriteInvController
  <2>3. CASE UNCHANGED vars
    BY <2>3 DEF vars, WriteInv, WriteParts, HeldOutside, AllVisited,
       TornInAWrite, StolenIsWhole
  <2>4. QED  BY <2>1, <2>2, <2>3 DEF Next, Controller
<1>3. QED  BY <1>1, <1>2 DEF WriteInv

\* No thread is between the first and the last of the replaced instructions
\* while they are rewritten or once they are the jump, but for one that started
\* after the snapshot of the suspension: for any number of threads and any
\* interleaving of writes, refusals and other tools.
THEOREM WriteSafety == Spec => []NoThreadUnderWrite
<1>1. WriteInv => NoThreadUnderWrite
  BY DEF WriteInv, WriteParts, HeldOutside, AllVisited, TornInAWrite,
     StolenIsWhole, Rewriting, NoThreadUnderWrite
<1>2. QED  BY <1>1, WriteInvInit, WriteInvStep, PTL DEF Spec

-----------------------------------------------------------------------------
(* The trampoline pages.                                                   *)

PageParts == UnknownIsQuiet /\ InstallIsQuiet /\ InstallHasPage /\ HookHasPage
             /\ TrampolineIsThere

LEMMA PageInvInit == Init => PageInv
  BY UnloadInvInit DEF Init, PageInv, UnknownIsQuiet, Quiet, Inside, OnImage,
     InstallIsQuiet, InstallHasPage, HookHasPage, TrampolineIsThere

LEMMA PageInvFrame ==
  ASSUME PageInv, NEW t \in FrameThreads, FrameStep(t)
  PROVE  PageParts'
<1> USE FrameMoves DEF PageInv, PageParts, UnloadInv
<1>1. UnknownIsQuiet'  BY DEF UnknownIsQuiet, Quiet
<1>2. HookHasPage'  BY DEF HookHasPage
<1>3. InstallIsQuiet' /\ InstallHasPage' /\ TrampolineIsThere'
  <2> USE DEF TypeOK, InstallIsQuiet, InstallHasPage, Quiet, Inside, OnImage,
              HookHasPage, TrampolineIsThere
  <2>1. CASE Exit(t)             BY <2>1 DEF Exit
  <2>2. CASE Start(t)            BY <2>2 DEF Start
  <2>3. CASE CallFunction(t)     BY <2>3 DEF CallFunction
  <2>4. CASE RunOriginal(t)      BY <2>4 DEF RunOriginal
  <2>5. CASE RunPatch(t)         BY <2>5 DEF RunPatch
  <2>6. CASE RunOther(t)         BY <2>6 DEF RunOther
  <2>7. CASE LeaveStolen(t)      BY <2>7 DEF LeaveStolen
  <2>8. CASE Claim(t)            BY <2>8 DEF Claim
  <2>9. CASE DrainCalls(t)       BY <2>9 DEF DrainCalls
  <2>10. CASE DrainReturns(t)    BY <2>10 DEF DrainReturns
  <2>11. CASE LoadTrampoline(t)  BY <2>11 DEF LoadTrampoline
  <2>12. CASE Release(t)         BY <2>12 DEF Release
  <2>13. CASE JumpToTrampoline(t) BY <2>13 DEF JumpToTrampoline
  <2>14. CASE LeaveTrampoline(t) BY <2>14 DEF LeaveTrampoline
  <2>15. QED
    BY <2>1, <2>2, <2>3, <2>4, <2>5, <2>6, <2>7, <2>8, <2>9, <2>10, <2>11,
       <2>12, <2>13, <2>14 DEF FrameStep
<1>4. QED  BY <1>1, <1>2, <1>3

LEMMA PageInvController ==
  ASSUME ~ReinstallWhileWarm, PageInv, Controller
  PROVE  PageParts'
<1> USE ControllerKeepsThreads
    DEF PageInv, PageParts, UnloadInv, DetachParts, UnknownIsQuiet, InstallIsQuiet,
        InstallHasPage, HookHasPage, TrampolineIsThere, Quiet, Inside, OnImage
<1>1. ASSUME NEW t \in FrameThreads, SuspendNext(t) \/ SkipExited(t)
      PROVE  PageParts'
  BY <1>1 DEF SuspendNext, SkipExited
<1>2. CASE InstallBegin  BY <1>2 DEF InstallBegin, MayInstall, ColdIsQuiet, SampleMatches, TypeOK
<1>3. CASE InstallRefused  BY <1>3 DEF InstallRefused
<1>4. CASE InstallCopy  BY <1>4 DEF InstallCopy, TypeOK
<1>5. CASE InstallFails  BY <1>5 DEF InstallFails
<1>6. CASE InstallWrites  BY <1>6 DEF InstallWrites
<1>7. CASE InstallWritten  BY <1>7 DEF InstallWritten
<1>8. CASE InstallPublish  BY <1>8 DEF InstallPublish
<1>9. CASE RemoveBegin  BY <1>9 DEF RemoveBegin
<1>10. CASE RemoveAgain  BY <1>10 DEF RemoveAgain
<1>11. CASE RemoveFails  BY <1>11 DEF RemoveFails
<1>12. CASE RemoveWrites  BY <1>12 DEF RemoveWrites
<1>13. CASE RemoveWritten  BY <1>13 DEF RemoveWritten, SavedIsClean
<1>14. CASE RemoveVerified  BY <1>14 DEF RemoveVerified, PagesAfterRemoval
<1>15. CASE RemoveUnverified  BY <1>15 DEF RemoveUnverified
<1>16. CASE QuiesceProbe  BY <1>16 DEF QuiesceProbe
<1>17. CASE QuiesceUnsafe  BY <1>17 DEF QuiesceUnsafe
<1>18. CASE QuiesceSample  BY <1>18 DEF QuiesceSample
<1>19. CASE QuiesceRetry  BY <1>19 DEF QuiesceRetry
<1>20. CASE QuiesceGivesUp  BY <1>20 DEF QuiesceGivesUp
<1>21. CASE Unload  BY <1>21 DEF Unload, SavedIsClean
<1>22. CASE Foreign  BY <1>22 DEF Foreign
<1>23. QED
  BY <1>1, <1>2, <1>3, <1>4, <1>5, <1>6, <1>7, <1>8, <1>9, <1>10, <1>11,
     <1>12, <1>13, <1>14, <1>15, <1>16, <1>17, <1>18, <1>19, <1>20, <1>21,
     <1>22
     DEF Controller, Suspend, Install, Remove, Quiesce

LEMMA PageInvStep ==
  ASSUME ~ReinstallWhileWarm, PageInv, [Next]_vars
  PROVE  PageInv'
<1>1. UnloadInv'  BY UnloadInvStep DEF PageInv
<1>2. PageParts'
  <2>1. CASE Frame  BY <2>1, PageInvFrame DEF Frame
  <2>2. CASE Controller  BY <2>2, PageInvController
  <2>3. CASE UNCHANGED vars
    BY <2>3 DEF vars, PageInv, PageParts, UnknownIsQuiet, InstallIsQuiet,
       InstallHasPage, HookHasPage, TrampolineIsThere, Quiet
  <2>4. QED  BY <2>1, <2>2, <2>3 DEF Next, Controller
<1>3. QED  BY <1>1, <1>2 DEF PageInv, PageParts

\* A thread in the detour has a page to leave through and no page is freed
\* under a thread, provided that nothing is installed again before a detach
\* answered that the module is cold.
THEOREM TrampolineSafety ==
  ASSUME ~ReinstallWhileWarm
  PROVE  Spec => []TrampolineIsThere
<1>1. PageInv => TrampolineIsThere  BY DEF PageInv
<1>2. QED  BY <1>1, PageInvInit, PageInvStep, PTL DEF Spec
-----------------------------------------------------------------------------
(* The refinement.                                                         *)

LEMMA ContractStep ==
  ASSUME ~ReinstallWhileWarm, PageInv, [Next]_vars
  PROVE  [Contract!Next]_(Contract!vars)
<1> DEFINE hooked == site = "patched"
           inside == {t \in FrameThreads : pos[t] \in Inside}
<1> USE DEF PageInv, UnloadInv, DetachParts, Contract!Next, Contract!vars
<1>1. ASSUME NEW t \in FrameThreads, FrameStep(t)
      PROVE  [Contract!Next]_(Contract!vars)
  <2> /\ loaded' = loaded /\ hooked' = hooked
      /\ pos' \in [FrameThreads -> Positions]
    BY <1>1, FrameMoves, FrameType DEF TypeOK
  <2>1. CASE pos'[t] \in Inside /\ pos[t] \notin Inside
    <3>1. hooked /\ inside' = inside \cup {t}
      BY <1>1, <2>1, FrameMoves
    <3>2. Contract!Enter(t)  BY <3>1 DEF Contract!Enter
    <3>3. QED  BY <3>2
  <2>2. CASE pos'[t] \notin Inside /\ pos[t] \in Inside
    <3>1. inside' = inside \ {t}  BY <1>1, <2>2, FrameMoves
    <3>2. Contract!Leave(t)  BY <3>1 DEF Contract!Leave
    <3>3. QED  BY <3>2
  <2>3. CASE pos'[t] \in Inside <=> pos[t] \in Inside
    <3>1. inside' = inside  BY <1>1, <2>3, FrameMoves
    <3>2. QED  BY <3>1
  <2>4. QED  BY <2>1, <2>2, <2>3
<1>2. CASE Controller
  <2>1. inside' = inside  BY <1>2, ControllerKeepsThreads
  <2>2. CASE InstallWritten
    <3>1. /\ loaded /\ ~hooked /\ inside = {}
          /\ hooked' /\ loaded' = loaded
      BY <2>2 DEF InstallWritten, InstallIsQuiet, Quiet, GoneIsQuiet
    <3>2. Contract!Hook  BY <2>1, <3>1 DEF Contract!Hook
    <3>3. QED  BY <3>2
  <2>3. CASE InstallWrites \/ RemoveWrites \/ RemoveWritten \/ Foreign
    <3>1. ~hooked' /\ loaded' = loaded
      BY <2>3 DEF InstallWrites, RemoveWrites, RemoveWritten, Foreign, SavedIsClean
    <3>2. CASE hooked
      BY <2>1, <3>1, <3>2 DEF Contract!Unhook
    <3>3. CASE ~hooked  BY <2>1, <3>1, <3>3
    <3>4. QED  BY <3>2, <3>3
  <2>4. CASE Unload
    <3>1. /\ loaded /\ ~hooked /\ inside = {}
          /\ ~loaded' /\ ~hooked'
      BY <2>4 DEF Unload, ColdIsQuiet, SavedIsClean, Quiet
    <3>2. Contract!Unload
      BY <2>1, <2>4, <3>1 DEF Unload, Contract!Unload
    <3>3. QED  BY <3>2
  <2>5. CASE ~(InstallWritten \/ InstallWrites \/ RemoveWrites
               \/ RemoveWritten \/ Foreign \/ Unload)
    <3>1. UNCHANGED <<site, loaded>>
      BY <1>2, <2>5 DEF Controller, Suspend, Install, Remove, Quiesce,
         SuspendNext, SkipExited, InstallBegin, InstallRefused, InstallCopy,
         InstallFails, InstallPublish, RemoveBegin, RemoveAgain, RemoveFails,
         RemoveVerified, RemoveUnverified, QuiesceProbe, QuiesceUnsafe,
         QuiesceSample, QuiesceRetry, QuiesceGivesUp
    <3>2. QED  BY <2>1, <3>1
  <2>6. QED  BY <2>2, <2>3, <2>4, <2>5
<1>3. CASE UNCHANGED vars  BY <1>3 DEF vars
<1>4. QED  BY <1>1, <1>2, <1>3 DEF Next, Frame, Controller

\* The hook implements its contract, for any number of threads and pages, with
\* the same provision as TrampolineSafety.
THEOREM Refinement ==
  ASSUME ~ReinstallWhileWarm
  PROVE  Spec => ImplementsContract
<1>1. Init => Contract!Init
  BY DEF Init, Contract!Init, Inside, OnImage
<1>2. QED
  BY <1>1, PageInvInit, PageInvStep, ContractStep, PTL
     DEF Spec, ImplementsContract, Contract!Spec
-----------------------------------------------------------------------------
(* The bytes at the site.                                                  *)

\* What a removal read or wrote stays at the site for as long as it waits,
\* unless another tool writes there.
ReadIsValid ==
  ctl \in Quiescing /\ outcome.verified /\ siteKnown => site = saved \/ meddled

LEMMA ReadIsValidController ==
  ASSUME TypeOK, ReadIsValid, Controller
  PROVE  ReadIsValid'
<1> USE DEF ReadIsValid, Quiescing
<1>1. ASSUME NEW t \in FrameThreads, SuspendNext(t) \/ SkipExited(t)
      PROVE  ReadIsValid'
  BY <1>1 DEF SuspendNext, SkipExited
<1>2. CASE InstallBegin  BY <1>2 DEF InstallBegin
<1>3. CASE InstallRefused  BY <1>3 DEF InstallRefused
<1>4. CASE InstallCopy  BY <1>4 DEF InstallCopy
<1>5. CASE InstallFails  BY <1>5 DEF InstallFails
<1>6. CASE InstallWrites  BY <1>6 DEF InstallWrites
<1>7. CASE InstallWritten  BY <1>7 DEF InstallWritten
<1>8. CASE InstallPublish  BY <1>8 DEF InstallPublish
<1>9. CASE RemoveBegin  BY <1>9 DEF RemoveBegin
<1>10. CASE RemoveAgain  BY <1>10 DEF RemoveAgain, ReadsRestored
<1>11. CASE RemoveFails  BY <1>11 DEF RemoveFails
<1>12. CASE RemoveWrites  BY <1>12 DEF RemoveWrites
<1>13. CASE RemoveWritten  BY <1>13 DEF RemoveWritten
<1>14. CASE RemoveVerified  BY <1>14 DEF RemoveVerified
<1>15. CASE RemoveUnverified  BY <1>15 DEF RemoveUnverified
<1>16. CASE QuiesceProbe  BY <1>16 DEF QuiesceProbe
<1>17. CASE QuiesceUnsafe  BY <1>17 DEF QuiesceUnsafe
<1>18. CASE QuiesceSample  BY <1>18 DEF QuiesceSample, TypeOK
<1>19. CASE QuiesceRetry  BY <1>19 DEF QuiesceRetry
<1>20. CASE QuiesceGivesUp  BY <1>20 DEF QuiesceGivesUp
<1>21. CASE Unload  BY <1>21 DEF Unload
<1>22. CASE Foreign  BY <1>22 DEF Foreign
<1>23. QED
  BY <1>1, <1>2, <1>3, <1>4, <1>5, <1>6, <1>7, <1>8, <1>9, <1>10, <1>11,
     <1>12, <1>13, <1>14, <1>15, <1>16, <1>17, <1>18, <1>19, <1>20, <1>21,
     <1>22
     DEF Controller, Suspend, Install, Remove, Quiesce

LEMMA FrameKeepsCode ==
  ASSUME TypeOK, Frame
  PROVE  UNCHANGED <<codeVars, pageVars, suspendVars, ctl, waitVars, meddled>>
  BY FrameMoves DEF Frame

LEMMA ReadIsValidStep ==
  ASSUME TypeOK, ReadIsValid, [Next]_vars
  PROVE  ReadIsValid'
<1>1. CASE Frame \/ UNCHANGED vars
  BY <1>1, FrameKeepsCode DEF vars, ReadIsValid
<1>2. CASE Controller  BY <1>2, ReadIsValidController
<1>3. QED  BY <1>1, <1>2 DEF Next, Controller

LEMMA AnswerIsRead ==
  ASSUME TypeOK, ReadIsValid, [Next]_vars,
         ctl \in Quiescing, ctl' = "idle", outcome'.verified, siteKnown
  PROVE  site' = saved \/ meddled
<1> USE DEF ReadIsValid, Quiescing
<1>1. ~Frame /\ ~UNCHANGED vars  BY FrameKeepsCode DEF vars
<1>2. ~Suspend /\ ~Unload /\ ~Foreign
  BY DEF Suspend, SuspendNext, SkipExited, Unload, Foreign
<1>3. ~Install
  BY DEF Install, InstallBegin, InstallRefused, InstallCopy, InstallFails,
     InstallWrites, InstallWritten, InstallPublish
<1>4. ~Remove
  BY DEF Remove, RemoveBegin, RemoveAgain, RemoveFails, RemoveWrites,
     RemoveWritten, RemoveVerified, RemoveUnverified
<1>5. CASE Quiesce
  <2>1. outcome'.verified = outcome.verified /\ site' = site
    BY <1>5 DEF Quiesce, QuiesceProbe, QuiesceUnsafe, QuiesceSample,
       QuiesceRetry, QuiesceGivesUp, TypeOK
  <2>2. QED  BY <2>1
<1>6. QED  BY <1>1, <1>2, <1>3, <1>4, <1>5 DEF Next

\* A removal that ends with "verified" leaves at the site what the install saved,
\* however many calls, refusals and writes of other tools came before it, unless
\* another tool wrote there after the removal itself had.
THEOREM VerifiedIsTrue == Spec => VerifiedMeansRestored
<1>1. TypeOK /\ ReadIsValid /\ [Next]_vars =>
        [(ctl \in Quiescing /\ ctl' = "idle" /\ outcome'.verified /\ siteKnown)
         => (site' = saved \/ meddled)]_vars
  BY AnswerIsRead
<1>2. Init => ReadIsValid  BY DEF Init, ReadIsValid, Quiescing
<1>3. QED
  BY <1>1, <1>2, ReadIsValidStep, TypeCorrect, PTL DEF Spec, VerifiedMeansRestored

-----------------------------------------------------------------------------
(* How long a call takes: every step of the controller uses up one of the  *)
(* steps that are left, and nobody else gives it new ones.                 *)

\* One pass of the quiescence loop: the probe, a visit of every thread, the
\* sample and the sleep.
PassLength == Cardinality(FrameThreads) + 3
PassesLeft(p) == (MaxPasses - p) * PassLength
WholeWait == MaxPasses * PassLength + PassLength

\* The steps left at c with n threads to visit and p passes behind.
StepsAt(c, n, p) ==
  CASE c = "idle"      -> 0
    [] c = "i_publish" -> 1
    [] c = "i_write"   -> 2
    [] c = "i_suspend" -> 3 + n
    [] c = "i_copy"    -> 4 + Cardinality(FrameThreads)
    [] c = "q_wait"    -> 1 + PassesLeft(p)
    [] c = "q_suspend" -> 2 + n + PassesLeft(p)
    [] c = "q_check"   -> PassLength + PassesLeft(p)
    [] c = "r_verify"  -> 1 + WholeWait
    [] c = "r_write"   -> 2 + WholeWait
    [] c = "r_suspend" -> 3 + n + WholeWait
StepsLeft == StepsAt(ctl, Cardinality(todo), passes)
LongestCall == 3 + Cardinality(FrameThreads) + WholeWait

CallIsBounded ==
  [][Busy => IF ControllerStep THEN StepsLeft' < StepsLeft
                               ELSE StepsLeft' = StepsLeft]_vars

\* A pass that begins takes the length of a pass off what is left.
LEMMA PassesShrink ==
  ASSUME NEW p \in 0..MaxPasses
  PROVE  /\ PassLength \in Nat
         /\ PassesLeft(p) \in Nat
         /\ PassesLeft(p) <= MaxPasses * PassLength
         /\ p < MaxPasses => PassesLeft(p + 1) + PassLength = PassesLeft(p)
<1>1. PassLength \in Nat /\ Cardinality(FrameThreads) \in Nat
  BY FS_CardinalityType DEF PassLength
<1> DEFINE len == PassLength
           left == MaxPasses - p
<1>2. left \in Nat /\ left <= MaxPasses /\ len \in Nat  BY <1>1
<1> HIDE DEF len, left
<1>3. \A a, b, l \in Nat : a <= b => a * l \in Nat /\ a * l <= b * l
  OBVIOUS
<1>4. left * len \in Nat /\ left * len <= MaxPasses * len  BY <1>2, <1>3
<1>5. \A a, l \in Nat : (a - 1) * l + l = a * l  OBVIOUS
<1>6. (left - 1) * len + len = left * len  BY <1>2, <1>5
<1>7. MaxPasses - (p + 1) = left - 1  BY DEF left
<1>8. QED  BY <1>1, <1>4, <1>6, <1>7 DEF PassesLeft, len, left

LEMMA StepsAreBounded ==
  ASSUME TypeOK
  PROVE  StepsLeft \in 0..LongestCall
<1> DEFINE all == Cardinality(FrameThreads)
           n == Cardinality(todo)
<1>1. n \in Nat /\ all \in Nat /\ n <= all
  BY FS_CardinalityType, FS_Subset DEF TypeOK
<1>2. ctl \in ControllerStates /\ passes \in 0..MaxPasses  BY DEF TypeOK
<1>3. /\ PassLength = all + 3
      /\ PassesLeft(passes) \in Nat
      /\ PassesLeft(passes) + PassLength <= WholeWait
      /\ WholeWait \in Nat
  BY <1>1, <1>2, PassesShrink DEF PassLength, WholeWait
<1> HIDE DEF all, n
<1> DEFINE Fits(k) == k \in Nat /\ k <= 3 + all + WholeWait
<1>4. Fits(StepsAt(ctl, n, passes))
  <2> USE <1>1, <1>2, <1>3 DEF StepsAt
  <2>1. CASE ctl \in {"idle", "i_publish", "i_write", "i_suspend", "i_copy"}
    BY <2>1 DEF all
  <2>2. CASE ctl \in Quiescing  BY <2>2 DEF Quiescing
  <2>3. CASE ctl \in {"r_verify", "r_write", "r_suspend"}  BY <2>3
  <2>4. QED  BY <2>1, <2>2, <2>3 DEF ControllerStates, Quiescing
<1>5. QED  BY <1>1, <1>3, <1>4 DEF StepsLeft, LongestCall, all, n

\* Visiting a thread uses up a step.
LEMMA VisitShrinks ==
  ASSUME TypeOK, NEW t \in todo, todo' = todo \ {t}
  PROVE  /\ Cardinality(todo) \in Nat /\ Cardinality(todo') \in Nat
         /\ Cardinality(todo') < Cardinality(todo)
  BY FS_Subset, FS_RemoveElement, FS_CardinalityType DEF TypeOK

LEMMA CallStep ==
  ASSUME TypeOK, TypeOK', ControllerStep
  PROVE  StepsLeft' < StepsLeft
<1> DEFINE all == Cardinality(FrameThreads)
           n == Cardinality(todo)
           m == Cardinality(todo')
           L == PassesLeft(passes)
           R == PassesLeft(passes')
<1>1. /\ n \in Nat /\ all \in Nat /\ m \in Nat
      /\ n <= all /\ m <= all
  BY FS_CardinalityType, FS_Subset DEF TypeOK
<1>2. passes \in 0..MaxPasses /\ passes' \in 0..MaxPasses  BY DEF TypeOK
<1>3. /\ PassLength = all + 3 /\ PassLength \in Nat
      /\ L \in Nat /\ R \in Nat
      /\ L + PassLength <= WholeWait /\ R + PassLength <= WholeWait
      /\ passes' = passes + 1 => R + PassLength = L
  BY <1>1, <1>2, PassesShrink DEF PassLength, WholeWait
<1>4. StepsLeft = StepsAt(ctl, n, passes) /\ StepsLeft' = StepsAt(ctl', m, passes')
  BY DEF StepsLeft
<1>5. WholeWait \in Nat /\ WholeWait = PassesLeft(0) + PassLength
  BY <1>1, <1>3 DEF PassesLeft, WholeWait
<1>6. passes' = 0 => R = PassesLeft(0)  OBVIOUS
<1>7. passes' = passes => R = L  OBVIOUS
<1> HIDE DEF all, n, m
<1> SUFFICES StepsAt(ctl', m, passes') < StepsAt(ctl, n, passes)
  BY <1>4
<1> USE DEF StepsAt
<1>8. CASE Suspend
  <2>1. PICK t \in todo : SuspendNext(t) \/ SkipExited(t)
    BY <1>8 DEF Suspend, SuspendNext, SkipExited
  <2>2. ctl' = ctl /\ passes' = passes /\ ctl \in Suspending
    BY <2>1 DEF SuspendNext, SkipExited
  <2>3. m < n
    BY <2>1, VisitShrinks DEF SuspendNext, SkipExited, n, m
  <2>4. QED  BY <1>1, <1>3, <1>5, <1>7, <2>2, <2>3 DEF Suspending
<1>9. CASE Install
  BY <1>1, <1>9 DEF ControllerStep, Busy, Install, InstallBegin, InstallRefused,
     InstallCopy, InstallFails, InstallWrites, InstallWritten, InstallPublish, all
<1>10. CASE Remove
  <2>1. ctl # "idle"  BY DEF ControllerStep, Busy
  <2>2. CASE RemoveFails \/ RemoveWrites \/ RemoveWritten \/ RemoveUnverified
    BY <1>1, <1>5, <2>2
       DEF RemoveFails, RemoveWrites, RemoveWritten, RemoveUnverified
  <2>3. CASE RemoveVerified
    BY <1>3, <1>5, <1>6, <2>3 DEF RemoveVerified
  <2>4. QED
    BY <1>10, <2>1, <2>2, <2>3 DEF Remove, RemoveBegin, RemoveAgain
<1>11. CASE Quiesce
  <2>1. CASE QuiesceProbe
    <3>1. passes' = passes /\ ctl = "q_check" /\ ctl' \in {"q_suspend", "q_wait"}
      BY <2>1 DEF QuiesceProbe
    <3>2. QED  BY <1>1, <1>3, <1>7, <3>1
  <2>2. CASE QuiesceUnsafe
    BY <1>1, <1>3, <1>7, <2>2 DEF QuiesceUnsafe
  <2>3. CASE QuiesceSample
    <3>1. /\ passes' = passes /\ ctl = "q_suspend"
          /\ ctl' \in {"idle", "q_wait"}
      BY <2>3 DEF QuiesceSample
    <3>2. QED  BY <1>1, <1>3, <1>7, <3>1
  <2>4. CASE QuiesceRetry
    BY <1>3, <2>4 DEF QuiesceRetry
  <2>5. CASE QuiesceGivesUp
    BY <1>1, <1>3, <2>5 DEF QuiesceGivesUp
  <2>6. QED  BY <1>11, <2>1, <2>2, <2>3, <2>4, <2>5 DEF Quiesce
<1>12. QED  BY <1>8, <1>9, <1>10, <1>11 DEF ControllerStep

\* The frame threads, other tools and the unload use up no step of a call and
\* add none.
LEMMA OthersKeepSteps ==
  ASSUME TypeOK, [Next]_vars, Busy, ~ControllerStep
  PROVE  StepsLeft' = StepsLeft
<1>1. Frame \/ Foreign \/ UNCHANGED vars
  BY DEF Next, ControllerStep, Busy, Unload
<1>2. ctl' = ctl /\ todo' = todo /\ passes' = passes
  BY <1>1, FrameKeepsCode DEF Foreign, vars
<1>3. QED  BY <1>2 DEF StepsLeft

\* A call of the controller is over after at most LongestCall steps of its own
\* thread, for any number of game threads and any length of the wait, whatever
\* those threads do meanwhile and however often the system refuses.
THEOREM BoundedCalls == Spec => [](StepsLeft \in 0..LongestCall) /\ CallIsBounded
<1>1. TypeOK => StepsLeft \in 0..LongestCall  BY StepsAreBounded
<1>2. TypeOK /\ TypeOK' /\ [Next]_vars =>
        [Busy => IF ControllerStep THEN StepsLeft' < StepsLeft
                                   ELSE StepsLeft' = StepsLeft]_vars
  BY CallStep, OthersKeepSteps
<1>3. QED  BY <1>1, <1>2, TypeCorrect, PTL DEF Spec, CallIsBounded
=============================================================================
