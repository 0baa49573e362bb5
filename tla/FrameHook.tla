----------------------------- MODULE FrameHook -----------------------------
(***************************************************************************)
(* The per-frame hook: src/dll/frame_hook.cpp and src/dll/detour.asm.      *)
(*                                                                         *)
(* FrameThreads are the game threads that run the hooked function; each is *)
(* modelled by where its instruction pointer stands.  One controller makes *)
(* the calls InstallFrameHook and RemoveFrameHook, one at a time, and may  *)
(* unload the module once a removal answered both of its questions.  The   *)
(* module is the safety argument of the detach: the count of active        *)
(* detours and the instruction pointers, sampled together with every other *)
(* thread suspended, are enough to know that nobody will execute another   *)
(* instruction of the module.                                              *)
(*                                                                         *)
(* Another tool may write to the same bytes at any time, from the process  *)
(* or from outside.  It is assumed to jump nowhere but to code of its own  *)
(* and to put back nothing but the game's bytes: with a tool that kept     *)
(* this module's jump for later no detach would be safe.                   *)
(*                                                                         *)
(* A refused call that changes nothing (the early returns of               *)
(* InstallFrameHook) is a stuttering step.                                 *)
(***************************************************************************)
EXTENDS Integers, FiniteSets

CONSTANTS
  FrameThreads,        \* the threads that execute the hooked function
  Pages,               \* the addresses VirtualAlloc may return
  NoPage,              \* nullptr
  MaxTrampolinePages,  \* kMaxTrampolinePages
  MaxPasses,           \* passes of the quiescence loop that fit its timeout
  ReinstallWhileWarm,  \* may a caller install again before a cold answer?
  CallsMayBeRefused    \* may OpenThread, VirtualProtect and the like fail?

ASSUME HookAssumption ==
  /\ IsFiniteSet(FrameThreads)
  /\ NoPage \notin Pages
  /\ MaxTrampolinePages \in Nat
  /\ MaxPasses \in Nat
  /\ {ReinstallWhileWarm, CallsMayBeRefused} \subseteq BOOLEAN

VARIABLES
  loaded,            \* the module image is mapped
  site,              \* the bytes of the hook site
  patched,           \* g_patched
  siteKnown,         \* g_site # nullptr
  saved,             \* g_original
  trampoline,        \* g_trampoline, read by the detour; g_trampoline_memory is
                     \* the same page while an install can still fail
  pages,             \* g_trampoline_pages: the pages allocated and kept
  activeDetours,     \* g_active_detours
  pos,               \* where each frame thread's instruction pointer stands
  r11,               \* each frame thread's copy of the trampoline address
  suspended,         \* frame threads SuspendOtherThreads holds
  todo,              \* frame threads it has still to visit
  ctl,               \* where the controller is
  passes,            \* passes of the current quiescence wait
  outcome,           \* the two answers of the last RemoveFrameHook
  late,              \* history: threads that started after the snapshot of the
                     \* suspension for a write, or stand in the stolen bytes
                     \* ever since
  meddled            \* history: another tool wrote to the site since the last
                     \* removal wrote or read it, and before it returned

otherCode == <<loaded, patched, siteKnown, saved>>
codeVars == <<site, otherCode>>
pageVars == <<trampoline, pages>>
threadVars == <<activeDetours, pos, r11>>
suspendVars == <<suspended, todo>>
waitVars == <<passes, outcome>>
vars == <<codeVars, pageVars, threadVars, suspendVars, ctl, waitVars, late,
          meddled>>

(***************************************************************************)
(* Instruction pointers.  "none" is a thread that does not exist, "game"   *)
(* anywhere else in the process, "site" the first byte of the hooked       *)
(* function and "stolen" the rest of its stolen bytes.  The detour is      *)
(* "entry" (before its locked increment), "drain", "call" (inside a game   *)
(* or system function the drain called), "exit" (the trampoline address is *)
(* in R11) and "released" (after its locked decrement); "tramp" is a       *)
(* trampoline page.                                                        *)
(***************************************************************************)
OnImage == {"entry", "drain", "exit", "released"}
Counted == {"drain", "call", "exit"}
Inside  == OnImage \cup {"call"}
Positions == {"none", "game", "site", "stolen", "tramp"} \cup Inside

SiteBytes == {"original", "patched", "torn", "other"}
ControllerStates ==
  {"idle", "i_copy", "i_suspend", "i_write", "i_publish", "r_suspend", "r_write",
   "r_verify", "q_check", "q_suspend", "q_wait"}
NoAnswer == [verified |-> FALSE, cold |-> FALSE]

\* Mutants: the range of the write stops after its first byte; the quiescence
\* wait looks at the trampoline pages only; SelfImageRange returns the game's
\* image instead of the module's.
ForbiddenFirstByteOnly ==
  IF ctl = "q_suspend" THEN OnImage \cup {"tramp"} ELSE {"site"}
ForbiddenWithoutImage ==
  IF ctl = "q_suspend" THEN {"tramp"} ELSE {"site", "stolen"}
ForbiddenGameImage ==
  IF ctl = "q_suspend" THEN {"game", "tramp"} ELSE {"site", "stolen"}

\* Where a thread must not stand for the suspension in progress to succeed:
\* the stolen region around a write, the module image and the trampoline
\* pages while quiescence is sampled.
Forbidden == IF ctl = "q_suspend" THEN OnImage \cup {"tramp"}
                                  ELSE {"site", "stolen"}

\* The calls that look at the other threads, and those that do so for a write,
\* up to its last byte.
Suspending == {"i_suspend", "r_suspend", "q_suspend"}
Quiescing == {"q_check", "q_suspend", "q_wait"}
Rewriting == {"i_suspend", "i_write", "r_suspend", "r_write"}

Init ==
  /\ loaded = TRUE
  /\ site \in {"original", "other"}
  /\ patched = FALSE
  /\ siteKnown = FALSE
  /\ saved = "original"
  /\ trampoline = NoPage
  /\ pages = {}
  /\ activeDetours = 0
  /\ pos = [t \in FrameThreads |-> "game"]
  /\ r11 = [t \in FrameThreads |-> NoPage]
  /\ suspended = {}
  /\ todo = {}
  /\ ctl = "idle"
  /\ passes = 0
  /\ outcome = NoAnswer
  /\ late = {}
  /\ meddled = FALSE

-----------------------------------------------------------------------------
(* The frame threads: the hooked function and detour.asm.                  *)

Step(t, from, to) ==
  /\ t \notin suspended
  /\ pos[t] = from
  /\ pos' = [pos EXCEPT ![t] = to]
  /\ UNCHANGED <<codeVars, pageVars, suspendVars, ctl, waitVars, meddled>>

Registers == <<activeDetours, r11, late>>

\* The game ends and starts threads as it likes.  A suspension works on the
\* snapshot it took at its start, so one that starts later is not in it; the
\* name of one that ended is not used again while the snapshot still lists it.
Exit(t)  == /\ Step(t, "game", "none")
            /\ late' = late \ {t}
            /\ UNCHANGED <<activeDetours, r11>>
Start(t) == /\ t \notin todo
            /\ Step(t, "none", "game")
            /\ late' = IF ctl \in Rewriting THEN late \cup {t} ELSE late
            /\ UNCHANGED <<activeDetours, r11>>

CallFunction(t) == Step(t, "game", "site") /\ UNCHANGED Registers

\* The first instruction of the site: the original prologue, this module's
\* jump, or bytes somebody else put there.
RunOriginal(t) ==
  /\ site = "original"
  /\ Step(t, "site", "stolen")
  /\ UNCHANGED Registers

RunPatch(t) ==
  /\ site = "patched"
  /\ Step(t, "site", "entry")
  /\ UNCHANGED Registers

RunOther(t) ==
  /\ site = "other"
  /\ Step(t, "site", "game")
  /\ UNCHANGED Registers

LeaveStolen(t) == /\ Step(t, "stolen", "game")
                  /\ late' = IF ctl \in Rewriting THEN late ELSE late \ {t}
                  /\ UNCHANGED <<activeDetours, r11>>

\* lock inc dword ptr [g_active_detours]
Claim(t) ==
  /\ Step(t, "entry", "drain")
  /\ activeDetours' = activeDetours + 1
  /\ UNCHANGED <<r11, late>>

\* SrtmFrameDrain, which may be inside a function of the game or the system.
DrainCalls(t)   == Step(t, "drain", "call") /\ UNCHANGED Registers
DrainReturns(t) == Step(t, "call", "drain") /\ UNCHANGED Registers

\* mov r11, qword ptr [g_trampoline]
LoadTrampoline(t) ==
  /\ Step(t, "drain", "exit")
  /\ r11' = [r11 EXCEPT ![t] = trampoline]
  /\ UNCHANGED <<activeDetours, late>>

\* lock dec dword ptr [g_active_detours]
Release(t) ==
  /\ Step(t, "exit", "released")
  /\ activeDetours' = activeDetours - 1
  /\ UNCHANGED <<r11, late>>

\* jmp r11
JumpToTrampoline(t) == Step(t, "released", "tramp") /\ UNCHANGED Registers

\* The stolen bytes, then the jump back; R11 is dead from here on.
LeaveTrampoline(t) ==
  /\ Step(t, "tramp", "game")
  /\ r11' = [r11 EXCEPT ![t] = NoPage]
  /\ UNCHANGED <<activeDetours, late>>

FrameStep(t) ==
  \/ Exit(t) \/ Start(t)
  \/ CallFunction(t) \/ RunOriginal(t) \/ RunPatch(t) \/ RunOther(t)
  \/ LeaveStolen(t)
  \/ Claim(t) \/ DrainCalls(t) \/ DrainReturns(t)
  \/ LoadTrampoline(t) \/ Release(t) \/ JumpToTrampoline(t)
  \/ LeaveTrampoline(t)

-----------------------------------------------------------------------------
\* The controller goes from one point of its code to another.
Goto(from, to) == ctl = from /\ ctl' = to

(* SuspendOtherThreads and ResumeThreads.                                  *)

\* One turn of the loop: suspend a thread, read its instruction pointer and
\* go on to the next.
SuspendNext(t) ==
  /\ ctl \in Suspending
  /\ t \in todo
  /\ pos[t] \notin Forbidden \cup {"none"}
  /\ suspended' = suspended \cup {t}
  /\ todo' = todo \ {t}
  /\ late' = late \ {t}
  /\ UNCHANGED <<codeVars, pageVars, threadVars, ctl, waitVars, meddled>>

\* ERROR_INVALID_PARAMETER: the snapshotted thread exited meanwhile.
SkipExited(t) ==
  /\ ctl \in Suspending
  /\ t \in todo
  /\ pos[t] = "none"
  /\ todo' = todo \ {t}
  /\ UNCHANGED <<codeVars, pageVars, threadVars, suspended, ctl, waitVars, late, meddled>>

\* A thread stands where it must not, or a call of the loop fails.
NotSafe ==
  \E t \in todo : CallsMayBeRefused \/ pos[t] \in Forbidden

\* CreateToolhelp32Snapshot: the threads that exist now.
StartSuspending ==
  /\ suspended' = {}
  /\ todo' = {t \in FrameThreads : pos[t] # "none"}

\* A thread nobody had suspended may still stand in what was written.
ResumeThreads ==
  /\ suspended' = {}
  /\ todo' = {}
  /\ late' = {t \in late : pos[t] = "stolen"}

-----------------------------------------------------------------------------
(* InstallFrameHook.                                                       *)

\* What the callers keep to: after a detach that left a thread inside, the
\* module does not install again.  module.cpp never does; frame_hook.cpp
\* itself does not ask.
MayInstall == ReinstallWhileWarm \/ ~siteKnown \/ outcome.cold

SampleMatches == site = "original"

\* The checks.
InstallBegin ==
  /\ Goto("idle", "i_copy")
  /\ loaded
  /\ MayInstall
  /\ ~patched
  /\ Cardinality(pages) < MaxTrampolinePages
  /\ SampleMatches
  /\ UNCHANGED <<codeVars, pageVars, threadVars, suspendVars, waitVars, late,
                 meddled>>

\* VirtualAlloc fails.
InstallRefused ==
  /\ Goto("i_copy", "idle")
  /\ CallsMayBeRefused \/ Pages \subseteq pages
  /\ UNCHANGED <<codeVars, pageVars, threadVars, suspendVars, waitVars, late,
                 meddled>>

\* The allocation, the registration of the page and the copy of the stolen
\* bytes into it and into g_original, whatever they are by now.
InstallCopy ==
  /\ Goto("i_copy", "i_suspend")
  /\ \E p \in Pages \ pages :
       /\ pages' = pages \cup {p}
       /\ trampoline' = p
  /\ saved' = site
  /\ StartSuspending
  /\ UNCHANGED <<loaded, site, patched, siteKnown, threadVars, waitVars, late,
                 meddled>>

\* A thread stands in the stolen region, a thread cannot be suspended, or
\* VirtualProtect refuses: the other threads go on and
\* ReleaseUnreachableTrampoline frees the page.
InstallFails ==
  /\ Goto("i_suspend", "idle")
  /\ NotSafe \/ CallsMayBeRefused
  /\ ResumeThreads
  /\ pages' = pages \ {trampoline}
  /\ trampoline' = NoPage
  /\ UNCHANGED <<codeVars, threadVars, waitVars, meddled>>

\* WriteCode, first half: from the first byte of the memcpy to the last one
\* the site holds neither instruction stream.
InstallWrites ==
  /\ Goto("i_suspend", "i_write")
  /\ todo = {}
  /\ site' = "torn"
  /\ UNCHANGED <<otherCode, pageVars, threadVars, suspendVars, waitVars, late, meddled>>

InstallWritten ==
  /\ Goto("i_write", "i_publish")
  /\ site' = "patched"
  /\ ResumeThreads
  /\ outcome' = NoAnswer
  /\ UNCHANGED <<otherCode, pageVars, threadVars, passes, meddled>>

\* g_site, g_stolen and g_patched are set after the other threads run again.
InstallPublish ==
  /\ Goto("i_publish", "idle")
  /\ siteKnown' = TRUE
  /\ patched' = TRUE
  /\ UNCHANGED <<loaded, site, saved, pageVars, threadVars, suspendVars, waitVars,
                 late, meddled>>

-----------------------------------------------------------------------------
(* RemoveFrameHook.                                                        *)

RemoveBegin ==
  /\ Goto("idle", "r_suspend")
  /\ loaded
  /\ patched
  /\ outcome' = NoAnswer
  /\ StartSuspending
  /\ UNCHANGED <<codeVars, pageVars, threadVars, passes, late, meddled>>

\* What a repeated removal reads at the site.  Mutant: g_patched is believed.
AssumedRestored == TRUE
ReadsRestored == ~siteKnown \/ site = saved

\* Nothing is patched: the site is read again and only the wait is repeated.
RemoveAgain ==
  /\ Goto("idle", "q_check")
  /\ loaded
  /\ ~patched
  /\ outcome' = [verified |-> ReadsRestored, cold |-> FALSE]
  /\ passes' = 0
  /\ meddled' = FALSE
  /\ UNCHANGED <<codeVars, pageVars, threadVars, suspendVars, late>>

\* The suspension or the write is refused; both answers stay false and the
\* patch stays in.
RemoveFails ==
  /\ Goto("r_suspend", "idle")
  /\ NotSafe \/ CallsMayBeRefused
  /\ ResumeThreads
  /\ UNCHANGED <<codeVars, pageVars, threadVars, waitVars, meddled>>

RemoveWrites ==
  /\ Goto("r_suspend", "r_write")
  /\ todo = {}
  /\ site' = "torn"
  /\ UNCHANGED <<otherCode, pageVars, threadVars, suspendVars, waitVars, late, meddled>>

\* The bytes that were saved are back, and the other threads go on.
RemoveWritten ==
  /\ Goto("r_write", "r_verify")
  /\ site' = saved
  /\ ResumeThreads
  /\ meddled' = FALSE
  /\ UNCHANGED <<otherCode, pageVars, threadVars, waitVars>>

\* Removal keeps the page.  Mutant: it is freed with the patch.
PagesWithoutPatched == pages \ {trampoline}
PagesAfterRemoval == pages

\* They compare equal.  g_trampoline keeps pointing at the page.
RemoveVerified ==
  /\ Goto("r_verify", "q_check")
  /\ site = saved
  /\ outcome' = [verified |-> TRUE, cold |-> FALSE]
  /\ patched' = FALSE
  /\ pages' = PagesAfterRemoval
  /\ passes' = 0
  /\ UNCHANGED <<loaded, site, siteKnown, saved, trampoline, threadVars, suspendVars,
                 late, meddled>>

\* They do not, as somebody has written to the site meanwhile.
RemoveUnverified ==
  /\ Goto("r_verify", "idle")
  /\ site # saved
  /\ UNCHANGED <<codeVars, pageVars, threadVars, suspendVars, waitVars, late,
                 meddled>>

-----------------------------------------------------------------------------
(* WaitForModuleQuiescence.                                                *)

\* The cheap test first.
QuiesceProbe ==
  /\ ctl = "q_check"
  /\ IF activeDetours = 0
     THEN ctl' = "q_suspend" /\ StartSuspending /\ UNCHANGED late
     ELSE ctl' = "q_wait" /\ UNCHANGED <<suspendVars, late>>
  /\ UNCHANGED <<codeVars, pageVars, threadVars, waitVars, meddled>>

\* A thread stands in the module or on a page, or cannot be suspended.
QuiesceUnsafe ==
  /\ Goto("q_suspend", "q_wait")
  /\ NotSafe
  /\ ResumeThreads
  /\ UNCHANGED <<codeVars, pageVars, threadVars, waitVars, meddled>>

\* Every other thread is suspended outside the module: read the count.
\* Mutant: the count read before the suspension is believed.
ColdByProbe == TRUE
Cold == activeDetours = 0

QuiesceSample ==
  /\ ctl = "q_suspend"
  /\ todo = {}
  /\ outcome' = [outcome EXCEPT !.cold = Cold]
  /\ ctl' = IF Cold THEN "idle" ELSE "q_wait"
  /\ ResumeThreads
  /\ UNCHANGED <<codeVars, pageVars, threadVars, passes, meddled>>

TimeLeft == passes < MaxPasses

QuiesceRetry ==
  /\ Goto("q_wait", "q_check")
  /\ TimeLeft
  /\ passes' = passes + 1
  /\ UNCHANGED <<codeVars, pageVars, threadVars, suspendVars, outcome, late, meddled>>

\* Mutant: the deadline is looked at only on the path of a non-zero count.
QuiesceGivesUpOnCount ==
  /\ Goto("q_wait", "idle")
  /\ activeDetours # 0
  /\ UNCHANGED <<codeVars, pageVars, threadVars, suspendVars, waitVars, late, meddled>>

\* The deadline, or a module whose own image range cannot be established.
QuiesceGivesUp ==
  /\ \/ ctl = "q_wait"
     \/ ctl = "q_check" /\ passes = 0 /\ CallsMayBeRefused
  /\ ctl' = "idle"
  /\ UNCHANGED <<codeVars, pageVars, threadVars, suspendVars, waitVars, late, meddled>>

-----------------------------------------------------------------------------
(* The end of the module, and whoever else writes to the site.             *)

\* FreeLibraryAndExitThread after a detach that answered yes twice.  The
\* loader calls DllMain with DLL_PROCESS_DETACH, whose
\* RestoreFrameHookBytesOnly writes without suspending anybody if, and only
\* if, the hook is still in.
Unload ==
  /\ ctl = "idle"
  /\ loaded
  /\ outcome.verified
  /\ outcome.cold
  /\ loaded' = FALSE
  /\ patched' = FALSE
  /\ site' = IF patched THEN saved ELSE site
  /\ UNCHANGED <<siteKnown, saved, pageVars, threadVars, suspendVars, ctl, waitVars, late, meddled>>

\* Another tool hooks the function, over the game's bytes or this module's jump,
\* or puts the game's bytes back, whatever this module is doing.
Foreign ==
  /\ site # "torn"
  /\ site' \in {"original", "other"} \ {site}
  /\ meddled' = (ctl \in {"r_verify"} \cup Quiescing)
  /\ UNCHANGED <<otherCode, pageVars, threadVars, suspendVars, ctl, waitVars, late>>

-----------------------------------------------------------------------------
Install == InstallBegin \/ InstallRefused \/ InstallCopy \/ InstallFails
           \/ InstallWrites \/ InstallWritten \/ InstallPublish
Remove == RemoveBegin \/ RemoveAgain \/ RemoveFails \/ RemoveWrites
          \/ RemoveWritten \/ RemoveVerified \/ RemoveUnverified
Quiesce == QuiesceProbe \/ QuiesceUnsafe \/ QuiesceSample \/ QuiesceRetry
           \/ QuiesceGivesUp
Suspend == \E t \in FrameThreads : SuspendNext(t) \/ SkipExited(t)
Frame == \E t \in FrameThreads : FrameStep(t)

Next == Frame \/ Suspend \/ Install \/ Remove \/ Quiesce \/ Unload \/ Foreign

Spec == Init /\ [][Next]_vars

\* The controller's thread is scheduled, so a call it is in goes on.  Nothing
\* is asked of the frame threads: the game may leave them where they are.
Busy == ctl # "idle"
ControllerStep == Busy /\ (Suspend \/ Install \/ Remove \/ Quiesce)
FairSpec == Spec /\ WF_vars(ControllerStep)

-----------------------------------------------------------------------------
(* Properties.                                                             *)

TypeOK ==
  /\ loaded \in BOOLEAN
  /\ site \in SiteBytes
  /\ patched \in BOOLEAN
  /\ siteKnown \in BOOLEAN
  /\ saved \in SiteBytes
  /\ trampoline \in Pages \cup {NoPage}
  /\ pages \in SUBSET Pages
  /\ activeDetours \in Int
  /\ pos \in [FrameThreads -> Positions]
  /\ r11 \in [FrameThreads -> Pages \cup {NoPage}]
  /\ suspended \in SUBSET FrameThreads
  /\ todo \in SUBSET FrameThreads
  /\ ctl \in ControllerStates
  /\ passes \in 0..MaxPasses
  /\ outcome \in [verified : BOOLEAN, cold : BOOLEAN]
  /\ late \in SUBSET FrameThreads
  /\ meddled \in BOOLEAN

\* Nobody is inside the module when it is unmapped: no instruction pointer is
\* on its image, no stack holds a return address into it, and the site does
\* not lead into it.  This is the guarantee frame_hook.h gives for a
\* module_quiescent answer.
UnloadIsSafe ==
  ~loaded => site # "patched" /\ \A t \in FrameThreads : pos[t] \notin Inside

\* While the bytes are being rewritten, and once they are, no thread of the
\* snapshot stands in the stolen region: one that is past the first original
\* instruction always finds the rest of the original ones, however the writes
\* of this module, its refusals and those of other tools follow each other.
\* One that started after the snapshot is suspended by nobody, and may be
\* caught by the write or see it half done (frame_hook.cpp:92-95, 106).
NoThreadUnderWrite ==
  \A t \in FrameThreads \ late :
    /\ site = "torn" => pos[t] \notin {"site", "stolen"}
    /\ pos[t] = "stolen" => site \notin {"torn", "patched"}

\* A thread in the detour finds a trampoline to leave through, and the page it
\* jumps to is never freed underneath it.
TrampolineIsThere ==
  \A t \in FrameThreads :
    /\ pos[t] \in {"entry", "drain", "call"} => trampoline \in pages
    /\ pos[t] \in {"exit", "released", "tramp"} => r11[t] \in pages

\* A removal that answers "verified" leaves at the site what the install found
\* there, though installs, removals, refusals and writes of other tools came
\* before it in any order, unless another tool wrote there after the call did,
\* or read the site, itself.
VerifiedMeansRestored ==
  [][(ctl \in Quiescing /\ ctl' = "idle" /\ outcome'.verified /\ siteKnown)
     => (site' = saved \/ meddled)]_vars

\* The hook keeps the promises of frame_hook.h, stated in HookContract.
Contract ==
  INSTANCE HookContract
    WITH Threads <- FrameThreads,
         hooked <- (site = "patched"),
         inside <- {t \in FrameThreads : pos[t] \in Inside}
ImplementsContract == Contract!Spec

\* A call of the controller returns, and leaves nobody suspended: the quiescence
\* wait is bounded, whatever the frame threads do, and every way out of a
\* suspension, refused or not, resumes the threads it held.
CallsReturn == Busy ~> ~Busy /\ suspended = {}

\* What a detach that has to wait relies on: the host repeats it, the system
\* stops refusing, and a thread that is in the module and not suspended for
\* ever goes on until it has left.
Leaving(t) == Claim(t) \/ DrainReturns(t) \/ Release(t) \/ JumpToTrampoline(t)
              \/ LeaveTrampoline(t)
HostRepeatsDetach ==
  /\ WF_vars(RemoveAgain)
  /\ <>[][QuiesceUnsafe => \E t \in todo : pos[t] \in Forbidden]_vars
  /\ <>[][QuiesceGivesUp => ctl = "q_wait"]_vars
  /\ \A t \in FrameThreads : SF_vars(Leaving(t)) /\ SF_vars(LoadTrampoline(t))

\* "Repeating detach is how an unload that had to wait finishes": once a
\* removal has put the bytes back and waits, a host that keeps asking is told in
\* the end that the module is cold.
RepeatedDetachFinishes ==
  HostRepeatsDetach =>
    (siteKnown /\ ctl \in Quiescing ~> outcome.cold \/ ~loaded)
=============================================================================
