-------------------------- MODULE ModuleLifecycle --------------------------
(***************************************************************************)
(* The life of the injected module: src/dll/module.cpp, with the requests  *)
(* of src/dll/pipe.cpp that reach it.                                      *)
(*                                                                         *)
(* Three threads act: the worker, which scans until the build resolves and *)
(* puts the hook in; the pipe thread, which serves one request at a time,  *)
(* detaches and unloads; and the game's thread, which comes through the    *)
(* hook every frame, carries out the queued command and polls the hotkey.  *)
(* InstallFrameHook, RemoveFrameHook and SetToolsMenu are the single steps *)
(* FrameHook and ToolsMenu show them to be, the command slot is the one of *)
(* CommandQueue: a caller waits for its own command or withdraws it.       *)
(***************************************************************************)
EXTENDS Integers

CONSTANTS
  MaxAttempts,      \* passes of the scan that fit kScanDeadlineMs
  WorkerMayOutlast, \* may the worker still run when StopScanWorker gives up?
  SiteRefuses       \* may the site refuse a write, or hold another tool's bytes?

ASSUME LifecycleAssumption ==
  /\ MaxAttempts \in Nat \ {0}
  /\ {WorkerMayOutlast, SiteRefuses} \subseteq BOOLEAN

VARIABLES
  loaded,      \* the module is mapped
  hooked,      \* g_patched: the hook is in
  everHooked,  \* g_site # nullptr
  running,     \* g_running
  worker,      \* where the worker is
  attempts,    \* passes of the current scan
  scanStop,    \* g_scan_stop, manual-reset
  scanAgain,   \* g_scan_again, auto-reset
  status,      \* g_status: state, hook_installed and menu_on
  frame,       \* where the game's thread is
  slot,        \* g_queue_state and the command in the slot
  owned,       \* ToolsMenuOwned()
  menuUp,      \* a menu of ours is on screen
  pipe,        \* where the pipe thread is
  workerGone,  \* scan_worker_gone of the detach in progress
  outcome,     \* its DetachOutcome
  excused      \* the off command of the detach did not end Ok, or the menu
               \* was turned on after it

hookVars == <<hooked, everHooked>>
workerVars == <<worker, attempts>>
scanEvents == <<scanStop, scanAgain>>
menuVars == <<owned, menuUp, excused>>
detachVars == <<workerGone, outcome>>
vars == <<loaded, hookVars, running, workerVars, scanEvents, status, frame, slot,
          menuVars, pipe, detachVars>>

WorkerPlaces ==
  {"start", "scan", "between", "resolved", "configured", "installed", "publish",
   "failed", "unsupported", "parked", "gone"}
FramePlaces == {"game", "entry", "drain", "command", "poll", "leave"}
Detaching ==
  {"d_join", "d_state", "d_menu", "d_wait", "d_halt", "d_remove", "d_quiesce",
   "d_status"}
PipePlaces == {"listen", "menu", "wait", "reply", "gone"} \cup Detaching
States ==
  {"Scanning", "Unsupported", "Failed", "Ready", "Detaching", "Detached",
   "DetachFailed"}
SlotStates == {"empty", "pending", "running", "done"}
NoOutcome == [verified |-> FALSE, cold |-> FALSE]
EmptySlot == [is |-> "empty", enable |-> FALSE]

\* StartModule that succeeds: events, pipe thread, worker.
Init ==
  /\ loaded = TRUE
  /\ hooked = FALSE
  /\ everHooked = FALSE
  /\ running = FALSE
  /\ worker = "start"
  /\ attempts = 0
  /\ scanStop = FALSE
  /\ scanAgain = FALSE
  /\ status = [state |-> "Scanning", hook |-> FALSE, menu |-> FALSE]
  /\ frame = "game"
  /\ slot = EmptySlot
  /\ owned = FALSE
  /\ menuUp = FALSE
  /\ pipe = "listen"
  /\ workerGone = FALSE
  /\ outcome = NoOutcome
  /\ excused = FALSE

SetState(s) == status' = [status EXCEPT !.state = s]

-----------------------------------------------------------------------------
(* WorkerThread.                                                           *)

WorkerGoes(from, to) ==
  /\ loaded
  /\ worker = from
  /\ worker' = to
  /\ UNCHANGED <<loaded, frame, slot, menuVars, pipe, detachVars, scanStop>>

\* Mutant: the deadline is taken anew for every pass.
DeadlineOfThePass == attempts
DeadlineOfTheScan == attempts + 1
TimeLeft == attempts < MaxAttempts

BeginScan ==
  /\ WorkerGoes("start", "scan")
  /\ SetState("Scanning")
  /\ attempts' = 0
  /\ UNCHANGED <<hookVars, running, scanAgain>>

\* A pass finds a usable layout, gives up because the time is over, or waits
\* for the next pass.
ScanPass ==
  /\ \/ WorkerGoes("scan", "resolved")
     \/ ~TimeLeft /\ WorkerGoes("scan", "unsupported")
     \/ TimeLeft /\ WorkerGoes("scan", "between")
  /\ attempts' = IF worker' = "between" THEN DeadlineOfTheScan ELSE attempts
  /\ UNCHANGED <<hookVars, running, status, scanAgain>>

WaitBetweenPasses ==
  /\ WorkerGoes("between", IF scanStop THEN "gone" ELSE "scan")
  /\ UNCHANGED <<hookVars, running, status, scanAgain, attempts>>

\* ConfigureToolsMenu
Configure ==
  /\ \/ WorkerGoes("resolved", "configured")
     \/ WorkerGoes("resolved", "failed")
  /\ UNCHANGED <<hookVars, running, status, scanAgain, attempts>>

\* InstallFrameHook, which refuses a site that is patched already.
Install ==
  /\ WorkerGoes("configured", "installed")
  /\ ~hooked
  /\ hooked' = TRUE
  /\ everHooked' = TRUE
  /\ UNCHANGED <<running, status, scanAgain, attempts>>

InstallRefused ==
  /\ hooked \/ SiteRefuses
  /\ WorkerGoes("configured", "failed")
  /\ UNCHANGED <<hookVars, running, status, scanAgain, attempts>>

StartRunning ==
  /\ WorkerGoes("installed", "publish")
  /\ running' = TRUE
  /\ UNCHANGED <<hookVars, status, scanAgain, attempts>>

\* Mutant: the worker stays for another look although the hook is in.
ParkWhenReady == "parked"
AfterReady == "gone"
PublishReady ==
  /\ WorkerGoes("publish", AfterReady)
  /\ status' = [status EXCEPT !.state = "Ready", !.hook = TRUE]
  /\ UNCHANGED <<hookVars, running, scanAgain, attempts>>

ReportFailed ==
  /\ WorkerGoes("failed", "parked")
  /\ SetState("Failed")
  /\ UNCHANGED <<hookVars, running, scanAgain, attempts>>

ReportUnsupported ==
  /\ WorkerGoes("unsupported", "parked")
  /\ SetState("Unsupported")
  /\ UNCHANGED <<hookVars, running, scanAgain, attempts>>

\* WaitForMultipleObjects: the stop event comes first.
LeaveParked ==
  /\ scanStop
  /\ WorkerGoes("parked", "gone")
  /\ UNCHANGED <<hookVars, running, status, scanAgain, attempts>>

ScanAgain ==
  /\ ~scanStop
  /\ scanAgain
  /\ WorkerGoes("parked", "start")
  /\ scanAgain' = FALSE
  /\ UNCHANGED <<hookVars, running, status, attempts>>

Worker ==
  \/ BeginScan \/ ScanPass \/ WaitBetweenPasses \/ Configure \/ Install
  \/ InstallRefused \/ StartRunning \/ PublishReady \/ ReportFailed
  \/ ReportUnsupported \/ LeaveParked \/ ScanAgain

-----------------------------------------------------------------------------
(* OnFrame, on the game's thread.                                          *)

FrameGoes(from, to) ==
  /\ frame = from
  /\ frame' = to
  /\ UNCHANGED <<loaded, hookVars, running, workerVars, scanEvents, pipe,
                 detachVars>>

EnterHook ==
  /\ hooked
  /\ FrameGoes("game", "entry")
  /\ UNCHANGED <<slot, menuVars, status>>

CheckRunning ==
  /\ FrameGoes("entry", IF running THEN "drain" ELSE "leave")
  /\ UNCHANGED <<slot, menuVars, status>>

ClaimCommand ==
  /\ slot.is = "pending"
  /\ FrameGoes("drain", "command")
  /\ slot' = [slot EXCEPT !.is = "running"]
  /\ UNCHANGED <<menuVars, status>>

NothingQueued ==
  /\ slot.is # "pending"
  /\ FrameGoes("drain", "poll")
  /\ UNCHANGED <<slot, menuVars, status>>

\* SetToolsMenu and RecordCommand: the menu is switched, or refused with or
\* without an observation of the world.  An observation lets go of a menu the
\* game took away; a failed call leaves a gate without a menu behind, which is
\* owned.
InDetach == pipe \in Detaching
Switch(on) ==
  /\ owned' = on
  /\ menuUp' = on
  /\ status' = [status EXCEPT !.menu = on]
  /\ excused' = (excused \/ (on /\ InDetach))
Refused(on) ==
  /\ owned' \in {owned, menuUp, owned \/ on}
  /\ menuUp' \in {menuUp, menuUp /\ on}
  /\ status' \in {[status EXCEPT !.menu = shown] : shown \in {FALSE, owned'}}

ExecuteCommand ==
  /\ FrameGoes("command", "poll")
  /\ \/ Switch(slot.enable)
     \/ Refused(slot.enable) /\ excused' = (excused \/ InDetach)
  /\ slot' = [slot EXCEPT !.is = "done"]

\* PollHotkey: not pressed, or pressed and the menu is toggled.
PollHotkey ==
  /\ FrameGoes("poll", "leave")
  /\ \/ UNCHANGED <<menuVars, status>>
     \/ Switch(~owned)
     \/ Refused(~owned) /\ UNCHANGED excused
  /\ UNCHANGED slot

LeaveHook ==
  /\ FrameGoes("leave", "game")
  /\ UNCHANGED <<slot, menuVars, status>>

\* A map reload takes the menu away; the module notices at its next command.
GameTakesMenu ==
  /\ menuUp
  /\ menuUp' = FALSE
  /\ UNCHANGED <<loaded, hookVars, running, workerVars, scanEvents, status,
                 frame, slot, owned, excused, pipe, detachVars>>

Frame ==
  \/ EnterHook \/ CheckRunning \/ ClaimCommand \/ NothingQueued
  \/ ExecuteCommand \/ PollHotkey \/ LeaveHook

-----------------------------------------------------------------------------
(* The pipe thread: Handle and RequestSetMenu.                             *)

PipeGoes(from, to) ==
  /\ loaded
  /\ pipe = from
  /\ pipe' = to
  /\ UNCHANGED <<loaded, everHooked, workerVars, frame, owned, menuUp>>

Untouched == <<hooked, running, scanEvents, status, detachVars, excused>>

\* RequestSetMenu: nothing is queued without the hook, or while an earlier
\* command is still in the slot.
ReceiveMenu ==
  /\ PipeGoes("listen", "menu")
  /\ UNCHANGED <<Untouched, slot>>

MayQueue == hooked /\ slot.is \in {"empty", "done"}
Queue(enable, from, to, skip) ==
  IF MayQueue
  THEN /\ PipeGoes(from, to)
       /\ slot' = [is |-> "pending", enable |-> enable]
  ELSE PipeGoes(from, skip) /\ UNCHANGED slot

AskMenu ==
  /\ \E enable \in BOOLEAN : Queue(enable, "menu", "wait", "reply")
  /\ UNCHANGED Untouched

\* The command is done, or two seconds are over: what nobody claimed is
\* withdrawn, what was claimed is left alone.
AfterTimeout == IF slot.is = "pending" THEN EmptySlot ELSE slot

MenuAnswered ==
  /\ slot.is = "done"
  /\ PipeGoes("wait", "reply")
  /\ slot' = EmptySlot
  /\ UNCHANGED Untouched

MenuTimesOut ==
  /\ PipeGoes("wait", "reply")
  /\ slot' = AfterTimeout
  /\ UNCHANGED Untouched

ReceiveRescan ==
  /\ PipeGoes("listen", "reply")
  /\ scanAgain' = TRUE
  /\ UNCHANGED <<hooked, running, scanStop, status, detachVars, excused, slot>>

-----------------------------------------------------------------------------
(* DetachModule.                                                           *)

\* StopScanWorker signals first and waits after it.  Mutant: it only waits.
StopForgotten == scanStop
StopSignalled == TRUE
ReceiveDetach ==
  /\ PipeGoes("listen", "d_join")
  /\ scanStop' = StopSignalled
  /\ excused' = FALSE
  /\ outcome' = NoOutcome
  /\ UNCHANGED <<hooked, running, scanAgain, status, workerGone, slot>>

\* Mutant: the timeout of the wait is not noticed.
JoinBelieved == TRUE
Joined == worker = "gone"
JoinWorker ==
  /\ worker = "gone" \/ WorkerMayOutlast
  /\ PipeGoes("d_join", "d_state")
  /\ workerGone' = Joined
  /\ UNCHANGED <<hooked, running, scanEvents, status, outcome, excused, slot>>

ShowDetaching ==
  /\ PipeGoes("d_state", "d_menu")
  /\ SetState("Detaching")
  /\ UNCHANGED <<hooked, running, scanEvents, detachVars, excused, slot>>

\* Mutant: the menu is not asked off.
AskNothing == FALSE
AskOff == owned /\ hooked
DetachMenu ==
  /\ IF AskOff
     THEN Queue(FALSE, "d_menu", "d_wait", "d_halt")
     ELSE PipeGoes("d_menu", "d_halt") /\ UNCHANGED slot
  /\ excused' = (owned /\ ~MayQueue)
  /\ UNCHANGED <<hooked, running, scanEvents, status, detachVars>>

DetachAnswered ==
  /\ slot.is = "done"
  /\ PipeGoes("d_wait", "d_halt")
  /\ slot' = EmptySlot
  /\ UNCHANGED Untouched

\* Mutant: the wait for the menu has no timeout.
WaitsForEver == FALSE
TwoSecondsOver == TRUE
DetachTimesOut ==
  /\ TwoSecondsOver
  /\ PipeGoes("d_wait", "d_halt")
  /\ slot' = AfterTimeout
  /\ excused' = TRUE
  /\ UNCHANGED <<hooked, running, scanEvents, status, detachVars>>

StopRunning ==
  /\ PipeGoes("d_halt", "d_remove")
  /\ running' = FALSE
  /\ UNCHANGED <<hooked, scanEvents, status, detachVars, excused, slot>>

\* RemoveFrameHook: refused, or the bytes are back and the wait for the last
\* thread begins.  A hook that is out already is only looked at again, and
\* another tool may have been at its site.
SiteReads ==
  {TRUE} \cup IF SiteRefuses /\ everHooked /\ ~hooked THEN {FALSE} ELSE {}
RemoveHook ==
  /\ PipeGoes("d_remove", "d_quiesce")
  /\ hooked' = FALSE
  /\ \E back \in SiteReads : outcome' = [verified |-> back, cold |-> FALSE]
  /\ UNCHANGED <<running, scanEvents, status, workerGone, excused, slot>>

RemoveRefused ==
  /\ hooked
  /\ SiteRefuses
  /\ PipeGoes("d_remove", "d_status")
  /\ UNCHANGED <<Untouched, slot>>

\* WaitForModuleQuiescence, and scan_worker_gone on top of it.  Mutant: the
\* answer of the hook alone.
ColdOfTheHook == TRUE
ColdCounts == workerGone
QuiesceCold ==
  /\ frame = "game"
  /\ PipeGoes("d_quiesce", "d_status")
  /\ outcome' = [outcome EXCEPT !.cold = ColdCounts]
  /\ UNCHANGED <<hooked, running, scanEvents, status, workerGone, excused, slot>>

QuiesceTimesOut ==
  /\ PipeGoes("d_quiesce", "d_status")
  /\ UNCHANGED <<Untouched, slot>>

Ending == IF ~outcome.verified THEN "DetachFailed"
          ELSE IF outcome.cold THEN "Detached" ELSE "Detaching"
ShowEnding ==
  /\ PipeGoes("d_status", "reply")
  /\ status' = [state |-> Ending, hook |-> hooked, menu |-> owned]
  /\ UNCHANGED <<hooked, running, scanEvents, detachVars, excused, slot>>

\* The response, delivered or not, and the unload that follows a detach that
\* answered yes twice.
Unloading == outcome.verified /\ outcome.cold
Reply ==
  /\ ~Unloading
  /\ PipeGoes("reply", "listen")
  /\ UNCHANGED <<Untouched, slot>>

\* FreeLibraryAndExitThread; DllMain restores the bytes of a hook still in.
Unload ==
  /\ Unloading
  /\ loaded
  /\ pipe = "reply"
  /\ pipe' = "gone"
  /\ loaded' = FALSE
  /\ hooked' = FALSE
  /\ scanStop' = TRUE
  /\ UNCHANGED <<everHooked, running, workerVars, scanAgain, status, frame, slot,
                 menuVars, detachVars>>

Serve ==
  \/ AskMenu \/ MenuAnswered \/ MenuTimesOut
  \/ JoinWorker \/ ShowDetaching \/ DetachMenu \/ DetachAnswered
  \/ DetachTimesOut \/ StopRunning \/ RemoveHook \/ RemoveRefused
  \/ QuiesceCold \/ QuiesceTimesOut \/ ShowEnding \/ Reply \/ Unload
Receive == ReceiveMenu \/ ReceiveRescan \/ ReceiveDetach

Next == Worker \/ Frame \/ GameTakesMenu \/ Receive \/ Serve

Spec == Init /\ [][Next]_vars

\* The threads of the module are scheduled; the game's thread owes nothing.
FairSpec == Spec /\ WF_vars(Worker) /\ WF_vars(Serve)

-----------------------------------------------------------------------------
(* Properties.                                                             *)

TypeOK ==
  /\ loaded \in BOOLEAN /\ running \in BOOLEAN
  /\ hooked \in BOOLEAN /\ everHooked \in BOOLEAN
  /\ scanStop \in BOOLEAN /\ scanAgain \in BOOLEAN
  /\ owned \in BOOLEAN /\ menuUp \in BOOLEAN /\ excused \in BOOLEAN
  /\ workerGone \in BOOLEAN
  /\ worker \in WorkerPlaces /\ attempts \in 0..MaxAttempts
  /\ frame \in FramePlaces
  /\ pipe \in PipePlaces
  /\ status \in [state : States, hook : BOOLEAN, menu : BOOLEAN]
  /\ slot \in [is : SlotStates, enable : BOOLEAN]
  /\ outcome \in [verified : BOOLEAN, cold : BOOLEAN]

\* When the module is unmapped the hook is out, the game's thread is outside
\* and the worker has ended: nobody returns into code that is gone.
UnloadIsSafe == ~loaded => ~hooked /\ frame = "game" /\ worker = "gone"

\* "Detached" is shown only while the bytes are verifiably back, and stays
\* true: no worker is left that could put the hook in again.
DetachedMeansUntouched ==
  status.state = "Detached" => ~hooked /\ ~status.hook /\ worker = "gone"

\* The module never installs a second time, so it never meets the install
\* that frame_hook.cpp would have to refuse while a thread is still inside.
InstalledOnce == [][~hooked /\ hooked' => ~everHooked]_vars

\* A menu of ours that outlives the module was refused its removal, or was
\* turned on while the detach went on.
MenuStaysOnlyExcused == ~loaded /\ menuUp => excused

\* pipe.cpp tells the app of a warm detach: "the bytes are back and the game is
\* whole".
BytesStayBack == outcome.verified /\ ~InDetach => ~hooked

\* A detach is answered: every wait in it is bounded.
DetachIsAnswered == InDetach ~> pipe = "reply"

\* A scan reaches a verdict instead of spinning for ever.
ScanReachesVerdict == worker = "scan" ~> worker \in {"parked", "gone"}

\* A second detach completes the first: when the host repeats it, the site
\* stops refusing and the game's thread goes on, the module is unloaded.
HostRepeatsDetach ==
  /\ WF_vars(ReceiveDetach)
  /\ WF_vars(Frame /\ frame # "game")
  /\ <>[][~RemoveRefused /\ (RemoveHook => outcome'.verified)]_vars
  /\ <>[][QuiesceTimesOut => frame # "game" \/ ~workerGone]_vars
  /\ <>[][JoinWorker => worker \in {"gone", "parked"}]_vars
  /\ <>[][~ReceiveMenu /\ ~ReceiveRescan]_vars
RepeatedDetachUnloads == HostRepeatsDetach => <>~loaded
=============================================================================
