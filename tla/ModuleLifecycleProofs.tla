----------------------- MODULE ModuleLifecycleProofs -----------------------
(***************************************************************************)
(* Proofs about ModuleLifecycle for any length of the scan, whether or not *)
(* the worker outlasts a detach and whether or not the site refuses: the   *)
(* unload is safe, what is shown as Detached is true, the hook goes in     *)
(* once, a menu outlives the module only with an excuse, and the three     *)
(* threads implement HookContract; scans and requests are bounded.         *)
(***************************************************************************)
EXTENDS ModuleLifecycle, TLAPS

USE LifecycleAssumption DEF LifecycleAssumption
USE DEF hookVars, workerVars, scanEvents, menuVars, detachVars, Untouched,
        WorkerGoes, FrameGoes, PipeGoes, InDetach, Detaching

LEMMA NextCases ==
  ASSUME [Next]_vars
  PROVE  Worker \/ Frame \/ GameTakesMenu \/ Receive \/ Serve \/ UNCHANGED vars
  BY DEF Next

-----------------------------------------------------------------------------
(* Types.                                                                  *)

PlacesOK ==
  /\ worker \in WorkerPlaces
  /\ attempts \in 0..MaxAttempts
  /\ frame \in FramePlaces
  /\ pipe \in PipePlaces

FlagsOK ==
  /\ loaded \in BOOLEAN /\ running \in BOOLEAN
  /\ hooked \in BOOLEAN /\ everHooked \in BOOLEAN
  /\ scanStop \in BOOLEAN /\ scanAgain \in BOOLEAN
  /\ owned \in BOOLEAN /\ menuUp \in BOOLEAN /\ excused \in BOOLEAN
  /\ workerGone \in BOOLEAN

RecordsOK ==
  /\ status \in [state : States, hook : BOOLEAN, menu : BOOLEAN]
  /\ slot \in [is : SlotStates, enable : BOOLEAN]
  /\ outcome \in [verified : BOOLEAN, cold : BOOLEAN]

\* A removal answers for the bytes; whether the module is cold is asked next.
LEMMA RemovalAnswers ==
  ASSUME RemoveHook
  PROVE  outcome' \in [verified : BOOLEAN, cold : BOOLEAN] /\ ~outcome'.cold
<1>1. PICK back \in SiteReads : outcome' = [verified |-> back, cold |-> FALSE]
  BY DEF RemoveHook
<1>2. back \in BOOLEAN
  BY DEF SiteReads
<1> QED
  BY <1>1, <1>2

LEMMA TypeParts == TypeOK <=> PlacesOK /\ FlagsOK /\ RecordsOK
  BY DEF TypeOK, PlacesOK, FlagsOK, RecordsOK

LEMMA TypesInit == Init => PlacesOK /\ FlagsOK /\ RecordsOK
<1> USE DEF Init
<1>1. Init => PlacesOK  BY DEF PlacesOK, WorkerPlaces, FramePlaces, PipePlaces
<1>2. Init => FlagsOK  BY DEF FlagsOK
<1>3. Init => RecordsOK
  BY DEF RecordsOK, States, SlotStates, EmptySlot, NoOutcome
<1>4. QED  BY <1>1, <1>2, <1>3

\* A step of the scan, of the installation or of the parked worker.
LEMMA TypesWorker ==
  ASSUME PlacesOK, FlagsOK, RecordsOK, Worker
  PROVE  PlacesOK' /\ FlagsOK' /\ RecordsOK'
<1> USE DEF PlacesOK, FlagsOK, RecordsOK, WorkerPlaces, States
<1>1. CASE BeginScan
  <2>1. PlacesOK'  BY <1>1 DEF BeginScan, SetState
  <2>2. FlagsOK'  BY <1>1 DEF BeginScan, SetState
  <2>3. RecordsOK'  BY <1>1 DEF BeginScan, SetState
  <2>4. QED  BY <2>1, <2>2, <2>3
<1>2. CASE ScanPass
  <2>1. PlacesOK'  BY <1>2 DEF ScanPass, TimeLeft, DeadlineOfTheScan
  <2>2. FlagsOK'  BY <1>2 DEF ScanPass, TimeLeft, DeadlineOfTheScan
  <2>3. RecordsOK'  BY <1>2 DEF ScanPass, TimeLeft, DeadlineOfTheScan
  <2>4. QED  BY <2>1, <2>2, <2>3
<1>3. CASE WaitBetweenPasses
  <2>1. PlacesOK'  BY <1>3 DEF WaitBetweenPasses
  <2>2. FlagsOK'  BY <1>3 DEF WaitBetweenPasses
  <2>3. RecordsOK'  BY <1>3 DEF WaitBetweenPasses
  <2>4. QED  BY <2>1, <2>2, <2>3
<1>4. CASE Configure
  <2>1. PlacesOK'  BY <1>4 DEF Configure
  <2>2. FlagsOK'  BY <1>4 DEF Configure
  <2>3. RecordsOK'  BY <1>4 DEF Configure
  <2>4. QED  BY <2>1, <2>2, <2>3
<1>5. CASE Install
  <2>1. PlacesOK'  BY <1>5 DEF Install
  <2>2. FlagsOK'  BY <1>5 DEF Install
  <2>3. RecordsOK'  BY <1>5 DEF Install
  <2>4. QED  BY <2>1, <2>2, <2>3
<1>6. CASE InstallRefused
  <2>1. PlacesOK'  BY <1>6 DEF InstallRefused
  <2>2. FlagsOK'  BY <1>6 DEF InstallRefused
  <2>3. RecordsOK'  BY <1>6 DEF InstallRefused
  <2>4. QED  BY <2>1, <2>2, <2>3
<1>7. CASE StartRunning
  <2>1. PlacesOK'  BY <1>7 DEF StartRunning
  <2>2. FlagsOK'  BY <1>7 DEF StartRunning
  <2>3. RecordsOK'  BY <1>7 DEF StartRunning
  <2>4. QED  BY <2>1, <2>2, <2>3
<1>8. CASE PublishReady
  <2>1. PlacesOK'  BY <1>8 DEF PublishReady, AfterReady
  <2>2. FlagsOK'  BY <1>8 DEF PublishReady, AfterReady
  <2>3. RecordsOK'  BY <1>8 DEF PublishReady, AfterReady
  <2>4. QED  BY <2>1, <2>2, <2>3
<1>9. CASE ReportFailed
  <2>1. PlacesOK'  BY <1>9 DEF ReportFailed, SetState
  <2>2. FlagsOK'  BY <1>9 DEF ReportFailed, SetState
  <2>3. RecordsOK'  BY <1>9 DEF ReportFailed, SetState
  <2>4. QED  BY <2>1, <2>2, <2>3
<1>10. CASE ReportUnsupported
  <2>1. PlacesOK'  BY <1>10 DEF ReportUnsupported, SetState
  <2>2. FlagsOK'  BY <1>10 DEF ReportUnsupported, SetState
  <2>3. RecordsOK'  BY <1>10 DEF ReportUnsupported, SetState
  <2>4. QED  BY <2>1, <2>2, <2>3
<1>11. CASE LeaveParked
  <2>1. PlacesOK'  BY <1>11 DEF LeaveParked
  <2>2. FlagsOK'  BY <1>11 DEF LeaveParked
  <2>3. RecordsOK'  BY <1>11 DEF LeaveParked
  <2>4. QED  BY <2>1, <2>2, <2>3
<1>12. CASE ScanAgain
  <2>1. PlacesOK'  BY <1>12 DEF ScanAgain
  <2>2. FlagsOK'  BY <1>12 DEF ScanAgain
  <2>3. RecordsOK'  BY <1>12 DEF ScanAgain
  <2>4. QED  BY <2>1, <2>2, <2>3
<1>13. QED
  BY <1>1, <1>2, <1>3, <1>4, <1>5, <1>6, <1>7, <1>8, <1>9, <1>10, <1>11,
     <1>12 DEF Worker

\* A command, carried out or refused, keeps what the report says in its type.
LEMMA CommandTypes ==
  ASSUME FlagsOK, RecordsOK, NEW on \in BOOLEAN, Switch(on) \/ Refused(on)
  PROVE  /\ owned' \in BOOLEAN
         /\ menuUp' \in BOOLEAN
         /\ status' \in [state : States, hook : BOOLEAN, menu : BOOLEAN]
<1> USE DEF FlagsOK, RecordsOK
<1>1. CASE Switch(on)  BY <1>1 DEF Switch
<1>2. CASE Refused(on)
  <2>1. owned' \in BOOLEAN
    <3>1. owned' \in {owned, menuUp, owned \/ on}  BY <1>2, Zenon DEF Refused
    <3>2. (owned \/ on) \in BOOLEAN  BY Zenon
    <3>3. owned \in BOOLEAN /\ menuUp \in BOOLEAN  BY Zenon
    <3>4. QED  BY <3>1, <3>2, <3>3, Zenon
  <2>2. menuUp' \in BOOLEAN
    <3>1. menuUp' \in {menuUp, menuUp /\ on}  BY <1>2, Zenon DEF Refused
    <3>2. (menuUp /\ on) \in BOOLEAN  BY Zenon
    <3>3. menuUp \in BOOLEAN  BY Zenon
    <3>4. QED  BY <3>1, <3>2, <3>3, Zenon
  <2>3. status' \in [state : States, hook : BOOLEAN, menu : BOOLEAN]
    <3>1. PICK shown \in {FALSE, owned'} : status' = [status EXCEPT !.menu = shown]
      BY <1>2, Zenon DEF Refused
    <3>2. shown \in BOOLEAN  BY <2>1, <3>1, Zenon
    <3>3. status \in [state : States, hook : BOOLEAN, menu : BOOLEAN]
      BY Zenon
    <3>4. QED  BY <3>1, <3>2, <3>3
  <2>4. QED  BY <2>1, <2>2, <2>3
<1>3. QED  BY <1>1, <1>2

\* A step of the game's thread.
LEMMA TypesFrame ==
  ASSUME PlacesOK, FlagsOK, RecordsOK, Frame
  PROVE  PlacesOK' /\ FlagsOK' /\ RecordsOK'
<1> USE DEF PlacesOK, FlagsOK, RecordsOK, FramePlaces, SlotStates
<1>1. CASE EnterHook
  <2>1. PlacesOK'  BY <1>1 DEF EnterHook
  <2>2. FlagsOK'  BY <1>1 DEF EnterHook
  <2>3. RecordsOK'  BY <1>1 DEF EnterHook
  <2>4. QED  BY <2>1, <2>2, <2>3
<1>2. CASE CheckRunning
  <2>1. PlacesOK'  BY <1>2 DEF CheckRunning
  <2>2. FlagsOK'  BY <1>2 DEF CheckRunning
  <2>3. RecordsOK'  BY <1>2 DEF CheckRunning
  <2>4. QED  BY <2>1, <2>2, <2>3
<1>3. CASE ClaimCommand
  <2>1. PlacesOK'  BY <1>3 DEF ClaimCommand
  <2>2. FlagsOK'  BY <1>3 DEF ClaimCommand
  <2>3. RecordsOK'  BY <1>3 DEF ClaimCommand
  <2>4. QED  BY <2>1, <2>2, <2>3
<1>4. CASE NothingQueued
  <2>1. PlacesOK'  BY <1>4 DEF NothingQueued
  <2>2. FlagsOK'  BY <1>4 DEF NothingQueued
  <2>3. RecordsOK'  BY <1>4 DEF NothingQueued
  <2>4. QED  BY <2>1, <2>2, <2>3
<1>5. CASE ExecuteCommand
  <2>1. PlacesOK'  BY <1>5 DEF ExecuteCommand, Switch, Refused
  <2>2. Switch(slot.enable) \/ Refused(slot.enable)
    BY <1>5, Zenon DEF ExecuteCommand
  <2>3. slot.enable \in BOOLEAN  OBVIOUS
  <2>4. /\ owned' \in BOOLEAN /\ menuUp' \in BOOLEAN
        /\ status' \in [state : States, hook : BOOLEAN, menu : BOOLEAN]
    BY <2>2, <2>3, CommandTypes
  <2>5. excused' \in BOOLEAN
    <3>1. CASE Switch(slot.enable)  BY <3>1, Zenon DEF Switch
    <3>2. CASE excused' = (excused \/ InDetach)  BY <3>2, Zenon
    <3>3. QED  BY <1>5, <3>1, <3>2, Zenon DEF ExecuteCommand
  <2>6. UNCHANGED <<loaded, hooked, everHooked, running, scanStop, scanAgain,
                    workerGone, outcome>>
    BY <1>5 DEF ExecuteCommand
  <2>7. slot' \in [is : SlotStates, enable : BOOLEAN]
    BY <1>5 DEF ExecuteCommand
  <2>8. FlagsOK'  BY <2>4, <2>5, <2>6, Zenon
  <2>9. RecordsOK'  BY <2>4, <2>6, <2>7, Zenon
  <2>10. QED  BY <2>1, <2>8, <2>9
<1>6. CASE PollHotkey
  <2>1. PlacesOK'  BY <1>6 DEF PollHotkey, Switch, Refused
  <2>2. UNCHANGED <<loaded, hooked, everHooked, running, scanStop, scanAgain,
                    workerGone, outcome, slot>>
    BY <1>6 DEF PollHotkey
  <2>3. CASE UNCHANGED <<menuVars, status>>
    <3>1. UNCHANGED <<owned, menuUp, excused, status>>  BY <2>3
    <3>2. FlagsOK'  BY <2>2, <3>1, Zenon
    <3>3. RecordsOK'  BY <2>2, <3>1, Zenon
    <3>4. QED  BY <2>1, <3>2, <3>3
  <2>4. CASE Switch(~owned) \/ (Refused(~owned) /\ UNCHANGED excused)
    <3>1. (~owned) \in BOOLEAN  BY Zenon
    <3>2. Switch(~owned) \/ Refused(~owned)  BY <2>4, Zenon
    <3>3. /\ owned' \in BOOLEAN /\ menuUp' \in BOOLEAN
          /\ status' \in [state : States, hook : BOOLEAN, menu : BOOLEAN]
      BY <3>1, <3>2, CommandTypes
    <3>4. excused' \in BOOLEAN
      <4>1. CASE Switch(~owned)  BY <4>1, Zenon DEF Switch
      <4>2. CASE UNCHANGED excused  BY <4>2, Zenon
      <4>3. QED  BY <2>4, <4>1, <4>2, Zenon
    <3>5. FlagsOK'  BY <2>2, <3>3, <3>4, Zenon
    <3>6. RecordsOK'  BY <2>2, <3>3, Zenon
    <3>7. QED  BY <2>1, <3>5, <3>6
  <2>5. \/ UNCHANGED <<menuVars, status>>
        \/ Switch(~owned)
        \/ Refused(~owned) /\ UNCHANGED excused
    BY <1>6 DEF PollHotkey
  <2>6. QED  BY ONLY <2>3, <2>4, <2>5
<1>7. CASE LeaveHook
  <2>1. PlacesOK'  BY <1>7 DEF LeaveHook
  <2>2. FlagsOK'  BY <1>7 DEF LeaveHook
  <2>3. RecordsOK'  BY <1>7 DEF LeaveHook
  <2>4. QED  BY <2>1, <2>2, <2>3
<1>8. QED
  BY <1>1, <1>2, <1>3, <1>4, <1>5, <1>6, <1>7 DEF Frame

\* A request, or a step of one.
LEMMA TypesPipe ==
  ASSUME PlacesOK, FlagsOK, RecordsOK, Receive \/ Serve
  PROVE  PlacesOK' /\ FlagsOK' /\ RecordsOK'
<1> USE DEF PlacesOK, FlagsOK, RecordsOK, PipePlaces, SlotStates, States
<1>1. CASE ReceiveMenu
  <2>1. PlacesOK'  BY <1>1 DEF ReceiveMenu
  <2>2. FlagsOK'  BY <1>1 DEF ReceiveMenu
  <2>3. RecordsOK'  BY <1>1 DEF ReceiveMenu
  <2>4. QED  BY <2>1, <2>2, <2>3
<1>2. CASE ReceiveRescan
  <2>1. PlacesOK'  BY <1>2 DEF ReceiveRescan
  <2>2. FlagsOK'  BY <1>2 DEF ReceiveRescan
  <2>3. RecordsOK'  BY <1>2 DEF ReceiveRescan
  <2>4. QED  BY <2>1, <2>2, <2>3
<1>3. CASE ReceiveDetach
  <2>1. PlacesOK'  BY <1>3 DEF ReceiveDetach, NoOutcome, StopSignalled
  <2>2. FlagsOK'  BY <1>3 DEF ReceiveDetach, NoOutcome, StopSignalled
  <2>3. RecordsOK'  BY <1>3 DEF ReceiveDetach, NoOutcome, StopSignalled
  <2>4. QED  BY <2>1, <2>2, <2>3
<1>4. CASE AskMenu
  <2>1. PlacesOK'  BY <1>4 DEF AskMenu, Queue
  <2>2. FlagsOK'  BY <1>4 DEF AskMenu, Queue
  <2>3. RecordsOK'  BY <1>4 DEF AskMenu, Queue
  <2>4. QED  BY <2>1, <2>2, <2>3
<1>5. CASE MenuAnswered
  <2>1. PlacesOK'  BY <1>5 DEF MenuAnswered, EmptySlot
  <2>2. FlagsOK'  BY <1>5 DEF MenuAnswered, EmptySlot
  <2>3. RecordsOK'  BY <1>5 DEF MenuAnswered, EmptySlot
  <2>4. QED  BY <2>1, <2>2, <2>3
<1>6. CASE MenuTimesOut
  <2>1. PlacesOK'  BY <1>6 DEF MenuTimesOut, AfterTimeout, EmptySlot
  <2>2. FlagsOK'  BY <1>6 DEF MenuTimesOut, AfterTimeout, EmptySlot
  <2>3. RecordsOK'  BY <1>6 DEF MenuTimesOut, AfterTimeout, EmptySlot
  <2>4. QED  BY <2>1, <2>2, <2>3
<1>7. CASE JoinWorker
  <2>1. PlacesOK'  BY <1>7 DEF JoinWorker, Joined
  <2>2. FlagsOK'  BY <1>7 DEF JoinWorker, Joined
  <2>3. RecordsOK'  BY <1>7 DEF JoinWorker, Joined
  <2>4. QED  BY <2>1, <2>2, <2>3
<1>8. CASE ShowDetaching
  <2>1. PlacesOK'  BY <1>8 DEF ShowDetaching, SetState
  <2>2. FlagsOK'  BY <1>8 DEF ShowDetaching, SetState
  <2>3. RecordsOK'  BY <1>8 DEF ShowDetaching, SetState
  <2>4. QED  BY <2>1, <2>2, <2>3
<1>9. CASE DetachMenu
  <2>1. PlacesOK'  BY <1>9 DEF DetachMenu, Queue, MayQueue
  <2>2. FlagsOK'  BY <1>9 DEF DetachMenu, Queue, MayQueue
  <2>3. UNCHANGED <<status, outcome>>  BY <1>9 DEF DetachMenu
  <2>4. slot' = slot \/ slot' = [is |-> "pending", enable |-> FALSE]
    BY <1>9 DEF DetachMenu, Queue
  <2>5. slot' \in [is : SlotStates, enable : BOOLEAN]
    <3>1. [is |-> "pending", enable |-> FALSE]
            \in [is : SlotStates, enable : BOOLEAN]
      OBVIOUS
    <3>2. QED  BY <2>4, <3>1, Zenon
  <2>6. QED  BY <2>1, <2>2, <2>3, <2>5
<1>10. CASE DetachAnswered
  <2>1. PlacesOK'  BY <1>10 DEF DetachAnswered, EmptySlot
  <2>2. FlagsOK'  BY <1>10 DEF DetachAnswered, EmptySlot
  <2>3. RecordsOK'  BY <1>10 DEF DetachAnswered, EmptySlot
  <2>4. QED  BY <2>1, <2>2, <2>3
<1>11. CASE DetachTimesOut
  <2>1. PlacesOK'  BY <1>11 DEF DetachTimesOut, AfterTimeout, EmptySlot
  <2>2. FlagsOK'  BY <1>11 DEF DetachTimesOut, AfterTimeout, EmptySlot
  <2>3. RecordsOK'  BY <1>11 DEF DetachTimesOut, AfterTimeout, EmptySlot
  <2>4. QED  BY <2>1, <2>2, <2>3
<1>12. CASE StopRunning
  <2>1. PlacesOK'  BY <1>12 DEF StopRunning
  <2>2. FlagsOK'  BY <1>12 DEF StopRunning
  <2>3. RecordsOK'  BY <1>12 DEF StopRunning
  <2>4. QED  BY <2>1, <2>2, <2>3
<1>13. CASE RemoveHook
  <2>1. PlacesOK'  BY <1>13 DEF RemoveHook
  <2>2. FlagsOK'  BY <1>13 DEF RemoveHook
  <2>3. RecordsOK'  BY <1>13, RemovalAnswers DEF RemoveHook
  <2>4. QED  BY <2>1, <2>2, <2>3
<1>14. CASE RemoveRefused
  <2>1. PlacesOK'  BY <1>14 DEF RemoveRefused
  <2>2. FlagsOK'  BY <1>14 DEF RemoveRefused
  <2>3. RecordsOK'  BY <1>14 DEF RemoveRefused
  <2>4. QED  BY <2>1, <2>2, <2>3
<1>15. CASE QuiesceCold
  <2>1. PlacesOK'  BY <1>15 DEF QuiesceCold, ColdCounts
  <2>2. FlagsOK'  BY <1>15 DEF QuiesceCold, ColdCounts
  <2>3. RecordsOK'  BY <1>15 DEF QuiesceCold, ColdCounts
  <2>4. QED  BY <2>1, <2>2, <2>3
<1>16. CASE QuiesceTimesOut
  <2>1. PlacesOK'  BY <1>16 DEF QuiesceTimesOut
  <2>2. FlagsOK'  BY <1>16 DEF QuiesceTimesOut
  <2>3. RecordsOK'  BY <1>16 DEF QuiesceTimesOut
  <2>4. QED  BY <2>1, <2>2, <2>3
<1>17. CASE ShowEnding
  <2>1. PlacesOK'  BY <1>17 DEF ShowEnding, Ending
  <2>2. FlagsOK'  BY <1>17 DEF ShowEnding, Ending
  <2>3. RecordsOK'  BY <1>17 DEF ShowEnding, Ending
  <2>4. QED  BY <2>1, <2>2, <2>3
<1>18. CASE Reply
  <2>1. PlacesOK'  BY <1>18 DEF Reply
  <2>2. FlagsOK'  BY <1>18 DEF Reply
  <2>3. RecordsOK'  BY <1>18 DEF Reply
  <2>4. QED  BY <2>1, <2>2, <2>3
<1>19. CASE Unload
  <2>1. PlacesOK'  BY <1>19 DEF Unload
  <2>2. FlagsOK'  BY <1>19 DEF Unload
  <2>3. RecordsOK'  BY <1>19 DEF Unload
  <2>4. QED  BY <2>1, <2>2, <2>3
<1>20. QED
  BY <1>1, <1>2, <1>3, <1>4, <1>5, <1>6, <1>7, <1>8, <1>9, <1>10, <1>11,
     <1>12, <1>13, <1>14, <1>15, <1>16, <1>17, <1>18, <1>19 DEF Receive, Serve

\* Every state of the three threads, the report and the slot has its type: the
\* worker never begins a pass beyond its deadline, and what the status shows is
\* one of the states of protocol.h, whatever times out or is refused.
THEOREM TypeCorrect == Spec => []TypeOK
<1> DEFINE Types == PlacesOK /\ FlagsOK /\ RecordsOK
<1>1. Types /\ [Next]_vars => Types'
  <2> SUFFICES ASSUME Types, [Next]_vars PROVE Types'
    OBVIOUS
  <2> USE DEF PlacesOK, FlagsOK, RecordsOK
  <2>1. CASE GameTakesMenu
    <3>1. menuUp' \in BOOLEAN  BY <2>1 DEF GameTakesMenu
    <3>2. UNCHANGED <<loaded, hookVars, running, workerVars, scanEvents, status,
                      frame, slot, owned, excused, pipe, detachVars>>
      BY <2>1 DEF GameTakesMenu
    <3>3. PlacesOK' /\ RecordsOK'  BY <3>2
    <3>4. FlagsOK'  BY <3>1, <3>2, Zenon
    <3>5. QED  BY <3>3, <3>4
  <2>2. CASE UNCHANGED vars  BY <2>2 DEF vars
  <2>3. QED
    BY <2>1, <2>2, TypesWorker, TypesFrame, TypesPipe, NextCases
<1>2. QED  BY <1>1, TypesInit, TypeParts, PTL DEF Spec

-----------------------------------------------------------------------------
(* Why the module may go, and why Detached is true.                        *)

\* The two records keep their fields.
Shapes ==
  /\ status = [state |-> status.state, hook |-> status.hook,
               menu |-> status.menu]
  /\ outcome = [verified |-> outcome.verified, cold |-> outcome.cold]

\* The worker ends once and for all, and a join that succeeded saw it.
JoinedIsGone == workerGone => worker = "gone"

\* Nobody is left to put the hook back while the last thread is waited for.
OutWhileWaiting == pipe = "d_quiesce" /\ workerGone => ~hooked

ColdIsQuiet == outcome.cold => workerGone /\ ~hooked /\ frame = "game"

GoneIsCold == ~loaded => outcome.cold /\ pipe = "gone"

DetachedIsJoined ==
  status.state = "Detached" => workerGone /\ ~hooked /\ ~status.hook

\* A hook that was in came from a worker that will not come back.
HookEndsWorker == everHooked => worker \in {"installed", "publish", "gone"}

LeaveInv ==
  /\ Shapes
  /\ JoinedIsGone
  /\ OutWhileWaiting
  /\ ColdIsQuiet
  /\ GoneIsCold
  /\ DetachedIsJoined
  /\ HookEndsWorker

LEMMA LeaveInvInit == Init => LeaveInv
  BY DEF Init, LeaveInv, Shapes, JoinedIsGone, OutWhileWaiting, ColdIsQuiet,
     GoneIsCold, DetachedIsJoined, HookEndsWorker, NoOutcome

\* A worker that acts has not been joined, so nothing was promised yet.
LEMMA LeaveInvWorker ==
  ASSUME LeaveInv, Worker
  PROVE  LeaveInv'
<1> USE DEF LeaveInv, Shapes, JoinedIsGone, OutWhileWaiting, ColdIsQuiet,
        GoneIsCold, DetachedIsJoined, HookEndsWorker
<1>1. CASE BeginScan  BY <1>1 DEF BeginScan, SetState
<1>2. CASE ScanPass  BY <1>2 DEF ScanPass
<1>3. CASE WaitBetweenPasses  BY <1>3 DEF WaitBetweenPasses
<1>4. CASE Configure  BY <1>4 DEF Configure
<1>5. CASE Install  BY <1>5 DEF Install
<1>6. CASE InstallRefused  BY <1>6 DEF InstallRefused
<1>7. CASE StartRunning  BY <1>7 DEF StartRunning
<1>8. CASE PublishReady  BY <1>8 DEF PublishReady, AfterReady
<1>9. CASE ReportFailed  BY <1>9 DEF ReportFailed, SetState
<1>10. CASE ReportUnsupported  BY <1>10 DEF ReportUnsupported, SetState
<1>11. CASE LeaveParked  BY <1>11 DEF LeaveParked
<1>12. CASE ScanAgain  BY <1>12 DEF ScanAgain
<1>13. QED
  BY <1>1, <1>2, <1>3, <1>4, <1>5, <1>6, <1>7, <1>8, <1>9, <1>10, <1>11, <1>12
     DEF Worker

\* The game's thread comes in only through the hook.
LEMMA LeaveInvFrame ==
  ASSUME LeaveInv, Frame
  PROVE  LeaveInv'
<1> USE DEF LeaveInv, Shapes, JoinedIsGone, OutWhileWaiting, ColdIsQuiet,
        GoneIsCold, DetachedIsJoined, HookEndsWorker
<1>1. CASE EnterHook  BY <1>1 DEF EnterHook
<1>2. CASE CheckRunning  BY <1>2 DEF CheckRunning
<1>3. CASE ClaimCommand  BY <1>3 DEF ClaimCommand
<1>4. CASE NothingQueued  BY <1>4 DEF NothingQueued
<1>5. CASE ExecuteCommand  BY <1>5 DEF ExecuteCommand, Switch, Refused
<1>6. CASE PollHotkey  BY <1>6 DEF PollHotkey, Switch, Refused
<1>7. CASE LeaveHook  BY <1>7 DEF LeaveHook
<1>8. QED
  BY <1>1, <1>2, <1>3, <1>4, <1>5, <1>6, <1>7 DEF Frame

\* The pipe thread promises what it has seen.
LEMMA LeaveInvPipe ==
  ASSUME LeaveInv, Receive \/ Serve
  PROVE  LeaveInv'
<1> USE DEF LeaveInv, Shapes, JoinedIsGone, OutWhileWaiting, ColdIsQuiet,
        GoneIsCold, DetachedIsJoined, HookEndsWorker
<1>1. CASE ReceiveMenu  BY <1>1 DEF ReceiveMenu
<1>2. CASE ReceiveRescan  BY <1>2 DEF ReceiveRescan
<1>3. CASE ReceiveDetach  BY <1>3 DEF ReceiveDetach, NoOutcome
<1>4. CASE AskMenu  BY <1>4 DEF AskMenu, Queue
<1>5. CASE MenuAnswered  BY <1>5 DEF MenuAnswered
<1>6. CASE MenuTimesOut  BY <1>6 DEF MenuTimesOut
<1>7. CASE JoinWorker  BY <1>7 DEF JoinWorker, Joined
<1>8. CASE ShowDetaching  BY <1>8 DEF ShowDetaching, SetState
<1>9. CASE DetachMenu  BY <1>9 DEF DetachMenu, Queue
<1>10. CASE DetachAnswered  BY <1>10 DEF DetachAnswered
<1>11. CASE DetachTimesOut  BY <1>11 DEF DetachTimesOut
<1>12. CASE StopRunning  BY <1>12 DEF StopRunning
<1>13. CASE RemoveHook  BY <1>13 DEF RemoveHook
<1>14. CASE RemoveRefused  BY <1>14 DEF RemoveRefused
<1>15. CASE QuiesceCold  BY <1>15 DEF QuiesceCold, ColdCounts
<1>16. CASE QuiesceTimesOut  BY <1>16 DEF QuiesceTimesOut
<1>17. CASE ShowEnding  BY <1>17 DEF ShowEnding, Ending
<1>18. CASE Reply  BY <1>18 DEF Reply
<1>19. CASE Unload  BY <1>19 DEF Unload, Unloading
<1>20. QED
  BY <1>1, <1>2, <1>3, <1>4, <1>5, <1>6, <1>7, <1>8, <1>9, <1>10, <1>11,
     <1>12, <1>13, <1>14, <1>15, <1>16, <1>17, <1>18, <1>19 DEF Receive, Serve

LEMMA LeaveInvStep ==
  ASSUME LeaveInv, [Next]_vars
  PROVE  LeaveInv'
<1> USE DEF LeaveInv, Shapes, JoinedIsGone, OutWhileWaiting, ColdIsQuiet,
        GoneIsCold, DetachedIsJoined, HookEndsWorker
<1>1. CASE GameTakesMenu  BY <1>1 DEF GameTakesMenu
<1>2. CASE UNCHANGED vars  BY <1>2 DEF vars
<1>3. QED
  BY <1>1, <1>2, LeaveInvWorker, LeaveInvFrame, LeaveInvPipe, NextCases

\* When the module is unmapped the hook is out, the game's thread is outside
\* and the worker has ended, even if an earlier detach gave up on the worker.
THEOREM UnloadSafety == Spec => []UnloadIsSafe
<1>1. LeaveInv => UnloadIsSafe
  BY DEF LeaveInv, JoinedIsGone, ColdIsQuiet, GoneIsCold,
     UnloadIsSafe
<1>2. QED  BY <1>1, LeaveInvInit, LeaveInvStep, PTL DEF Spec

\* Whoever reads Detached in the status can believe it from then on.
THEOREM DetachedIsTrue == Spec => []DetachedMeansUntouched
<1>1. LeaveInv => DetachedMeansUntouched
  BY DEF LeaveInv, JoinedIsGone, DetachedIsJoined,
     DetachedMeansUntouched
<1>2. QED  BY <1>1, LeaveInvInit, LeaveInvStep, PTL DEF Spec

\* The hook goes in once in the life of a module: FrameHook's provision that
\* nothing is installed before a cold answer is kept by its caller.
THEOREM SingleInstall == Spec => InstalledOnce
<1>1. ASSUME LeaveInv, [Next]_vars
      PROVE  [~hooked /\ hooked' => ~everHooked]_vars
  <2>1. CASE Install
    BY <1>1, <2>1 DEF Install, LeaveInv, HookEndsWorker
  <2>2. CASE Worker /\ ~Install
    BY <2>2 DEF Worker, BeginScan, ScanPass, WaitBetweenPasses, Configure,
       InstallRefused, StartRunning, PublishReady, ReportFailed,
       ReportUnsupported, LeaveParked, ScanAgain
  <2>3. CASE Frame
    BY <2>3 DEF Frame, EnterHook, CheckRunning, ClaimCommand, NothingQueued,
       ExecuteCommand, PollHotkey, LeaveHook
  <2>4. CASE GameTakesMenu \/ UNCHANGED vars  BY <2>4 DEF GameTakesMenu, vars
  <2>5. CASE Receive
    BY <2>5 DEF Receive, ReceiveMenu, ReceiveRescan, ReceiveDetach
  <2>6. CASE Serve
    BY <2>6 DEF Serve, AskMenu, MenuAnswered, MenuTimesOut, JoinWorker,
       ShowDetaching, DetachMenu, Queue, DetachAnswered, DetachTimesOut,
       StopRunning, RemoveHook, RemoveRefused, QuiesceCold, QuiesceTimesOut,
       ShowEnding, Reply, Unload
  <2>7. QED  BY <1>1, <2>1, <2>2, <2>3, <2>4, <2>5, <2>6, NextCases
<1>2. QED  BY <1>1, LeaveInvInit, LeaveInvStep, PTL DEF Spec, InstalledOnce

-----------------------------------------------------------------------------
(* Why a menu that outlives the module has an excuse.                      *)

SlotShape == slot = [is |-> slot.is, enable |-> slot.enable]

CommandIsRunning == frame = "command" => slot.is = "running"

UpIsOwned == menuUp => owned

\* The detach waits for its own off command, or for what came of it.
WaitsForOff ==
  pipe = "d_wait" =>
    \/ slot.is \in {"pending", "running"} /\ slot.enable = FALSE
    \/ slot.is = "done" /\ (menuUp => excused)

HaltedWithout ==
  pipe \in {"d_halt", "d_remove", "d_quiesce", "d_status"} \/ outcome.cold
    => (menuUp => excused)

\* While a detach goes on, only its ending is shown when the module is cold.
ColdIsLast == outcome.cold => pipe \notin Detaching \ {"d_status"}

MenuParts ==
  /\ ColdIsLast
  /\ SlotShape
  /\ CommandIsRunning
  /\ UpIsOwned
  /\ WaitsForOff
  /\ HaltedWithout

LEMMA MenuPartsInit == Init => MenuParts
  BY DEF Init, MenuParts, ColdIsLast, SlotShape, CommandIsRunning, UpIsOwned,
     WaitsForOff, HaltedWithout, EmptySlot, NoOutcome

LEMMA MenuPartsWorker ==
  ASSUME LeaveInv, MenuParts, Worker
  PROVE  MenuParts'
<1> USE DEF LeaveInv, Shapes, ColdIsQuiet, GoneIsCold, MenuParts,
        ColdIsLast, Detaching, SlotShape, CommandIsRunning, UpIsOwned, WaitsForOff,
        HaltedWithout
<1>1. CASE BeginScan  BY <1>1 DEF BeginScan
<1>2. CASE ScanPass  BY <1>2 DEF ScanPass
<1>3. CASE WaitBetweenPasses  BY <1>3 DEF WaitBetweenPasses
<1>4. CASE Configure  BY <1>4 DEF Configure
<1>5. CASE Install  BY <1>5 DEF Install
<1>6. CASE InstallRefused  BY <1>6 DEF InstallRefused
<1>7. CASE StartRunning  BY <1>7 DEF StartRunning
<1>8. CASE PublishReady  BY <1>8 DEF PublishReady
<1>9. CASE ReportFailed  BY <1>9 DEF ReportFailed
<1>10. CASE ReportUnsupported  BY <1>10 DEF ReportUnsupported
<1>11. CASE LeaveParked  BY <1>11 DEF LeaveParked
<1>12. CASE ScanAgain  BY <1>12 DEF ScanAgain
<1>13. QED
  BY <1>1, <1>2, <1>3, <1>4, <1>5, <1>6, <1>7, <1>8, <1>9, <1>10, <1>11, <1>12
     DEF Worker

\* A refused command leaves no menu up that is not owned.
LEMMA RefusedKeepsOwned ==
  ASSUME UpIsOwned, NEW on, Refused(on)
  PROVE  UpIsOwned'
<1>1. menuUp' => menuUp  BY Zenon DEF Refused
<1>2. menuUp => owned  BY Zenon DEF UpIsOwned
<1>3. menuUp /\ owned => owned'
  <2>1. owned' \in {owned, menuUp, owned \/ on}  BY Zenon DEF Refused
  <2>2. ASSUME menuUp, owned  PROVE owned'
    <3>1. CASE owned' = owned  BY <2>2, <3>1, Zenon
    <3>2. CASE owned' = menuUp  BY <2>2, <3>2, Zenon
    <3>3. CASE owned' = (owned \/ on)  BY <2>2, <3>3, Zenon
    <3>4. QED  BY <2>1, <3>1, <3>2, <3>3, Zenon
  <2>3. QED  BY <2>2, Zenon
<1>4. QED  BY <1>1, <1>2, <1>3, Zenon DEF UpIsOwned

LEMMA MenuPartsFrame ==
  ASSUME LeaveInv, MenuParts, Frame
  PROVE  MenuParts'
<1> USE DEF LeaveInv, Shapes, ColdIsQuiet, GoneIsCold, MenuParts,
        ColdIsLast, Detaching, SlotShape, CommandIsRunning, UpIsOwned, WaitsForOff,
        HaltedWithout
<1>1. CASE EnterHook  BY <1>1 DEF EnterHook
<1>2. CASE CheckRunning  BY <1>2 DEF CheckRunning
<1>3. CASE ClaimCommand  BY <1>3 DEF ClaimCommand
<1>4. CASE NothingQueued  BY <1>4 DEF NothingQueued
<1>5. CASE ExecuteCommand
  <2> USE <1>5 DEF ExecuteCommand
  <2>1. frame = "command" /\ slot.is = "running" /\ ~outcome.cold
    BY DEF FrameGoes
  <2>2. frame' = "poll" /\ pipe' = pipe /\ outcome' = outcome
    BY DEF FrameGoes
  <2>3. slot' = [is |-> "done", enable |-> slot.enable]
    OBVIOUS
  <2>4. CASE Switch(slot.enable)
    <3>1. owned' = slot.enable /\ menuUp' = slot.enable  BY <2>4 DEF Switch
    <3>2. menuUp' /\ InDetach => excused'  BY <2>4, <3>1 DEF Switch
    <3>3. UpIsOwned'  BY <3>1
    <3>4. WaitsForOff'  BY <2>1, <2>2, <2>3, <3>1
    <3>5. HaltedWithout'
      BY <2>1, <2>2, <3>2, Zenon DEF InDetach, Detaching
    <3>6. QED  BY <2>2, <2>3, <3>3, <3>4, <3>5
  <2>5. CASE Refused(slot.enable) /\ excused' = (excused \/ InDetach)
    <3>1. menuUp' => menuUp  BY <2>5, Zenon DEF Refused
    <3>2. InDetach => excused'  BY <2>5, Zenon
    <3>3. excused => excused'  BY <2>5, Zenon
    <3>4. UpIsOwned'  BY <2>5, RefusedKeepsOwned
    <3>5. WaitsForOff'
      <4>1. pipe = "d_wait" => excused'  BY <3>2 DEF InDetach, Detaching
      <4>2. QED  BY <2>2, <2>3, <4>1
    <3>6. HaltedWithout'  BY <2>1, <2>2, <3>1, <3>3, Zenon
    <3>7. QED  BY <2>2, <2>3, <3>4, <3>5, <3>6
  <2>6. QED  BY <2>4, <2>5
<1>6. CASE PollHotkey
  <2> USE <1>6 DEF PollHotkey
  <2>1. frame' = "leave" /\ UNCHANGED <<pipe, outcome, slot>>  BY DEF FrameGoes
  <2>2. frame = "poll" /\ ~outcome.cold  BY DEF FrameGoes
  <2>3. CASE UNCHANGED <<menuVars, status>>
    BY <2>1, <2>3
  <2>4. CASE Switch(~owned)
    <3>1. UpIsOwned'  BY <2>4, Zenon DEF Switch
    <3>2. menuUp' /\ InDetach => excused'  BY <2>4, Zenon DEF Switch
    <3>3. HaltedWithout'
      BY <2>1, <2>2, <3>2, Zenon DEF InDetach, Detaching
    <3>4. WaitsForOff'
      <4>1. pipe = "d_wait" => (menuUp' => excused')
        BY <3>2 DEF InDetach, Detaching
      <4>2. QED  BY <2>1, <4>1
    <3>5. QED  BY <2>1, <2>2, <3>1, <3>3, <3>4
  <2>5. CASE Refused(~owned) /\ UNCHANGED excused
    <3>1. menuUp' => menuUp  BY <2>5, Zenon DEF Refused
    <3>2. UpIsOwned'  BY <2>5, RefusedKeepsOwned
    <3>3. excused' = excused  BY <2>5
    <3>4. HaltedWithout'  BY <2>1, <2>2, <3>1, <3>3, Zenon
    <3>5. WaitsForOff'  BY <2>1, <3>1, <3>3
    <3>6. QED  BY <2>1, <2>2, <3>2, <3>4, <3>5
  <2>6. QED  BY <2>3, <2>4, <2>5
<1>7. CASE LeaveHook  BY <1>7 DEF LeaveHook
<1>8. QED
  BY <1>1, <1>2, <1>3, <1>4, <1>5, <1>6, <1>7 DEF Frame

LEMMA MenuPartsPipe ==
  ASSUME LeaveInv, MenuParts, Receive \/ Serve
  PROVE  MenuParts'
<1> USE DEF LeaveInv, Shapes, ColdIsQuiet, GoneIsCold, MenuParts,
        ColdIsLast, Detaching, SlotShape, CommandIsRunning, UpIsOwned, WaitsForOff,
        HaltedWithout
<1>1. CASE ReceiveMenu  BY <1>1 DEF ReceiveMenu
<1>2. CASE ReceiveRescan  BY <1>2 DEF ReceiveRescan
<1>3. CASE ReceiveDetach  BY <1>3 DEF ReceiveDetach, NoOutcome
<1>4. CASE AskMenu  BY <1>4 DEF AskMenu, Queue, MayQueue
<1>5. CASE MenuAnswered  BY <1>5 DEF MenuAnswered, EmptySlot
<1>6. CASE MenuTimesOut  BY <1>6 DEF MenuTimesOut, AfterTimeout, EmptySlot
<1>7. CASE JoinWorker  BY <1>7 DEF JoinWorker
<1>8. CASE ShowDetaching  BY <1>8 DEF ShowDetaching
<1>9. CASE DetachMenu
  <2> USE <1>9 DEF DetachMenu
  <2>1. pipe = "d_menu"  BY DEF Queue, PipeGoes
  <2>2. UNCHANGED <<owned, menuUp, frame, outcome>>  BY DEF Queue, PipeGoes
  <2>3. ~outcome.cold
    BY <2>1
  <2>4. UpIsOwned'  BY <2>2, Zenon
  <2>5. CASE AskOff /\ MayQueue
    <3>1. pipe' = "d_wait" /\ slot' = [is |-> "pending", enable |-> FALSE]
      BY <2>5 DEF Queue, PipeGoes
    <3>2. frame # "command"  BY <2>5 DEF MayQueue
    <3>3. QED  BY <2>2, <2>3, <2>4, <3>1, <3>2
  <2>6. CASE ~(AskOff /\ MayQueue)
    <3>1. pipe' = "d_halt" /\ slot' = slot  BY <2>6 DEF Queue, PipeGoes
    <3>2. menuUp => owned /\ ~MayQueue
      <4>1. menuUp => owned  BY Zenon
      <4>2. QED  BY <2>6, <4>1, Zenon DEF AskOff, MayQueue
    <3>3. menuUp' => excused'  BY <2>2, <3>2, Zenon
    <3>4. HaltedWithout'  BY <3>3, Zenon
    <3>5. WaitsForOff'  BY <3>1
    <3>6. SlotShape' /\ CommandIsRunning'  BY <2>2, <3>1, Zenon
    <3>7. ColdIsLast'  BY <2>2, <2>3, <3>1
    <3>8. QED  BY <2>4, <3>4, <3>5, <3>6, <3>7, Zenon
  <2>7. QED  BY <2>5, <2>6
<1>10. CASE DetachAnswered  BY <1>10 DEF DetachAnswered, EmptySlot
<1>11. CASE DetachTimesOut  BY <1>11 DEF DetachTimesOut, AfterTimeout, EmptySlot
<1>12. CASE StopRunning  BY <1>12 DEF StopRunning
<1>13. CASE RemoveHook
  <2>1. ~outcome'.cold  BY <1>13, RemovalAnswers
  <2>2. /\ pipe = "d_remove" /\ pipe' = "d_quiesce" /\ hooked' = FALSE
        /\ UNCHANGED <<loaded, everHooked, worker, attempts, frame, owned, menuUp,
                       running, scanStop, scanAgain, status, workerGone, excused, slot>>
    BY <1>13 DEF RemoveHook
  <2> QED  BY <2>1, <2>2
<1>14. CASE RemoveRefused  BY <1>14 DEF RemoveRefused
<1>15. CASE QuiesceCold  BY <1>15 DEF QuiesceCold
<1>16. CASE QuiesceTimesOut  BY <1>16 DEF QuiesceTimesOut
<1>17. CASE ShowEnding  BY <1>17 DEF ShowEnding
<1>18. CASE Reply  BY <1>18 DEF Reply, Unloading
<1>19. CASE Unload  BY <1>19 DEF Unload, Unloading
<1>20. QED
  BY <1>1, <1>2, <1>3, <1>4, <1>5, <1>6, <1>7, <1>8, <1>9, <1>10, <1>11,
     <1>12, <1>13, <1>14, <1>15, <1>16, <1>17, <1>18, <1>19 DEF Receive, Serve

LEMMA MenuPartsStep ==
  ASSUME LeaveInv, MenuParts, [Next]_vars
  PROVE  MenuParts'
<1> USE DEF LeaveInv, Shapes, ColdIsQuiet, GoneIsCold, MenuParts,
        ColdIsLast, Detaching, SlotShape, CommandIsRunning, UpIsOwned, WaitsForOff,
        HaltedWithout
<1>1. CASE GameTakesMenu  BY <1>1 DEF GameTakesMenu
<1>2. CASE UNCHANGED vars  BY <1>2 DEF vars
<1>3. QED
  BY <1>1, <1>2, MenuPartsWorker, MenuPartsFrame, MenuPartsPipe, NextCases

\* A detach takes a menu of ours away before the module goes, unless the off
\* command was not carried out or the menu was turned on after it.
THEOREM MenuExcused == Spec => []MenuStaysOnlyExcused
<1>1. LeaveInv /\ MenuParts => MenuStaysOnlyExcused
  BY DEF LeaveInv, GoneIsCold, MenuParts, HaltedWithout, MenuStaysOnlyExcused
<1>2. QED
  BY <1>1, LeaveInvInit, LeaveInvStep, MenuPartsInit, MenuPartsStep, PTL DEF Spec

-----------------------------------------------------------------------------
(* The module keeps towards the game what the hook keeps towards it.       *)

\* The contract of frame_hook.h, with the one thread of the game.
Contract ==
  INSTANCE HookContract
    WITH Threads <- {"game"},
         inside <- IF frame = "game" THEN {} ELSE {"game"},
         hooked <- hooked
ImplementsContract == Contract!Spec

\* Before the first install nobody has come through the hook.
NeverHookedIsQuiet == ~everHooked => ~hooked /\ frame = "game"

ContractInv == TypeOK /\ LeaveInv /\ NeverHookedIsQuiet

LEMMA NeverHookedStep ==
  ASSUME NeverHookedIsQuiet, [Next]_vars
  PROVE  NeverHookedIsQuiet'
<1> USE DEF NeverHookedIsQuiet
<1>1. CASE Worker
  BY <1>1 DEF Worker, BeginScan, ScanPass, WaitBetweenPasses, Configure, Install,
     InstallRefused, StartRunning, PublishReady, ReportFailed,
     ReportUnsupported, LeaveParked, ScanAgain
<1>2. CASE Frame
  BY <1>2 DEF Frame, EnterHook, CheckRunning, ClaimCommand, NothingQueued,
     ExecuteCommand, PollHotkey, LeaveHook
<1>3. CASE GameTakesMenu \/ UNCHANGED vars  BY <1>3 DEF GameTakesMenu, vars
<1>4. CASE Receive
  BY <1>4 DEF Receive, ReceiveMenu, ReceiveRescan, ReceiveDetach
<1>5. CASE Serve
  BY <1>5 DEF Serve, AskMenu, MenuAnswered, MenuTimesOut, JoinWorker,
     ShowDetaching, DetachMenu, Queue, DetachAnswered, DetachTimesOut,
     StopRunning, RemoveHook, RemoveRefused, QuiesceCold, QuiesceTimesOut,
     ShowEnding, Reply, Unload
<1>6. QED  BY <1>1, <1>2, <1>3, <1>4, <1>5, NextCases

LEMMA ContractStep ==
  ASSUME ContractInv, [Next]_vars
  PROVE  [Contract!Next]_(Contract!vars)
<1> DEFINE inside == IF frame = "game" THEN {} ELSE {"game"}
<1> USE DEF ContractInv, LeaveInv, NeverHookedIsQuiet, Contract!Next, Contract!vars
<1>1. CASE Install
  <2>1. loaded /\ ~hooked /\ frame = "game"
    BY <1>1 DEF Install, HookEndsWorker
  <2>2. hooked' /\ UNCHANGED <<loaded, frame>>  BY <1>1 DEF Install
  <2>3. hooked' = TRUE  BY <1>1 DEF Install
  <2>4. Contract!Hook  BY <2>1, <2>2, <2>3 DEF Contract!Hook
  <2>5. QED  BY <2>4
<1>2. CASE Worker /\ ~Install
  <2>1. UNCHANGED <<loaded, hooked, frame>>
    BY <1>2 DEF Worker, BeginScan, ScanPass, WaitBetweenPasses, Configure,
       InstallRefused, StartRunning, PublishReady, ReportFailed,
       ReportUnsupported, LeaveParked, ScanAgain
  <2>2. QED  BY <2>1
<1>3. CASE EnterHook
  <2>1. hooked /\ inside = {} /\ inside' = {"game"} /\ UNCHANGED <<loaded, hooked>>
    BY <1>3 DEF EnterHook
  <2>2. Contract!Enter("game")  BY <2>1 DEF Contract!Enter
  <2>3. QED  BY <2>2
<1>4. CASE LeaveHook
  <2>1. inside = {"game"} /\ inside' = {} /\ UNCHANGED <<loaded, hooked>>
    BY <1>4 DEF LeaveHook
  <2>2. Contract!Leave("game")  BY <2>1 DEF Contract!Leave
  <2>3. QED  BY <2>2
<1>5. CASE Frame /\ ~EnterHook /\ ~LeaveHook
  <2>1. inside' = inside /\ UNCHANGED <<loaded, hooked>>
    BY <1>5 DEF Frame, CheckRunning, ClaimCommand, NothingQueued, ExecuteCommand,
       PollHotkey
  <2>2. QED  BY <2>1
<1>6. CASE RemoveHook
  <2>1. hooked' = FALSE /\ UNCHANGED <<loaded, frame>>  BY <1>6 DEF RemoveHook
  <2>2. hooked \in BOOLEAN  BY DEF TypeOK
  <2>3. CASE hooked  BY <2>1, <2>3 DEF Contract!Unhook
  <2>4. CASE ~hooked  BY <2>1, <2>2, <2>4
  <2>5. QED  BY <2>3, <2>4
<1>7. CASE Unload
  <2>1. loaded /\ ~hooked /\ frame = "game"
    BY <1>7 DEF Unload, Unloading, ColdIsQuiet
  <2>2. hooked \in BOOLEAN  BY DEF TypeOK
  <2>3. loaded' = FALSE /\ hooked' = hooked /\ frame' = frame
    BY <1>7, <2>1, <2>2 DEF Unload
  <2>4. Contract!Unload  BY <2>1, <2>3 DEF Contract!Unload
  <2>5. QED  BY <2>4
<1>8. CASE Serve /\ ~RemoveHook /\ ~Unload
  <2>1. UNCHANGED <<loaded, hooked, frame>>
    BY <1>8 DEF Serve, AskMenu, MenuAnswered, MenuTimesOut, JoinWorker,
       ShowDetaching, DetachMenu, Queue, DetachAnswered, DetachTimesOut,
       StopRunning, RemoveRefused, QuiesceCold, QuiesceTimesOut, ShowEnding, Reply
  <2>2. QED  BY <2>1
<1>9. CASE Receive \/ GameTakesMenu \/ UNCHANGED vars
  <2>1. UNCHANGED <<loaded, hooked, frame>>
    BY <1>9 DEF Receive, ReceiveMenu, ReceiveRescan, ReceiveDetach,
       GameTakesMenu, vars
  <2>2. QED  BY <2>1
<1>10. QED
  BY <1>1, <1>2, <1>3, <1>4, <1>5, <1>6, <1>7, <1>8, <1>9, NextCases

\* The worker, the pipe thread and the game's thread together keep the
\* contract FrameHook keeps: the hook goes in only while nobody is inside, and
\* the module is unmapped only when the hook is out and the last thread has
\* left, whether the worker outlasts a detach or the site refuses.
THEOREM Refinement == Spec => ImplementsContract
<1>1. Init => Contract!Init
  BY DEF Init, Contract!Init
<1>2. Init => ContractInv
  BY LeaveInvInit, TypesInit, TypeParts DEF Init, ContractInv, NeverHookedIsQuiet
<1>3. LeaveInv /\ NeverHookedIsQuiet /\ [Next]_vars
        => LeaveInv' /\ NeverHookedIsQuiet'
  BY LeaveInvStep, NeverHookedStep
<1>4. TypeOK /\ LeaveInv /\ NeverHookedIsQuiet => ContractInv
  BY DEF ContractInv
<1>5. Init => LeaveInv /\ NeverHookedIsQuiet
  BY <1>2 DEF ContractInv
<1>6. QED
  BY <1>1, <1>3, <1>4, <1>5, TypeCorrect, ContractStep, PTL
     DEF Spec, ImplementsContract, Contract!Spec

-----------------------------------------------------------------------------
(* How long the threads of the module take.                                *)

\* The steps the worker has left until it is parked or gone.  A pass that is
\* followed by another one uses up an attempt.
PassesLeft == MaxAttempts - attempts
WorkLeft ==
  CASE worker = "start"       -> 7 + 2 * MaxAttempts
    [] worker = "between"     -> 7 + 2 * PassesLeft
    [] worker = "scan"        -> 6 + 2 * PassesLeft
    [] worker = "resolved"    -> 5
    [] worker = "configured"  -> 4
    [] worker = "installed"   -> 3
    [] worker = "publish"     -> 2
    [] worker = "failed"      -> 2
    [] worker = "unsupported" -> 2
    [] worker = "parked"      -> 1
    [] worker = "gone"        -> 0

\* A worker gets new work only from a rescan, and from none once it was told
\* to stop, which is never taken back.
ScanIsBounded ==
  [][/\ Worker => WorkLeft' < WorkLeft \/ (ScanAgain /\ ~scanStop)
     /\ ~Worker => UNCHANGED workerVars
     /\ scanStop => scanStop']_vars

LEMMA WorkIsBounded ==
  ASSUME TypeOK
  PROVE  WorkLeft \in 0..(7 + 2 * MaxAttempts)
<1>1. PassesLeft \in Nat /\ PassesLeft <= MaxAttempts
  BY DEF TypeOK, PassesLeft
<1>2. CASE worker = "start"  BY <1>2 DEF WorkLeft
<1>3. CASE worker = "between"  BY <1>1, <1>3 DEF WorkLeft
<1>4. CASE worker = "scan"  BY <1>1, <1>4 DEF WorkLeft
<1>5. CASE worker \notin {"start", "between", "scan"}
  <2>1. WorkLeft \in 0..5  BY <1>5 DEF TypeOK, WorkerPlaces, WorkLeft
  <2>2. QED  BY <2>1
<1>6. QED  BY <1>2, <1>3, <1>4, <1>5

LEMMA WorkerUsesSteps ==
  ASSUME TypeOK, Worker
  PROVE  WorkLeft' < WorkLeft \/ (ScanAgain /\ ~scanStop)
<1> USE DEF TypeOK, WorkLeft, PassesLeft
<1>1. CASE BeginScan  BY <1>1 DEF BeginScan
<1>2. CASE ScanPass  BY <1>2 DEF ScanPass, TimeLeft, DeadlineOfTheScan
<1>3. CASE WaitBetweenPasses  BY <1>3 DEF WaitBetweenPasses
<1>4. CASE Configure  BY <1>4 DEF Configure
<1>5. CASE Install  BY <1>5 DEF Install
<1>6. CASE InstallRefused  BY <1>6 DEF InstallRefused
<1>7. CASE StartRunning  BY <1>7 DEF StartRunning
<1>8. CASE PublishReady  BY <1>8 DEF PublishReady, AfterReady
<1>9. CASE ReportFailed  BY <1>9 DEF ReportFailed
<1>10. CASE ReportUnsupported  BY <1>10 DEF ReportUnsupported
<1>11. CASE LeaveParked  BY <1>11 DEF LeaveParked
<1>12. CASE ScanAgain  BY <1>12 DEF ScanAgain
<1>13. QED
  BY <1>1, <1>2, <1>3, <1>4, <1>5, <1>6, <1>7, <1>8, <1>9, <1>10, <1>11, <1>12
     DEF Worker

LEMMA OthersLeaveWorker ==
  ASSUME [Next]_vars, ~Worker
  PROVE  UNCHANGED workerVars
<1>1. CASE Frame
  BY <1>1 DEF Frame, EnterHook, CheckRunning, ClaimCommand, NothingQueued,
     ExecuteCommand, PollHotkey, LeaveHook
<1>2. CASE GameTakesMenu \/ UNCHANGED vars  BY <1>2 DEF GameTakesMenu, vars
<1>3. CASE Receive
  BY <1>3 DEF Receive, ReceiveMenu, ReceiveRescan, ReceiveDetach
<1>4. CASE Serve
  BY <1>4 DEF Serve, AskMenu, MenuAnswered, MenuTimesOut, JoinWorker,
     ShowDetaching, DetachMenu, Queue, DetachAnswered, DetachTimesOut,
     StopRunning, RemoveHook, RemoveRefused, QuiesceCold, QuiesceTimesOut,
     ShowEnding, Reply, Unload
<1>5. QED  BY <1>1, <1>2, <1>3, <1>4, NextCases

LEMMA StopStays ==
  ASSUME [Next]_vars, scanStop
  PROVE  scanStop'
<1>1. CASE Worker
  BY <1>1 DEF Worker, BeginScan, ScanPass, WaitBetweenPasses, Configure, Install,
     InstallRefused, StartRunning, PublishReady, ReportFailed,
     ReportUnsupported, LeaveParked, ScanAgain
<1>2. CASE Frame
  BY <1>2 DEF Frame, EnterHook, CheckRunning, ClaimCommand, NothingQueued,
     ExecuteCommand, PollHotkey, LeaveHook
<1>3. CASE GameTakesMenu \/ UNCHANGED vars  BY <1>3 DEF GameTakesMenu, vars
<1>4. CASE Receive
  BY <1>4 DEF Receive, ReceiveMenu, ReceiveRescan, ReceiveDetach, StopSignalled
<1>5. CASE Serve
  BY <1>5 DEF Serve, AskMenu, MenuAnswered, MenuTimesOut, JoinWorker,
     ShowDetaching, DetachMenu, Queue, DetachAnswered, DetachTimesOut,
     StopRunning, RemoveHook, RemoveRefused, QuiesceCold, QuiesceTimesOut,
     ShowEnding, Reply, Unload
<1>6. QED  BY <1>1, <1>2, <1>3, <1>4, <1>5, NextCases

\* A scan, with the installation and the reports that may follow it, is over
\* after a number of steps of the worker fixed by its deadline; and a worker
\* that was told to stop is gone within that number, with no rescan to bring
\* it back, so the join of a detach waits for nothing endless.
THEOREM BoundedScan ==
  Spec => [](WorkLeft \in 0..(7 + 2 * MaxAttempts)) /\ ScanIsBounded
<1>1. TypeOK => WorkLeft \in 0..(7 + 2 * MaxAttempts)  BY WorkIsBounded
<1>2. TypeOK /\ [Next]_vars =>
        [/\ Worker => WorkLeft' < WorkLeft \/ (ScanAgain /\ ~scanStop)
         /\ ~Worker => UNCHANGED workerVars
         /\ scanStop => scanStop']_vars
  BY WorkerUsesSteps, OthersLeaveWorker, StopStays
<1>3. QED  BY <1>1, <1>2, TypeCorrect, PTL DEF Spec, ScanIsBounded

\* The steps the pipe thread has left until a request is answered.
AnswerLeft ==
  CASE pipe = "d_join"    -> 9
    [] pipe = "d_state"   -> 8
    [] pipe = "d_menu"    -> 7
    [] pipe = "d_wait"    -> 6
    [] pipe = "d_halt"    -> 5
    [] pipe = "d_remove"  -> 4
    [] pipe = "d_quiesce" -> 3
    [] pipe = "menu"      -> 3
    [] pipe = "d_status"  -> 2
    [] pipe = "wait"      -> 2
    [] pipe = "reply"     -> 1
    [] pipe = "listen"    -> 0
    [] pipe = "gone"      -> 0

\* A detach waits for no worker that was not told to stop.
JoinsTheStopped == pipe = "d_join" => scanStop
AnswerIsBounded ==
  [][pipe # "listen" =>
       IF Serve THEN AnswerLeft' < AnswerLeft ELSE pipe' = pipe]_vars

LEMMA AnswerLeftBounds ==
  ASSUME TypeOK
  PROVE  AnswerLeft \in 0..9
  BY DEF TypeOK, PipePlaces, Detaching, AnswerLeft

LEMMA ServeUsesSteps ==
  ASSUME TypeOK, Serve
  PROVE  AnswerLeft' < AnswerLeft /\ pipe' # "d_join"
<1> USE DEF AnswerLeft, PipeGoes
<1>1. CASE AskMenu  BY <1>1 DEF AskMenu, Queue
<1>2. CASE MenuAnswered \/ MenuTimesOut  BY <1>2 DEF MenuAnswered, MenuTimesOut
<1>3. CASE JoinWorker  BY <1>3 DEF JoinWorker
<1>4. CASE ShowDetaching  BY <1>4 DEF ShowDetaching
<1>5. CASE DetachMenu  BY <1>5 DEF DetachMenu, Queue
<1>6. CASE DetachAnswered \/ DetachTimesOut
  BY <1>6 DEF DetachAnswered, DetachTimesOut
<1>7. CASE StopRunning  BY <1>7 DEF StopRunning
<1>8. CASE RemoveHook \/ RemoveRefused  BY <1>8 DEF RemoveHook, RemoveRefused
<1>9. CASE QuiesceCold \/ QuiesceTimesOut  BY <1>9 DEF QuiesceCold, QuiesceTimesOut
<1>10. CASE ShowEnding  BY <1>10 DEF ShowEnding
<1>11. CASE Reply \/ Unload  BY <1>11 DEF Reply, Unload
<1>12. QED
  BY <1>1, <1>2, <1>3, <1>4, <1>5, <1>6, <1>7, <1>8, <1>9, <1>10, <1>11 DEF Serve

LEMMA OthersLeavePipe ==
  ASSUME [Next]_vars, ~Serve
  PROVE  IF pipe = "listen" THEN pipe' = "d_join" => scanStop' ELSE pipe' = pipe
<1>1. CASE Worker
  BY <1>1 DEF Worker, WorkerGoes, BeginScan, ScanPass, WaitBetweenPasses, Configure,
     Install, InstallRefused, StartRunning, PublishReady, ReportFailed,
     ReportUnsupported, LeaveParked, ScanAgain
<1>2. CASE Frame
  BY <1>2 DEF Frame, FrameGoes, EnterHook, CheckRunning, ClaimCommand, NothingQueued,
     ExecuteCommand, PollHotkey, LeaveHook
<1>3. CASE GameTakesMenu \/ UNCHANGED vars  BY <1>3 DEF GameTakesMenu, vars
<1>4. CASE Receive
  BY <1>4 DEF Receive, PipeGoes, ReceiveMenu, ReceiveRescan, ReceiveDetach,
     StopSignalled
<1>5. QED  BY <1>1, <1>2, <1>3, <1>4, NextCases

\* Every request is answered after at most nine steps of the pipe thread once
\* it is received.  The one step of a detach that may have to wait for another
\* thread is the join, and the worker it waits for has been told to stop, so
\* that BoundedScan bounds the wait as well.
THEOREM BoundedAnswers ==
  Spec => /\ [](AnswerLeft \in 0..9)
          /\ []JoinsTheStopped
          /\ AnswerIsBounded
<1>1. TypeOK => AnswerLeft \in 0..9  BY AnswerLeftBounds
<1>2. Init => JoinsTheStopped  BY DEF Init, JoinsTheStopped
<1>3. TypeOK /\ JoinsTheStopped /\ [Next]_vars => JoinsTheStopped'
  BY ServeUsesSteps, OthersLeavePipe, StopStays DEF JoinsTheStopped
<1>4. TypeOK /\ [Next]_vars =>
        [pipe # "listen" =>
           IF Serve THEN AnswerLeft' < AnswerLeft ELSE pipe' = pipe]_vars
  BY ServeUsesSteps, OthersLeavePipe
<1>5. QED  BY <1>1, <1>2, <1>3, <1>4, TypeCorrect, PTL DEF Spec, AnswerIsBounded

-----------------------------------------------------------------------------
(* What a detach reports of the bytes.                                     *)

\* A detach past its join has no worker beside it, and neither has a module
\* that reported its bytes back.
BackInv ==
  /\ pipe \in Detaching \ {"d_join"} => worker = "gone"
  /\ outcome.verified => worker = "gone" /\ ~hooked

LEMMA BackInvStep ==
  ASSUME ~WorkerMayOutlast, TypeOK, BackInv, [Next]_vars
  PROVE  BackInv'
<1> USE DEF BackInv
<1>1. CASE Worker
  <2>1. worker # "gone" /\ pipe' = pipe /\ outcome' = outcome
    BY <1>1 DEF Worker, BeginScan, ScanPass, WaitBetweenPasses, Configure, Install,
       InstallRefused, StartRunning, PublishReady, ReportFailed,
       ReportUnsupported, LeaveParked, ScanAgain
  <2>2. QED  BY <2>1
<1>2. CASE Frame
  <2>1. UNCHANGED <<worker, pipe, outcome, hooked>>
    BY <1>2 DEF Frame, EnterHook, CheckRunning, ClaimCommand, NothingQueued,
       ExecuteCommand, PollHotkey, LeaveHook
  <2>2. QED  BY <2>1
<1>3. CASE GameTakesMenu \/ UNCHANGED vars  BY <1>3 DEF GameTakesMenu, vars
<1>4. CASE Receive
  BY <1>4 DEF Receive, ReceiveMenu, ReceiveRescan, ReceiveDetach, NoOutcome
<1>5. CASE Serve
  <2>0. worker' = worker
    BY <1>5 DEF Serve, AskMenu, Queue, MenuAnswered, MenuTimesOut, JoinWorker,
       ShowDetaching, DetachMenu, DetachAnswered, DetachTimesOut, StopRunning,
       RemoveHook, RemoveRefused, QuiesceCold, QuiesceTimesOut, ShowEnding, Reply,
       Unload
  <2>1. CASE JoinWorker  BY <2>0, <2>1 DEF JoinWorker
  <2>2. CASE RemoveHook  BY <2>0, <2>2 DEF RemoveHook
  <2>3. CASE QuiesceCold  BY <2>0, <2>3 DEF QuiesceCold, TypeOK
  <2>4. CASE Unload  BY <2>0, <2>4 DEF Unload
  <2>5. CASE AskMenu \/ MenuAnswered \/ MenuTimesOut \/ ShowDetaching \/ DetachMenu
    BY <2>0, <2>5 DEF AskMenu, Queue, MenuAnswered, MenuTimesOut, ShowDetaching,
       DetachMenu
  <2>6. CASE DetachAnswered \/ DetachTimesOut \/ StopRunning \/ RemoveRefused
    BY <2>0, <2>6 DEF DetachAnswered, DetachTimesOut, StopRunning, RemoveRefused
  <2>7. CASE QuiesceTimesOut \/ ShowEnding \/ Reply
    BY <2>0, <2>7 DEF QuiesceTimesOut, ShowEnding, Reply
  <2>8. QED  BY <1>5, <2>1, <2>2, <2>3, <2>4, <2>5, <2>6, <2>7 DEF Serve
<1>6. QED  BY <1>1, <1>2, <1>3, <1>4, <1>5, NextCases

\* "The bytes are back and the game is whole" is true of every module whose
\* worker ends within the two seconds StopScanWorker gives it, and stays true;
\* the violation of BytesStayBack needs a worker that outlasts them, and
\* nothing else the model lets go wrong.
THEOREM BytesStay ==
  ASSUME ~WorkerMayOutlast
  PROVE  Spec => []BytesStayBack
<1>1. Init => BackInv  BY DEF Init, BackInv, NoOutcome
<1>2. TypeOK /\ BackInv /\ [Next]_vars => BackInv'  BY BackInvStep
<1>3. BackInv => BytesStayBack  BY DEF BackInv, BytesStayBack
<1>4. QED  BY <1>1, <1>2, <1>3, TypeCorrect, PTL DEF Spec
=============================================================================
