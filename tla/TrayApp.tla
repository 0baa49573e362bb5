------------------------------ MODULE TrayApp ------------------------------
(***************************************************************************)
(* The copies of the application that one user's clicks and logons start:  *)
(* wWinMain, the window and the tray icon of src/app/main.cpp, and the     *)
(* Run value of src/app/autostart.cpp that Windows starts them by.         *)
(*                                                                         *)
(* The copies share the registry, a named mutex and a registered window    *)
(* message.  The user, Task Manager and Windows act at any time and a      *)
(* process may be killed at any point.  What a copy that got through does  *)
(* with the game is AppSession, which has one application: OneRunner says  *)
(* why that is enough.  A message box is answered when it appears.         *)
(***************************************************************************)
EXTENDS Naturals

CONSTANTS
  MaxCopies,    \* processes of the application
  MayBeDenied,  \* those that CreateMutexW may refuse, as a copy of less right
  Paths,        \* where its exe lies or once lay
  Folders,      \* where it lies now
  None          \* no Run value, no process

Copies == 1..MaxCopies  \* in the order they are started

ASSUME TrayAssumption ==
  /\ MaxCopies \in Nat
  /\ MayBeDenied \subseteq Copies
  /\ Folders \subseteq Paths
  /\ None \notin Paths

VARIABLES
  \* The processes.
  place,    \* where each copy's main thread is
  tray,     \* start_in_tray
  exe,      \* its path
  inbox,    \* the copies whose g_show_message is in its queue
  quit,     \* WM_QUIT is
  visible,  \* g_window_visible
  device,   \* g_device is there
  \* What they share.
  handles,  \* the copies with a handle to the mutex
  run,      \* the Run value
  skip,     \* Explorer's disabled bit
  \* History.
  chosen,    \* autostart is what the user last turned on
  overruled, \* since then a disable was left uncleared, a disable newer than
             \* the enabling was cleared, or a deleted Run value came back
  waiting,   \* clicks that are owed an answer
  missed,    \* those whose broadcast came before the window of the only copy
             \* that was starting, one started at logon
  denied,    \* copies that CreateMutexW refused
  asked      \* copies started at logon that somebody wanted the window of

screen == <<visible, device>>
queue == <<inbox, quit>>
registry == <<run, skip, chosen, overruled>>
clicks == <<waiting, missed, asked>>
mutex == <<handles, denied>>
vars == <<place, tray, exe, queue, screen, mutex, registry, clicks>>

AutostartEnabled == run # None /\ ~skip

\* The window class is registered and the window there.
Windowed(c) == place[c] \in {"first", "loop", "clearing", "leaving"}
\* It will look at its queue again.
Listening(c) == place[c] \in {"first", "loop", "clearing"}
\* It is about to create its window.
Starting(c) == place[c] = "window"
Running(c) == place[c] \notin {"none", "gone"}

Init ==
  /\ place = [c \in Copies |-> "none"]
  /\ tray = [c \in Copies |-> FALSE]
  /\ exe = [c \in Copies |-> None]
  /\ inbox = [c \in Copies |-> {}]
  /\ quit = [c \in Copies |-> FALSE]
  /\ visible = [c \in Copies |-> FALSE]
  /\ device = [c \in Copies |-> FALSE]
  /\ handles = {}
  /\ run \in Paths \cup {None}
  /\ skip \in BOOLEAN
  /\ skip => run # None
  /\ chosen = AutostartEnabled
  /\ overruled = FALSE
  /\ waiting = {} /\ missed = {}
  /\ denied = {}
  /\ asked = {}

-----------------------------------------------------------------------------
(* Starting.                                                               *)

IsNext(c) == \A d \in Copies : place[d] = "none" <=> d >= c

Click(c) ==
  /\ IsNext(c)
  /\ place' = [place EXCEPT ![c] = "refresh"]
  /\ \E path \in Folders : exe' = [exe EXCEPT ![c] = path]
  /\ waiting' = waiting \cup {c}
  /\ asked' = asked \cup {d \in Copies : tray[d]}
  /\ UNCHANGED <<tray, queue, screen, mutex, registry, missed>>

\* Windows runs what the Run value names, with --tray, if it is still there.
Logon(c) ==
  /\ IsNext(c)
  /\ AutostartEnabled
  /\ run \in Folders
  /\ place' = [place EXCEPT ![c] = "refresh"]
  /\ exe' = [exe EXCEPT ![c] = run]
  /\ tray' = [tray EXCEPT ![c] = TRUE]
  /\ asked' = IF waiting \subseteq missed THEN asked ELSE asked \cup {c}
  /\ UNCHANGED <<queue, screen, mutex, registry, waiting, missed>>

\* RefreshAutostartPath goes by the Run value, not by AutostartEnabled.
NeedsRefresh(c) == run # None /\ exe[c] # run

RefreshRead(c) ==
  /\ place[c] = "refresh"
  /\ place' = [place EXCEPT ![c] = IF NeedsRefresh(c) THEN "write" ELSE "mutex"]
  /\ UNCHANGED <<tray, exe, queue, screen, mutex, registry, clicks>>

\* It writes whatever has become of the value, if the key can be opened and
\* the path is short enough to be known.
RefreshWrite(c) ==
  /\ place[c] = "write"
  /\ run' \in {run, exe[c]}
  /\ overruled' = (overruled \/ (run = None /\ run' # None))
  /\ place' = [place EXCEPT ![c] = "mutex"]
  /\ UNCHANGED <<tray, exe, queue, screen, mutex, skip, chosen, clicks>>

\* A mutex that could not be had stops nobody.
TakeMutex(c) ==
  /\ place[c] = "mutex"
  /\ \E granted \in BOOLEAN :
       /\ granted \/ c \in MayBeDenied
       /\ handles' = IF granted THEN handles \cup {c} ELSE handles
       /\ denied' = IF granted THEN denied ELSE denied \cup {c}
       /\ place' = [place EXCEPT ![c] =
                      IF granted /\ handles # {} THEN "handoff" ELSE "window"]
  /\ UNCHANGED <<tray, exe, queue, screen, registry, clicks>>

\* Mutant: a copy started by Windows asks for the window as well.
AsksAlways(c) == TRUE
Asks(c) == ~tray[c]

\* Mutant: only a window that can be seen is asked.
IsVisible(d) == Windowed(d) /\ visible[d]
\* HWND_BROADCAST reaches every top-level window, hidden or not.
Hears(d) == Windowed(d)

\* The second copy asks the first and returns.  A copy that has no window yet
\* hears nothing.  A click that reaches no window and finds no copy about to
\* make one is owed nothing more: all that is left was on its way out.
HandOff(c) ==
  /\ place[c] = "handoff"
  /\ inbox' = IF Asks(c)
              THEN [d \in Copies |-> IF Hears(d) THEN inbox[d] \cup {c} ELSE inbox[d]]
              ELSE inbox
  /\ waiting' = IF \E d \in Copies : Listening(d) \/ Starting(d)
                THEN waiting ELSE waiting \ {c}
  /\ missed' = IF /\ c \in waiting'
                  /\ \A d \in Copies :
                       ~Listening(d) /\ (Starting(d) => tray[d])
               THEN missed \cup {c} ELSE missed
  /\ place' = [place EXCEPT ![c] = "exiting"]
  /\ UNCHANGED <<tray, exe, quit, screen, mutex, registry, asked>>

\* The clicks that were posted and are in no queue that is still looked at: the
\* window of the copy that was starting then is their answer, if it opens.
Unheard == {c \in waiting : /\ place[c] \in {"exiting", "gone"}
                            /\ \A d \in Copies : Listening(d) => c \notin inbox[d]}

\* A window that cannot be created ends the copy, with a box.
CreateTheWindow(c) ==
  /\ Starting(c)
  /\ \/ place' = [place EXCEPT ![c] = "first"] /\ UNCHANGED waiting
     \/ /\ place' = [place EXCEPT ![c] = "exiting"]
        /\ waiting' = waiting \ ({c} \cup Unheard)
  /\ UNCHANGED <<tray, exe, queue, screen, mutex, registry, missed, asked>>

-----------------------------------------------------------------------------
(* The window.                                                             *)

\* EnsureDeviceD3D may fail; then a box says so and nothing changes.
ShowWindowAgain(c) ==
  \/ visible' = [visible EXCEPT ![c] = TRUE] /\ device' = [device EXCEPT ![c] = TRUE]
  \/ ~device[c] /\ UNCHANGED screen

Hide(c) ==
  /\ visible' = [visible EXCEPT ![c] = FALSE]
  /\ UNCHANGED device

\* The first show, which a start at logon leaves out, and StartLink.
FirstShow(c) ==
  /\ place[c] = "first"
  /\ IF tray[c] THEN UNCHANGED screen ELSE ShowWindowAgain(c)
  /\ waiting' = IF tray[c] THEN waiting ELSE waiting \ ({c} \cup Unheard)
  /\ place' = [place EXCEPT ![c] = "loop"]
  /\ UNCHANGED <<tray, exe, queue, mutex, registry, missed, asked>>

Stays == UNCHANGED <<place, tray, exe, mutex>>

\* Another copy's click.
DispatchShow(c, from) ==
  /\ place[c] = "loop"
  /\ from \in inbox[c]
  /\ inbox' = [inbox EXCEPT ![c] = @ \ {from}]
  /\ ShowWindowAgain(c)
  /\ waiting' = waiting \ {from}
  /\ Stays /\ UNCHANGED <<quit, registry, missed, asked>>

\* A click on the tray icon.
TrayIcon(c) ==
  /\ place[c] = "loop"
  /\ ShowWindowAgain(c)
  /\ asked' = IF tray[c] THEN asked \cup {c} ELSE asked
  /\ Stays /\ UNCHANGED <<queue, registry, waiting, missed>>

\* The tray menu's first entry shows or hides.
TrayMenuShow(c) ==
  /\ place[c] = "loop"
  /\ IF visible[c] THEN Hide(c) ELSE ShowWindowAgain(c)
  /\ asked' = IF tray[c] THEN asked \cup {c} ELSE asked
  /\ Stays /\ UNCHANGED <<queue, registry, waiting, missed>>

\* Closing hides.
CloseWindow(c) ==
  /\ place[c] = "loop"
  /\ visible[c]
  /\ Hide(c)
  /\ Stays /\ UNCHANGED <<queue, registry, clicks>>

\* The tray menu's Exit.
Exit(c) ==
  /\ place[c] = "loop"
  /\ ~quit[c]
  /\ quit' = [quit EXCEPT ![c] = TRUE]
  /\ Stays /\ UNCHANGED <<inbox, screen, registry, clicks>>

-----------------------------------------------------------------------------
(* "Start with Windows".                                                   *)

\* The box is drawn from the registry every frame, so it is ticked exactly
\* when autostart is off.  SetAutostart(true) writes the Run value first.
TickBox(c) ==
  /\ place[c] = "loop" /\ visible[c]
  /\ ~AutostartEnabled
  /\ \/ /\ run' = exe[c]
        /\ place' = [place EXCEPT ![c] = "clearing"]
        /\ chosen' = TRUE /\ overruled' = FALSE
     \/ UNCHANGED <<registry, place>>
  /\ UNCHANGED <<skip, tray, exe, mutex, queue, screen, clicks>>

\* Mutant: enabling leaves Explorer's disable where it is.
DisableIsKept == skip' = skip /\ UNCHANGED overruled
\* What becomes of the disable.  A failure to clear it is not reported, and one
\* the user chose since the Run value was written is not told from an old one.
DisableIsCleared ==
  /\ skip' \in {skip, FALSE}
  /\ overruled' = (overruled \/ (skip /\ chosen = skip'))

\* ClearExplorerDisable, which ends SetAutostart(true).
ClearDisable(c) ==
  /\ place[c] = "clearing"
  /\ DisableIsCleared
  /\ place' = [place EXCEPT ![c] = "loop"]
  /\ UNCHANGED <<tray, exe, queue, screen, mutex, run, chosen, clicks>>

\* SetAutostart(false), or its refusal, which a box reports.
UntickBox(c) ==
  /\ place[c] = "loop" /\ visible[c]
  /\ AutostartEnabled
  /\ \/ run' = None /\ chosen' = FALSE /\ overruled' = FALSE /\ UNCHANGED skip
     \/ UNCHANGED registry
  /\ Stays /\ UNCHANGED <<queue, screen, clicks>>

\* Task Manager's Startup tab, where the Run value has an entry.
TaskManager ==
  /\ run # None
  /\ skip' = ~skip
  /\ chosen' = skip
  /\ overruled' = FALSE
  /\ Stays /\ UNCHANGED <<queue, screen, run, clicks>>

-----------------------------------------------------------------------------
(* Leaving.                                                                *)

\* Mutant: the mutex is given back before the game is.
LeaveReleasing(c) ==
  /\ place[c] = "loop"
  /\ quit[c] /\ inbox[c] = {}
  /\ place' = [place EXCEPT ![c] = "leaving"]
  /\ quit' = [quit EXCEPT ![c] = FALSE]
  /\ handles' = handles \ {c}
  /\ UNCHANGED <<tray, exe, inbox, screen, denied, registry, clicks>>
\* WM_QUIT comes out of the queue after everything posted to it.
LeaveLoop(c) ==
  /\ place[c] = "loop"
  /\ quit[c] /\ inbox[c] = {}
  /\ place' = [place EXCEPT ![c] = "leaving"]
  /\ quit' = [quit EXCEPT ![c] = FALSE]
  /\ UNCHANGED <<tray, exe, inbox, screen, mutex, registry, clicks>>

\* DetachAndWait and StopLink are through; icon, device and window go.
Finish(c) ==
  /\ place[c] = "leaving"
  /\ place' = [place EXCEPT ![c] = "exiting"]
  /\ visible' = [visible EXCEPT ![c] = FALSE]
  /\ device' = [device EXCEPT ![c] = FALSE]
  /\ inbox' = [inbox EXCEPT ![c] = {}]
  /\ UNCHANGED <<tray, exe, quit, mutex, registry, clicks>>

\* The process is gone, and its handle with it.
Vanish(c) ==
  /\ place' = [place EXCEPT ![c] = "gone"]
  /\ tray' = [tray EXCEPT ![c] = FALSE]
  /\ exe' = [exe EXCEPT ![c] = None]
  /\ inbox' = [inbox EXCEPT ![c] = {}]
  /\ quit' = [quit EXCEPT ![c] = FALSE]
  /\ visible' = [visible EXCEPT ![c] = FALSE]
  /\ device' = [device EXCEPT ![c] = FALSE]
  /\ handles' = handles \ {c}
  /\ denied' = denied \ {c}
  /\ asked' = asked \ {c}
  /\ UNCHANGED <<run, skip, chosen, missed>>

End(c) ==
  /\ place[c] = "exiting"
  /\ Vanish(c)
  /\ UNCHANGED <<overruled, waiting>>

\* Task Manager, the end of the session or a crash; it takes the clicks that
\* were this copy's to answer along, and the rest of an enabling.
Kill(c) ==
  /\ Running(c) /\ place[c] # "exiting"
  /\ Vanish(c)
  /\ overruled' = (overruled \/ (place[c] = "clearing" /\ skip))
  /\ waiting' = waiting \ ({c} \cup inbox[c]
                  \cup IF place[c] \in {"window", "first"} THEN Unheard ELSE {})

-----------------------------------------------------------------------------
\* What a copy does by itself.
Proceed(c) ==
  \/ RefreshRead(c) \/ RefreshWrite(c) \/ TakeMutex(c) \/ HandOff(c)
  \/ CreateTheWindow(c) \/ FirstShow(c)
  \/ \E from \in Copies : DispatchShow(c, from)
  \/ ClearDisable(c) \/ LeaveLoop(c) \/ Finish(c) \/ End(c)

UserActs(c) ==
  \/ Click(c) \/ TrayIcon(c) \/ TrayMenuShow(c) \/ CloseWindow(c) \/ Exit(c)
  \/ TickBox(c) \/ UntickBox(c)

Next ==
  \/ \E c \in Copies : Proceed(c) \/ UserActs(c) \/ Logon(c) \/ Kill(c)
  \/ TaskManager

Spec == Init /\ [][Next]_vars

\* A process is scheduled until it ends, and its loop empties the queue before
\* it draws the next frame, so that no message is overtaken for ever by what
\* the user does in the window; nobody has to click anything.
FairSpec ==
  /\ Spec
  /\ \A c \in Copies :
       WF_vars(Proceed(c)) /\ SF_vars(\E from \in Copies : DispatchShow(c, from))

-----------------------------------------------------------------------------
(* Properties.                                                             *)

Places ==
  {"none", "refresh", "write", "mutex", "handoff", "window", "first", "loop",
   "clearing", "leaving", "exiting", "gone"}

TypeOK ==
  /\ place \in [Copies -> Places]
  /\ tray \in [Copies -> BOOLEAN]
  /\ exe \in [Copies -> Paths \cup {None}]
  /\ inbox \in [Copies -> SUBSET Copies]
  /\ quit \in [Copies -> BOOLEAN]
  /\ visible \in [Copies -> BOOLEAN]
  /\ device \in [Copies -> BOOLEAN]
  /\ handles \subseteq Copies
  /\ run \in Paths \cup {None}
  /\ skip \in BOOLEAN /\ chosen \in BOOLEAN /\ overruled \in BOOLEAN
  /\ waiting \subseteq Copies /\ missed \subseteq Copies
  /\ denied \subseteq Copies /\ asked \subseteq Copies

\* From its mutex to the end of its process one copy at most gets as far as the
\* link with the game, though copies start, hand off, leave and die in any
\* order: "two of these would fight over the same game".  The copy that leaves
\* detaches and waits with the mutex still in its hands, so the next one does
\* not meet it in the module.  Copies that were refused a mutex are not counted:
\* main.cpp goes on without one (497).
OneRunner ==
  \A c, d \in Copies \ denied :
    {place[c], place[d]}
      \subseteq {"window", "first", "loop", "clearing", "leaving"} => c = d

\* "A window nobody asked for at every login is how a feature like this gets
\* switched back off": a window that is open has a device to draw with, and
\* its copy was started by a click, or somebody used its icon or clicked the
\* exe while it sat in the tray.  Two starts at logon do not ask for each
\* other's window.
WindowIsAskedFor ==
  \A c \in Copies : visible[c] => device[c] /\ (tray[c] => c \in asked)

\* Windows starts the application at logon exactly if that is what the user
\* last turned on or off, be it in the window or in Task Manager, and whatever
\* copies from other folders refresh the path meanwhile and die doing so; but
\* for the moment between the two writes of an enabling, and until the next
\* choice after one of three accidents: the disable was not cleared, which
\* goes unreported, or a disable or a deletion the user chose while a call was
\* between its own steps was undone by the second one (autostart.cpp:124-136,
\* 148-159).  No other mix of copies, kills and choices makes Windows do what
\* the user turned off, or forget what was turned on.
EnabledAsChosen ==
  \/ AutostartEnabled = chosen
  \/ overruled
  \/ chosen /\ \E c \in Copies : place[c] = "clearing"

\* Every click gets an answer, a window or a box saying why there is none,
\* unless its copy or the one it handed its click to is killed, or there is
\* none but copies on their way out to hand it to; and unless it is missed, by
\* a copy started at logon that has the mutex and no window yet, which is what
\* EveryClickIsAnswered is about.  As a copy is started once, all clicks are
\* answered for good at some time exactly if each is at its own.
ClickIsAnswered == ~(waiting \subseteq missed) ~> waiting \subseteq missed

\* main.cpp:498-501, "Exiting in silence would look exactly like a broken
\* download.  Ask the copy that is already running to show itself instead":
\* no click stays without an answer for ever while a copy runs.
EveryClickIsAnswered ==
  waiting # {} ~> waiting = {} \/ ~ \E c \in Copies : Running(c)
=============================================================================
