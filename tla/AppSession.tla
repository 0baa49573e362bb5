----------------------------- MODULE AppSession -----------------------------
(***************************************************************************)
(* The application's session with the game: the poll of src/app/link.cpp,  *)
(* the exit of src/app/main.cpp, the injector of src/inject, and the       *)
(* server loop of src/dll/pipe.cpp at the other end of the wire.           *)
(*                                                                         *)
(* Two processes act and each may die: the application, whose worker polls *)
(* and whose window leaves wishes for it, and the game, with the module    *)
(* mapped into it as often as LoadLibraryW ran.  What the module does      *)
(* between two requests is reduced to whether its hook is in; a detach     *)
(* ends in one of the three ways ModuleLifecycle shows.                    *)
(***************************************************************************)
EXTENDS Integers

CONSTANTS
  MaxGames,          \* sessions of the game
  Keys, Home,        \* the hotkeys on offer, and the default
  FindMayFail,       \* may FindGameProcess fail to take its snapshot?
  SnapshotMayFail,   \* may IsModuleLoaded?
  LoaderMayOutlast,  \* may the loader thread run longer than it is waited for?
  InjectMayFail,     \* may the DLL not be written, or the game not be entered?
  PipeMayFail        \* may the server run out of tries to create its pipe?

ASSUME SessionAssumption ==
  /\ MaxGames \in Nat \ {0}
  /\ Home \in Keys
  /\ {FindMayFail, SnapshotMayFail, LoaderMayOutlast, InjectMayFail, PipeMayFail}
       \subseteq BOOLEAN

VARIABLES
  \* The game's process.
  game,       \* the session that runs, 0 for none; stands for its pid
  played,     \* sessions so far
  window,     \* the game has a visible window
  loaders,    \* remote threads that have yet to run LoadLibraryW
  refs,       \* the module's reference count, up to two
  hook,       \* how far the module got with its hook
  hotkey,     \* the module's hotkey
  server,     \* where the pipe thread is
  request,    \* the request it read
  answer,     \* the response it wrote
  \* The application's process.
  app,        \* where its main thread is
  worker,     \* where the link's worker is
  known,      \* known_pid
  heard,      \* the response to it
  view,       \* g_view: module_present, hotkey_vk, state, trouble
  wantDetach, \* g_want_detach
  wantMenu,   \* g_want_menu, with the session it was clicked for
  wantRescan, \* g_want_rescan
  desired,    \* g_desired_hotkey
  detached,   \* g_detached
  \* History.
  left,       \* the module of this session told this application it unloads
  lost,       \* and a later poll did not find the game
  seenAbsent, \* while the way out waited the view showed the module absent
  excused     \* in this session a loader was left behind, or a snapshot of a
              \* game with the module in it failed

process == <<game, played, window>>
module == <<refs, hook, hotkey, server, request, answer>>
wishes == <<wantDetach, wantMenu, wantRescan, desired>>
poll == <<worker, known, heard>>
history == <<left, lost, seenAbsent, excused>>
vars == <<process, loaders, module, app, poll, view, wishes, detached, history>>

Sessions == 1..MaxGames
None == -1                  \* no wish for the menu
Opcodes == {"status", "menu", "hotkey", "rescan", "detach"}
Answers == {"nothing", "status", "unloading", "warm", "refused"}
Hooks == {"absent", "scanning", "parked", "in", "out"}
ServerPlaces == {"none", "gap", "listen", "serve", "reply", "leave", "ended"}
AppPlaces == {"up", "asking", "waiting", "stopping", "gone", "killed"}
WorkerPlaces ==
  {"top", "found", "await", "answered", "unanswered", "absent", "inject", "off"}
Requests == [op : Opcodes, menuOf : 0..MaxGames \cup {None}, key : Keys]
Responses == [is : Answers, key : Keys, parked : BOOLEAN]
Views == [present : BOOLEAN, key : Keys, parked : BOOLEAN, trouble : BOOLEAN]
NoRequest == [op |-> "status", menuOf |-> None, key |-> Home]
NoResponse == [is |-> "nothing", key |-> Home, parked |-> FALSE]
NoView == [present |-> FALSE, key |-> Home, parked |-> FALSE, trouble |-> FALSE]

\* StartLink: the worker begins with nothing known.
Init ==
  /\ game = 0 /\ played = 0 /\ window = FALSE
  /\ loaders = {}
  /\ refs = 0 /\ hook = "absent" /\ hotkey = Home
  /\ server = "none" /\ request = NoRequest /\ answer = "nothing"
  /\ app = "up"
  /\ worker = "top" /\ known = 0 /\ heard = NoResponse
  /\ view = NoView
  /\ wantDetach = FALSE /\ wantMenu = None /\ wantRescan = FALSE
  /\ desired = Home
  /\ detached = FALSE
  /\ left = FALSE /\ lost = FALSE /\ seenAbsent = FALSE /\ excused = FALSE

-----------------------------------------------------------------------------
(* The game's process.                                                     *)

GameStarts ==
  /\ game = 0
  /\ played < MaxGames
  /\ played' = played + 1
  /\ game' = played'
  /\ UNCHANGED <<window, loaders, module, app, poll, view, wishes, detached,
                 history>>

WindowOpens ==
  /\ game # 0
  /\ ~window
  /\ window' = TRUE
  /\ UNCHANGED <<game, played, loaders, module, app, poll, view, wishes, detached,
                 history>>

\* The module, its pipe and every loader thread go with the process.
GameEnds ==
  /\ game # 0
  /\ game' = 0
  /\ window' = FALSE
  /\ loaders' = {}
  /\ refs' = 0 /\ hook' = "absent" /\ hotkey' = Home
  /\ server' = "none" /\ request' = NoRequest /\ answer' = "nothing"
  /\ left' = FALSE /\ lost' = FALSE /\ excused' = FALSE
  /\ UNCHANGED <<played, app, poll, view, wishes, detached, seenAbsent>>

\* LoadLibraryW: the first call maps the module and starts it, a later one
\* counts; or the load is refused.
CountUp == IF refs = 0 THEN 1 ELSE 2
LoaderRuns(thread) ==
  /\ thread \in loaders
  /\ loaders' = loaders \ {thread}
  /\ \/ /\ InjectMayFail
        /\ refs = 0
        /\ UNCHANGED module
     \/ /\ refs' = CountUp
        /\ IF refs = 0
           THEN /\ hook' = "scanning"
                /\ hotkey' = Home
                /\ server' = "gap"
           ELSE UNCHANGED <<hook, hotkey, server>>
        /\ UNCHANGED <<request, answer>>
  /\ UNCHANGED <<process, app, poll, view, wishes, detached, history>>

\* The module's worker ends its scan.
ScanEnds ==
  /\ hook = "scanning"
  /\ hook' \in {"in", "parked"}
  /\ UNCHANGED <<process, loaders, refs, hotkey, server, request, answer, app,
                 poll, view, wishes, detached, history>>

-----------------------------------------------------------------------------
(* PipeThread.                                                             *)

ServerGoes(from, to) ==
  /\ server = from
  /\ server' = to
  /\ UNCHANGED <<process, loaders, app, view, wishes, detached, history>>

CreateInstance ==
  /\ ServerGoes("gap", "listen")
  /\ UNCHANGED <<refs, hook, hotkey, request, answer, poll>>

\* Twenty failures in a row.
GiveUpPipe ==
  /\ PipeMayFail
  /\ ServerGoes("gap", "ended")
  /\ UNCHANGED <<refs, hook, hotkey, request, answer, poll>>

\* Handle, for everything but a detach.
HandleSimple ==
  /\ request.op # "detach"
  /\ ServerGoes("serve", "reply")
  /\ answer' = "status"
  /\ hotkey' = IF request.op = "hotkey" THEN request.key ELSE hotkey
  /\ hook' = IF request.op = "rescan" /\ hook = "parked" THEN "scanning" ELSE hook
  /\ request' = NoRequest
  /\ UNCHANGED <<refs, poll>>

\* DetachModule: all done; or a thread is still inside, which may be the
\* module's own worker on its way to the hook; or the bytes did not go back.
DetachEnds(ending, hooks) ==
  /\ request.op = "detach"
  /\ ServerGoes("serve", "reply")
  /\ answer' = ending
  /\ hook' \in hooks
  /\ request' = NoRequest
  /\ UNCHANGED <<refs, hotkey, poll>>

HandleDetach ==
  \/ DetachEnds("unloading", {"out"})
  \/ hook \in {"in", "out"} /\ DetachEnds("refused", {hook})
  \/ hook \in {"in", "out"} /\ DetachEnds("warm", {"out"})
  \/ hook = "scanning" /\ DetachEnds("warm", {"out", "scanning"})

\* The client went away before its request was read.
RequestLost ==
  /\ worker # "await"
  /\ ServerGoes("serve", "gap")
  /\ request' = NoRequest
  /\ UNCHANGED <<refs, hook, hotkey, answer, poll>>

\* Mutant: the unload is tied to the delivery of the response.
UnloadIfDelivered == answer = "unloading" /\ worker = "await"
UnloadFollows == answer = "unloading"
AfterReply == IF UnloadFollows THEN "leave" ELSE "gap"

\* FlushFileBuffers holds the pipe open until the client has read.
WorkerHears ==
  /\ worker = "await"
  /\ ServerGoes("reply", AfterReply)
  /\ worker' = "answered"
  /\ heard' = [is |-> answer, key |-> hotkey, parked |-> hook = "parked"]
  /\ answer' = "nothing"
  /\ UNCHANGED <<refs, hook, hotkey, request, known>>

ReplyLost ==
  /\ worker # "await"
  /\ ServerGoes("reply", AfterReply)
  /\ answer' = "nothing"
  /\ UNCHANGED <<refs, hook, hotkey, request, poll>>

\* FreeLibraryAndExitThread.  A module that was loaded twice stays mapped, now
\* without a thread.
Release == refs - 1
UnloadModule ==
  /\ ServerGoes("leave", "none")
  /\ refs' = Release
  /\ hook' = IF refs = 1 THEN "absent" ELSE hook
  /\ hotkey' = Home
  /\ UNCHANGED <<request, answer, poll>>

Server ==
  \/ CreateInstance \/ GiveUpPipe \/ HandleSimple \/ HandleDetach \/ RequestLost
  \/ ReplyLost \/ UnloadModule

-----------------------------------------------------------------------------
(* WorkerLoop.                                                             *)

WorkerGoes(from, to) ==
  /\ worker = from
  /\ worker' = to
  /\ UNCHANGED <<process, app, desired>>

\* Nothing but the trouble is read of the view of a module that is absent.
NotPresent(v) == [NoView EXCEPT !.trouble = v.trouble]

Stopped == app \in {"stopping", "gone", "killed"}

NoteAbsence == seenAbsent' = (seenAbsent \/ (app = "waiting" /\ ~view'.present))

\* FindGameProcess, and the clean slate for a process not seen before.
WorkerFinds ==
  /\ ~Stopped
  /\ \E pid \in {game} \cup (IF FindMayFail THEN {0} ELSE {}) :
       /\ WorkerGoes("top", IF pid = 0 THEN "top" ELSE "found")
       /\ known' = pid
       /\ detached' = (detached /\ pid = known)
       /\ view' = IF pid # known THEN NoView
                  ELSE IF pid = 0 THEN NotPresent(view) ELSE view
       /\ IF pid = 0
          THEN wantDetach' = FALSE /\ wantMenu' = None /\ wantRescan' = FALSE
          ELSE UNCHANGED <<wantDetach, wantMenu, wantRescan>>
       /\ lost' = (lost \/ (left /\ pid = 0))
  /\ NoteAbsence
  /\ UNCHANGED <<loaders, module, heard, left, excused>>

\* The wishes, most urgent first.  Mutant: the hotkey is pushed only while it
\* is not the default.
PushUnusual == view.present /\ desired # Home
PushHotkey == view.present /\ view.key # desired
Wish ==
  IF wantDetach THEN "detach"
  ELSE IF wantMenu # None THEN "menu"
  ELSE IF wantRescan THEN "rescan"
  ELSE IF PushHotkey THEN "hotkey" ELSE "status"

\* All wishes are taken, and the pipe of the process found is opened: one
\* instance, which takes one client.  Mutant: the wish is read, not taken.
MenuWishRead == wantMenu
MenuWishTaken == None
WorkerAsks ==
  LET connects == server = "listen" /\ game = known IN
  /\ WorkerGoes("found", IF connects THEN "await" ELSE "unanswered")
  /\ wantDetach' = FALSE
  /\ wantMenu' = MenuWishTaken
  /\ wantRescan' = FALSE
  /\ detached' = (detached \/ wantDetach)
  /\ IF connects
     THEN /\ server' = "serve"
          /\ request' = [op |-> Wish,
                          menuOf |-> IF Wish = "menu" THEN wantMenu ELSE None,
                          key |-> IF Wish = "hotkey" THEN desired ELSE Home]
     ELSE UNCHANGED <<server, request>>
  /\ UNCHANGED <<loaders, refs, hook, hotkey, answer, known, heard, view, history>>

\* The other end of the pipe is gone.
WorkerLosesPipe ==
  /\ server \notin {"serve", "reply"}
  /\ WorkerGoes("await", "unanswered")
  /\ UNCHANGED <<loaders, module, known, heard, view, wantDetach, wantMenu,
                 wantRescan, detached, history>>

\* PublishReply, and HandleDetachReply after a detach.  Mutant: a warm module
\* is not asked again.
AskNoMore == FALSE
AskAgain == heard.is = "warm"
WorkerPublishes ==
  LET gone == heard.is = "unloading" IN
  /\ WorkerGoes("answered", "top")
  /\ view' = IF gone THEN NotPresent(view)
             ELSE [present |-> TRUE, key |-> heard.key, parked |-> heard.parked,
                   trouble |-> view.trouble \/ heard.is = "refused"]
  /\ wantDetach' = (wantDetach \/ AskAgain)
  /\ left' = (left \/ (gone /\ game = known))
  /\ lost' = (lost /\ ~(gone /\ game = known))
  /\ heard' = NoResponse
  /\ NoteAbsence
  /\ UNCHANGED <<loaders, module, known, wantMenu, wantRescan, detached,
                 excused>>

WorkerMisses ==
  /\ WorkerGoes("unanswered", "absent")
  /\ view' = NotPresent(view)
  /\ NoteAbsence
  /\ UNCHANGED <<loaders, module, known, heard, wantDetach, wantMenu,
                 wantRescan, detached, left, lost, excused>>

\* Not on the way out, and the game has a window.  Mutant: g_detached is not
\* looked at.
EvenOnTheWayOut == game = known /\ window
MayAttach == ~detached /\ game = known /\ window

Attaches(to, trouble) ==
  /\ MayAttach
  /\ WorkerGoes("absent", to)
  /\ view' = [view EXCEPT !.trouble = trouble]
  /\ UNCHANGED <<process, module, known, heard, wantDetach, wantMenu,
                 wantRescan, detached, left, lost, seenAbsent>>

WorkerStaysOut ==
  /\ ~MayAttach
  /\ WorkerGoes("absent", "top")
  /\ UNCHANGED <<loaders, module, known, heard, view, wantDetach, wantMenu,
                 wantRescan, detached, history>>

\* IsModuleLoaded.  Mutants: it never finds the module; a failed snapshot
\* counts as found.
NeverMapped == FALSE
AlwaysMapped == TRUE
Mapped == refs > 0
FindsLoaded ==
  /\ Mapped
  /\ Attaches("top", FALSE)
  /\ UNCHANGED <<loaders, excused>>

\* InjectLibrary, as far as the loader thread; a snapshot that failed says no.
StartsLoader ==
  /\ ~Mapped \/ SnapshotMayFail
  /\ Attaches("inject", view.trouble)
  /\ loaders' = loaders \cup {"own"}
  /\ excused' = (excused \/ Mapped)

CannotInject ==
  /\ InjectMayFail
  /\ Attaches("top", TRUE)
  /\ UNCHANGED <<loaders, excused>>

\* The loader ended: the module is there, or it is not; a game that ended may
\* leave any exit code.
LoaderEnded ==
  /\ "own" \notin loaders
  /\ WorkerGoes("inject", "top")
  /\ \E refused \in IF game = known THEN {refs = 0} ELSE BOOLEAN :
       view' = [view EXCEPT !.trouble = refused]
  /\ UNCHANGED <<loaders, module, known, heard, wantDetach, wantMenu,
                 wantRescan, detached, history>>

\* Fifteen seconds are over; the thread is left to itself.
LoaderOutlasts ==
  /\ LoaderMayOutlast
  /\ "own" \in loaders
  /\ WorkerGoes("inject", "top")
  /\ loaders' = {"stray"}
  /\ excused' = TRUE
  /\ view' = [view EXCEPT !.trouble = TRUE]
  /\ UNCHANGED <<module, known, heard, wantDetach, wantMenu, wantRescan,
                 detached, left, lost, seenAbsent>>

WorkerStops ==
  /\ Stopped
  /\ WorkerGoes("top", "off")
  /\ UNCHANGED <<loaders, module, known, heard, view, wantDetach, wantMenu,
                 wantRescan, detached, history>>

Worker ==
  \/ WorkerFinds \/ WorkerAsks \/ WorkerHears \/ WorkerLosesPipe
  \/ WorkerPublishes \/ WorkerMisses \/ WorkerStaysOut \/ FindsLoaded
  \/ StartsLoader \/ CannotInject \/ LoaderEnded \/ LoaderOutlasts \/ WorkerStops

-----------------------------------------------------------------------------
(* The window, and the way out.                                            *)

OnlyApp == <<process, module>>

\* The tray's item asks no questions.
ClickMenu ==
  /\ app = "up"
  /\ wantMenu' = known
  /\ UNCHANGED <<OnlyApp, loaders, app, poll, view, wantDetach, wantRescan,
                 desired, detached, history>>

ClickRescan ==
  /\ app = "up"
  /\ view.present
  /\ view.parked
  /\ wantRescan' = TRUE
  /\ UNCHANGED <<OnlyApp, loaders, app, poll, view, wantDetach, wantMenu, desired,
                 detached, history>>

ChooseHotkey ==
  /\ app = "up"
  /\ desired' \in Keys
  /\ UNCHANGED <<OnlyApp, loaders, app, poll, view, wantDetach, wantMenu,
                 wantRescan, detached, history>>

AppGoes(from, to) ==
  /\ app = from
  /\ app' = to
  /\ UNCHANGED <<OnlyApp, loaders, view, wantMenu, wantRescan, desired, detached,
                 history, poll>>

\* DetachAndWait returns at once when the last poll did not find the module.
Exit ==
  /\ AppGoes("up", IF view.present THEN "asking" ELSE "stopping")
  /\ UNCHANGED wantDetach

AskDetach ==
  /\ app = "asking"
  /\ app' = "waiting"
  /\ wantDetach' = TRUE
  /\ seenAbsent' = ~view.present
  /\ UNCHANGED <<OnlyApp, loaders, view, wantMenu, wantRescan, desired, detached,
                 left, lost, excused, poll>>

SeesItGone ==
  /\ ~view.present
  /\ AppGoes("waiting", "stopping")
  /\ UNCHANGED wantDetach

\* Mutant: it waits for as long as it takes.
NoDeadline == FALSE
Deadline == TRUE
WaitTimesOut ==
  /\ Deadline
  /\ AppGoes("waiting", "stopping")
  /\ UNCHANGED wantDetach

\* The process ends, and everything it remembered but the chosen hotkey.
ProcessEnds(place) ==
  /\ app' = place
  /\ worker' = "off" /\ known' = 0 /\ heard' = NoResponse
  /\ view' = NoView
  /\ wantDetach' = FALSE /\ wantMenu' = None /\ wantRescan' = FALSE
  /\ detached' = FALSE
  /\ left' = FALSE /\ lost' = FALSE /\ seenAbsent' = FALSE
  /\ UNCHANGED <<OnlyApp, desired>>

\* StopLink joined the worker.
Leave ==
  /\ app = "stopping"
  /\ worker = "off"
  /\ ProcessEnds("gone")
  /\ UNCHANGED <<loaders, excused>>

\* The process is ended by force, wherever its worker is.
Kill ==
  /\ app \notin {"gone", "killed"}
  /\ ProcessEnds("killed")
  /\ loaders' = IF loaders = {} THEN {} ELSE {"stray"}
  /\ excused' = (excused \/ loaders # {})

Restart ==
  /\ app \in {"gone", "killed"}
  /\ app' = "up"
  /\ worker' = "top"
  /\ UNCHANGED <<OnlyApp, loaders, known, heard, view, wishes, detached, history>>

User == ClickMenu \/ ClickRescan \/ ChooseHotkey \/ Exit
Leaving == AskDetach \/ SeesItGone \/ WaitTimesOut \/ Leave
Game == GameStarts \/ WindowOpens \/ GameEnds \/ ScanEnds
          \/ \E thread \in loaders : LoaderRuns(thread)

Next == Game \/ Server \/ Worker \/ User \/ Leaving \/ Kill \/ Restart

Spec == Init /\ [][Next]_vars

\* The threads of the two programs are scheduled, and so is a loader in the
\* game.  Each of their steps moves its thread; only a poll that finds no game
\* after one that found none does not, so that a worker whose snapshots fail
\* finds the game some time.  Users and games owe nothing.
FairSpec ==
  /\ Spec
  /\ WF_poll(Worker) /\ WF_server(Server) /\ WF_app(Leaving)
  /\ WF_loaders(\E thread \in loaders : LoaderRuns(thread))

-----------------------------------------------------------------------------
(* Properties.                                                             *)

\* Types, and the places of the parts of the session: a reference count below
\* zero would be the FreeLibrary of somebody else's mapping.
TypeOK ==
  /\ game \in {0, played} /\ played \in 0..MaxGames /\ window \in BOOLEAN
  /\ loaders \in SUBSET {"own", "stray"}
  /\ refs \in 0..2 /\ hook \in Hooks /\ hotkey \in Keys
  /\ server \in ServerPlaces /\ request \in Requests /\ answer \in Answers
  /\ app \in AppPlaces
  /\ worker \in WorkerPlaces /\ known \in 0..MaxGames
  /\ heard \in Responses
  /\ view \in Views
  /\ wantDetach \in BOOLEAN /\ wantMenu \in 0..MaxGames \cup {None}
  /\ wantRescan \in BOOLEAN /\ desired \in Keys /\ detached \in BOOLEAN
  /\ left \in BOOLEAN /\ lost \in BOOLEAN /\ seenAbsent \in BOOLEAN /\ excused \in BOOLEAN

\* What link.cpp:69-72 keeps g_detached for: once the module told this
\* application that it unloads, it leaves that game and is not put back, for
\* as long as this application lives.  The link forgets with its pid: a poll
\* whose snapshot fails takes the game for gone, and the next for a new one.
LeftStaysLeft ==
  left /\ ~lost /\ ~excused => server = "leave" \/ refs = 0

\* A game gets the module once: a second LoadLibraryW would outlive the one
\* FreeLibraryAndExitThread, and leave a module without a pipe.  The polls that
\* miss the module while it makes its next pipe instance must not cause it.
LoadedOnce == refs + (IF "own" \in loaders THEN 1 ELSE 0) <= 1 \/ excused

\* link.cpp:224-225, "whatever the user asked of the last one does not carry
\* over": the module is never handed a menu command the user gave while
\* another game was shown.
CommandsReachTheirGame ==
  server = "serve" /\ request.op = "menu" => request.menuOf \in {0, game}

\* pipe.cpp:167-170: a detach that is through is followed by the unload,
\* whether its response arrived or not.
DetachedModuleGoes ==
  server = "reply" /\ answer = "unloading" ~> server = "none"

\* What the application's window promises while a game with a window runs
\* (main.cpp:254-256, "Getting in..."): it gets in, or says what is wrong,
\* unless the module's server gave up or a second load left it without one.
Stranded == refs > 0 /\ server \in {"none", "ended"}
GetsIn ==
  app = "up" /\ window
    ~> view.present \/ view.trouble \/ ~window \/ app # "up" \/ Stranded

\* link.cpp:32-35: the hotkey is pushed whenever the module disagrees, so it
\* survives a re-attach and a restart.  When the user stops choosing and
\* clicking and the module stays, it gets the key chosen last.
QuietWith(key) ==
  /\ app = "up" /\ view.present /\ desired = key
  /\ wantMenu = None /\ ~wantRescan
HotkeySettles == \A key \in Keys : <>[]QuietWith(key) => <>[](hotkey = key)

\* link.cpp:206-211: nobody waits idly.  While the way out waits for a module
\* it believes present, between two polls, a detach is on its way to it, the
\* first one or the one a warm module has to be asked again; or the user was
\* told that the module stays.  That is so while the module was shown all the
\* time: a detach that meets the moment between two pipe instances is lost.
WaitingAsks ==
  app = "waiting" /\ view.present /\ worker \in {"top", "found"} /\ ~seenAbsent
    => wantDetach \/ view.trouble

\* The tool can always be closed: the way out comes to its end, whatever the
\* module answers and whenever the game goes.
ExitEnds == app \in {"asking", "waiting", "stopping"} ~> app \in {"gone", "killed"}

\* main.cpp:598, "Leaving restores the game": after an exit that was not
\* forced the game that runs has no module, or one that is about to go.
LeavingRestores == app = "gone" => server = "leave" \/ refs = 0

=============================================================================
