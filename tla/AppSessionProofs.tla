-------------------------- MODULE AppSessionProofs --------------------------
(***************************************************************************)
(* Type correctness and safety of AppSession, for any number of sessions   *)
(* of the game and any keys, whichever of the failures may happen; and how *)
(* many steps the way out and a request to the module take.                *)
(***************************************************************************)
EXTENDS AppSession, TLAPS

USE SessionAssumption

(* The inductive invariant.  A loader the worker waits for is the worker's; a
   stray one excuses whatever follows.  A module with a server is mapped.  A
   game that is not the one the worker knows has no module, unless nothing is
   known yet.  A menu wish is for the game shown; left over from another one it
   finds no module.  A detach under way has been noted in g_detached, and the
   answer that the module unloads is true until the game ends. *)
DeadIsOff == app \in {"gone", "killed"} => worker = "off"
OwnIsWaitedFor == "own" \in loaders => worker = "inject"
StrayIsExcused == "stray" \in loaders => excused
ServedIsMapped == server # "none" => refs > 0
Bare == loaders = {} /\ refs = 0 /\ server = "none"
NoGameIsBare == game = 0 => Bare
WindowIsOfGame == window => game # 0
UnknownIsBare == known \notin {0, game} => Bare
ForShown == wantMenu \in {None, 0, known}
WishIsForShown == ForShown \/ (worker = "found" /\ Bare)
PollKnows == worker \in {"found", "await", "answered"} => known # 0
DetachIsNoted ==
  /\ worker = "await" /\ server = "serve" /\ request.op = "detach" => detached
  /\ worker = "await" /\ server = "reply" /\ answer = "unloading" => detached
Unmapping == server = "leave" \/ refs = 0
HeardIsUnmapping ==
  worker = "answered" /\ heard.is = "unloading"
    => detached /\ (~excused /\ game = known => Unmapping)
LeftIsDetached ==
  left /\ ~lost => detached /\ game = known /\ known # 0 /\ "own" \notin loaders

Mapping ==
  DeadIsOff /\ OwnIsWaitedFor /\ StrayIsExcused /\ ServedIsMapped /\ LoadedOnce
Knowing == NoGameIsBare /\ WindowIsOfGame /\ UnknownIsBare /\ PollKnows
Wishing == WishIsForShown /\ CommandsReachTheirGame
LeftGoes ==
  DetachIsNoted /\ HeardIsUnmapping /\ LeftIsDetached /\ LeftStaysLeft
IInv == TypeOK /\ Mapping /\ Knowing /\ Wishing

\* For WaitingAsks: while the way out waits for a module it was shown all the
\* time, the detach is a wish, a request, an answer, or lost with the game; and
\* a worker that looks for a game to attach to shows none.
DetachAnswers == {"unloading", "warm", "refused"}
AskedFor == wantDetach \/ view.trouble
ModuleIsAsked ==
  worker = "await" /\ (server = "serve" => request.op = "detach")
                   /\ (server = "reply" => answer \in DetachAnswers)
ModuleHasAnswered == worker = "answered" /\ heard.is \in DetachAnswers
DetachIsOnItsWay ==
  app = "waiting" /\ view.present /\ ~seenAbsent
    => AskedFor \/ ModuleIsAsked \/ ModuleHasAnswered \/ worker = "unanswered"
AbsenceIsSeen == app = "waiting" /\ ~view.present => seenAbsent
AwayIsAbsent == worker \in {"absent", "inject"} => ~view.present
DeadWorkerIsOff == worker = "off" => Stopped
Waiting == DetachIsOnItsWay /\ AbsenceIsSeen /\ AwayIsAbsent /\ DeadWorkerIsOff

-----------------------------------------------------------------------------
(* Types, in the parts a step is checked against.                          *)

GameTyped ==
  /\ game \in {0, played} /\ played \in 0..MaxGames /\ window \in BOOLEAN
  /\ loaders \in SUBSET {"own", "stray"}
ModuleTyped ==
  /\ refs \in 0..2 /\ hook \in Hooks /\ hotkey \in Keys
  /\ server \in ServerPlaces /\ request \in Requests /\ answer \in Answers
PollTyped ==
  /\ app \in AppPlaces
  /\ worker \in WorkerPlaces /\ known \in 0..MaxGames
  /\ heard \in Responses
WishTyped ==
  /\ view \in Views
  /\ wantDetach \in BOOLEAN /\ wantMenu \in 0..MaxGames \cup {None}
  /\ wantRescan \in BOOLEAN /\ desired \in Keys /\ detached \in BOOLEAN
HistoryTyped ==
  left \in BOOLEAN /\ lost \in BOOLEAN /\ seenAbsent \in BOOLEAN /\ excused \in BOOLEAN

USE DEF process, module, wishes, poll, history, OnlyApp

LEMMA TypedParts ==
  TypeOK <=> GameTyped /\ ModuleTyped /\ PollTyped /\ WishTyped /\ HistoryTyped
BY Zenon DEF TypeOK, GameTyped, ModuleTyped, PollTyped, WishTyped, HistoryTyped

LEMMA GameTypedStep ==
  ASSUME TypeOK, ServedIsMapped, [Next]_vars
  PROVE  GameTyped'
<1> USE DEF TypeOK, GameTyped
<1>1. CASE GameStarts
  BY <1>1 DEF GameStarts
<1>2. CASE WindowOpens
  BY <1>2 DEF WindowOpens
<1>3. CASE GameEnds
  BY <1>3 DEF GameEnds, NoRequest
<1>4. CASE ScanEnds
  BY <1>4 DEF ScanEnds
<1>5. CASE CreateInstance
  BY <1>5 DEF CreateInstance, ServerGoes
<1>6. CASE GiveUpPipe
  BY <1>6 DEF GiveUpPipe, ServerGoes
<1>7. CASE HandleSimple
  BY <1>7 DEF HandleSimple, ServerGoes, NoRequest
<1>8. CASE HandleDetach
  BY <1>8 DEF HandleDetach, DetachEnds, ServerGoes, NoRequest
<1>9. CASE RequestLost
  BY <1>9 DEF RequestLost, ServerGoes, NoRequest
<1>10. CASE ReplyLost
  BY <1>10 DEF ReplyLost, ServerGoes, AfterReply, UnloadFollows
<1>11. CASE UnloadModule
  BY <1>11 DEF UnloadModule, ServerGoes, Release
<1>12. CASE WorkerFinds
  BY <1>12 DEF WorkerFinds, WorkerGoes, NoView, NotPresent, NoteAbsence
<1>13. CASE WorkerAsks
  BY <1>13 DEF WorkerAsks, WorkerGoes, Wish, PushHotkey, MenuWishTaken
<1>14. CASE WorkerHears
  BY <1>14 DEF WorkerHears, ServerGoes, AfterReply, UnloadFollows
<1>15. CASE WorkerLosesPipe
  BY <1>15 DEF WorkerLosesPipe, WorkerGoes
<1>16. CASE WorkerPublishes
  BY <1>16 DEF WorkerPublishes, WorkerGoes, NoView, NotPresent, AskAgain, NoResponse, NoteAbsence
<1>17. CASE WorkerMisses
  BY <1>17 DEF WorkerMisses, WorkerGoes, NoView, NotPresent, NoteAbsence
<1>18. CASE WorkerStaysOut
  BY <1>18 DEF WorkerStaysOut, WorkerGoes
<1>19. CASE FindsLoaded
  BY <1>19 DEF FindsLoaded, Attaches, WorkerGoes
<1>20. CASE StartsLoader
  BY <1>20 DEF StartsLoader, Attaches, WorkerGoes, Mapped
<1>21. CASE CannotInject
  BY <1>21 DEF CannotInject, Attaches, WorkerGoes
<1>22. CASE LoaderEnded
  BY <1>22 DEF LoaderEnded, WorkerGoes
<1>23. CASE LoaderOutlasts
  BY <1>23 DEF LoaderOutlasts, WorkerGoes
<1>24. CASE WorkerStops
  BY <1>24 DEF WorkerStops, WorkerGoes
<1>25. CASE ClickMenu
  BY <1>25 DEF ClickMenu
<1>26. CASE ClickRescan
  BY <1>26 DEF ClickRescan
<1>27. CASE ChooseHotkey
  BY <1>27 DEF ChooseHotkey
<1>28. CASE Exit
  BY <1>28 DEF Exit, AppGoes
<1>29. CASE AskDetach
  BY <1>29 DEF AskDetach
<1>30. CASE SeesItGone
  BY <1>30 DEF SeesItGone, AppGoes
<1>31. CASE WaitTimesOut
  BY <1>31 DEF WaitTimesOut, AppGoes
<1>32. CASE Leave
  BY <1>32 DEF Leave, ProcessEnds, NoResponse, NoView
<1>33. CASE Kill
  BY <1>33 DEF Kill, ProcessEnds, NoResponse, NoView
<1>34. CASE Restart
  BY <1>34 DEF Restart
<1>35. CASE \E thread \in loaders : LoaderRuns(thread)
  BY <1>35 DEF LoaderRuns, CountUp
<1>36. CASE UNCHANGED vars
  BY <1>36 DEF vars
<1> QED
  BY <1>1, <1>2, <1>3, <1>4, <1>5, <1>6, <1>7, <1>8, <1>9, <1>10, <1>11,
     <1>12, <1>13, <1>14, <1>15, <1>16, <1>17, <1>18, <1>19, <1>20,
     <1>21, <1>22, <1>23, <1>24, <1>25, <1>26, <1>27, <1>28, <1>29,
     <1>30, <1>31, <1>32, <1>33, <1>34, <1>35, <1>36
  DEF Next, Game, Server, Worker, User, Leaving

LEMMA ModuleTypedStep ==
  ASSUME TypeOK, ServedIsMapped, [Next]_vars
  PROVE  ModuleTyped'
<1> USE DEF TypeOK, ModuleTyped, ServedIsMapped, Hooks, ServerPlaces,
            Answers, Opcodes, AppPlaces, WorkerPlaces, Requests, Responses,
            Views, None, NoRequest, NoResponse, NoView
<1>1. CASE GameStarts
  BY <1>1 DEF GameStarts
<1>2. CASE WindowOpens
  BY <1>2 DEF WindowOpens
<1>3. CASE GameEnds
  BY <1>3 DEF GameEnds, NoRequest
<1>4. CASE ScanEnds
  BY <1>4 DEF ScanEnds
<1>5. CASE CreateInstance
  BY <1>5 DEF CreateInstance, ServerGoes
<1>6. CASE GiveUpPipe
  BY <1>6 DEF GiveUpPipe, ServerGoes
<1>7. CASE HandleSimple
  BY <1>7 DEF HandleSimple, ServerGoes, NoRequest
<1>8. CASE HandleDetach
  BY <1>8 DEF HandleDetach, DetachEnds, ServerGoes, NoRequest
<1>9. CASE RequestLost
  BY <1>9 DEF RequestLost, ServerGoes, NoRequest
<1>10. CASE ReplyLost
  BY <1>10 DEF ReplyLost, ServerGoes, AfterReply, UnloadFollows
<1>11. CASE UnloadModule
  BY <1>11 DEF UnloadModule, ServerGoes, Release
<1>12. CASE WorkerFinds
  BY <1>12 DEF WorkerFinds, WorkerGoes, NoView, NotPresent, NoteAbsence
<1>13. CASE WorkerAsks
  BY <1>13 DEF WorkerAsks, WorkerGoes, Wish, PushHotkey, MenuWishTaken
<1>14. CASE WorkerHears
  BY <1>14 DEF WorkerHears, ServerGoes, AfterReply, UnloadFollows
<1>15. CASE WorkerLosesPipe
  BY <1>15 DEF WorkerLosesPipe, WorkerGoes
<1>16. CASE WorkerPublishes
  BY <1>16 DEF WorkerPublishes, WorkerGoes, NoView, NotPresent, AskAgain, NoResponse, NoteAbsence
<1>17. CASE WorkerMisses
  BY <1>17 DEF WorkerMisses, WorkerGoes, NoView, NotPresent, NoteAbsence
<1>18. CASE WorkerStaysOut
  BY <1>18 DEF WorkerStaysOut, WorkerGoes
<1>19. CASE FindsLoaded
  BY <1>19 DEF FindsLoaded, Attaches, WorkerGoes
<1>20. CASE StartsLoader
  BY <1>20 DEF StartsLoader, Attaches, WorkerGoes, Mapped
<1>21. CASE CannotInject
  BY <1>21 DEF CannotInject, Attaches, WorkerGoes
<1>22. CASE LoaderEnded
  BY <1>22 DEF LoaderEnded, WorkerGoes
<1>23. CASE LoaderOutlasts
  BY <1>23 DEF LoaderOutlasts, WorkerGoes
<1>24. CASE WorkerStops
  BY <1>24 DEF WorkerStops, WorkerGoes
<1>25. CASE ClickMenu
  BY <1>25 DEF ClickMenu
<1>26. CASE ClickRescan
  BY <1>26 DEF ClickRescan
<1>27. CASE ChooseHotkey
  BY <1>27 DEF ChooseHotkey
<1>28. CASE Exit
  BY <1>28 DEF Exit, AppGoes
<1>29. CASE AskDetach
  BY <1>29 DEF AskDetach
<1>30. CASE SeesItGone
  BY <1>30 DEF SeesItGone, AppGoes
<1>31. CASE WaitTimesOut
  BY <1>31 DEF WaitTimesOut, AppGoes
<1>32. CASE Leave
  BY <1>32 DEF Leave, ProcessEnds, NoResponse, NoView
<1>33. CASE Kill
  BY <1>33 DEF Kill, ProcessEnds, NoResponse, NoView
<1>34. CASE Restart
  BY <1>34 DEF Restart
<1>35. CASE \E thread \in loaders : LoaderRuns(thread)
  BY <1>35 DEF LoaderRuns, CountUp
<1>36. CASE UNCHANGED vars
  BY <1>36 DEF vars
<1> QED
  BY <1>1, <1>2, <1>3, <1>4, <1>5, <1>6, <1>7, <1>8, <1>9, <1>10, <1>11,
     <1>12, <1>13, <1>14, <1>15, <1>16, <1>17, <1>18, <1>19, <1>20,
     <1>21, <1>22, <1>23, <1>24, <1>25, <1>26, <1>27, <1>28, <1>29,
     <1>30, <1>31, <1>32, <1>33, <1>34, <1>35, <1>36
  DEF Next, Game, Server, Worker, User, Leaving

LEMMA PollTypedStep ==
  ASSUME TypeOK, [Next]_vars
  PROVE  PollTyped'
<1> USE DEF TypeOK, PollTyped, Hooks, ServerPlaces, Answers, Opcodes,
            AppPlaces, WorkerPlaces, Requests, Responses, Views, None,
            NoRequest, NoResponse, NoView
<1>1. CASE GameStarts
  BY <1>1 DEF GameStarts
<1>2. CASE WindowOpens
  BY <1>2 DEF WindowOpens
<1>3. CASE GameEnds
  BY <1>3 DEF GameEnds, NoRequest
<1>4. CASE ScanEnds
  BY <1>4 DEF ScanEnds
<1>5. CASE CreateInstance
  BY <1>5 DEF CreateInstance, ServerGoes
<1>6. CASE GiveUpPipe
  BY <1>6 DEF GiveUpPipe, ServerGoes
<1>7. CASE HandleSimple
  BY <1>7 DEF HandleSimple, ServerGoes, NoRequest
<1>8. CASE HandleDetach
  BY <1>8 DEF HandleDetach, DetachEnds, ServerGoes, NoRequest
<1>9. CASE RequestLost
  BY <1>9 DEF RequestLost, ServerGoes, NoRequest
<1>10. CASE ReplyLost
  BY <1>10 DEF ReplyLost, ServerGoes, AfterReply, UnloadFollows
<1>11. CASE UnloadModule
  BY <1>11 DEF UnloadModule, ServerGoes, Release
<1>12. CASE WorkerFinds
  BY <1>12 DEF WorkerFinds, WorkerGoes, NoView, NotPresent, NoteAbsence
<1>13. CASE WorkerAsks
  BY <1>13 DEF WorkerAsks, WorkerGoes, Wish, PushHotkey, MenuWishTaken
<1>14. CASE WorkerHears
  BY <1>14 DEF WorkerHears, ServerGoes, AfterReply, UnloadFollows
<1>15. CASE WorkerLosesPipe
  BY <1>15 DEF WorkerLosesPipe, WorkerGoes
<1>16. CASE WorkerPublishes
  BY <1>16 DEF WorkerPublishes, WorkerGoes, NoView, NotPresent, AskAgain, NoResponse, NoteAbsence
<1>17. CASE WorkerMisses
  BY <1>17 DEF WorkerMisses, WorkerGoes, NoView, NotPresent, NoteAbsence
<1>18. CASE WorkerStaysOut
  BY <1>18 DEF WorkerStaysOut, WorkerGoes
<1>19. CASE FindsLoaded
  BY <1>19 DEF FindsLoaded, Attaches, WorkerGoes
<1>20. CASE StartsLoader
  BY <1>20 DEF StartsLoader, Attaches, WorkerGoes, Mapped
<1>21. CASE CannotInject
  BY <1>21 DEF CannotInject, Attaches, WorkerGoes
<1>22. CASE LoaderEnded
  BY <1>22 DEF LoaderEnded, WorkerGoes
<1>23. CASE LoaderOutlasts
  BY <1>23 DEF LoaderOutlasts, WorkerGoes
<1>24. CASE WorkerStops
  BY <1>24 DEF WorkerStops, WorkerGoes
<1>25. CASE ClickMenu
  BY <1>25 DEF ClickMenu
<1>26. CASE ClickRescan
  BY <1>26 DEF ClickRescan
<1>27. CASE ChooseHotkey
  BY <1>27 DEF ChooseHotkey
<1>28. CASE Exit
  BY <1>28 DEF Exit, AppGoes
<1>29. CASE AskDetach
  BY <1>29 DEF AskDetach
<1>30. CASE SeesItGone
  BY <1>30 DEF SeesItGone, AppGoes
<1>31. CASE WaitTimesOut
  BY <1>31 DEF WaitTimesOut, AppGoes
<1>32. CASE Leave
  BY <1>32 DEF Leave, ProcessEnds, NoResponse, NoView
<1>33. CASE Kill
  BY <1>33 DEF Kill, ProcessEnds, NoResponse, NoView
<1>34. CASE Restart
  BY <1>34 DEF Restart
<1>35. CASE \E thread \in loaders : LoaderRuns(thread)
  BY <1>35 DEF LoaderRuns, CountUp
<1>36. CASE UNCHANGED vars
  BY <1>36 DEF vars
<1> QED
  BY <1>1, <1>2, <1>3, <1>4, <1>5, <1>6, <1>7, <1>8, <1>9, <1>10, <1>11,
     <1>12, <1>13, <1>14, <1>15, <1>16, <1>17, <1>18, <1>19, <1>20,
     <1>21, <1>22, <1>23, <1>24, <1>25, <1>26, <1>27, <1>28, <1>29,
     <1>30, <1>31, <1>32, <1>33, <1>34, <1>35, <1>36
  DEF Next, Game, Server, Worker, User, Leaving

LEMMA ViewsOfNothing ==
  /\ NoView \in Views
  /\ \A v \in Views : NotPresent(v) \in Views
BY DEF NoView, NotPresent, Views

LEMMA WishTypedStep ==
  ASSUME TypeOK, [Next]_vars
  PROVE  WishTyped'
<1> USE DEF TypeOK, WishTyped, Hooks, ServerPlaces, Answers, Opcodes,
            AppPlaces, WorkerPlaces, Requests, Responses, Views, None,
            NoRequest, NoResponse
<1>1. CASE GameStarts
  BY <1>1 DEF GameStarts
<1>2. CASE WindowOpens
  BY <1>2 DEF WindowOpens
<1>3. CASE GameEnds
  BY <1>3 DEF GameEnds, NoRequest
<1>4. CASE ScanEnds
  BY <1>4 DEF ScanEnds
<1>5. CASE CreateInstance
  BY <1>5 DEF CreateInstance, ServerGoes
<1>6. CASE GiveUpPipe
  BY <1>6 DEF GiveUpPipe, ServerGoes
<1>7. CASE HandleSimple
  BY <1>7 DEF HandleSimple, ServerGoes, NoRequest
<1>8. CASE HandleDetach
  BY <1>8 DEF HandleDetach, DetachEnds, ServerGoes, NoRequest
<1>9. CASE RequestLost
  BY <1>9 DEF RequestLost, ServerGoes, NoRequest
<1>10. CASE ReplyLost
  BY <1>10 DEF ReplyLost, ServerGoes, AfterReply, UnloadFollows
<1>11. CASE UnloadModule
  BY <1>11 DEF UnloadModule, ServerGoes, Release
<1>12. CASE WorkerFinds
  <2>1. view' \in Views
    BY <1>12, ViewsOfNothing DEF WorkerFinds
  <2>2. /\ wantDetach' \in BOOLEAN /\ wantRescan' \in BOOLEAN
        /\ wantMenu' \in 0..MaxGames \cup {None}
    BY <1>12 DEF WorkerFinds
  <2>3. detached' \in BOOLEAN /\ desired' \in Keys
    BY <1>12 DEF WorkerFinds, WorkerGoes
  <2> QED
    BY <2>1, <2>2, <2>3
<1>13. CASE WorkerAsks
  BY <1>13 DEF WorkerAsks, WorkerGoes, Wish, PushHotkey, MenuWishTaken
<1>14. CASE WorkerHears
  BY <1>14 DEF WorkerHears, ServerGoes, AfterReply, UnloadFollows
<1>15. CASE WorkerLosesPipe
  BY <1>15 DEF WorkerLosesPipe, WorkerGoes
<1>16. CASE WorkerPublishes
  <2>1. view' \in Views
    <3>1. CASE heard.is = "unloading"
      BY <1>16, <3>1, ViewsOfNothing DEF WorkerPublishes
    <3>2. CASE heard.is # "unloading"
      <4>1. view.trouble \in BOOLEAN /\ heard.key \in Keys /\ heard.parked \in BOOLEAN
        OBVIOUS
      <4>2. (view.trouble \/ heard.is = "refused") \in BOOLEAN
        OBVIOUS
      <4>3. view' = [present |-> TRUE, key |-> heard.key, parked |-> heard.parked,
                     trouble |-> (view.trouble \/ heard.is = "refused")]
        BY <1>16, <3>2 DEF WorkerPublishes
      <4> QED
        BY <4>1, <4>2, <4>3
    <3> QED
      BY <3>1, <3>2
  <2>2. /\ wantDetach' \in BOOLEAN /\ wantRescan' \in BOOLEAN
        /\ wantMenu' \in 0..MaxGames \cup {None}
    BY <1>16 DEF WorkerPublishes
  <2>3. detached' \in BOOLEAN /\ desired' \in Keys
    BY <1>16 DEF WorkerPublishes, WorkerGoes
  <2> QED
    BY <2>1, <2>2, <2>3
<1>17. CASE WorkerMisses
  BY <1>17 DEF WorkerMisses, WorkerGoes, NoView, NotPresent, NoteAbsence
<1>18. CASE WorkerStaysOut
  BY <1>18 DEF WorkerStaysOut, WorkerGoes
<1>19. CASE FindsLoaded
  BY <1>19 DEF FindsLoaded, Attaches, WorkerGoes
<1>20. CASE StartsLoader
  BY <1>20 DEF StartsLoader, Attaches, WorkerGoes, Mapped
<1>21. CASE CannotInject
  BY <1>21 DEF CannotInject, Attaches, WorkerGoes
<1>22. CASE LoaderEnded
  <2>1. PICK refused \in BOOLEAN : view' = [view EXCEPT !.trouble = refused]
    <3>1. (refs = 0) \in BOOLEAN
      OBVIOUS
    <3> QED
      BY <1>22, <3>1 DEF LoaderEnded
  <2>2. view' \in Views
    BY <2>1
  <2>3. UNCHANGED <<wantDetach, wantRescan, wantMenu, detached, desired>>
    BY <1>22 DEF LoaderEnded, WorkerGoes
  <2> QED
    BY <2>2, <2>3
<1>23. CASE LoaderOutlasts
  BY <1>23 DEF LoaderOutlasts, WorkerGoes
<1>24. CASE WorkerStops
  BY <1>24 DEF WorkerStops, WorkerGoes
<1>25. CASE ClickMenu
  BY <1>25 DEF ClickMenu
<1>26. CASE ClickRescan
  BY <1>26 DEF ClickRescan
<1>27. CASE ChooseHotkey
  BY <1>27 DEF ChooseHotkey
<1>28. CASE Exit
  BY <1>28 DEF Exit, AppGoes
<1>29. CASE AskDetach
  BY <1>29 DEF AskDetach
<1>30. CASE SeesItGone
  BY <1>30 DEF SeesItGone, AppGoes
<1>31. CASE WaitTimesOut
  BY <1>31 DEF WaitTimesOut, AppGoes
<1>32. CASE Leave
  BY <1>32 DEF Leave, ProcessEnds, NoResponse, NoView
<1>33. CASE Kill
  BY <1>33 DEF Kill, ProcessEnds, NoResponse, NoView
<1>34. CASE Restart
  BY <1>34 DEF Restart
<1>35. CASE \E thread \in loaders : LoaderRuns(thread)
  BY <1>35 DEF LoaderRuns, CountUp
<1>36. CASE UNCHANGED vars
  BY <1>36 DEF vars
<1> QED
  BY <1>1, <1>2, <1>3, <1>4, <1>5, <1>6, <1>7, <1>8, <1>9, <1>10, <1>11,
     <1>12, <1>13, <1>14, <1>15, <1>16, <1>17, <1>18, <1>19, <1>20,
     <1>21, <1>22, <1>23, <1>24, <1>25, <1>26, <1>27, <1>28, <1>29,
     <1>30, <1>31, <1>32, <1>33, <1>34, <1>35, <1>36
  DEF Next, Game, Server, Worker, User, Leaving

LEMMA HistoryTypedStep ==
  ASSUME TypeOK, [Next]_vars
  PROVE  HistoryTyped'
<1> USE DEF TypeOK, HistoryTyped, Hooks, ServerPlaces, Answers, Opcodes,
            AppPlaces, WorkerPlaces, Requests, Responses, Views, None,
            NoRequest, NoResponse, NoView
<1>1. CASE GameStarts
  BY <1>1 DEF GameStarts
<1>2. CASE WindowOpens
  BY <1>2 DEF WindowOpens
<1>3. CASE GameEnds
  BY <1>3 DEF GameEnds, NoRequest
<1>4. CASE ScanEnds
  BY <1>4 DEF ScanEnds
<1>5. CASE CreateInstance
  BY <1>5 DEF CreateInstance, ServerGoes
<1>6. CASE GiveUpPipe
  BY <1>6 DEF GiveUpPipe, ServerGoes
<1>7. CASE HandleSimple
  BY <1>7 DEF HandleSimple, ServerGoes, NoRequest
<1>8. CASE HandleDetach
  BY <1>8 DEF HandleDetach, DetachEnds, ServerGoes, NoRequest
<1>9. CASE RequestLost
  BY <1>9 DEF RequestLost, ServerGoes, NoRequest
<1>10. CASE ReplyLost
  BY <1>10 DEF ReplyLost, ServerGoes, AfterReply, UnloadFollows
<1>11. CASE UnloadModule
  BY <1>11 DEF UnloadModule, ServerGoes, Release
<1>12. CASE WorkerFinds
  BY <1>12 DEF WorkerFinds, WorkerGoes, NoView, NotPresent, NoteAbsence
<1>13. CASE WorkerAsks
  BY <1>13 DEF WorkerAsks, WorkerGoes, Wish, PushHotkey, MenuWishTaken
<1>14. CASE WorkerHears
  BY <1>14 DEF WorkerHears, ServerGoes, AfterReply, UnloadFollows
<1>15. CASE WorkerLosesPipe
  BY <1>15 DEF WorkerLosesPipe, WorkerGoes
<1>16. CASE WorkerPublishes
  BY <1>16 DEF WorkerPublishes, WorkerGoes, NoView, NotPresent, AskAgain, NoResponse, NoteAbsence
<1>17. CASE WorkerMisses
  BY <1>17 DEF WorkerMisses, WorkerGoes, NoView, NotPresent, NoteAbsence
<1>18. CASE WorkerStaysOut
  BY <1>18 DEF WorkerStaysOut, WorkerGoes
<1>19. CASE FindsLoaded
  BY <1>19 DEF FindsLoaded, Attaches, WorkerGoes
<1>20. CASE StartsLoader
  BY <1>20 DEF StartsLoader, Attaches, WorkerGoes, Mapped
<1>21. CASE CannotInject
  BY <1>21 DEF CannotInject, Attaches, WorkerGoes
<1>22. CASE LoaderEnded
  BY <1>22 DEF LoaderEnded, WorkerGoes
<1>23. CASE LoaderOutlasts
  BY <1>23 DEF LoaderOutlasts, WorkerGoes
<1>24. CASE WorkerStops
  BY <1>24 DEF WorkerStops, WorkerGoes
<1>25. CASE ClickMenu
  BY <1>25 DEF ClickMenu
<1>26. CASE ClickRescan
  BY <1>26 DEF ClickRescan
<1>27. CASE ChooseHotkey
  BY <1>27 DEF ChooseHotkey
<1>28. CASE Exit
  BY <1>28 DEF Exit, AppGoes
<1>29. CASE AskDetach
  BY <1>29 DEF AskDetach
<1>30. CASE SeesItGone
  BY <1>30 DEF SeesItGone, AppGoes
<1>31. CASE WaitTimesOut
  BY <1>31 DEF WaitTimesOut, AppGoes
<1>32. CASE Leave
  BY <1>32 DEF Leave, ProcessEnds, NoResponse, NoView
<1>33. CASE Kill
  BY <1>33 DEF Kill, ProcessEnds, NoResponse, NoView
<1>34. CASE Restart
  BY <1>34 DEF Restart
<1>35. CASE \E thread \in loaders : LoaderRuns(thread)
  BY <1>35 DEF LoaderRuns, CountUp
<1>36. CASE UNCHANGED vars
  BY <1>36 DEF vars
<1> QED
  BY <1>1, <1>2, <1>3, <1>4, <1>5, <1>6, <1>7, <1>8, <1>9, <1>10, <1>11,
     <1>12, <1>13, <1>14, <1>15, <1>16, <1>17, <1>18, <1>19, <1>20,
     <1>21, <1>22, <1>23, <1>24, <1>25, <1>26, <1>27, <1>28, <1>29,
     <1>30, <1>31, <1>32, <1>33, <1>34, <1>35, <1>36
  DEF Next, Game, Server, Worker, User, Leaving

-----------------------------------------------------------------------------
(* The safety of one step.                                                 *)

LEMMA InitSafe == Init => IInv
<1> SUFFICES ASSUME Init PROVE IInv
  OBVIOUS
<1> USE DEF Init
<1>1. GameTyped
  <2>1. window \in BOOLEAN
    OBVIOUS
  <2>2. loaders \in SUBSET {"own", "stray"}
    OBVIOUS
  <2>3. MaxGames \in Nat
    OBVIOUS
  <2>4. game \in {0, played} /\ played \in 0..MaxGames
    BY <2>3
  <2> QED
    BY <2>1, <2>2, <2>4 DEF GameTyped
<1>2. ModuleTyped
  BY DEF ModuleTyped, Hooks, ServerPlaces, Requests, Answers, Opcodes, NoRequest, None
<1>3. PollTyped
  BY DEF PollTyped, AppPlaces, WorkerPlaces, Responses, Answers, NoResponse
<1>4. WishTyped
  BY ViewsOfNothing DEF WishTyped, None
<1>5. HistoryTyped
  BY DEF HistoryTyped
<1>6. TypeOK
  BY <1>1, <1>2, <1>3, <1>4, <1>5, TypedParts
<1>7. Mapping
  BY DEF Mapping, DeadIsOff, OwnIsWaitedFor, StrayIsExcused, ServedIsMapped, LoadedOnce
<1>8. Knowing
  BY DEF Knowing, NoGameIsBare, WindowIsOfGame, UnknownIsBare, Bare, PollKnows
<1>9. Wishing
  BY DEF Wishing, WishIsForShown, ForShown, CommandsReachTheirGame
<1> QED
  BY <1>6, <1>7, <1>8, <1>9 DEF IInv

LEMMA MappingStep ==
  ASSUME TypeOK, Mapping, [Next]_vars
  PROVE  Mapping'
<1> USE DEF TypeOK, Mapping, DeadIsOff, OwnIsWaitedFor, StrayIsExcused,
            ServedIsMapped, LoadedOnce, ServerPlaces, WorkerPlaces
<1>1. CASE GameStarts
  BY <1>1 DEF GameStarts
<1>2. CASE WindowOpens
  BY <1>2 DEF WindowOpens
<1>3. CASE GameEnds
  BY <1>3 DEF GameEnds, NoRequest
<1>4. CASE ScanEnds
  BY <1>4 DEF ScanEnds
<1>5. CASE CreateInstance
  BY <1>5 DEF CreateInstance, ServerGoes
<1>6. CASE GiveUpPipe
  BY <1>6 DEF GiveUpPipe, ServerGoes
<1>7. CASE HandleSimple
  BY <1>7 DEF HandleSimple, ServerGoes, NoRequest
<1>8. CASE HandleDetach
  BY <1>8 DEF HandleDetach, DetachEnds, ServerGoes, NoRequest
<1>9. CASE RequestLost
  BY <1>9 DEF RequestLost, ServerGoes, NoRequest
<1>10. CASE ReplyLost
  BY <1>10 DEF ReplyLost, ServerGoes, AfterReply, UnloadFollows
<1>11. CASE UnloadModule
  BY <1>11 DEF UnloadModule, ServerGoes, Release
<1>12. CASE WorkerFinds
  BY <1>12 DEF WorkerFinds, WorkerGoes, NoView, NotPresent, NoteAbsence
<1>13. CASE WorkerAsks
  BY <1>13 DEF WorkerAsks, WorkerGoes, Wish, PushHotkey, MenuWishTaken
<1>14. CASE WorkerHears
  BY <1>14 DEF WorkerHears, ServerGoes, AfterReply, UnloadFollows
<1>15. CASE WorkerLosesPipe
  BY <1>15 DEF WorkerLosesPipe, WorkerGoes
<1>16. CASE WorkerPublishes
  BY <1>16 DEF WorkerPublishes, WorkerGoes, NoView, NotPresent, AskAgain, NoResponse, NoteAbsence
<1>17. CASE WorkerMisses
  BY <1>17 DEF WorkerMisses, WorkerGoes, NoView, NotPresent, NoteAbsence
<1>18. CASE WorkerStaysOut
  BY <1>18 DEF WorkerStaysOut, WorkerGoes
<1>19. CASE FindsLoaded
  BY <1>19 DEF FindsLoaded, Attaches, WorkerGoes
<1>20. CASE StartsLoader
  BY <1>20 DEF StartsLoader, Attaches, WorkerGoes, Mapped
<1>21. CASE CannotInject
  BY <1>21 DEF CannotInject, Attaches, WorkerGoes
<1>22. CASE LoaderEnded
  BY <1>22 DEF LoaderEnded, WorkerGoes
<1>23. CASE LoaderOutlasts
  BY <1>23 DEF LoaderOutlasts, WorkerGoes
<1>24. CASE WorkerStops
  BY <1>24 DEF WorkerStops, WorkerGoes
<1>25. CASE ClickMenu
  BY <1>25 DEF ClickMenu
<1>26. CASE ClickRescan
  BY <1>26 DEF ClickRescan
<1>27. CASE ChooseHotkey
  BY <1>27 DEF ChooseHotkey
<1>28. CASE Exit
  BY <1>28 DEF Exit, AppGoes
<1>29. CASE AskDetach
  BY <1>29 DEF AskDetach
<1>30. CASE SeesItGone
  BY <1>30 DEF SeesItGone, AppGoes
<1>31. CASE WaitTimesOut
  BY <1>31 DEF WaitTimesOut, AppGoes
<1>32. CASE Leave
  BY <1>32 DEF Leave, ProcessEnds, NoResponse, NoView
<1>33. CASE Kill
  BY <1>33 DEF Kill, ProcessEnds, NoResponse, NoView
<1>34. CASE Restart
  BY <1>34 DEF Restart
<1>35. CASE \E thread \in loaders : LoaderRuns(thread)
  BY <1>35 DEF LoaderRuns, CountUp
<1>36. CASE UNCHANGED vars
  BY <1>36 DEF vars
<1> QED
  BY <1>1, <1>2, <1>3, <1>4, <1>5, <1>6, <1>7, <1>8, <1>9, <1>10, <1>11,
     <1>12, <1>13, <1>14, <1>15, <1>16, <1>17, <1>18, <1>19, <1>20,
     <1>21, <1>22, <1>23, <1>24, <1>25, <1>26, <1>27, <1>28, <1>29,
     <1>30, <1>31, <1>32, <1>33, <1>34, <1>35, <1>36
  DEF Next, Game, Server, Worker, User, Leaving

LEMMA KnowingStep ==
  ASSUME TypeOK, Mapping, Knowing, [Next]_vars
  PROVE  Knowing'
<1> USE DEF TypeOK, Mapping, DeadIsOff, OwnIsWaitedFor, StrayIsExcused,
            ServedIsMapped, LoadedOnce, Knowing, NoGameIsBare,
            WindowIsOfGame, UnknownIsBare, Bare, PollKnows, MayAttach,
            ServerPlaces, WorkerPlaces
<1>1. CASE GameStarts
  BY <1>1 DEF GameStarts
<1>2. CASE WindowOpens
  BY <1>2 DEF WindowOpens
<1>3. CASE GameEnds
  BY <1>3 DEF GameEnds, NoRequest
<1>4. CASE ScanEnds
  BY <1>4 DEF ScanEnds
<1>5. CASE CreateInstance
  BY <1>5 DEF CreateInstance, ServerGoes
<1>6. CASE GiveUpPipe
  BY <1>6 DEF GiveUpPipe, ServerGoes
<1>7. CASE HandleSimple
  BY <1>7 DEF HandleSimple, ServerGoes, NoRequest
<1>8. CASE HandleDetach
  BY <1>8 DEF HandleDetach, DetachEnds, ServerGoes, NoRequest
<1>9. CASE RequestLost
  BY <1>9 DEF RequestLost, ServerGoes, NoRequest
<1>10. CASE ReplyLost
  BY <1>10 DEF ReplyLost, ServerGoes, AfterReply, UnloadFollows
<1>11. CASE UnloadModule
  BY <1>11 DEF UnloadModule, ServerGoes, Release
<1>12. CASE WorkerFinds
  BY <1>12 DEF WorkerFinds, WorkerGoes, NoView, NotPresent, NoteAbsence
<1>13. CASE WorkerAsks
  BY <1>13 DEF WorkerAsks, WorkerGoes, Wish, PushHotkey, MenuWishTaken
<1>14. CASE WorkerHears
  BY <1>14 DEF WorkerHears, ServerGoes, AfterReply, UnloadFollows
<1>15. CASE WorkerLosesPipe
  BY <1>15 DEF WorkerLosesPipe, WorkerGoes
<1>16. CASE WorkerPublishes
  BY <1>16 DEF WorkerPublishes, WorkerGoes, NoView, NotPresent, AskAgain, NoResponse, NoteAbsence
<1>17. CASE WorkerMisses
  BY <1>17 DEF WorkerMisses, WorkerGoes, NoView, NotPresent, NoteAbsence
<1>18. CASE WorkerStaysOut
  BY <1>18 DEF WorkerStaysOut, WorkerGoes
<1>19. CASE FindsLoaded
  BY <1>19 DEF FindsLoaded, Attaches, WorkerGoes
<1>20. CASE StartsLoader
  BY <1>20 DEF StartsLoader, Attaches, WorkerGoes, Mapped
<1>21. CASE CannotInject
  BY <1>21 DEF CannotInject, Attaches, WorkerGoes
<1>22. CASE LoaderEnded
  BY <1>22 DEF LoaderEnded, WorkerGoes
<1>23. CASE LoaderOutlasts
  BY <1>23 DEF LoaderOutlasts, WorkerGoes
<1>24. CASE WorkerStops
  BY <1>24 DEF WorkerStops, WorkerGoes
<1>25. CASE ClickMenu
  BY <1>25 DEF ClickMenu
<1>26. CASE ClickRescan
  BY <1>26 DEF ClickRescan
<1>27. CASE ChooseHotkey
  BY <1>27 DEF ChooseHotkey
<1>28. CASE Exit
  BY <1>28 DEF Exit, AppGoes
<1>29. CASE AskDetach
  BY <1>29 DEF AskDetach
<1>30. CASE SeesItGone
  BY <1>30 DEF SeesItGone, AppGoes
<1>31. CASE WaitTimesOut
  BY <1>31 DEF WaitTimesOut, AppGoes
<1>32. CASE Leave
  BY <1>32 DEF Leave, ProcessEnds, NoResponse, NoView
<1>33. CASE Kill
  BY <1>33 DEF Kill, ProcessEnds, NoResponse, NoView
<1>34. CASE Restart
  BY <1>34 DEF Restart
<1>35. CASE \E thread \in loaders : LoaderRuns(thread)
  BY <1>35 DEF LoaderRuns, CountUp
<1>36. CASE UNCHANGED vars
  BY <1>36 DEF vars
<1> QED
  BY <1>1, <1>2, <1>3, <1>4, <1>5, <1>6, <1>7, <1>8, <1>9, <1>10, <1>11,
     <1>12, <1>13, <1>14, <1>15, <1>16, <1>17, <1>18, <1>19, <1>20,
     <1>21, <1>22, <1>23, <1>24, <1>25, <1>26, <1>27, <1>28, <1>29,
     <1>30, <1>31, <1>32, <1>33, <1>34, <1>35, <1>36
  DEF Next, Game, Server, Worker, User, Leaving

LEMMA WishingStep ==
  ASSUME TypeOK, Mapping, Knowing, Wishing, [Next]_vars
  PROVE  Wishing'
<1> USE DEF TypeOK, Mapping, DeadIsOff, ServedIsMapped, Knowing,
            NoGameIsBare, WindowIsOfGame, UnknownIsBare, Bare, Wishing,
            WishIsForShown, ForShown, CommandsReachTheirGame, None,
            Requests, ServerPlaces, WorkerPlaces
<1>1. CASE GameStarts
  BY <1>1 DEF GameStarts
<1>2. CASE WindowOpens
  BY <1>2 DEF WindowOpens
<1>3. CASE GameEnds
  BY <1>3 DEF GameEnds, NoRequest
<1>4. CASE ScanEnds
  BY <1>4 DEF ScanEnds
<1>5. CASE CreateInstance
  BY <1>5 DEF CreateInstance, ServerGoes
<1>6. CASE GiveUpPipe
  BY <1>6 DEF GiveUpPipe, ServerGoes
<1>7. CASE HandleSimple
  BY <1>7 DEF HandleSimple, ServerGoes, NoRequest
<1>8. CASE HandleDetach
  BY <1>8 DEF HandleDetach, DetachEnds, ServerGoes, NoRequest
<1>9. CASE RequestLost
  BY <1>9 DEF RequestLost, ServerGoes, NoRequest
<1>10. CASE ReplyLost
  BY <1>10 DEF ReplyLost, ServerGoes, AfterReply, UnloadFollows
<1>11. CASE UnloadModule
  BY <1>11 DEF UnloadModule, ServerGoes, Release
<1>12. CASE WorkerFinds
  BY <1>12 DEF WorkerFinds, WorkerGoes, NoView, NotPresent, NoteAbsence
<1>13. CASE WorkerAsks
  BY <1>13 DEF WorkerAsks, WorkerGoes, Wish, PushHotkey, MenuWishTaken
<1>14. CASE WorkerHears
  BY <1>14 DEF WorkerHears, ServerGoes, AfterReply, UnloadFollows
<1>15. CASE WorkerLosesPipe
  BY <1>15 DEF WorkerLosesPipe, WorkerGoes
<1>16. CASE WorkerPublishes
  BY <1>16 DEF WorkerPublishes, WorkerGoes, NoView, NotPresent, AskAgain, NoResponse, NoteAbsence
<1>17. CASE WorkerMisses
  BY <1>17 DEF WorkerMisses, WorkerGoes, NoView, NotPresent, NoteAbsence
<1>18. CASE WorkerStaysOut
  BY <1>18 DEF WorkerStaysOut, WorkerGoes
<1>19. CASE FindsLoaded
  BY <1>19 DEF FindsLoaded, Attaches, WorkerGoes
<1>20. CASE StartsLoader
  BY <1>20 DEF StartsLoader, Attaches, WorkerGoes, Mapped
<1>21. CASE CannotInject
  BY <1>21 DEF CannotInject, Attaches, WorkerGoes
<1>22. CASE LoaderEnded
  BY <1>22 DEF LoaderEnded, WorkerGoes
<1>23. CASE LoaderOutlasts
  BY <1>23 DEF LoaderOutlasts, WorkerGoes
<1>24. CASE WorkerStops
  BY <1>24 DEF WorkerStops, WorkerGoes
<1>25. CASE ClickMenu
  BY <1>25 DEF ClickMenu
<1>26. CASE ClickRescan
  BY <1>26 DEF ClickRescan
<1>27. CASE ChooseHotkey
  BY <1>27 DEF ChooseHotkey
<1>28. CASE Exit
  BY <1>28 DEF Exit, AppGoes
<1>29. CASE AskDetach
  BY <1>29 DEF AskDetach
<1>30. CASE SeesItGone
  BY <1>30 DEF SeesItGone, AppGoes
<1>31. CASE WaitTimesOut
  BY <1>31 DEF WaitTimesOut, AppGoes
<1>32. CASE Leave
  BY <1>32 DEF Leave, ProcessEnds, NoResponse, NoView
<1>33. CASE Kill
  BY <1>33 DEF Kill, ProcessEnds, NoResponse, NoView
<1>34. CASE Restart
  BY <1>34 DEF Restart
<1>35. CASE \E thread \in loaders : LoaderRuns(thread)
  BY <1>35 DEF LoaderRuns, CountUp
<1>36. CASE UNCHANGED vars
  BY <1>36 DEF vars
<1> QED
  BY <1>1, <1>2, <1>3, <1>4, <1>5, <1>6, <1>7, <1>8, <1>9, <1>10, <1>11,
     <1>12, <1>13, <1>14, <1>15, <1>16, <1>17, <1>18, <1>19, <1>20,
     <1>21, <1>22, <1>23, <1>24, <1>25, <1>26, <1>27, <1>28, <1>29,
     <1>30, <1>31, <1>32, <1>33, <1>34, <1>35, <1>36
  DEF Next, Game, Server, Worker, User, Leaving

LEMMA WaitingStep ==
  ASSUME TypeOK, Waiting, [Next]_vars
  PROVE  Waiting'
<1> USE DEF TypeOK, Waiting, DeadWorkerIsOff, AwayIsAbsent, AbsenceIsSeen,
            DetachIsOnItsWay, AskedFor, ModuleIsAsked, ModuleHasAnswered,
            DetachAnswers, Stopped, ServerPlaces, WorkerPlaces, Views
<1>1. CASE GameStarts
  BY <1>1 DEF GameStarts
<1>2. CASE WindowOpens
  BY <1>2 DEF WindowOpens
<1>3. CASE GameEnds
  BY <1>3 DEF GameEnds, NoRequest
<1>4. CASE ScanEnds
  BY <1>4 DEF ScanEnds
<1>5. CASE CreateInstance
  BY <1>5 DEF CreateInstance, ServerGoes
<1>6. CASE GiveUpPipe
  BY <1>6 DEF GiveUpPipe, ServerGoes
<1>7. CASE HandleSimple
  BY <1>7 DEF HandleSimple, ServerGoes, NoRequest
<1>8. CASE HandleDetach
  BY <1>8 DEF HandleDetach, DetachEnds, ServerGoes, NoRequest
<1>9. CASE RequestLost
  BY <1>9 DEF RequestLost, ServerGoes, NoRequest
<1>10. CASE ReplyLost
  BY <1>10 DEF ReplyLost, ServerGoes, AfterReply, UnloadFollows
<1>11. CASE UnloadModule
  BY <1>11 DEF UnloadModule, ServerGoes, Release
<1>12. CASE WorkerFinds
  BY <1>12 DEF WorkerFinds, WorkerGoes, NoView, NotPresent, NoteAbsence
<1>13. CASE WorkerAsks
  BY <1>13 DEF WorkerAsks, WorkerGoes, Wish, PushHotkey, MenuWishTaken
<1>14. CASE WorkerHears
  BY <1>14 DEF WorkerHears, ServerGoes, AfterReply, UnloadFollows
<1>15. CASE WorkerLosesPipe
  BY <1>15 DEF WorkerLosesPipe, WorkerGoes
<1>16. CASE WorkerPublishes
  BY <1>16 DEF WorkerPublishes, WorkerGoes, NoView, NotPresent, AskAgain, NoResponse, NoteAbsence
<1>17. CASE WorkerMisses
  BY <1>17 DEF WorkerMisses, WorkerGoes, NoView, NotPresent, NoteAbsence
<1>18. CASE WorkerStaysOut
  BY <1>18 DEF WorkerStaysOut, WorkerGoes
<1>19. CASE FindsLoaded
  BY <1>19 DEF FindsLoaded, Attaches, WorkerGoes
<1>20. CASE StartsLoader
  BY <1>20 DEF StartsLoader, Attaches, WorkerGoes, Mapped
<1>21. CASE CannotInject
  BY <1>21 DEF CannotInject, Attaches, WorkerGoes
<1>22. CASE LoaderEnded
  BY <1>22 DEF LoaderEnded, WorkerGoes
<1>23. CASE LoaderOutlasts
  BY <1>23 DEF LoaderOutlasts, WorkerGoes
<1>24. CASE WorkerStops
  BY <1>24 DEF WorkerStops, WorkerGoes
<1>25. CASE ClickMenu
  BY <1>25 DEF ClickMenu
<1>26. CASE ClickRescan
  BY <1>26 DEF ClickRescan
<1>27. CASE ChooseHotkey
  BY <1>27 DEF ChooseHotkey
<1>28. CASE Exit
  BY <1>28 DEF Exit, AppGoes
<1>29. CASE AskDetach
  BY <1>29 DEF AskDetach
<1>30. CASE SeesItGone
  BY <1>30 DEF SeesItGone, AppGoes
<1>31. CASE WaitTimesOut
  BY <1>31 DEF WaitTimesOut, AppGoes
<1>32. CASE Leave
  BY <1>32 DEF Leave, ProcessEnds, NoResponse, NoView
<1>33. CASE Kill
  BY <1>33 DEF Kill, ProcessEnds, NoResponse, NoView
<1>34. CASE Restart
  BY <1>34 DEF Restart
<1>35. CASE \E thread \in loaders : LoaderRuns(thread)
  BY <1>35 DEF LoaderRuns, CountUp
<1>36. CASE UNCHANGED vars
  BY <1>36 DEF vars
<1> QED
  BY <1>1, <1>2, <1>3, <1>4, <1>5, <1>6, <1>7, <1>8, <1>9, <1>10, <1>11,
     <1>12, <1>13, <1>14, <1>15, <1>16, <1>17, <1>18, <1>19, <1>20,
     <1>21, <1>22, <1>23, <1>24, <1>25, <1>26, <1>27, <1>28, <1>29,
     <1>30, <1>31, <1>32, <1>33, <1>34, <1>35, <1>36
  DEF Next, Game, Server, Worker, User, Leaving

LEMMA LeftStep ==
  ASSUME TypeOK, Mapping, Knowing, LeftGoes, [Next]_vars
  PROVE  LeftGoes'
<1> USE DEF TypeOK, Mapping, DeadIsOff, OwnIsWaitedFor, StrayIsExcused,
            ServedIsMapped, LoadedOnce, Knowing, NoGameIsBare,
            WindowIsOfGame, UnknownIsBare, Bare, PollKnows, MayAttach,
            LeftGoes, DetachIsNoted, HeardIsUnmapping, Unmapping,
            LeftIsDetached, LeftStaysLeft, ServerPlaces, WorkerPlaces,
            Stopped, NoResponse
<1>1. CASE GameStarts
  BY <1>1 DEF GameStarts
<1>2. CASE WindowOpens
  BY <1>2 DEF WindowOpens
<1>3. CASE GameEnds
  BY <1>3 DEF GameEnds, NoRequest
<1>4. CASE ScanEnds
  BY <1>4 DEF ScanEnds
<1>5. CASE CreateInstance
  BY <1>5 DEF CreateInstance, ServerGoes
<1>6. CASE GiveUpPipe
  BY <1>6 DEF GiveUpPipe, ServerGoes
<1>7. CASE HandleSimple
  BY <1>7 DEF HandleSimple, ServerGoes, NoRequest
<1>8. CASE HandleDetach
  BY <1>8 DEF HandleDetach, DetachEnds, ServerGoes, NoRequest
<1>9. CASE RequestLost
  BY <1>9 DEF RequestLost, ServerGoes, NoRequest
<1>10. CASE ReplyLost
  BY <1>10 DEF ReplyLost, ServerGoes, AfterReply, UnloadFollows
<1>11. CASE UnloadModule
  BY <1>11 DEF UnloadModule, ServerGoes, Release
<1>12. CASE WorkerFinds
  BY <1>12 DEF WorkerFinds, WorkerGoes, NoView, NotPresent, NoteAbsence
<1>13. CASE WorkerAsks
  BY <1>13 DEF WorkerAsks, WorkerGoes, Wish, PushHotkey, MenuWishTaken
<1>14. CASE WorkerHears
  BY <1>14 DEF WorkerHears, ServerGoes, AfterReply, UnloadFollows
<1>15. CASE WorkerLosesPipe
  BY <1>15 DEF WorkerLosesPipe, WorkerGoes
<1>16. CASE WorkerPublishes
  BY <1>16 DEF WorkerPublishes, WorkerGoes, NoView, NotPresent, AskAgain, NoResponse, NoteAbsence
<1>17. CASE WorkerMisses
  BY <1>17 DEF WorkerMisses, WorkerGoes, NoView, NotPresent, NoteAbsence
<1>18. CASE WorkerStaysOut
  BY <1>18 DEF WorkerStaysOut, WorkerGoes
<1>19. CASE FindsLoaded
  BY <1>19 DEF FindsLoaded, Attaches, WorkerGoes
<1>20. CASE StartsLoader
  BY <1>20 DEF StartsLoader, Attaches, WorkerGoes, Mapped
<1>21. CASE CannotInject
  BY <1>21 DEF CannotInject, Attaches, WorkerGoes
<1>22. CASE LoaderEnded
  BY <1>22 DEF LoaderEnded, WorkerGoes
<1>23. CASE LoaderOutlasts
  BY <1>23 DEF LoaderOutlasts, WorkerGoes
<1>24. CASE WorkerStops
  BY <1>24 DEF WorkerStops, WorkerGoes
<1>25. CASE ClickMenu
  BY <1>25 DEF ClickMenu
<1>26. CASE ClickRescan
  BY <1>26 DEF ClickRescan
<1>27. CASE ChooseHotkey
  BY <1>27 DEF ChooseHotkey
<1>28. CASE Exit
  BY <1>28 DEF Exit, AppGoes
<1>29. CASE AskDetach
  BY <1>29 DEF AskDetach
<1>30. CASE SeesItGone
  BY <1>30 DEF SeesItGone, AppGoes
<1>31. CASE WaitTimesOut
  BY <1>31 DEF WaitTimesOut, AppGoes
<1>32. CASE Leave
  BY <1>32 DEF Leave, ProcessEnds, NoResponse, NoView
<1>33. CASE Kill
  BY <1>33 DEF Kill, ProcessEnds, NoResponse, NoView
<1>34. CASE Restart
  BY <1>34 DEF Restart
<1>35. CASE \E thread \in loaders : LoaderRuns(thread)
  BY <1>35 DEF LoaderRuns, CountUp
<1>36. CASE UNCHANGED vars
  BY <1>36 DEF vars
<1> QED
  BY <1>1, <1>2, <1>3, <1>4, <1>5, <1>6, <1>7, <1>8, <1>9, <1>10, <1>11,
     <1>12, <1>13, <1>14, <1>15, <1>16, <1>17, <1>18, <1>19, <1>20,
     <1>21, <1>22, <1>23, <1>24, <1>25, <1>26, <1>27, <1>28, <1>29,
     <1>30, <1>31, <1>32, <1>33, <1>34, <1>35, <1>36
  DEF Next, Game, Server, Worker, User, Leaving

LEMMA SafeStep ==
  ASSUME IInv, [Next]_vars
  PROVE  IInv'
<1>1. TypeOK /\ Mapping /\ Knowing /\ Wishing /\ ServedIsMapped
  BY DEF IInv, Mapping
<1>2. GameTyped' /\ ModuleTyped' /\ PollTyped' /\ WishTyped' /\ HistoryTyped'
  BY <1>1, GameTypedStep, ModuleTypedStep, PollTypedStep, WishTypedStep,
     HistoryTypedStep
<1>3. TypeOK'
  BY <1>2, Zenon
     DEF TypeOK, GameTyped, ModuleTyped, PollTyped, WishTyped, HistoryTyped
<1>4. Mapping' /\ Knowing' /\ Wishing'
  BY <1>1, MappingStep, KnowingStep, WishingStep
<1> QED
  BY <1>3, <1>4 DEF IInv

-----------------------------------------------------------------------------
(* The theorems.                                                           *)

LEMMA AlwaysSafe == Spec => []IInv
BY InitSafe, SafeStep, PTL DEF Spec

\* Every variable of the session keeps its type: the module's reference count
\* stays between zero and two, so no FreeLibrary gives up a reference that
\* nobody took (pipe.cpp:185), whichever loaders run in whichever game.
THEOREM TypeCorrect == Spec => []TypeOK
<1>1. IInv => TypeOK
  BY DEF IInv
<1> QED
  BY <1>1, AlwaysSafe, PTL

\* A game gets the module once (link.cpp:178, injector.cpp:104), although every
\* poll that misses a pipe instance asks again whether it is there: unless a
\* loader was left behind or a snapshot of a game with the module failed, the
\* references and the loader under way never exceed one.
THEOREM SingleLoad == Spec => []LoadedOnce
<1>1. IInv => LoadedOnce
  BY DEF IInv, Mapping
<1> QED
  BY <1>1, AlwaysSafe, PTL

\* The wishes for one game end with it (link.cpp:224-242): a menu command the
\* module reads was given for the game it is in, or while no game was known.
THEOREM CommandsArrive == Spec => []CommandsReachTheirGame
<1>1. IInv => CommandsReachTheirGame
  BY DEF IInv, Wishing
<1> QED
  BY <1>1, AlwaysSafe, PTL

\* The application that took the module out of a game does not put it back
\* (link.cpp:69-72, 317) until a poll has failed to find that game, which clears
\* g_detached (injector.cpp:46-48, link.cpp:223-227).
THEOREM LeftForGood == Spec => []LeftStaysLeft
<1> DEFINE LInv == IInv /\ LeftGoes
<1>1. Init => LInv
  <2>1. Init => LeftGoes
    BY DEF Init, LeftGoes, DetachIsNoted, HeardIsUnmapping, LeftIsDetached,
           LeftStaysLeft
  <2> QED
    BY <2>1, InitSafe
<1>2. LInv /\ [Next]_vars => LInv'
  <2> SUFFICES ASSUME IInv, LeftGoes, [Next]_vars PROVE IInv' /\ LeftGoes'
    OBVIOUS
  <2>1. TypeOK /\ Mapping /\ Knowing
    BY DEF IInv
  <2> QED
    BY <2>1, SafeStep, LeftStep
<1>3. LInv => LeftStaysLeft
  BY DEF LeftGoes
<1> QED
  BY <1>1, <1>2, <1>3, PTL DEF Spec

\* However the module answers, and whatever the game and the pipe do: the way
\* out never waits, between two polls, for a detach that nobody asks for
\* (link.cpp:206-211), unless it has seen the module absent in between.
THEOREM NobodyWaitsIdly == Spec => []WaitingAsks
<1> DEFINE WInv == IInv /\ Waiting
<1>1. Init => WInv
  <2>1. Init => Waiting
    BY DEF Init, Waiting, DetachIsOnItsWay, AbsenceIsSeen, AwayIsAbsent,
           DeadWorkerIsOff
  <2> QED
    BY <2>1, InitSafe
<1>2. WInv /\ [Next]_vars => WInv'
  <2> SUFFICES ASSUME IInv, Waiting, [Next]_vars PROVE IInv' /\ Waiting'
    OBVIOUS
  <2>1. TypeOK
    BY DEF IInv
  <2> QED
    BY <2>1, SafeStep, WaitingStep
<1>3. WInv => WaitingAsks
  BY DEF Waiting, DetachIsOnItsWay, AskedFor, ModuleIsAsked, ModuleHasAnswered,
         WaitingAsks
<1> QED
  BY <1>1, <1>2, <1>3, PTL DEF Spec

-----------------------------------------------------------------------------
(* The way out.                                                            *)

\* The steps of the main thread from the click on Exit to the end of the
\* process, and those of the worker from where it is to the end of its loop,
\* once it finds it is to stop.
ExitLeft ==
  CASE app = "asking"   -> 3
    [] app = "waiting"  -> 2
    [] app = "stopping" -> 1
    [] app \in {"up", "gone", "killed"} -> 0
PollLeft ==
  CASE worker = "found"      -> 6
    [] worker = "await"      -> 5
    [] worker = "unanswered" -> 4
    [] worker = "absent"     -> 3
    [] worker = "inject"     -> 2
    [] worker = "answered"   -> 2
    [] worker = "top"        -> 1
    [] worker = "off"        -> 0

OnTheWayOut == app \in {"asking", "waiting", "stopping"}
ExitIsBounded ==
  [][/\ OnTheWayOut => IF Leaving THEN ExitLeft' < ExitLeft ELSE app' = app \/ Kill
     /\ app = "stopping" =>
          IF Worker THEN PollLeft' < PollLeft ELSE worker' = worker \/ Leave \/ Kill]_vars

LEMMA LeavingUsesSteps ==
  ASSUME Leaving
  PROVE  ExitLeft' < ExitLeft
<1> USE DEF ExitLeft
<1>1. CASE AskDetach  BY <1>1 DEF AskDetach
<1>2. CASE SeesItGone \/ WaitTimesOut  BY <1>2 DEF SeesItGone, WaitTimesOut, AppGoes
<1>3. CASE Leave  BY <1>3 DEF Leave, ProcessEnds
<1> QED  BY <1>1, <1>2, <1>3 DEF Leaving

LEMMA WorkerLeavesApp ==
  ASSUME Worker
  PROVE  app' = app
<1>1. CASE WorkerHears  BY <1>1 DEF WorkerHears, ServerGoes
<1>2. CASE ~WorkerHears
  BY <1>2 DEF Worker, WorkerFinds, WorkerAsks, WorkerLosesPipe, WorkerPublishes,
     WorkerMisses, WorkerStaysOut, FindsLoaded, StartsLoader, CannotInject,
     LoaderEnded, LoaderOutlasts, WorkerStops, Attaches, WorkerGoes
<1> QED  BY <1>1, <1>2

LEMMA StoppedWorkerUsesSteps ==
  ASSUME Worker, Stopped
  PROVE  PollLeft' < PollLeft
<1> USE DEF PollLeft, WorkerGoes
<1>1. CASE WorkerFinds  BY <1>1 DEF WorkerFinds
<1>2. CASE WorkerAsks  BY <1>2 DEF WorkerAsks
<1>3. CASE WorkerHears  BY <1>3 DEF WorkerHears
<1>4. CASE WorkerLosesPipe  BY <1>4 DEF WorkerLosesPipe
<1>5. CASE WorkerPublishes  BY <1>5 DEF WorkerPublishes
<1>6. CASE WorkerMisses \/ WorkerStaysOut  BY <1>6 DEF WorkerMisses, WorkerStaysOut
<1>7. CASE FindsLoaded \/ StartsLoader \/ CannotInject
  BY <1>7 DEF FindsLoaded, StartsLoader, CannotInject, Attaches
<1>8. CASE LoaderEnded \/ LoaderOutlasts  BY <1>8 DEF LoaderEnded, LoaderOutlasts
<1>9. CASE WorkerStops  BY <1>9 DEF WorkerStops
<1> QED
  BY <1>1, <1>2, <1>3, <1>4, <1>5, <1>6, <1>7, <1>8, <1>9 DEF Worker

\* Nobody else has a hand in the main thread's place or the worker's.
LEMMA OthersLeaveExit ==
  ASSUME [Next]_vars, OnTheWayOut, ~Worker, ~Leaving, ~Kill
  PROVE  app' = app /\ worker' = worker
<1>1. CASE GameStarts \/ WindowOpens \/ GameEnds \/ ScanEnds
  BY <1>1 DEF GameStarts, WindowOpens, GameEnds, ScanEnds, poll
<1>2. CASE \E thread \in loaders : LoaderRuns(thread)
  BY <1>2 DEF LoaderRuns, poll
<1>3. CASE Server
  BY <1>3 DEF Server, CreateInstance, GiveUpPipe, HandleSimple, HandleDetach,
     DetachEnds, RequestLost, ReplyLost, UnloadModule, ServerGoes, poll
<1>4. CASE User
  BY <1>4 DEF User, ClickMenu, ClickRescan, ChooseHotkey, Exit, AppGoes, OnTheWayOut
<1>5. CASE Restart  BY <1>5 DEF Restart, OnTheWayOut
<1>6. CASE UNCHANGED vars  BY <1>6 DEF vars, poll
<1> QED
  BY <1>1, <1>2, <1>3, <1>4, <1>5, <1>6 DEF Next, Game

\* The way out is bounded (main.cpp:598-601, link.cpp:219-326, 336-369): three
\* steps of the main thread, and six at most of the worker it joins, which
\* begins no new poll once it is to stop.  The one wait of the main thread that
\* has no timeout is that join; game, module and user move neither thread.
THEOREM BoundedExit ==
  Spec => [](ExitLeft \in 0..3 /\ PollLeft \in 0..6) /\ ExitIsBounded
<1>1. TypeOK => ExitLeft \in 0..3 /\ PollLeft \in 0..6
  BY DEF TypeOK, AppPlaces, WorkerPlaces, ExitLeft, PollLeft
<1>2. [Next]_vars =>
        [/\ OnTheWayOut => IF Leaving THEN ExitLeft' < ExitLeft ELSE app' = app \/ Kill
         /\ app = "stopping" =>
              IF Worker THEN PollLeft' < PollLeft
                        ELSE worker' = worker \/ Leave \/ Kill]_vars
  <2> SUFFICES ASSUME [Next]_vars, OnTheWayOut
               PROVE  /\ IF Leaving THEN ExitLeft' < ExitLeft ELSE app' = app \/ Kill
                      /\ app = "stopping" =>
                           IF Worker THEN PollLeft' < PollLeft
                                     ELSE worker' = worker \/ Leave \/ Kill
    BY DEF OnTheWayOut
  <2>1. IF Leaving THEN ExitLeft' < ExitLeft ELSE app' = app \/ Kill
    BY LeavingUsesSteps, WorkerLeavesApp, OthersLeaveExit
  <2>2. ASSUME app = "stopping", Worker PROVE PollLeft' < PollLeft
    BY <2>2, StoppedWorkerUsesSteps DEF Stopped
  <2>3. ASSUME app = "stopping", ~Worker PROVE worker' = worker \/ Leave \/ Kill
    <3>1. CASE Leaving
      BY <2>3, <3>1 DEF Leaving, AskDetach, SeesItGone, WaitTimesOut, AppGoes
    <3>2. CASE ~Leaving  BY <2>3, <3>2, OthersLeaveExit
    <3> QED  BY <3>1, <3>2
  <2> QED  BY <2>1, <2>2, <2>3
<1> QED  BY <1>1, <1>2, TypeCorrect, PTL DEF Spec, ExitIsBounded

-----------------------------------------------------------------------------
(* What the pipe thread owes a request it has taken.                       *)

ServiceLeft ==
  CASE server = "serve" -> 3
    [] server = "reply" -> 2
    [] server = "leave" -> 1
    [] server \in {"none", "gap", "listen", "ended"} -> 0
Serving == server \in {"serve", "reply", "leave"}
Serves == Server \/ WorkerHears
UnloadIsDue == server = "leave" \/ (server = "reply" /\ answer = "unloading")
DetachIsFollowed ==
  /\ [][Serving =>
          IF Serves THEN ServiceLeft' < ServiceLeft
                    ELSE server' = server \/ GameEnds]_vars
  /\ [][UnloadIsDue => UnloadIsDue' \/ UnloadModule \/ GameEnds]_vars

LEMMA ServingUsesSteps ==
  ASSUME Serves, Serving
  PROVE  ServiceLeft' < ServiceLeft
<1> USE DEF Serving, ServiceLeft, ServerGoes, AfterReply
<1>1. CASE CreateInstance \/ GiveUpPipe  BY <1>1 DEF CreateInstance, GiveUpPipe
<1>2. CASE HandleSimple  BY <1>2 DEF HandleSimple
<1>3. CASE HandleDetach  BY <1>3 DEF HandleDetach, DetachEnds
<1>4. CASE RequestLost  BY <1>4 DEF RequestLost
<1>5. CASE ReplyLost  BY <1>5 DEF ReplyLost
<1>6. CASE UnloadModule  BY <1>6 DEF UnloadModule
<1>7. CASE WorkerHears  BY <1>7 DEF WorkerHears
<1> QED  BY <1>1, <1>2, <1>3, <1>4, <1>5, <1>6, <1>7 DEF Serves, Server

\* Neither the application nor another loader moves a thread that serves.
LEMMA OthersLeaveServer ==
  ASSUME TypeOK, ServedIsMapped, [Next]_vars, Serving,
         ~Serves, ~GameEnds
  PROVE  server' = server /\ answer' = answer
<1>1. CASE GameStarts \/ WindowOpens \/ ScanEnds
  BY <1>1 DEF GameStarts, WindowOpens, ScanEnds
<1>2. ASSUME NEW thread \in loaders, LoaderRuns(thread)
      PROVE server' = server /\ answer' = answer
  BY <1>2 DEF LoaderRuns, ServedIsMapped, Serving
<1>3. CASE WorkerAsks  BY <1>3 DEF WorkerAsks, Serving
<1>4. CASE Worker /\ ~WorkerAsks
  BY <1>4 DEF Serves, Worker, WorkerFinds, WorkerLosesPipe, WorkerPublishes,
     WorkerMisses, WorkerStaysOut, FindsLoaded, StartsLoader, CannotInject,
     LoaderEnded, LoaderOutlasts, WorkerStops, Attaches
<1>5. CASE User \/ Leaving \/ Kill \/ Restart
  BY <1>5 DEF User, ClickMenu, ClickRescan, ChooseHotkey, Exit, Leaving, AskDetach,
     SeesItGone, WaitTimesOut, Leave, Kill, Restart, AppGoes, ProcessEnds
<1>6. CASE UNCHANGED vars  BY <1>6 DEF vars
<1> QED  BY <1>1, <1>2, <1>3, <1>4, <1>5, <1>6 DEF Next, Game, Serves

\* A detach that is through is followed by the unload, whoever still listens
\* (pipe.cpp:160-179): the response "unloading" is lost or heard and the thread
\* leaves either way, three steps after it took the request at most.  Only the
\* end of the game comes before that.
THEOREM DetachIsFollowedThrough ==
  Spec => [](ServiceLeft \in 0..3) /\ DetachIsFollowed
<1>1. IInv => ServiceLeft \in 0..3
  BY DEF IInv, TypeOK, ServerPlaces, ServiceLeft
<1>2. IInv /\ [Next]_vars =>
        [Serving =>
           IF Serves THEN ServiceLeft' < ServiceLeft
                     ELSE server' = server \/ GameEnds]_vars
  BY ServingUsesSteps, OthersLeaveServer DEF IInv, Mapping
<1>3. IInv /\ [Next]_vars =>
        [UnloadIsDue => UnloadIsDue' \/ UnloadModule \/ GameEnds]_vars
  <2> SUFFICES ASSUME IInv, [Next]_vars, UnloadIsDue, ~GameEnds, ~UnloadModule
               PROVE  UnloadIsDue'
    OBVIOUS
  <2> USE DEF UnloadIsDue
  <2>1. CASE Serves
    <3>1. WorkerHears \/ ReplyLost
      BY <2>1 DEF Serves, Server, ServerGoes, CreateInstance, GiveUpPipe,
         HandleSimple, HandleDetach, DetachEnds, RequestLost
    <3>2. QED
      BY <3>1 DEF WorkerHears, ReplyLost, ServerGoes, AfterReply, UnloadFollows
  <2>2. CASE ~Serves  BY <2>2, OthersLeaveServer DEF IInv, Mapping, Serving
  <2> QED  BY <2>1, <2>2
<1> QED
  BY <1>1, <1>2, <1>3, AlwaysSafe, PTL DEF Spec, DetachIsFollowed

=============================================================================
