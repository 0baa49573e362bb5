--------------------------- MODULE TrayAppProofs ---------------------------
(***************************************************************************)
(* Type correctness and safety of TrayApp, for any number of copies of the *)
(* application and any folders, whenever copies start, leave and are       *)
(* killed; and that no click is lost between them.                         *)
(***************************************************************************)
EXTENDS TrayApp, TLAPS

USE TrayAssumption

(* The inductive invariant.  A copy that does not run has no state, one that
   has posted its message is on its way out.  A copy on its way to the hand-off
   whose click is owed an answer has been noted with every copy started at
   logon, and so has a message that waits to be dispatched. *)
IdleIsBlank ==
  \A c \in Copies : place[c] \in {"none", "gone"} =>
    ~tray[c] /\ ~visible[c] /\ inbox[c] = {}
SenderIsOut ==
  \A c, d \in Copies : d \in inbox[c] => place[d] \in {"exiting", "gone"}
Early == {"refresh", "write", "mutex", "handoff"}
MissedIsOut == \A c \in missed : place[c] \in {"exiting", "gone"}
ClickIsNoted ==
  \A c, d \in Copies :
    place[c] \in Early /\ ~tray[c] => c \in waiting /\ (tray[d] => d \in asked)
MessageIsNoted ==
  \A c \in Copies : inbox[c] # {} /\ tray[c] => c \in asked
Asking ==
  /\ IdleIsBlank /\ SenderIsOut /\ MissedIsOut
  /\ ClickIsNoted /\ MessageIsNoted /\ WindowIsAskedFor

\* Beyond its mutex a copy that was not refused it holds it, and only one of
\* them did not find it held.  A refusal is forgotten with its copy.
Past == {"window", "first", "loop", "clearing", "leaving"}
HolderHolds ==
  \A c \in Copies : place[c] \in Past => c \in handles \cup denied
DeniedIsPast ==
  \A c \in Copies : place[c] \in Early \cup {"none"} => c \notin denied
Owning == HolderHolds /\ DeniedIsPast /\ OneRunner

\* What is turned on has a Run value; it is disabled only between the two writes
\* of an enabling or by accident, and what is turned off is enabled only so.
RunningHasExe ==
  \A c \in Copies : Running(c) => exe[c] # None
ChosenHasValue == chosen => run # None
OffIsOff == run # None /\ ~skip /\ ~chosen => overruled
OnIsOn == chosen /\ skip => overruled \/ \E c \in Copies : place[c] = "clearing"
Choosing == RunningHasExe /\ ChosenHasValue /\ OffIsOff /\ OnIsOn

LEMMA NextIsNew == ASSUME NEW c \in Copies, IsNext(c) PROVE place[c] = "none"
<1>1. c >= c
  BY DEF Copies
<1> QED
  BY <1>1 DEF IsNext

-----------------------------------------------------------------------------
(* Types.                                                                  *)

LEMMA TypeInit == Init => TypeOK
BY DEF Init, TypeOK, AutostartEnabled, Places

LEMMA TypeStep ==
  TypeOK /\ [Next]_vars => TypeOK'
<1> SUFFICES ASSUME TypeOK, [Next]_vars
             PROVE TypeOK'
  OBVIOUS
<1> USE DEF vars, queue, screen, mutex, registry, clicks,
         TypeOK, Places
<1>1. ASSUME NEW c \in Copies, Click(c) PROVE TypeOK'
  BY <1>1, NextIsNew DEF Click
<1>2. ASSUME NEW c \in Copies, Logon(c) PROVE TypeOK'
  BY <1>2, NextIsNew DEF Logon, AutostartEnabled
<1>3. ASSUME NEW c \in Copies, Kill(c) PROVE TypeOK'
  BY <1>3 DEF Kill, Vanish, Running, Unheard
<1>4. ASSUME NEW c \in Copies, RefreshRead(c) PROVE TypeOK'
  BY <1>4 DEF RefreshRead, NeedsRefresh
<1>5. ASSUME NEW c \in Copies, RefreshWrite(c) PROVE TypeOK'
  BY <1>5 DEF RefreshWrite
<1>6. ASSUME NEW c \in Copies, TakeMutex(c) PROVE TypeOK'
  BY <1>6 DEF TakeMutex
<1>7. ASSUME NEW c \in Copies, HandOff(c) PROVE TypeOK'
  BY <1>7 DEF HandOff, Asks, Hears, Windowed, Listening, Starting
<1>8. ASSUME NEW c \in Copies, CreateTheWindow(c) PROVE TypeOK'
  BY <1>8 DEF CreateTheWindow, Starting, Unheard
<1>9. ASSUME NEW c \in Copies, FirstShow(c) PROVE TypeOK'
  BY <1>9 DEF FirstShow, ShowWindowAgain, Unheard
<1>10. ASSUME NEW c \in Copies, LeaveLoop(c) PROVE TypeOK'
  BY <1>10 DEF LeaveLoop
<1>11. ASSUME NEW c \in Copies, Finish(c) PROVE TypeOK'
  BY <1>11 DEF Finish
<1>12. ASSUME NEW c \in Copies, End(c) PROVE TypeOK'
  BY <1>12 DEF End, Vanish
<1>13. ASSUME NEW c \in Copies, TrayIcon(c) PROVE TypeOK'
  BY <1>13 DEF TrayIcon, ShowWindowAgain, Stays
<1>14. ASSUME NEW c \in Copies, TrayMenuShow(c) PROVE TypeOK'
  BY <1>14 DEF TrayMenuShow, ShowWindowAgain, Hide, Stays
<1>15. ASSUME NEW c \in Copies, CloseWindow(c) PROVE TypeOK'
  BY <1>15 DEF CloseWindow, Hide, Stays
<1>16. ASSUME NEW c \in Copies, Exit(c) PROVE TypeOK'
  BY <1>16 DEF Exit, Stays
<1>22. ASSUME NEW c \in Copies, ClearDisable(c) PROVE TypeOK'
  BY <1>22 DEF ClearDisable, DisableIsCleared
<1>17. ASSUME NEW c \in Copies, TickBox(c) PROVE TypeOK'
  <2>1. CASE UNCHANGED <<registry, place>>
    BY <1>17, <2>1 DEF TickBox
  <2>2. CASE place' = [place EXCEPT ![c] = "clearing"]
    <3>1. place' \in [Copies -> Places]  BY <2>2
    <3>2. run' \in Paths \cup {None}  BY <1>17 DEF TickBox
    <3>4. chosen' \in BOOLEAN /\ overruled' \in BOOLEAN
      <4>1. CASE chosen' = TRUE /\ overruled' = FALSE  BY <4>1
      <4>2. CASE UNCHANGED registry  BY <4>2
      <4> QED  BY <1>17, <4>1, <4>2 DEF TickBox
    <3>3. UNCHANGED <<tray, exe, inbox, quit, visible, device, handles, skip, waiting,
                      missed, denied, asked>>
      BY <1>17 DEF TickBox
    <3> QED  BY <3>1, <3>2, <3>3, <3>4
  <2> QED  BY <1>17, <2>1, <2>2 DEF TickBox
<1>18. ASSUME NEW c \in Copies, UntickBox(c) PROVE TypeOK'
  BY <1>18 DEF UntickBox, AutostartEnabled, Stays
<1>19. ASSUME NEW c \in Copies, NEW from \in Copies, DispatchShow(c, from) PROVE TypeOK'
  BY <1>19 DEF DispatchShow, ShowWindowAgain, Stays
<1>20. CASE TaskManager
  BY <1>20 DEF TaskManager, Stays
<1>21. CASE UNCHANGED vars
  BY <1>21
<1> QED
  BY <1>1, <1>2, <1>3, <1>4, <1>5, <1>6, <1>7, <1>8, <1>9, <1>10,
     <1>11, <1>12, <1>13, <1>14, <1>15, <1>16, <1>17, <1>18, <1>19, <1>20, <1>21, <1>22
  DEF Next, Proceed, UserActs

-----------------------------------------------------------------------------
(* The window and who asked for it.                                        *)

LEMMA AskingInit == Init => Asking
BY DEF Init, Asking, IdleIsBlank, SenderIsOut, MissedIsOut, ClickIsNoted,
       MessageIsNoted, WindowIsAskedFor, Early

LEMMA AskingStep ==
  TypeOK /\ Asking /\ [Next]_vars => Asking'
<1> SUFFICES ASSUME TypeOK /\ Asking, [Next]_vars
             PROVE Asking'
  OBVIOUS
<1> USE DEF vars, queue, screen, mutex, registry, clicks,
         Asking, TypeOK, IdleIsBlank, SenderIsOut, MissedIsOut,
         ClickIsNoted, MessageIsNoted, WindowIsAskedFor, Early
<1>1. ASSUME NEW c \in Copies, Click(c) PROVE Asking'
  BY <1>1, NextIsNew DEF Click
<1>2. ASSUME NEW c \in Copies, Logon(c) PROVE Asking'
  BY <1>2, NextIsNew DEF Logon, AutostartEnabled
<1>3. ASSUME NEW c \in Copies, Kill(c) PROVE Asking'
  BY <1>3 DEF Kill, Vanish, Running, Unheard
<1>4. ASSUME NEW c \in Copies, RefreshRead(c) PROVE Asking'
  BY <1>4 DEF RefreshRead, NeedsRefresh
<1>5. ASSUME NEW c \in Copies, RefreshWrite(c) PROVE Asking'
  BY <1>5 DEF RefreshWrite
<1>6. ASSUME NEW c \in Copies, TakeMutex(c) PROVE Asking'
  BY <1>6 DEF TakeMutex
<1>7. ASSUME NEW c \in Copies, HandOff(c) PROVE Asking'
  BY <1>7 DEF HandOff, Asks, Hears, Windowed, Listening, Starting
<1>8. ASSUME NEW c \in Copies, CreateTheWindow(c) PROVE Asking'
  BY <1>8 DEF CreateTheWindow, Starting, Unheard
<1>9. ASSUME NEW c \in Copies, FirstShow(c) PROVE Asking'
  BY <1>9 DEF FirstShow, ShowWindowAgain, Unheard
<1>10. ASSUME NEW c \in Copies, LeaveLoop(c) PROVE Asking'
  BY <1>10 DEF LeaveLoop
<1>11. ASSUME NEW c \in Copies, Finish(c) PROVE Asking'
  BY <1>11 DEF Finish
<1>12. ASSUME NEW c \in Copies, End(c) PROVE Asking'
  BY <1>12 DEF End, Vanish
<1>13. ASSUME NEW c \in Copies, TrayIcon(c) PROVE Asking'
  BY <1>13 DEF TrayIcon, ShowWindowAgain, Stays
<1>14. ASSUME NEW c \in Copies, TrayMenuShow(c) PROVE Asking'
  BY <1>14 DEF TrayMenuShow, ShowWindowAgain, Hide, Stays
<1>15. ASSUME NEW c \in Copies, CloseWindow(c) PROVE Asking'
  BY <1>15 DEF CloseWindow, Hide, Stays
<1>16. ASSUME NEW c \in Copies, Exit(c) PROVE Asking'
  BY <1>16 DEF Exit, Stays
<1>22. ASSUME NEW c \in Copies, ClearDisable(c) PROVE Asking'
  BY <1>22 DEF ClearDisable, DisableIsCleared
<1>17. ASSUME NEW c \in Copies, TickBox(c) PROVE Asking'
  BY <1>17 DEF TickBox, AutostartEnabled
<1>18. ASSUME NEW c \in Copies, UntickBox(c) PROVE Asking'
  BY <1>18 DEF UntickBox, AutostartEnabled, Stays
<1>19. ASSUME NEW c \in Copies, NEW from \in Copies, DispatchShow(c, from) PROVE Asking'
  BY <1>19 DEF DispatchShow, ShowWindowAgain, Stays
<1>20. CASE TaskManager
  BY <1>20 DEF TaskManager, Stays
<1>21. CASE UNCHANGED vars
  BY <1>21
<1> QED
  BY <1>1, <1>2, <1>3, <1>4, <1>5, <1>6, <1>7, <1>8, <1>9, <1>10,
     <1>11, <1>12, <1>13, <1>14, <1>15, <1>16, <1>17, <1>18, <1>19, <1>20, <1>21, <1>22
  DEF Next, Proceed, UserActs

-----------------------------------------------------------------------------
(* The mutex.                                                              *)

LEMMA OwningInit == Init => Owning
BY DEF Init, Owning, HolderHolds, DeniedIsPast, OneRunner, Past, Early

LEMMA OwningStep ==
  TypeOK /\ Owning /\ [Next]_vars => Owning'
<1> SUFFICES ASSUME TypeOK /\ Owning, [Next]_vars
             PROVE Owning'
  OBVIOUS
<1> USE DEF vars, queue, screen, mutex, registry, clicks,
         Owning, TypeOK, HolderHolds, DeniedIsPast, OneRunner, Past, Early
<1>1. ASSUME NEW c \in Copies, Click(c) PROVE Owning'
  BY <1>1, NextIsNew DEF Click
<1>2. ASSUME NEW c \in Copies, Logon(c) PROVE Owning'
  BY <1>2, NextIsNew DEF Logon, AutostartEnabled
<1>3. ASSUME NEW c \in Copies, Kill(c) PROVE Owning'
  BY <1>3 DEF Kill, Vanish, Running, Unheard
<1>4. ASSUME NEW c \in Copies, RefreshRead(c) PROVE Owning'
  BY <1>4 DEF RefreshRead, NeedsRefresh
<1>5. ASSUME NEW c \in Copies, RefreshWrite(c) PROVE Owning'
  BY <1>5 DEF RefreshWrite
<1>6. ASSUME NEW c \in Copies, TakeMutex(c) PROVE Owning'
  BY <1>6 DEF TakeMutex
<1>7. ASSUME NEW c \in Copies, HandOff(c) PROVE Owning'
  BY <1>7 DEF HandOff, Asks, Hears, Windowed, Listening, Starting
<1>8. ASSUME NEW c \in Copies, CreateTheWindow(c) PROVE Owning'
  BY <1>8 DEF CreateTheWindow, Starting, Unheard
<1>9. ASSUME NEW c \in Copies, FirstShow(c) PROVE Owning'
  BY <1>9 DEF FirstShow, ShowWindowAgain, Unheard
<1>10. ASSUME NEW c \in Copies, LeaveLoop(c) PROVE Owning'
  BY <1>10 DEF LeaveLoop
<1>11. ASSUME NEW c \in Copies, Finish(c) PROVE Owning'
  BY <1>11 DEF Finish
<1>12. ASSUME NEW c \in Copies, End(c) PROVE Owning'
  BY <1>12 DEF End, Vanish
<1>13. ASSUME NEW c \in Copies, TrayIcon(c) PROVE Owning'
  BY <1>13 DEF TrayIcon, ShowWindowAgain, Stays
<1>14. ASSUME NEW c \in Copies, TrayMenuShow(c) PROVE Owning'
  BY <1>14 DEF TrayMenuShow, ShowWindowAgain, Hide, Stays
<1>15. ASSUME NEW c \in Copies, CloseWindow(c) PROVE Owning'
  BY <1>15 DEF CloseWindow, Hide, Stays
<1>16. ASSUME NEW c \in Copies, Exit(c) PROVE Owning'
  BY <1>16 DEF Exit, Stays
<1>22. ASSUME NEW c \in Copies, ClearDisable(c) PROVE Owning'
  BY <1>22 DEF ClearDisable, DisableIsCleared
<1>17. ASSUME NEW c \in Copies, TickBox(c) PROVE Owning'
  BY <1>17 DEF TickBox, AutostartEnabled
<1>18. ASSUME NEW c \in Copies, UntickBox(c) PROVE Owning'
  BY <1>18 DEF UntickBox, AutostartEnabled, Stays
<1>19. ASSUME NEW c \in Copies, NEW from \in Copies, DispatchShow(c, from) PROVE Owning'
  BY <1>19 DEF DispatchShow, ShowWindowAgain, Stays
<1>20. CASE TaskManager
  BY <1>20 DEF TaskManager, Stays
<1>21. CASE UNCHANGED vars
  BY <1>21
<1> QED
  BY <1>1, <1>2, <1>3, <1>4, <1>5, <1>6, <1>7, <1>8, <1>9, <1>10,
     <1>11, <1>12, <1>13, <1>14, <1>15, <1>16, <1>17, <1>18, <1>19, <1>20, <1>21, <1>22
  DEF Next, Proceed, UserActs

-----------------------------------------------------------------------------
(* Autostart.                                                              *)

LEMMA ChoosingInit == Init => Choosing
BY DEF Init, Choosing, RunningHasExe, ChosenHasValue, OffIsOff, OnIsOn,
       Running, AutostartEnabled

LEMMA ChoosingStep ==
  TypeOK /\ Choosing /\ [Next]_vars => Choosing'
<1> SUFFICES ASSUME TypeOK /\ Choosing, [Next]_vars
             PROVE Choosing'
  OBVIOUS
<1> USE DEF vars, queue, screen, mutex, registry, clicks,
         Choosing, TypeOK, RunningHasExe, ChosenHasValue, OffIsOff, OnIsOn,
         Running, AutostartEnabled
<1>1. ASSUME NEW c \in Copies, Click(c) PROVE Choosing'
  BY <1>1, NextIsNew DEF Click
<1>2. ASSUME NEW c \in Copies, Logon(c) PROVE Choosing'
  BY <1>2, NextIsNew DEF Logon
<1>3. ASSUME NEW c \in Copies, Kill(c) PROVE Choosing'
  BY <1>3 DEF Kill, Vanish, Unheard
<1>4. ASSUME NEW c \in Copies, RefreshRead(c) PROVE Choosing'
  BY <1>4 DEF RefreshRead, NeedsRefresh
<1>5. ASSUME NEW c \in Copies, RefreshWrite(c) PROVE Choosing'
  BY <1>5 DEF RefreshWrite
<1>6. ASSUME NEW c \in Copies, TakeMutex(c) PROVE Choosing'
  BY <1>6 DEF TakeMutex
<1>7. ASSUME NEW c \in Copies, HandOff(c) PROVE Choosing'
  BY <1>7 DEF HandOff, Asks, Hears, Windowed, Listening, Starting
<1>8. ASSUME NEW c \in Copies, CreateTheWindow(c) PROVE Choosing'
  BY <1>8 DEF CreateTheWindow, Starting, Unheard
<1>9. ASSUME NEW c \in Copies, FirstShow(c) PROVE Choosing'
  BY <1>9 DEF FirstShow, ShowWindowAgain, Unheard
<1>10. ASSUME NEW c \in Copies, LeaveLoop(c) PROVE Choosing'
  BY <1>10 DEF LeaveLoop
<1>11. ASSUME NEW c \in Copies, Finish(c) PROVE Choosing'
  BY <1>11 DEF Finish
<1>12. ASSUME NEW c \in Copies, End(c) PROVE Choosing'
  BY <1>12 DEF End, Vanish
<1>13. ASSUME NEW c \in Copies, TrayIcon(c) PROVE Choosing'
  BY <1>13 DEF TrayIcon, ShowWindowAgain, Stays
<1>14. ASSUME NEW c \in Copies, TrayMenuShow(c) PROVE Choosing'
  BY <1>14 DEF TrayMenuShow, ShowWindowAgain, Hide, Stays
<1>15. ASSUME NEW c \in Copies, CloseWindow(c) PROVE Choosing'
  BY <1>15 DEF CloseWindow, Hide, Stays
<1>16. ASSUME NEW c \in Copies, Exit(c) PROVE Choosing'
  BY <1>16 DEF Exit, Stays
<1>22. ASSUME NEW c \in Copies, ClearDisable(c) PROVE Choosing'
  <2>1. /\ UNCHANGED <<exe, run, chosen>>
        /\ place[c] = "clearing" /\ place' = [place EXCEPT ![c] = "loop"]
    BY <1>22 DEF ClearDisable
  <2>2. /\ skip' = skip \/ skip' = FALSE
        /\ overruled' = (overruled \/ (skip /\ chosen = skip'))
    BY <1>22 DEF ClearDisable, DisableIsCleared
  <2>3. RunningHasExe' /\ ChosenHasValue'
    BY <2>1
  <2>4. OffIsOff'
    BY <2>1, <2>2
  <2>5. OnIsOn'
    <3>1. SUFFICES ASSUME chosen, skip' PROVE overruled'
      BY <2>1
    <3> QED  BY <2>2, <3>1
  <2> QED  BY <2>3, <2>4, <2>5
<1>17. ASSUME NEW c \in Copies, TickBox(c) PROVE Choosing'
  BY <1>17 DEF TickBox
<1>18. ASSUME NEW c \in Copies, UntickBox(c) PROVE Choosing'
  BY <1>18 DEF UntickBox, Stays
<1>19. ASSUME NEW c \in Copies, NEW from \in Copies, DispatchShow(c, from) PROVE Choosing'
  BY <1>19 DEF DispatchShow, ShowWindowAgain, Stays
<1>20. CASE TaskManager
  BY <1>20 DEF TaskManager, Stays
<1>21. CASE UNCHANGED vars
  BY <1>21
<1> QED
  BY <1>1, <1>2, <1>3, <1>4, <1>5, <1>6, <1>7, <1>8, <1>9, <1>10,
     <1>11, <1>12, <1>13, <1>14, <1>15, <1>16, <1>17, <1>18, <1>19, <1>20, <1>21, <1>22
  DEF Next, Proceed, UserActs

-----------------------------------------------------------------------------
(* The theorems.                                                           *)

\* Every variable keeps its type, whatever the failures that may happen.
THEOREM TypeCorrect == Spec => []TypeOK
BY TypeInit, TypeStep, PTL DEF Spec

\* However many copies are started, leave and die in whatever order, one at most
\* of those that were not refused the mutex is between its mutex and the end of
\* its process (main.cpp:495-506).
THEOREM OneRuns == Spec => []OneRunner
<1> DEFINE OInv == TypeOK /\ Owning
<1>1. Init => OInv
  BY TypeInit, OwningInit
<1>2. OInv /\ [Next]_vars => OInv'
  BY TypeStep, OwningStep
<1>3. OInv => OneRunner
  BY DEF Owning
<1> QED
  BY <1>1, <1>2, <1>3, PTL DEF Spec

\* No window opens that nobody asked for, and none without a device to draw
\* with (main.cpp:129-162, 502-505, 556), whatever fails.
THEOREM WindowAskedFor == Spec => []WindowIsAskedFor
<1> DEFINE AInv == TypeOK /\ Asking
<1>1. Init => AInv
  BY TypeInit, AskingInit
<1>2. AInv /\ [Next]_vars => AInv'
  BY TypeStep, AskingStep
<1>3. AInv => WindowIsAskedFor
  BY DEF Asking
<1> QED
  BY <1>1, <1>2, <1>3, PTL DEF Spec

\* Autostart is what the user last chose (autostart.cpp:75-161), for any number
\* of copies and folders, whatever is killed, refused or raced, but for the
\* accidents EnabledAsChosen names.
THEOREM AutostartAsChosen == Spec => []EnabledAsChosen
<1> DEFINE CInv == TypeOK /\ Choosing
<1>1. Init => CInv
  BY TypeInit, ChoosingInit
<1>2. CInv /\ [Next]_vars => CInv'
  BY TypeStep, ChoosingStep
<1>3. CInv => EnabledAsChosen
  BY DEF Choosing, ChosenHasValue, OffIsOff, OnIsOn, EnabledAsChosen,
         AutostartEnabled, TypeOK
<1> QED
  BY <1>1, <1>2, <1>3, PTL DEF Spec

-----------------------------------------------------------------------------
(* Clicks, and how long a copy takes.                                      *)

\* A click that is owed an answer is with the copy it started, until that copy
\* shows its window, or in the queue of one that will look at it; or it was
\* posted while a copy somebody clicked was starting, whose window will do.
OnItsWay(c) ==
  \/ place[c] \in {"refresh", "write", "mutex", "handoff", "window", "first"}
  \/ \E d \in Copies : Listening(d) /\ c \in inbox[d]
  \/ /\ place[c] \in {"exiting", "gone"}
     /\ \E d \in Copies : place[d] \in {"window", "first"} /\ ~tray[d]
ClicksOnTheirWay ==
  \A c \in waiting : ~tray[c] /\ (OnItsWay(c) \/ c \in missed)

LEMMA ClicksStep ==
  TypeOK /\ Asking /\ ClicksOnTheirWay /\ [Next]_vars => ClicksOnTheirWay'
<1> SUFFICES ASSUME TypeOK, Asking, ClicksOnTheirWay, [Next]_vars
             PROVE ClicksOnTheirWay'
  OBVIOUS
<1> USE DEF vars, queue, screen, mutex, registry, clicks, TypeOK, Asking, IdleIsBlank,
         SenderIsOut, MissedIsOut, ClicksOnTheirWay, OnItsWay, Listening
<1>1. ASSUME NEW c \in Copies, Click(c) PROVE ClicksOnTheirWay'
  BY <1>1, NextIsNew DEF Click
<1>2. ASSUME NEW c \in Copies, Logon(c) PROVE ClicksOnTheirWay'
  BY <1>2, NextIsNew DEF Logon
<1>3. ASSUME NEW c \in Copies, Kill(c) PROVE ClicksOnTheirWay'
  BY <1>3 DEF Kill, Vanish, Running, Unheard
<1>4. ASSUME NEW c \in Copies, RefreshRead(c) PROVE ClicksOnTheirWay'
  BY <1>4 DEF RefreshRead, NeedsRefresh
<1>5. ASSUME NEW c \in Copies, RefreshWrite(c) PROVE ClicksOnTheirWay'
  BY <1>5 DEF RefreshWrite
<1>6. ASSUME NEW c \in Copies, TakeMutex(c) PROVE ClicksOnTheirWay'
  BY <1>6 DEF TakeMutex
<1>7. ASSUME NEW c \in Copies, HandOff(c) PROVE ClicksOnTheirWay'
  BY <1>7 DEF HandOff, Asks, Hears, Windowed, Starting
<1>8. ASSUME NEW c \in Copies, CreateTheWindow(c) PROVE ClicksOnTheirWay'
  BY <1>8 DEF CreateTheWindow, Starting, Unheard
<1>9. ASSUME NEW c \in Copies, FirstShow(c) PROVE ClicksOnTheirWay'
  BY <1>9 DEF FirstShow, Unheard
<1>10. ASSUME NEW c \in Copies, LeaveLoop(c) PROVE ClicksOnTheirWay'
  BY <1>10 DEF LeaveLoop
<1>11. ASSUME NEW c \in Copies, Finish(c) PROVE ClicksOnTheirWay'
  BY <1>11 DEF Finish
<1>12. ASSUME NEW c \in Copies, End(c) PROVE ClicksOnTheirWay'
  BY <1>12 DEF End, Vanish
<1>13. ASSUME NEW c \in Copies, TrayIcon(c) PROVE ClicksOnTheirWay'
  BY <1>13 DEF TrayIcon, Stays
<1>14. ASSUME NEW c \in Copies, TrayMenuShow(c) PROVE ClicksOnTheirWay'
  BY <1>14 DEF TrayMenuShow, Stays
<1>15. ASSUME NEW c \in Copies, CloseWindow(c) PROVE ClicksOnTheirWay'
  BY <1>15 DEF CloseWindow, Stays
<1>16. ASSUME NEW c \in Copies, Exit(c) PROVE ClicksOnTheirWay'
  BY <1>16 DEF Exit, Stays
<1>22. ASSUME NEW c \in Copies, ClearDisable(c) PROVE ClicksOnTheirWay'
  BY <1>22 DEF ClearDisable, DisableIsCleared
<1>17. ASSUME NEW c \in Copies, TickBox(c) PROVE ClicksOnTheirWay'
  BY <1>17 DEF TickBox
<1>18. ASSUME NEW c \in Copies, UntickBox(c) PROVE ClicksOnTheirWay'
  BY <1>18 DEF UntickBox, Stays
<1>19. ASSUME NEW c \in Copies, NEW from \in Copies, DispatchShow(c, from)
       PROVE ClicksOnTheirWay'
  BY <1>19 DEF DispatchShow, Stays
<1>20. CASE TaskManager
  BY <1>20 DEF TaskManager, Stays
<1>21. CASE UNCHANGED vars
  BY <1>21
<1> QED
  BY <1>1, <1>2, <1>3, <1>4, <1>5, <1>6, <1>7, <1>8, <1>9, <1>10,
     <1>11, <1>12, <1>13, <1>14, <1>15, <1>16, <1>17, <1>18, <1>19, <1>20, <1>21, <1>22
  DEF Next, Proceed, UserActs

\* No click is lost between two copies (main.cpp:497-506) but those that meet
\* nothing but the start of a copy Windows started: while one is owed an answer,
\* the copy it started is on its way to its own window, or its message waits in
\* the queue of a copy that has not left its loop, or a copy somebody clicked is
\* about to show its window, although any of them may leave or die between the
\* search for the mutex and the broadcast.
THEOREM NoClickIsLost == Spec => []ClicksOnTheirWay
<1>1. Init => Asking /\ ClicksOnTheirWay
  BY AskingInit DEF Init, ClicksOnTheirWay
<1>2. TypeOK /\ Asking /\ ClicksOnTheirWay /\ [Next]_vars
        => Asking' /\ ClicksOnTheirWay'
  BY AskingStep, ClicksStep
<1> QED
  BY <1>1, <1>2, TypeCorrect, PTL DEF Spec

\* The steps a copy has left from its start to its end, its messages aside.
StepsLeft(c) ==
  CASE place[c] = "refresh" -> 9
    [] place[c] = "write" -> 8
    [] place[c] = "mutex" -> 7
    [] place[c] = "handoff" -> 6
    [] place[c] = "window" -> 6
    [] place[c] = "first" -> 5
    [] place[c] = "clearing" -> 4
    [] place[c] = "loop" -> 3
    [] place[c] = "leaving" -> 2
    [] place[c] = "exiting" -> 1
    [] place[c] = "none" -> 0
    [] place[c] = "gone" -> 0

AnswersOne(c) ==
  \E from \in inbox[c] :
    inbox'[c] = inbox[c] \ {from} /\ place'[c] = place[c] /\ from \notin waiting'

\* Somebody starts it, kills it or ticks the box in its window.
MovedByUser(c) == place[c] = "none" \/ Kill(c) \/ TickBox(c)

\* A step a copy takes by itself brings it nearer its end or answers a message;
\* and nobody moves it but itself, who starts it, who kills it and who ticks
\* the box in its window.
LifeIsBounded ==
  [][\A c \in Copies :
       IF Proceed(c)
       THEN StepsLeft(c)' < StepsLeft(c) \/ AnswersOne(c)
       ELSE place'[c] = place[c] \/ MovedByUser(c)]_vars

LEMMA StepsAreBounded ==
  ASSUME TypeOK, NEW c \in Copies
  PROVE  StepsLeft(c) \in 0..9
<1>1. place[c] \in Places  BY DEF TypeOK
<1>2. QED  BY <1>1 DEF Places, StepsLeft

\* A step of a copy leaves the others where they are.
LEMMA ProceedUsesSteps ==
  ASSUME TypeOK, NEW c \in Copies, Proceed(c)
  PROVE  /\ StepsLeft(c)' < StepsLeft(c) \/ AnswersOne(c)
         /\ \A d \in Copies : d # c => place'[d] = place[d]
<1> USE DEF TypeOK, StepsLeft
<1>1. CASE RefreshRead(c)  BY <1>1 DEF RefreshRead
<1>2. CASE RefreshWrite(c)  BY <1>2 DEF RefreshWrite
<1>3. CASE TakeMutex(c)  BY <1>3 DEF TakeMutex
<1>4. CASE HandOff(c)  BY <1>4 DEF HandOff
<1>5. CASE CreateTheWindow(c)  BY <1>5 DEF CreateTheWindow, Starting, Unheard
<1>6. CASE FirstShow(c)  BY <1>6 DEF FirstShow
<1>7. CASE LeaveLoop(c)  BY <1>7 DEF LeaveLoop
<1>8. CASE Finish(c)  BY <1>8 DEF Finish
<1>9. CASE End(c)  BY <1>9 DEF End, Vanish
<1>11. CASE ClearDisable(c)  BY <1>11 DEF ClearDisable
<1>10. ASSUME NEW from \in Copies, DispatchShow(c, from)
       PROVE AnswersOne(c) /\ place' = place
  BY <1>10 DEF DispatchShow, Stays, AnswersOne
<1> QED
  BY <1>1, <1>2, <1>3, <1>4, <1>5, <1>6, <1>7, <1>8, <1>9, <1>10,
     <1>11 DEF Proceed

LEMMA NobodyElseMoves ==
  ASSUME TypeOK, [Next]_vars, NEW c \in Copies, ~Proceed(c)
  PROVE  place'[c] = place[c] \/ MovedByUser(c)
<1>1. ASSUME NEW d \in Copies, Proceed(d) PROVE place'[c] = place[c]
  BY <1>1, ProceedUsesSteps
<1>2. ASSUME NEW d \in Copies, UserActs(d) \/ Logon(d)
      PROVE place'[c] = place[c] \/ place[c] = "none" \/ TickBox(c)
  <2>1. CASE Click(d)  BY <2>1, NextIsNew DEF Click, TypeOK
  <2>2. CASE Logon(d)  BY <2>2, NextIsNew DEF Logon, TypeOK
  <2>3. CASE TickBox(d)  BY <2>3 DEF TickBox, TypeOK
  <2>4. CASE ~Click(d) /\ ~Logon(d) /\ ~TickBox(d)
    BY <1>2, <2>4 DEF UserActs, TrayIcon, TrayMenuShow, CloseWindow, Exit,
       UntickBox, Stays
  <2> QED  BY <2>1, <2>2, <2>3, <2>4
<1>3. ASSUME NEW d \in Copies, Kill(d) PROVE place'[c] = place[c] \/ Kill(c)
  BY <1>3 DEF Kill, Vanish, TypeOK
<1>4. CASE TaskManager \/ UNCHANGED vars
  BY <1>4 DEF TaskManager, Stays, vars
<1> QED
  BY <1>1, <1>2, <1>3, <1>4 DEF Next, MovedByUser

\* A copy gets from its start to its window, or to the box that says why there
\* is none, in a fixed number of its own steps, and each further one answers a
\* message in its queue or takes it nearer its end: no copy turns in circles
\* with a click in its hands, whatever the other copies do.
THEOREM BoundedLives ==
  Spec => [](\A c \in Copies : StepsLeft(c) \in 0..9) /\ LifeIsBounded
<1>1. TypeOK => \A c \in Copies : StepsLeft(c) \in 0..9
  BY StepsAreBounded
<1>2. TypeOK /\ [Next]_vars =>
        [\A c \in Copies :
           IF Proceed(c)
           THEN StepsLeft(c)' < StepsLeft(c) \/ AnswersOne(c)
           ELSE place'[c] = place[c] \/ MovedByUser(c)]_vars
  BY ProceedUsesSteps, NobodyElseMoves
<1> QED
  BY <1>1, <1>2, TypeCorrect, PTL DEF Spec, LifeIsBounded

=============================================================================
