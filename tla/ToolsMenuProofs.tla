-------------------------- MODULE ToolsMenuProofs --------------------------
(***************************************************************************)
(* Proofs about ToolsMenu for any heap, which may put a menu anywhere:     *)
(* what the module put into the game and did not report as failed it knows *)
(* it has to undo; it removes no menu of somebody else that it could tell  *)
(* from its own; and its answers are true.                                 *)
(***************************************************************************)
EXTENDS ToolsMenu, TLAPS

USE MenuAssumption DEF MenuAssumption
USE DEF slotVars, ownVars, statusVars, Worlds, Makers, Calls, PutMenu, PutGate,
        TakeMenu, TakeGate, KeepMenu, KeepGate, ByTheGame, Record, Follow,
        DuringCall

Command == \E enable \in BOOLEAN : SetToolsMenu(enable)

\* What the first step of a call does to the ownership.
Outcome ==
  \/ \E s \in Statuses : Refuse(s)
  \/ \E s \in Statuses : Answer(s)
  \/ ~MenuIsUp /\ GoOn("enable")
  \/ ~MenuIsForeign /\ GoOn("disable")

LEMMA CommandOutcome ==
  ASSUME Command
  PROVE  /\ Outcome
         /\ call = "idle"
         /\ UNCHANGED <<world, bindings, slotVars, configured>>
  BY DEF Command, SetToolsMenu, Enable, Disable, Outcome, Statuses

LEMMA NextCases ==
  ASSUME [Next]_vars
  PROVE  Game \/ Configure \/ Command \/ CallGoesOn \/ UNCHANGED vars
<1>1. Hotkey => Command  BY DEF Hotkey, Command, Owned
<1>2. QED  BY <1>1 DEF Next, QueuedCommand, Command

-----------------------------------------------------------------------------
(* Types.                                                                  *)

LEMMA TypeOKInit == Init => TypeOK
  BY DEF Init, TypeOK, Statuses

LEMMA TypeOKGame ==
  ASSUME TypeOK, Game
  PROVE  TypeOK'
<1> USE DEF TypeOK
<1>1. CASE LoadWorld  BY <1>1 DEF LoadWorld
<1>2. CASE TearDownWorld  BY <1>2 DEF TearDownWorld
<1>3. CASE ScriptEnables  BY <1>3 DEF ScriptEnables
<1>4. CASE ScriptDisables  BY <1>4 DEF ScriptDisables
<1>5. CASE ForeignGate  BY <1>5 DEF ForeignGate
<1>6. CASE ChangeBindings  BY <1>6 DEF ChangeBindings
<1>7. QED  BY <1>1, <1>2, <1>3, <1>4, <1>5, <1>6 DEF Game

LEMMA TypeOKCommand ==
  ASSUME TypeOK, Command
  PROVE  TypeOK'
<1> USE DEF TypeOK, StillCreated
<1> DEFINE Own == createdMenu' \in Addresses \cup {NoMenu}
           Told == lastCommand' \in Statuses
           Flags == gateSet' \in BOOLEAN /\ menuOn' \in BOOLEAN
           At == call' \in Calls
<1>1. \A s \in Statuses : Refuse(s) => Own /\ Told /\ Flags /\ At
  BY DEF Refuse
<1>2. \A s \in Statuses : Answer(s) => Own /\ Told /\ Flags /\ At
  BY DEF Answer, StillGateSet
<1>3. \A c \in Calls : GoOn(c) => Own /\ Told /\ Flags /\ At
  BY DEF GoOn, StillGateSet
<1>4. Own /\ Told /\ Flags /\ At
  BY <1>1, <1>2, <1>3, CommandOutcome, Zenon DEF Outcome
<1>5. UNCHANGED <<world, bindings, slotVars, configured>>  BY CommandOutcome
<1>6. QED  BY <1>4, <1>5, Zenon

LEMMA TypeOKCall ==
  ASSUME TypeOK, CallGoesOn
  PROVE  TypeOK'
<1> USE DEF TypeOK, Statuses
<1>1. CASE EnableReturns  BY <1>1 DEF EnableReturns, EnableEffect
<1>2. CASE EnableFaults  BY <1>2 DEF EnableFaults, EnableEffect
<1>3. CASE EnableSucceeds  BY <1>3 DEF EnableSucceeds
<1>4. CASE EnableFails
  <2>1. gateSet' \in BOOLEAN  BY <1>4 DEF EnableFails, GateToUndo
  <2>2. menuOn' \in BOOLEAN  BY <1>4 DEF EnableFails
  <2>3. QED  BY <1>4, <2>1, <2>2 DEF EnableFails
<1>5. CASE DisableReturns  BY <1>5 DEF DisableReturns, DisableEffect
<1>6. CASE DisableFaults  BY <1>6 DEF DisableFaults, DisableEffect
<1>7. CASE DisableSucceeds  BY <1>7 DEF DisableSucceeds
<1>8. CASE DisableFails  BY <1>8 DEF DisableFails
<1>9. QED
  BY <1>1, <1>2, <1>3, <1>4, <1>5, <1>6, <1>7, <1>8 DEF CallGoesOn

\* The slot, the gate and the memory of the module keep their types through
\* every game, every refusal and every binding that raises.
THEOREM TypeCorrect == Spec => []TypeOK
<1>1. TypeOK /\ [Next]_vars => TypeOK'
  <2>1. ASSUME TypeOK, Configure PROVE TypeOK'
    <3>1. configured' \in BOOLEAN  BY <2>1 DEF Configure
    <3>2. QED  BY <2>1, <3>1 DEF TypeOK, Configure
  <2>2. ASSUME TypeOK, UNCHANGED vars PROVE TypeOK'
    BY <2>2 DEF TypeOK, vars
  <2>3. QED  BY <2>1, <2>2, TypeOKGame, TypeOKCommand, TypeOKCall, NextCases
<1>2. QED  BY <1>1, TypeOKInit, PTL DEF Spec

-----------------------------------------------------------------------------
(* Where the menu and the gate come from, and what is remembered of it.    *)

\* A byte that is clear was set by nobody, and an empty slot has no maker.
ClearIsNobodys == gate = 0 => gateBy = "nobody"
SlotHasMaker == menu = NoMenu <=> menuBy = "nobody"

\* An enable call found the slot empty, so what is in it now came later.
EnableFoundNothing ==
  call \in {"enable", "enabled"} => createdMenu = NoMenu

NotOursYet ==
  call = "enable" => menuBy # "module"

OwnInv ==
  /\ OwnsWhatItMade
  /\ ClearIsNobodys
  /\ SlotHasMaker
  /\ EnableFoundNothing
  /\ NotOursYet

LEMMA OwnInvInit == Init => OwnInv
  BY DEF Init, OwnInv, OwnsWhatItMade, ClearIsNobodys, SlotHasMaker,
     EnableFoundNothing, NotOursYet

LEMMA OwnInvGame ==
  ASSUME OwnInv, Game
  PROVE  OwnInv'
<1> USE DEF OwnInv, OwnsWhatItMade, ClearIsNobodys, SlotHasMaker,
            EnableFoundNothing, NotOursYet
<1>1. CASE LoadWorld  BY <1>1 DEF LoadWorld
<1>2. CASE TearDownWorld  BY <1>2 DEF TearDownWorld
<1>3. CASE ScriptEnables  BY <1>3 DEF ScriptEnables
<1>4. CASE ScriptDisables  BY <1>4 DEF ScriptDisables
<1>5. CASE ForeignGate  BY <1>5 DEF ForeignGate
<1>6. CASE ChangeBindings  BY <1>6 DEF ChangeBindings
<1>7. QED  BY <1>1, <1>2, <1>3, <1>4, <1>5, <1>6 DEF Game

LEMMA OwnInvCommand ==
  ASSUME OwnInv, Command
  PROVE  OwnInv'
<1> USE CommandOutcome
    DEF OwnInv, OwnsWhatItMade, ClearIsNobodys, SlotHasMaker,
        EnableFoundNothing, NotOursYet, StillCreated, StillGateSet
<1>1. ASSUME NEW s \in Statuses, Refuse(s) PROVE OwnInv'
  BY <1>1 DEF Refuse
<1>2. ASSUME NEW s \in Statuses, Answer(s) PROVE OwnInv'
  BY <1>2 DEF Answer
<1>3. CASE ~MenuIsUp /\ GoOn("enable")
  BY <1>3 DEF GoOn, MenuIsUp
<1>4. CASE GoOn("disable")
  BY <1>4 DEF GoOn
<1>5. QED  BY <1>1, <1>2, <1>3, <1>4 DEF Outcome

LEMMA OwnInvCall ==
  ASSUME TypeOK, OwnInv, CallGoesOn
  PROVE  OwnInv'
<1> USE DEF OwnInv, OwnsWhatItMade, ClearIsNobodys, SlotHasMaker,
            EnableFoundNothing, NotOursYet
<1>1. CASE EnableReturns  BY <1>1 DEF EnableReturns, EnableEffect
<1>2. CASE EnableFaults  BY <1>2 DEF EnableFaults, EnableEffect
<1>3. CASE EnableSucceeds  BY <1>3 DEF EnableSucceeds
<1>4. CASE EnableFails  BY <1>4 DEF EnableFails, GateToUndo
<1>5. CASE DisableReturns  BY <1>5 DEF DisableReturns, DisableEffect
<1>6. CASE DisableFaults  BY <1>6 DEF DisableFaults, DisableEffect
<1>7. CASE DisableSucceeds  BY <1>7 DEF DisableSucceeds
<1>8. CASE DisableFails  BY <1>8 DEF DisableFails
<1>9. QED
  BY <1>1, <1>2, <1>3, <1>4, <1>5, <1>6, <1>7, <1>8 DEF CallGoesOn

LEMMA OwnInvStep ==
  ASSUME TypeOK, OwnInv, [Next]_vars
  PROVE  OwnInv'
<1> USE DEF OwnInv, OwnsWhatItMade, ClearIsNobodys, SlotHasMaker,
            EnableFoundNothing, NotOursYet
<1>1. CASE Configure  BY <1>1 DEF Configure
<1>2. CASE UNCHANGED vars  BY <1>2 DEF vars
<1>3. QED  BY <1>1, <1>2, OwnInvGame, OwnInvCommand, OwnInvCall, NextCases

\* A menu in the slot that this module raised is the one it remembers, and a
\* gate it set is one it remembers, in every world, across map reloads, level
\* scripts and failed calls, unless the call that made them told its caller
\* that it had failed.
THEOREM Ownership == Spec => []OwnsWhatItMade
<1>1. OwnInv => OwnsWhatItMade  BY DEF OwnInv
<1>2. QED  BY <1>1, OwnInvInit, OwnInvStep, TypeCorrect, PTL DEF Spec

-----------------------------------------------------------------------------
\* A menu the game raised between two calls never has the address that is
\* remembered as ours, and no call is on its way that would touch it.
ForeignIsElsewhere ==
  menuBy = "game" => call = "idle" /\ menu # NoMenu /\ menu # createdMenu

LEMMA ForeignInvStep ==
  ASSUME ForeignIsElsewhere, [Next]_vars
  PROVE  ForeignIsElsewhere'
<1> USE DEF ForeignIsElsewhere
<1>1. CASE Game
  BY <1>1 DEF Game, LoadWorld, TearDownWorld, ScriptEnables, ScriptDisables,
     ForeignGate, ChangeBindings
<1>2. CASE Configure  BY <1>2 DEF Configure
<1>3. CASE Command
  <2> USE CommandOutcome DEF StillCreated
  <2>1. ASSUME NEW s \in Statuses, Refuse(s) PROVE ForeignIsElsewhere'
    BY <1>3, <2>1 DEF Refuse
  <2>2. ASSUME NEW s \in Statuses, Answer(s) PROVE ForeignIsElsewhere'
    BY <1>3, <2>2 DEF Answer
  <2>3. CASE ~MenuIsUp /\ GoOn("enable")
    BY <1>3, <2>3 DEF GoOn, MenuIsUp
  <2>4. CASE ~MenuIsForeign /\ GoOn("disable")
    BY <1>3, <2>4 DEF GoOn, MenuIsForeign
  <2>5. QED  BY <1>3, <2>1, <2>2, <2>3, <2>4 DEF Outcome
<1>4. CASE CallGoesOn
  BY <1>4 DEF CallGoesOn, EnableReturns, EnableFaults, EnableSucceeds,
     EnableFails, DisableReturns, DisableFaults, DisableSucceeds, DisableFails,
     EnableEffect, DisableEffect
<1>5. CASE UNCHANGED vars  BY <1>5 DEF vars
<1>6. QED  BY <1>1, <1>2, <1>3, <1>4, <1>5, NextCases

LEMMA ForeignMenuStays ==
  ASSUME ForeignIsElsewhere, Command \/ CallGoesOn, menuBy = "game"
  PROVE  UNCHANGED <<menu, menuBy>>
<1>1. ~CallGoesOn
  BY DEF ForeignIsElsewhere, CallGoesOn, EnableReturns, EnableFaults,
     EnableSucceeds, EnableFails, DisableReturns, DisableFaults,
     DisableSucceeds, DisableFails
<1>2. QED  BY <1>1, CommandOutcome

\* No call, from the queue or the hotkey, removes or replaces a menu the game
\* raised while no call was on its way and at another address than the one the
\* module remembers, wherever the heap puts menus and whatever happened before.
THEOREM ForeignSafety == Spec => ForeignMenuIsLeftAlone
<1>1. ForeignIsElsewhere /\ [Next]_vars =>
        [(QueuedCommand \/ Hotkey \/ CallGoesOn) /\ menuBy = "game"
         => UNCHANGED <<menu, menuBy>>]_vars
  BY ForeignMenuStays DEF QueuedCommand, Hotkey, Command, Owned
<1>2. Init => ForeignIsElsewhere  BY DEF Init, ForeignIsElsewhere
<1>3. QED
  BY <1>1, <1>2, ForeignInvStep, PTL DEF Spec, ForeignMenuIsLeftAlone
-----------------------------------------------------------------------------
\* A menu the module raised is never foreign to it.
LEMMA OwnIsNotForeign ==
  ASSUME OwnInv, call = "idle", menuBy = "module"
  PROVE  StillOwned /\ ~MenuIsForeign
  BY DEF OwnInv, OwnsWhatItMade, SlotHasMaker, StillOwned, StillCreated,
     MenuIsForeign

\* Every call records its answer, so an answer says which way the call went.
LEMMA OffAnsweredOk ==
  ASSUME SetToolsMenu(FALSE) \/ DisableSucceeds, call' = "idle",
         lastCommand' = "Ok"
  PROVE  menu' = NoMenu
<1>1. CASE DisableSucceeds  BY <1>1 DEF DisableSucceeds
<1>2. CASE SetToolsMenu(FALSE)
  BY <1>2 DEF SetToolsMenu, Refuse, Disable, Answer, GoOn, MenuIsForeign
<1>3. QED  BY <1>1, <1>2

LEMMA CalledForeign ==
  ASSUME NEW enable \in BOOLEAN, SetToolsMenu(enable), call' = "idle",
         lastCommand' = "MenuForeign"
  PROVE  MenuIsForeign /\ UNCHANGED slotVars /\ call = "idle"
<1>1. ~Enable  BY DEF Enable, Answer, GoOn
<1>2. QED  BY <1>1 DEF SetToolsMenu, Refuse, Disable, Answer, GoOn

LEMMA AnswersStep ==
  ASSUME OwnInv
  PROVE  /\ (SetToolsMenu(FALSE) \/ DisableSucceeds) /\ call' = "idle"
            /\ lastCommand' = "Ok"
            => menu' = NoMenu
         /\ (QueuedCommand \/ Hotkey) /\ call' = "idle"
            /\ lastCommand' = "MenuForeign"
            => menuBy' # "module"
<1>1. ASSUME Command, call' = "idle", lastCommand' = "MenuForeign"
      PROVE  menuBy' # "module"
  BY <1>1, CalledForeign, OwnIsNotForeign DEF Command
<1>2. QED  BY <1>1, OffAnsweredOk DEF QueuedCommand, Hotkey, Command, Owned

\* Nobody is told that a menu is gone while one is on screen, and whatever is
\* called foreign was raised by the game or by a call that was answered as
\* failed, whatever was done to the slot and the gate before.
THEOREM TrueAnswers == Spec => AnswersAreTrue
<1>1. OwnInv /\ [Next]_vars =>
        [/\ (SetToolsMenu(FALSE) \/ DisableSucceeds) /\ call' = "idle" /\ lastCommand' = "Ok"
            => menu' = NoMenu
         /\ (QueuedCommand \/ Hotkey) /\ call' = "idle" /\ lastCommand' = "MenuForeign"
            => menuBy' # "module"]_vars
  BY AnswersStep
<1>2. QED
  BY <1>1, OwnInvInit, OwnInvStep, TypeCorrect, PTL DEF Spec, AnswersAreTrue

LEMMA OwnMenuStep ==
  ASSUME OwnInv, SetToolsMenu(FALSE), configured, bindings = "intact",
         world # "none", menuBy = "module"
  PROVE  call' = "disable"
<1>1. StillOwned /\ ~MenuIsForeign  BY OwnIsNotForeign DEF SetToolsMenu
<1>2. QED  BY <1>1 DEF SetToolsMenu, Disable, GoOn

\* A menu of the module's is never refused its removal as somebody else's: as
\* long as the world is there and the bindings are intact, the off command
\* calls the game.
THEOREM OwnMenuGoes == Spec => OwnMenuCanBeRemoved
<1>1. OwnInv /\ [Next]_vars =>
        [SetToolsMenu(FALSE) /\ configured /\ bindings = "intact"
         /\ world # "none" /\ menuBy = "module"
         => call' = "disable"]_vars
  BY OwnMenuStep
<1>2. QED
  BY <1>1, OwnInvInit, OwnInvStep, TypeCorrect, PTL DEF Spec, OwnMenuCanBeRemoved
=============================================================================
