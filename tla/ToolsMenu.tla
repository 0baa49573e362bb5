----------------------------- MODULE ToolsMenu -----------------------------
(***************************************************************************)
(* Who owns the menu: src/dll/tools_menu.cpp.                              *)
(*                                                                         *)
(* SetToolsMenu runs on the game's main thread, once at a time.  It reads  *)
(* the slot of the menu, the gate byte and the pointers of the world,      *)
(* follows what the game did to them since the last call, and calls the    *)
(* game's own enable or disable binding, after which it reads them again.  *)
(*                                                                         *)
(* The game is external: it loads and tears down worlds, its level scripts *)
(* raise and remove menus of their own, from worker threads and therefore  *)
(* also between two steps of a call, and another mod may write the gate.   *)
(* Its heap may put a menu where an earlier one was.                       *)
(***************************************************************************)
EXTENDS Integers

CONSTANTS
  Addresses,        \* where the game's heap may put a menu
  NoMenu            \* an empty slot

ASSUME MenuAssumption == NoMenu \notin Addresses

VARIABLES
  world,        \* "none": the pointers are not there; "loading": no terrain
  bindings,     \* the bytes of the two bindings: "intact" or "changed"
  menu,         \* the menu slot of the game
  menuBy,       \* history: where the menu in the slot comes from
  gate,         \* the gate byte
  gateBy,       \* history: where its value comes from
  configured,   \* g_configured
  createdMenu,  \* g_created_menu
  gateSet,      \* g_gate_set
  menuOn,       \* g_status.menu_on
  lastCommand,  \* g_status.last_command
  call          \* where the call of SetToolsMenu is

slotVars == <<menu, menuBy, gate, gateBy>>
ownVars == <<createdMenu, gateSet>>
statusVars == <<menuOn, lastCommand>>
vars == <<world, bindings, slotVars, configured, ownVars, statusVars, call>>

Worlds == {"none", "loading", "level"}

(***************************************************************************)
(* Where a menu or a gate comes from: "module" from a call of ours, "lost" *)
(* from one of which the caller has been told that it failed; "game" from  *)
(* the game, and "mistakable" from the game too, but raised while a call   *)
(* of ours was on its way, or at the very address this module remembers.   *)
(***************************************************************************)
Makers == {"nobody", "module", "lost", "game", "mistakable"}

\* Before and after the binding is called.
Calls == {"idle", "enable", "enabled", "disable", "disabled"}

Statuses ==
  {"none", "Ok", "NotConfigured", "SiteChanged", "WorldUnavailable",
   "MenuPresent", "MenuForeign", "MenuFailed", "Faulted"}

Init ==
  /\ world \in Worlds
  /\ bindings \in {"intact", "changed"}
  /\ menu = NoMenu
  /\ menuBy = "nobody"
  /\ gate = 0
  /\ gateBy = "nobody"
  /\ configured = FALSE
  /\ createdMenu = NoMenu
  /\ gateSet = FALSE
  /\ menuOn = FALSE
  /\ lastCommand = "none"
  /\ call = "idle"

-----------------------------------------------------------------------------
(* The game.                                                               *)

PutMenu(a, who) == menu' = a /\ menuBy' = who
PutGate(who) == gate' = 1 /\ gateBy' = who
TakeMenu == menu' = NoMenu /\ menuBy' = "nobody"
TakeGate == gate' = 0 /\ gateBy' = "nobody"
KeepMenu == UNCHANGED <<menu, menuBy>>
KeepGate == UNCHANGED <<gate, gateBy>>

ByTheGame == UNCHANGED <<bindings, configured, ownVars, statusVars, call>>

LoadWorld ==
  /\ world # "level"
  /\ world' = IF world = "none" THEN "loading" ELSE "level"
  /\ UNCHANGED slotVars
  /\ ByTheGame

\* A map reload: the game removes the menu through its own teardown, and
\* clears the gate or leaves it set.  The objects a call works with outlive it.
TearDownWorld ==
  /\ world = "level"
  /\ world' \in IF call = "idle" THEN {"none", "loading"} ELSE {"loading"}
  /\ TakeMenu
  /\ TakeGate \/ KeepGate
  /\ ByTheGame

\* A level script raises the menu, or removes whichever is there.
ScriptEnables ==
  /\ world = "level"
  /\ menu = NoMenu
  /\ \E a \in Addresses :
       PutMenu(a, IF call # "idle" \/ a = createdMenu THEN "mistakable" ELSE "game")
  /\ PutGate("game")
  /\ UNCHANGED world
  /\ ByTheGame

ScriptDisables ==
  /\ world = "level"
  /\ TakeMenu
  /\ TakeGate
  /\ UNCHANGED world
  /\ ByTheGame

ForeignGate ==
  /\ IF gate = 0 THEN PutGate("game") ELSE TakeGate
  /\ KeepMenu
  /\ UNCHANGED world
  /\ ByTheGame

\* Another tool patches a binding, or takes its patch out.
ChangeBindings ==
  /\ bindings' \in {"intact", "changed"} \ {bindings}
  /\ UNCHANGED <<world, slotVars, configured, ownVars, statusVars, call>>

Game == LoadWorld \/ TearDownWorld \/ ScriptEnables \/ ScriptDisables
        \/ ForeignGate \/ ChangeBindings

-----------------------------------------------------------------------------
(* The module.                                                             *)

\* ConfigureToolsMenu, repeated on a new scan.
Configure ==
  /\ call = "idle"
  /\ configured' = (bindings = "intact")
  /\ UNCHANGED <<world, bindings, slotVars, ownVars, statusVars, call>>

\* Ownership follows what is there: what the game took away since the last
\* call is not owned any more.  Mutant: the menu is followed by its gate.
CreatedByGate == IF gate = 0 THEN NoMenu ELSE createdMenu
StillCreated == IF menu = NoMenu THEN NoMenu ELSE createdMenu
StillGateSet == gateSet /\ gate # 0
StillOwned == StillCreated # NoMenu \/ StillGateSet

\* ToolsMenuOwned()
Owned == createdMenu # NoMenu \/ gateSet

\* RecordCommand of an answer that came with an observation.
Record(status, observedMenu, owned) ==
  /\ lastCommand' = status
  /\ menuOn' = (owned /\ observedMenu # NoMenu)

Follow == createdMenu' = StillCreated /\ gateSet' = StillGateSet

\* Refused before anything of the world was read.
Refuse(status) ==
  /\ Record(status, NoMenu, FALSE)
  /\ UNCHANGED <<ownVars, call>>

\* Refused on what was read; nothing is called.
Answer(status) ==
  /\ Follow
  /\ Record(status, menu, StillOwned)
  /\ UNCHANGED call

\* What was read lets the binding be called.
GoOn(to) ==
  /\ Follow
  /\ call' = to
  /\ UNCHANGED statusVars

MenuIsUp == menu # NoMenu \/ (gate # 0 /\ ~StillGateSet)

Enable ==
  \/ world = "loading" /\ Answer("WorldUnavailable")
  \/ world = "level" /\ MenuIsUp /\ Answer("MenuPresent")
  \/ world = "level" /\ ~MenuIsUp /\ GoOn("enable")

\* Mutants: any menu in the slot is taken for ours; a menu that is not ours is
\* not looked at.
ForeignOnlyUnowned == menu # NoMenu /\ ~StillOwned
ForeignNever == FALSE
MenuIsForeign == menu # NoMenu /\ (~StillOwned \/ menu # StillCreated)

Disable ==
  \/ MenuIsForeign /\ Answer("MenuForeign")
  \/ ~MenuIsForeign /\ ~StillOwned /\ Answer("Ok")
  \/ ~MenuIsForeign /\ StillOwned /\ GoOn("disable")

\* SetToolsMenu, up to the call of the binding.
SetToolsMenu(enable) ==
  /\ call = "idle"
  /\ UNCHANGED <<world, bindings, slotVars, configured>>
  /\ \/ ~configured /\ Refuse("NotConfigured")
     \/ configured /\ bindings = "changed" /\ Refuse("SiteChanged")
     \/ /\ configured /\ bindings = "intact" /\ world = "none"
        /\ Refuse("WorldUnavailable")
     \/ /\ configured /\ bindings = "intact" /\ world # "none"
        /\ IF enable THEN Enable ELSE Disable

DuringCall(from, to) ==
  /\ call = from
  /\ call' = to
  /\ UNCHANGED <<world, bindings, configured>>

\* What the enable binding has done when it returns or raises: the gate comes
\* first, and a menu only into an empty slot of a world with a terrain.
EnableEffect(who) ==
  /\ KeepGate \/ PutGate(who)
  /\ \/ KeepMenu
     \/ menu = NoMenu /\ world = "level" /\ \E a \in Addresses : PutMenu(a, who)

\* CallBinding(enable).
EnableReturns ==
  /\ DuringCall("enable", "enabled")
  /\ EnableEffect("module")
  /\ UNCHANGED <<ownVars, statusVars>>

EnableFaults ==
  /\ DuringCall("enable", "idle")
  /\ EnableEffect("lost")
  /\ Record("Faulted", NoMenu, FALSE)
  /\ UNCHANGED ownVars

\* The menu and the gate are there: the menu is ours to undo.  (Whose menu it is
\* cannot be told from the slot.)
EnableSucceeds ==
  /\ DuringCall("enabled", "idle")
  /\ menu # NoMenu /\ gate = 1
  /\ createdMenu' = menu
  /\ gateSet' = TRUE
  /\ Record("Ok", menu, TRUE)
  /\ UNCHANGED slotVars

\* One of them is not, and whatever menu there is is forgotten; the gate is
\* there to undo.  Mutant: only a menu counts as something to undo.
GateNotCounted == gateSet
GateToUndo == TRUE

EnableFails ==
  /\ DuringCall("enabled", "idle")
  /\ menu = NoMenu \/ gate # 1
  /\ gateSet' = GateToUndo
  /\ Record("MenuFailed", menu, TRUE)
  /\ menuBy' = IF menuBy = "module" THEN "lost" ELSE menuBy
  /\ UNCHANGED <<createdMenu, menu, gate, gateBy>>

\* CallBinding(disable): the gate first, then the menu, or less than that.
DisableEffect == (KeepGate \/ TakeGate) /\ (KeepMenu \/ TakeMenu)

DisableReturns ==
  /\ DuringCall("disable", "disabled")
  /\ DisableEffect
  /\ UNCHANGED <<ownVars, statusVars>>

\* A menu the call found was the one this module remembers.
DisableFaults ==
  /\ DuringCall("disable", "idle")
  /\ DisableEffect
  /\ Record("Faulted", createdMenu, TRUE)
  /\ UNCHANGED ownVars

DisableSucceeds ==
  /\ DuringCall("disabled", "idle")
  /\ menu = NoMenu /\ gate = 0
  /\ createdMenu' = NoMenu
  /\ gateSet' = FALSE
  /\ Record("Ok", NoMenu, FALSE)
  /\ UNCHANGED slotVars

\* Something is left behind; what was owned still is.
DisableFails ==
  /\ DuringCall("disabled", "idle")
  /\ menu # NoMenu \/ gate # 0
  /\ Record("MenuFailed", menu, TRUE)
  /\ UNCHANGED <<slotVars, ownVars>>

CallGoesOn == EnableReturns \/ EnableFaults \/ EnableSucceeds \/ EnableFails
              \/ DisableReturns \/ DisableFaults \/ DisableSucceeds \/ DisableFails

\* A command from the queue asks for either; the hotkey asks for the opposite
\* of what the module owns.
QueuedCommand == \E enable \in BOOLEAN : SetToolsMenu(enable)
Hotkey == SetToolsMenu(~Owned)

Next == Game \/ Configure \/ QueuedCommand \/ Hotkey \/ CallGoesOn

Spec == Init /\ [][Next]_vars

-----------------------------------------------------------------------------
(* Properties.                                                             *)

TypeOK ==
  /\ world \in Worlds
  /\ bindings \in {"intact", "changed"}
  /\ menu \in Addresses \cup {NoMenu}
  /\ menuBy \in Makers
  /\ gate \in {0, 1}
  /\ gateBy \in Makers
  /\ configured \in BOOLEAN
  /\ createdMenu \in Addresses \cup {NoMenu}
  /\ gateSet \in BOOLEAN
  /\ menuOn \in BOOLEAN
  /\ lastCommand \in Statuses
  /\ call \in Calls

\* Whatever this module put into the game, and did not tell the caller it failed
\* to, it knows it has to undo: its menu is the one it remembers, its gate is one
\* it remembers, through map reloads, level scripts and failed commands in any
\* order, from the moment the call that made them is over.
OwnsWhatItMade ==
  call # "enabled" =>
    /\ menuBy = "module" => createdMenu = menu
    /\ gateBy = "module" => gateSet

\* "From here on there is something to undo whatever the rest of the call did":
\* the same of every menu and gate a call of ours has put there.
AllIsOwned ==
  call # "enabled" =>
    /\ menuBy \in {"module", "lost"} => createdMenu = menu
    /\ gateBy \in {"module", "lost"} => gateSet

\* Only a menu this module created is ever removed: no step of a call takes or
\* replaces a menu the game raised while no call was on its way, at another
\* address than the one remembered.
ForeignMenuIsLeftAlone ==
  [][(QueuedCommand \/ Hotkey \/ CallGoesOn) /\ menuBy = "game"
     => UNCHANGED <<menu, menuBy>>]_vars

\* An off command that is answered Ok leaves an empty slot, so nobody is told
\* that a menu was taken away while it is still on screen; and a menu that is
\* called foreign is one the game raised itself, or one the caller was told had
\* failed.
AnswersAreTrue ==
  [][/\ (SetToolsMenu(FALSE) \/ DisableSucceeds) /\ call' = "idle" /\ lastCommand' = "Ok"
        => menu' = NoMenu
     /\ (QueuedCommand \/ Hotkey) /\ call' = "idle" /\ lastCommand' = "MenuForeign"
        => menuBy' # "module"]_vars

\* A menu of ours that we said was there is never in the way of its own removal:
\* an off command in a world that is there, with bindings that are what they
\* were, calls the game.
OwnMenuCanBeRemoved ==
  [][SetToolsMenu(FALSE) /\ configured /\ bindings = "intact" /\ world # "none"
     /\ menuBy = "module"
     => call' = "disable"]_vars

=============================================================================
