---------------------------- MODULE HookContract ----------------------------
(***************************************************************************)
(* What frame_hook.h promises whoever unloads the module, without the      *)
(* bytes, the pages, the suspensions and the count that keep the promise:  *)
(* threads get inside only through the hook, the hook goes in only while   *)
(* nobody is inside, and the module is unmapped only after the hook is out *)
(* and the last thread has left.  FrameHook implements it.                 *)
(***************************************************************************)
CONSTANTS Threads

VARIABLES
  loaded,  \* the module is mapped
  hooked,  \* calling the hooked function leads into the module
  inside   \* the threads that will execute module code again

vars == <<loaded, hooked, inside>>

Init ==
  /\ loaded = TRUE
  /\ hooked = FALSE
  /\ inside = {}

Hook ==
  /\ loaded
  /\ ~hooked
  /\ inside = {}
  /\ hooked' = TRUE
  /\ UNCHANGED <<loaded, inside>>

Enter(t) ==
  /\ hooked
  /\ inside' = inside \cup {t}
  /\ UNCHANGED <<loaded, hooked>>

Leave(t) ==
  /\ inside' = inside \ {t}
  /\ UNCHANGED <<loaded, hooked>>

Unhook ==
  /\ hooked
  /\ hooked' = FALSE
  /\ UNCHANGED <<loaded, inside>>

Unload ==
  /\ loaded
  /\ ~hooked
  /\ inside = {}
  /\ loaded' = FALSE
  /\ UNCHANGED <<hooked, inside>>

Next ==
  \/ Hook
  \/ \E t \in Threads : Enter(t) \/ Leave(t)
  \/ Unhook
  \/ Unload

Spec == Init /\ [][Next]_vars
=============================================================================
