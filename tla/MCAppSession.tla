---------------------------- MODULE MCAppSession ----------------------------
(* Bounds for TLC: two sessions of the game, so that wishes and answers of the
   first can meet the second, and two hotkeys. *)
EXTENDS AppSession

MCKeys == {"Home", "F1"}
MCHome == "Home"
=============================================================================
