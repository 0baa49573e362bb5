------------------------------ MODULE MCTrayApp ------------------------------
(* Three copies of the application, from the folder its exe was moved
   to. *)
EXTENDS TrayApp

MCPaths == {"old", "new"}
MCFolders == {"new"}
=============================================================================
