---------------------------- MODULE MCWorkspace ----------------------------
(***************************************************************************)
(* A working copy with two files, one of them alone in its folder, and two *)
(* branches, for the run of Workspace.                                     *)
(***************************************************************************)
EXTENDS Workspace

CONSTANTS main, dev, app, util

\* The branch has another content of one file and does not have the other.
MCCheckouts ==
  {<<[f \in Files |-> 1], [f \in Files |-> IF f = app THEN 2 ELSE None]>>}
=============================================================================
