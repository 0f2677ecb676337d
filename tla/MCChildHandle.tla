--------------------------- MODULE MCChildHandle ---------------------------
(* ChildHandle on both platforms, chosen in the initial state; Handles.cfg   *)
(* gives the constants.                                                      *)
EXTENDS ChildHandle
=============================================================================
