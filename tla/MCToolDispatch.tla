--------------------------- MODULE MCToolDispatch ---------------------------
(* Small instances of ToolDispatch for TLC. *)
EXTENDS ToolDispatch
=============================================================================
