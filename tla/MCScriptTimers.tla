--------------------------- MODULE MCScriptTimers ---------------------------
(* Instance of ScriptTimers for TLC. *)
EXTENDS ScriptTimers

Two == {2}
OneFrame == {1}
=============================================================================
