--------------------------- MODULE MCEditorWindow ---------------------------
(* EditorWindow for TLC: messages of the profiler and an answer. *)
EXTENDS EditorWindow, TLC

CONSTANTS consumer, game

MCWriter == {consumer, game}
MCPackets == (consumer :> 4) @@ (game :> 1)
=============================================================================
