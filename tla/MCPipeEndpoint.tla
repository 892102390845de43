--------------------------- MODULE MCPipeEndpoint ---------------------------
(* Small instances of PipeEndpoint for TLC; the .cfg files give the        *)
(* constants their values.                                                 *)
EXTENDS PipeEndpoint
=============================================================================
