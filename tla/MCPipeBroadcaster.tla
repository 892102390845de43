-------------------------- MODULE MCPipeBroadcaster --------------------------
(* Small instance of PipeBroadcaster for TLC.                              *)
EXTENDS PipeBroadcaster

MCBacklogs == {-1, 0, 1}
=============================================================================
