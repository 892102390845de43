-------------------------- MODULE MCRequestResponse --------------------------
(* A small instance of RequestResponse for TLC.                            *)
EXTENDS RequestResponse
=============================================================================
