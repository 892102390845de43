---------------------------- MODULE MCPipeMember ----------------------------
(* Small instances of PipeMember for TLC.                                  *)
EXTENDS PipeMember

CONSTANTS c1, c2

(* One connect takes any index, the other asks for the first.              *)
MCRequested == [c \in Connects |-> IF c = c2 THEN 1 ELSE AnyIndex]

(* The service may close its end of the first pair, the client its end of  *)
(* each: also an end that the peer has closed before.                      *)
MCCloses ==
  [s \in Sides |-> [c \in Connects |->
     IF s = "client" \/ c = c1 THEN 1 ELSE 0]]

(* A packet each way in the first pair, one from the service in the other. *)
MCPackets ==
  [s \in Sides |-> [c \in Connects |->
     IF s = "server" \/ c = c1 THEN 1 ELSE 0]]
=============================================================================
