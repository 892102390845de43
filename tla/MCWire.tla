------------------------------- MODULE MCWire -------------------------------
(* A small instance of Wire for TLC.                                       *)
EXTENDS Wire

CONSTANTS c1, c2

(* The first service object sets two values, the second client object one; *)
(* what is current decides which object they reach.                        *)
MCMaxValues ==
  [s \in Sides |-> [c \in Connects |->
     IF s = "server" THEN IF c = c1 THEN 2 ELSE 0
                     ELSE IF c = c1 THEN 0 ELSE 1]]

(* The first object of each side may be closed, also after its peer has    *)
(* closed it.  Either of the two connects may come first.                  *)
MCMaxCloses ==
  [s \in Sides |-> [c \in Connects |-> IF c = c1 THEN 1 ELSE 0]]

(* The first client object and the second service object, to which values  *)
(* are sent, may ignore what they receive for a while.                     *)
MCMayIgnore == {End("client", c1), End("server", c2)}
=============================================================================
