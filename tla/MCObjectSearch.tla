--------------------------- MODULE MCObjectSearch ---------------------------
(* Small instance of ObjectSearch for TLC: two calls for one object, and    *)
(* a third for it or for an object inside it.                              *)
EXTENDS ObjectSearch, TLC

CONSTANTS c1, c2, c3, s, sa

MCMayAsk == c1 :> {s} @@ c2 :> {s} @@ c3 :> {s, sa}

MCBelow == s :> {s, sa} @@ sa :> {sa}
=============================================================================
