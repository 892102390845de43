--------------------------- MODULE MCSubscription ---------------------------
(* A small instance of Subscription for TLC.                               *)
EXTENDS Subscription

(* Two connections to the first service, of which one may send its events  *)
(* when the other is there; the second shows what the two do to each       *)
(* other in NodeUpdated.                                                   *)
MCMaxConns == <<2, 1>>
=============================================================================
