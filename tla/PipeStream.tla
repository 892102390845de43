----------------------------- MODULE PipeStream -----------------------------
(***************************************************************************)
(* What a pipe promises: a stream.  On a reliable pipe the packets come    *)
(* out in the order they went in, a packet that was refused blocks the     *)
(* ones after it rather than being skipped, and nothing that came out      *)
(* changes.  On an unreliable pipe packets may be missing or out of order, *)
(* and still none comes out twice and none that was refused comes out.     *)
(***************************************************************************)
EXTENDS Integers, Sequences

VARIABLES
  ordered,    \* the pipe is reliable
  accepted,   \* packets handed to the sending end, the refused ones too
  refused,    \* those for which the sender got an exception
  stream      \* packets handed to the receiving end

streamVars == <<ordered, accepted, refused, stream>>

Init ==
  /\ ordered \in BOOLEAN
  /\ accepted = 0
  /\ refused = {}
  /\ stream = <<>>

Send ==
  /\ accepted' = accepted + 1
  /\ refused' \in {refused, refused \cup {accepted'}}
  /\ UNCHANGED <<ordered, stream>>

(* One or more packets that are next in order.                             *)
Deliver ==
  /\ ordered
  /\ \E n \in Len(stream) + 1 .. accepted :
       /\ (Len(stream) + 1 .. n) \cap refused = {}
       /\ stream' = [i \in 1 .. n |-> i]
  /\ UNCHANGED <<ordered, accepted, refused>>

(* A packet that has not come out yet.                                     *)
DeliverAny ==
  /\ ~ordered
  /\ \E n \in (1 .. accepted) \ refused :
       /\ \A i \in 1 .. Len(stream) : stream[i] # n
       /\ stream' = Append(stream, n)
  /\ UNCHANGED <<ordered, accepted, refused>>

Next == Send \/ Deliver \/ DeliverAny

Spec == Init /\ [][Next]_streamVars
=============================================================================
