---------------------------- MODULE WireRegister ----------------------------
(***************************************************************************)
(* What a wire promises: each end sets values, and an end of the other     *)
(* side comes to have some of them.  Only values that were set are seen,   *)
(* and an end that has seen a value never sees the same or an earlier one  *)
(* of that sender after it.  Values may be skipped.                        *)
(***************************************************************************)
EXTENDS Naturals

CONSTANTS
  Objects,  \* the connections at either side
  None

VARIABLES
  set,      \* how many values each connection of each side has set
  seen      \* the value each has, and the connection that sent it

registerVars == <<set, seen>>

Ends == {"client", "server"}

Peer(s) == IF s = "client" THEN "server" ELSE "client"

Init ==
  /\ set = [s \in Ends |-> [o \in Objects |-> 0]]
  /\ seen = [s \in Ends |-> [o \in Objects |-> [from |-> None, val |-> 0]]]

Set(s, o) ==
  /\ set' = [set EXCEPT ![s][o] = @ + 1]
  /\ UNCHANGED seen

See(s, o) ==
  /\ \E p \in Objects : \E v \in 1 .. set[Peer(s)][p] :
       /\ seen[s][o].from = p => v > seen[s][o].val
       /\ seen' = [seen EXCEPT ![s][o] = [from |-> p, val |-> v]]
  /\ UNCHANGED set

Next == \E s \in Ends, o \in Objects : Set(s, o) \/ See(s, o)

Spec == Init /\ [][Next]_registerVars
=============================================================================
