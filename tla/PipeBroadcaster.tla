--------------------------- MODULE PipeBroadcaster ---------------------------
(***************************************************************************)
(* PipeBroadcasterBase (PipeMember.cpp): a service sends each packet to    *)
(* every endpoint of a pipe, and counts per endpoint how many packets are  *)
(* being sent or not yet acknowledged, to skip an endpoint that is behind. *)
(*                                                                         *)
(* A packet is named by its broadcast, 1..MaxSends: it stands for the      *)
(* packet number and for the keys the code draws, which are as unique.     *)
(* Each action is one critical section of endpoints_lock, or one of the    *)
(* transport or of the pipe that owns the endpoints.                       *)
(***************************************************************************)
EXTENDS Integers, FiniteSets

CONSTANTS
  Endpoints,   \* pipe endpoints that may connect
  Leaving,     \* bound: endpoints that may close
  Backlogs,    \* values given to maximum_backlog
  MaxSends,    \* bound: broadcasts
  MaxFailures  \* bound: sends to an open endpoint that fail

ASSUME BacklogsAssumption == Backlogs \subseteq Int

ASSUME LeavingAssumption == Leaving \subseteq Endpoints

ASSUME MaxSendsAssumption == MaxSends \in Nat

Sends == 1..MaxSends

VARIABLES
  maximum_backlog,
  endpoints,        \* PipeBroadcasterBase::endpoints
  pipe,             \* endpoints in the table of the PipeServer
  connecting,       \* opened, EndpointConnectedBase is still to run
  attached,         \* the broadcaster's callbacks are set
  RequestPacketAck, \* endpoints whose packets ask for an ack
  closing,          \* a closed callback is about to run
  deleting,         \* in RemoteClose
  active_sends,     \* of each connected endpoint: sends without an outcome
  backlog,          \* ... sent and not acknowledged
  forward_backlog,  \* ... acknowledged before handle_send has run
  sent,             \* broadcasts begun
  sending,          \* of each endpoint: sends the transport holds
  keys,             \* of each broadcast: endpoints it still waits for
  done,             \* of each broadcast: calls of its handler
  unacked,          \* of each endpoint: packets on their way, or their acks
  failed            \* of each endpoint: packets whose send threw or failed

lists == <<active_sends, backlog, forward_backlog>>
life == <<endpoints, pipe, connecting, attached, RequestPacketAck, closing,
          deleting>>
vars == <<maximum_backlog, life, lists, sent, sending, keys, done,
          unacked, failed>>

-----------------------------------------------------------------------------

None == [e \in Endpoints |-> {}]

Init ==
  /\ maximum_backlog \in Backlogs
  /\ endpoints = {} /\ pipe = {} /\ connecting = {} /\ attached = {}
  /\ RequestPacketAck = {} /\ closing = {} /\ deleting = {}
  /\ active_sends = None /\ backlog = None /\ forward_backlog = None
  /\ sent = 0
  /\ sending = None
  /\ keys = [op \in Sends |-> {}]
  /\ done = [op \in Sends |-> 0]
  /\ unacked = None
  /\ failed = None

Failures == UNION {{<<e, op>> : op \in failed[e]} : e \in Endpoints}

-----------------------------------------------------------------------------
(* The endpoints come and go.                                              *)

(* PipeConnectReq puts the endpoint in the table, then calls the callback. *)
Open(e) ==
  /\ e \notin pipe \cup connecting \cup attached
  /\ pipe' = pipe \cup {e}
  /\ connecting' = connecting \cup {e}
  /\ UNCHANGED <<endpoints, attached, RequestPacketAck, closing, deleting>>

EndpointConnectedBase(e) ==
  /\ e \in connecting
  /\ connecting' = connecting \ {e}
  /\ attached' = attached \cup {e}
  /\ endpoints' = endpoints \cup {e}
  /\ RequestPacketAck' =
       RequestPacketAck \cup (IF maximum_backlog # 0 THEN {e} ELSE {})
  /\ UNCHANGED <<pipe, closing, deleting>>

(* PipeDisconnectReq: the callback runs before the table forgets e.        *)
RemoteClose(e) ==
  /\ e \in (pipe \cap Leaving) \ deleting
  /\ closing' = closing \cup {e}
  /\ deleting' = deleting \cup {e}
  /\ UNCHANGED <<endpoints, pipe, connecting, attached, RequestPacketAck>>

DeleteEndpoint(e) ==
  /\ e \in deleting \ closing
  /\ pipe' = pipe \ {e}
  /\ deleting' = deleting \ {e}
  /\ UNCHANGED <<endpoints, connecting, attached, RequestPacketAck, closing>>

(* ClientDisconnected: the table forgets e, the callback is posted.        *)
ClientDisconnected(e) ==
  /\ e \in (pipe \cap Leaving) \ deleting
  /\ pipe' = pipe \ {e}
  /\ closing' = closing \cup {e}
  /\ UNCHANGED <<endpoints, connecting, attached, RequestPacketAck, deleting>>

(* The service closes e itself: the callback is not called.                *)
Close(e) ==
  /\ e \in (pipe \cap Leaving) \ deleting
  /\ pipe' = pipe \ {e}
  /\ UNCHANGED <<endpoints, connecting, attached, RequestPacketAck, closing,
                 deleting>>

(* Without the broadcaster's callback, nothing happens.                    *)
EndpointClosedBase(e) ==
  /\ e \in closing
  /\ closing' = closing \ {e}
  /\ endpoints' = IF e \in attached THEN endpoints \ {e} ELSE endpoints
  /\ UNCHANGED <<pipe, connecting, attached, RequestPacketAck, deleting>>

EndpointLife(e) ==
  /\ \/ Open(e) \/ EndpointConnectedBase(e) \/ RemoteClose(e)
     \/ DeleteEndpoint(e) \/ ClientDisconnected(e) \/ Close(e)
     \/ EndpointClosedBase(e)
  /\ UNCHANGED <<maximum_backlog, lists, sent, sending, keys, done,
                 unacked, failed>>

SetMaxBacklog(n) ==
  /\ endpoints = {}
  /\ n # maximum_backlog
  /\ maximum_backlog' = n
  /\ UNCHANGED <<life, lists, sent, sending, keys, done, unacked,
                 failed>>

-----------------------------------------------------------------------------

Pending(e) == Cardinality(backlog[e]) + Cardinality(active_sends[e])

(* The test that skips an endpoint; the slip forgets the sends under way.  *)
BacklogOnly(e) ==
  maximum_backlog > -1 /\ Cardinality(backlog[e]) > maximum_backlog

Full(e) == maximum_backlog > -1 /\ Pending(e) > maximum_backlog

(* Add op to the set of each endpoint of es.                               *)
Add(sets, es, op) ==
  [e \in Endpoints |-> IF e \in es THEN sets[e] \cup {op} ELSE sets[e]]

Remove(sets, es, op) ==
  [e \in Endpoints |-> IF e \in es THEN sets[e] \ {op} ELSE sets[e]]

(* A broadcast that nobody gets is complete at once; the slip forgets it.  *)
CompletedNever(op, to) == done

CompletedAtOnce(op, to) ==
  IF to = {} THEN [done EXCEPT ![op] = @ + 1] ELSE done

(* AsyncSendPacketBase: expired are the endpoints whose weak_ptr is found  *)
(* dead, chosen those the predicate picks; the send to one that refuses    *)
(* throws, after its slot was taken.                                       *)
AsyncSendPacketBase(expired, chosen, refuses) ==
  LET op == sent + 1
      tried == {e \in chosen : ~Full(e)}
      to == tried \ refuses
  IN  /\ sent < MaxSends
      /\ expired \subseteq endpoints \ pipe
      /\ chosen \subseteq endpoints \ expired
      /\ tried \ pipe \subseteq refuses
      /\ refuses \subseteq tried
      /\ refuses \cap pipe # {} => Cardinality(Failures) < MaxFailures
      /\ sent' = op
      /\ endpoints' = endpoints \ expired
      /\ active_sends' = Add(active_sends, tried, op)
      /\ failed' = Add(failed, refuses, op)
      /\ sending' = Add(sending, to, op)
      /\ unacked' = Add(unacked, to, op)
      /\ keys' = [keys EXCEPT ![op] = to]
      /\ done' = CompletedAtOnce(op, to)
      /\ UNCHANGED <<maximum_backlog, pipe, connecting, attached,
                     RequestPacketAck, closing, deleting, backlog,
                     forward_backlog>>

(* The transport reports that the packet was not sent.                     *)
SendFails(e, op) ==
  /\ op \in (sending[e] \cap unacked[e]) \ failed[e]
  /\ Cardinality(Failures) < MaxFailures
  /\ unacked' = Remove(unacked, {e}, op)
  /\ failed' = Add(failed, {e}, op)
  /\ UNCHANGED <<maximum_backlog, life, lists, sent, sending, keys,
                 done>>

(* The lists after the first half of handle_send, which treats a send that *)
(* failed as one that went out.  The slip does not look for an early ack.  *)
HandledIgnoringAck(e, op) ==
  /\ backlog' = IF maximum_backlog > -1 THEN Add(backlog, {e}, op) ELSE backlog
  /\ UNCHANGED forward_backlog

Handled(e, op) ==
  \/ /\ maximum_backlog > -1
     /\ op \in forward_backlog[e]
     /\ forward_backlog' = Remove(forward_backlog, {e}, op)
     /\ UNCHANGED backlog
  \/ /\ maximum_backlog > -1
     /\ op \notin forward_backlog[e]
     /\ backlog' = Add(backlog, {e}, op)
     /\ UNCHANGED forward_backlog
  \/ /\ maximum_backlog <= -1
     /\ UNCHANGED <<backlog, forward_backlog>>

(* Its second half, under keys_lock; the slip calls the handler each time.  *)
KeyDoneEach(e, op) ==
  /\ keys' = [keys EXCEPT ![op] = @ \ {e}]
  /\ done' = [done EXCEPT ![op] = @ + 1]

KeyDone(e, op) ==
  /\ keys' = [keys EXCEPT ![op] = @ \ {e}]
  /\ done' = IF keys'[op] = {} THEN [done EXCEPT ![op] = @ + 1] ELSE done

(* The two halves are one action: nothing but another second half of the   *)
(* same broadcast reads or writes what the second one does.                *)
handle_send(e, op) ==
  /\ op \in sending[e]
  /\ sending' = Remove(sending, {e}, op)
  /\ active_sends' = Remove(active_sends, {e}, op)
  /\ Handled(e, op)
  /\ KeyDone(e, op)
  /\ UNCHANGED <<maximum_backlog, life, sent, unacked, failed>>

(* The slip forgets an ack that comes before handle_send.                  *)
AckedOnlyIfListed(e, op) ==
  /\ backlog' = Remove(backlog, {e}, op)
  /\ UNCHANGED forward_backlog

Acked(e, op) ==
  \/ /\ op \in backlog[e]
     /\ backlog' = Remove(backlog, {e}, op)
     /\ UNCHANGED forward_backlog
  \/ /\ op \notin backlog[e]
     /\ forward_backlog' = Add(forward_backlog, {e}, op)
     /\ UNCHANGED backlog

PacketAckReceivedBase(e, op) ==
  /\ e \in pipe \cap RequestPacketAck
  /\ op \in unacked[e]
  /\ unacked' = Remove(unacked, {e}, op)
  /\ Acked(e, op)
  /\ UNCHANGED <<maximum_backlog, life, active_sends, sent, sending,
                 keys, done, failed>>

Next ==
  \/ \E e \in Endpoints : EndpointLife(e)
  \/ \E n \in Backlogs : SetMaxBacklog(n)
  \/ \E expired, chosen, refuses \in SUBSET endpoints :
       AsyncSendPacketBase(expired, chosen, refuses)
  \/ \E e \in Endpoints, op \in Sends :
       \/ SendFails(e, op)
       \/ handle_send(e, op)
       \/ PacketAckReceivedBase(e, op)

Spec == Init /\ [][Next]_vars

(* The transport calls every handler back, and a client acknowledges what  *)
(* it receives as long as its endpoint is open.  None of these steps can   *)
(* be taken twice for a packet, so it is enough that some packet's is.     *)
Fairness ==
  \A e \in Endpoints :
    /\ WF_vars(\E op \in Sends : handle_send(e, op))
    /\ WF_vars(\E op \in Sends : PacketAckReceivedBase(e, op))

FairSpec == Spec /\ Fairness

-----------------------------------------------------------------------------

TypeOK ==
  /\ maximum_backlog \in Backlogs
  /\ endpoints \subseteq attached
  /\ connecting \cap attached = {}
  /\ pipe \subseteq attached \cup connecting
  /\ pipe \cup closing \cup deleting \subseteq Endpoints
  /\ RequestPacketAck \subseteq attached
  /\ attached \subseteq Endpoints
  /\ sent \in 0..MaxSends
  /\ active_sends \in [Endpoints -> SUBSET (1..sent)]
  /\ backlog \in [Endpoints -> SUBSET (1..sent)]
  /\ forward_backlog \in [Endpoints -> SUBSET (1..sent)]
  /\ sending \in [Endpoints -> SUBSET (1..sent)]
  /\ unacked \in [Endpoints -> SUBSET (1..sent)]
  /\ failed \in [Endpoints -> SUBSET (1..sent)]
  /\ keys \in [Sends -> SUBSET Endpoints]
  /\ done \in [Sends -> Nat]

(* What each list of a connected endpoint holds, whatever the order in     *)
(* which handle_send and the ack come: a slot is taken by a packet from    *)
(* its send to its ack, and for good by a packet that failed.              *)
Taken(e) == sending[e] \cup unacked[e] \cup failed[e]

Accounted(e) ==
  /\ active_sends[e] \cup backlog[e] = Taken(e)
  /\ backlog[e] \cap (sending[e] \cup active_sends[e]) = {}
  /\ forward_backlog[e] = sending[e] \ (unacked[e] \cup failed[e])

SlotsAccounted == \A e \in endpoints : maximum_backlog >= 0 => Accounted(e)

(* Flow control: an endpoint never has more than maximum_backlog + 1       *)
(* packets that were sent and not acknowledged.                            *)
InFlightBounded ==
  \A e \in endpoints :
    maximum_backlog >= 0 => Cardinality(unacked[e]) <= maximum_backlog + 1

(* The inductive invariant: an endpoint has nothing before it connects,    *)
(* and then no slot is taken without reason, nor more than there are.      *)
Unused(e) ==
  /\ Taken(e) = {}
  /\ active_sends[e] = {} /\ backlog[e] = {} /\ forward_backlog[e] = {}

Slots(e) ==
  /\ Accounted(e)
  /\ unacked[e] \cap failed[e] = {}
  /\ active_sends[e] \subseteq sending[e] \cup failed[e]
  /\ Cardinality(Taken(e)) <= maximum_backlog + 1

(* The keys of a broadcast are the endpoints whose send handler is still   *)
(* to run, and its handler has been called when none is left.              *)
KeysMatch ==
  \A op \in Sends :
    /\ \A e \in Endpoints : e \in keys[op] <=> op \in sending[e]
    /\ done[op] = IF op <= sent /\ keys[op] = {} THEN 1 ELSE 0

IInv ==
  /\ TypeOK
  /\ KeysMatch
  /\ \A e \in Endpoints \ attached : Unused(e)
  /\ \A e \in endpoints : maximum_backlog >= 0 => Slots(e)

(* The handler of a broadcast is called once, and not before handle_send   *)
(* has run for all of its endpoints.                                       *)
CompletedOnce ==
  \A op \in Sends :
    /\ done[op] <= 1
    /\ done[op] = 1 =>
         \A e \in Endpoints : op \notin sending[e]

(* Every broadcast completes, also when endpoints close or sends fail: as  *)
(* long as no new one begins, the time comes when none is left.            *)
EachSendCompletes == []<>(\A op \in 1..sent : done[op] = 1)

(* Once the service pauses, every connected endpoint has room again,       *)
(* unless the slots of failed sends, which are never freed, fill it.  With *)
(* maximum_backlog 0 no ack is asked for, and a full endpoint remains so.  *)
Exhausted(e) == Cardinality(failed[e]) > maximum_backlog

FlowResumes ==
  []<>(\A e \in endpoints \cap pipe :
         Full(e) => Exhausted(e) \/ maximum_backlog = 0)
=============================================================================
