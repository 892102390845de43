---------------------------- MODULE PipeEndpoint ----------------------------
(***************************************************************************)
(* One direction of a connected pair of pipe endpoints (PipeMember.cpp):   *)
(* the sending side numbers packets, the node's thread pool dispatches the *)
(* messages of one connection concurrently, and the receiving side puts    *)
(* them back in order for the threads that read the endpoint.              *)
(*                                                                         *)
(* A packet is known by its index: 1 for the first packet handed to        *)
(* AsyncSendPacket, 2 for the second, whatever its data.                   *)
(***************************************************************************)
EXTENDS Integers, Sequences, FiniteSets

CONSTANTS
  Modulus,         \* number of packet numbers: 2^32 in the code
  Receivers,       \* threads that read the receiving endpoint
  TimedReceivers,  \* those that pass a finite timeout
  MaxSends,        \* bound: packets handed to the sending endpoint
  MaxFailures      \* bound: sends refused after the number was taken

ASSUME ModulusAssumption == Modulus \in Nat \ {0}
ASSUME BoundsAssumption == MaxSends \in Nat /\ MaxFailures \in Nat

VARIABLES
  unreliable,              \* the pipe was declared unreliable
  send_packet_number,      \* sender: number of the last packet
  sent,                    \* packets handed to the sender so far
  failed,                  \* those whose AsyncSendPipePacket threw
  network,                 \* messages sent and not yet dispatched
  recv_packet_number,      \* receiver: number of the last packet in order
  out_of_order_packets,    \* receiver: packets ahead of their turn, by number
  recv_packets,            \* receiver: queue the threads read
  consumed,                \* packets the threads have taken, in order
  ignore_incoming_packets,
  closed,
  receiver                 \* what each reading thread is doing

senderVars == <<unreliable, send_packet_number, sent, failed>>
orderVars  == <<recv_packet_number, out_of_order_packets>>
vars == <<senderVars, network, orderVars, recv_packets, consumed,
          ignore_incoming_packets, closed, receiver>>

Numbers == 0 .. Modulus - 1

(* Every packet ever put in the queue, in the order it was put there.      *)
Delivered == consumed \o recv_packets

-----------------------------------------------------------------------------
(* Beside some operators stands a variant under a longer name: a slip that *)
(* the properties at the end of the module have to notice.                 *)

increment_packet_number(n) == IF n < Modulus - 1 THEN n + 1 ELSE 0

(* The number i places after n.                                            *)
Following(n, i) == (n + i) % Modulus

(* recv_packets_wait.notify_all(), and what notify_one() would do.         *)
NotifyOne ==
  \E r \in Receivers :
    /\ receiver[r] = "blocked" \/ \A s \in Receivers : receiver[s] # "blocked"
    /\ receiver' = [receiver EXCEPT ![r] = IF @ = "blocked" THEN "woken" ELSE @]

NotifyAll ==
  receiver' = [r \in Receivers |->
                 IF receiver[r] = "blocked" THEN "woken" ELSE receiver[r]]

Init ==
  /\ unreliable \in BOOLEAN
  /\ send_packet_number = 0
  /\ sent = 0
  /\ failed = {}
  /\ network = {}
  /\ recv_packet_number = 0
  /\ out_of_order_packets = [n \in {} |-> 0]
  /\ recv_packets = <<>>
  /\ consumed = <<>>
  /\ ignore_incoming_packets = FALSE
  /\ closed = FALSE
  /\ receiver = [r \in Receivers |-> "idle"]

(* The send window: fewer packets are outstanding than there are numbers.  *)
(* The code relies on it (2^32 packets do not fit in memory) and never     *)
(* checks it.                                                              *)
WindowOpen == sent - Len(Delivered) < Modulus

(* AsyncSendPacketBase takes the next number before it packs the packet    *)
(* and gives it to the transport, all under sendlock.                      *)
TakeNumber ==
  /\ sent < MaxSends
  /\ WindowOpen
  /\ sent' = sent + 1
  /\ send_packet_number' = increment_packet_number(send_packet_number)
  /\ UNCHANGED unreliable

SendPacket ==
  /\ TakeNumber
  /\ network' = network \cup {[num |-> send_packet_number', id |-> sent']}
  /\ UNCHANGED <<failed, orderVars, recv_packets, consumed,
                 ignore_incoming_packets, closed, receiver>>

(* PackPacket or the transport throws (a packet of the wrong type, or one  *)
(* larger than max_message_size): the caller sees the exception, and the   *)
(* number stays taken.                                                     *)
SendPacketThrows ==
  /\ TakeNumber
  /\ Cardinality(failed) < MaxFailures
  /\ failed' = failed \cup {sent'}
  /\ UNCHANGED <<network, orderVars, recv_packets, consumed,
                 ignore_incoming_packets, closed, receiver>>

(* The transport of an unreliable pipe may lose a message.                 *)
LosePacket(p) ==
  /\ unreliable
  /\ network' = network \ {p}
  /\ UNCHANGED <<senderVars, orderVars, recv_packets, consumed,
                 ignore_incoming_packets, closed, receiver>>

(* The owner has closed the endpoint: until PipeClient/PipeServer take it  *)
(* out of pipeendpoints a message still reaches it, afterwards it is       *)
(* dropped.                                                                *)
DropForClosed(p) ==
  /\ closed
  /\ network' = network \ {p}
  /\ UNCHANGED <<senderVars, orderVars, recv_packets, consumed,
                 ignore_incoming_packets, closed, receiver>>

(* PipePacketReceived, one critical section of recvlock per message.  Left *)
(* out: a message that DispatchPacket cannot unpack never comes here (the  *)
(* exception is logged); it leaves the hole a refused send leaves.         *)
IgnoreIncoming(p) ==
  /\ ignore_incoming_packets
  /\ network' = network \ {p}
  /\ UNCHANGED <<senderVars, orderVars, recv_packets, consumed,
                 ignore_incoming_packets, closed, receiver>>

ReceiveUnreliable(p) ==
  /\ unreliable
  /\ ~ignore_incoming_packets
  /\ network' = network \ {p}
  /\ recv_packets' = Append(recv_packets, p.id)
  /\ NotifyAll
  /\ UNCHANGED <<senderVars, orderVars, consumed, ignore_incoming_packets,
                 closed>>

(* The packet whose turn it is.                                            *)
IsNextOrLater(p) == p.num >= increment_packet_number(recv_packet_number)

IsNextUnwrapped(p) == p.num = recv_packet_number + 1

IsNext(p) == p.num = increment_packet_number(recv_packet_number)

(* The k packets after number n have all come early, and the one after     *)
(* them has not: the while loop stops there.                               *)
DrainsExactlyIf(n, k) ==
  k = IF Following(n, 1) \in DOMAIN out_of_order_packets THEN 1 ELSE 0

DrainsExactly(n, k) ==
  /\ \A i \in 1 .. k : Following(n, i) \in DOMAIN out_of_order_packets
  /\ Following(n, k + 1) \notin DOMAIN out_of_order_packets

(* The packet whose turn it is goes to the queue, then those that had come *)
(* early and follow it.                                                    *)
ReceiveInOrder(p) ==
  /\ ~unreliable
  /\ ~ignore_incoming_packets
  /\ IsNext(p)
  /\ network' = network \ {p}
  /\ \E k \in 0 .. Modulus - 1 :
       LET early   == [i \in 1 .. k |-> out_of_order_packets[Following(p.num, i)]]
           drained == {Following(p.num, i) : i \in 1 .. k}
       IN /\ DrainsExactly(p.num, k)
          /\ recv_packet_number' = Following(p.num, k)
          /\ recv_packets' = Append(recv_packets, p.id) \o early
          /\ out_of_order_packets' =
               [n \in DOMAIN out_of_order_packets \ drained |->
                  out_of_order_packets[n]]
  /\ NotifyAll
  /\ UNCHANGED <<senderVars, consumed, ignore_incoming_packets, closed>>

(* A packet ahead of its turn is kept; insert() leaves an older entry of   *)
(* the same number alone.                                                  *)
ReceiveOutOfOrder(p) ==
  /\ ~unreliable
  /\ ~ignore_incoming_packets
  /\ ~IsNext(p)
  /\ network' = network \ {p}
  /\ out_of_order_packets' =
       [n \in DOMAIN out_of_order_packets \cup {p.num} |->
          IF n \in DOMAIN out_of_order_packets
          THEN out_of_order_packets[n] ELSE p.id]
  /\ UNCHANGED <<senderVars, recv_packet_number, recv_packets, consumed,
                 ignore_incoming_packets, closed, receiver>>

PipePacketReceived(p) ==
  \/ DropForClosed(p)
  \/ IgnoreIncoming(p)
  \/ ReceiveUnreliable(p)
  \/ ReceiveInOrder(p)
  \/ ReceiveOutOfOrder(p)

-----------------------------------------------------------------------------
(* TryReceivePacketBaseWait, the sections of recvlock before and after the *)
(* wait on recv_packets_wait.                                              *)

(* The queue holds a packet: take it, or leave it there when peeking.      *)
TakePacket(peek) ==
  /\ recv_packets # <<>>
  /\ IF peek
     THEN UNCHANGED <<recv_packets, consumed>>
     ELSE /\ recv_packets' = Tail(recv_packets)
          /\ consumed' = Append(consumed, Head(recv_packets))

TryReceive(r) ==
  /\ receiver[r] = "idle"
  /\ \E peek \in BOOLEAN : TakePacket(peek)
  /\ UNCHANGED <<senderVars, network, orderVars, ignore_incoming_packets,
                 closed, receiver>>

TryReceiveWait(r) ==
  /\ receiver[r] = "idle"
  /\ recv_packets = <<>>
  /\ ~closed
  /\ receiver' = [receiver EXCEPT ![r] = "blocked"]
  /\ UNCHANGED <<senderVars, network, orderVars, recv_packets, consumed,
                 ignore_incoming_packets, closed>>

ReceiveTimeout(r) ==
  /\ r \in TimedReceivers
  /\ receiver[r] = "blocked"
  /\ receiver' = [receiver EXCEPT ![r] = "woken"]
  /\ UNCHANGED <<senderVars, network, orderVars, recv_packets, consumed,
                 ignore_incoming_packets, closed>>

(* The wait is over: one look at the queue, and no second wait.            *)
ReceiveWoken(r) ==
  /\ receiver[r] = "woken"
  /\ receiver' = [receiver EXCEPT ![r] = "idle"]
  /\ \/ \E peek \in BOOLEAN : TakePacket(peek)
     \/ /\ recv_packets = <<>>
        /\ UNCHANGED <<recv_packets, consumed>>
  /\ UNCHANGED <<senderVars, network, orderVars, ignore_incoming_packets,
                 closed>>

-----------------------------------------------------------------------------

(* AsyncClose, RemoteClose and Shutdown of the receiving endpoint.         *)
Close ==
  /\ ~closed
  /\ closed' = TRUE
  /\ NotifyAll
  /\ UNCHANGED <<senderVars, network, orderVars, recv_packets, consumed,
                 ignore_incoming_packets>>

(* SetIgnoreReceived(true); there is no way back.                          *)
SetIgnoreReceived ==
  /\ ~ignore_incoming_packets
  /\ ignore_incoming_packets' = TRUE
  /\ UNCHANGED <<senderVars, network, orderVars, recv_packets, consumed,
                 closed, receiver>>

Next ==
  \/ SendPacket
  \/ SendPacketThrows
  \/ \E p \in network : LosePacket(p) \/ PipePacketReceived(p)
  \/ \E r \in Receivers :
       \/ TryReceive(r)
       \/ TryReceiveWait(r)
       \/ ReceiveTimeout(r)
       \/ ReceiveWoken(r)
  \/ Close
  \/ SetIgnoreReceived

Spec == Init /\ [][Next]_vars

(* Every message is eventually dispatched by the thread pool, and a woken  *)
(* thread eventually runs; users are not obliged to do anything.           *)
Fairness ==
  /\ \A i \in 1 .. MaxSends :
       WF_vars(\E p \in network : p.id = i /\ PipePacketReceived(p))
  /\ \A r \in Receivers : WF_vars(ReceiveWoken(r))

FairSpec == Spec /\ Fairness

-----------------------------------------------------------------------------

(* Every variable has its type; packet numbers stay below Modulus.         *)
TypeOK ==
  /\ unreliable \in BOOLEAN
  /\ send_packet_number \in Numbers
  /\ sent \in Nat
  /\ failed \subseteq Nat
  /\ network \subseteq [num : Numbers, id : Nat]
  /\ recv_packet_number \in Numbers
  /\ out_of_order_packets \in [DOMAIN out_of_order_packets -> Nat]
  /\ DOMAIN out_of_order_packets \subseteq Numbers
  /\ recv_packets \in Seq(Nat)
  /\ consumed \in Seq(Nat)
  /\ ignore_incoming_packets \in BOOLEAN
  /\ closed \in BOOLEAN
  /\ receiver \in [Receivers -> {"idle", "blocked", "woken"}]

(* A reliable pipe delivers the packets in the order they were sent, each  *)
(* once and without a gap, whatever order the thread pool dispatches them  *)
(* in and however often the packet numbers wrap around.                    *)
InOrder ==
  ~unreliable => \A i \in 1 .. Len(Delivered) : Delivered[i] = i

(* No packet is left in out_of_order_packets once its turn has come.       *)
NothingStranded ==
  ~unreliable =>
    increment_packet_number(recv_packet_number) \notin DOMAIN out_of_order_packets

(* A packet is given to at most one reader and at most once, on an         *)
(* unreliable pipe too.                                                    *)
AtMostOnce ==
  \A i, j \in 1 .. Len(Delivered) : Delivered[i] = Delivered[j] => i = j

(* Once no message is under way, all that a reliable pipe still owes its   *)
(* receiver is what follows a packet the sender was refused: no order of   *)
(* arrival, and no wrap of the numbers, leaves another hole.               *)
Settled ==
  ~unreliable /\ ~closed /\ ~ignore_incoming_packets /\ network = {} =>
    Len(Delivered) = sent \/ Len(Delivered) + 1 \in failed

(* No thread stays blocked in TryReceivePacketBaseWait while there is a    *)
(* packet to read or the endpoint is closed.                               *)
NoForgottenReceiver ==
  \A r \in Receivers :
    receiver[r] = "blocked" => recv_packets = <<>> /\ ~closed

(* A packet a reliable pipe took without an exception reaches the queue of *)
(* the receiver, unless the receiver closes or ignores its packets.        *)
AcceptedIsDelivered ==
  \A k \in 1 .. MaxSends :
    (~unreliable /\ k <= sent /\ k \notin failed)
      ~> (closed \/ ignore_incoming_packets
            \/ \E i \in 1 .. Len(Delivered) : Delivered[i] = k)

(* What of it holds when sends may be refused: it reaches the queue unless *)
(* a packet before it was refused.                                         *)
AcceptedIsDeliveredInTurn ==
  \A k \in 1 .. MaxSends :
    (~unreliable /\ k <= sent /\ failed \cap 1 .. k = {})
      ~> (closed \/ ignore_incoming_packets
            \/ \E i \in 1 .. Len(Delivered) : Delivered[i] = k)

(* A pipe implements the stream of PipeStream: what has come out never     *)
(* changes, a packet that was refused is waited for on a reliable pipe,    *)
(* not skipped, and on an unreliable one no packet comes out twice.        *)
Stream == INSTANCE PipeStream
  WITH ordered <- ~unreliable, accepted <- sent, refused <- failed,
       stream <- Delivered

ImplementsStream == Stream!Spec

(* Why InOrder and NothingStranded hold: on a reliable pipe every number   *)
(* stands for one packet of the send window.                               *)
Pending(id, num) ==
  /\ Len(Delivered) < id
  /\ id <= sent
  /\ id \notin failed
  /\ num = id % Modulus

NumbersMatch ==
  ~unreliable =>
    /\ send_packet_number = sent % Modulus
    /\ recv_packet_number = Len(Delivered) % Modulus
    /\ Len(Delivered) <= sent
    /\ sent <= Len(Delivered) + Modulus
    /\ failed \subseteq 1 .. sent
    /\ failed \cap 1 .. Len(Delivered) = {}
    /\ \A p \in network : Pending(p.id, p.num)
    /\ \A n \in DOMAIN out_of_order_packets :
         /\ Pending(out_of_order_packets[n], n)
         /\ \A p \in network : p.id # out_of_order_packets[n]

(* Why Settled holds: until it comes out, a packet that was not refused is *)
(* under way or waits for its turn.                                        *)
Kept(id) ==
  \/ id \in failed
  \/ \E p \in network : p.id = id
  \/ \E n \in DOMAIN out_of_order_packets : out_of_order_packets[n] = id

NothingLost ==
  ~unreliable /\ ~closed /\ ~ignore_incoming_packets =>
    \A id \in Len(Delivered) + 1 .. sent : Kept(id)

(* Why AtMostOnce holds on an unreliable pipe: every packet stands for     *)
(* itself, and a message still under way has not come out.                 *)
Undelivered(id) ==
  /\ id \in (1 .. sent) \ failed
  /\ \A i \in 1 .. Len(Delivered) : Delivered[i] # id

NeverTwice ==
  unreliable =>
    /\ AtMostOnce
    /\ failed \subseteq 1 .. sent
    /\ \A i \in 1 .. Len(Delivered) : Delivered[i] <= sent
    /\ \A p \in network : Undelivered(p.id)
    /\ \A p, q \in network : p.id = q.id => p = q

IInv == TypeOK /\ NumbersMatch /\ InOrder /\ NothingStranded /\ NeverTwice
=============================================================================
