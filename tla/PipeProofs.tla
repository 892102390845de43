----------------------------- MODULE PipeProofs -----------------------------
(***************************************************************************)
(* Proofs about PipeEndpoint, for every number of packet numbers, every    *)
(* set of reading threads, every bound on the packets sent, and pipes of   *)
(* either kind; and about PipeMember, for every set of connects, whatever  *)
(* index each asks for and whichever ends are closed.                      *)
(***************************************************************************)
EXTENDS PipeEndpoint, PipeMember, TLAPS

-----------------------------------------------------------------------------
(* Remainders, for every modulus.                                          *)

(* Quotient and remainder, for every modulus.                              *)
LEMMA Division ==
  ASSUME NEW m \in Nat \ {0}, NEW a \in Nat
  PROVE  /\ a = (a \div m) * m + (a % m)
         /\ a % m \in 0 .. m - 1
         /\ a \div m \in Nat
  OBVIOUS

(* Two different multiples of m are at least m apart.                      *)
LEMMA MultiplesApart ==
  ASSUME NEW m \in Nat \ {0}, NEW p \in Int, NEW q \in Int, p > q
  PROVE  p * m >= q * m + m
  OBVIOUS

(* The remainder is the only number below m that differs from a by a       *)
(* multiple of m.                                                          *)
LEMMA RemainderUnique ==
  ASSUME NEW m \in Nat \ {0}, NEW a \in Nat, NEW r \in 0 .. m - 1,
         NEW q \in Nat, a = q * m + r
  PROVE  a % m = r
  <1> DEFINE p == a \div m
             s == a % m
  <1>1. a = p * m + s /\ s \in 0 .. m - 1 /\ p \in Nat
    BY Division
  <1> HIDE DEF p, s
  <1>2. CASE p > q
    BY <1>1, <1>2, MultiplesApart
  <1>3. CASE q > p
    BY <1>1, <1>3, MultiplesApart
  <1>4. CASE p = q
    BY <1>1, <1>4 DEF s
  <1>5. QED
    BY <1>1, <1>2, <1>3, <1>4

(* Numbers that are less than m apart and have the same remainder are      *)
(* equal: a window of m packets determines a packet by its number.         *)
LEMMA WindowUnique ==
  ASSUME NEW m \in Nat \ {0}, NEW a \in Nat, NEW b \in Nat,
         a - b < m, b - a < m, a % m = b % m
  PROVE  a = b
  <1> DEFINE p == a \div m
             q == b \div m
             s == a % m
  <1>1. a = p * m + s /\ p \in Nat /\ s \in 0 .. m - 1
    BY Division
  <1>2. b = q * m + s /\ q \in Nat
    BY Division
  <1> HIDE DEF p, q, s
  <1>3. CASE p > q
    BY <1>1, <1>2, <1>3, MultiplesApart
  <1>4. CASE q > p
    BY <1>1, <1>2, <1>4, MultiplesApart
  <1>5. CASE p = q
    BY <1>1, <1>2, <1>5
  <1>6. QED
    BY <1>1, <1>2, <1>3, <1>4, <1>5

(* Counting on from a remainder and counting on from the number itself     *)
(* lead to the same remainder.                                             *)
LEMMA RemainderOfSum ==
  ASSUME NEW m \in Nat \ {0}, NEW a \in Nat, NEW i \in Nat
  PROVE  ((a % m) + i) % m = (a + i) % m
  <1> DEFINE p == a \div m
             s == a % m
             t == (s + i) % m
             q == (s + i) \div m
  <1>1. a = p * m + s /\ p \in Nat /\ s \in 0 .. m - 1
    BY Division
  <1>2. s + i = q * m + t /\ q \in Nat /\ t \in 0 .. m - 1
    <2>1. s + i \in Nat
      <3> HIDE DEF p, s
      <3>1. QED
        BY <1>1
    <2>2. QED
      <3> HIDE DEF p, s
      <3>1. QED
        BY <2>1, Division
  <1>3. a + i = (p + q) * m + t
    <2> HIDE DEF p, q, s, t
    <2>1. (p + q) * m = p * m + q * m
      BY <1>1, <1>2
    <2>2. QED
      BY <1>1, <1>2, <2>1
  <1>4. (a + i) % m = t
    <2> HIDE DEF p, q, s, t
    <2>1. p + q \in Nat /\ a + i \in Nat
      BY <1>1, <1>2
    <2>2. QED
      BY <1>2, <1>3, <2>1, RemainderUnique
  <1>5. QED
    BY <1>4

USE ModulusAssumption, BoundsAssumption

-----------------------------------------------------------------------------
(* Packet numbers.                                                         *)

LEMMA IncrementIsFollowing ==
  ASSUME NEW a \in Nat
  PROVE  increment_packet_number(a % Modulus) = (a + 1) % Modulus
  <1> DEFINE s == a % Modulus
             q == a \div Modulus
  <1>1. a = q * Modulus + s /\ s \in 0 .. Modulus - 1 /\ q \in Nat
    BY Division
  <1> HIDE DEF s, q
  <1>2. CASE s < Modulus - 1
    <2>1. a + 1 = q * Modulus + (s + 1) /\ s + 1 \in 0 .. Modulus - 1
      BY <1>1, <1>2
    <2>2. (a + 1) % Modulus = s + 1
      BY <1>1, <2>1, RemainderUnique
    <2>3. QED
      BY <1>2, <2>2 DEF increment_packet_number, s
  <1>3. CASE s = Modulus - 1
    <2>1. a + 1 = (q + 1) * Modulus + 0
      BY <1>1, <1>3
    <2>2. (a + 1) % Modulus = 0
      BY <1>1, <2>1, RemainderUnique
    <2>3. QED
      BY <1>1, <1>3, <2>2 DEF increment_packet_number, s
  <1>4. QED
    BY <1>1, <1>2, <1>3

LEMMA FollowingIsRemainder ==
  ASSUME NEW a \in Nat, NEW i \in Nat
  PROVE  /\ Following(a % Modulus, i) = (a + i) % Modulus
         /\ Following(a % Modulus, i) \in Numbers
  <1>1. Following(a % Modulus, i) = (a + i) % Modulus
    BY RemainderOfSum DEF Following
  <1>2. a + i \in Nat
    OBVIOUS
  <1>3. QED
    BY <1>1, <1>2, Division DEF Numbers

-----------------------------------------------------------------------------
(* Sequences.                                                              *)

LEMMA ConcatLength ==
  ASSUME NEW s \in Seq(Nat), NEW t \in Seq(Nat)
  PROVE  s \o t \in Seq(Nat) /\ Len(s \o t) = Len(s) + Len(t)
  OBVIOUS

LEMMA AppendParts ==
  ASSUME NEW c \in Seq(Nat), NEW q \in Seq(Nat), NEW x \in Nat,
         NEW e \in Seq(Nat)
  PROVE  /\ c \o (Append(q, x) \o e) \in Seq(Nat)
         /\ Len(c \o (Append(q, x) \o e)) = Len(c \o q) + 1 + Len(e)
         /\ \A i \in 1 .. Len(c \o q) :
              (c \o (Append(q, x) \o e))[i] = (c \o q)[i]
         /\ (c \o (Append(q, x) \o e))[Len(c \o q) + 1] = x
         /\ \A j \in 1 .. Len(e) :
              (c \o (Append(q, x) \o e))[Len(c \o q) + 1 + j] = e[j]
  OBVIOUS

LEMMA MoveHead ==
  ASSUME NEW c \in Seq(Nat), NEW q \in Seq(Nat), q # <<>>
  PROVE  /\ Append(c, Head(q)) \in Seq(Nat)
         /\ Tail(q) \in Seq(Nat)
         /\ Append(c, Head(q)) \o Tail(q) = c \o q
  OBVIOUS

-----------------------------------------------------------------------------
(* The inductive invariant.                                                *)

LEMMA InitIInv == Init => IInv
  <1> SUFFICES ASSUME Init PROVE IInv
    OBVIOUS
  <1>1. Delivered = <<>> /\ Len(Delivered) = 0
    BY DEF Init, Delivered
  <1>2. TypeOK
    <2>1. out_of_order_packets \in [DOMAIN out_of_order_packets -> Nat]
          /\ DOMAIN out_of_order_packets \subseteq Numbers
      BY DEF Init
    <2>2. receiver \in [Receivers -> {"idle", "blocked", "woken"}]
      BY DEF Init
    <2>3. QED
      <3>1. 0 \in Numbers /\ <<>> \in Seq(Nat)
        BY DEF Numbers
      <3>2. QED
        BY <2>1, <2>2, <3>1 DEF Init, TypeOK
  <1>3. 0 % Modulus = 0
    BY RemainderUnique
  <1>4. NumbersMatch
    BY <1>1, <1>3 DEF Init, NumbersMatch
  <1>5. InOrder /\ NothingStranded
    BY <1>1 DEF Init, InOrder, NothingStranded
  <1>6. NeverTwice
    BY <1>1 DEF Init, NeverTwice, AtMostOnce
  <1>7. QED
    BY <1>2, <1>4, <1>5, <1>6 DEF IInv

LEMMA DeliveredIsSequence ==
  TypeOK => Delivered \in Seq(Nat) /\ Len(Delivered) \in Nat
  BY DEF TypeOK, Delivered

(* The sender takes the next number; what is pending stays so.             *)
LEMMA TakeNumberKeeps ==
  ASSUME IInv, TakeNumber, UNCHANGED <<recv_packets, consumed>>
  PROVE  /\ Delivered' = Delivered
         /\ unreliable' = unreliable
         /\ sent' = sent + 1 /\ sent \in Nat
         /\ send_packet_number' \in Numbers
         /\ ~unreliable =>
              /\ send_packet_number' = sent' % Modulus
              /\ Len(Delivered) < sent'
              /\ sent' <= Len(Delivered) + Modulus
  <1>1. /\ Delivered' = Delivered /\ sent' = sent + 1 /\ sent \in Nat
        /\ unreliable' = unreliable
    BY DEF IInv, TypeOK, TakeNumber, Delivered
  <1>2. send_packet_number' \in Numbers
    BY DEF IInv, TypeOK, TakeNumber, increment_packet_number, Numbers
  <1>3. ASSUME ~unreliable
        PROVE  send_packet_number' = sent' % Modulus
    BY <1>1, <1>3, IncrementIsFollowing
       DEF IInv, NumbersMatch, TakeNumber
  <1>4. ASSUME ~unreliable
        PROVE  Len(Delivered) < sent' /\ sent' <= Len(Delivered) + Modulus
    <2>1. Len(Delivered) \in Nat /\ Len(Delivered) <= sent
      BY <1>4, DeliveredIsSequence DEF IInv, NumbersMatch
    <2>2. QED
      BY <1>1, <2>1 DEF TakeNumber, WindowOpen
  <1>5. QED
    BY <1>1, <1>2, <1>3, <1>4

LEMMA SendKeepsIInv == IInv /\ SendPacket => IInv'
  <1> SUFFICES ASSUME IInv, SendPacket PROVE IInv'
    OBVIOUS
  <1> DEFINE m == [num |-> send_packet_number', id |-> sent']
  <1>1. /\ Delivered' = Delivered
        /\ unreliable' = unreliable
        /\ sent' = sent + 1 /\ sent \in Nat
        /\ send_packet_number' \in Numbers
        /\ ~unreliable =>
              /\ send_packet_number' = sent' % Modulus
              /\ Len(Delivered) < sent'
              /\ sent' <= Len(Delivered) + Modulus
    BY TakeNumberKeeps DEF SendPacket
  <1>2. /\ network' = network \cup {m}
        /\ UNCHANGED <<failed, orderVars, recv_packets, consumed,
                       ignore_incoming_packets, closed, receiver>>
    BY DEF SendPacket
  <1>3. TypeOK'
    BY <1>1, <1>2 DEF IInv, TypeOK, orderVars
  <1>4. ASSUME ~unreliable PROVE NumbersMatch'
    <2>1. /\ failed \subseteq 1 .. sent
          /\ \A p \in network : Pending(p.id, p.num)
          /\ \A n \in DOMAIN out_of_order_packets :
               Pending(out_of_order_packets[n], n)
      BY <1>4 DEF IInv, NumbersMatch
    <2>2. sent' \notin failed /\ Len(Delivered) \in Nat
      BY <1>1, <2>1, DeliveredIsSequence DEF IInv
    <2>3. ASSUME NEW p, p = m
          PROVE  Pending(p.id, p.num)'
      BY <1>1, <1>2, <1>4, <2>2, <2>3 DEF Pending
    <2>4. ASSUME NEW id \in Nat, NEW num, Pending(id, num)
          PROVE  Pending(id, num)' /\ id # sent'
      BY <1>1, <1>2, <2>4 DEF Pending
    <2>5. ASSUME NEW p \in network' PROVE Pending(p.id, p.num)'
      <3>1. CASE p \in network
        BY <2>1, <2>4, <3>1 DEF IInv, TypeOK
      <3>2. CASE p = m
        BY <2>3, <3>2
      <3>3. QED
        BY <1>2, <3>1, <3>2
    <2>6. ASSUME NEW n \in DOMAIN out_of_order_packets
          PROVE  /\ Pending(out_of_order_packets[n], n)'
                 /\ \A p \in network' : p.id # out_of_order_packets[n]
      <3>1. out_of_order_packets[n] \in Nat
        BY DEF IInv, TypeOK
      <3>2. Pending(out_of_order_packets[n], n)'
            /\ out_of_order_packets[n] # sent'
        BY <2>1, <2>4, <3>1, <1>2 DEF orderVars
      <3>3. QED
        BY <1>2, <1>4, <3>2 DEF IInv, NumbersMatch
    <2>7. failed' \subseteq 1 .. sent'
          /\ failed' \cap 1 .. Len(Delivered') = {}
      BY <1>1, <1>2, <1>4, <2>1 DEF IInv, NumbersMatch
    <2>8. QED
      BY <1>1, <1>2, <1>4, <2>2, <2>5, <2>6, <2>7
         DEF NumbersMatch, orderVars, IInv
  <1>5. InOrder' /\ NothingStranded'
    BY <1>1, <1>2 DEF IInv, InOrder, NothingStranded, orderVars,
                      increment_packet_number
  <1>6. ASSUME unreliable PROVE NeverTwice'
    <2>1. NeverTwice /\ Delivered \in Seq(Nat)
      BY DeliveredIsSequence DEF IInv
    <2>2. ASSUME NEW id, Undelivered(id)
          PROVE  Undelivered(id)' /\ id # sent'
      BY <1>1, <1>2, <2>2 DEF Undelivered
    <2>3. ASSUME NEW id, id = sent' PROVE Undelivered(id)'
      <3>1. sent' \in 1 .. sent' /\ sent' \notin failed
        BY <1>1, <1>6, <2>1 DEF NeverTwice
      <3>2. \A i \in 1 .. Len(Delivered) : Delivered[i] # sent'
        BY <1>1, <1>6, <2>1 DEF NeverTwice
      <3>3. QED
        BY <1>1, <1>2, <2>3, <3>1, <3>2 DEF Undelivered
    <2>4. ASSUME NEW p \in network' PROVE Undelivered(p.id)'
      <3>1. CASE p \in network
        BY <1>6, <2>1, <2>2, <3>1 DEF NeverTwice
      <3>2. CASE p = m
        BY <2>3, <3>2
      <3>3. QED
        BY <1>2, <3>1, <3>2
    <2>5. \A p, q \in network' : p.id = q.id => p = q
      <3>1. m.id = sent' /\ \A p \in network : p.id # sent'
        BY <1>6, <2>1, <2>2 DEF NeverTwice
      <3>2. QED
        BY <1>2, <1>6, <2>1, <3>1 DEF NeverTwice
    <2>6. /\ AtMostOnce' /\ failed' \subseteq 1 .. sent'
          /\ \A i \in 1 .. Len(Delivered') : Delivered'[i] <= sent'
      <3>1. AtMostOnce'
        BY <1>1, <1>6, <2>1 DEF NeverTwice, AtMostOnce
      <3>2. failed' \subseteq 1 .. sent'
        BY <1>1, <1>2, <1>6, <2>1 DEF NeverTwice
      <3>3. \A i \in 1 .. Len(Delivered') : Delivered'[i] <= sent'
        BY <1>1, <1>6, <2>1 DEF NeverTwice
      <3>4. QED
        BY <3>1, <3>2, <3>3
    <2>7. QED
      BY <2>4, <2>5, <2>6 DEF NeverTwice
  <1>7. QED
    BY <1>1, <1>3, <1>4, <1>5, <1>6 DEF IInv, NumbersMatch, NeverTwice

LEMMA ThrowKeepsIInv == IInv /\ SendPacketThrows => IInv'
  <1> SUFFICES ASSUME IInv, SendPacketThrows PROVE IInv'
    OBVIOUS
  <1>1. /\ Delivered' = Delivered
        /\ unreliable' = unreliable
        /\ sent' = sent + 1 /\ sent \in Nat
        /\ send_packet_number' \in Numbers
        /\ ~unreliable =>
              /\ send_packet_number' = sent' % Modulus
              /\ Len(Delivered) < sent'
              /\ sent' <= Len(Delivered) + Modulus
    BY TakeNumberKeeps DEF SendPacketThrows
  <1>2. /\ failed' = failed \cup {sent'}
        /\ UNCHANGED <<network, orderVars, recv_packets, consumed,
                       ignore_incoming_packets, closed, receiver>>
    BY DEF SendPacketThrows
  <1>3. TypeOK'
    BY <1>1, <1>2 DEF IInv, TypeOK, orderVars
  <1>4. ASSUME ~unreliable PROVE NumbersMatch'
    <2>1. /\ failed \subseteq 1 .. sent
          /\ failed \cap 1 .. Len(Delivered) = {}
          /\ \A p \in network : Pending(p.id, p.num)
          /\ \A n \in DOMAIN out_of_order_packets :
               Pending(out_of_order_packets[n], n)
      BY <1>4 DEF IInv, NumbersMatch
    <2>2. Len(Delivered) \in Nat
      BY DeliveredIsSequence DEF IInv
    <2>3. ASSUME NEW id \in Nat, NEW num, Pending(id, num)
          PROVE  Pending(id, num)'
      BY <1>1, <1>2, <2>3 DEF Pending
    <2>4. \A p \in network' : Pending(p.id, p.num)'
      BY <1>2, <2>1, <2>3 DEF IInv, TypeOK
    <2>5. ASSUME NEW n \in DOMAIN out_of_order_packets
          PROVE  Pending(out_of_order_packets[n], n)'
      <3>1. out_of_order_packets[n] \in Nat
        BY DEF IInv, TypeOK
      <3>2. QED
        BY <1>2, <2>1, <2>3, <3>1 DEF orderVars
    <2>6. failed' \subseteq 1 .. sent'
          /\ failed' \cap 1 .. Len(Delivered') = {}
      BY <1>1, <1>2, <1>4, <2>1, <2>2
    <2>7. QED
      BY <1>1, <1>2, <1>4, <2>2, <2>4, <2>5, <2>6
         DEF NumbersMatch, orderVars, IInv
  <1>5. InOrder' /\ NothingStranded'
    BY <1>1, <1>2 DEF IInv, InOrder, NothingStranded, orderVars,
                      increment_packet_number
  <1>6. ASSUME unreliable PROVE NeverTwice'
    <2>1. NeverTwice /\ Delivered \in Seq(Nat)
      BY DeliveredIsSequence DEF IInv
    <2>2. ASSUME NEW id, Undelivered(id)
          PROVE  Undelivered(id)'
      BY <1>1, <1>2, <2>2 DEF Undelivered
    <2>3. AtMostOnce'
      BY <1>1, <1>6, <2>1 DEF NeverTwice, AtMostOnce
    <2>4. failed' \subseteq 1 .. sent'
      BY <1>1, <1>2, <1>6, <2>1 DEF NeverTwice
    <2>5. \A i \in 1 .. Len(Delivered') : Delivered'[i] <= sent'
      BY <1>1, <1>6, <2>1 DEF NeverTwice
    <2>6. /\ \A p \in network' : Undelivered(p.id)'
          /\ \A p, q \in network' : p.id = q.id => p = q
      BY <1>2, <1>6, <2>1, <2>2 DEF NeverTwice
    <2>7. QED
      BY <2>3, <2>4, <2>5, <2>6 DEF NeverTwice
  <1>7. QED
    BY <1>1, <1>3, <1>4, <1>5, <1>6 DEF IInv, NumbersMatch, NeverTwice

(* A step that only takes messages out of the network, or moves packets    *)
(* from the queue to a reader, disturbs nothing.                           *)
LEMMA OrderUnchanged ==
  ASSUME IInv, TypeOK', UNCHANGED <<senderVars, orderVars>>,
         Delivered' = Delivered, network' \subseteq network
  PROVE  IInv'
  <1>1. \A id, num : Pending(id, num)' <=> Pending(id, num)
    BY DEF Pending, senderVars
  <1>2. NumbersMatch'
    BY <1>1 DEF IInv, NumbersMatch, senderVars, orderVars
  <1>3. InOrder' /\ NothingStranded'
    BY DEF IInv, InOrder, NothingStranded, senderVars, orderVars,
           increment_packet_number
  <1>4. ASSUME unreliable PROVE NeverTwice'
    <2>1. NeverTwice
      BY DEF IInv
    <2>2. \A id : Undelivered(id)' <=> Undelivered(id)
      BY DEF Undelivered, senderVars
    <2>3. AtMostOnce' <=> AtMostOnce
      BY DEF AtMostOnce
    <2>4. QED
      BY <1>4, <2>1, <2>2, <2>3 DEF NeverTwice, senderVars
  <1>5. NeverTwice'
    BY <1>4 DEF NeverTwice, senderVars
  <1>6. QED
    BY <1>2, <1>3, <1>5 DEF IInv

LEMMA DropKeepsIInv ==
  ASSUME NEW p \in network, IInv,
         LosePacket(p) \/ DropForClosed(p) \/ IgnoreIncoming(p)
  PROVE  IInv'
  <1>1. /\ network' \subseteq network
        /\ UNCHANGED <<senderVars, orderVars, recv_packets, consumed,
                       ignore_incoming_packets, closed, receiver>>
    BY DEF LosePacket, DropForClosed, IgnoreIncoming
  <1>2. TypeOK'
    BY <1>1 DEF IInv, TypeOK, senderVars, orderVars
  <1>3. Delivered' = Delivered
    BY <1>1 DEF Delivered
  <1>4. QED
    BY <1>1, <1>2, <1>3, OrderUnchanged

LEMMA NotifyKeepsType ==
  TypeOK /\ NotifyAll =>
    receiver' \in [Receivers -> {"idle", "blocked", "woken"}]
  BY DEF TypeOK, NotifyAll

(* The packet that comes out of an unreliable pipe is one that was not out *)
(* yet.                                                                    *)
LEMMA UnreliableKeepsIInv ==
  ASSUME NEW p \in network, IInv, ReceiveUnreliable(p)
  PROVE  /\ IInv'
         /\ Undelivered(p.id)
         /\ Delivered' = Append(Delivered, p.id)
  <1>1. p.id \in Nat /\ recv_packets \in Seq(Nat) /\ consumed \in Seq(Nat)
    BY DEF IInv, TypeOK
  <1>2. recv_packets' \in Seq(Nat)
    BY <1>1 DEF ReceiveUnreliable
  <1>3. TypeOK'
    BY <1>2, NotifyKeepsType
       DEF ReceiveUnreliable, IInv, TypeOK, senderVars, orderVars
  <1>4. unreliable /\ unreliable' /\ UNCHANGED <<sent, failed>>
        /\ network' = network \ {p}
    BY DEF ReceiveUnreliable, senderVars
  <1>5. Delivered' = Append(Delivered, p.id)
    BY <1>1 DEF ReceiveUnreliable, Delivered
  <1>6. Delivered \in Seq(Nat) /\ NeverTwice
    BY DeliveredIsSequence DEF IInv
  <1>7. /\ AtMostOnce
        /\ failed \subseteq 1 .. sent
        /\ \A i \in 1 .. Len(Delivered) : Delivered[i] <= sent
        /\ \A q \in network : Undelivered(q.id)
        /\ \A q, r \in network : q.id = r.id => q = r
    BY <1>4, <1>6 DEF NeverTwice
  <1>8. Undelivered(p.id)
    BY <1>7
  <1>9. /\ Len(Delivered') = Len(Delivered) + 1
        /\ Delivered'[Len(Delivered) + 1] = p.id
        /\ \A i \in 1 .. Len(Delivered) : Delivered'[i] = Delivered[i]
        /\ Len(Delivered) \in Nat
    BY <1>1, <1>5, <1>6
  <1>10. AtMostOnce'
    <2>1. SUFFICES ASSUME NEW i \in 1 .. Len(Delivered'),
                          NEW j \in 1 .. Len(Delivered'),
                          Delivered'[i] = Delivered'[j]
                   PROVE  i = j
      BY DEF AtMostOnce
    <2>2. CASE i \in 1 .. Len(Delivered) /\ j \in 1 .. Len(Delivered)
      BY <1>7, <1>9, <2>1, <2>2 DEF AtMostOnce
    <2>3. \A n \in 1 .. Len(Delivered) : Delivered'[n] # p.id
      BY <1>8, <1>9 DEF Undelivered
    <2>4. CASE i = Len(Delivered) + 1 \/ j = Len(Delivered) + 1
      BY <1>9, <2>1, <2>3, <2>4
    <2>5. QED
      BY <1>9, <2>2, <2>4
  <1>11. \A i \in 1 .. Len(Delivered') : Delivered'[i] <= sent
    BY <1>7, <1>8, <1>9 DEF Undelivered
  <1>12. ASSUME NEW q \in network' PROVE Undelivered(q.id)'
    <2>1. q \in network /\ q.id # p.id /\ Undelivered(q.id)
      BY <1>4, <1>7
    <2>2. QED
      BY <1>4, <1>9, <2>1 DEF Undelivered
  <1>13. NeverTwice'
    BY <1>4, <1>7, <1>10, <1>11, <1>12 DEF NeverTwice
  <1>14. QED
    BY <1>3, <1>4, <1>5, <1>8, <1>13
       DEF IInv, NumbersMatch, InOrder, NothingStranded

LEMMA TakeKeepsDelivered ==
  ASSUME TypeOK, NEW peek \in BOOLEAN, TakePacket(peek)
  PROVE  /\ Delivered' = Delivered
         /\ recv_packets' \in Seq(Nat)
         /\ consumed' \in Seq(Nat)
  <1>1. recv_packets \in Seq(Nat) /\ consumed \in Seq(Nat)
    BY DEF TypeOK
  <1>2. CASE peek
    BY <1>1, <1>2 DEF TakePacket, Delivered
  <1>3. CASE ~peek
    BY <1>1, <1>3, MoveHead DEF TakePacket, Delivered
  <1>4. QED
    BY <1>2, <1>3

LEMMA ReaderKeepsIInv ==
  ASSUME NEW r \in Receivers, IInv,
         \/ TryReceive(r)
         \/ TryReceiveWait(r)
         \/ ReceiveTimeout(r)
         \/ ReceiveWoken(r)
  PROVE  IInv'
  <1>1. UNCHANGED <<senderVars, network, orderVars, ignore_incoming_packets,
                    closed>>
    BY DEF TryReceive, TryReceiveWait, ReceiveTimeout, ReceiveWoken
  <1>2. \/ \E peek \in BOOLEAN : TakePacket(peek)
        \/ UNCHANGED <<recv_packets, consumed>>
    BY DEF TryReceive, TryReceiveWait, ReceiveTimeout, ReceiveWoken
  <1>3. /\ Delivered' = Delivered
        /\ recv_packets' \in Seq(Nat)
        /\ consumed' \in Seq(Nat)
    <2>1. CASE \E peek \in BOOLEAN : TakePacket(peek)
      BY <2>1, TakeKeepsDelivered DEF IInv
    <2>2. CASE UNCHANGED <<recv_packets, consumed>>
      BY <2>2 DEF IInv, TypeOK, Delivered
    <2>3. QED
      BY <1>2, <2>1, <2>2
  <1>4. receiver' \in [Receivers -> {"idle", "blocked", "woken"}]
    BY DEF IInv, TypeOK, TryReceive, TryReceiveWait, ReceiveTimeout,
           ReceiveWoken
  <1>5. TypeOK'
    BY <1>1, <1>3, <1>4 DEF IInv, TypeOK, senderVars, orderVars
  <1>6. QED
    BY <1>1, <1>3, <1>5, OrderUnchanged

LEMMA ControlKeepsIInv ==
  ASSUME IInv, Close \/ SetIgnoreReceived \/ UNCHANGED vars
  PROVE  IInv'
  <1>1. UNCHANGED <<senderVars, network, orderVars, recv_packets, consumed>>
    BY DEF Close, SetIgnoreReceived, vars
  <1>2. /\ ignore_incoming_packets' \in BOOLEAN
        /\ closed' \in BOOLEAN
        /\ receiver' \in [Receivers -> {"idle", "blocked", "woken"}]
    BY NotifyKeepsType DEF Close, SetIgnoreReceived, vars, IInv, TypeOK
  <1>3. TypeOK'
    BY <1>1, <1>2 DEF IInv, TypeOK, senderVars, orderVars
  <1>4. Delivered' = Delivered
    BY <1>1 DEF Delivered
  <1>5. QED
    BY <1>1, <1>3, <1>4, OrderUnchanged

(* In the send window a pending packet is known by its number.             *)
LEMMA PendingUnique ==
  ASSUME IInv, ~unreliable, NEW id \in Nat, NEW i \in 1 .. Modulus,
         Pending(id, (Len(Delivered) + i) % Modulus)
  PROVE  id = Len(Delivered) + i
  <1> DEFINE L == Len(Delivered)
  <1>1. L \in Nat /\ sent <= L + Modulus /\ sent \in Nat
    BY DeliveredIsSequence DEF IInv, TypeOK, NumbersMatch
  <1>2. /\ L < id
        /\ id <= sent
        /\ id % Modulus = (L + i) % Modulus
    BY DEF Pending
  <1> HIDE DEF L
  <1>3. id - (L + i) < Modulus /\ (L + i) - id < Modulus /\ L + i \in Nat
    BY <1>1, <1>2
  <1>4. id = L + i
    BY <1>2, <1>3, WindowUnique
  <1>5. QED
    BY <1>4 DEF L

LEMMA OutOfOrderKeepsIInv ==
  ASSUME NEW p \in network, IInv, ReceiveOutOfOrder(p)
  PROVE  IInv'
  <1>1. /\ UNCHANGED <<senderVars, recv_packet_number, recv_packets, consumed,
                       ignore_incoming_packets, closed, receiver>>
        /\ network' = network \ {p}
        /\ out_of_order_packets' =
             [n \in DOMAIN out_of_order_packets \cup {p.num} |->
                IF n \in DOMAIN out_of_order_packets
                THEN out_of_order_packets[n] ELSE p.id]
        /\ ~IsNext(p) /\ ~unreliable
    BY DEF ReceiveOutOfOrder
  <1>2. p.id \in Nat /\ p.num \in Numbers
    BY DEF IInv, TypeOK
  <1>3. out_of_order_packets' \in [DOMAIN out_of_order_packets' -> Nat]
        /\ DOMAIN out_of_order_packets' \subseteq Numbers
    BY <1>1, <1>2 DEF IInv, TypeOK
  <1>4. TypeOK'
    BY <1>1, <1>3 DEF IInv, TypeOK, senderVars
  <1>5. Delivered' = Delivered
    BY <1>1 DEF Delivered
  <1>6. \A id, num : Pending(id, num)' <=> Pending(id, num)
    BY <1>1, <1>5 DEF Pending, senderVars
  <1>7. ASSUME NEW q \in network, q.id = p.id PROVE q = p
    <2>1. q.num = p.num
      BY <1>1, <1>7 DEF IInv, NumbersMatch, Pending
    <2>2. q \in [num : Numbers, id : Nat] /\ p \in [num : Numbers, id : Nat]
      BY DEF IInv, TypeOK
    <2>3. QED
      BY <1>7, <2>1, <2>2
  <1>8. ASSUME NEW n \in DOMAIN out_of_order_packets'
        PROVE  /\ Pending(out_of_order_packets'[n], n)
               /\ \A q \in network' : q.id # out_of_order_packets'[n]
    <2>1. CASE n \in DOMAIN out_of_order_packets
      BY <1>1, <2>1 DEF IInv, NumbersMatch
    <2>2. CASE n \notin DOMAIN out_of_order_packets
      <3>1. n = p.num /\ out_of_order_packets'[n] = p.id
        BY <1>1, <2>2
      <3>2. Pending(p.id, p.num)
        BY <1>1 DEF IInv, NumbersMatch
      <3>3. QED
        BY <1>1, <1>7, <3>1, <3>2
    <2>3. QED
      BY <2>1, <2>2
  <1>9. NumbersMatch'
    <2>1. \A q \in network' : Pending(q.id, q.num)'
      BY <1>1, <1>6 DEF IInv, NumbersMatch
    <2>2. \A n \in DOMAIN out_of_order_packets' :
            /\ Pending(out_of_order_packets[n], n)'
            /\ \A q \in network' : q.id # out_of_order_packets'[n]
      BY <1>6, <1>8
    <2>3. QED
      BY <1>1, <1>5, <2>1, <2>2 DEF IInv, NumbersMatch, senderVars
  <1>10. InOrder' /\ NothingStranded'
    BY <1>1, <1>5 DEF IInv, InOrder, NothingStranded, IsNext,
                      increment_packet_number
  <1>11. NeverTwice'
    BY <1>1 DEF NeverTwice, senderVars
  <1>12. QED
    BY <1>4, <1>9, <1>10, <1>11 DEF IInv

(* The packet whose turn it is and the k early ones that follow it are the *)
(* next k + 1 packets of the stream.                                       *)
LEMMA InOrderKeepsIInv ==
  ASSUME NEW p \in network, IInv, ReceiveInOrder(p)
  PROVE  /\ IInv'
         /\ \E n \in Len(Delivered) + 1 .. sent :
              /\ (Len(Delivered) + 1 .. n) \cap failed = {}
              /\ Len(Delivered') = n
  <1> DEFINE L == Len(Delivered)
             oo == out_of_order_packets
  <1>1. L \in Nat /\ Delivered \in Seq(Nat) /\ sent \in Nat
    BY DeliveredIsSequence DEF IInv, TypeOK
  <1>2. /\ ~unreliable
        /\ recv_packet_number = L % Modulus
        /\ L <= sent /\ sent <= L + Modulus
        /\ failed \subseteq 1 .. sent
        /\ failed \cap 1 .. L = {}
        /\ \A q \in network : Pending(q.id, q.num)
        /\ \A n \in DOMAIN oo :
             /\ Pending(oo[n], n)
             /\ \A q \in network : q.id # oo[n]
    BY DEF ReceiveInOrder, IInv, NumbersMatch
  <1>3. /\ p.id \in Nat
        /\ network \subseteq [num : Numbers, id : Nat]
        /\ oo \in [DOMAIN oo -> Nat] /\ DOMAIN oo \subseteq Numbers
        /\ recv_packets \in Seq(Nat) /\ consumed \in Seq(Nat)
    BY DEF IInv, TypeOK
  <1>4. p.num = (L + 1) % Modulus
    BY <1>1, <1>2, IncrementIsFollowing DEF ReceiveInOrder, IsNext
  <1>5. p.id = L + 1
    <2>1. 1 \in 1 .. Modulus /\ Pending(p.id, (L + 1) % Modulus)
      BY <1>2, <1>4
    <2>2. QED
      BY <1>2, <1>3, <2>1, PendingUnique
  <1>6. /\ UNCHANGED <<senderVars, consumed, ignore_incoming_packets, closed>>
        /\ network' = network \ {p}
        /\ NotifyAll
    BY DEF ReceiveInOrder
  <1>7. PICK k \in 0 .. Modulus - 1 :
          /\ DrainsExactly(p.num, k)
          /\ recv_packet_number' = Following(p.num, k)
          /\ recv_packets' = Append(recv_packets, p.id)
               \o [i \in 1 .. k |-> oo[Following(p.num, i)]]
          /\ oo' = [n \in DOMAIN oo \ {Following(p.num, i) : i \in 1 .. k} |->
                      oo[n]]
    BY DEF ReceiveInOrder
  <1> DEFINE early == [i \in 1 .. k |-> oo[Following(p.num, i)]]
  <1>8. ASSUME NEW i \in Nat
        PROVE  /\ Following(p.num, i) = (L + (1 + i)) % Modulus
               /\ Following(p.num, i) \in Numbers
    <2>1. L + 1 \in Nat /\ (L + 1) + i = L + (1 + i)
      BY <1>1
    <2>2. QED
      BY <1>4, <2>1, FollowingIsRemainder
  <1>9. ASSUME NEW i \in 1 .. k
        PROVE  /\ Following(p.num, i) \in DOMAIN oo
               /\ oo[Following(p.num, i)] = L + 1 + i
               /\ Pending(L + 1 + i, Following(p.num, i))
    <2>1. Following(p.num, i) \in DOMAIN oo
      BY <1>7 DEF DrainsExactly
    <2>2. Pending(oo[Following(p.num, i)], (L + (1 + i)) % Modulus)
      BY <1>2, <1>8, <2>1
    <2>3. oo[Following(p.num, i)] \in Nat /\ 1 + i \in 1 .. Modulus
      BY <1>3, <1>7, <2>1
    <2>4. oo[Following(p.num, i)] = L + (1 + i)
      BY <1>2, <2>2, <2>3, PendingUnique
    <2>5. L + (1 + i) = L + 1 + i
      BY <1>1
    <2>6. QED
      BY <1>2, <2>1, <2>4, <2>5
  <1>10. early \in Seq(Nat) /\ Len(early) = k
         /\ \A i \in 1 .. k : early[i] = L + 1 + i
    <2>1. \A i \in 1 .. k : early[i] = L + 1 + i /\ early[i] \in Nat
      BY <1>1, <1>9
    <2>2. early \in [1 .. k -> Nat]
      BY <2>1
    <2> HIDE DEF early
    <2>3. early \in Seq(Nat) /\ Len(early) = k
      BY <1>7, <2>2
    <2>4. QED
      BY <2>1, <2>3
  <1>11. /\ Delivered' \in Seq(Nat)
         /\ Len(Delivered') = L + 1 + k
         /\ \A i \in 1 .. L : Delivered'[i] = Delivered[i]
         /\ Delivered'[L + 1] = L + 1
         /\ \A i \in 1 .. k : Delivered'[L + 1 + i] = L + 1 + i
    <2> HIDE DEF early
    <2>1. Delivered' = consumed \o (Append(recv_packets, p.id) \o early)
      BY <1>6, <1>7 DEF Delivered, early
    <2>2. L = Len(consumed \o recv_packets)
          /\ \A i \in 1 .. L : Delivered[i] = (consumed \o recv_packets)[i]
      BY DEF Delivered
    <2> DEFINE D == consumed \o (Append(recv_packets, p.id) \o early)
    <2>3. /\ D \in Seq(Nat)
          /\ Len(D) = L + 1 + k
          /\ \A i \in 1 .. L : D[i] = Delivered[i]
          /\ D[L + 1] = p.id
          /\ \A i \in 1 .. k : D[L + 1 + i] = early[i]
      <3> DEFINE old == consumed \o recv_packets
      <3> HIDE DEF L
      <3>1. /\ early \in Seq(Nat) /\ Len(early) = k /\ p.id \in Nat
            /\ consumed \in Seq(Nat) /\ recv_packets \in Seq(Nat)
        BY <1>3, <1>10
      <3>2. /\ D \in Seq(Nat)
            /\ Len(D) = Len(old) + 1 + Len(early)
            /\ \A i \in 1 .. Len(old) : D[i] = old[i]
            /\ D[Len(old) + 1] = p.id
            /\ \A i \in 1 .. Len(early) : D[Len(old) + 1 + i] = early[i]
        <4>1. /\ D \in Seq(Nat)
              /\ \A i \in 1 .. Len(old) : D[i] = old[i]
              /\ D[Len(old) + 1] = p.id
              /\ \A i \in 1 .. Len(early) : D[Len(old) + 1 + i] = early[i]
          <5>1. D \in Seq(Nat)
            BY <3>1
          <5>2. \A i \in 1 .. Len(old) : D[i] = old[i]
            BY <3>1, AppendParts, SMTT(30)
          <5>3. D[Len(old) + 1] = p.id
            BY <3>1, AppendParts, SMTT(30)
          <5>4. \A i \in 1 .. Len(early) : D[Len(old) + 1 + i] = early[i]
            BY <3>1, AppendParts, SMTT(30)
          <5>5. QED
            BY <5>1, <5>2, <5>3, <5>4
        <4>2. Append(recv_packets, p.id) \in Seq(Nat)
              /\ Len(Append(recv_packets, p.id)) = Len(recv_packets) + 1
          BY <3>1
        <4>3. Len(D) = Len(consumed) + (Len(recv_packets) + 1) + Len(early)
          <5> DEFINE a == Append(recv_packets, p.id)
          <5>1. a \in Seq(Nat) /\ Len(a) = Len(recv_packets) + 1
            BY <4>2
          <5> HIDE DEF a, early
          <5>2. /\ a \o early \in Seq(Nat)
                /\ Len(a \o early) = Len(a) + Len(early)
            BY <3>1, <5>1, ConcatLength
          <5> DEFINE b == a \o early
          <5> HIDE DEF b
          <5>3. b \in Seq(Nat) /\ Len(b) = Len(a) + Len(early)
            BY <5>2 DEF b
          <5>4. Len(consumed \o b) = Len(consumed) + Len(b)
            BY <3>1, <5>3, ConcatLength
          <5>5. D = consumed \o b
            BY DEF b, a
          <5> HIDE DEF D
          <5>6. Len(consumed) \in Nat /\ Len(recv_packets) \in Nat
            BY <3>1
          <5>7. QED
            BY <3>1, <5>1, <5>3, <5>4, <5>5, <5>6
        <4>4. Len(old) = Len(consumed) + Len(recv_packets)
          BY <3>1
        <4>5. QED
          BY <3>1, <4>1, <4>3, <4>4
      <3> HIDE DEF D, old
      <3>3. L = Len(old) /\ \A i \in 1 .. L : Delivered[i] = old[i]
        BY <2>2 DEF old
      <3>4. QED
        BY <3>1, <3>2, <3>3
    <2>4. Delivered' = D
      BY <2>1
    <2> HIDE DEF D
    <2>5. QED
      BY <1>5, <1>10, <2>3, <2>4
  <1>12. ASSUME NEW i \in L + 1 .. L + 1 + k
         PROVE  i <= sent /\ i \notin failed /\ i \in Nat
    <2>1. CASE i = L + 1
      BY <1>1, <1>2, <1>5, <2>1 DEF Pending
    <2>2. CASE i # L + 1
      <3>1. i - (L + 1) \in 1 .. k /\ i = L + 1 + (i - (L + 1))
        BY <1>1, <1>7, <2>2
      <3>2. Pending(i, Following(p.num, i - (L + 1)))
        BY <1>9, <3>1
      <3>3. QED
        BY <1>1, <1>7, <3>2 DEF Pending
    <2>3. QED
      BY <2>1, <2>2
  <1>13. ASSUME NEW id \in Nat, NEW num, Pending(id, num), id # L + 1,
                \A i \in 1 .. k : id # L + 1 + i
         PROVE  Pending(id, num)'
    <2>1. L < id
      BY <1>13 DEF Pending
    <2>2. id > L + 1 + k
      <3>1. SUFFICES ASSUME id <= L + 1 + k PROVE FALSE
        BY <1>1, <1>7, <1>13
      <3>2. id - (L + 1) \in 1 .. k /\ id = L + 1 + (id - (L + 1))
        BY <1>1, <1>7, <1>13, <2>1, <3>1
      <3>3. QED
        BY <1>13, <3>2
    <2>3. QED
      BY <1>6, <1>11, <1>13, <2>2 DEF Pending, senderVars
  <1>14. ASSUME NEW q \in network' PROVE Pending(q.id, q.num)'
    <2>1. q \in network /\ q # p /\ q.id \in Nat /\ Pending(q.id, q.num)
      BY <1>2, <1>3, <1>6
    <2>2. q.id # L + 1
      <3>1. SUFFICES ASSUME q.id = p.id PROVE q = p
        BY <1>5, <2>1
      <3>2. q.num = p.num
        BY <1>2, <2>1, <3>1 DEF Pending
      <3>3. q \in [num : Numbers, id : Nat] /\ p \in [num : Numbers, id : Nat]
        BY <1>3, <2>1
      <3>4. QED
        BY <3>1, <3>2, <3>3
    <2>3. \A i \in 1 .. k : q.id # L + 1 + i
      BY <1>2, <1>9, <2>1
    <2>4. QED
      BY <1>13, <2>1, <2>2, <2>3
  <1>15. ASSUME NEW n \in DOMAIN oo'
         PROVE  /\ oo'[n] = oo[n] /\ n \in DOMAIN oo
                /\ Pending(oo[n], n)'
                /\ \A q \in network' : q.id # oo'[n]
    <2>1. n \in DOMAIN oo /\ oo'[n] = oo[n] /\ oo[n] \in Nat
          /\ \A i \in 1 .. k : n # Following(p.num, i)
      BY <1>3, <1>7
    <2>2. oo[n] # L + 1
      BY <1>2, <1>5, <2>1
    <2>3. ASSUME NEW i \in 1 .. k, oo[n] = L + 1 + i PROVE FALSE
      <3>1. n = (L + 1 + i) % Modulus
        BY <1>2, <2>1, <2>3 DEF Pending
      <3>2. n = Following(p.num, i)
        <4>1. L + (1 + i) = L + 1 + i /\ i \in Nat
          BY <1>1
        <4>2. QED
          BY <1>8, <3>1, <4>1
      <3>3. QED
        BY <2>1, <3>2
    <2>4. Pending(oo[n], n)
      BY <1>2, <2>1
    <2>5. ASSUME NEW id, id = oo[n] PROVE Pending(id, n)'
      BY <1>13, <2>1, <2>2, <2>3, <2>4, <2>5
    <2>6. QED
      BY <1>2, <1>6, <2>1, <2>5
  <1>16. TypeOK'
    <2>1. recv_packet_number' \in Numbers
      BY <1>7, <1>8, SMTT(30)
    <2>2. recv_packets' \in Seq(Nat)
      <3> HIDE DEF early
      <3>1. recv_packets' = Append(recv_packets, p.id) \o early
        BY <1>7 DEF early
      <3>2. QED
        BY <1>3, <1>10, <3>1
    <2>3. oo' \in [DOMAIN oo' -> Nat] /\ DOMAIN oo' \subseteq Numbers
      BY <1>3, <1>7
    <2>4. receiver' \in [Receivers -> {"idle", "blocked", "woken"}]
      BY <1>6, NotifyKeepsType DEF IInv
    <2>5. QED
      BY <1>6, <2>1, <2>2, <2>3, <2>4 DEF IInv, TypeOK, senderVars
  <1>17. InOrder'
    <2>1. ASSUME NEW i \in 1 .. L + 1 + k PROVE Delivered'[i] = i
      <3>1. CASE i <= L
        <4>1. \A j \in 1 .. L : Delivered[j] = j
          BY <1>2 DEF IInv, InOrder
        <4>2. i \in 1 .. L
          BY <1>1, <1>7, <3>1
        <4> HIDE DEF L
        <4>3. QED
          BY <1>11, <4>1, <4>2
      <3>2. CASE i = L + 1
        BY <1>11, <3>2
      <3>3. CASE i > L + 1
        <4>1. i - (L + 1) \in 1 .. k /\ i = L + 1 + (i - (L + 1))
          BY <1>1, <1>7, <3>3
        <4>2. QED
          BY <1>11, <4>1
      <3>4. QED
        BY <1>1, <3>1, <3>2, <3>3
    <2>2. QED
      BY <1>11, <2>1 DEF InOrder
  <1>18. recv_packet_number' = (L + 1 + k) % Modulus
    BY <1>1, <1>7, <1>8
  <1>19. NothingStranded'
    <2>1. L + 1 + k \in Nat /\ k + 1 \in Nat
          /\ L + 1 + k + 1 = L + (1 + (k + 1))
      BY <1>1
    <2>2. increment_packet_number(recv_packet_number')
            = Following(p.num, k + 1)
      BY <1>8, <1>18, <2>1, IncrementIsFollowing
    <2>3. Following(p.num, k + 1) \notin DOMAIN oo'
      BY <1>7 DEF DrainsExactly
    <2>4. QED
      BY <2>2, <2>3 DEF NothingStranded, increment_packet_number
  <1>20. failed' \cap 1 .. Len(Delivered') = {}
         /\ (L + 1 .. L + 1 + k) \cap failed = {}
    <2>1. ASSUME NEW i \in 1 .. L + 1 + k PROVE i \notin failed
      <3>1. CASE i <= L
        BY <1>1, <1>2, <3>1
      <3>2. CASE i > L
        BY <1>1, <1>12, <3>2
      <3>3. QED
        BY <1>1, <3>1, <3>2
    <2>2. QED
      BY <1>1, <1>6, <1>11, <2>1 DEF senderVars
  <1>21. Len(Delivered') <= sent /\ L + 1 + k \in L + 1 .. L + 1 + k
    <2>1. L + 1 + k \in L + 1 .. L + 1 + k
      BY <1>1
    <2>2. QED
      BY <1>11, <1>12, <2>1
  <1>22. NumbersMatch'
    <2>1. sent' <= Len(Delivered') + Modulus /\ Len(Delivered') <= sent'
      BY <1>1, <1>2, <1>6, <1>11, <1>21 DEF senderVars
    <2>2. /\ send_packet_number' = sent' % Modulus
          /\ failed' \subseteq 1 .. sent'
      BY <1>2, <1>6 DEF IInv, NumbersMatch, senderVars
    <2>3. recv_packet_number' = Len(Delivered') % Modulus
      BY <1>11, <1>18
    <2>4. QED
      BY <1>14, <1>15, <1>20, <2>1, <2>2, <2>3 DEF NumbersMatch
  <1>23. IInv'
    <2>1. NeverTwice'
      BY <1>2, <1>6 DEF NeverTwice, senderVars
    <2>2. QED
      BY <1>16, <1>17, <1>19, <1>22, <2>1 DEF IInv
  <1>24. L + 1 + k \in L + 1 .. sent
    BY <1>1, <1>11, <1>21
  <1>25. QED
    BY <1>11, <1>20, <1>23, <1>24

LEMMA NextKeepsIInv == IInv /\ [Next]_vars => IInv'
  <1> SUFFICES ASSUME IInv, [Next]_vars PROVE IInv'
    OBVIOUS
  <1>1. CASE SendPacket
    BY <1>1, SendKeepsIInv
  <1>2. CASE SendPacketThrows
    BY <1>2, ThrowKeepsIInv
  <1>3. ASSUME NEW p \in network, LosePacket(p) \/ PipePacketReceived(p)
        PROVE  IInv'
    <2>1. CASE LosePacket(p) \/ DropForClosed(p) \/ IgnoreIncoming(p)
      BY <2>1, DropKeepsIInv
    <2>2. CASE ReceiveUnreliable(p)
      BY <2>2, UnreliableKeepsIInv
    <2>3. CASE ReceiveInOrder(p)
      BY <2>3, InOrderKeepsIInv
    <2>4. CASE ReceiveOutOfOrder(p)
      BY <2>4, OutOfOrderKeepsIInv
    <2>5. QED
      BY <1>3, <2>1, <2>2, <2>3, <2>4 DEF PipePacketReceived
  <1>4. ASSUME NEW r \in Receivers,
               \/ TryReceive(r)
               \/ TryReceiveWait(r)
               \/ ReceiveTimeout(r)
               \/ ReceiveWoken(r)
        PROVE  IInv'
    BY <1>4, ReaderKeepsIInv
  <1>5. CASE Close \/ SetIgnoreReceived \/ UNCHANGED vars
    BY <1>5, ControlKeepsIInv
  <1>6. QED
    BY <1>1, <1>2, <1>3, <1>4, <1>5 DEF Next

(* Every reachable state satisfies the inductive invariant.                *)
THEOREM Invariance == Spec => []IInv
  BY InitIInv, NextKeepsIInv, PTL DEF Spec

(* Type correctness.                                                       *)
THEOREM TypeCorrect == Spec => []TypeOK
  BY Invariance, PTL DEF IInv

(* Whatever order the messages of a reliable pipe are dispatched in, and   *)
(* however often the packet numbers wrap around, the packets come out in   *)
(* the order they were sent, each once and none left out.                  *)
THEOREM PacketsInOrder == Spec => []InOrder
  BY Invariance, PTL DEF IInv

(* A packet whose turn has come is never left in out_of_order_packets.     *)
THEOREM NoneStranded == Spec => []NothingStranded
  BY Invariance, PTL DEF IInv

(* No packet is read twice, on a pipe of either kind.                      *)
THEOREM ReadAtMostOnce == Spec => []AtMostOnce
  <1>1. IInv => AtMostOnce
    <2>1. CASE unreliable
      BY <2>1 DEF IInv, NeverTwice
    <2>2. CASE ~unreliable
      BY <2>2 DEF IInv, InOrder, AtMostOnce
    <2>3. QED
      BY <2>1, <2>2
  <1>2. QED
    BY <1>1, Invariance, PTL

-----------------------------------------------------------------------------
(* What a reliable pipe still owes.                                        *)

(* The sender adds a packet that is under way or refused.                  *)
LEMMA SenderLosesNothing ==
  ASSUME IInv, NothingLost, SendPacket \/ SendPacketThrows
  PROVE  NothingLost'
  <1>1. Delivered' = Delivered /\ UNCHANGED <<unreliable, closed,
                                              ignore_incoming_packets>>
        /\ sent' = sent + 1 /\ sent \in Nat /\ Len(Delivered) \in Nat
    BY TakeNumberKeeps, DeliveredIsSequence
       DEF SendPacket, SendPacketThrows, IInv
  <1>2. /\ UNCHANGED out_of_order_packets
        /\ failed \subseteq failed' /\ network \subseteq network'
        /\ \/ sent' \in failed'
           \/ [num |-> send_packet_number', id |-> sent'] \in network'
    BY DEF SendPacket, SendPacketThrows, orderVars
  <1>3. ASSUME NEW id, id = sent' PROVE Kept(id)'
    <2>1. CASE sent' \in failed'
      BY <1>3, <2>1 DEF Kept
    <2>2. CASE [num |-> send_packet_number', id |-> sent'] \in network'
      <3>1. \E p \in network' : p.id = id
        BY <1>3, <2>2
      <3>2. QED
        BY <3>1 DEF Kept
    <2>3. QED
      BY <1>2, <2>1, <2>2
  <1>4. \A id : Kept(id) => Kept(id)'
    BY <1>2 DEF Kept
  <1>5. ASSUME ~unreliable, ~closed, ~ignore_incoming_packets,
               NEW id \in Len(Delivered) + 1 .. sent'
        PROVE  Kept(id)'
    <2>1. CASE id = sent'
      BY <1>3, <2>1
    <2>2. CASE id # sent'
      BY <1>1, <1>4, <1>5, <2>2 DEF NothingLost
    <2>3. QED
      BY <2>1, <2>2
  <1>6. QED
    BY <1>1, <1>5 DEF NothingLost

(* A packet ahead of its turn finds no other under its number, so it is    *)
(* put among the early ones.                                               *)
LEMMA EarlyPacketIsKept ==
  ASSUME NEW p \in network, IInv, NothingLost, ReceiveOutOfOrder(p)
  PROVE  NothingLost'
  <1> DEFINE oo == out_of_order_packets
             L == Len(Delivered)
  <1>1. /\ UNCHANGED <<senderVars, closed, ignore_incoming_packets,
                       recv_packets, consumed>>
        /\ ~unreliable
        /\ network' = network \ {p}
        /\ oo' = [n \in DOMAIN oo \cup {p.num} |->
                    IF n \in DOMAIN oo THEN oo[n] ELSE p.id]
    BY DEF ReceiveOutOfOrder
  <1>2. Delivered' = Delivered
    BY <1>1 DEF Delivered
  <1>3. p.num \notin DOMAIN oo
    <2>1. SUFFICES ASSUME p.num \in DOMAIN oo PROVE FALSE
      OBVIOUS
    <2>2. /\ Pending(p.id, p.num) /\ Pending(oo[p.num], p.num)
          /\ oo[p.num] # p.id
          /\ sent <= L + Modulus
      BY <1>1, <2>1 DEF IInv, NumbersMatch
    <2>3. p.id \in Nat /\ oo[p.num] \in Nat /\ sent \in Nat /\ L \in Nat
      BY <2>1, DeliveredIsSequence DEF IInv, TypeOK
    <2>4. /\ p.id % Modulus = oo[p.num] % Modulus
          /\ p.id - oo[p.num] < Modulus /\ oo[p.num] - p.id < Modulus
      BY <2>2, <2>3 DEF Pending
    <2>5. p.id = oo[p.num]
      BY <2>3, <2>4, WindowUnique
    <2>6. QED
      BY <2>2, <2>5
  <1>4. ASSUME NEW id, Kept(id) PROVE Kept(id)'
    <2>1. CASE id \in failed
      BY <1>1, <2>1 DEF Kept, senderVars
    <2>2. CASE \E q \in network : q.id = id
      <3>1. p.num \in DOMAIN oo' /\ oo'[p.num] = p.id
        BY <1>1, <1>3
      <3>2. QED
        BY <1>1, <2>2, <3>1 DEF Kept
    <2>3. CASE \E n \in DOMAIN oo : oo[n] = id
      <3>1. \A n \in DOMAIN oo : n \in DOMAIN oo' /\ oo'[n] = oo[n]
        BY <1>1
      <3>2. QED
        BY <2>3, <3>1 DEF Kept
    <2>4. QED
      BY <1>4, <2>1, <2>2, <2>3 DEF Kept
  <1>5. QED
    BY <1>1, <1>2, <1>4 DEF NothingLost, senderVars

(* The packets that leave the network or the early ones come out.          *)
LEMMA DrainedPacketsComeOut ==
  ASSUME NEW p \in network, IInv, NothingLost, ReceiveInOrder(p)
  PROVE  NothingLost'
  <1> DEFINE L == Len(Delivered)
             oo == out_of_order_packets
  <1>1. L \in Nat /\ sent \in Nat /\ p.id \in Nat /\ p.num \in Numbers
        /\ oo \in [DOMAIN oo -> Nat]
    BY DeliveredIsSequence DEF IInv, TypeOK
  <1>2. /\ UNCHANGED <<senderVars, closed, ignore_incoming_packets>>
        /\ ~unreliable
        /\ network' = network \ {p}
    BY DEF ReceiveInOrder
  <1>3. PICK k \in 0 .. Modulus - 1 :
          /\ DrainsExactly(p.num, k)
          /\ recv_packets' = Append(recv_packets, p.id)
               \o [i \in 1 .. k |-> oo[Following(p.num, i)]]
          /\ oo' = [n \in DOMAIN oo \ {Following(p.num, i) : i \in 1 .. k} |->
                      oo[n]]
    BY DEF ReceiveInOrder
  <1>4. p.num = (L + 1) % Modulus /\ p.id = L + 1
    <2>1. p.num = (L + 1) % Modulus
      BY <1>1, <1>2, IncrementIsFollowing
         DEF ReceiveInOrder, IsNext, IInv, NumbersMatch
    <2>2. 1 \in 1 .. Modulus /\ Pending(p.id, (L + 1) % Modulus)
      BY <1>2, <2>1 DEF IInv, NumbersMatch
    <2>3. QED
      BY <1>1, <1>2, <2>1, <2>2, PendingUnique
  <1>5. ASSUME NEW i \in 1 .. k
        PROVE  oo[Following(p.num, i)] = L + 1 + i
    <2>1. Following(p.num, i) \in DOMAIN oo
      BY <1>3 DEF DrainsExactly
    <2>2. Following(p.num, i) = (L + (1 + i)) % Modulus
      <3>1. L + 1 \in Nat /\ i \in Nat /\ (L + 1) + i = L + (1 + i)
        BY <1>1
      <3>2. QED
        BY <1>4, <3>1, FollowingIsRemainder
    <2>3. Pending(oo[Following(p.num, i)], (L + (1 + i)) % Modulus)
      BY <1>2, <2>1, <2>2 DEF IInv, NumbersMatch
    <2>4. oo[Following(p.num, i)] \in Nat /\ 1 + i \in 1 .. Modulus
      BY <1>1, <1>3, <2>1
    <2>5. oo[Following(p.num, i)] = L + (1 + i)
      BY <1>2, <2>3, <2>4, PendingUnique
    <2>6. QED
      BY <1>1, <2>5
  <1>6. Len(Delivered') = L + 1 + k
    <2> DEFINE early == [i \in 1 .. k |-> oo[Following(p.num, i)]]
    <2>1. early \in Seq(Nat) /\ Len(early) = k
      <3>1. early \in [1 .. k -> Nat] /\ k \in Nat
        BY <1>1, <1>5
      <3> HIDE DEF early
      <3>2. QED
        BY <3>1
    <2>2. UNCHANGED consumed /\ recv_packets \in Seq(Nat)
          /\ consumed \in Seq(Nat)
      BY DEF ReceiveInOrder, IInv, TypeOK
    <2>3. recv_packets' = Append(recv_packets, p.id) \o early
      BY <1>3
    <2> HIDE DEF early
    <2> DEFINE a == Append(recv_packets, p.id)
    <2>4. a \in Seq(Nat) /\ Len(a) = Len(recv_packets) + 1
      BY <1>1, <2>2
    <2>5. recv_packets' = a \o early
      BY <2>3
    <2> HIDE DEF a
    <2>6. recv_packets' \in Seq(Nat)
          /\ Len(recv_packets') = Len(a) + Len(early)
      BY <2>1, <2>4, <2>5, ConcatLength
    <2>7. Len(Delivered') = Len(consumed) + Len(recv_packets')
      <3>1. Delivered' = consumed \o recv_packets'
        BY <2>2 DEF Delivered
      <3> DEFINE q == recv_packets'
      <3>2. q \in Seq(Nat)
        BY <2>6
      <3> HIDE DEF q
      <3>3. Len(consumed \o q) = Len(consumed) + Len(q)
        BY <2>2, <3>2, ConcatLength
      <3>4. QED
        BY <3>1, <3>3 DEF q
    <2>8. L = Len(consumed) + Len(recv_packets)
      BY <2>2 DEF Delivered
    <2>9. Len(consumed) \in Nat /\ Len(recv_packets) \in Nat
      BY <2>2
    <2>10. QED
      BY <2>1, <2>4, <2>6, <2>7, <2>8, <2>9
  <1>7. ASSUME NEW id \in Nat, L + 1 + k < id, Kept(id) PROVE Kept(id)'
    <2>1. CASE id \in failed
      BY <1>2, <2>1 DEF Kept, senderVars
    <2>2. CASE \E q \in network : q.id = id
      <3>1. PICK q \in network : q.id = id
        BY <2>2
      <3>2. q # p
        BY <1>1, <1>4, <1>7, <3>1
      <3>3. QED
        BY <1>2, <3>1, <3>2 DEF Kept
    <2>3. CASE \E n \in DOMAIN oo : oo[n] = id
      <3>1. PICK n \in DOMAIN oo : oo[n] = id
        BY <2>3
      <3>2. \A i \in 1 .. k : n # Following(p.num, i)
        BY <1>1, <1>5, <1>7, <3>1
      <3>3. n \in DOMAIN oo' /\ oo'[n] = id
        BY <1>3, <3>1, <3>2
      <3>4. QED
        BY <3>3 DEF Kept
    <2>4. QED
      BY <1>7, <2>1, <2>2, <2>3 DEF Kept
  <1>8. QED
    <2>1. SUFFICES ASSUME ~unreliable, ~closed, ~ignore_incoming_packets,
                          NEW id \in L + 1 + k + 1 .. sent
                   PROVE  Kept(id)'
      BY <1>2, <1>6 DEF NothingLost, senderVars
    <2>2. id \in Nat /\ L + 1 + k < id /\ id \in L + 1 .. sent
      BY <1>1
    <2>3. QED
      BY <1>7, <2>1, <2>2 DEF NothingLost

LEMMA NextLosesNothing ==
  IInv /\ NothingLost /\ [Next]_vars => NothingLost'
  <1> SUFFICES ASSUME IInv, NothingLost, [Next]_vars PROVE NothingLost'
    OBVIOUS
  <1>1. ASSUME UNCHANGED <<senderVars, network, orderVars>>,
               Delivered' = Delivered,
               closed => closed',
               ignore_incoming_packets => ignore_incoming_packets'
        PROVE  NothingLost'
    <2>1. \A id : Kept(id)' <=> Kept(id)
      BY <1>1 DEF Kept, senderVars, orderVars
    <2>2. QED
      BY <1>1, <2>1 DEF NothingLost, senderVars
  <1>2. CASE SendPacket \/ SendPacketThrows
    BY <1>2, SenderLosesNothing
  <1>3. ASSUME NEW p \in network, LosePacket(p) \/ PipePacketReceived(p)
        PROVE  NothingLost'
    <2>1. CASE LosePacket(p) \/ ReceiveUnreliable(p)
      BY <2>1 DEF LosePacket, ReceiveUnreliable, NothingLost, senderVars
    <2>2. CASE DropForClosed(p) \/ IgnoreIncoming(p)
      BY <2>2 DEF DropForClosed, IgnoreIncoming, NothingLost
    <2>3. CASE ReceiveInOrder(p)
      BY <2>3, DrainedPacketsComeOut
    <2>4. CASE ReceiveOutOfOrder(p)
      BY <2>4, EarlyPacketIsKept
    <2>5. QED
      BY <1>3, <2>1, <2>2, <2>3, <2>4 DEF PipePacketReceived
  <1>4. ASSUME NEW r \in Receivers,
               \/ TryReceive(r)
               \/ TryReceiveWait(r)
               \/ ReceiveTimeout(r)
               \/ ReceiveWoken(r)
        PROVE  NothingLost'
    <2>1. Delivered' = Delivered
      BY <1>4, TakeKeepsDelivered
         DEF TryReceive, TryReceiveWait, ReceiveTimeout, ReceiveWoken,
             Delivered, IInv
    <2>2. UNCHANGED <<senderVars, network, orderVars,
                      ignore_incoming_packets, closed>>
      BY <1>4 DEF TryReceive, TryReceiveWait, ReceiveTimeout, ReceiveWoken
    <2>3. QED
      BY <1>1, <2>1, <2>2
  <1>5. CASE Close \/ SetIgnoreReceived \/ UNCHANGED vars
    BY <1>1, <1>5 DEF Close, SetIgnoreReceived, vars, Delivered
  <1>6. QED
    BY <1>2, <1>3, <1>4, <1>5 DEF Next

(* With nothing under way, an open reliable pipe has handed over every     *)
(* packet up to the first that was refused: a next packet that was not     *)
(* refused would be among the early ones under the very number whose turn  *)
(* it is, and none is left there (PipePacketReceived).                     *)
THEOREM OnlyRefusedBlock == Spec => []Settled
  <1>1. Init => NothingLost
    BY DEF Init, NothingLost, Delivered
  <1>2. ASSUME IInv, NothingLost PROVE Settled
    <2> DEFINE L == Len(Delivered)
    <2>1. SUFFICES ASSUME ~unreliable, ~closed, ~ignore_incoming_packets,
                          network = {}, L # sent, L + 1 \notin failed
                   PROVE  FALSE
      BY DEF Settled
    <2>2. /\ L \in Nat /\ sent \in Nat /\ L <= sent
          /\ recv_packet_number = L % Modulus
      BY <1>2, <2>1, DeliveredIsSequence DEF IInv, TypeOK, NumbersMatch
    <2>3. Kept(L + 1)
      BY <1>2, <2>1, <2>2 DEF NothingLost
    <2>4. PICK n \in DOMAIN out_of_order_packets :
            out_of_order_packets[n] = L + 1
      BY <2>1, <2>3 DEF Kept
    <2>5. n = (L + 1) % Modulus
      BY <1>2, <2>1, <2>4 DEF IInv, NumbersMatch, Pending
    <2>6. QED
      BY <1>2, <2>1, <2>2, <2>4, <2>5, IncrementIsFollowing
         DEF IInv, NothingStranded
  <1>3. QED
    BY <1>1, <1>2, NextLosesNothing, Invariance, PTL DEF Spec

-----------------------------------------------------------------------------
(* The threads that read.                                                  *)

LEMMA NotifiedReceivers ==
  NotifyAll => \A r \in Receivers : receiver'[r] # "blocked"
  BY DEF NotifyAll

LEMMA ReaderKeepsWaiting ==
  ASSUME TypeOK, NoForgottenReceiver, NEW r \in Receivers,
         \/ TryReceive(r)
         \/ TryReceiveWait(r)
         \/ ReceiveTimeout(r)
         \/ ReceiveWoken(r)
  PROVE  NoForgottenReceiver'
  <1>1. receiver \in [Receivers -> {"idle", "blocked", "woken"}]
    BY DEF TypeOK
  <1>2. recv_packets = <<>> => recv_packets' = <<>>
    BY DEF TryReceive, TryReceiveWait, ReceiveTimeout, ReceiveWoken, TakePacket
  <1>3. UNCHANGED closed
    BY DEF TryReceive, TryReceiveWait, ReceiveTimeout, ReceiveWoken
  <1>4. \A s \in Receivers : receiver'[s] = "blocked" =>
          \/ receiver[s] = "blocked"
          \/ recv_packets = <<>> /\ ~closed
    BY <1>1 DEF TryReceive, TryReceiveWait, ReceiveTimeout, ReceiveWoken
  <1>5. QED
    BY <1>2, <1>3, <1>4 DEF NoForgottenReceiver

LEMMA NextKeepsWaiting ==
  TypeOK /\ NoForgottenReceiver /\ [Next]_vars => NoForgottenReceiver'
  <1> SUFFICES ASSUME TypeOK, NoForgottenReceiver, [Next]_vars
               PROVE  NoForgottenReceiver'
    OBVIOUS
  <1>1. CASE UNCHANGED <<recv_packets, closed, receiver>>
    BY <1>1 DEF NoForgottenReceiver
  <1>2. CASE NotifyAll
    BY <1>2, NotifiedReceivers DEF NoForgottenReceiver
  <1>3. CASE SendPacket \/ SendPacketThrows \/ UNCHANGED vars
    BY <1>1, <1>3 DEF SendPacket, SendPacketThrows, vars
  <1>4. ASSUME NEW p \in network, LosePacket(p) \/ PipePacketReceived(p)
        PROVE  NoForgottenReceiver'
    BY <1>1, <1>2, <1>4
       DEF LosePacket, PipePacketReceived, DropForClosed, IgnoreIncoming,
           ReceiveUnreliable, ReceiveInOrder, ReceiveOutOfOrder
  <1>5. ASSUME NEW r \in Receivers,
               \/ TryReceive(r)
               \/ TryReceiveWait(r)
               \/ ReceiveTimeout(r)
               \/ ReceiveWoken(r)
        PROVE  NoForgottenReceiver'
    BY <1>5, ReaderKeepsWaiting
  <1>6. CASE Close \/ SetIgnoreReceived
    BY <1>1, <1>2, <1>6 DEF Close, SetIgnoreReceived
  <1>7. QED
    BY <1>3, <1>4, <1>5, <1>6 DEF Next

(* No thread stays blocked on a queue that holds a packet, nor on a closed *)
(* endpoint.                                                               *)
THEOREM NoReceiverForgotten == Spec => []NoForgottenReceiver
  <1>1. Init => NoForgottenReceiver
    BY DEF Init, NoForgottenReceiver
  <1>2. QED
    BY <1>1, NextKeepsWaiting, TypeCorrect, PTL DEF Spec

-----------------------------------------------------------------------------
(* Refinement.                                                             *)

(* A pipe implements the stream of PipeStream, whichever kind it is.       *)
THEOREM PipeImplementsStream == Spec => ImplementsStream
  <1>1. Init => Stream!Init
    <2>1. Init => (~unreliable) \in BOOLEAN
      BY DEF Init
    <2>2. QED
      BY <2>1 DEF Init, Stream!Init, Delivered
  <1>2. ASSUME IInv, [Next]_vars
        PROVE  [Stream!Next]_(Stream!streamVars)
    <2>1. CASE SendPacket \/ SendPacketThrows
      <3>1. UNCHANGED <<Delivered, unreliable>> /\ sent' = sent + 1
        BY <1>2, <2>1, TakeNumberKeeps DEF SendPacket, SendPacketThrows
      <3>2. failed' = failed \/ failed' = failed \cup {sent'}
        BY <2>1 DEF SendPacket, SendPacketThrows
      <3>3. Stream!Send
        BY <3>1, <3>2 DEF Stream!Send
      <3>4. QED
        BY <3>3 DEF Stream!Next
    <2>2. ASSUME NEW p \in network, ReceiveInOrder(p)
          PROVE  Stream!Next
      <3>1. PICK n \in Len(Delivered) + 1 .. sent :
              /\ (Len(Delivered) + 1 .. n) \cap failed = {}
              /\ Len(Delivered') = n
        BY <1>2, <2>2, InOrderKeepsIInv
      <3>2. UNCHANGED <<unreliable, sent, failed>> /\ ~unreliable
        BY <2>2 DEF ReceiveInOrder, senderVars
      <3>3. Delivered' \in Seq(Nat) /\ InOrder'
        <4>1. TypeOK' /\ InOrder'
          BY <1>2, <2>2, InOrderKeepsIInv DEF IInv
        <4>2. QED
          BY <4>1 DEF TypeOK, Delivered
      <3>4. Delivered' = [i \in 1 .. n |-> i]
        BY <3>1, <3>2, <3>3 DEF InOrder
      <3>5. QED
        BY <3>1, <3>2, <3>4 DEF Stream!Next, Stream!Deliver
    <2>3. ASSUME UNCHANGED senderVars, UNCHANGED Delivered
          PROVE  UNCHANGED Stream!streamVars
      BY <2>3 DEF senderVars, Stream!streamVars
    <2>4. ASSUME NEW p \in network,
                 \/ LosePacket(p)
                 \/ DropForClosed(p)
                 \/ IgnoreIncoming(p)
                 \/ ReceiveOutOfOrder(p)
          PROVE  UNCHANGED Stream!streamVars
      BY <2>3, <2>4 DEF LosePacket, DropForClosed, IgnoreIncoming,
                        ReceiveOutOfOrder, Delivered
    <2>5. ASSUME NEW p \in network, ReceiveUnreliable(p)
          PROVE  Stream!Next
      <3>1. /\ Undelivered(p.id)
            /\ Delivered' = Append(Delivered, p.id)
        BY <1>2, <2>5, UnreliableKeepsIInv
      <3>2. UNCHANGED <<unreliable, sent, failed>> /\ unreliable
        BY <2>5 DEF ReceiveUnreliable, senderVars
      <3>3. Stream!DeliverAny
        BY <3>1, <3>2 DEF Undelivered, Stream!DeliverAny
      <3>4. QED
        BY <3>3 DEF Stream!Next
    <2>6. ASSUME NEW r \in Receivers,
                 \/ TryReceive(r)
                 \/ TryReceiveWait(r)
                 \/ ReceiveTimeout(r)
                 \/ ReceiveWoken(r)
          PROVE  UNCHANGED Stream!streamVars
      <3>1. CASE \E peek \in BOOLEAN : TakePacket(peek)
        BY <1>2, <2>3, <2>6, <3>1, TakeKeepsDelivered
           DEF TryReceive, TryReceiveWait, ReceiveTimeout, ReceiveWoken, IInv
      <3>2. CASE UNCHANGED <<recv_packets, consumed>>
        BY <2>3, <2>6, <3>2
           DEF TryReceive, TryReceiveWait, ReceiveTimeout, ReceiveWoken,
               Delivered
      <3>3. QED
        BY <2>6, <3>1, <3>2
           DEF TryReceive, TryReceiveWait, ReceiveTimeout, ReceiveWoken
    <2>7. CASE Close \/ SetIgnoreReceived \/ UNCHANGED vars
      BY <2>3, <2>7 DEF Close, SetIgnoreReceived, vars, Delivered
    <2>8. QED
      BY <1>2, <2>1, <2>2, <2>4, <2>5, <2>6, <2>7
         DEF Next, PipePacketReceived
  <1>3. QED
    BY <1>1, <1>2, Invariance, PTL DEF Spec, ImplementsStream, Stream!Spec

-----------------------------------------------------------------------------
(* The two ends of a pipe member.                                          *)

(* An entry is put into a table, or taken out.                             *)
LEMMA WithIs ==
  ASSUME NEW f, NEW i, NEW x
  PROVE  /\ DOMAIN With(f, i, x) = DOMAIN f \cup {i}
         /\ \A j \in DOMAIN f \cup {i} :
              With(f, i, x)[j] = IF j = i THEN x ELSE f[j]
  BY DEF With

LEMMA WithoutIs ==
  ASSUME NEW f, NEW i
  PROVE  /\ DOMAIN Without(f, i) = DOMAIN f \ {i}
         /\ \A j \in DOMAIN f \ {i} : Without(f, i)[j] = f[j]
  BY DEF Without, Restrict

LEMMA EmptyIs == DOMAIN Empty = {}
  BY DEF Empty

LEMMA RangeWith ==
  ASSUME NEW f, NEW i, NEW x
  PROVE  Range(With(f, i, x)) \subseteq Range(f) \cup {x}
  BY DEF With, Range

LEMMA RangeWithout ==
  ASSUME NEW f, NEW i
  PROVE  Range(Without(f, i)) \subseteq Range(f)
  BY DEF Without, Restrict, Range

LEMMA RangeEmpty == Range(Empty) = {}
  BY EmptyIs DEF Range

(* The early endpoints that are kept.                                      *)
LEMMA EarlyLeftIs ==
  ASSUME NEW f, NEW left
  PROVE  /\ DOMAIN EarlyLeft(f, left) \subseteq DOMAIN f
         /\ \A i \in DOMAIN EarlyLeft(f, left) : EarlyLeft(f, left)[i] = f[i]
         /\ left # {} => EarlyLeft(f, left) = f
  BY EmptyIs DEF EarlyLeft

(* PipeConnectReq gives an index that its table does not have.             *)
LEMMA IndexNat ==
  ASSUME IndexesMatch, MemberTypeOK, NEW c \in Connects, NEW i \in Indexes,
         NewIndex(c, i)
  PROVE  i \in Nat /\ i \notin DOMAIN server_endpoints
  <1>1. Requested[c] \in Nat \cup {AnyIndex} /\ AnyIndex = -1
    BY ConstantsAssumption DEF AnyIndex
  <1>2. i \in Int /\ 0 <= i
    BY DEF Indexes
  <1>3. QED
    BY <1>1, <1>2 DEF NewIndex

(* The steps of the two ends.                                              *)
LEMMA MemberCases ==
  ASSUME [MemberNext]_memberVars
  PROVE  \/ \E d \in Connects :
              \/ AsyncConnect(d) \/ ServerReply(d) \/ ConnectReturns(d)
              \/ DropReply(d) \/ ConnectFails(d) \/ ServerSend(d)
              \/ ClientSend(d) \/ ClientClose(d) \/ ServerClose(d)
              \/ \E i \in Indexes : ServerConnect(d, i)
         \/ \E m \in messages :
              \/ ClientReceive(m) \/ ServerReceive(m)
              \/ ServerDisconnect(m) \/ ClientClosed(m)
         \/ \E r \in removing : DeleteEndpoint(r)
         \/ ClientDisconnected \/ ServerShutdown \/ ClientShutdown
         \/ UNCHANGED memberVars
  BY DEF MemberNext, ConnectStep, Dispatch

(* What messages and tables hold.                                          *)
LEMMA MessageTyped ==
  ASSUME MemberTypeOK, NEW m \in messages
  PROVE  /\ m.pair \in Connects
         /\ m.kind \in {"DisconnectReq", "Closed", "Packet"} => m.index \in Nat
         /\ m.kind = "Packet" => m.to \in Sides /\ m.num \in Nat
  BY DEF MemberTypeOK, Messages

LEMMA TableTyped ==
  ASSUME MemberTypeOK
  PROVE  /\ \A i \in DOMAIN pipeendpoints : pipeendpoints[i] \in Connects
         /\ \A i \in DOMAIN server_endpoints : server_endpoints[i] \in Connects
  BY DEF MemberTypeOK, TablesTypeOK, Range

(* Types are kept.                                                         *)
LEMMA EndsTyped ==
  ASSUME MemberTypeOK, IndexesMatch, [MemberNext]_memberVars
  PROVE  EndsTypeOK'
  <1> USE DEF clientVars, serverVars, packetVars, memberVars
  <1>1. ASSUME NEW d \in Connects,
               AsyncConnect(d) \/ ServerReply(d) \/ ConnectReturns(d)
        PROVE  EndsTypeOK'
    BY <1>1
       DEF AsyncConnect, MemberTypeOK, EndsTypeOK, ServerReply, ConnectReturns
  <1>2. ASSUME NEW d \in Connects,
               DropReply(d) \/ ConnectFails(d) \/ ServerSend(d)
        PROVE  EndsTypeOK'
    BY <1>2 DEF DropReply, MemberTypeOK, EndsTypeOK, ConnectFails, ServerSend
  <1>3. ASSUME NEW d \in Connects,
               ClientSend(d) \/ ClientClose(d) \/ ServerClose(d)
        PROVE  EndsTypeOK'
    BY <1>3
       DEF ClientSend, MemberTypeOK, EndsTypeOK, ClientClose, ServerClose,
           Sides, ClosesAnother, PipeClosed, Messages
  <1>4. ASSUME NEW d \in Connects, NEW i \in Indexes, ServerConnect(d, i)
        PROVE  EndsTypeOK'
    BY <1>4, IndexNat DEF ServerConnect, MemberTypeOK, EndsTypeOK
  <1>5. ASSUME NEW m \in messages, ClientReceive(m) \/ ServerReceive(m)
        PROVE  EndsTypeOK'
    BY <1>5 DEF ClientReceive, ServerReceive, MemberTypeOK, EndsTypeOK
  <1>6. ASSUME NEW m \in messages, ServerDisconnect(m)
        PROVE  EndsTypeOK'
    BY <1>6, TableTyped DEF ServerDisconnect, MemberTypeOK, EndsTypeOK
  <1>7. ASSUME NEW m \in messages, ClientClosed(m)
        PROVE  EndsTypeOK'
    BY <1>7, TableTyped, MessageTyped
       DEF ClientClosed, MemberTypeOK, EndsTypeOK
  <1>8. ASSUME NEW r \in removing, DeleteEndpoint(r)
        PROVE  EndsTypeOK'
    BY <1>8 DEF DeleteEndpoint, MemberTypeOK, EndsTypeOK
  <1>9. CASE ClientDisconnected \/ ServerShutdown \/ ClientShutdown
    BY <1>9
       DEF ClientDisconnected, MemberTypeOK, EndsTypeOK, ClosedIn,
           ServerShutdown, ClientShutdown
  <1>10. CASE UNCHANGED memberVars
    BY <1>10 DEF MemberTypeOK, EndsTypeOK
  <1>11. QED
    BY <1>1, <1>2, <1>3, <1>4, <1>5, <1>6, <1>7, <1>8, <1>9, <1>10,
       MemberCases

LEMMA MessagesTyped ==
  ASSUME MemberTypeOK, IndexesMatch, [MemberNext]_memberVars
  PROVE  messages' \subseteq Messages
  <1> USE DEF clientVars, serverVars, packetVars, memberVars
  <1>1. ASSUME NEW d \in Connects,
               AsyncConnect(d) \/ ServerReply(d) \/ ConnectReturns(d)
        PROVE  messages' \subseteq Messages
    BY <1>1
       DEF AsyncConnect, MemberTypeOK, ConnectReq, Messages, ServerReply,
           ConnectRet, ConnectReturns
  <1>2. ASSUME NEW d \in Connects,
               DropReply(d) \/ ConnectFails(d) \/ ServerSend(d)
        PROVE  messages' \subseteq Messages
    BY <1>2
       DEF DropReply, MemberTypeOK, ConnectFails, ServerSend, Packet, Messages,
           EndsTypeOK, PacketsTypeOK, Sides
  <1>3. ASSUME NEW d \in Connects,
               ClientSend(d) \/ ClientClose(d) \/ ServerClose(d)
        PROVE  messages' \subseteq Messages
    BY <1>3
       DEF ClientSend, MemberTypeOK, Packet, Messages, EndsTypeOK,
           PacketsTypeOK, Sides, ClientClose, PipeDisconnectReq, ServerClose,
           PipeClosed
  <1>4. ASSUME NEW d \in Connects, NEW i \in Indexes, ServerConnect(d, i)
        PROVE  messages' \subseteq Messages
    BY <1>4 DEF ServerConnect, MemberTypeOK
  <1>5. ASSUME NEW m \in messages,
               ClientReceive(m) \/ ServerReceive(m) \/ ServerDisconnect(m)
        PROVE  messages' \subseteq Messages
    BY <1>5 DEF ClientReceive, MemberTypeOK, ServerReceive, ServerDisconnect
  <1>6. ASSUME NEW m \in messages, ClientClosed(m)
        PROVE  messages' \subseteq Messages
    BY <1>6 DEF ClientClosed, MemberTypeOK
  <1>7. ASSUME NEW r \in removing, DeleteEndpoint(r)
        PROVE  messages' \subseteq Messages
    BY <1>7 DEF DeleteEndpoint, MemberTypeOK
  <1>8. CASE ClientDisconnected \/ ServerShutdown \/ ClientShutdown
    BY <1>8, TableTyped
       DEF ClientDisconnected, MemberTypeOK, ServerShutdown, PipeClosed,
           Messages, EndsTypeOK, IndexesMatch, ClientShutdown
  <1>9. CASE UNCHANGED memberVars
    BY <1>9 DEF MemberTypeOK
  <1>10. QED
    BY <1>1, <1>2, <1>3, <1>4, <1>5, <1>6, <1>7, <1>8, <1>9, MemberCases

LEMMA TablesTyped ==
  ASSUME MemberTypeOK, IndexesMatch, [MemberNext]_memberVars
  PROVE  TablesTypeOK'
  <1> USE DEF clientVars, serverVars, packetVars, memberVars
  <1>1. ASSUME NEW d \in Connects,
               AsyncConnect(d) \/ ServerReply(d) \/ DropReply(d)
        PROVE  TablesTypeOK'
    BY <1>1
       DEF AsyncConnect, MemberTypeOK, TablesTypeOK, ServerReply, DropReply
  <1>2. ASSUME NEW d \in Connects, ConnectReturns(d)
        PROVE  TablesTypeOK'
    <2>1. /\ DOMAIN early_endpoints' \subseteq DOMAIN early_endpoints
          /\ \A i \in DOMAIN early_endpoints' :
               early_endpoints'[i] = early_endpoints[i]
      <3> DEFINE kept == Without(early_endpoints, index[d])
                 left == connecting_endpoints \ {d}
      <3>1. early_endpoints' = EarlyLeft(kept, left)
        BY <1>2 DEF ConnectReturns
      <3>2. /\ DOMAIN kept \subseteq DOMAIN early_endpoints
            /\ \A i \in DOMAIN kept : kept[i] = early_endpoints[i]
        <4>1. /\ DOMAIN kept = DOMAIN early_endpoints \ {index[d]}
              /\ \A i \in DOMAIN early_endpoints \ {index[d]} :
                   kept[i] = early_endpoints[i]
          BY WithoutIs
        <4>2. QED
          BY <4>1
      <3> HIDE DEF kept, left
      <3>3. QED
        BY <3>1, <3>2, EarlyLeftIs
    <2>2. Range(pipeendpoints') \subseteq Range(pipeendpoints) \cup {d}
      BY <1>2, RangeWith DEF ConnectReturns
    <2>3. QED
      BY <1>2, <2>1, <2>2 DEF ConnectReturns, MemberTypeOK, TablesTypeOK
  <1>3. ASSUME NEW d \in Connects, ConnectFails(d)
        PROVE  TablesTypeOK'
    <2>1. /\ DOMAIN early_endpoints' \subseteq DOMAIN early_endpoints
          /\ \A i \in DOMAIN early_endpoints' :
               early_endpoints'[i] = early_endpoints[i]
      BY <1>3, EarlyLeftIs DEF ConnectFails
    <2>2. QED
      BY <1>3, <2>1 DEF ConnectFails, MemberTypeOK, TablesTypeOK
  <1>4. ASSUME NEW d \in Connects,
               ServerSend(d) \/ ClientSend(d) \/ ClientClose(d)
        PROVE  TablesTypeOK'
    BY <1>4, RangeWithout
       DEF ServerSend, MemberTypeOK, TablesTypeOK, ClientSend, ClientClose
  <1>5. ASSUME NEW d \in Connects, ServerClose(d)
        PROVE  TablesTypeOK'
    BY <1>5 DEF ServerClose, MemberTypeOK, TablesTypeOK
  <1>6. ASSUME NEW d \in Connects, NEW i \in Indexes, ServerConnect(d, i)
        PROVE  TablesTypeOK'
    BY <1>6, RangeWith DEF ServerConnect, MemberTypeOK, TablesTypeOK
  <1>7. ASSUME NEW m \in messages, ClientReceive(m)
        PROVE  TablesTypeOK'
    <2>1. [pair |-> m.pair, num |-> m.num] \in [pair : Connects, num : Nat]
      BY <1>7, MessageTyped DEF ClientReceive
    <2>2. \A i \in DOMAIN early_endpoints' :
            early_endpoints'[i] \subseteq [pair : Connects, num : Nat]
      <3>1. CASE early_endpoints' = early_endpoints
        BY <3>1 DEF MemberTypeOK, TablesTypeOK
      <3>2. CASE early_endpoints' # early_endpoints
        <4> DEFINE kept == {[pair |-> m.pair, num |-> m.num]} \cup
                           IF m.index \in DOMAIN early_endpoints
                           THEN early_endpoints[m.index] ELSE {}
        <4>1. early_endpoints' = With(early_endpoints, m.index, kept)
          BY <1>7, <3>2 DEF ClientReceive
        <4>2. kept \subseteq [pair : Connects, num : Nat]
          BY <2>1 DEF MemberTypeOK, TablesTypeOK
        <4> HIDE DEF kept
        <4>3. QED
          <5>1. /\ DOMAIN early_endpoints' =
                      DOMAIN early_endpoints \cup {m.index}
                /\ \A i \in DOMAIN early_endpoints \cup {m.index} :
                     early_endpoints'[i] =
                       IF i = m.index THEN kept ELSE early_endpoints[i]
            BY <4>1 DEF With
          <5>2. QED
            BY <4>2, <5>1 DEF MemberTypeOK, TablesTypeOK
      <3>3. QED
        BY <3>1, <3>2
    <2>3. QED
      BY <1>7, <2>2 DEF ClientReceive, MemberTypeOK, TablesTypeOK
  <1>8. ASSUME NEW m \in messages,
               ServerReceive(m) \/ ServerDisconnect(m) \/ ClientClosed(m)
        PROVE  TablesTypeOK'
    BY <1>8, RangeWithout
       DEF ServerReceive, MemberTypeOK, TablesTypeOK, ServerDisconnect,
           ClientClosed
  <1>9. ASSUME NEW r \in removing, DeleteEndpoint(r)
        PROVE  TablesTypeOK'
    BY <1>9, RangeWithout DEF DeleteEndpoint, MemberTypeOK, TablesTypeOK
  <1>10. CASE ClientDisconnected \/ ServerShutdown \/ ClientShutdown
    BY <1>10, RangeEmpty
       DEF ClientDisconnected, MemberTypeOK, TablesTypeOK, ServerShutdown,
           ClientShutdown
  <1>11. CASE UNCHANGED memberVars
    BY <1>11 DEF MemberTypeOK, TablesTypeOK
  <1>12. QED
    BY <1>1, <1>2, <1>3, <1>4, <1>5, <1>6, <1>7, <1>8, <1>9, <1>10, <1>11,
       MemberCases

LEMMA PacketsTyped ==
  ASSUME MemberTypeOK, IndexesMatch, [MemberNext]_memberVars
  PROVE  PacketsTypeOK'
  <1> USE DEF clientVars, serverVars, packetVars, memberVars
  <1>1. ASSUME NEW d \in Connects,
               AsyncConnect(d) \/ ServerReply(d) \/ ConnectReturns(d)
        PROVE  PacketsTypeOK'
    BY <1>1
       DEF AsyncConnect, MemberTypeOK, PacketsTypeOK, Sides, ServerReply,
           ConnectReturns, TablesTypeOK
  <1>2. ASSUME NEW d \in Connects,
               DropReply(d) \/ ConnectFails(d) \/ ServerSend(d)
        PROVE  PacketsTypeOK'
    BY <1>2
       DEF DropReply, MemberTypeOK, PacketsTypeOK, Sides, ConnectFails,
           ServerSend, LateTo, Peer
  <1>3. ASSUME NEW d \in Connects,
               ClientSend(d) \/ ClientClose(d) \/ ServerClose(d)
        PROVE  PacketsTypeOK'
    BY <1>3
       DEF ClientSend, MemberTypeOK, PacketsTypeOK, Sides, ClientClose,
           ServerClose, LateTo, Peer
  <1>4. ASSUME NEW d \in Connects, NEW i \in Indexes, ServerConnect(d, i)
        PROVE  PacketsTypeOK'
    BY <1>4 DEF ServerConnect, MemberTypeOK, PacketsTypeOK, Sides
  <1>5. ASSUME NEW m \in messages, ClientReceive(m)
        PROVE  PacketsTypeOK'
    <2>1. [pair |-> m.pair, num |-> m.num] \in [pair : Connects, num : Nat]
      BY <1>5, MessageTyped DEF ClientReceive
    <2>2. \/ received' = received
          \/ \E c \in Connects :
               received' = [received EXCEPT !["client"][c] =
                              @ \cup {[pair |-> m.pair, num |-> m.num]}]
      BY <1>5, TableTyped DEF ClientReceive, Receive
    <2>3. QED
      BY <1>5, <2>1, <2>2 DEF ClientReceive, MemberTypeOK, PacketsTypeOK, Sides
  <1>6. ASSUME NEW m \in messages, ServerReceive(m)
        PROVE  PacketsTypeOK'
    <2>1. [pair |-> m.pair, num |-> m.num] \in [pair : Connects, num : Nat]
      BY <1>6, MessageTyped DEF ServerReceive
    <2>2. \/ received' = received
          \/ \E c \in Connects :
               received' = [received EXCEPT !["server"][c] =
                              @ \cup {[pair |-> m.pair, num |-> m.num]}]
      BY <1>6, TableTyped DEF ServerReceive, Receive
    <2>3. QED
      BY <1>6, <2>1, <2>2 DEF ServerReceive, MemberTypeOK, PacketsTypeOK, Sides
  <1>7. ASSUME NEW m \in messages, ServerDisconnect(m) \/ ClientClosed(m)
        PROVE  PacketsTypeOK'
    BY <1>7
       DEF ServerDisconnect, MemberTypeOK, PacketsTypeOK, Sides, ClientClosed
  <1>8. ASSUME NEW r \in removing, DeleteEndpoint(r)
        PROVE  PacketsTypeOK'
    BY <1>8 DEF DeleteEndpoint, MemberTypeOK, PacketsTypeOK, Sides
  <1>9. CASE ClientDisconnected \/ ServerShutdown \/ ClientShutdown
    BY <1>9
       DEF ClientDisconnected, MemberTypeOK, PacketsTypeOK, Sides,
           ServerShutdown, ClientShutdown
  <1>10. CASE UNCHANGED memberVars
    BY <1>10 DEF MemberTypeOK, PacketsTypeOK, Sides
  <1>11. QED
    BY <1>1, <1>2, <1>3, <1>4, <1>5, <1>6, <1>7, <1>8, <1>9, <1>10, MemberCases

(* How far a pair has come, step by step.                                  *)
LEMMA ConnectedStep ==
  ASSUME MemberTypeOK, IndexesMatch, [MemberNext]_memberVars,
         NEW c \in Connects, Connected(c)
  PROVE  Connected(c)'
  <1> USE DEF clientVars, serverVars, packetVars, memberVars
  <1>1. ASSUME NEW d \in Connects,
               AsyncConnect(d) \/ ServerReply(d) \/ ConnectReturns(d)
        PROVE  Connected(c)'
    BY <1>1
       DEF AsyncConnect, MemberTypeOK, EndsTypeOK, PacketsTypeOK, Sides,
           Connected, Indexed, ConnectReq, ConnectRet, ServerReply,
           ConnectReturns
  <1>2. ASSUME NEW d \in Connects,
               DropReply(d) \/ ConnectFails(d) \/ ServerSend(d)
        PROVE  Connected(c)'
    BY <1>2
       DEF DropReply, MemberTypeOK, EndsTypeOK, PacketsTypeOK, Sides,
           Connected, Indexed, ConnectReq, ConnectRet, ConnectFails,
           ServerSend, Packet
  <1>3. ASSUME NEW d \in Connects,
               ClientSend(d) \/ ClientClose(d) \/ ServerClose(d)
        PROVE  Connected(c)'
    <2>1. CASE ClientSend(d)
      BY <2>1
         DEF ClientSend, MemberTypeOK, EndsTypeOK, PacketsTypeOK, Sides,
             Connected, Indexed, Packet, ConnectReq, ConnectRet
    <2>2. CASE ClientClose(d)
      BY <2>2
         DEF ClientClose, ClosesAnother, MemberTypeOK, EndsTypeOK,
             Connected, Indexed, PipeDisconnectReq, ConnectReq, ConnectRet
    <2>3. CASE ServerClose(d)
      BY <2>3
         DEF ServerClose, ClosesAnother, MemberTypeOK, EndsTypeOK,
             Connected, Indexed, PipeClosed, ConnectReq, ConnectRet
    <2>4. QED
      BY <1>3, <2>1, <2>2, <2>3
  <1>4. ASSUME NEW d \in Connects, NEW i \in Indexes, ServerConnect(d, i)
        PROVE  Connected(c)'
    BY <1>4
       DEF ServerConnect, MemberTypeOK, EndsTypeOK, PacketsTypeOK, Sides,
           Connected, Indexed, ConnectReq, ConnectRet
  <1>5. ASSUME NEW m \in messages,
               ClientReceive(m) \/ ServerReceive(m) \/ ServerDisconnect(m)
        PROVE  Connected(c)'
    BY <1>5, TableTyped
       DEF ClientReceive, MemberTypeOK, EndsTypeOK, PacketsTypeOK, Sides,
           Connected, Indexed, Receive, IndexesMatch, ServerReceive,
           ServerDisconnect
  <1>6. ASSUME NEW m \in messages, ClientClosed(m)
        PROVE  Connected(c)'
    BY <1>6, TableTyped
       DEF ClientClosed, MemberTypeOK, EndsTypeOK, PacketsTypeOK, Sides,
           Connected, Indexed, IndexesMatch
  <1>7. ASSUME NEW r \in removing, DeleteEndpoint(r)
        PROVE  Connected(c)'
    BY <1>7
       DEF DeleteEndpoint, MemberTypeOK, EndsTypeOK, PacketsTypeOK, Sides,
           Connected, Indexed
  <1>8. CASE ClientDisconnected \/ ClientShutdown \/ UNCHANGED memberVars
    BY <1>8
       DEF ClientDisconnected, MemberTypeOK, EndsTypeOK, PacketsTypeOK, Sides,
           Connected, Indexed, ClosedIn, Range, IndexesMatch, ClientShutdown
  <1>9. CASE ServerShutdown
    <2>1. \A m \in messages' :
            \/ m \in messages
            \/ \E i \in DOMAIN server_endpoints :
                 m = PipeClosed(i, server_endpoints[i], 0)
      BY <1>9 DEF ServerShutdown
    <2>2. \A m \in Indexed' :
            m \in Indexed \/ serverEnd[m.pair] # "none"
      BY <2>1 DEF Indexed, PipeClosed, IndexesMatch
    <2>3. /\ ConnectReq(c) \in messages' => ConnectReq(c) \in messages
          /\ ConnectRet(c) \in messages' => ConnectRet(c) \in messages
      BY <2>1 DEF PipeClosed, ConnectReq, ConnectRet
    <2>4. serverEnd'[c] = "none" <=> serverEnd[c] = "none"
      BY <1>9 DEF ServerShutdown, ClosedIn, Range, IndexesMatch
    <2>5. QED
      BY <1>9, <2>2, <2>3, <2>4 DEF ServerShutdown, Connected
  <1>10. QED
    BY <1>1, <1>2, <1>3, <1>4, <1>5, <1>6, <1>7, <1>8, <1>9, MemberCases

(* The tables and the messages, step by step.                              *)
LEMMA IndexesStep ==
  ASSUME MemberTypeOK, IndexesMatch, [MemberNext]_memberVars,
         \A c \in Connects : Connected(c)
  PROVE  IndexesMatch'
  <1> USE DEF clientVars, serverVars, packetVars, memberVars
  <1>1. ASSUME NEW d \in Connects,
               AsyncConnect(d) \/ ServerReply(d) \/ DropReply(d)
        PROVE  IndexesMatch'
    BY <1>1, MessageTyped
       DEF AsyncConnect, MemberTypeOK, EndsTypeOK, IndexesMatch, Indexed,
           ConnectReq, ConnectRet, ServerReply, DropReply
  <1>2. ASSUME NEW d \in Connects, ConnectReturns(d)
        PROVE  IndexesMatch'
    BY <1>2, MessageTyped
       DEF ConnectReturns, MemberTypeOK, EndsTypeOK, IndexesMatch, Indexed,
           ConnectReq, ConnectRet, With
  <1>3. ASSUME NEW d \in Connects,
               ConnectFails(d) \/ ServerSend(d) \/ ClientSend(d)
        PROVE  IndexesMatch'
    BY <1>3, MessageTyped
       DEF ConnectFails, MemberTypeOK, EndsTypeOK, IndexesMatch, Indexed,
           ServerSend, Packet, ConnectReq, ConnectRet, ClientSend
  <1>4. ASSUME NEW d \in Connects, ClientClose(d)
        PROVE  IndexesMatch'
    BY <1>4, MessageTyped
       DEF ClientClose, MemberTypeOK, EndsTypeOK, IndexesMatch, Indexed,
           PipeDisconnectReq, ConnectReq, ConnectRet, Without, Restrict
  <1>5. ASSUME NEW d \in Connects, ServerClose(d)
        PROVE  IndexesMatch'
    BY <1>5, MessageTyped
       DEF ServerClose, MemberTypeOK, EndsTypeOK, IndexesMatch, Indexed,
           PipeClosed, ConnectReq, ConnectRet
  <1>6. ASSUME NEW d \in Connects, NEW i \in Indexes, ServerConnect(d, i)
        PROVE  IndexesMatch'
    <2>1. serverEnd[d] = "none"
      BY <1>6 DEF ServerConnect, Connected
    <2>2. /\ \A j \in DOMAIN pipeendpoints : pipeendpoints[j] # d
          /\ \A j \in DOMAIN server_endpoints : server_endpoints[j] # d
          /\ \A m \in Indexed : m.pair # d
      BY <2>1 DEF Connected, IndexesMatch
    <2>3. /\ index'[d] = i /\ serverEnd'[d] = "open"
          /\ \A e \in Connects \ {d} :
               index'[e] = index[e] /\ serverEnd'[e] = serverEnd[e]
      BY <1>6 DEF ServerConnect, MemberTypeOK, EndsTypeOK
    <2>4. \A j \in DOMAIN pipeendpoints :
            /\ index'[pipeendpoints[j]] = j
            /\ clientEnd[pipeendpoints[j]] # "none"
      BY <2>2, <2>3, TableTyped DEF IndexesMatch
    <2>5. \A j \in DOMAIN server_endpoints \cup {i} :
            LET e == IF j = i THEN d ELSE server_endpoints[j]
            IN  index'[e] = j /\ serverEnd'[e] # "none"
      BY <2>2, <2>3, TableTyped DEF IndexesMatch
    <2>6. \A m \in Indexed' : m.index = index'[m.pair]
      BY <1>6, <2>2, <2>3, MessageTyped
         DEF ServerConnect, IndexesMatch, Indexed
    <2>7. QED
      BY <1>6, <2>4, <2>5, <2>6 DEF ServerConnect, With, IndexesMatch
  <1>7. ASSUME NEW m \in messages,
               ClientReceive(m) \/ ServerReceive(m) \/ ServerDisconnect(m)
        PROVE  IndexesMatch'
    BY <1>7, TableTyped, MessageTyped
       DEF ClientReceive, MemberTypeOK, EndsTypeOK, IndexesMatch, Indexed,
           Receive, ServerReceive, ServerDisconnect
  <1>8. ASSUME NEW m \in messages, ClientClosed(m)
        PROVE  IndexesMatch'
    BY <1>8, TableTyped, MessageTyped
       DEF ClientClosed, MemberTypeOK, EndsTypeOK, IndexesMatch, Indexed,
           Without, Restrict
  <1>9. ASSUME NEW r \in removing, DeleteEndpoint(r)
        PROVE  IndexesMatch'
    BY <1>9, MessageTyped
       DEF DeleteEndpoint, MemberTypeOK, EndsTypeOK, IndexesMatch, Indexed,
           Without, Restrict
  <1>10. CASE ClientDisconnected \/ ClientShutdown \/ UNCHANGED memberVars
    BY <1>10, TableTyped, MessageTyped
       DEF ClientDisconnected, MemberTypeOK, EndsTypeOK, IndexesMatch, Indexed,
           ClosedIn, Range, Empty, ClientShutdown
  <1>11. CASE ServerShutdown
    BY <1>11, TableTyped, MessageTyped
       DEF ServerShutdown, MemberTypeOK, EndsTypeOK, IndexesMatch, Indexed,
           PipeClosed, ConnectReq, ConnectRet, ClosedIn, Range, Empty
  <1>12. QED
    BY <1>1, <1>2, <1>3, <1>4, <1>5, <1>6, <1>7, <1>8, <1>9, <1>10, <1>11,
       MemberCases

(* A pair that uses its index does not share it.                           *)
LEMMA NotShared ==
  ASSUME NEW c \in Connects, OwnIndex(c), NEW d \in Connects \ {c},
         Connected(d),
         \/ serverEnd[d] = "open" \/ clientEnd[d] = "open"
         \/ d \in replying \/ ConnectRet(d) \in messages
  PROVE  index[d] # index[c]
  BY DEF OwnIndex, GaveUp, Connected

(* A fresh index stays with its pair, step by step.                        *)
LEMMA OwnIndexStep ==
  ASSUME MemberTypeOK, IndexesMatch, [MemberNext]_memberVars,
         \A e \in Connects : Connected(e),
         NEW c \in Connects, c \in fresh', serverEnd'[c] = "open",
         c \in fresh /\ serverEnd[c] = "open" => OwnIndex(c)
  PROVE  OwnIndex(c)'
  <1> USE DEF clientVars, serverVars, packetVars, memberVars
  <1>1. ASSUME NEW d \in Connects,
               AsyncConnect(d) \/ ServerReply(d) \/ DropReply(d)
        PROVE  OwnIndex(c)'
    <2>1. OwnIndex(c) /\ Indexed' = Indexed
      BY <1>1
         DEF AsyncConnect, ServerReply, DropReply, Indexed, ConnectReq,
             ConnectRet
    <2>2. \A e \in Connects : GaveUp(e) => GaveUp(e)'
      BY <1>1
         DEF AsyncConnect, ServerReply, DropReply, GaveUp, ConnectReq,
             ConnectRet
    <2>3. QED
      BY <1>1, <2>1, <2>2 DEF AsyncConnect, ServerReply, DropReply, OwnIndex
  <1>2. ASSUME NEW d \in Connects, ConnectReturns(d)
        PROVE  OwnIndex(c)'
    <2>1. OwnIndex(c)
      BY <1>2 DEF ConnectReturns
    <2>2. d = c \/ index[d] # index[c]
      BY <1>2, <2>1, NotShared DEF ConnectReturns
    <2>3. Indexed' = Indexed
      BY <1>2 DEF ConnectReturns, Indexed, ConnectRet
    <2>4. \A e \in Connects : e # d /\ GaveUp(e) => GaveUp(e)'
      BY <1>2 DEF ConnectReturns, GaveUp, MemberTypeOK, EndsTypeOK
    <2>5. /\ clientEnd'[d] = "open" /\ clientEnd[d] = "none"
          /\ \A e \in Connects \ {d} : clientEnd'[e] = clientEnd[e]
      BY <1>2 DEF ConnectReturns, MemberTypeOK, EndsTypeOK, Connected
    <2>6. /\ DOMAIN pipeendpoints' = DOMAIN pipeendpoints \cup {index[d]}
          /\ \A j \in DOMAIN pipeendpoints :
               pipeendpoints'[j] = pipeendpoints[j]
          /\ pipeendpoints'[index[d]] = d \/ index[d] \in DOMAIN pipeendpoints
      BY <1>2 DEF ConnectReturns, With
    <2>7. \A j \in DOMAIN early_endpoints' :
            /\ j \in DOMAIN early_endpoints
            /\ early_endpoints'[j] = early_endpoints[j]
      BY <1>2 DEF ConnectReturns, EarlyLeft, Empty, Without, Restrict
    <2>8. \A s \in Sides :
            \A p \in received'[s][c] : p.pair = c \/ p \in late[s]
      BY <1>2, <2>1, <2>2
         DEF ConnectReturns, MemberTypeOK, PacketsTypeOK, Sides, OwnIndex
    <2>9. \A e \in Connects \ {c} :
            serverEnd'[e] # "none" /\ index'[e] = index'[c] => GaveUp(e)'
      BY <1>2, <2>1, <2>2, <2>4 DEF ConnectReturns, OwnIndex
    <2>10. QED
      BY <1>2, <2>1, <2>2, <2>3, <2>5, <2>6, <2>7, <2>8, <2>9
         DEF ConnectReturns, OwnIndex
  <1>3. ASSUME NEW d \in Connects, ConnectFails(d)
        PROVE  OwnIndex(c)'
    BY <1>3
       DEF ConnectFails, MemberTypeOK, EndsTypeOK, PacketsTypeOK, Sides,
           OwnIndex, GaveUp, Indexed, EarlyLeft, Empty
  <1>4. ASSUME NEW d \in Connects, ServerSend(d)
        PROVE  OwnIndex(c)'
    <2> DEFINE p == Packet("client", index[d], d, sends'["server"][d])
    <2>1. OwnIndex(c) /\ serverEnd[d] # "none"
      BY <1>4 DEF ServerSend
    <2>2. \/ d = c \/ index[d] # index[c]
          \/ [pair |-> d, num |-> p.num] \in late'["client"]
      <3>1. ASSUME d # c, index[d] = index[c]
            PROVE  serverEnd[d] = "closed"
        BY <2>1, <3>1, NotShared DEF Connected, MemberTypeOK, EndsTypeOK
      <3>2. QED
        BY <1>4, <3>1
           DEF ServerSend, LateTo, Peer, Packet, MemberTypeOK, PacketsTypeOK,
               Sides
    <2>3. \A m \in Indexed' : m \in Indexed \/ m = p
      BY <1>4 DEF ServerSend, Indexed
    <2>4. \A s \in Sides : late[s] \subseteq late'[s]
      BY <1>4 DEF ServerSend, LateTo, MemberTypeOK, PacketsTypeOK, Sides
    <2>5. \A e \in Connects : GaveUp(e) => GaveUp(e)'
      BY <1>4 DEF ServerSend, GaveUp, ConnectRet, Packet
    <2>6. ASSUME NEW m \in Indexed', m.index = index[c]
          PROVE  /\ m.kind # "Closed"
                 /\ m.kind = "DisconnectReq" =>
                      m.pair = c /\ clientEnd[c] = "closed"
                 /\ m.kind = "Packet" =>
                      \/ m.pair = c
                      \/ [pair |-> m.pair, num |-> m.num] \in late'[m.to]
      <3>1. CASE m \in Indexed
        BY <2>1, <2>4, <2>6, <3>1, MessageTyped DEF OwnIndex, Indexed
      <3>2. CASE m = p
        BY <2>2, <2>6, <3>2 DEF Packet
      <3>3. QED
        BY <2>3, <3>1, <3>2
    <2>7. QED
      <3> HIDE DEF p
      <3>1. QED
        BY <1>4, <2>1, <2>4, <2>5, <2>6 DEF ServerSend, OwnIndex, Sides
  <1>5. ASSUME NEW d \in Connects, ClientSend(d)
        PROVE  OwnIndex(c)'
    <2> DEFINE p == Packet("server", index[d], d, sends'["client"][d])
    <2>1. OwnIndex(c) /\ clientEnd[d] # "none"
      BY <1>5 DEF ClientSend
    <2>2. \/ d = c \/ index[d] # index[c]
          \/ [pair |-> d, num |-> p.num] \in late'["server"]
      <3>1. ASSUME d # c, index[d] = index[c]
            PROVE  clientEnd[d] = "closed"
        BY <2>1, <3>1, NotShared DEF Connected, MemberTypeOK, EndsTypeOK
      <3>2. QED
        BY <1>5, <3>1
           DEF ClientSend, LateTo, Peer, Packet, MemberTypeOK, PacketsTypeOK,
               Sides
    <2>3. \A m \in Indexed' : m \in Indexed \/ m = p
      BY <1>5 DEF ClientSend, Indexed
    <2>4. \A s \in Sides : late[s] \subseteq late'[s]
      BY <1>5 DEF ClientSend, LateTo, MemberTypeOK, PacketsTypeOK, Sides
    <2>5. \A e \in Connects : GaveUp(e) => GaveUp(e)'
      BY <1>5 DEF ClientSend, GaveUp, ConnectRet, Packet
    <2>6. ASSUME NEW m \in Indexed', m.index = index[c]
          PROVE  /\ m.kind # "Closed"
                 /\ m.kind = "DisconnectReq" =>
                      m.pair = c /\ clientEnd[c] = "closed"
                 /\ m.kind = "Packet" =>
                      \/ m.pair = c
                      \/ [pair |-> m.pair, num |-> m.num] \in late'[m.to]
      <3>1. CASE m \in Indexed
        BY <2>1, <2>4, <2>6, <3>1, MessageTyped DEF OwnIndex, Indexed
      <3>2. CASE m = p
        BY <2>2, <2>6, <3>2 DEF Packet
      <3>3. QED
        BY <2>3, <3>1, <3>2
    <2>7. QED
      <3> HIDE DEF p
      <3>1. QED
        BY <1>5, <2>1, <2>4, <2>5, <2>6 DEF ClientSend, OwnIndex, Sides
  <1>6. ASSUME NEW d \in Connects, ClientClose(d)
        PROVE  OwnIndex(c)'
    <2>1. OwnIndex(c) /\ clientEnd[d] # "none"
      BY <1>6 DEF ClientClose, ClosesAnother
    <2>2. d = c \/ index[d] # index[c]
      BY <1>6, <2>1, NotShared
         DEF ClientClose, ClosesAnother, Sharing, MemberTypeOK, EndsTypeOK
    <2>3. \A m \in Indexed' :
            \/ m \in Indexed
            \/ m.index = index[d] /\ m.pair = d /\ m.kind = "DisconnectReq"
      BY <1>6 DEF ClientClose, Indexed, PipeDisconnectReq
    <2>4. \A e \in Connects : GaveUp(e) => GaveUp(e)'
      BY <1>6
         DEF ClientClose, GaveUp, ConnectRet, PipeDisconnectReq, MemberTypeOK,
             EndsTypeOK
    <2>5. /\ clientEnd'[d] = "closed" /\ d \in Connects
          /\ \A e \in Connects \ {d} : clientEnd'[e] = clientEnd[e]
      BY <1>6 DEF ClientClose, MemberTypeOK, EndsTypeOK
    <2>6. /\ DOMAIN pipeendpoints' = DOMAIN pipeendpoints \ {index[d]}
          /\ \A i \in DOMAIN pipeendpoints' :
               pipeendpoints'[i] = pipeendpoints[i]
      BY <1>6 DEF ClientClose, Without, Restrict
    <2>7. QED
      BY <1>6, <2>1, <2>2, <2>3, <2>4, <2>5, <2>6 DEF ClientClose, OwnIndex
  <1>7. ASSUME NEW d \in Connects, ServerClose(d)
        PROVE  OwnIndex(c)'
    <2> DEFINE q == PipeClosed(index[d], d, closes'["server"][d])
    <2>1. OwnIndex(c) /\ serverEnd[d] # "none"
      BY <1>7 DEF ServerClose, ClosesAnother, MemberTypeOK, EndsTypeOK
    <2>2. d # c
      BY <1>7 DEF ServerClose, MemberTypeOK, EndsTypeOK
    <2>3. index[d] # index[c]
      BY <1>7, <2>1, <2>2, NotShared
         DEF ServerClose, ClosesAnother, Sharing, MemberTypeOK, EndsTypeOK
    <2>4. /\ \A m \in Indexed' : m \in Indexed \/ m.index = index[d]
          /\ \A r \in removing' : r \in removing \/ r.pair = d
      BY <1>7 DEF ServerClose, Indexed, PipeClosed
    <2>5. \A e \in Connects : GaveUp(e) => GaveUp(e)'
      BY <1>7
         DEF ServerClose, GaveUp, ConnectRet, PipeClosed, MemberTypeOK,
             EndsTypeOK
    <2>6. \A e \in Connects : serverEnd'[e] # "none" => serverEnd[e] # "none"
      BY <1>7 DEF ServerClose, MemberTypeOK, EndsTypeOK
    <2>7. QED
      BY <1>7, <2>1, <2>2, <2>3, <2>4, <2>5, <2>6 DEF ServerClose, OwnIndex
  <1>8. ASSUME NEW d \in Connects, NEW i \in Indexes, ServerConnect(d, i)
        PROVE  OwnIndex(c)'
    <2>1. /\ serverEnd[d] = "none" /\ i \notin DOMAIN server_endpoints
          /\ d \notin fresh
          /\ \A m \in Indexed : m.pair # d
          /\ \A r \in removing : r.pair # d
          /\ \A s \in Sides : received[s][d] = {}
      BY <1>8, IndexNat DEF ServerConnect, Connected
    <2>2. /\ index'[d] = i /\ serverEnd'[d] = "open"
          /\ \A e \in Connects \ {d} :
               index'[e] = index[e] /\ serverEnd'[e] = serverEnd[e]
      BY <1>8 DEF ServerConnect, MemberTypeOK, EndsTypeOK
    <2>3. Indexed' = Indexed
      BY <1>8 DEF ServerConnect, Indexed, ConnectReq
    <2>4. \A e \in Connects : e # d /\ GaveUp(e) => GaveUp(e)'
      BY <1>8, <2>2 DEF ServerConnect, GaveUp, ConnectReq, ConnectRet
    <2>5. /\ DOMAIN server_endpoints' = DOMAIN server_endpoints \cup {i}
          /\ server_endpoints'[i] = d
          /\ \A j \in DOMAIN server_endpoints :
               j # i => server_endpoints'[j] = server_endpoints[j]
      BY <1>8 DEF ServerConnect, With
    <2>6. removing \subseteq [pair : Connects, cause : Messages]
      BY DEF MemberTypeOK, EndsTypeOK
    <2>7. CASE d = c
      <3>1. Unused(i)
        BY <1>8, <2>1, <2>7 DEF ServerConnect, OwnIndex
      <3>2. QED
        BY <1>8, <2>1, <2>2, <2>3, <2>4, <2>5, <2>6, <2>7, <3>1
           DEF ServerConnect, OwnIndex, Unused, Connected
    <2>8. CASE d # c
      <3>1. OwnIndex(c) /\ index[c] # i
        BY <1>8, <2>1, <2>2, <2>8 DEF ServerConnect, OwnIndex
      <3>2. QED
        BY <1>8, <2>1, <2>2, <2>3, <2>4, <2>5, <2>6, <2>8, <3>1
           DEF ServerConnect, OwnIndex
    <2>9. QED
      BY <2>7, <2>8
  <1>9. ASSUME NEW m \in messages,
               ClientReceive(m) \/ ServerReceive(m) \/ ServerDisconnect(m)
        PROVE  OwnIndex(c)'
    <2> DEFINE p == [pair |-> m.pair, num |-> m.num]
    <2>1. /\ OwnIndex(c) /\ Indexed' \subseteq Indexed
          /\ m \in Indexed /\ m.index \in Nat /\ m.pair \in Connects
      BY <1>9, MessageTyped
         DEF ClientReceive, ServerReceive, ServerDisconnect, Indexed,
             MemberTypeOK, EndsTypeOK
    <2>2. \A e \in Connects : GaveUp(e) => GaveUp(e)'
      BY <1>9
         DEF ClientReceive, ServerReceive, ServerDisconnect, GaveUp,
             MemberTypeOK, EndsTypeOK
    <2>3. CASE ClientReceive(m)
      <3>1. m.index = index[c] => p.pair = c \/ p \in late["client"]
        BY <2>1, <2>3 DEF ClientReceive, OwnIndex
      <3>2. index[c] \in DOMAIN early_endpoints' =>
              \A q \in early_endpoints'[index[c]] :
                q.pair = c \/ q \in late["client"]
        BY <2>1, <2>3, <3>1 DEF ClientReceive, OwnIndex, With
      <3>3. \A s \in Sides : \A q \in received'[s][c] :
              q.pair = c \/ q \in late[s]
        BY <2>1, <2>3, <3>1, TableTyped
           DEF ClientReceive, Receive, OwnIndex, IndexesMatch, MemberTypeOK,
               PacketsTypeOK, Sides
      <3>4. QED
        BY <2>1, <2>2, <2>3, <3>2, <3>3 DEF ClientReceive, OwnIndex
    <2>4. CASE ServerReceive(m)
      <3>1. m.index = index[c] => p.pair = c \/ p \in late["server"]
        BY <2>1, <2>4 DEF ServerReceive, OwnIndex
      <3>2. \A s \in Sides : \A q \in received'[s][c] :
              q.pair = c \/ q \in late[s]
        BY <2>1, <2>4, <3>1, TableTyped
           DEF ServerReceive, Receive, OwnIndex, IndexesMatch, MemberTypeOK,
               PacketsTypeOK, Sides
      <3>3. QED
        BY <2>1, <2>2, <2>4, <3>2 DEF ServerReceive, OwnIndex
    <2>5. CASE ServerDisconnect(m)
      <3>1. m.index # index[c]
        BY <2>1, <2>5 DEF ServerDisconnect, OwnIndex, MemberTypeOK, EndsTypeOK
      <3>2. \A r \in removing' :
              r \in removing \/ index[r.pair] = m.index
        BY <2>5 DEF ServerDisconnect, IndexesMatch
      <3>3. \A e \in Connects :
              serverEnd'[e] # "none" => serverEnd[e] # "none"
        BY <2>5, TableTyped
           DEF ServerDisconnect, IndexesMatch, MemberTypeOK, EndsTypeOK
      <3>4. QED
        BY <2>1, <2>2, <2>5, <3>1, <3>2, <3>3 DEF ServerDisconnect, OwnIndex
    <2>6. QED
      BY <1>9, <2>3, <2>4, <2>5
  <1>10. ASSUME NEW m \in messages, ClientClosed(m)
         PROVE  OwnIndex(c)'
    BY <1>10, TableTyped, MessageTyped
       DEF ClientClosed, MemberTypeOK, EndsTypeOK, PacketsTypeOK, Sides,
           OwnIndex, GaveUp, Indexed, IndexesMatch, Without, Restrict
  <1>11. ASSUME NEW r \in removing, DeleteEndpoint(r)
         PROVE  OwnIndex(c)'
    <2>1. OwnIndex(c) /\ Indexed' = Indexed
      BY <1>11 DEF DeleteEndpoint, Indexed
    <2>2. \A e \in Connects : GaveUp(e)' <=> GaveUp(e)
      BY <1>11 DEF DeleteEndpoint, GaveUp
    <2>3. QED
      BY <1>11, <2>1, <2>2 DEF DeleteEndpoint, OwnIndex, Without, Restrict
  <1>12. CASE ClientDisconnected
    BY <1>12, TableTyped, MessageTyped
       DEF ClientDisconnected, MemberTypeOK, EndsTypeOK, PacketsTypeOK, Sides,
           OwnIndex, GaveUp, Indexed, ClosedIn, Range, IndexesMatch, Empty
  <1>13. CASE ServerShutdown
    BY <1>13, TableTyped, MessageTyped
       DEF ServerShutdown, MemberTypeOK, EndsTypeOK, PacketsTypeOK, Sides,
           OwnIndex, GaveUp, Indexed, PipeClosed, ConnectReq, ConnectRet,
           ClosedIn, Range, IndexesMatch, Empty
  <1>14. CASE ClientShutdown
    <2>1. OwnIndex(c) /\ Indexed' = Indexed
      BY <1>14 DEF ClientShutdown, Indexed
    <2>2. \A e \in Connects : GaveUp(e) => GaveUp(e)'
      BY <1>14 DEF ClientShutdown, GaveUp, ClosedIn
    <2>3. /\ DOMAIN pipeendpoints' = {}
          /\ clientEnd'[c] = "open" =>
               clientEnd[c] = "open" /\ c \notin Range(pipeendpoints)
          /\ clientEnd[c] = "closed" => clientEnd'[c] = "closed"
      BY <1>14, EmptyIs DEF ClientShutdown, ClosedIn
    <2>4. clientEnd[c] = "open" => c \in Range(pipeendpoints)
      BY <2>1 DEF OwnIndex, Range
    <2>5. QED
      BY <1>14, <2>1, <2>2, <2>3, <2>4 DEF ClientShutdown, OwnIndex
  <1>15. CASE UNCHANGED memberVars
    BY <1>15
       DEF MemberTypeOK, EndsTypeOK, PacketsTypeOK, Sides, OwnIndex, GaveUp,
           Indexed
  <1>16. QED
    BY <1>1, <1>2, <1>3, <1>4, <1>5, <1>6, <1>7, <1>8, <1>9, <1>10, <1>11,
       <1>12, <1>13, <1>14, <1>15, MemberCases

(* No packet of a pair with a fresh index is lost, step by step.           *)
LEMMA PacketsStep ==
  ASSUME MemberTypeOK, IndexesMatch, [MemberNext]_memberVars,
         \A e \in Connects : Connected(e),
         NEW c \in Connects, c \in fresh', serverEnd'[c] = "open",
         c \in fresh /\ serverEnd[c] = "open" =>
           OwnIndex(c) /\ PacketsKept(c)
  PROVE  PacketsKept(c)'
  <1> USE DEF clientVars, serverVars, packetVars, memberVars
  <1>1. ASSUME NEW d \in Connects, AsyncConnect(d)
        PROVE  PacketsKept(c)'
    <2>1. PacketsKept(c) /\ d # c /\ call'[c] = call[c]
      BY <1>1 DEF AsyncConnect, Connected, MemberTypeOK, EndsTypeOK
    <2>2. messages \subseteq messages'
      BY <1>1 DEF AsyncConnect
    <2>3. QED
      BY <1>1, <2>1, <2>2
         DEF AsyncConnect, PacketsKept, Foreseen, KeptForClient, KeptForServer
  <1>2. ASSUME NEW d \in Connects, ServerReply(d)
        PROVE  PacketsKept(c)'
    BY <1>2
       DEF ServerReply, MemberTypeOK, EndsTypeOK, PacketsTypeOK, Sides,
           PacketsKept, Foreseen, KeptForClient, KeptForServer, ConnectReq,
           ConnectRet, Packet, Connected
  <1>3. ASSUME NEW d \in Connects, ConnectReturns(d)
        PROVE  PacketsKept(c)'
    <2>1. /\ PacketsKept(c) /\ OwnIndex(c) /\ clientEnd[d] = "none"
          /\ d = c \/ index[d] # index[c]
      BY <1>3, NotShared DEF ConnectReturns, Connected
    <2>2. \A m \in messages : m.kind = "Packet" => m \in messages'
      BY <1>3 DEF ConnectReturns, ConnectRet
    <2>3. ASSUME NEW n \in 1 .. sends["client"][c]
          PROVE  KeptForServer(c, n) => KeptForServer(c, n)'
      BY <1>3, <2>2
         DEF ConnectReturns, KeptForServer, Packet, MemberTypeOK,
             PacketsTypeOK, Sides
    <2>4. CASE d = c
      <3>1. ASSUME ~Unreliable, NEW n \in 1 .. sends["server"][c],
                   KeptForClient(c, n)
            PROVE  KeptForClient(c, n)'
        <4>1. received["client"][c] = {}
          BY <2>1, <2>4 DEF Connected
        <4>2. CASE index[c] \in DOMAIN early_endpoints
          <5>1. received'["client"][c] = early_endpoints[index[c]]
            BY <1>3, <2>4, <3>1, <4>2
               DEF ConnectReturns, MemberTypeOK, PacketsTypeOK, Sides
          <5>2. QED
            BY <1>3, <2>2, <3>1, <4>1, <5>1
               DEF ConnectReturns, KeptForClient, Packet
        <4>3. CASE index[c] \notin DOMAIN early_endpoints
          BY <1>3, <2>2, <3>1, <4>1, <4>3
             DEF ConnectReturns, KeptForClient, Packet
        <4>4. QED
          BY <4>2, <4>3
      <3>2. QED
        BY <1>3, <2>1, <2>3, <2>4, <3>1
           DEF ConnectReturns, PacketsKept, Foreseen
    <2>5. CASE d # c
      <3>1. ASSUME call'[c] = "pending" \/ clientEnd'[c] = "open",
                   NEW n \in 1 .. sends["server"][c], KeptForClient(c, n)
            PROVE  KeptForClient(c, n)'
        <4>1. /\ call'[c] = call[c] /\ clientEnd'[c] = clientEnd[c]
              /\ received'["client"][c] = received["client"][c]
          BY <1>3, <2>5
             DEF ConnectReturns, MemberTypeOK, EndsTypeOK, PacketsTypeOK, Sides
        <4>2. ASSUME clientEnd[c] = "none", index[c] \in DOMAIN early_endpoints
              PROVE  /\ index[c] \in DOMAIN early_endpoints'
                     /\ early_endpoints'[index[c]] = early_endpoints[index[c]]
          <5>1. c \in connecting_endpoints'
            BY <1>3, <2>5, <3>1, <4>1, <4>2 DEF ConnectReturns, Connected
          <5>2. early_endpoints' = Without(early_endpoints, index[d])
            BY <1>3, <5>1 DEF ConnectReturns, EarlyLeft
          <5>3. QED
            BY <2>1, <2>5, <4>2, <5>2 DEF Without, Restrict
        <4>3. QED
          BY <1>3, <2>2, <3>1, <4>1, <4>2
             DEF ConnectReturns, KeptForClient, Packet
      <3>2. /\ call'[c] = call[c] /\ clientEnd'[c] = clientEnd[c]
        BY <1>3, <2>5 DEF ConnectReturns, MemberTypeOK, EndsTypeOK
      <3>3. QED
        BY <1>3, <2>1, <2>3, <3>1, <3>2
           DEF ConnectReturns, PacketsKept, Foreseen
    <2>6. QED
      BY <2>4, <2>5
  <1>4. ASSUME NEW d \in Connects, DropReply(d)
        PROVE  PacketsKept(c)'
    BY <1>4
       DEF DropReply, MemberTypeOK, EndsTypeOK, PacketsTypeOK, Sides,
           PacketsKept, Foreseen, KeptForClient, KeptForServer, ConnectReq,
           ConnectRet, Packet, Connected
  <1>5. ASSUME NEW d \in Connects, ConnectFails(d)
        PROVE  PacketsKept(c)'
    BY <1>5
       DEF ConnectFails, MemberTypeOK, EndsTypeOK, PacketsTypeOK, Sides,
           PacketsKept, Foreseen, KeptForClient, KeptForServer, Packet,
           EarlyLeft, Empty, Connected
  <1>6. ASSUME NEW d \in Connects,
               ServerSend(d) \/ ClientSend(d) \/ ClientClose(d)
        PROVE  PacketsKept(c)'
    <2>1. CASE ServerSend(d)
      BY <2>1
         DEF ServerSend, MemberTypeOK, PacketsTypeOK, Sides, PacketsKept,
             Foreseen, KeptForClient, KeptForServer, Packet
    <2>2. CASE ClientSend(d)
      BY <2>2
         DEF ClientSend, MemberTypeOK, PacketsTypeOK, Sides, PacketsKept,
             Foreseen, KeptForClient, KeptForServer, Packet
    <2>3. CASE ClientClose(d)
      BY <2>3
         DEF ClientClose, ClosesAnother, MemberTypeOK, EndsTypeOK,
             PacketsKept, Foreseen, KeptForClient, KeptForServer
    <2>4. QED
      BY <1>6, <2>1, <2>2, <2>3
  <1>7. ASSUME NEW d \in Connects, ServerClose(d)
        PROVE  PacketsKept(c)'
    BY <1>7
       DEF ServerClose, ClosesAnother, MemberTypeOK, EndsTypeOK, PacketsKept,
           Foreseen, KeptForClient, KeptForServer
  <1>8. ASSUME NEW d \in Connects, NEW i \in Indexes, ServerConnect(d, i)
        PROVE  PacketsKept(c)'
    <2>1. CASE d = c
      <3>1. \A s \in Sides : sends'[s][c] = 0
        BY <1>8, <2>1 DEF ServerConnect, Connected
      <3>2. QED
        BY <3>1 DEF PacketsKept, Sides
    <2>2. CASE d # c
      <3>1. PacketsKept(c) /\ index'[c] = index[c]
        BY <1>8, <2>2 DEF ServerConnect, MemberTypeOK, EndsTypeOK
      <3>2. \A m \in messages : m.kind = "Packet" => m \in messages'
        BY <1>8 DEF ServerConnect, ConnectReq
      <3>3. QED
        BY <1>8, <3>1, <3>2
           DEF ServerConnect, PacketsKept, Foreseen, KeptForClient,
               KeptForServer, Packet
    <2>3. QED
      BY <2>1, <2>2
  <1>9. ASSUME NEW m \in messages,
               ClientReceive(m) \/ ServerReceive(m) \/ ServerDisconnect(m)
        PROVE  PacketsKept(c)'
    BY <1>9, TableTyped, MessageTyped
       DEF ClientReceive, MemberTypeOK, EndsTypeOK, PacketsTypeOK, Sides,
           PacketsKept, Foreseen, KeptForClient, KeptForServer, Receive,
           IndexesMatch, Packet, With, OwnIndex, MayBecome, Indexed, Connected,
           ServerReceive, ServerDisconnect
  <1>10. ASSUME NEW m \in messages, ClientClosed(m)
         PROVE  PacketsKept(c)'
    BY <1>10, TableTyped, MessageTyped
       DEF ClientClosed, MemberTypeOK, EndsTypeOK, PacketsTypeOK, Sides,
           PacketsKept, Foreseen, KeptForClient, KeptForServer, IndexesMatch,
           Packet
  <1>11. ASSUME NEW r \in removing, DeleteEndpoint(r)
         PROVE  PacketsKept(c)'
    BY <1>11
       DEF DeleteEndpoint, MemberTypeOK, EndsTypeOK, PacketsTypeOK, Sides,
           PacketsKept, Foreseen, KeptForClient, KeptForServer, Packet
  <1>12. CASE ClientDisconnected \/ ServerShutdown
    <2>1. c \in fresh /\ serverEnd[c] = "open" /\ serverEnd'[c] = "closed"
      BY <1>12
         DEF ClientDisconnected, ServerShutdown, ClosedIn, MemberTypeOK,
             EndsTypeOK, OwnIndex, Range
    <2>2. QED
      BY <2>1
  <1>13. CASE ClientShutdown
    BY <1>13
       DEF ClientShutdown, ClosedIn, Range, MemberTypeOK, EndsTypeOK,
           IndexesMatch, PacketsKept, Foreseen, KeptForClient, KeptForServer,
           OwnIndex, Packet
  <1>14. CASE UNCHANGED memberVars
    BY <1>14
       DEF MemberTypeOK, EndsTypeOK, PacketsTypeOK, Sides, PacketsKept,
           Foreseen, KeptForClient, KeptForServer, Packet
  <1>15. QED
    BY <1>1, <1>2, <1>3, <1>4, <1>5, <1>6, <1>7, <1>8, <1>9, <1>10, <1>11,
       <1>12, <1>13, <1>14, MemberCases

-----------------------------------------------------------------------------

LEMMA MemberInitInv == MemberInit => MemberInv
  <1> SUFFICES ASSUME MemberInit PROVE MemberInv
    OBVIOUS
  <1>1. MemberTypeOK
    BY RangeEmpty, EmptyIs
       DEF MemberInit, MemberTypeOK, EndsTypeOK, TablesTypeOK, PacketsTypeOK,
           Sides
  <1>2. IndexesMatch
    BY EmptyIs DEF MemberInit, IndexesMatch, Indexed
  <1>3. ASSUME NEW c \in Connects PROVE Connected(c)
    BY DEF MemberInit, Connected, Indexed, Sides
  <1>4. fresh = {}
    BY DEF MemberInit
  <1>5. QED
    BY <1>1, <1>2, <1>3, <1>4 DEF MemberInv

LEMMA MemberInvStep == MemberInv /\ [MemberNext]_memberVars => MemberInv'
  <1> SUFFICES ASSUME MemberInv, [MemberNext]_memberVars PROVE MemberInv'
    OBVIOUS
  <1>1. /\ MemberTypeOK /\ IndexesMatch
        /\ \A c \in Connects : Connected(c)
    BY DEF MemberInv
  <1>2. MemberTypeOK'
    BY <1>1, EndsTyped, MessagesTyped, TablesTyped, PacketsTyped
       DEF MemberTypeOK, Messages
  <1>3. IndexesMatch'
    BY <1>1, IndexesStep
  <1>4. \A c \in Connects : Connected(c)'
    BY <1>1, ConnectedStep
  <1>5. ASSUME NEW c \in fresh', serverEnd'[c] = "open"
        PROVE  OwnIndex(c)' /\ PacketsKept(c)'
    <2>1. c \in Connects
      BY <1>2 DEF MemberTypeOK, EndsTypeOK
    <2>2. QED
      BY <1>1, <1>5, <2>1, OwnIndexStep, PacketsStep DEF MemberInv
  <1>6. QED
    BY <1>2, <1>3, <1>4, <1>5 DEF MemberInv

(* The inductive invariant holds of every execution.                       *)
THEOREM MemberInvariance == MemberSpec => []MemberInv
  BY MemberInitInv, MemberInvStep, PTL DEF MemberSpec

(* The tables of client and service agree on every pair open at both ends  *)
(* (AsyncConnect_internal1, PipeConnectReq, DeleteEndpoint).               *)
THEOREM OpenPairsAreFound == MemberSpec => []Paired
  <1>1. MemberInv => Paired
    BY DEF MemberInv, Paired, BothOpen, OwnIndex
  <1>2. QED
    BY <1>1, MemberInvariance, PTL

(* No packet of a reliable pipe is lost, not even one that comes before    *)
(* the reply to the connect (early_endpoints).                             *)
THEOREM PacketsArrive == MemberSpec => []NoPacketLost
  <1>1. MemberInv => NoPacketLost
    BY DEF MemberInv, NoPacketLost, BothOpen, PacketsKept, KeptForClient,
           KeptForServer
  <1>2. QED
    BY <1>1, MemberInvariance, PTL

(* An endpoint gets its own packets only, whatever the order in which      *)
(* connects, closes and packets are dispatched, but for the packets that   *)
(* an end sends when it is closed (AsyncSendPacketBase does not ask).      *)
THEOREM PacketsAreOwn == MemberSpec => []OwnPackets
  <1>1. MemberInv => OwnPackets
    BY DEF MemberInv, OwnPackets, BothOpen, OwnIndex
  <1>2. QED
    BY <1>1, MemberInvariance, PTL
=============================================================================
