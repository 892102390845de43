------------------------ MODULE PipeBroadcasterProofs ------------------------
(***************************************************************************)
(* The flow control of PipeBroadcaster, for any number of endpoints, of    *)
(* broadcasts and of failures, and every maximum_backlog.                  *)
(***************************************************************************)
EXTENDS PipeBroadcaster, FiniteSetTheorems, TLAPS

-----------------------------------------------------------------------------
(* Sets of broadcasts.                                                     *)

LEMMA SendsFinite ==
  ASSUME NEW n \in Nat, NEW S \in SUBSET (1..n)
  PROVE  IsFiniteSet(S) /\ Cardinality(S) \in Nat
  <1>1. IsFiniteSet(1..n)
    BY FS_Interval
  <1>2. QED
    BY <1>1, FS_Subset, FS_CardinalityType

(* A bound on a set of broadcasts bounds its subsets.                      *)
LEMMA SubsetBounded ==
  ASSUME NEW n \in Nat, NEW S \in SUBSET (1..n), NEW T \in SUBSET S,
         NEW m \in Int, Cardinality(S) <= m
  PROVE  Cardinality(T) <= m
  <1>1. IsFiniteSet(S) /\ Cardinality(S) \in Nat
    BY SendsFinite
  <1>2. Cardinality(T) <= Cardinality(S) /\ IsFiniteSet(T)
    BY <1>1, FS_Subset
  <1>3. Cardinality(T) \in Nat
    BY <1>2, FS_CardinalityType
  <1>4. QED
    BY <1>1, <1>2, <1>3

(* Disjoint sets have as many elements together as apart, and one more     *)
(* with one more.                                                          *)
LEMMA OneMore ==
  ASSUME NEW n \in Nat, NEW S \in SUBSET (1..n), NEW T \in SUBSET (1..n),
         S \cap T = {}, NEW m \in Int, Cardinality(S) + Cardinality(T) <= m,
         NEW x
  PROVE  Cardinality((S \cup T) \cup {x}) <= m + 1
  <1>1. /\ IsFiniteSet(S) /\ Cardinality(S) \in Nat
        /\ IsFiniteSet(T) /\ Cardinality(T) \in Nat
    BY SendsFinite
  <1>2. /\ IsFiniteSet(S \cup T)
        /\ Cardinality(S \cup T) =
             Cardinality(S) + Cardinality(T) - Cardinality(S \cap T)
    BY <1>1, FS_Union
  <1>3. Cardinality(S \cap T) = 0
    BY FS_EmptySet
  <1>4. Cardinality((S \cup T) \cup {x}) =
          IF x \in S \cup T THEN Cardinality(S \cup T)
                            ELSE Cardinality(S \cup T) + 1
    BY <1>2, FS_AddElement
  <1>5. QED
    BY <1>1, <1>2, <1>3, <1>4

LEMMA AddAt ==
  ASSUME NEW f, NEW es, NEW op, NEW e \in Endpoints
  PROVE  /\ e \in es => Add(f, es, op)[e] = f[e] \cup {op}
         /\ e \notin es => Add(f, es, op)[e] = f[e]
         /\ e \in es => Remove(f, es, op)[e] = f[e] \ {op}
         /\ e \notin es => Remove(f, es, op)[e] = f[e]
BY DEF Add, Remove

LEMMA AddTyped ==
  ASSUME NEW n \in Nat, NEW f \in [Endpoints -> SUBSET (1..n)], NEW es,
         NEW op \in 1..n
  PROVE  /\ Add(f, es, op) \in [Endpoints -> SUBSET (1..n)]
         /\ Remove(f, es, op) \in [Endpoints -> SUBSET (1..n)]
BY DEF Add, Remove

LEMMA Widened ==
  ASSUME NEW n \in Nat, NEW f \in [Endpoints -> SUBSET (1..n)]
  PROVE  f \in [Endpoints -> SUBSET (1..(n + 1))]
  <1>1. 1..n \subseteq 1..(n + 1)
    OBVIOUS
  <1>2. QED
    BY <1>1

-----------------------------------------------------------------------------
(* Types.                                                                  *)

LEMMA SendsInRange ==
  ASSUME TypeOK
  PROVE  /\ sent \in Nat /\ maximum_backlog \in Int
         /\ \A op \in 1..sent : op \in Sends
BY BacklogsAssumption, MaxSendsAssumption DEF TypeOK, Sends

(* handle_send counts a key off and calls the handler at most.             *)
LEMMA KeyDoneTyped ==
  ASSUME TypeOK, NEW e \in Endpoints, NEW op \in Sends, KeyDone(e, op)
  PROVE  keys' \in [Sends -> SUBSET Endpoints] /\ done' \in [Sends -> Nat]
BY DEF TypeOK, KeyDone

LEMMA HandledTyped ==
  ASSUME TypeOK, NEW e \in Endpoints, NEW op \in 1..sent, Handled(e, op)
  PROVE  /\ backlog' \in [Endpoints -> SUBSET (1..sent)]
         /\ forward_backlog' \in [Endpoints -> SUBSET (1..sent)]
BY SendsInRange, AddTyped DEF TypeOK, Handled

LEMMA TypeStep ==
  ASSUME TypeOK, [Next]_vars
  PROVE  TypeOK'
  <1> USE DEF TypeOK
  <1>0. sent \in Nat
    BY SendsInRange
  <1>1. ASSUME NEW e \in Endpoints, EndpointLife(e) PROVE TypeOK'
    <2> USE LeavingAssumption DEF lists
    <2>1. UNCHANGED <<maximum_backlog, lists, sent, sending, keys, done, unacked, failed>>
      BY <1>1 DEF EndpointLife
    <2>2. CASE Open(e)
      BY <2>1, <2>2 DEF Open
    <2>3. CASE EndpointConnectedBase(e)
      BY <2>1, <2>3 DEF EndpointConnectedBase
    <2>4. CASE RemoteClose(e)
      BY <2>1, <2>4 DEF RemoteClose
    <2>5. CASE DeleteEndpoint(e)
      BY <2>1, <2>5 DEF DeleteEndpoint
    <2>6. CASE ClientDisconnected(e)
      BY <2>1, <2>6 DEF ClientDisconnected
    <2>7. CASE Close(e)
      BY <2>1, <2>7 DEF Close
    <2>8. CASE EndpointClosedBase(e)
      BY <2>1, <2>8 DEF EndpointClosedBase
    <2>9. QED
      BY <1>1, <2>2, <2>3, <2>4, <2>5, <2>6, <2>7, <2>8 DEF EndpointLife
  <1>2. ASSUME NEW n \in Backlogs, SetMaxBacklog(n) PROVE TypeOK'
    BY <1>2 DEF SetMaxBacklog, life, lists
  <1>3. ASSUME NEW expired \in SUBSET endpoints, NEW chosen \in SUBSET endpoints,
               NEW refuses \in SUBSET endpoints,
               AsyncSendPacketBase(expired, chosen, refuses)
        PROVE  TypeOK'
    <2> DEFINE op == sent + 1
               tried == {e \in chosen : ~Full(e)}
               to == tried \ refuses
    <2>1. op \in 1..(sent + 1) /\ sent + 1 \in Nat /\ sent + 1 \in 0..MaxSends /\ op \in Sends
      BY <1>0, <1>3, MaxSendsAssumption DEF AsyncSendPacketBase, Sends
    <2>2. /\ sent' = sent + 1
          /\ endpoints' = endpoints \ expired
          /\ active_sends' = Add(active_sends, tried, op)
          /\ failed' = Add(failed, refuses, op)
          /\ sending' = Add(sending, to, op)
          /\ unacked' = Add(unacked, to, op)
          /\ keys' = [keys EXCEPT ![op] = to]
          /\ done' = CompletedAtOnce(op, to)
          /\ UNCHANGED <<maximum_backlog, pipe, connecting, attached,
                         RequestPacketAck, closing, deleting, backlog, forward_backlog>>
      BY <1>3 DEF AsyncSendPacketBase
    <2>3. to \subseteq Endpoints
      OBVIOUS
    <2> HIDE DEF op, tried, to
    <2>4. /\ active_sends' \in [Endpoints -> SUBSET (1..sent')]
          /\ backlog' \in [Endpoints -> SUBSET (1..sent')]
          /\ forward_backlog' \in [Endpoints -> SUBSET (1..sent')]
      BY <1>0, <2>1, <2>2, Widened, AddTyped
    <2>5. /\ sending' \in [Endpoints -> SUBSET (1..sent')]
          /\ unacked' \in [Endpoints -> SUBSET (1..sent')]
          /\ failed' \in [Endpoints -> SUBSET (1..sent')]
      BY <1>0, <2>1, <2>2, Widened, AddTyped
    <2>6. keys' \in [Sends -> SUBSET Endpoints]
      BY <2>1, <2>2, <2>3
    <2>7. done' \in [Sends -> Nat]
      BY <2>1, <2>2 DEF CompletedAtOnce
    <2>8. QED
      BY <2>1, <2>2, <2>4, <2>5, <2>6, <2>7
  <1>4. ASSUME NEW e \in Endpoints, NEW op \in Sends, SendFails(e, op)
        PROVE  TypeOK'
    <2>1. op \in 1..sent
      BY <1>4 DEF SendFails
    <2>2. /\ unacked' \in [Endpoints -> SUBSET (1..sent)]
          /\ failed' \in [Endpoints -> SUBSET (1..sent)]
      BY <1>0, <1>4, <2>1, AddTyped DEF SendFails
    <2>3. QED
      BY <1>4, <2>2 DEF SendFails, life, lists
  <1>5. ASSUME NEW e \in Endpoints, NEW op \in Sends, handle_send(e, op)
        PROVE  TypeOK'
    <2>1. op \in 1..sent /\ Handled(e, op) /\ KeyDone(e, op)
      BY <1>5 DEF handle_send
    <2>2. /\ sending' \in [Endpoints -> SUBSET (1..sent)]
          /\ active_sends' \in [Endpoints -> SUBSET (1..sent)]
      BY <1>0, <1>5, <2>1, AddTyped DEF handle_send
    <2>3. /\ keys' \in [Sends -> SUBSET Endpoints]
          /\ done' \in [Sends -> Nat]
          /\ backlog' \in [Endpoints -> SUBSET (1..sent)]
          /\ forward_backlog' \in [Endpoints -> SUBSET (1..sent)]
      BY <2>1, HandledTyped, KeyDoneTyped
    <2>4. QED
      BY <1>5, <2>2, <2>3 DEF handle_send, life
  <1>6. ASSUME NEW e \in Endpoints, NEW op \in Sends, PacketAckReceivedBase(e, op)
        PROVE  TypeOK'
    <2>1. op \in 1..sent /\ Acked(e, op)
      BY <1>6 DEF PacketAckReceivedBase
    <2>2. /\ unacked' \in [Endpoints -> SUBSET (1..sent)]
          /\ backlog' \in [Endpoints -> SUBSET (1..sent)]
          /\ forward_backlog' \in [Endpoints -> SUBSET (1..sent)]
      BY <1>0, <1>6, <2>1, AddTyped DEF PacketAckReceivedBase, Acked
    <2>3. QED
      BY <1>6, <2>2 DEF PacketAckReceivedBase, life
  <1>7. CASE UNCHANGED vars
    BY <1>7 DEF vars, life, lists
  <1>8. QED
    BY <1>1, <1>2, <1>3, <1>4, <1>5, <1>6, <1>7 DEF Next

-----------------------------------------------------------------------------
(* The slots.                                                              *)

(* The lists of one endpoint, before and after a step that is not its own. *)
LEMMA OthersKeep ==
  ASSUME NEW e \in Endpoints,
         /\ active_sends'[e] = active_sends[e]
         /\ backlog'[e] = backlog[e]
         /\ forward_backlog'[e] = forward_backlog[e]
         /\ sending'[e] = sending[e]
         /\ unacked'[e] = unacked[e]
         /\ failed'[e] = failed[e]
  PROVE  /\ Unused(e) => Unused(e)'
         /\ Slots(e) /\ maximum_backlog' = maximum_backlog => Slots(e)'
BY DEF Unused, Slots, Accounted, Taken

(* A packet that is in a list is one that was broadcast to the endpoint.   *)
LEMMA TakenRange ==
  ASSUME TypeOK, NEW e \in Endpoints
  PROVE  /\ Taken(e) \in SUBSET (1..sent)
         /\ active_sends[e] \in SUBSET (1..sent)
         /\ backlog[e] \in SUBSET (1..sent)
BY DEF TypeOK, Taken

(* Nothing more is taken, and so not too much.                             *)
LEMMA StillBounded ==
  ASSUME TypeOK, NEW e \in Endpoints, Cardinality(Taken(e)) <= maximum_backlog + 1,
         Taken(e)' \subseteq Taken(e)
  PROVE  Cardinality(Taken(e)') <= maximum_backlog + 1
  <1>1. sent \in Nat /\ maximum_backlog + 1 \in Int
    BY SendsInRange
  <1>2. QED
    BY <1>1, TakenRange, SubsetBounded

(* A new broadcast takes a slot of the endpoints it is tried on.           *)
LEMMA BroadcastSlots ==
  ASSUME TypeOK, NEW e \in Endpoints, NEW tried, NEW refuses \in SUBSET tried,
         active_sends' = Add(active_sends, tried, sent + 1),
         failed' = Add(failed, refuses, sent + 1),
         sending' = Add(sending, tried \ refuses, sent + 1),
         unacked' = Add(unacked, tried \ refuses, sent + 1),
         UNCHANGED <<maximum_backlog, backlog, forward_backlog>>,
         maximum_backlog >= 0, Slots(e), e \in tried => ~Full(e)
  PROVE  Slots(e)'
  <1> DEFINE op == sent + 1
  <1>1. /\ sent \in Nat /\ maximum_backlog \in Int
        /\ op \notin 1..sent
    BY SendsInRange
  <1>2. /\ op \notin sending[e] /\ op \notin unacked[e] /\ op \notin failed[e]
        /\ op \notin active_sends[e] /\ op \notin backlog[e]
        /\ op \notin forward_backlog[e]
    BY <1>1 DEF TypeOK
  <1>3. CASE e \notin tried
    BY <1>3, AddAt, OthersKeep
  <1>4. CASE e \in tried
    <2>1. /\ active_sends'[e] = active_sends[e] \cup {op}
          /\ backlog'[e] = backlog[e] /\ forward_backlog'[e] = forward_backlog[e]
          /\ Taken(e)' = Taken(e) \cup {op}
      BY <1>4, AddAt DEF Taken
    <2>2. /\ e \in refuses =>
               /\ failed'[e] = failed[e] \cup {op}
               /\ sending'[e] = sending[e] /\ unacked'[e] = unacked[e]
          /\ e \notin refuses =>
               /\ failed'[e] = failed[e]
               /\ sending'[e] = sending[e] \cup {op}
               /\ unacked'[e] = unacked[e] \cup {op}
      BY <1>4, AddAt
    <2> HIDE DEF op
    <2>3. Accounted(e)'
      <3>1. active_sends'[e] \cup backlog'[e] = Taken(e)'
        BY <2>1 DEF Slots, Accounted
      <3>2. backlog'[e] \cap (sending'[e] \cup active_sends'[e]) = {}
        BY <1>2, <2>1, <2>2 DEF Slots, Accounted
      <3>3. forward_backlog'[e] = sending'[e] \ (unacked'[e] \cup failed'[e])
        <4>1. forward_backlog[e] = sending[e] \ (unacked[e] \cup failed[e])
          BY DEF Slots, Accounted
        <4>2. CASE e \in refuses
          <5>1. op \notin sending[e]
            BY <1>2
          <5>2. QED
            BY <2>1, <2>2, <4>1, <4>2, <5>1
        <4>3. CASE e \notin refuses
          BY <1>2, <2>1, <2>2, <4>1, <4>3
        <4>4. QED
          BY <4>2, <4>3
      <3>4. QED
        BY <3>1, <3>2, <3>3 DEF Accounted
    <2>4. /\ unacked'[e] \cap failed'[e] = {}
          /\ active_sends'[e] \subseteq sending'[e] \cup failed'[e]
      BY <1>2, <2>1, <2>2 DEF Slots
    <2>5. Cardinality(Taken(e)') <= maximum_backlog + 1
      <3>1. /\ Taken(e) = backlog[e] \cup active_sends[e]
            /\ backlog[e] \cap active_sends[e] = {}
        BY DEF Slots, Accounted
      <3>2. /\ Cardinality(backlog[e]) \in Nat
            /\ Cardinality(active_sends[e]) \in Nat
        BY <1>1, TakenRange, SendsFinite
      <3>3. Cardinality(backlog[e]) + Cardinality(active_sends[e]) <= maximum_backlog
        BY <1>1, <1>4, <3>2 DEF Full, Pending
      <3>4. QED
        BY <1>1, <2>1, <3>1, <3>3, TakenRange, OneMore
    <2>6. QED
      BY <2>3, <2>4, <2>5 DEF Slots
  <1>5. QED
    BY <1>3, <1>4

(* A send that fails keeps its slot.                                       *)
LEMMA FailSlots ==
  ASSUME TypeOK, NEW e \in Endpoints, NEW op \in Sends, SendFails(e, op), Slots(e)
  PROVE  Slots(e)'
  <1>1. /\ op \in sending[e] /\ op \in unacked[e] /\ op \notin failed[e]
        /\ unacked'[e] = unacked[e] \ {op}
        /\ failed'[e] = failed[e] \cup {op}
        /\ UNCHANGED <<maximum_backlog, active_sends, backlog, forward_backlog, sending>>
    BY AddAt DEF SendFails, lists
  <1>2. Taken(e)' = Taken(e)
    BY <1>1 DEF Taken
  <1>3. Accounted(e)'
    BY <1>1, <1>2 DEF Slots, Accounted
  <1>4. QED
    BY <1>1, <1>2, <1>3 DEF Slots

(* handle_send moves a slot to backlog, or frees it if the ack has come.   *)
LEMMA HandleSendSlots ==
  ASSUME TypeOK, NEW e \in Endpoints, NEW op \in Sends, handle_send(e, op),
         Slots(e), maximum_backlog >= 0
  PROVE  Slots(e)'
  <1>1. /\ op \in sending[e]
        /\ sending'[e] = sending[e] \ {op}
        /\ active_sends'[e] = active_sends[e] \ {op}
        /\ UNCHANGED <<maximum_backlog, unacked, failed>>
    BY AddAt DEF handle_send
  <1>2. op \notin backlog[e]
    BY <1>1 DEF Slots, Accounted
  <1>3. maximum_backlog \in Int
    BY SendsInRange
  <1>4. \/ /\ op \in forward_backlog[e]
           /\ forward_backlog'[e] = forward_backlog[e] \ {op}
           /\ backlog'[e] = backlog[e]
        \/ /\ op \notin forward_backlog[e]
           /\ forward_backlog'[e] = forward_backlog[e]
           /\ backlog'[e] = backlog[e] \cup {op}
    BY <1>3, AddAt DEF handle_send, Handled
  <1>5. Taken(e)' \subseteq Taken(e)
    BY <1>1 DEF Taken
  <1>6. Accounted(e)'
    BY <1>1, <1>2, <1>4 DEF Slots, Accounted, Taken
  <1>7. Cardinality(Taken(e)') <= maximum_backlog' + 1
    BY <1>1, <1>5, StillBounded DEF Slots
  <1>8. QED
    BY <1>1, <1>6, <1>7 DEF Slots

(* An ack frees the slot of its packet, or marks it for handle_send.       *)
LEMMA AckSlots ==
  ASSUME TypeOK, NEW e \in Endpoints, NEW op \in Sends,
         PacketAckReceivedBase(e, op), Slots(e)
  PROVE  Slots(e)'
  <1>1. /\ op \in unacked[e]
        /\ unacked'[e] = unacked[e] \ {op}
        /\ UNCHANGED <<maximum_backlog, active_sends, sending, failed>>
    BY AddAt DEF PacketAckReceivedBase
  <1>2. \/ /\ op \in backlog[e]
           /\ backlog'[e] = backlog[e] \ {op}
           /\ forward_backlog'[e] = forward_backlog[e]
        \/ /\ op \notin backlog[e]
           /\ backlog'[e] = backlog[e]
           /\ forward_backlog'[e] = forward_backlog[e] \cup {op}
    BY AddAt DEF PacketAckReceivedBase, Acked
  <1>3. op \notin failed[e]
    BY <1>1 DEF Slots
  <1>4. op \in backlog[e] \/ op \in sending[e]
    BY <1>1, <1>3 DEF Slots, Accounted, Taken
  <1>5. Taken(e)' \subseteq Taken(e)
    BY <1>1 DEF Taken
  <1>6. Accounted(e)'
    BY <1>1, <1>2, <1>3, <1>4 DEF Slots, Accounted, Taken
  <1>7. Cardinality(Taken(e)') <= maximum_backlog' + 1
    BY <1>1, <1>5, StillBounded DEF Slots
  <1>8. QED
    BY <1>1, <1>3, <1>6, <1>7 DEF Slots

-----------------------------------------------------------------------------

(* No step but a broadcast and handle_send concerns the keys: handle_send  *)
(* of an endpoint takes it from the keys it is in, and completes the       *)
(* broadcast if it was the last.                                           *)
LEMMA KeysStep ==
  ASSUME TypeOK, KeysMatch, [Next]_vars
  PROVE  KeysMatch'
  <1>0. sent \in Nat /\ \A op \in Sends : op \in Nat
    BY SendsInRange DEF Sends
  <1>1. CASE UNCHANGED <<sent, sending, keys, done>>
    BY <1>1 DEF KeysMatch
  <1>2. ASSUME NEW expired \in SUBSET endpoints, NEW chosen \in SUBSET endpoints,
               NEW refuses \in SUBSET endpoints,
               AsyncSendPacketBase(expired, chosen, refuses)
        PROVE  KeysMatch'
    <2> DEFINE to == {e \in chosen : ~Full(e)} \ refuses
    <2>1. /\ sent' = sent + 1 /\ sent' \in Sends /\ to \in SUBSET Endpoints
          /\ sending' = Add(sending, to, sent + 1)
          /\ keys' = [keys EXCEPT ![sent + 1] = to]
          /\ done' = CompletedAtOnce(sent + 1, to)
      BY <1>2, MaxSendsAssumption DEF AsyncSendPacketBase, TypeOK, Sends
    <2> HIDE DEF to
    <2>2. /\ keys'[sent + 1] = to
          /\ \A k \in Sends \ {sent + 1} : keys'[k] = keys[k] /\ done'[k] = done[k]
      BY <2>1 DEF TypeOK, CompletedAtOnce
    <2>3. done'[sent + 1] = IF to = {} THEN 1 ELSE 0
      BY <1>0, <2>1 DEF TypeOK, CompletedAtOnce, KeysMatch
    <2>4. ASSUME NEW k \in Sends, NEW e \in Endpoints
          PROVE  e \in keys'[k] <=> k \in sending'[e]
      <3>1. sent + 1 \notin sending[e]
        BY <1>0 DEF TypeOK
      <3>2. sending'[e] = IF e \in to THEN sending[e] \cup {sent + 1}
                                      ELSE sending[e]
        BY <2>1 DEF Add
      <3>3. e \in keys[k] <=> k \in sending[e]
        BY DEF KeysMatch
      <3>4. CASE k = sent + 1
        BY <2>2, <3>1, <3>2, <3>4
      <3>5. CASE k # sent + 1
        BY <2>2, <3>2, <3>3, <3>5
      <3>6. QED
        BY <3>4, <3>5
    <2>5. ASSUME NEW k \in Sends
          PROVE  done'[k] = IF k <= sent' /\ keys'[k] = {} THEN 1 ELSE 0
      <3>1. CASE k = sent + 1
        BY <1>0, <2>1, <2>2, <2>3, <3>1
      <3>2. CASE k # sent + 1
        <4>1. k <= sent' <=> k <= sent
          BY <1>0, <2>1, <3>2
        <4>2. QED
          BY <2>2, <3>2, <4>1 DEF KeysMatch
      <3>3. QED
        BY <3>1, <3>2
    <2>6. QED
      BY <2>4, <2>5 DEF KeysMatch
  <1>3. ASSUME NEW c \in Endpoints, NEW op \in Sends, handle_send(c, op)
        PROVE  KeysMatch'
    <2>1. /\ op \in sending[c] /\ sent' = sent
          /\ sending' = Remove(sending, {c}, op)
          /\ keys' = [keys EXCEPT ![op] = @ \ {c}]
          /\ done' = IF keys'[op] = {} THEN [done EXCEPT ![op] = @ + 1] ELSE done
      BY <1>3 DEF handle_send, KeyDone
    <2>2. /\ keys'[op] = keys[op] \ {c} /\ c \in keys[op] /\ op <= sent
          /\ done[op] = 0
          /\ \A k \in Sends \ {op} : keys'[k] = keys[k] /\ done'[k] = done[k]
      BY <1>0, <2>1 DEF TypeOK, KeysMatch
    <2>3. done'[op] = IF keys'[op] = {} THEN 1 ELSE 0
      BY <2>1, <2>2 DEF TypeOK
    <2>4. ASSUME NEW k \in Sends, NEW e \in Endpoints
          PROVE  e \in keys'[k] <=> k \in sending'[e]
      <3>1. sending'[e] = IF e = c THEN sending[e] \ {op} ELSE sending[e]
        BY <2>1 DEF Remove
      <3>2. e \in keys[k] <=> k \in sending[e]
        BY DEF KeysMatch
      <3>3. CASE k = op
        BY <2>2, <3>1, <3>2, <3>3
      <3>4. CASE k # op
        BY <2>2, <3>1, <3>2, <3>4
      <3>5. QED
        BY <3>3, <3>4
    <2>5. \A k \in Sends :
            done'[k] = IF k <= sent' /\ keys'[k] = {} THEN 1 ELSE 0
      BY <2>1, <2>2, <2>3 DEF KeysMatch
    <2>6. QED
      BY <2>4, <2>5 DEF KeysMatch
  <1>4. QED
    BY <1>1, <1>2, <1>3
    DEF Next, EndpointLife, SetMaxBacklog, SendFails, PacketAckReceivedBase, vars

LEMMA IInvInit == Init => IInv
  <1> SUFFICES ASSUME Init PROVE IInv
    OBVIOUS
  <1>1. TypeOK
    BY MaxSendsAssumption DEF Init, TypeOK, None
  <1>2. \A e \in Endpoints : Unused(e)
    BY DEF Init, Unused, Taken, None
  <1>3. endpoints = {}
    BY DEF Init
  <1>4. KeysMatch
    BY MaxSendsAssumption DEF Init, KeysMatch, None, Sends
  <1>5. QED
    BY <1>1, <1>2, <1>3, <1>4 DEF IInv

(* The endpoints that come and go, with lists that stay as they are.       *)
LEMMA LifeStep ==
  ASSUME IInv, NEW c \in Endpoints, EndpointLife(c)
  PROVE  /\ \A e \in Endpoints \ attached' : Unused(e)'
         /\ \A e \in endpoints' : maximum_backlog' >= 0 => Slots(e)'
  <1>1. UNCHANGED <<maximum_backlog, active_sends, backlog, forward_backlog,
                    sending, unacked, failed>>
    BY DEF EndpointLife, lists
  <1>2. attached \subseteq attached'
    BY DEF EndpointLife, Open, EndpointConnectedBase, RemoteClose,
           DeleteEndpoint, ClientDisconnected, Close, EndpointClosedBase
  <1>3. endpoints' \subseteq endpoints \/ EndpointConnectedBase(c)
    BY DEF EndpointLife, Open, RemoteClose, DeleteEndpoint,
           ClientDisconnected, Close, EndpointClosedBase
  <1>4. endpoints \subseteq Endpoints /\ maximum_backlog \in Int
    BY SendsInRange DEF IInv, TypeOK
  <1>5. \A e \in Endpoints : Unused(e) => Slots(e)' \/ ~(maximum_backlog >= 0)
    <2> SUFFICES ASSUME NEW e \in Endpoints, Unused(e), maximum_backlog >= 0
                 PROVE  Slots(e)'
      OBVIOUS
    <2>1. /\ Taken(e)' = {} /\ active_sends'[e] = {} /\ backlog'[e] = {}
          /\ forward_backlog'[e] = {} /\ sending'[e] = {} /\ unacked'[e] = {}
          /\ failed'[e] = {}
      BY <1>1 DEF Unused, Taken
    <2>2. Cardinality(Taken(e)') <= maximum_backlog' + 1
      BY <1>1, <1>4, <2>1, FS_EmptySet
    <2>3. QED
      BY <2>1, <2>2 DEF Slots, Accounted
  <1>6. ASSUME NEW e \in Endpoints \ attached' PROVE Unused(e)'
    BY <1>1, <1>2, OthersKeep DEF IInv
  <1>7. ASSUME NEW e \in endpoints', maximum_backlog' >= 0 PROVE Slots(e)'
    <2>1. CASE e \in endpoints
      BY <1>1, <1>4, <1>7, <2>1, OthersKeep DEF IInv
    <2>2. CASE e \notin endpoints
      <3>1. e = c /\ c \in connecting
        BY <1>3, <1>7, <2>2 DEF EndpointConnectedBase
      <3>2. Unused(e)
        BY <3>1 DEF IInv, TypeOK
      <3>3. QED
        BY <1>1, <1>5, <1>7, <3>1, <3>2
    <2>3. QED
      BY <2>1, <2>2
  <1>8. QED
    BY <1>6, <1>7

(* What a step on a packet of c leaves true of every endpoint, given that  *)
(* it does of c.                                                           *)
LEMMA OneEndpointStep ==
  ASSUME IInv, NEW c \in Endpoints,
         UNCHANGED <<maximum_backlog, endpoints, attached>>,
         Taken(c) # {},
         maximum_backlog >= 0 /\ Slots(c) => Slots(c)',
         \A e \in Endpoints \ {c} :
           /\ active_sends'[e] = active_sends[e]
           /\ backlog'[e] = backlog[e]
           /\ forward_backlog'[e] = forward_backlog[e]
           /\ sending'[e] = sending[e]
           /\ unacked'[e] = unacked[e]
           /\ failed'[e] = failed[e]
  PROVE  /\ \A e \in Endpoints \ attached' : Unused(e)'
         /\ \A e \in endpoints' : maximum_backlog' >= 0 => Slots(e)'
  <1>1. c \in attached
    BY DEF IInv, Unused
  <1>2. ASSUME NEW e \in Endpoints \ attached' PROVE Unused(e)'
    <2>1. e # c /\ Unused(e)
      BY <1>1, <1>2 DEF IInv
    <2>2. QED
      BY <2>1, OthersKeep
  <1>3. ASSUME NEW e \in endpoints', maximum_backlog' >= 0 PROVE Slots(e)'
    <2>1. e \in Endpoints /\ Slots(e)
      BY <1>3 DEF IInv, TypeOK
    <2>2. CASE e = c
      BY <1>3, <2>1, <2>2
    <2>3. CASE e # c
      BY <2>1, <2>3, OthersKeep
    <2>4. QED
      BY <2>2, <2>3
  <1>4. QED
    BY <1>2, <1>3

LEMMA IInvStep == IInv /\ [Next]_vars => IInv'
  <1> SUFFICES ASSUME IInv, [Next]_vars PROVE IInv'
    OBVIOUS
  <1>0. /\ TypeOK /\ TypeOK' /\ KeysMatch'
        /\ endpoints \subseteq attached /\ attached \subseteq Endpoints
    BY TypeStep, KeysStep DEF IInv, TypeOK
  <1> SUFFICES /\ \A e \in Endpoints \ attached' : Unused(e)'
               /\ \A e \in endpoints' : maximum_backlog' >= 0 => Slots(e)'
    BY <1>0 DEF IInv
  <1>1. CASE \E e \in Endpoints : EndpointLife(e)
    BY <1>1, LifeStep
  <1>2. CASE \E n \in Backlogs : SetMaxBacklog(n)
    BY <1>0, <1>2, OthersKeep DEF SetMaxBacklog, life, lists, IInv
  <1>3. ASSUME NEW expired \in SUBSET endpoints, NEW chosen \in SUBSET endpoints,
               NEW refuses \in SUBSET endpoints,
               AsyncSendPacketBase(expired, chosen, refuses)
        PROVE  /\ \A e \in Endpoints \ attached' : Unused(e)'
               /\ \A e \in endpoints' : maximum_backlog' >= 0 => Slots(e)'
    <2> DEFINE tried == {e \in chosen : ~Full(e)}
    <2>1. /\ refuses \subseteq tried /\ tried \subseteq endpoints
          /\ endpoints' \subseteq endpoints
          /\ active_sends' = Add(active_sends, tried, sent + 1)
          /\ failed' = Add(failed, refuses, sent + 1)
          /\ sending' = Add(sending, tried \ refuses, sent + 1)
          /\ unacked' = Add(unacked, tried \ refuses, sent + 1)
          /\ UNCHANGED <<maximum_backlog, attached, backlog, forward_backlog>>
      BY <1>3 DEF AsyncSendPacketBase
    <2>2. \A e \in tried : ~Full(e)
      OBVIOUS
    <2> HIDE DEF tried
    <2>3. ASSUME NEW e \in Endpoints \ attached' PROVE Unused(e)'
      <3>1. e \notin tried /\ e \notin refuses /\ Unused(e)
        BY <1>0, <2>1, <2>3 DEF IInv
      <3>2. QED
        BY <2>1, <3>1, AddAt, OthersKeep
    <2>4. ASSUME NEW e \in endpoints', maximum_backlog' >= 0 PROVE Slots(e)'
      <3>1. e \in Endpoints /\ Slots(e) /\ maximum_backlog >= 0
        BY <1>0, <2>1, <2>4 DEF IInv
      <3>2. QED
        BY <1>0, <2>1, <2>2, <3>1, BroadcastSlots
    <2>5. QED
      BY <2>3, <2>4
  <1>4. ASSUME NEW c \in Endpoints, NEW op \in Sends,
               SendFails(c, op) \/ handle_send(c, op) \/ PacketAckReceivedBase(c, op)
        PROVE  /\ \A e \in Endpoints \ attached' : Unused(e)'
               /\ \A e \in endpoints' : maximum_backlog' >= 0 => Slots(e)'
    <2>1. UNCHANGED <<maximum_backlog, endpoints, attached>> /\ Taken(c) # {}
      BY <1>4 DEF SendFails, handle_send, PacketAckReceivedBase, life, Taken
    <2>2. maximum_backlog >= 0 /\ Slots(c) => Slots(c)'
      BY <1>0, <1>4, FailSlots, HandleSendSlots, AckSlots
    <2>3. ASSUME NEW e \in Endpoints \ {c}
          PROVE  /\ active_sends'[e] = active_sends[e]
                 /\ backlog'[e] = backlog[e]
                 /\ forward_backlog'[e] = forward_backlog[e]
                 /\ sending'[e] = sending[e]
                 /\ unacked'[e] = unacked[e]
                 /\ failed'[e] = failed[e]
      <3>1. CASE SendFails(c, op)
        BY <3>1, AddAt DEF SendFails, lists
      <3>2. CASE handle_send(c, op)
        BY <3>2, AddAt DEF handle_send, Handled
      <3>3. CASE PacketAckReceivedBase(c, op)
        BY <3>3, AddAt DEF PacketAckReceivedBase, Acked
      <3>4. QED
        BY <1>4, <3>1, <3>2, <3>3
    <2>4. QED
      BY <2>1, <2>2, <2>3, OneEndpointStep
  <1>5. CASE UNCHANGED vars
    BY <1>0, <1>5, OthersKeep DEF vars, life, lists, IInv
  <1>6. QED
    BY <1>1, <1>2, <1>3, <1>4, <1>5 DEF Next

(* The invariant holds of every execution.                                 *)
THEOREM Invariance == Spec => []IInv
  BY IInvInit, IInvStep, PTL DEF Spec

(* The lists of PipeBroadcasterBase_connected_endpoint are exact, whatever *)
(* the order of acks and send handlers.                                    *)
THEOREM ListsExact == Spec => []SlotsAccounted
  <1>1. IInv => SlotsAccounted
    BY DEF IInv, SlotsAccounted, Slots
  <1>2. QED
    BY <1>1, Invariance, PTL

(* No endpoint has more than maximum_backlog + 1 packets in flight.        *)
THEOREM FlowBounded == Spec => []InFlightBounded
  <1>1. IInv => InFlightBounded
    <2> SUFFICES ASSUME IInv, NEW e \in endpoints, maximum_backlog >= 0
                 PROVE  Cardinality(unacked[e]) <= maximum_backlog + 1
      BY DEF InFlightBounded
    <2>1. TypeOK /\ e \in Endpoints /\ Slots(e)
      BY DEF IInv, TypeOK
    <2>2. sent \in Nat /\ maximum_backlog + 1 \in Int
      BY <2>1, SendsInRange
    <2>3. Taken(e) \in SUBSET (1..sent) /\ unacked[e] \subseteq Taken(e)
      BY <2>1, TakenRange DEF Taken
    <2>4. QED
      BY <2>1, <2>2, <2>3, SubsetBounded DEF Slots
  <1>2. QED
    BY <1>1, Invariance, PTL

(* The handler of a broadcast is called once, after handle_send has run    *)
(* for every endpoint it was sent to (handle_send, keys).                  *)
THEOREM HandlerCalledOnce == Spec => []CompletedOnce
  <1>1. IInv => CompletedOnce
    BY DEF IInv, KeysMatch, CompletedOnce
  <1>2. QED
    BY <1>1, Invariance, PTL
=============================================================================
