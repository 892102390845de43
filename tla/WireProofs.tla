----------------------------- MODULE WireProofs -----------------------------
(***************************************************************************)
(* Proofs about Wire, for every set of connects and of ends that may       *)
(* ignore values, and every bound on closes, values and the clock.  The    *)
(* last part is about async_signal_semaphore, with which a wire connection *)
(* runs one handler of its changed values at a time.                       *)
(***************************************************************************)
EXTENDS Wire, AsyncSignalSemaphore, TLAPS

(* The steps, with the object each message names.                          *)
ConnectSteps(c) ==
  \/ AsyncConnect(c) \/ ServerConnect(c) \/ ServerReply(c)
  \/ ConnectReturns(c) \/ ConnectFails(c)

LEMMA StepCases ==
  ASSUME network \subseteq Messages, [Next]_vars
  PROVE  \/ \E c \in Connects :
              \/ ConnectSteps(c)
              \/ ClientSend(c) \/ ServerSend(c)
              \/ ClientClose(c) \/ ServerClose(c)
              \/ \E s \in Sides : SetIgnoreInValue(s, c)
         \/ \E p \in network :
              /\ p.kind = "Packet"
              /\ ClientReceive(p) \/ ServerReceive(p) \/ ReplacePacket(p)
         \/ \E m \in network :
              \/ m.kind = "DisconnectReq" /\ ServerDisconnect(m)
              \/ m.kind = "Closed" /\ ClientClosed(m)
         \/ \E r \in closing : EndClose(r)
         \/ ClientDisconnected \/ ServerShutdown \/ ClientShutdown
         \/ UNCHANGED vars
  <1>1. \A m \in network : m.object \in Connects
    BY DEF Messages
  <1>2. CASE ClientStep
    BY <1>1, <1>2 DEF ClientStep, ClientDispatch, EndCloses, ConnectSteps, Sides
  <1>3. CASE ServerStep
    BY <1>1, <1>3 DEF ServerStep, ServerDispatch, EndCloses, ConnectSteps, Sides
  <1>4. QED
    BY <1>2, <1>3 DEF Next

(* A packet is taken by the current object of an end, or it is dropped.    *)
Current(s) == IF s = "client" THEN connection ELSE server

Taken(s, o, p) ==
  /\ o = Current(s)
  /\ inval' = IF Newer(p.value, inval[s][o].value)
              THEN [inval EXCEPT ![s][o] =
                      [from |-> p.object, value |-> p.value]]
              ELSE inval
  /\ UNCHANGED dropped

LEMMA Receives ==
  ASSUME TypeOK, NEW p \in network, ClientReceive(p) \/ ServerReceive(p)
  PROVE  \E s \in Sides :
           /\ p.from = Other(s) /\ network' = network \ {p}
           /\ UNCHANGED <<connectVars, serverVars, closeVars, ignoring, outval,
                          ended, owner>>
           /\ Drop(p) \/ \E o \in Connects : Taken(s, o, p)
  <1>1. CASE ClientReceive(p)
    <2>1. Drop(p) \/ \E o \in Connects : Taken("client", o, p)
      BY <1>1 DEF ClientReceive, Accept, Taken, Current, TypeOK
    <2>2. QED
      BY <1>1, <2>1 DEF ClientReceive, Other, Sides
  <1>2. CASE ServerReceive(p)
    <2>1. Drop(p) \/ \E o \in Connects : Taken("server", o, p)
      BY <1>2 DEF ServerReceive, Accept, Taken, Current, TypeOK
    <2>2. QED
      BY <1>2, <2>1 DEF ServerReceive, Other, Sides
  <1>3. QED
    BY <1>1, <1>2

(* A new value is later than the last one and goes out in a packet.        *)
LEMMA SetValue ==
  ASSUME NEW s \in Sides, NEW o \in Connects, TypeOK, SetOutValue(s, o)
  PROVE  \E v \in [val : Nat, time : Nat] :
           /\ v.val = outval[s][o].val + 1 /\ v.time > outval[s][o].time
           /\ outval' = [outval EXCEPT ![s][o] = v]
           /\ network' = network \cup {Packet(s, o, v)}
           /\ UNCHANGED <<connectVars, serverVars, closeVars, ignoring, inval,
                          dropped, ended>>
  <1>1. outval[s][o].val \in Nat /\ outval[s][o].time \in Nat
    BY DEF TypeOK
  <1>2. PICK now \in 1 .. MaxClock :
          LET v == [val |-> outval[s][o].val + 1,
                    time |-> Stamp(now, outval[s][o].time)]
          IN  /\ outval' = [outval EXCEPT ![s][o] = v]
              /\ network' = network \cup {Packet(s, o, v)}
    BY DEF SetOutValue
  <1>3. now \in Nat
    BY ConstantsAssumption
  <1>4. /\ Stamp(now, outval[s][o].time) \in Nat
        /\ Stamp(now, outval[s][o].time) > outval[s][o].time
    BY <1>1, <1>3 DEF Stamp
  <1> DEFINE v == [val |-> outval[s][o].val + 1,
                   time |-> Stamp(now, outval[s][o].time)]
  <1>5. v \in [val : Nat, time : Nat]
    BY <1>1, <1>4
  <1>6. /\ v.val = outval[s][o].val + 1 /\ v.time > outval[s][o].time
        /\ outval' = [outval EXCEPT ![s][o] = v]
        /\ network' = network \cup {Packet(s, o, v)}
    BY <1>2, <1>4
  <1> HIDE DEF v
  <1>7. QED
    BY <1>5, <1>6 DEF SetOutValue

(* Types are kept.                                                         *)
LEMMA MessagesStep ==
  ASSUME TypeOK, network \subseteq Messages, [Next]_vars
  PROVE  network' \subseteq Messages
  <1> USE DEF TypeOK, Messages, connectVars, serverVars, closeVars, valueVars,
              vars
  <1>1. ASSUME NEW c \in Connects, AsyncConnect(c)
         PROVE  network' \subseteq Messages
    BY <1>1 DEF AsyncConnect, ConnectReq
  <1>2. ASSUME NEW c \in Connects, ServerConnect(c)
         PROVE  network' \subseteq Messages
    BY <1>2 DEF ServerConnect, ConnectReq
  <1>3. ASSUME NEW c \in Connects, ServerReply(c)
         PROVE  network' \subseteq Messages
    BY <1>3 DEF ServerReply, ConnectRet
  <1>4. ASSUME NEW c \in Connects, ConnectReturns(c)
         PROVE  network' \subseteq Messages
    BY <1>4 DEF ConnectReturns, ConnectRet
  <1>5. ASSUME NEW c \in Connects, ConnectFails(c)
         PROVE  network' \subseteq Messages
    BY <1>5 DEF ConnectFails
  <1>6. ASSUME NEW c \in Connects, ClientSend(c)
         PROVE  network' \subseteq Messages
    <2>1. PICK v \in [val : Nat, time : Nat] :
            /\ outval' = [outval EXCEPT !["client"][c] = v]
            /\ network' = network \cup {Packet("client", c, v)}
      BY <1>6, SetValue DEF ClientSend, Sides
    <2>2. QED
      BY <1>6, <2>1 DEF ClientSend, SetOutValue, Packet, Sides
  <1>7. ASSUME NEW c \in Connects, ServerSend(c)
         PROVE  network' \subseteq Messages
    <2>1. PICK v \in [val : Nat, time : Nat] :
            /\ outval' = [outval EXCEPT !["server"][c] = v]
            /\ network' = network \cup {Packet("server", c, v)}
      BY <1>7, SetValue DEF ServerSend, Sides
    <2>2. QED
      BY <1>7, <2>1 DEF ServerSend, SetOutValue, Packet, Sides
  <1>8. ASSUME NEW c \in Connects, ClientClose(c)
         PROVE  network' \subseteq Messages
    <2>1. closes'["client"][c] \in Nat
      BY <1>8 DEF ClientClose, CountClose, Sides
    <2>2. QED
      BY <1>8, <2>1 DEF ClientClose, WireDisconnectReq
  <1>9. ASSUME NEW c \in Connects, ServerClose(c)
         PROVE  network' \subseteq Messages
    <2>1. closes'["server"][c] \in Nat
      BY <1>9 DEF ServerClose, CountClose, Sides
    <2>2. QED
      BY <1>9, <2>1 DEF ServerClose, WireClosed
  <1>10. ASSUME NEW p \in network, p.kind = "Packet", ClientReceive(p)
         PROVE  network' \subseteq Messages
    BY <1>10 DEF ClientReceive
  <1>11. ASSUME NEW p \in network, p.kind = "Packet", ServerReceive(p)
         PROVE  network' \subseteq Messages
    BY <1>11 DEF ServerReceive
  <1>12. ASSUME NEW p \in network, p.kind = "Packet", ReplacePacket(p)
         PROVE  network' \subseteq Messages
    BY <1>12 DEF ReplacePacket
  <1>13. ASSUME NEW m \in network, m.kind = "DisconnectReq",
                ServerDisconnect(m)
         PROVE  network' \subseteq Messages
    BY <1>13 DEF ServerDisconnect
  <1>14. ASSUME NEW m \in network, m.kind = "Closed", ClientClosed(m)
         PROVE  network' \subseteq Messages
    BY <1>14 DEF ClientClosed
  <1>15. ASSUME NEW r \in closing, EndClose(r)
         PROVE  network' \subseteq Messages
    BY <1>15 DEF EndClose
  <1>16. CASE ClientDisconnected
    BY <1>16 DEF ClientDisconnected
  <1>17. CASE ServerShutdown
    BY <1>17 DEF ServerShutdown, WireClosed
  <1>18. CASE ClientShutdown
    BY <1>18 DEF ClientShutdown
  <1>19. ASSUME NEW c \in Connects, NEW s \in Sides, SetIgnoreInValue(s, c)
         PROVE  network' \subseteq Messages
    BY <1>19 DEF SetIgnoreInValue
  <1>20. CASE UNCHANGED vars
    BY <1>20 DEF Alone, vars, connectVars, serverVars, closeVars, valueVars
  <1>21. QED
    BY StepCases, <1>1, <1>2, <1>3, <1>4, <1>5, <1>6, <1>7, <1>8, <1>9, <1>10,
       <1>11, <1>12, <1>13, <1>14, <1>15, <1>16, <1>17, <1>18, <1>19, <1>20
       DEF ConnectSteps

LEMMA TypeStep ==
  ASSUME TypeOK, network \subseteq Messages, [Next]_vars
  PROVE  TypeOK'
  <1> USE DEF TypeOK, Messages, connectVars, serverVars, closeVars, valueVars,
              vars
  <1>1. ASSUME NEW c \in Connects, AsyncConnect(c)
         PROVE  TypeOK'
    BY <1>1 DEF AsyncConnect, ConnectReq
  <1>2. ASSUME NEW c \in Connects, ServerConnect(c)
         PROVE  TypeOK'
    <2>1. {connection, server, owner}' \subseteq Connects \cup {None}
      BY <1>2 DEF ServerConnect
    <2>2. serverEnd' \in [Connects -> {"none", "open", "closed"}]
      BY <1>2 DEF ServerConnect
    <2>3. QED
      BY <1>2, <2>1, <2>2 DEF ServerConnect
  <1>3. ASSUME NEW c \in Connects, ServerReply(c)
         PROVE  TypeOK'
    BY <1>3 DEF ServerReply, ConnectRet
  <1>4. ASSUME NEW c \in Connects, ConnectReturns(c)
         PROVE  TypeOK'
    <2>1. {connection, server, owner}' \subseteq Connects \cup {None}
      BY <1>4 DEF ConnectReturns
    <2>2. clientEnd' \in [Connects -> {"none", "open", "closed"}]
      BY <1>4 DEF ConnectReturns
    <2>3. call' \in [Connects -> {"idle", "pending", "connected", "failed",
                              "threw", "closed"}]
      BY <1>4 DEF ConnectReturns
    <2>4. QED
      BY <1>4, <2>1, <2>2, <2>3 DEF ConnectReturns
  <1>5. ASSUME NEW c \in Connects, ConnectFails(c)
         PROVE  TypeOK'
    BY <1>5 DEF ConnectFails
  <1>6. ASSUME NEW c \in Connects, ClientSend(c)
         PROVE  TypeOK'
    <2>1. PICK v \in [val : Nat, time : Nat] :
            outval' = [outval EXCEPT !["client"][c] = v]
      BY <1>6, SetValue DEF ClientSend, Sides
    <2>2. outval' \in [Sides -> [Connects -> [val : Nat, time : Nat]]]
      BY <2>1
    <2>3. {connection, server, owner}' \subseteq Connects \cup {None}
      BY <1>6 DEF ClientSend, SetOutValue
    <2>4. QED
      BY <1>6, <2>2, <2>3 DEF ClientSend, SetOutValue
  <1>7. ASSUME NEW c \in Connects, ServerSend(c)
         PROVE  TypeOK'
    <2>1. PICK v \in [val : Nat, time : Nat] :
            outval' = [outval EXCEPT !["server"][c] = v]
      BY <1>7, SetValue DEF ServerSend, Sides
    <2>2. outval' \in [Sides -> [Connects -> [val : Nat, time : Nat]]]
      BY <2>1
    <2>3. {connection, server, owner}' \subseteq Connects \cup {None}
      BY <1>7 DEF ServerSend, SetOutValue
    <2>4. QED
      BY <1>7, <2>2, <2>3 DEF ServerSend, SetOutValue
  <1>8. ASSUME NEW c \in Connects, ClientClose(c)
         PROVE  TypeOK'
    <2>1. closes' \in [Sides -> [Connects -> Nat]]
      BY <1>8 DEF ClientClose, CountClose, Sides
    <2>2. {connection, server, owner}' \subseteq Connects \cup {None}
      BY <1>8 DEF ClientClose, CountClose
    <2>3. QED
      BY <1>8, <2>1, <2>2 DEF ClientClose
  <1>9. ASSUME NEW c \in Connects, ServerClose(c)
         PROVE  TypeOK'
    <2>1. closes' \in [Sides -> [Connects -> Nat]]
      BY <1>9 DEF ServerClose, CountClose, Sides
    <2>2. {connection, server, owner}' \subseteq Connects \cup {None}
      BY <1>9 DEF ServerClose, CountClose
    <2>3. serverEnd' \in [Connects -> {"none", "open", "closed"}]
      BY <1>9 DEF ServerClose
    <2>4. closing' \subseteq
            [side : Sides, object : Connects, cause : Messages]
      <3>1. closes'["server"][c] \in Nat
        BY <2>1 DEF Sides
      <3>2. QED
        BY <1>9, <3>1 DEF ServerClose, Closing, WireClosed, Sides
    <2>5. QED
      BY <1>9, <2>1, <2>2, <2>3, <2>4 DEF ServerClose
  <1>10. ASSUME NEW p \in network, p.kind = "Packet",
                ClientReceive(p) \/ ServerReceive(p)
         PROVE  TypeOK'
    <2>1. p.from \in Sides /\ p.object \in Connects
          /\ p.value \in [val : Nat, time : Nat]
      BY <1>10
    <2>2. PICK s \in Sides :
            /\ UNCHANGED <<connectVars, serverVars, closeVars, ignoring, outval,
                           ended, owner>>
            /\ Drop(p) \/ \E o \in Connects : Taken(s, o, p)
      BY <1>10, Receives
    <2>3. CASE Drop(p)
      <3>1. dropped' \in [Sides -> [Connects -> Nat]]
        BY <2>1, <2>3 DEF Drop
      <3>2. QED
        BY <2>2, <2>3, <3>1 DEF Drop
    <2>4. ASSUME NEW o \in Connects, Taken(s, o, p) PROVE TypeOK'
      <3>1. inval' \in [Sides -> [Connects ->
              [from : Connects \cup {None}, value : [val : Nat, time : Nat]]]]
        BY <2>1, <2>4 DEF Taken
      <3>2. QED
        BY <2>2, <2>4, <3>1 DEF Taken
    <2>5. QED
      BY <2>2, <2>3, <2>4
  <1>12. ASSUME NEW p \in network, p.kind = "Packet", ReplacePacket(p)
         PROVE  TypeOK'
    BY <1>12 DEF ReplacePacket
  <1>13. ASSUME NEW m \in network, m.kind = "DisconnectReq",
                ServerDisconnect(m)
         PROVE  TypeOK'
    <2>1. serverEnd' \in [Connects -> {"none", "open", "closed"}]
      BY <1>13 DEF ServerDisconnect, Sides
    <2>2. closing' \subseteq [side : Sides, object : Connects, cause : Messages]
      BY <1>13 DEF ServerDisconnect, Closing, Sides
    <2>3. QED
      BY <1>13, <2>1, <2>2 DEF ServerDisconnect
  <1>14. ASSUME NEW m \in network, m.kind = "Closed", ClientClosed(m)
         PROVE  TypeOK'
    <2>1. {connection, server, owner}' \subseteq Connects \cup {None}
      BY <1>14 DEF ClientClosed, Sides
    <2>2. clientEnd' \in [Connects -> {"none", "open", "closed"}]
      BY <1>14 DEF ClientClosed, Sides
    <2>3. closing' \subseteq [side : Sides, object : Connects, cause : Messages]
      BY <1>14 DEF ClientClosed, Closing, Sides
    <2>4. QED
      BY <1>14, <2>1, <2>2, <2>3 DEF ClientClosed
  <1>15. ASSUME NEW r \in closing, EndClose(r)
         PROVE  TypeOK'
    BY <1>15 DEF EndClose
  <1>16. CASE ClientDisconnected
    BY <1>16 DEF ClientDisconnected
  <1>17. CASE ServerShutdown
    BY <1>17 DEF ServerShutdown, WireClosed
  <1>18. CASE ClientShutdown
    BY <1>18 DEF ClientShutdown
  <1>19. ASSUME NEW c \in Connects, NEW s \in Sides, SetIgnoreInValue(s, c)
         PROVE  TypeOK'
    BY <1>19 DEF SetIgnoreInValue, End
  <1>20. CASE UNCHANGED vars
    BY <1>20 DEF Alone, vars, connectVars, serverVars, closeVars, valueVars
  <1>21. QED
    BY StepCases, <1>1, <1>2, <1>3, <1>4, <1>5, <1>6, <1>7, <1>8, <1>9, <1>10,
       <1>12, <1>13, <1>14, <1>15, <1>16, <1>17, <1>18, <1>19, <1>20
       DEF ConnectSteps

(* An object that is current is open, or its close is under way.           *)
LEMMA CurrentStep ==
  ASSUME CurrentIsOpen, TypeOK', [Next]_vars, network \subseteq Messages
  PROVE  CurrentIsOpen'
  <1> USE DEF CurrentIsOpen, TypeOK, connectVars, serverVars, closeVars,
              valueVars, vars
  <1>1. ASSUME NEW c \in Connects, AsyncConnect(c)
         PROVE  CurrentIsOpen'
    BY <1>1 DEF AsyncConnect, ConnectReq
  <1>2. ASSUME NEW c \in Connects, ServerConnect(c)
         PROVE  CurrentIsOpen'
    <2>1. (connection # None /\ ended = {} => clientEnd[connection] = "open")'
      BY <1>2 DEF ServerConnect, TypeOK
    <2>2. (server # None =>
             \/ serverEnd[server] = "open"
             \/ \E r \in closing : r.side = "server" /\ r.object = server)'
      BY <1>2 DEF ServerConnect, TypeOK
    <2>3. QED
      BY <1>2, <2>1, <2>2 DEF ServerConnect
  <1>3. ASSUME NEW c \in Connects, ServerReply(c)
         PROVE  CurrentIsOpen'
    BY <1>3 DEF ServerReply, ConnectRet
  <1>4. ASSUME NEW c \in Connects, ConnectReturns(c)
         PROVE  CurrentIsOpen'
    <2>1. (connection # None /\ ended = {} => clientEnd[connection] = "open")'
      BY <1>4 DEF ConnectReturns, TypeOK
    <2>2. (server # None =>
             \/ serverEnd[server] = "open"
             \/ \E r \in closing : r.side = "server" /\ r.object = server)'
      BY <1>4 DEF ConnectReturns, TypeOK
    <2>3. QED
      BY <1>4, <2>1, <2>2 DEF ConnectReturns
  <1>5. ASSUME NEW c \in Connects, ConnectFails(c)
         PROVE  CurrentIsOpen'
    BY <1>5 DEF ConnectFails
  <1>6. ASSUME NEW c \in Connects, ClientSend(c)
         PROVE  CurrentIsOpen'
    BY <1>6 DEF ClientSend, SetOutValue, Stamp, Packet
  <1>7. ASSUME NEW c \in Connects, ServerSend(c)
         PROVE  CurrentIsOpen'
    BY <1>7 DEF ServerSend, SetOutValue, Stamp, Packet
  <1>8. ASSUME NEW c \in Connects, ClientClose(c)
         PROVE  CurrentIsOpen'
    BY <1>8 DEF ClientClose, WireDisconnectReq
  <1>9. ASSUME NEW c \in Connects, ServerClose(c)
         PROVE  CurrentIsOpen'
    <2>1. /\ server' = server /\ closing \subseteq closing'
          /\ UNCHANGED <<connection, clientEnd, ended>>
          /\ \A d \in Connects : d # c => serverEnd'[d] = serverEnd[d]
      BY <1>9 DEF ServerClose
    <2>2. \E r \in closing' : r.side = "server" /\ r.object = c
      <3> DEFINE r == Closing("server", c, WireClosed(c, closes'["server"][c]))
      <3>1. r \in closing'
        BY <1>9 DEF ServerClose
      <3>2. r.side = "server" /\ r.object = c
        BY DEF Closing
      <3> HIDE DEF r
      <3>3. QED
        BY <3>1, <3>2
    <2>3. QED
      BY <2>1, <2>2
  <1>10. ASSUME NEW p \in network, p.kind = "Packet", ClientReceive(p)
         PROVE  CurrentIsOpen'
    BY <1>10 DEF ClientReceive
  <1>11. ASSUME NEW p \in network, p.kind = "Packet", ServerReceive(p)
         PROVE  CurrentIsOpen'
    BY <1>11 DEF ServerReceive
  <1>12. ASSUME NEW p \in network, p.kind = "Packet", ReplacePacket(p)
         PROVE  CurrentIsOpen'
    BY <1>12 DEF ReplacePacket
  <1>13. ASSUME NEW m \in network, m.kind = "DisconnectReq",
                ServerDisconnect(m)
         PROVE  CurrentIsOpen'
    <2>1. /\ server' = server /\ closing \subseteq closing'
          /\ UNCHANGED <<connection, clientEnd, ended>>
      BY <1>13 DEF ServerDisconnect
    <2>2. server # None =>
            \E r \in closing' : r.side = "server" /\ r.object = server
      <3> DEFINE r == Closing("server", server, m)
      <3>1. server # None => r \in closing'
        BY <1>13 DEF ServerDisconnect
      <3>2. r.side = "server" /\ r.object = server
        BY DEF Closing
      <3> HIDE DEF r
      <3>3. QED
        BY <3>1, <3>2
    <2>3. QED
      BY <2>1, <2>2
  <1>14. ASSUME NEW m \in network, m.kind = "Closed", ClientClosed(m)
         PROVE  CurrentIsOpen'
    BY <1>14 DEF ClientClosed
  <1>15. ASSUME NEW r \in closing, EndClose(r)
         PROVE  CurrentIsOpen'
    BY <1>15 DEF EndClose
  <1>16. CASE ClientDisconnected
    BY <1>16 DEF ClientDisconnected
  <1>17. CASE ServerShutdown
    BY <1>17 DEF ServerShutdown, WireClosed
  <1>18. CASE ClientShutdown
    BY <1>18 DEF ClientShutdown
  <1>19. ASSUME NEW c \in Connects, NEW s \in Sides, SetIgnoreInValue(s, c)
         PROVE  CurrentIsOpen'
    BY <1>19 DEF SetIgnoreInValue
  <1>20. CASE UNCHANGED vars
    BY <1>20 DEF Alone, vars, connectVars, serverVars, closeVars, valueVars
  <1>21. QED
    BY StepCases, <1>1, <1>2, <1>3, <1>4, <1>5, <1>6, <1>7, <1>8, <1>9, <1>10,
       <1>11, <1>12, <1>13, <1>14, <1>15, <1>16, <1>17, <1>18, <1>19, <1>20
       DEF ConnectSteps

-----------------------------------------------------------------------------
(* The values that are known of an object.                                 *)

LEMMA KnownAre ==
  ASSUME NEW s, NEW o, NEW v
  PROVE  v \in Known(s, o) <=>
           \/ \E p \in network : /\ p.kind = "Packet" /\ p.from = s
                                 /\ p.object = o /\ p.value = v
           \/ \E c \in Connects : /\ inval[Other(s)][c].from = o
                                  /\ inval[Other(s)][c].value = v
  BY DEF Known

LEMMA KnownAreNext ==
  ASSUME NEW s, NEW o, NEW v
  PROVE  v \in Known(s, o)' <=>
           \/ \E p \in network' : /\ p.kind = "Packet" /\ p.from = s
                                  /\ p.object = o /\ p.value = v
           \/ \E c \in Connects : /\ inval'[Other(s)][c].from = o
                                  /\ inval'[Other(s)][c].value = v
  BY DEF Known

LEMMA KnownTyped ==
  ASSUME TypeOK, network \subseteq Messages, NEW s \in Sides,
         NEW o \in Connects
  PROVE  Known(s, o) \subseteq [val : Nat, time : Nat]
  <1>1. Other(s) \in Sides
    BY DEF Other, Sides
  <1>2. \A p \in network :
          p.kind = "Packet" => p.value \in [val : Nat, time : Nat]
    BY DEF Messages
  <1>3. \A c \in Connects :
          inval[Other(s)][c].value \in [val : Nat, time : Nat]
    BY <1>1 DEF TypeOK
  <1>4. QED
    BY <1>2, <1>3, KnownAre

(* No new value: those that are known remain in order.                     *)
LEMMA NoNewValue ==
  ASSUME NEW s, NEW o, InOrder(s, o), outval'[s][o] = outval[s][o],
         Known(s, o)' \subseteq Known(s, o)
  PROVE  InOrder(s, o)'
  BY DEF InOrder

(* Neither does a step that leaves the values and adds no packet.          *)
NoPacketAdded ==
  /\ UNCHANGED <<outval, inval>>
  /\ \A p \in network' : p.kind = "Packet" => p \in network

LEMMA NoPacketKeeps ==
  ASSUME NoPacketAdded, NEW s, NEW o, InOrder(s, o)
  PROVE  InOrder(s, o)'
  <1>1. Known(s, o)' \subseteq Known(s, o)
    BY KnownAre, KnownAreNext DEF NoPacketAdded
  <1>2. QED
    BY <1>1, NoNewValue DEF NoPacketAdded

LEMMA SetKeepsOrder ==
  ASSUME TypeOK, network \subseteq Messages,
         \A s \in Sides, o \in Connects : InOrder(s, o),
         NEW side \in Sides, NEW c \in Connects, SetOutValue(side, c)
  PROVE  \A s \in Sides, o \in Connects : InOrder(s, o)'
  <1>1. PICK v \in [val : Nat, time : Nat] :
          /\ v.val = outval[side][c].val + 1 /\ v.time > outval[side][c].time
          /\ outval' = [outval EXCEPT ![side][c] = v]
          /\ network' = network \cup {Packet(side, c, v)}
          /\ inval' = inval
    BY SetValue
  <1>2. TAKE s \in Sides, o \in Connects
  <1>3. \A p \in network' : \/ p \in network
                            \/ p.from = side /\ p.object = c /\ p.value = v
    BY <1>1 DEF Packet
  <1>4. CASE s = side /\ o = c
    <2>1. Known(s, o)' \subseteq Known(s, o) \cup {v}
      BY <1>1, <1>3, KnownAre, KnownAreNext
    <2>2. outval'[s][o] = v /\ outval[s][o] \in [val : Nat, time : Nat]
      BY <1>1, <1>4 DEF TypeOK
    <2>3. \A w \in Known(s, o) :
            /\ w \in [val : Nat, time : Nat]
            /\ w.time > 0 /\ w.time < v.time /\ w.val > 0 /\ w.val < v.val
      BY <1>1, <1>4, <2>2, KnownTyped DEF InOrder
    <2>4. \A w, x \in Known(s, o) : w.time <= x.time <=> w.val <= x.val
      BY DEF InOrder
    <2>5. \A w \in Known(s, o)' :
            w.time > 0 /\ w.val > 0 /\ w.time <= v.time /\ w.val <= v.val
      BY <1>1, <1>4, <2>1, <2>2, <2>3
    <2>6. ASSUME NEW w \in Known(s, o) \cup {v}, NEW x \in Known(s, o) \cup {v}
          PROVE  w.time <= x.time <=> w.val <= x.val
      BY <2>3, <2>4
    <2>7. QED
      BY <2>1, <2>2, <2>5, <2>6 DEF InOrder
  <1>5. CASE ~(s = side /\ o = c)
    <2>1. Known(s, o)' \subseteq Known(s, o)
      BY <1>1, <1>3, <1>5, KnownAre, KnownAreNext
    <2>2. outval'[s][o] = outval[s][o]
      BY <1>1, <1>5 DEF TypeOK
    <2>3. QED
      BY <2>1, <2>2, NoNewValue
  <1>6. QED
    BY <1>4, <1>5

(* What an end is given was known before.                                  *)
LEMMA TakeKeepsOrder ==
  ASSUME TypeOK, network \subseteq Messages,
         \A s \in Sides, o \in Connects : InOrder(s, o),
         NEW side \in Sides, NEW c \in Connects, NEW p \in network,
         p.kind = "Packet", p.from = Other(side), Taken(side, c, p),
         network' \subseteq network, outval' = outval
  PROVE  \A s \in Sides, o \in Connects : InOrder(s, o)'
  <1>1. TAKE s \in Sides, o \in Connects
  <1>2. \A e \in Sides : Other(Other(e)) = e /\ Other(e) \in Sides
    BY DEF Other, Sides
  <1>3. ASSUME NEW d \in Connects, inval'[Other(s)][d].from = o
        PROVE  inval'[Other(s)][d].value \in Known(s, o)
    <2>1. CASE inval'[Other(s)][d] = inval[Other(s)][d]
      BY <1>3, <2>1, KnownAre
    <2>2. CASE inval'[Other(s)][d] # inval[Other(s)][d]
      <3>1. /\ Other(s) = side
            /\ inval'[Other(s)][d] = [from |-> p.object, value |-> p.value]
        BY <1>2, <2>2 DEF Taken, TypeOK
      <3>2. p.from = s /\ p.object = o
        BY <1>2, <1>3, <3>1
      <3>3. QED
        BY <3>1, <3>2, KnownAre
    <2>3. QED
      BY <2>1, <2>2
  <1>4. Known(s, o)' \subseteq Known(s, o)
    BY <1>3, KnownAre, KnownAreNext
  <1>5. QED
    BY <1>4, NoNewValue

(* The values that are known remain in order.                              *)
LEMMA OrderStep ==
  ASSUME TypeOK, network \subseteq Messages, [Next]_vars,
         \A s \in Sides, o \in Connects : InOrder(s, o)
  PROVE  \A s \in Sides, o \in Connects : InOrder(s, o)'
  <1>1. ASSUME NEW c \in Connects,
               \/ ConnectSteps(c)
               \/ ClientClose(c) \/ ServerClose(c)
               \/ \E s \in Sides : SetIgnoreInValue(s, c)
         PROVE  \A s \in Sides, o \in Connects : InOrder(s, o)'
    <2>1. NoPacketAdded
      BY <1>1
         DEF NoPacketAdded, valueVars, ConnectSteps, AsyncConnect,
             ServerConnect, ServerReply, ConnectReturns, ConnectFails,
             ConnectReq, ConnectRet, ClientClose, ServerClose,
             WireDisconnectReq, WireClosed, SetIgnoreInValue
    <2>2. QED
      BY <2>1, NoPacketKeeps
  <1>2. ASSUME NEW c \in Connects, ClientSend(c) \/ ServerSend(c)
         PROVE  \A s \in Sides, o \in Connects : InOrder(s, o)'
    BY <1>2, SetKeepsOrder DEF ClientSend, ServerSend, Sides
  <1>3. ASSUME NEW p \in network, p.kind = "Packet",
               ClientReceive(p) \/ ServerReceive(p)
         PROVE  \A s \in Sides, o \in Connects : InOrder(s, o)'
    <2>1. PICK e \in Sides :
            /\ p.from = Other(e) /\ network' = network \ {p}
            /\ UNCHANGED <<ignoring, outval>>
            /\ Drop(p) \/ \E d \in Connects : Taken(e, d, p)
      BY <1>3, Receives
    <2>2. CASE Drop(p)
      <3>1. NoPacketAdded
        BY <2>1, <2>2 DEF NoPacketAdded, Drop
      <3>2. QED
        BY <3>1, NoPacketKeeps
    <2>3. ASSUME NEW d \in Connects, Taken(e, d, p)
          PROVE  \A s \in Sides, o \in Connects : InOrder(s, o)'
      BY <1>3, <2>1, <2>3, TakeKeepsOrder
    <2>4. QED
      BY <2>1, <2>2, <2>3
  <1>4. ASSUME NEW p \in network, p.kind = "Packet", ReplacePacket(p)
         PROVE  \A s \in Sides, o \in Connects : InOrder(s, o)'
    <2>1. NoPacketAdded
      BY <1>4 DEF NoPacketAdded, valueVars, ReplacePacket
    <2>2. QED
      BY <2>1, NoPacketKeeps
  <1>5. ASSUME NEW m \in network, ServerDisconnect(m) \/ ClientClosed(m)
         PROVE  \A s \in Sides, o \in Connects : InOrder(s, o)'
    <2>1. NoPacketAdded
      BY <1>5 DEF NoPacketAdded, valueVars, ServerDisconnect, ClientClosed
    <2>2. QED
      BY <2>1, NoPacketKeeps
  <1>6. ASSUME NEW r \in closing, EndClose(r)
         PROVE  \A s \in Sides, o \in Connects : InOrder(s, o)'
    <2>1. NoPacketAdded
      BY <1>6 DEF NoPacketAdded, valueVars, EndClose
    <2>2. QED
      BY <2>1, NoPacketKeeps
  <1>7. CASE ClientDisconnected \/ ServerShutdown \/ ClientShutdown
             \/ UNCHANGED vars
    <2>1. NoPacketAdded
      BY <1>7
         DEF NoPacketAdded, valueVars, ClientDisconnected, ServerShutdown,
             ClientShutdown, WireClosed, vars
    <2>2. QED
      BY <2>1, NoPacketKeeps
  <1>8. QED
    BY StepCases, <1>1, <1>2, <1>3, <1>4, <1>5, <1>6, <1>7
       DEF ConnectSteps

-----------------------------------------------------------------------------
(* Objects before and after their connection.                              *)

(* A value is set on an object that has been connected.                    *)
LEMMA SetKeepsObject ==
  ASSUME TypeOK, NEW s \in Sides, NEW c \in Connects, SetOutValue(s, c),
         IF s = "client" THEN clientEnd[c] # "none" ELSE serverEnd[c] # "none",
         NEW o \in Connects, ObjectInv(o)
  PROVE  ObjectInv(o)'
  <1>1. PICK v \in [val : Nat, time : Nat] :
          /\ v.val = outval[s][c].val + 1
          /\ outval' = [outval EXCEPT ![s][c] = v]
          /\ network' = network \cup {Packet(s, c, v)}
          /\ UNCHANGED <<call, connection, clientEnd, server, serverEnd,
                         replying, inval, dropped>>
    BY SetValue DEF connectVars, serverVars
  <1>2. /\ ConnectReq(o) \in network' <=> ConnectReq(o) \in network
        /\ ConnectRet(o) \in network' <=> ConnectRet(o) \in network
    BY <1>1 DEF ConnectReq, ConnectRet, Packet
  <1>3. ASSUME NEW e \in Sides PROVE dropped'[e][o] <= outval'[e][o].val
    <2>1. outval[e][o].val \in Nat /\ dropped[e][o] \in Nat
      BY DEF TypeOK
    <2>2. CASE e = s /\ o = c
      <3>1. outval'[e][o] = v
        BY <1>1, <2>2 DEF TypeOK
      <3>2. QED
        BY <1>1, <2>1, <2>2, <3>1 DEF ObjectInv
    <2>3. CASE ~(e = s /\ o = c)
      <3>1. outval'[e][o] = outval[e][o]
        BY <1>1, <2>3 DEF TypeOK
      <3>2. QED
        BY <1>1, <3>1 DEF ObjectInv
    <2>4. QED
      BY <2>2, <2>3
  <1>4. (clientEnd[o] = "none" => NoValues("client", o))'
    BY <1>1 DEF ObjectInv, NoValues, TypeOK, Sides
  <1>5. (serverEnd[o] = "none" => NoValues("server", o))'
    BY <1>1 DEF ObjectInv, NoValues, TypeOK, Sides
  <1>6. QED
    BY <1>1, <1>2, <1>3, <1>4, <1>5 DEF ObjectInv, Untouched

(* A value is received by an object that is current.                       *)
LEMMA TakeKeepsObject ==
  ASSUME TypeOK, NEW s \in Sides, NEW c \in Connects, NEW p \in network,
         p.object \in Connects, p.kind = "Packet", Taken(s, c, p),
         network' = network \ {p},
         IF s = "client" THEN clientEnd[c] # "none" ELSE serverEnd[c] # "none",
         UNCHANGED <<call, connection, clientEnd, server, serverEnd, replying,
                     outval>>,
         NEW o \in Connects, ObjectInv(o)
  PROVE  ObjectInv(o)'
  <1>1. /\ ConnectReq(o) \in network' <=> ConnectReq(o) \in network
        /\ ConnectRet(o) \in network' <=> ConnectRet(o) \in network
    BY DEF ConnectReq, ConnectRet
  <1>2. p.object # None
    BY ConstantsAssumption
  <1>3. ASSUME NEW e \in Sides, inval'[e][o] # inval[e][o]
        PROVE  e = s /\ o = c /\ inval'[e][o].from = p.object
    BY <1>3 DEF Taken, TypeOK
  <1>4. \A e \in Sides :
          (inval[e][o].from = None => inval[e][o].value = NotSet)'
    BY <1>2, <1>3 DEF ObjectInv, NotSet
  <1>5. /\ (clientEnd[o] = "none" => NoValues("client", o))'
        /\ (serverEnd[o] = "none" => NoValues("server", o))'
    BY <1>3 DEF ObjectInv, NoValues, Sides
  <1>6. QED
    BY <1>1, <1>4, <1>5 DEF ObjectInv, Untouched, Taken

(* What is dropped had been set.                                           *)
LEMMA DroppedWasSet ==
  ASSUME TypeOK, network \subseteq Messages, NEW p \in network,
         p.kind = "Packet", Drop(p), outval' = outval,
         \A e \in Sides, c \in Connects : InOrder(e, c),
         NEW o \in Connects, ObjectInv(o), NEW s \in Sides
  PROVE  dropped'[s][o] <= outval[s][o].val
  <1>1. p.from \in Sides /\ p.object \in Connects /\ p.value.val \in Nat
    BY DEF Messages
  <1>2. p.value.val <= outval[p.from][p.object].val
    BY <1>1, KnownAre DEF InOrder
  <1>3. dropped[s][o] <= outval[s][o].val
    BY DEF ObjectInv
  <1>4. CASE s = p.from /\ o = p.object
    BY <1>1, <1>2, <1>3, <1>4 DEF Drop, TypeOK
  <1>5. CASE ~(s = p.from /\ o = p.object)
    BY <1>1, <1>3, <1>5 DEF Drop, TypeOK
  <1>6. QED
    BY <1>4, <1>5

(* The objects, step by step.                                              *)
LEMMA ObjectStep ==
  ASSUME TypeOK, network \subseteq Messages, TypeOK', [Next]_vars,
         \A s \in Sides, c \in Connects : InOrder(s, c),
         \A c \in Connects : ObjectInv(c), NEW o \in Connects
  PROVE  ObjectInv(o)'
  <1> USE ConstantsAssumption
  <1>1. ASSUME NEW c \in Connects, ClientSend(c)
         PROVE  ObjectInv(o)'
    <2>1. /\ clientEnd[c] # "none" /\ SetOutValue("client", c)
          /\ "client" \in Sides
      BY <1>1 DEF ClientSend, Sides
    <2>2. QED
      BY <2>1, SetKeepsObject
  <1>2. ASSUME NEW c \in Connects, ServerSend(c)
         PROVE  ObjectInv(o)'
    <2>1. /\ serverEnd[c] # "none" /\ SetOutValue("server", c)
          /\ "server" \in Sides
      BY <1>2 DEF ServerSend, Sides
    <2>2. QED
      BY <2>1, SetKeepsObject
  <1>3. ASSUME NEW p \in network, p.kind = "Packet",
               ClientReceive(p) \/ ServerReceive(p)
         PROVE  ObjectInv(o)'
    <2>1. PICK s \in Sides :
            /\ network' = network \ {p}
            /\ UNCHANGED <<connectVars, serverVars, outval>>
            /\ Drop(p) \/ \E d \in Connects : Taken(s, d, p)
      BY <1>3, Receives
    <2>2. p.object \in Connects
      BY <1>3 DEF Messages
    <2>3. CASE Drop(p)
      <3>1. \A e \in Sides : dropped'[e][o] <= outval[e][o].val
        BY <1>3, <2>1, <2>3, DroppedWasSet
      <3>2. /\ ConnectReq(o) \in network' <=> ConnectReq(o) \in network
            /\ ConnectRet(o) \in network' <=> ConnectRet(o) \in network
        BY <1>3, <2>1 DEF ConnectReq, ConnectRet
      <3>3. QED
        BY <2>1, <2>3, <3>1, <3>2
           DEF Drop, ObjectInv, Untouched, NoValues, connectVars, serverVars
    <2>4. ASSUME NEW d \in Connects, Taken(s, d, p)
          PROVE  ObjectInv(o)'
      <3>1. IF s = "client" THEN clientEnd[d] # "none"
                            ELSE serverEnd[d] # "none"
        BY <2>4 DEF Taken, Current, ObjectInv
      <3>2. QED
        BY <1>3, <2>1, <2>2, <2>4, <3>1, TakeKeepsObject
           DEF connectVars, serverVars
    <2>5. QED
      BY <2>1, <2>3, <2>4
  <1> USE DEF ObjectInv, Untouched, NoValues, ConnectReq, ConnectRet, TypeOK,
              connectVars, serverVars, closeVars, valueVars, vars
  <1>4. ASSUME NEW c \in Connects, AsyncConnect(c)
         PROVE  ObjectInv(o)'
    <2>1. CASE o = c
      BY <1>4, <2>1 DEF AsyncConnect, ConnectReq
    <2>2. CASE o # c
      BY <1>4, <2>2 DEF AsyncConnect, ConnectReq
    <2>3. QED
      BY <2>1, <2>2
  <1>5. ASSUME NEW c \in Connects, ServerConnect(c)
         PROVE  ObjectInv(o)'
    <2>1. /\ Untouched(c) /\ clientEnd'[c] = "none"
          /\ ConnectReq(c) \notin network'
      BY <1>5 DEF ServerConnect, ObjectInv, Untouched, connectVars
    <2>2. CASE o = c
      BY <1>5, <2>1, <2>2 DEF ServerConnect
    <2>3. CASE o # c
      BY <1>5, <2>3 DEF ServerConnect
    <2>4. QED
      BY <2>2, <2>3
  <1>6. ASSUME NEW c \in Connects, ServerReply(c)
         PROVE  ObjectInv(o)'
    BY <1>6 DEF ServerReply
  <1>7. ASSUME NEW c \in Connects, ConnectReturns(c)
         PROVE  ObjectInv(o)'
    <2>1. CASE o = c
      BY <1>7, <2>1 DEF ConnectReturns, ConnectRet
    <2>2. CASE o # c
      BY <1>7, <2>2 DEF ConnectReturns, ConnectRet
    <2>3. QED
      BY <2>1, <2>2
  <1>8. ASSUME NEW c \in Connects, ConnectFails(c)
         PROVE  ObjectInv(o)'
    BY <1>8 DEF ConnectFails
  <1>9. ASSUME NEW c \in Connects, ClientClose(c)
         PROVE  ObjectInv(o)'
    <2>1. CASE o = c
      <3>1. /\ clientEnd'[c] = "closed" /\ call'[c] = "closed"
            /\ clientEnd[c] # "none"
            /\ UNCHANGED <<serverVars, valueVars>>
        BY <1>9 DEF ClientClose, TypeOK
      <3>2. /\ ConnectReq(c) \in network' <=> ConnectReq(c) \in network
            /\ ConnectReq(c) \notin network
        <4>1. ConnectReq(c) \in network => clientEnd[c] = "none"
          BY DEF ObjectInv, Untouched
        <4>2. QED
          BY <1>9, <3>1, <4>1 DEF ConnectReq, ClientClose, WireDisconnectReq
      <3>3. QED
        BY <2>1, <3>1, <3>2
           DEF ObjectInv, Untouched, NoValues, serverVars, valueVars
    <2>2. CASE o # c
      BY <1>9, <2>2 DEF ClientClose, WireDisconnectReq
    <2>3. QED
      BY <2>1, <2>2
  <1>10. ASSUME NEW c \in Connects, ServerClose(c)
         PROVE  ObjectInv(o)'
    BY <1>10 DEF ServerClose, WireClosed
  <1>11. ASSUME NEW p \in network, p.kind = "Packet", ReplacePacket(p)
         PROVE  ObjectInv(o)'
    BY <1>11 DEF ReplacePacket
  <1>12. ASSUME NEW m \in network, m.kind = "DisconnectReq",
                ServerDisconnect(m)
         PROVE  ObjectInv(o)'
    BY <1>12 DEF ServerDisconnect
  <1>13. ASSUME NEW m \in network, m.kind = "Closed", ClientClosed(m)
         PROVE  ObjectInv(o)'
    BY <1>13 DEF ClientClosed
  <1>14. ASSUME NEW r \in closing, EndClose(r)
         PROVE  ObjectInv(o)'
    BY <1>14 DEF EndClose
  <1>15. CASE ClientDisconnected
    BY <1>15 DEF ClientDisconnected
  <1>16. CASE ServerShutdown
    BY <1>16 DEF ServerShutdown, WireClosed
  <1>17. CASE ClientShutdown
    BY <1>17 DEF ClientShutdown
  <1>18. ASSUME NEW c \in Connects, NEW s \in Sides, SetIgnoreInValue(s, c)
         PROVE  ObjectInv(o)'
    BY <1>18 DEF SetIgnoreInValue
  <1>19. CASE UNCHANGED vars
    BY <1>19 DEF Alone, vars, connectVars, serverVars, closeVars, valueVars
  <1>20. QED
    BY StepCases, <1>1, <1>2, <1>3, <1>4, <1>5, <1>6, <1>7, <1>8, <1>9,
       <1>10, <1>11, <1>12, <1>13, <1>14, <1>15, <1>16, <1>17, <1>18, <1>19
       DEF ConnectSteps

-----------------------------------------------------------------------------
LEMMA TakenFrom ==
  ASSUME TypeOK, NEW s \in Sides, NEW c \in Connects, NEW p, Taken(s, c, p),
         NEW a \in Connects, p.object = a,
         \A e \in Sides : inval[e][a].from \in {a, None}
  PROVE  \A e \in Sides : inval'[e][a].from \in {a, None}
  <1>1. ASSUME NEW e \in Sides, inval'[e][a] # inval[e][a]
        PROVE  inval'[e][a].from = a
    BY <1>1 DEF Taken, TypeOK
  <1>2. QED
    BY <1>1

(* What is there is of the connection that has the wire for itself.        *)
LEMMA AloneStep ==
  ASSUME TypeOK, network \subseteq Messages, [Next]_vars,
         \A c \in Connects : ObjectInv(c),
         \A c \in Connects : c = owner /\ ended = {} => Alone(c),
         NEW a \in Connects, a = owner', ended' = {}
  PROVE  Alone(a)'
  <1>1. ASSUME NEW c \in Connects, AsyncConnect(c)
         PROVE  Alone(a)'
    <2>1. /\ Quiet /\ a = c /\ ended = {} /\ network' = {ConnectReq(c)}
          /\ UNCHANGED <<clientEnd, serverVars, closing, inval>>
          /\ connection' = None
      BY <1>1, ConstantsAssumption
         DEF AsyncConnect, Quiet, closeVars, valueVars
    <2>2. /\ clientEnd[c] = "none" /\ serverEnd[c] = "none"
          /\ \A s \in Sides : inval[s][c].from = None
      BY <1>1 DEF AsyncConnect, ObjectInv, Untouched, NoValues, Sides
    <2>3. QED
      BY <2>1, <2>2, ConstantsAssumption
         DEF Alone, Quiet, ConnectReq, serverVars
  <1>2. ASSUME NEW c \in Connects, ServerConnect(c)
         PROVE  Alone(a)'
    <2>1. a = owner /\ ended = {} /\ Alone(a)
      BY <1>2, ConstantsAssumption DEF ServerConnect, ConnectReq
    <2>2. /\ c = a /\ serverEnd[a] = "none" /\ clientEnd[a] = "none"
          /\ network' \subseteq network /\ replying' \subseteq {a}
          /\ server' \in {a, None}
          /\ UNCHANGED <<connectVars, closing, valueVars>>
      BY <1>2, <2>1 DEF Alone, ObjectInv, Untouched, ServerConnect, ConnectReq,
             closeVars
    <2>3. serverEnd'[a] = "open" => server' = a
      BY <1>2, <2>1, <2>2 DEF ServerConnect, TypeOK
    <2>4. QED
      BY <2>1, <2>2, <2>3 DEF Alone, connectVars, valueVars
  <1>3. ASSUME NEW c \in Connects, ServerReply(c)
         PROVE  Alone(a)'
    <2>1. a = owner /\ ended = {} /\ Alone(a)
      BY <1>3, ConstantsAssumption DEF ServerReply, ConnectRet
    <2>2. QED
      BY <1>3, <2>1, ConstantsAssumption
         DEF Alone, ServerReply, ConnectRet, connectVars, serverVars, closeVars,
             valueVars
  <1>4. ASSUME NEW c \in Connects, ConnectReturns(c)
         PROVE  Alone(a)'
    <2>1. a = owner /\ ended = {} /\ Alone(a)
      BY <1>4, ConstantsAssumption DEF ConnectReturns, ConnectRet
    <2>2. /\ c = a /\ network' \subseteq network
          /\ UNCHANGED <<serverVars, closing, valueVars>>
          /\ connection' \in {a, None}
      BY <1>4, <2>1
      DEF Alone, ConnectReturns, ConnectRet, connectVars, closeVars
    <2>3. /\ clientEnd[a] = "closed" => clientEnd'[a] = "closed"
          /\ clientEnd'[a] = "open" => connection' = a
      BY <1>4, <2>1, <2>2
         DEF ConnectReturns, TypeOK, Alone, ObjectInv, connectVars
    <2>4. QED
      BY <2>1, <2>2, <2>3 DEF Alone, serverVars, valueVars
  <1>5. ASSUME NEW c \in Connects, ConnectFails(c)
         PROVE  Alone(a)'
    <2>1. a = owner /\ ended = {} /\ Alone(a)
      BY <1>5, ConstantsAssumption DEF ConnectFails
    <2>2. QED
      BY <1>5, <2>1, ConstantsAssumption
         DEF Alone, ConnectFails, connectVars, serverVars, closeVars, valueVars
  <1>6. ASSUME NEW c \in Connects, ClientSend(c)
         PROVE  Alone(a)'
    <2>1. a = owner /\ ended = {} /\ Alone(a)
      BY <1>6, ConstantsAssumption DEF ClientSend, SetOutValue, Stamp, Packet
    <2>2. QED
      BY <1>6, <2>1, ConstantsAssumption
         DEF Alone, ClientSend, SetOutValue, Stamp, Packet, connectVars,
             serverVars, closeVars
  <1>7. ASSUME NEW c \in Connects, ServerSend(c)
         PROVE  Alone(a)'
    <2>1. a = owner /\ ended = {} /\ Alone(a)
      BY <1>7, ConstantsAssumption DEF ServerSend, SetOutValue, Stamp, Packet
    <2>2. QED
      BY <1>7, <2>1, ConstantsAssumption
         DEF Alone, ServerSend, SetOutValue, Stamp, Packet, connectVars,
             serverVars, closeVars
  <1>8. ASSUME NEW c \in Connects, ClientClose(c)
         PROVE  Alone(a)'
    <2>1. a = owner /\ ended = {} /\ Alone(a)
      BY <1>8, ConstantsAssumption DEF ClientClose, CountClose
    <2>2. /\ c = a
          /\ network' = network
               \cup {WireDisconnectReq(a, closes'["client"][a])}
          /\ clientEnd'[a] = "closed" /\ connection' = None
          /\ UNCHANGED <<serverVars, closing, valueVars>>
      BY <1>8, <2>1, ConstantsAssumption DEF ClientClose, CountClose, TypeOK
    <2>3. QED
      BY <2>1, <2>2 DEF Alone, WireDisconnectReq, serverVars, valueVars
  <1>9. ASSUME NEW c \in Connects, ServerClose(c)
         PROVE  Alone(a)'
    <2>1. a = owner /\ ended = {} /\ Alone(a)
      BY <1>9, ConstantsAssumption DEF ServerClose, CountClose
    <2>2. /\ c = a
          /\ network' = network \cup {WireClosed(a, closes'["server"][a])}
          /\ closing' = closing \cup
               {Closing("server", a, WireClosed(a, closes'["server"][a]))}
          /\ serverEnd'[a] = "closed" /\ server' = server
          /\ UNCHANGED <<connectVars, replying, valueVars>>
      BY <1>9, <2>1, ConstantsAssumption
         DEF Alone, ServerClose, CountClose, TypeOK
    <2>3. QED
      BY <2>1, <2>2 DEF Alone, Closing, WireClosed, connectVars, valueVars
  <1>10. ASSUME NEW p \in network, p.kind = "Packet",
                ClientReceive(p) \/ ServerReceive(p)
         PROVE  Alone(a)'
    <2>1. PICK s \in Sides :
            /\ network' = network \ {p}
            /\ UNCHANGED <<connectVars, serverVars, closing, ended, owner>>
            /\ Drop(p) \/ \E d \in Connects : Taken(s, d, p)
      BY <1>10, Receives DEF closeVars
    <2>2. Alone(a) /\ p.object = a
      BY <1>10, <2>1 DEF Alone
    <2>3. \A e \in Sides : inval'[e][a].from \in {a, None}
      <3>1. CASE Drop(p)
        BY <2>2, <3>1 DEF Alone, Drop
      <3>2. ASSUME NEW d \in Connects, Taken(s, d, p)
            PROVE  \A e \in Sides : inval'[e][a].from \in {a, None}
        BY <2>2, <3>2, TakenFrom DEF Alone
      <3>3. QED
        BY <2>1, <3>1, <3>2
    <2>4. QED
      BY <2>1, <2>2, <2>3 DEF Alone, connectVars, serverVars
  <1>12. ASSUME NEW p \in network, p.kind = "Packet", ReplacePacket(p)
         PROVE  Alone(a)'
    <2>1. a = owner /\ ended = {} /\ Alone(a)
      BY <1>12, ConstantsAssumption DEF ReplacePacket
    <2>2. QED
      BY <1>12, <2>1, ConstantsAssumption
         DEF Alone, ReplacePacket, connectVars, serverVars, closeVars, valueVars
  <1>13. ASSUME NEW m \in network, m.kind = "DisconnectReq",
                ServerDisconnect(m)
         PROVE  Alone(a)'
    <2>1. a = owner /\ ended = {} /\ Alone(a)
      BY <1>13, ConstantsAssumption DEF ServerDisconnect
    <2>2. /\ network' \subseteq network /\ server' = server
          /\ UNCHANGED <<connectVars, replying, valueVars>>
          /\ serverEnd'[a] \in {serverEnd[a], "closed"}
      BY <1>13, <2>1 DEF ServerDisconnect, Alone, TypeOK
    <2>3. \/ closing' = closing
          \/ /\ closing' = closing \cup {Closing("server", a, m)}
             /\ serverEnd'[a] = "closed"
      BY <1>13, <2>1 DEF ServerDisconnect, Alone, TypeOK
    <2>4. QED
      BY <2>1, <2>2, <2>3 DEF Alone, Closing, connectVars, valueVars
  <1>14. ASSUME NEW m \in network, m.kind = "Closed", ClientClosed(m)
         PROVE  Alone(a)'
    <2>1. a = owner /\ ended = {} /\ Alone(a)
      BY <1>14, ConstantsAssumption DEF ClientClosed
    <2>2. /\ connection = a /\ connection' = None /\ clientEnd'[a] = "closed"
          /\ closing' = closing \cup {Closing("client", a, m)}
          /\ network' \subseteq network
          /\ UNCHANGED <<serverVars, valueVars>>
      BY <1>14, <2>1 DEF ClientClosed, Alone, TypeOK
    <2>3. QED
      BY <2>1, <2>2 DEF Alone, Closing, serverVars, valueVars
  <1>15. ASSUME NEW r \in closing, EndClose(r)
         PROVE  Alone(a)'
    <2>1. a = owner /\ ended = {} /\ Alone(a)
      BY <1>15, ConstantsAssumption DEF EndClose
    <2>2. QED
      BY <1>15, <2>1, ConstantsAssumption
         DEF Alone, EndClose, connectVars, serverVars, closeVars, valueVars
  <1>16. CASE ClientDisconnected
    <2>1. a = owner /\ ended = {} /\ Alone(a)
      BY <1>16, ConstantsAssumption DEF ClientDisconnected
    <2>2. QED
      BY <1>16, <2>1, ConstantsAssumption
         DEF Alone, ClientDisconnected, connectVars, serverVars, closeVars,
             valueVars
  <1>17. CASE ServerShutdown
    <2>1. a = owner /\ ended = {} /\ Alone(a)
      BY <1>17, ConstantsAssumption DEF ServerShutdown, WireClosed
    <2>2. QED
      BY <1>17, <2>1, ConstantsAssumption
         DEF Alone, ServerShutdown, WireClosed, connectVars, serverVars,
             closeVars, valueVars
  <1>18. CASE ClientShutdown
    <2>1. a = owner /\ ended = {} /\ Alone(a)
      BY <1>18, ConstantsAssumption DEF ClientShutdown
    <2>2. QED
      BY <1>18, <2>1, ConstantsAssumption
         DEF Alone, ClientShutdown, connectVars, serverVars, closeVars,
             valueVars
  <1>19. ASSUME NEW c \in Connects, NEW s \in Sides, SetIgnoreInValue(s, c)
         PROVE  Alone(a)'
    <2>1. a = owner /\ ended = {} /\ Alone(a)
      BY <1>19, ConstantsAssumption DEF SetIgnoreInValue
    <2>2. QED
      BY <1>19, <2>1
         DEF Alone, SetIgnoreInValue, connectVars, serverVars, closeVars
  <1>20. CASE UNCHANGED vars
    BY <1>20 DEF Alone, vars, connectVars, serverVars, closeVars, valueVars
  <1>21. QED
    BY StepCases, <1>1, <1>2, <1>3, <1>4, <1>5, <1>6, <1>7, <1>8, <1>9, <1>10,
       <1>12, <1>13, <1>14, <1>15, <1>16, <1>17, <1>18, <1>19, <1>20
       DEF ConnectSteps

-----------------------------------------------------------------------------
(* The last value set on an end of the connection.                         *)

(* A step that leaves the values and the packets leaves it reachable.      *)
PacketsStay ==
  /\ UNCHANGED <<outval, inval, dropped>>
  /\ \A m \in network : m.kind = "Packet" => m \in network'

LEMMA LastStays ==
  ASSUME PacketsStay, NEW a \in Connects, LastKept(a),
         serverEnd'[a] = "open" => serverEnd[a] = "open",
         clientEnd[a] = "closed" => clientEnd'[a] = "closed"
  PROVE  LastKept(a)'
  BY DEF PacketsStay, LastKept, LastReaches, Packet

LEMMA SendLast ==
  ASSUME TypeOK, NEW s \in Sides, NEW a \in Connects, SetOutValue(s, a),
         LastKept(a), UNCHANGED <<clientEnd, serverEnd>>
  PROVE  LastKept(a)'
  <1>1. PICK v \in [val : Nat, time : Nat] :
          /\ outval' = [outval EXCEPT ![s][a] = v]
          /\ network' = network \cup {Packet(s, a, v)}
          /\ inval' = inval /\ dropped' = dropped
    BY SetValue
  <1>2. ASSUME NEW e \in Sides, e # s PROVE outval'[e][a] = outval[e][a]
    BY <1>1, <1>2 DEF TypeOK
  <1>3. LastReaches(s, a)'
    <2>1. outval'[s][a] = v
      BY <1>1 DEF TypeOK
    <2>2. QED
      BY <1>1, <2>1 DEF LastReaches
  <1>4. QED
    BY <1>1, <1>2, <1>3 DEF LastKept, LastReaches

(* A value that is known and as late as the last one is the last one.      *)
LEMMA KnownLast ==
  ASSUME TypeOK, network \subseteq Messages, NEW s \in Sides,
         NEW a \in Connects,
         InOrder(s, a), NEW v \in Known(s, a), v.time >= outval[s][a].time
  PROVE  v = outval[s][a]
  <1>1. /\ v \in [val : Nat, time : Nat]
        /\ outval[s][a] \in [val : Nat, time : Nat]
    BY KnownTyped DEF TypeOK
  <1>2. /\ v.time <= outval[s][a].time /\ v.val <= outval[s][a].val
        /\ outval[s][a].time <= v.time <=> outval[s][a].val <= v.val
    BY DEF InOrder
  <1>3. v.time = outval[s][a].time /\ v.val = outval[s][a].val
    BY <1>1, <1>2
  <1>4. QED
    BY <1>1, <1>3

(* The peer takes the last value, unless it has it already.                *)
LEMMA TakeLast ==
  ASSUME TypeOK, network \subseteq Messages, NEW s \in Sides,
         NEW a \in Connects,
         InOrder(s, a), ObjectInv(a), inval[Other(s)][a].from \in {a, None},
         NEW p \in network, p.kind = "Packet", p.from = s, p.object = a,
         Taken(Other(s), a, p), network' = network \ {p}, outval' = outval,
         LastReaches(s, a)
  PROVE  LastReaches(s, a)'
  <1> DEFINE last == outval[s][a]
             own == inval[Other(s)][a].value
  <1>1. /\ Other(s) \in Sides /\ last \in [val : Nat, time : Nat]
        /\ own \in [val : Nat, time : Nat] /\ outval'[s][a] = last
    BY DEF Other, Sides, TypeOK
  <1>2. own = NotSet \/ own \in Known(s, a)
    BY <1>1, KnownAre DEF ObjectInv
  <1>3. p.value \in Known(s, a) /\ p.value.time <= last.time
    BY KnownAre DEF InOrder
  <1>4. own \in Known(s, a) => own.time > 0
    BY DEF InOrder
  <1>5. inval'[Other(s)][a].value =
          IF Newer(p.value, own) THEN p.value ELSE own
    BY <1>1 DEF Taken, TypeOK
  <1>6. p.value \in [val : Nat, time : Nat]
    BY <1>3, KnownTyped
  <1>7. CASE own = last
    <2>1. CASE Newer(p.value, own)
      <3>1. last.time = 0
        BY <1>1, <1>3, <1>6, <1>7, <2>1 DEF Newer
      <3>2. last = NotSet
        BY <1>1, <1>2, <1>4, <1>7, <3>1
      <3>3. QED
        BY <1>1, <3>2 DEF LastReaches, Taken
    <2>2. CASE ~Newer(p.value, own)
      BY <1>1, <1>5, <1>7, <2>2 DEF LastReaches, Taken
    <2>3. QED
      BY <2>1, <2>2
  <1>8. CASE p.value = last
    <2>1. CASE Newer(p.value, own)
      BY <1>1, <1>5, <1>8, <2>1 DEF LastReaches, Taken
    <2>2. CASE ~Newer(p.value, own)
      <3>1. own.time # 0 /\ own.time >= last.time
        BY <1>1, <1>8, <2>2 DEF Newer
      <3>2. own \in Known(s, a)
        BY <1>2, <3>1 DEF NotSet
      <3>3. own = last
        BY <3>1, <3>2, KnownLast
      <3>4. QED
        BY <1>7, <3>3
    <2>3. QED
      BY <2>1, <2>2
  <1>9. CASE p.value # last /\ own # last
    <2>1. p # Packet(s, a, last)
      BY <1>9 DEF Packet
    <2>2. QED
      BY <1>1, <1>9, <2>1 DEF LastReaches, Taken
  <1>10. QED
    BY <1>7, <1>8, <1>9

(* The peer drops the last value, or it has, or has dropped, it already.   *)
LEMMA DropLast ==
  ASSUME TypeOK, network \subseteq Messages, NEW s \in Sides,
         NEW a \in Connects, InOrder(s, a), ObjectInv(a),
         NEW p \in network, p.kind = "Packet", p.from = s, p.object = a,
         Drop(p), network' = network \ {p}, outval' = outval,
         LastReaches(s, a)
  PROVE  LastReaches(s, a)'
  <1> DEFINE last == outval[s][a]
  <1>1. /\ last.val \in Nat /\ dropped[s][a] \in Nat /\ p.value.val \in Nat
        /\ dropped[s][a] <= last.val /\ p.value.val <= last.val
    <2>1. last.val \in Nat /\ dropped[s][a] \in Nat
      BY DEF TypeOK
    <2>2. p.value.val \in Nat
      BY DEF Messages
    <2>3. p.value.val <= last.val
      BY KnownAre DEF InOrder
    <2>4. QED
      BY <2>1, <2>2, <2>3 DEF ObjectInv
  <1>2. dropped'[s][a] = IF p.value.val > dropped[s][a] THEN p.value.val
                                                        ELSE dropped[s][a]
    BY DEF Drop, TypeOK
  <1>3. CASE p = Packet(s, a, last) \/ dropped[s][a] = last.val
    <2>1. dropped'[s][a] = last.val
      BY <1>1, <1>2, <1>3 DEF Packet
    <2>2. QED
      BY <2>1 DEF LastReaches
  <1>4. CASE p # Packet(s, a, last) /\ dropped[s][a] # last.val
    BY <1>4 DEF LastReaches, Drop
  <1>5. QED
    BY <1>3, <1>4

(* A packet from the other end is none of these.                           *)
LEMMA OtherLast ==
  ASSUME TypeOK, NEW s \in Sides, NEW a \in Connects, NEW p \in network,
         p.from = Other(s), \A e \in Sides : e # s => inval'[e] = inval[e],
         network' = network \ {p}, outval' = outval,
         dropped'[s] = dropped[s], LastReaches(s, a)
  PROVE  LastReaches(s, a)'
  <1>1. p # Packet(s, a, outval[s][a])
    BY DEF Packet, Other, Sides
  <1>2. Other(s) \in Sides /\ Other(s) # s
    BY DEF Other, Sides
  <1>3. QED
    BY <1>1, <1>2 DEF LastReaches

(* The last value is kept, step by step.                                   *)
LEMMA LastStep ==
  ASSUME TypeOK, network \subseteq Messages, [Next]_vars,
         \A s \in Sides, c \in Connects : InOrder(s, c),
         \A c \in Connects : ObjectInv(c),
         \A c \in Connects :
           c = owner /\ ended = {} => Alone(c) /\ LastKept(c),
         NEW a \in Connects, a = owner', ended' = {}
  PROVE  LastKept(a)'
  <1>1. ASSUME NEW c \in Connects, AsyncConnect(c)
         PROVE  LastKept(a)'
    <2>1. a = c
      BY <1>1, ConstantsAssumption DEF AsyncConnect
    <2>2. serverEnd'[a] = "none"
      BY <1>1, <2>1 DEF AsyncConnect, ObjectInv, Untouched, serverVars
    <2>3. QED
      BY <2>2 DEF LastKept
  <1>2. ASSUME NEW c \in Connects, ServerConnect(c)
         PROVE  LastKept(a)'
    <2>1. /\ a = owner /\ ended = {} /\ Alone(a) /\ outval' = outval
          /\ c = a /\ Untouched(a)
      BY <1>2 DEF ServerConnect, ConnectReq, Alone, ObjectInv, valueVars
    <2>2. \A s \in Sides : outval'[s][a] = NotSet
      BY <2>1 DEF ObjectInv, Untouched, NoValues, Sides
    <2>3. QED
      BY <2>2 DEF LastKept, LastReaches
  <1>3. ASSUME NEW c \in Connects, ServerReply(c) \/ ConnectFails(c)
         PROVE  LastKept(a)'
    <2>1. /\ a = owner /\ ended = {} /\ PacketsStay
          /\ serverEnd'[a] = "open" => serverEnd[a] = "open"
          /\ clientEnd[a] = "closed" => clientEnd'[a] = "closed"
      BY <1>3, ConstantsAssumption
         DEF PacketsStay, TypeOK, connectVars, serverVars, valueVars,
             ServerReply, ConnectFails, ConnectRet
    <2>2. QED
      BY <2>1, LastStays
  <1>4. ASSUME NEW c \in Connects, ConnectReturns(c)
         PROVE  LastKept(a)'
    <2>1. /\ a = owner /\ ended = {} /\ PacketsStay /\ serverEnd' = serverEnd
      BY <1>4 DEF PacketsStay, serverVars, valueVars, ConnectReturns, ConnectRet
    <2>2. clientEnd[a] = "closed" => clientEnd'[a] = "closed"
      BY <1>4 DEF ConnectReturns, ObjectInv, TypeOK, connectVars
    <2>3. QED
      BY <2>1, <2>2, LastStays
  <1>5. ASSUME NEW c \in Connects, ClientSend(c)
         PROVE  LastKept(a)'
    <2>1. /\ a = owner /\ ended = {} /\ c = a /\ SetOutValue("client", c)
          /\ UNCHANGED <<clientEnd, serverEnd>> /\ "client" \in Sides
      BY <1>5, ConstantsAssumption
         DEF ClientSend, SetOutValue, connectVars, serverVars, Sides
    <2>2. QED
      BY <2>1, SendLast
  <1>6. ASSUME NEW c \in Connects, ServerSend(c)
         PROVE  LastKept(a)'
    <2>1. /\ a = owner /\ ended = {} /\ c = a /\ SetOutValue("server", c)
          /\ UNCHANGED <<clientEnd, serverEnd>> /\ "server" \in Sides
      BY <1>6, ConstantsAssumption
         DEF ServerSend, SetOutValue, connectVars, serverVars, Sides, Alone
    <2>2. QED
      BY <2>1, SendLast
  <1>7. ASSUME NEW c \in Connects, ClientClose(c) \/ ServerClose(c)
         PROVE  LastKept(a)'
    <2>1. /\ a = owner /\ ended = {} /\ PacketsStay
          /\ serverEnd'[a] = "open" => serverEnd[a] = "open"
          /\ clientEnd[a] = "closed" => clientEnd'[a] = "closed"
      BY <1>7, ConstantsAssumption
         DEF PacketsStay, TypeOK, connectVars, serverVars, valueVars,
             ClientClose, ServerClose, CountClose
    <2>2. QED
      BY <2>1, LastStays
  <1>8. ASSUME NEW p \in network, p.kind = "Packet",
               ClientReceive(p) \/ ServerReceive(p)
         PROVE  LastKept(a)'
    <2>1. PICK e \in Sides :
            /\ p.from = Other(e) /\ network' = network \ {p}
            /\ UNCHANGED <<connectVars, serverVars, outval, ended, owner>>
            /\ Drop(p) \/ \E o \in Connects : Taken(e, o, p)
      BY <1>8, Receives
    <2>2. /\ Alone(a) /\ LastKept(a) /\ p.object = a
          /\ UNCHANGED <<outval, clientEnd, serverEnd>>
      BY <1>8, <2>1 DEF Alone, connectVars, serverVars
    <2>3. /\ Other(e) \in Sides /\ Other(Other(e)) = e
          /\ \A s \in Sides : s = e \/ s = Other(e)
      BY DEF Other, Sides
    <2>4. ASSUME LastReaches(e, a) PROVE LastReaches(e, a)'
      <3>1. /\ \A s \in Sides : s # e => inval'[s] = inval[s]
            /\ dropped'[e] = dropped[e]
        BY <2>1, <2>3 DEF Drop, Taken, TypeOK, Other, Sides
      <3>2. QED
        BY <2>1, <2>2, <2>4, <3>1, OtherLast
    <2>5. ASSUME LastReaches(Other(e), a) PROVE LastReaches(Other(e), a)'
      <3>1. CASE Drop(p)
        BY <1>8, <2>1, <2>2, <2>3, <2>5, <3>1, DropLast
      <3>2. ASSUME NEW o \in Connects, Taken(e, o, p)
            PROVE  LastReaches(Other(e), a)'
        <4>1. o = a /\ inval[e][a].from \in {a, None}
          BY <2>2, <3>2, ConstantsAssumption DEF Taken, Current, Alone
        <4>2. QED
          BY <1>8, <2>1, <2>2, <2>3, <2>5, <3>2, <4>1, TakeLast
      <3>3. QED
        BY <2>1, <3>1, <3>2
    <2>6. QED
      BY <2>2, <2>3, <2>4, <2>5 DEF LastKept
  <1>9. ASSUME NEW c \in Connects, NEW s \in Sides, SetIgnoreInValue(s, c)
         PROVE  LastKept(a)'
    <2>1. /\ a = owner /\ ended = {} /\ PacketsStay
          /\ UNCHANGED <<clientEnd, serverEnd>>
      BY <1>9 DEF PacketsStay, SetIgnoreInValue, connectVars, serverVars
    <2>2. QED
      BY <2>1, LastStays
  <1>10. ASSUME NEW p \in network, p.kind = "Packet", ReplacePacket(p)
         PROVE  LastKept(a)'
    <2>1. /\ a = owner /\ ended = {} /\ network' = network \ {p}
          /\ UNCHANGED <<outval, inval, dropped, clientEnd, serverEnd>>
      BY <1>10 DEF ReplacePacket, connectVars, serverVars, closeVars, valueVars
    <2>2. ASSUME NEW s \in Sides, p = Packet(s, a, outval[s][a]) PROVE FALSE
      <3>1. PICK q \in network : /\ q.kind = "Packet" /\ q.from = s
                                /\ q.object = a
                                /\ q.value.val > outval[s][a].val
        BY <1>10, <2>2 DEF ReplacePacket, Packet
      <3>2. q.value \in Known(s, a) /\ q.value.val <= outval[s][a].val
        BY <3>1, KnownAre DEF InOrder
      <3>3. q.value.val \in Nat /\ outval[s][a].val \in Nat
        BY <3>2, KnownTyped DEF TypeOK
      <3>4. QED
        BY <3>1, <3>2, <3>3
    <2>3. QED
      BY <2>1, <2>2 DEF LastKept, LastReaches
  <1>11. ASSUME NEW m \in network,
               \/ m.kind = "DisconnectReq" /\ ServerDisconnect(m)
               \/ m.kind = "Closed" /\ ClientClosed(m)
         PROVE  LastKept(a)'
    <2>1. /\ a = owner /\ ended = {} /\ PacketsStay
          /\ serverEnd'[a] = "open" => serverEnd[a] = "open"
          /\ clientEnd[a] = "closed" => clientEnd'[a] = "closed"
      BY <1>11, ConstantsAssumption
         DEF PacketsStay, TypeOK, connectVars, serverVars, valueVars,
             ServerDisconnect, ClientClosed
    <2>2. QED
      BY <2>1, LastStays
  <1>12. ASSUME NEW r \in closing, EndClose(r)
         PROVE  LastKept(a)'
    <2>1. /\ a = owner /\ ended = {} /\ PacketsStay
          /\ serverEnd'[a] = "open" => serverEnd[a] = "open"
          /\ clientEnd[a] = "closed" => clientEnd'[a] = "closed"
      BY <1>12, ConstantsAssumption
         DEF PacketsStay, TypeOK, connectVars, serverVars, valueVars, EndClose
    <2>2. QED
      BY <2>1, LastStays
  <1>13. CASE ClientDisconnected \/ ServerShutdown \/ ClientShutdown
              \/ UNCHANGED vars
    <2>1. /\ a = owner /\ ended = {} /\ PacketsStay
          /\ serverEnd'[a] = "open" => serverEnd[a] = "open"
          /\ clientEnd[a] = "closed" => clientEnd'[a] = "closed"
      BY <1>13, ConstantsAssumption
         DEF PacketsStay, TypeOK, connectVars, serverVars, ClientDisconnected,
             ServerShutdown, ClientShutdown, vars, valueVars
    <2>2. QED
      BY <2>1, LastStays
  <1>14. QED
    BY StepCases, <1>1, <1>2, <1>3, <1>4, <1>5, <1>6, <1>7, <1>8, <1>9, <1>10,
       <1>11, <1>12, <1>13
       DEF ConnectSteps

-----------------------------------------------------------------------------

LEMMA IInvInit == Init => IInv
  <1> SUFFICES ASSUME Init PROVE IInv
    OBVIOUS
  <1>1. TypeOK
    BY ConstantsAssumption DEF Init, TypeOK, NotSet, Sides
  <1>2. CurrentIsOpen
    BY <1>1 DEF CurrentIsOpen, Init
  <1>3. network \subseteq Messages
    BY DEF Init
  <1>4. ASSUME NEW s \in Sides, NEW o \in Connects PROVE InOrder(s, o)
    <2>1. Known(s, o) = {}
      BY ConstantsAssumption DEF Known, Init, Other, Sides
    <2>2. outval[s][o] = NotSet
      BY DEF Init
    <2>3. QED
      BY <2>1, <2>2 DEF InOrder, NotSet
  <1>5. ASSUME NEW c \in Connects PROVE ObjectInv(c)
    <2>1. \A s \in Sides : dropped[s][c] <= outval[s][c].val
      BY DEF Init, NotSet, Sides
    <2>2. QED
      BY <2>1, ConstantsAssumption
         DEF Init, ObjectInv, Untouched, NoValues, Sides
  <1>6. \A c \in Connects : c # owner
    BY ConstantsAssumption DEF Init
  <1>7. QED
    BY <1>2, <1>3, <1>4, <1>5, <1>6 DEF IInv

LEMMA IInvStep == IInv /\ [Next]_vars => IInv'
  <1> SUFFICES ASSUME IInv, [Next]_vars PROVE IInv'
    OBVIOUS
  <1>1. TypeOK /\ network \subseteq Messages
    BY DEF IInv, CurrentIsOpen
  <1>2. TypeOK' /\ network' \subseteq Messages
    BY <1>1, TypeStep, MessagesStep
  <1>3. CurrentIsOpen'
    BY <1>1, <1>2, CurrentStep DEF IInv
  <1>4. \A s \in Sides, o \in Connects : InOrder(s, o)'
    BY <1>1, OrderStep DEF IInv
  <1>5. \A c \in Connects : ObjectInv(c)'
    BY <1>1, <1>2, ObjectStep DEF IInv
  <1>6. ASSUME NEW c \in Connects, c = owner', ended' = {}
        PROVE  Alone(c)' /\ LastKept(c)'
    <2>1. Alone(c)'
      BY <1>1, <1>6, AloneStep DEF IInv
    <2>2. LastKept(c)'
      BY <1>1, <1>6, LastStep DEF IInv
    <2>3. QED
      BY <2>1, <2>2
  <1>7. Messages' = Messages
    BY DEF Messages
  <1>8. QED
    BY <1>2, <1>3, <1>4, <1>5, <1>6, <1>7 DEF IInv

(* The inductive invariant holds of every execution.                       *)
THEOREM Invariance == Spec => []IInv
  BY IInvInit, IInvStep, PTL DEF Spec

(* A closed object is not current any more, once its close is over         *)
(* (RemoteClose, AsyncClose, WireClosed, WireDisconnectReq).               *)
THEOREM ClosedIsNotCurrent == Spec => []CurrentIsOpen
  BY Invariance, PTL DEF IInv

(* The peer of a connection that has the wire for itself has the last      *)
(* value set or will have it, whatever the order of the packets and        *)
(* whichever of them the transport replaces, unless it was dropped: it     *)
(* came before the reply to the connect, or its receiver ignores values    *)
(* (SetIgnoreInValue).                                                     *)
THEOREM NewestReaches == Spec => []Newest
  <1>1. IInv => Newest
    BY DEF IInv, Newest, BothOpen, LastKept, LastReaches
  <1>2. QED
    BY <1>1, Invariance, PTL

(* A value an end takes was set by its sender after the one it had.        *)
LEMMA TakeSees ==
  ASSUME IInv, NEW side \in Sides, NEW o \in Connects, NEW p \in network,
         p.kind = "Packet", p.from = Other(side), Taken(side, o, p),
         UNCHANGED outval
  PROVE  [Register!Next]_(Register!registerVars)
  <1>1. /\ TypeOK /\ network \subseteq Messages /\ p.object \in Connects
        /\ Other(side) \in Sides /\ Other(Other(side)) = side
    BY DEF IInv, CurrentIsOpen, Messages, Other, Sides
  <1>2. CASE inval' = inval
    BY <1>2 DEF Register!registerVars
  <1>3. CASE inval' # inval
    <2>1. /\ Newer(p.value, inval[side][o].value)
          /\ inval' = [inval EXCEPT ![side][o] =
                         [from |-> p.object, value |-> p.value]]
      BY <1>3 DEF Taken
    <2>2. /\ p.value \in Known(Other(side), p.object)
          /\ InOrder(Other(side), p.object)
      BY <1>1, KnownAre DEF IInv
    <2>3. /\ p.value \in [val : Nat, time : Nat]
          /\ outval[Other(side)][p.object].val \in Nat
          /\ inval[side][o].value \in [val : Nat, time : Nat]
      BY <1>1, <2>2, KnownTyped DEF TypeOK
    <2>4. p.value.val \in 1 .. outval[Other(side)][p.object].val
      BY <2>2, <2>3 DEF InOrder
    <2>5. ASSUME inval[side][o].from = p.object
          PROVE  p.value.val > inval[side][o].value.val
      <3>1. inval[side][o].value \in Known(Other(side), p.object)
        BY <1>1, <2>5, KnownAre
      <3>2. /\ inval[side][o].value.time > 0
            /\ p.value.time <= inval[side][o].value.time <=>
                 p.value.val <= inval[side][o].value.val
        BY <2>2, <3>1 DEF InOrder
      <3>3. QED
        BY <2>1, <2>3, <3>2 DEF Newer
    <2>6. Register!See(side, o)
      <3> DEFINE set == [s \in Sides |-> [c \in Connects |-> outval[s][c].val]]
                 seen == [s \in Sides |-> [c \in Connects |->
                            [from |-> inval[s][c].from,
                             val |-> inval[s][c].value.val]]]
      <3>1. seen' = [seen EXCEPT ![side][o] =
                       [from |-> p.object, val |-> p.value.val]]
        BY <1>1, <2>1 DEF TypeOK
      <3>2. /\ p.value.val \in 1 .. set[Register!Peer(side)][p.object]
            /\ seen[side][o].from = p.object =>
                 p.value.val > seen[side][o].val
        BY <1>1, <2>4, <2>5 DEF Register!Peer, Other
      <3>3. set' = set
        OBVIOUS
      <3>4. QED
        BY <1>1, <3>1, <3>2, <3>3 DEF Register!See
    <2>7. QED
      BY <2>6 DEF Register!Next, Register!Ends, Sides
  <1>4. QED
    BY <1>2, <1>3

(* A value that is set is set in the register.                             *)
LEMMA SetSets ==
  ASSUME TypeOK, NEW side \in Sides, NEW o \in Connects,
         SetOutValue(side, o)
  PROVE  Register!Next
  <1>1. PICK v \in [val : Nat, time : Nat] :
          /\ v.val = outval[side][o].val + 1
          /\ outval' = [outval EXCEPT ![side][o] = v]
          /\ inval' = inval
    BY SetValue DEF valueVars
  <1>2. Register!Set(side, o)
    BY <1>1 DEF Register!Set, TypeOK
  <1>3. QED
    BY <1>2 DEF Register!Next, Register!Ends, Sides

(* Every step sets a value, lets an end see one, or is hidden.             *)
LEMMA RegisterStep ==
  ASSUME IInv, [Next]_vars
  PROVE  [Register!Next]_(Register!registerVars)
  <1>1. TypeOK /\ network \subseteq Messages
        /\ "client" \in Sides /\ "server" \in Sides
    BY DEF IInv, CurrentIsOpen, Sides
  <1>2. ASSUME UNCHANGED <<outval, inval>>
        PROVE  UNCHANGED Register!registerVars
    BY <1>2 DEF Register!registerVars
  <1>3. ASSUME NEW d \in Connects,
               \/ ConnectSteps(d) \/ ClientClose(d) \/ ServerClose(d)
               \/ \E s \in Sides : SetIgnoreInValue(s, d)
        PROVE  UNCHANGED Register!registerVars
    <2>1. UNCHANGED <<outval, inval>>
      BY <1>3
         DEF ConnectSteps, AsyncConnect, ServerConnect, ServerReply,
             ConnectReturns, ConnectFails, ClientClose, ServerClose,
             SetIgnoreInValue, valueVars
    <2>2. QED
      BY <1>2, <2>1
  <1>4. ASSUME NEW d \in Connects, ClientSend(d) \/ ServerSend(d)
        PROVE  Register!Next
    BY <1>1, <1>4, SetSets DEF ClientSend, ServerSend
  <1>5. ASSUME NEW p \in network, p.kind = "Packet",
               ClientReceive(p) \/ ServerReceive(p)
        PROVE  [Register!Next]_(Register!registerVars)
    <2>1. PICK s \in Sides :
            /\ p.from = Other(s) /\ UNCHANGED outval
            /\ Drop(p) \/ \E o \in Connects : Taken(s, o, p)
      BY <1>1, <1>5, Receives
    <2>2. CASE Drop(p)
      BY <1>2, <2>1, <2>2 DEF Drop
    <2>3. ASSUME NEW o \in Connects, Taken(s, o, p)
          PROVE  [Register!Next]_(Register!registerVars)
      BY <1>5, <2>1, <2>3, TakeSees
    <2>4. QED
      BY <2>1, <2>2, <2>3
  <1>6. ASSUME NEW m \in network,
               ReplacePacket(m) \/ ServerDisconnect(m) \/ ClientClosed(m)
        PROVE  UNCHANGED Register!registerVars
    BY <1>2, <1>6 DEF ReplacePacket, ServerDisconnect, ClientClosed, valueVars
  <1>7. CASE \/ \E r \in closing : EndClose(r)
             \/ ClientDisconnected \/ ServerShutdown \/ ClientShutdown
             \/ UNCHANGED vars
    BY <1>2, <1>7
       DEF EndClose, ClientDisconnected, ServerShutdown, ClientShutdown,
           valueVars, vars
  <1>8. QED
    BY <1>1, <1>3, <1>4, <1>5, <1>6, <1>7, StepCases

(* WireMember.h: older values are dropped.  The two ends of a wire         *)
(* implement the register.                                                 *)
THEOREM WireImplementsRegister == Spec => ImplementsRegister
  <1>1. Init => Register!Init
    BY DEF Init, Register!Init, Register!Ends, Sides, NotSet
  <1>2. ASSUME IInv, [Next]_vars
        PROVE  [Register!Next]_(Register!registerVars)
    BY <1>2, RegisterStep
  <1>3. QED
    BY <1>1, <1>2, Invariance, PTL DEF Spec, ImplementsRegister, Register!Spec

-----------------------------------------------------------------------------
(* async_signal_semaphore, for any set of threads and number of calls.     *)

LEMMA SemaphoreInitInv == SemaphoreInit => SemaphoreInv
  <1> SUFFICES ASSUME SemaphoreInit PROVE SemaphoreInv
    OBVIOUS
  <1>1. SemaphoreTypeOK
    BY DEF SemaphoreInit, SemaphoreTypeOK
  <1>2. \A t \in Threads : pc[t] = "idle" /\ my_id[t] = 0
    BY DEF SemaphoreInit
  <1>3. WaitersMatch /\ OneHandler
    BY <1>2 DEF SemaphoreInit, WaitersMatch, OneHandler, Waits
  <1>4. QED
    BY <1>1, <1>3 DEF SemaphoreInv

LEMMA NotifiedType ==
  SemaphoreTypeOK =>
    Notified \in [Threads -> {"idle", "waiting", "woken", "handler"}]
  BY DEF SemaphoreTypeOK, Notified

LEMMA FireAtOnceKeeps ==
  ASSUME SemaphoreInv, NEW t \in Threads, FireAtOnce(t)
  PROVE  SemaphoreInv'
  <1>1. SemaphoreTypeOK'
    BY DEF SemaphoreInv, SemaphoreTypeOK, FireAtOnce, StartHandler
  <1>2. WaitersMatch'
    BY DEF SemaphoreInv, SemaphoreTypeOK, FireAtOnce, StartHandler,
           WaitersMatch, Waits, IsLatest
  <1>3. OneHandler'
    BY DEF SemaphoreInv, SemaphoreTypeOK, FireAtOnce, StartHandler,
           WaitersMatch, OneHandler
  <1>4. QED
    BY <1>1, <1>2, <1>3 DEF SemaphoreInv

LEMMA WaitForTurnKeeps ==
  ASSUME SemaphoreInv, NEW t \in Threads, WaitForTurn(t)
  PROVE  SemaphoreInv'
  <1>1. SemaphoreTypeOK'
    BY NotifiedType DEF SemaphoreInv, SemaphoreTypeOK, WaitForTurn, DrawId
  <1>2. /\ \A s \in Threads \ {t} :
             /\ my_id'[s] = my_id[s]
             /\ my_id[s] <= next_id
             /\ pc'[s] = IF next /\ pc[s] = "waiting" THEN "woken" ELSE pc[s]
        /\ my_id'[t] = next_id' /\ next_id' = next_id + 1
        /\ pc'[t] = "waiting" /\ next' = TRUE /\ running' = running /\ running
    BY DEF SemaphoreInv, SemaphoreTypeOK, WaitForTurn, DrawId, Notified,
           WaitersMatch
  <1>3. ASSUME NEW s \in Threads \ {t} PROVE pc'[s] # "waiting"
    <2>1. ~next => pc[s] # "waiting"
      BY DEF SemaphoreInv, WaitersMatch, Waits
    <2>2. QED
      BY <1>2, <2>1
  <1>4. ASSUME NEW s \in Threads \ {t} PROVE Waits(s)' => Waits(s)
    BY <1>2 DEF Waits
  <1>5. WaitersMatch'
    BY <1>1, <1>2, <1>3, <1>4
       DEF SemaphoreInv, SemaphoreTypeOK, WaitersMatch, Waits, IsLatest
  <1>6. OneHandler'
    BY <1>2 DEF SemaphoreInv, OneHandler
  <1>7. QED
    BY <1>1, <1>5, <1>6 DEF SemaphoreInv

LEMMA OvertakeKeeps ==
  ASSUME SemaphoreInv, NEW t \in Threads, OvertakeWaiter(t)
  PROVE  SemaphoreInv'
  <1>1. SemaphoreTypeOK'
    <2>1. Notified \in [Threads -> {"idle", "waiting", "woken", "handler"}]
      BY NotifiedType DEF SemaphoreInv
    <2>2. pc' \in [Threads -> {"idle", "waiting", "woken", "handler"}]
      BY <2>1 DEF OvertakeWaiter, StartHandler
    <2>3. QED
      <3>1. my_id' \in [Threads -> Nat] /\ next_id' \in Nat
        BY DEF SemaphoreInv, SemaphoreTypeOK, OvertakeWaiter, DrawId
      <3>2. running' = TRUE /\ next' = FALSE /\ unseen' = FALSE
        BY DEF OvertakeWaiter, StartHandler
      <3>3. QED
        BY <2>2, <3>1, <3>2 DEF SemaphoreTypeOK
  <1>2. /\ \A s \in Threads \ {t} :
             /\ my_id'[s] = my_id[s]
             /\ my_id[s] <= next_id
             /\ pc'[s] = IF pc[s] = "waiting" THEN "woken" ELSE pc[s]
             /\ pc[s] # "handler"
        /\ next_id' = next_id + 1 /\ next_id \in Nat
        /\ my_id \in [Threads -> Nat]
        /\ pc'[t] = "handler" /\ next' = FALSE /\ running' = TRUE
        /\ unseen' = FALSE /\ my_id'[t] = next_id'
    BY DEF SemaphoreInv, SemaphoreTypeOK, OvertakeWaiter, DrawId, Notified,
           StartHandler, WaitersMatch
  <1>3. WaitersMatch'
    BY <1>1, <1>2 DEF SemaphoreInv, WaitersMatch, Waits, IsLatest
  <1>4. OneHandler'
    BY <1>2 DEF OneHandler
  <1>5. QED
    BY <1>1, <1>3, <1>4 DEF SemaphoreInv

LEMMA WakeUpKeeps ==
  ASSUME SemaphoreInv, NEW t \in Threads, WakeUp(t)
  PROVE  SemaphoreInv'
  <1>1. CASE Superseded(t)
    BY <1>1
       DEF SemaphoreInv, SemaphoreTypeOK, Superseded, WaitersMatch, OneHandler,
           Waits, IsLatest
  <1>2. CASE WaitAgain(t)
    BY <1>2
       DEF SemaphoreInv, SemaphoreTypeOK, WaitAgain, WaitersMatch, OneHandler,
           Waits, IsLatest
  <1>3. CASE TakeTurn(t)
    <2>1. /\ \A s \in Threads \ {t} : pc'[s] = pc[s] /\ pc[s] # "handler"
          /\ pc'[t] = "handler" /\ Waits(t) /\ IsLatest(t)
          /\ running' = TRUE /\ next' = FALSE /\ unseen' = FALSE
          /\ UNCHANGED <<next_id, my_id>>
      BY <1>3
         DEF SemaphoreInv, SemaphoreTypeOK, TakeTurn, StartHandler,
             WaitersMatch, Waits
    <2>2. SemaphoreTypeOK'
      BY <1>3 DEF SemaphoreInv, SemaphoreTypeOK, TakeTurn, StartHandler
    <2>3. ASSUME NEW s \in Threads, Waits(s)' PROVE ~IsLatest(s)'
      <3>1. s # t /\ Waits(s)
        BY <2>1, <2>3 DEF Waits
      <3>2. QED
        BY <2>1, <3>1 DEF SemaphoreInv, WaitersMatch, IsLatest
    <2>4. \A s \in Threads : pc'[s] # "waiting"
      BY <2>1, <2>3 DEF SemaphoreInv, WaitersMatch, Waits, IsLatest
    <2>5. WaitersMatch'
      BY <2>1, <2>3, <2>4 DEF SemaphoreInv, WaitersMatch, Waits
    <2>6. OneHandler'
      BY <2>1 DEF OneHandler
    <2>7. QED
      BY <2>2, <2>5, <2>6 DEF SemaphoreInv
  <1>4. QED
    BY <1>1, <1>2, <1>3 DEF WakeUp

(* The waiting thread, if there is one, is woken before running is unset.  *)
LEMMA HandlerEndsKeeps ==
  ASSUME SemaphoreInv, NEW t \in Threads, HandlerEnds(t)
  PROVE  SemaphoreInv'
  <1>1. SemaphoreTypeOK'
    BY DEF SemaphoreInv, SemaphoreTypeOK, HandlerEnds, Notified
  <1>2. /\ \A s \in Threads \ {t} :
             /\ pc'[s] = IF pc[s] = "waiting" THEN "woken" ELSE pc[s]
             /\ pc[s] # "handler"
        /\ pc'[t] = "idle" /\ pc[t] = "handler"
        /\ UNCHANGED <<next, next_id, my_id, unseen>>
    BY DEF SemaphoreInv, SemaphoreTypeOK, HandlerEnds, Notified, OneHandler
  <1>3. \A s \in Threads : Waits(s)' <=> Waits(s)
    BY <1>2 DEF Waits
  <1>4. \A s \in Threads : IsLatest(s)' <=> IsLatest(s)
    BY <1>2 DEF IsLatest
  <1>5. \A s \in Threads : pc'[s] # "waiting" /\ pc'[s] # "handler"
    BY <1>2
  <1>6. WaitersMatch'
    BY <1>2, <1>3, <1>4, <1>5 DEF SemaphoreInv, WaitersMatch
  <1>7. OneHandler'
    BY <1>5 DEF OneHandler
  <1>8. QED
    BY <1>1, <1>6, <1>7 DEF SemaphoreInv

LEMMA SpuriousKeeps ==
  ASSUME SemaphoreInv, NEW t \in Threads, SpuriousWakeup(t)
  PROVE  SemaphoreInv'
  BY DEF SemaphoreInv, SemaphoreTypeOK, SpuriousWakeup, WaitersMatch,
         OneHandler, Waits, IsLatest

LEMMA SemaphoreNextKeepsInv ==
  SemaphoreInv /\ [SemaphoreNext]_semaphoreVars => SemaphoreInv'
  <1> SUFFICES ASSUME SemaphoreInv,
                      [SemaphoreNext]_semaphoreVars PROVE SemaphoreInv'
    OBVIOUS
  <1>1. ASSUME NEW t \in Threads, TryFireNext(t) PROVE SemaphoreInv'
    BY <1>1, FireAtOnceKeeps, WaitForTurnKeeps, OvertakeKeeps DEF TryFireNext
  <1>2. CASE UNCHANGED semaphoreVars
    BY <1>2
       DEF semaphoreVars, SemaphoreInv, SemaphoreTypeOK, WaitersMatch,
           OneHandler, Waits, IsLatest
  <1>3. QED
    BY <1>1, <1>2, WakeUpKeeps, HandlerEndsKeeps, SpuriousKeeps
       DEF SemaphoreNext

(* Every reachable state satisfies the inductive invariant.                *)
THEOREM SemaphoreInvariance == SemaphoreSpec => []SemaphoreInv
  BY SemaphoreInitInv, SemaphoreNextKeepsInv, PTL DEF SemaphoreSpec

(* However many threads call try_fire_next, one handler runs at a time.    *)
THEOREM HandlersExclude == SemaphoreSpec => []OneHandler
  BY SemaphoreInvariance, PTL DEF SemaphoreInv

(* An event that came after the last handler was started always has a      *)
(* caller that is awake, or that the running handler will wake.            *)
THEOREM EventsKept == SemaphoreSpec => []NoEventLost
  <1>1. SemaphoreInv => NoEventLost
    BY DEF SemaphoreInv, WaitersMatch, NoEventLost, Waits
  <1>2. QED
    BY <1>1, SemaphoreInvariance, PTL
=============================================================================
