----------------------------- MODULE PipeMember -----------------------------
(***************************************************************************)
(* The two ends of a pipe member for one client (PipeClientBase and        *)
(* PipeServerBase in PipeMember.cpp): connecting endpoints, the tables     *)
(* that find an endpoint by its index, packets that come before the reply  *)
(* to the connect, and the closing of endpoints from either end.           *)
(*                                                                         *)
(* An endpoint pair is known by the call of AsyncConnect that asked for    *)
(* it.  The messages of one connection are dispatched by a thread pool, in *)
(* any order.  The order of the packets of one endpoint is in PipeEndpoint.*)
(***************************************************************************)
EXTENDS Integers, FiniteSetsExt, Functions

CONSTANTS
  Connects,      \* calls of AsyncConnect_internal
  Requested,     \* the index each asks for, AnyIndex for any
  MaxCloses,     \* bound: calls of Close on each end of a pair
  MayEnd,        \* the client may disconnect and the service may stop
  Unreliable,    \* both sides agree on unreliable packets
  MaxPackets     \* bound: packets sent by each end of a pair

AnyIndex == -1

Sides == {"client", "server"}

Peer(side) == IF side = "client" THEN "server" ELSE "client"

(* Bound: the indexes that can come up.                                    *)
Indexes ==
  0 .. Cardinality(Connects) + Max({Requested[c] : c \in Connects} \cup {1})

ASSUME ConstantsAssumption ==
  /\ Requested \in [Connects -> Nat \cup {AnyIndex}]
  /\ MayEnd \in BOOLEAN /\ Unreliable \in BOOLEAN
  /\ {MaxPackets, MaxCloses} \subseteq [Sides -> [Connects -> Nat]]

VARIABLES
  call,                  \* each AsyncConnect
  connecting_endpoints,  \* client: connects without a reply
  early_endpoints,       \* client: packets of an index not yet connected
  pipeendpoints,         \* client: the pair whose client end has an index
  clientEnd,             \* client: the endpoint objects
  serverEnd,             \* server: the endpoint objects
  server_endpoints,      \* server: the pair whose server end has an index
  index,                 \* the index the server gave each pair
  replying,              \* server: PipeConnectCallback under way
  removing,              \* server: endpoints about to leave the table
  messages,
  sends, received,       \* packets of each end
  closes,                \* calls of Close of each end
  ended,                 \* "client": disconnected, "service": stopped
  late,                  \* history: packets that a closed end sent to each side
  fresh,                 \* history: pairs with an index nobody else was using,
                         \* nor has closed since
  missed                 \* history: pairs whose PipeClosed found no endpoint

clientVars == <<call, connecting_endpoints, early_endpoints, pipeendpoints,
                clientEnd>>
serverVars == <<serverEnd, server_endpoints, index, replying, removing, fresh>>
packetVars == <<sends, received, late>>
memberVars ==
  <<clientVars, serverVars, messages, packetVars, closes, ended, missed>>

ConnectReq(c) == [kind |-> "ConnectReq", pair |-> c]
ConnectRet(c) == [kind |-> "ConnectRet", pair |-> c]
PipeDisconnectReq(i, c, n) ==
  [kind |-> "DisconnectReq", index |-> i, pair |-> c, num |-> n]
PipeClosed(i, c, n) ==
  [kind |-> "Closed", index |-> i, pair |-> c, num |-> n]
Packet(to, i, c, n) ==
  [kind |-> "Packet", to |-> to, index |-> i, pair |-> c, num |-> n]

Indexed == {m \in messages : m.kind \in {"DisconnectReq", "Closed", "Packet"}}

Empty == [i \in {} |-> 0]

Without(f, i) == Restrict(f, DOMAIN f \ {i})

With(f, i, x) == [j \in DOMAIN f \cup {i} |-> IF j = i THEN x ELSE f[j]]

MemberInit ==
  /\ call = [c \in Connects |-> "idle"]
  /\ connecting_endpoints = {}
  /\ early_endpoints = Empty
  /\ pipeendpoints = Empty
  /\ clientEnd = [c \in Connects |-> "none"]
  /\ serverEnd = [c \in Connects |-> "none"]
  /\ server_endpoints = Empty
  /\ index = [c \in Connects |-> 0]
  /\ replying = {} /\ removing = {} /\ messages = {} /\ ended = {}
  /\ sends = [s \in Sides |-> [c \in Connects |-> 0]]
  /\ received = [s \in Sides |-> [c \in Connects |-> {}]]
  /\ closes = [s \in Sides |-> [c \in Connects |-> 0]]
  /\ late = [s \in Sides |-> {}]
  /\ fresh = {} /\ missed = {}

-----------------------------------------------------------------------------
(* Connecting                                                              *)

(* AsyncConnect_internal.  AsyncProcessRequest throws when the connection  *)
(* is gone, and the entry in connecting_endpoints stays.                   *)
AsyncConnect(c) ==
  /\ call[c] = "idle"
  /\ connecting_endpoints' = connecting_endpoints \cup {c}
  /\ \/ /\ ended = {}
        /\ call' = [call EXCEPT ![c] = "pending"]
        /\ messages' = messages \cup {ConnectReq(c)}
     \/ /\ ended # {}
        /\ call' = [call EXCEPT ![c] = "threw"]
        /\ UNCHANGED messages
  /\ UNCHANGED <<early_endpoints, pipeendpoints, clientEnd, serverVars,
                 packetVars, closes, ended, missed>>

(* PipeConnectReq: beyond every index of this client that is not below the *)
(* one requested.  The slip takes the one requested.                       *)
SlipNewIndex(c, i) ==
  i = IF Requested[c] = AnyIndex THEN 1 ELSE Requested[c]

NewIndex(c, i) ==
  LET above == {j \in DOMAIN server_endpoints : j >= Requested[c]}
  IN IF above = {}
     THEN i = IF Requested[c] = AnyIndex THEN 1 ELSE Requested[c]
     ELSE i - 1 \in above /\ \A j \in above : j < i

(* Neither end of a pair uses its index any more.                          *)
GaveUp(c) ==
  /\ serverEnd[c] = "closed" /\ clientEnd[c] # "open"
  /\ c \notin replying /\ ConnectRet(c) \notin messages

(* Nothing of an earlier pair with this index is left anywhere.            *)
Unused(i) ==
  /\ i \notin DOMAIN pipeendpoints \cup DOMAIN early_endpoints
  /\ \A m \in Indexed : m.index # i
  /\ \A r \in removing : index[r.pair] # i
  /\ \A c \in Connects :
       serverEnd[c] # "none" /\ index[c] = i => GaveUp(c)

ServerConnect(c, i) ==
  /\ ConnectReq(c) \in messages
  /\ NewIndex(c, i)
  /\ messages' = messages \ {ConnectReq(c)}
  /\ server_endpoints' = With(server_endpoints, i, c)
  /\ serverEnd' = [serverEnd EXCEPT ![c] = "open"]
  /\ index' = [index EXCEPT ![c] = i]
  /\ replying' = replying \cup {c}
  /\ fresh' = IF Unused(i) THEN fresh \cup {c} ELSE fresh
  /\ UNCHANGED <<clientVars, removing, packetVars, closes, ended, missed>>

(* fire_PipeConnectCallback has returned, or thrown: the reply is sent.    *)
ServerReply(c) ==
  /\ c \in replying
  /\ replying' = replying \ {c}
  /\ messages' = messages \cup {ConnectRet(c)}
  /\ UNCHANGED <<clientVars, serverEnd, server_endpoints, index, removing,
                 fresh, packetVars, closes, ended, missed>>

(* Early endpoints are kept while a connect waits for its reply; the slip  *)
(* clears them at every reply.                                             *)
SlipEarlyLeft(f, left) == Empty

EarlyLeft(f, left) == IF left = {} THEN Empty ELSE f

(* AsyncConnect_internal1: the early endpoint with the index of the reply  *)
(* becomes the endpoint, unless packets are unreliable; insert() leaves an *)
(* endpoint alone that is already in the table.                            *)
ConnectReturns(c) ==
  LET i == index[c] IN
  /\ ConnectRet(c) \in messages
  /\ call[c] = "pending"
  /\ messages' = messages \ {ConnectRet(c)}
  /\ call' = [call EXCEPT ![c] = "connected"]
  /\ clientEnd' = [clientEnd EXCEPT ![c] = "open"]
  /\ connecting_endpoints' = connecting_endpoints \ {c}
  /\ received' = IF i \in DOMAIN early_endpoints /\ ~Unreliable
                 THEN [received EXCEPT !["client"][c] = early_endpoints[i]]
                 ELSE received
  /\ early_endpoints' = EarlyLeft(Without(early_endpoints, i),
                                  connecting_endpoints')
  /\ pipeendpoints' = IF i \in DOMAIN pipeendpoints THEN pipeendpoints
                      ELSE With(pipeendpoints, i, c)
  /\ UNCHANGED <<serverVars, sends, late, closes, ended, missed>>

(* The request timed out or its connection was lost.                       *)
ConnectFails(c) ==
  /\ call[c] = "pending"
  /\ call' = [call EXCEPT ![c] = "failed"]
  /\ connecting_endpoints' = connecting_endpoints \ {c}
  /\ early_endpoints' = EarlyLeft(early_endpoints, connecting_endpoints')
  /\ UNCHANGED <<pipeendpoints, clientEnd, serverVars, messages, packetVars,
                 closes, ended, missed>>

(* The reply to a request that has failed already.                         *)
DropReply(c) ==
  /\ ConnectRet(c) \in messages
  /\ call[c] # "pending"
  /\ messages' = messages \ {ConnectRet(c)}
  /\ UNCHANGED <<clientVars, serverVars, packetVars, closes, ended, missed>>

-----------------------------------------------------------------------------
(* Packets                                                                 *)

Receive(side, p, c) ==
  received' =
    [received EXCEPT ![side][c] = @ \cup {[pair |-> p.pair, num |-> p.num]}]

(* The end is not asked whether it is closed: the server wants something   *)
(* in its table under the index, the client wants nothing.  AsyncClose of  *)
(* the server holds the lock that sends take.                              *)
Closing(c) ==
  \E r \in removing : r.pair = c /\ r.cause.kind = "Closed"

LateTo(side, c, end) ==
  late' = IF end = "closed"
          THEN [late EXCEPT ![side] =
                  @ \cup {[pair |-> c, num |-> sends'[Peer(side)][c]]}]
          ELSE late

ServerSend(c) ==
  /\ serverEnd[c] # "none" /\ sends["server"][c] < MaxPackets["server"][c]
  /\ index[c] \in DOMAIN server_endpoints /\ ~Closing(c)
  /\ sends' = [sends EXCEPT !["server"][c] = @ + 1]
  /\ messages' =
       messages \cup {Packet("client", index[c], c, sends'["server"][c])}
  /\ LateTo("client", c, serverEnd[c])
  /\ UNCHANGED <<clientVars, serverVars, received, closes, ended, missed>>

ClientSend(c) ==
  /\ clientEnd[c] # "none" /\ ended = {}
  /\ sends["client"][c] < MaxPackets["client"][c]
  /\ sends' = [sends EXCEPT !["client"][c] = @ + 1]
  /\ messages' =
       messages \cup {Packet("server", index[c], c, sends'["client"][c])}
  /\ LateTo("server", c, clientEnd[c])
  /\ UNCHANGED <<clientVars, serverVars, received, closes, ended, missed>>

(* Some connect under way may turn out to have the index.                  *)
MayBecome(i) ==
  \E c \in connecting_endpoints : Requested[c] \in {i, AnyIndex}

(* PipeClientBase::PipePacketReceived.                                     *)
ClientReceive(p) ==
  /\ p \in messages /\ p.kind = "Packet" /\ p.to = "client"
  /\ messages' = messages \ {p}
  /\ \/ /\ p.index \in DOMAIN pipeendpoints
        /\ Receive("client", p, pipeendpoints[p.index])
        /\ UNCHANGED early_endpoints
     \/ /\ p.index \notin DOMAIN pipeendpoints
        /\ p.index \in DOMAIN early_endpoints \/ MayBecome(p.index)
        /\ early_endpoints' =
             With(early_endpoints, p.index,
                  {[pair |-> p.pair, num |-> p.num]} \cup
                  IF p.index \in DOMAIN early_endpoints
                  THEN early_endpoints[p.index] ELSE {})
        /\ UNCHANGED received
     \/ /\ p.index \notin DOMAIN pipeendpoints \cup DOMAIN early_endpoints
        /\ ~MayBecome(p.index)
        /\ UNCHANGED <<early_endpoints, received>>
  /\ UNCHANGED <<call, connecting_endpoints, pipeendpoints, clientEnd,
                 serverVars, sends, late, closes, ended, missed>>

(* PipeServerBase::PipePacketReceived.                                     *)
ServerReceive(p) ==
  /\ p \in messages /\ p.kind = "Packet" /\ p.to = "server"
  /\ messages' = messages \ {p}
  /\ \/ /\ p.index \in DOMAIN server_endpoints
        /\ Receive("server", p, server_endpoints[p.index])
     \/ /\ p.index \notin DOMAIN server_endpoints
        /\ UNCHANGED received
  /\ UNCHANGED <<clientVars, serverVars, sends, late, closes, ended, missed>>

-----------------------------------------------------------------------------
(* Closing                                                                 *)

(* Close may be called again, and on an end the peer has closed: by then   *)
(* its index may be that of other pairs, which it closes.                  *)
Sharing(c) ==
  {d \in Connects \ {c} : serverEnd[d] # "none" /\ index[d] = index[c]}

ClosesAnother(c, end) ==
  fresh' = IF end = "closed" THEN fresh \ Sharing(c) ELSE fresh

(* PipeClientBase::AsyncClose erases whatever has the index.               *)
ClientClose(c) ==
  /\ clientEnd[c] # "none" /\ closes["client"][c] < MaxCloses["client"][c]
  /\ closes' = [closes EXCEPT !["client"][c] = @ + 1]
  /\ clientEnd' = [clientEnd EXCEPT ![c] = "closed"]
  /\ pipeendpoints' = Without(pipeendpoints, index[c])
  /\ messages' = messages \cup
                   IF ended # {} THEN {}
                   ELSE {PipeDisconnectReq(index[c], c, closes'["client"][c])}
  /\ ClosesAnother(c, clientEnd[c])
  /\ UNCHANGED <<call, connecting_endpoints, early_endpoints, serverEnd,
                 server_endpoints, index, replying, removing, packetVars,
                 ended, missed>>

(* PipeDisconnectReq: the endpoint found is closed and its callback runs   *)
(* before it leaves the table; none found is an error for the client.      *)
ServerDisconnect(m) ==
  /\ m \in messages /\ m.kind = "DisconnectReq"
  /\ messages' = messages \ {m}
  /\ \/ /\ m.index \in DOMAIN server_endpoints
        /\ LET c == server_endpoints[m.index] IN
             /\ serverEnd' = [serverEnd EXCEPT ![c] = "closed"]
             /\ removing' = removing \cup {[pair |-> c, cause |-> m]}
     \/ /\ m.index \notin DOMAIN server_endpoints
        /\ UNCHANGED <<serverEnd, removing>>
  /\ UNCHANGED <<clientVars, server_endpoints, index, replying, fresh,
                 packetVars, closes, ended, missed>>

(* PipeServerBase::AsyncClose tells the client first.                      *)
ServerClose(c) ==
  LET m == PipeClosed(index[c], c, closes'["server"][c]) IN
  /\ serverEnd[c] # "none" /\ closes["server"][c] < MaxCloses["server"][c]
  /\ ~Closing(c)
  /\ closes' = [closes EXCEPT !["server"][c] = @ + 1]
  /\ serverEnd' = [serverEnd EXCEPT ![c] = "closed"]
  /\ messages' = messages \cup {m}
  /\ removing' = removing \cup {[pair |-> c, cause |-> m]}
  /\ ClosesAnother(c, serverEnd[c])
  /\ UNCHANGED <<clientVars, server_endpoints, index, replying, packetVars,
                 ended, missed>>

(* DeleteEndpoint, by index.                                               *)
DeleteEndpoint(r) ==
  /\ r \in removing
  /\ removing' = removing \ {r}
  /\ server_endpoints' = Without(server_endpoints, index[r.pair])
  /\ UNCHANGED <<clientVars, serverEnd, index, replying, messages, fresh,
                 packetVars, closes, ended, missed>>

(* PipeClosed at the client.  The slip leaves the endpoint in the table.   *)
SlipClientClosed(m) ==
  /\ m \in messages /\ m.kind = "Closed"
  /\ messages' = messages \ {m}
  /\ UNCHANGED <<clientVars, serverVars, packetVars, closes, ended, missed>>

ClientClosed(m) ==
  /\ m \in messages /\ m.kind = "Closed"
  /\ messages' = messages \ {m}
  /\ \/ /\ m.index \in DOMAIN pipeendpoints
        /\ LET c == pipeendpoints[m.index] IN
             /\ clientEnd' = [clientEnd EXCEPT ![c] = "closed"]
             /\ missed' = missed \cup ({m.pair} \ {c})
        /\ pipeendpoints' = Without(pipeendpoints, m.index)
     \/ /\ m.index \notin DOMAIN pipeendpoints
        /\ missed' = missed \cup {m.pair}
        /\ UNCHANGED <<clientEnd, pipeendpoints>>
  /\ UNCHANGED <<call, connecting_endpoints, early_endpoints, serverVars,
                 packetVars, closes, ended>>

-----------------------------------------------------------------------------
(* The end of the session and of the service                               *)

ClosedIn(end, table) ==
  [c \in Connects |-> IF c \in Range(table) THEN "closed" ELSE end[c]]

(* PipeServerBase::ClientDisconnected, until Shutdown disconnects it.      *)
ClientDisconnected ==
  /\ MayEnd /\ ended = {}
  /\ ended' = ended \cup {"client"}
  /\ serverEnd' = ClosedIn(serverEnd, server_endpoints)
  /\ server_endpoints' = Empty
  /\ UNCHANGED <<clientVars, index, replying, removing, fresh, messages,
                 packetVars, closes, missed>>

(* PipeServerBase::Shutdown.                                               *)
ServerShutdown ==
  /\ MayEnd /\ "service" \notin ended
  /\ ended' = ended \cup {"service"}
  /\ serverEnd' = ClosedIn(serverEnd, server_endpoints)
  /\ server_endpoints' = Empty
  /\ messages' = messages \cup {PipeClosed(i, server_endpoints[i], 0) :
                                i \in DOMAIN server_endpoints}
  /\ UNCHANGED <<clientVars, index, replying, removing, fresh, packetVars,
                 closes, missed>>

(* PipeClientBase::Shutdown leaves the early endpoints alone.              *)
ClientShutdown ==
  /\ ended # {}
  /\ pipeendpoints # Empty
  /\ clientEnd' = ClosedIn(clientEnd, pipeendpoints)
  /\ pipeendpoints' = Empty
  /\ UNCHANGED <<call, connecting_endpoints, early_endpoints, serverVars,
                 messages, packetVars, closes, ended, missed>>

-----------------------------------------------------------------------------

Dispatch(m) ==
  \/ ClientReceive(m) \/ ServerReceive(m)
  \/ ServerDisconnect(m) \/ ClientClosed(m)

ConnectStep(c) ==
  \/ \E i \in Indexes : ServerConnect(c, i)
  \/ ServerReply(c) \/ ConnectReturns(c) \/ DropReply(c)

MemberNext ==
  \/ \E c \in Connects :
       \/ AsyncConnect(c) \/ ConnectStep(c) \/ ConnectFails(c)
       \/ ServerSend(c) \/ ClientSend(c) \/ ClientClose(c) \/ ServerClose(c)
  \/ \E m \in messages : Dispatch(m)
  \/ \E r \in removing : DeleteEndpoint(r)
  \/ ClientDisconnected \/ ServerShutdown \/ ClientShutdown

MemberSpec == MemberInit /\ [][MemberNext]_memberVars

(* Messages that have been read are dispatched, handlers that have begun   *)
(* go on.                                                                  *)
MemberFairness ==
  /\ WF_memberVars(\E m \in messages : Dispatch(m))
  /\ \A c \in Connects : WF_memberVars(ConnectStep(c))
  /\ WF_memberVars(\E r \in removing : DeleteEndpoint(r))

MemberFairSpec == MemberSpec /\ MemberFairness

-----------------------------------------------------------------------------
(* Properties.  An index is given out again as soon as its endpoint has    *)
(* left the table of the server, and messages of the earlier pair may then *)
(* reach the later one; what follows is said of the pairs whose index was  *)
(* not in use any more when they got it, as long as no closed end that had *)
(* it before is closed again.                                              *)

Messages ==
  [kind : {"ConnectReq", "ConnectRet"}, pair : Connects]
  \cup [kind : {"DisconnectReq", "Closed"}, index : Nat, pair : Connects,
        num : Nat]
  \cup [kind : {"Packet"}, to : Sides, index : Nat, pair : Connects, num : Nat]

TablesTypeOK ==
  /\ Range(pipeendpoints) \cup Range(server_endpoints) \subseteq Connects
  /\ \A i \in DOMAIN early_endpoints :
       early_endpoints[i] \subseteq [pair : Connects, num : Nat]

PacketsTypeOK ==
  /\ sends \in [Sides -> [Connects -> Nat]]
  /\ received \in [Sides -> [Connects -> SUBSET [pair : Connects, num : Nat]]]
  /\ late \in [Sides -> SUBSET [pair : Connects, num : Nat]]

EndsTypeOK ==
  /\ call \in [Connects -> {"idle", "pending", "connected", "failed", "threw"}]
  /\ connecting_endpoints \subseteq Connects
  /\ clientEnd \in [Connects -> {"none", "open", "closed"}]
  /\ serverEnd \in [Connects -> {"none", "open", "closed"}]
  /\ index \in [Connects -> Nat]
  /\ replying \cup fresh \cup missed \subseteq Connects
  /\ removing \subseteq [pair : Connects, cause : Messages]
  /\ closes \in [Sides -> [Connects -> Nat]]
  /\ ended \subseteq {"client", "service"}

MemberTypeOK ==
  EndsTypeOK /\ TablesTypeOK /\ PacketsTypeOK /\ messages \subseteq Messages

BothOpen(c) == clientEnd[c] = "open" /\ serverEnd[c] = "open"

(* The two tables agree: an endpoint pair open at both ends is found under *)
(* its index on both sides, so that every later packet reaches its peer.   *)
Paired ==
  /\ MemberTypeOK
  /\ \A c \in fresh :
       BothOpen(c) => /\ index[c] \in DOMAIN pipeendpoints
                      /\ pipeendpoints[index[c]] = c
                      /\ index[c] \in DOMAIN server_endpoints
                      /\ server_endpoints[index[c]] = c

(* The client could foresee the index: it asked for any, or got the one it *)
(* asked for.                                                              *)
Foreseen(c) == Requested[c] \in {AnyIndex, index[c]}

(* No packet of a reliable pipe is lost, also when it overtakes the reply  *)
(* to the connect: it is still under way or has been received.             *)
NoPacketLost ==
  \A c \in fresh :
    BothOpen(c) =>
      /\ ~Unreliable /\ Foreseen(c) =>
           \A n \in 1 .. sends["server"][c] :
             \/ Packet("client", index[c], c, n) \in messages
             \/ [pair |-> c, num |-> n] \in received["client"][c]
      /\ \A n \in 1 .. sends["client"][c] :
             \/ Packet("server", index[c], c, n) \in messages
             \/ [pair |-> c, num |-> n] \in received["server"][c]

(* An endpoint gets no packet of another pair, except one that an end sent *)
(* when it was closed already, which nothing in the code refuses.          *)
OwnPackets ==
  \A c \in fresh :
    BothOpen(c) =>
      \A s \in Sides : \A p \in received[s][c] \ late[s] : p.pair = c

(* Closing one end closes the other, unless the session ends or the        *)
(* PipeClosed did not find its endpoint at the client.                     *)
HalfOpen(c) ==
  c \in fresh /\ {clientEnd[c], serverEnd[c]} = {"open", "closed"}

CloseReachesPeer ==
  []<>(ended # {} \/ \A c \in Connects \ missed : ~HalfOpen(c))

-----------------------------------------------------------------------------
(* The inductive invariant behind the three.                               *)

(* How far a pair has come, at both ends.                                  *)
Connected(c) ==
  /\ serverEnd[c] = "none" =>
       /\ clientEnd[c] = "none" /\ c \notin fresh
       /\ c \notin replying /\ ConnectRet(c) \notin messages
       /\ \A m \in Indexed : m.pair # c
       /\ \A r \in removing : r.pair # c
       /\ \A s \in Sides : sends[s][c] = 0 /\ received[s][c] = {}
  /\ ConnectReq(c) \in messages => serverEnd[c] = "none" /\ call[c] # "idle"
  /\ call[c] = "idle" => serverEnd[c] = "none"
  /\ clientEnd[c] # "none" <=> call[c] = "connected"
  /\ call[c] = "pending" => c \in connecting_endpoints
  /\ clientEnd[c] = "none" => received["client"][c] = {}

(* The tables and the messages name a pair by the index it has.            *)
IndexesMatch ==
  /\ \A i \in DOMAIN pipeendpoints :
       index[pipeendpoints[i]] = i /\ clientEnd[pipeendpoints[i]] # "none"
  /\ \A i \in DOMAIN server_endpoints :
       /\ index[server_endpoints[i]] = i
       /\ serverEnd[server_endpoints[i]] # "none"
  /\ \A m \in Indexed : m.index = index[m.pair]

(* A pair has its index to itself.                                         *)
OwnIndex(c) ==
  LET i == index[c] IN
  /\ i \in DOMAIN server_endpoints /\ server_endpoints[i] = c
  /\ clientEnd[c] = "open" => i \in DOMAIN pipeendpoints
  /\ i \in DOMAIN pipeendpoints => pipeendpoints[i] = c
  /\ \A d \in Connects \ {c} :
       serverEnd[d] # "none" /\ index[d] = i => GaveUp(d)
  /\ \A r \in removing : index[r.pair] # i
  /\ \A m \in Indexed :
       m.index = i =>
         /\ m.kind # "Closed"
         /\ m.kind = "DisconnectReq" => m.pair = c /\ clientEnd[c] = "closed"
         /\ m.kind = "Packet" =>
              m.pair = c \/ [pair |-> m.pair, num |-> m.num] \in late[m.to]
  /\ i \in DOMAIN early_endpoints =>
       \A p \in early_endpoints[i] : p.pair = c \/ p \in late["client"]
  /\ \A s \in Sides : \A p \in received[s][c] : p.pair = c \/ p \in late[s]

(* Its packets are under way, kept early, or received.                     *)
KeptForClient(c, n) ==
  \/ Packet("client", index[c], c, n) \in messages
  \/ [pair |-> c, num |-> n] \in received["client"][c]
  \/ /\ clientEnd[c] = "none" /\ index[c] \in DOMAIN early_endpoints
     /\ [pair |-> c, num |-> n] \in early_endpoints[index[c]]

KeptForServer(c, n) ==
  \/ Packet("server", index[c], c, n) \in messages
  \/ [pair |-> c, num |-> n] \in received["server"][c]

PacketsKept(c) ==
  /\ ~Unreliable /\ Foreseen(c)
     /\ (call[c] = "pending" \/ clientEnd[c] = "open") =>
        \A n \in 1 .. sends["server"][c] : KeptForClient(c, n)
  /\ \A n \in 1 .. sends["client"][c] : KeptForServer(c, n)

MemberInv ==
  /\ MemberTypeOK /\ IndexesMatch
  /\ \A c \in Connects : Connected(c)
  /\ \A c \in fresh : serverEnd[c] = "open" => OwnIndex(c) /\ PacketsKept(c)
=============================================================================
