-------------------------------- MODULE Wire --------------------------------
(***************************************************************************)
(* The two ends of a wire member for one client (WireConnectionBase,       *)
(* WireClientBase and WireServerBase in WireMember.cpp), and the queue of  *)
(* the transport, where a newer value takes the place of an older one.     *)
(*                                                                         *)
(* Each side has one current connection and no index: a message carries    *)
(* the endpoint only and finds whatever is current.  Client objects are    *)
(* known by the AsyncConnect that made them, server objects by the         *)
(* WireConnectReq that made them.  Messages are dispatched by a thread     *)
(* pool, in any order.                                                     *)
(***************************************************************************)
EXTENDS Integers, FiniteSets

CONSTANTS
  Connects,      \* calls of AsyncConnect_internal
  MayIgnore,     \* ends whose user may call SetIgnoreInValue
  MaxCloses,     \* bound: calls of Close on each object of each side
  MayEnd,        \* the session and the service may end
  MaxValues,     \* bound: values set on each object of each side
  MaxClock,      \* bound: readings of the wall clock, which may be set back
  None

ASSUME ConstantsAssumption ==
  /\ None \notin Connects
  /\ MayEnd \in BOOLEAN
  /\ {MaxValues, MaxCloses} \subseteq
       [{"client", "server"} -> [Connects -> Nat]]
  /\ MaxClock \in Nat \ {0}

VARIABLES
  call,        \* each AsyncConnect
  connection,  \* client: the current object
  clientEnd,   \* client: the objects
  server,      \* server: the current object, the entry in connections
  serverEnd,   \* server: the objects
  replying,    \* server: connect callbacks under way
  closing,     \* each RemoteClose or AsyncClose that is still to clear the
               \* object, with the message that caused it or that it sent
  closes,      \* calls of Close on each object
  ignoring,    \* ends that ignore what they receive
  outval,      \* the last value set on an object, with its time
  inval,       \* the value an object has, with its time and its sender
  network,
  ended,       \* what has ended: session, service, or the client by a crash
  owner,       \* history: the connect that has the wire for itself
  dropped      \* history: last value of an object that the other side
               \* dropped, unconnected or ignoring it

connectVars == <<call, connection, clientEnd>>
serverVars == <<server, serverEnd, replying>>
closeVars == <<closing, closes>>
valueVars == <<ignoring, outval, inval, dropped>>
vars == <<connectVars, serverVars, closeVars, valueVars, network, ended, owner>>

Sides == {"client", "server"}

ConnectReq(c) == [kind |-> "ConnectReq", object |-> c]
ConnectRet(c) == [kind |-> "ConnectRet", object |-> c]
WireDisconnectReq(c, n) == [kind |-> "DisconnectReq", object |-> c, num |-> n]
WireClosed(o, n) == [kind |-> "Closed", object |-> o, num |-> n]
End(s, o) == [side |-> s, object |-> o]
Packet(side, o, v) ==
  [kind |-> "Packet", from |-> side, object |-> o, value |-> v]

Other(side) == IF side = "client" THEN "server" ELSE "client"

NotSet == [val |-> 0, time |-> 0]

Init ==
  /\ call = [c \in Connects |-> "idle"]
  /\ connection = None /\ server = None
  /\ clientEnd = [c \in Connects |-> "none"]
  /\ serverEnd = [c \in Connects |-> "none"]
  /\ replying = {} /\ network = {} /\ ended = {} /\ ignoring = {}
  /\ closing = {} /\ closes = [s \in Sides |-> [c \in Connects |-> 0]]
  /\ outval = [s \in Sides |-> [c \in Connects |-> NotSet]]
  /\ inval = [s \in Sides |-> [c \in Connects |->
                [from |-> None, value |-> NotSet]]]
  /\ owner = None
  /\ dropped = [s \in Sides |-> [c \in Connects |-> 0]]

-----------------------------------------------------------------------------
(* Connecting                                                              *)

Pending == {c \in Connects : call[c] = "pending"}

(* Nothing of an earlier connection is left.                               *)
Quiet ==
  /\ Pending \cup replying \cup closing \cup network = {}
  /\ connection = None /\ server = None

(* AsyncConnect_internal.  It throws when there is a connection, or when   *)
(* AsyncProcessRequest does, and clears the connection either way.         *)
AsyncConnect(c) ==
  /\ call[c] = "idle"
  /\ owner' = IF Quiet THEN c ELSE None
  /\ \/ /\ connection = None /\ ended = {}
        /\ call' = [call EXCEPT ![c] = "pending"]
        /\ network' = network \cup {ConnectReq(c)}
        /\ UNCHANGED connection
     \/ /\ connection # None \/ ended # {}
        /\ call' = [call EXCEPT ![c] = "threw"]
        /\ connection' = None
        /\ UNCHANGED network
  /\ UNCHANGED <<clientEnd, serverVars, closeVars, valueVars, ended>>

(* WireConnectReq: a connection that is there is used again.               *)
ServerConnect(c) ==
  /\ ConnectReq(c) \in network
  /\ network' = network \ {ConnectReq(c)}
  /\ server' = IF server = None THEN c ELSE server
  /\ serverEnd' = IF server = None THEN [serverEnd EXCEPT ![c] = "open"]
                                   ELSE serverEnd
  /\ replying' = replying \cup {c}
  /\ UNCHANGED <<connectVars, closeVars, valueVars, ended, owner>>

(* fire_WireConnectCallback has returned and the reply is sent, or it has  *)
(* thrown: the error is to the client as a timeout, the entry stays.       *)
ServerReply(c) ==
  /\ c \in replying
  /\ replying' = replying \ {c}
  /\ network' \in {network \cup {ConnectRet(c)}, network}
  /\ UNCHANGED <<connectVars, server, serverEnd, closeVars, valueVars,
                 ended, owner>>

(* AsyncConnect_internal1, with the reply.                                 *)
ConnectReturns(c) ==
  /\ ConnectRet(c) \in network
  /\ network' = network \ {ConnectRet(c)}
  /\ \/ /\ call[c] = "pending" /\ connection = None
        /\ call' = [call EXCEPT ![c] = "connected"]
        /\ clientEnd' = [clientEnd EXCEPT ![c] = "open"]
        /\ connection' = c
     \/ /\ call[c] = "pending" /\ connection # None
        /\ call' = [call EXCEPT ![c] = "failed"]
        /\ UNCHANGED <<clientEnd, connection>>
     \/ call[c] # "pending" /\ UNCHANGED connectVars
  /\ UNCHANGED <<serverVars, closeVars, valueVars, ended, owner>>

(* AsyncConnect_internal1, with an error or after the request timed out.   *)
ConnectFails(c) ==
  /\ call[c] = "pending"
  /\ call' = [call EXCEPT ![c] = "failed"]
  /\ UNCHANGED <<connection, clientEnd, serverVars, closeVars, valueVars,
                 network, ended, owner>>

-----------------------------------------------------------------------------
(* Values                                                                  *)

(* The time of a value is later than that of the one before.  The slip     *)
(* takes the clock as it is.                                               *)
SlipStamp(now, last) == now

Stamp(now, last) == IF now <= last THEN last + 1 ELSE now

(* SetOutValueBase, all under sendlock.  Nothing asks whether the object   *)
(* has been closed.                                                        *)
SetOutValue(side, o) ==
  /\ outval[side][o].val < MaxValues[side][o]
  /\ \E now \in 1 .. MaxClock :
       LET last == outval[side][o]
           v == [val |-> last.val + 1, time |-> Stamp(now, last.time)]
       IN /\ outval' = [outval EXCEPT ![side][o] = v]
          /\ network' = network \cup {Packet(side, o, v)}
  /\ UNCHANGED <<connectVars, serverVars, closeVars, ignoring, inval, dropped,
                 ended>>

ClientSend(o) ==
  /\ clientEnd[o] # "none" /\ ended = {}
  /\ SetOutValue("client", o)
  /\ owner' = IF o = owner THEN owner ELSE None

(* WireServerBase::SendWirePacket throws when the client has no entry.     *)
ServerSend(o) ==
  /\ serverEnd[o] # "none" /\ server # None
  /\ SetOutValue("server", o)
  /\ owner' = IF o = server THEN owner ELSE None

(* AsyncSendMessage: a packet that waits in the queue is replaced by a     *)
(* newer one of the same wire.                                             *)
ReplacePacket(p) ==
  /\ \E q \in network : /\ q.kind = "Packet" /\ q.from = p.from
                        /\ q.object = p.object /\ q.value.val > p.value.val
  /\ network' = network \ {p}
  /\ UNCHANGED <<connectVars, serverVars, closeVars, valueVars, ended, owner>>

(* A value is taken when it is the first or the newest.  The slip takes    *)
(* what comes.                                                             *)
SlipNewer(v, last) == TRUE

Newer(v, last) == last.time = 0 \/ v.time > last.time

SetIgnoreInValue(side, o) ==
  /\ End(side, o) \in MayIgnore
  /\ (IF side = "client" THEN clientEnd ELSE serverEnd)[o] # "none"
  /\ ignoring' \in {ignoring \cup {End(side, o)}, ignoring \ {End(side, o)}}
  /\ UNCHANGED <<connectVars, serverVars, closeVars, outval, inval, dropped,
                 network, ended, owner>>

Drop(p) ==
  /\ dropped' = [dropped EXCEPT ![p.from][p.object] =
                   IF p.value.val > @ THEN p.value.val ELSE @]
  /\ UNCHANGED inval

(* WireConnectionBase::WirePacketReceived.                                 *)
Accept(side, o, p) ==
  \/ /\ End(side, o) \notin ignoring
     /\ inval' = IF Newer(p.value, inval[side][o].value)
                 THEN [inval EXCEPT ![side][o] =
                         [from |-> p.object, value |-> p.value]]
                 ELSE inval
     /\ UNCHANGED dropped
  \/ End(side, o) \in ignoring /\ Drop(p)

ClientReceive(p) ==
  /\ p.from = "server"
  /\ network' = network \ {p}
  /\ \/ connection # None /\ Accept("client", connection, p)
     \/ connection = None /\ Drop(p)
  /\ UNCHANGED <<connectVars, serverVars, closeVars, ignoring, outval, ended,
                 owner>>

ServerReceive(p) ==
  /\ p.from = "client"
  /\ network' = network \ {p}
  /\ \/ server # None /\ Accept("server", server, p)
     \/ server = None /\ Drop(p)
  /\ UNCHANGED <<connectVars, serverVars, closeVars, ignoring, outval, ended,
                 owner>>

-----------------------------------------------------------------------------
(* Closing.  An object is marked closed first, its callback runs, and then *)
(* the current object is cleared, whichever that is by now.  An object may *)
(* be closed again: nothing asks whether it has been.                      *)

Closing(s, o, m) == [side |-> s, object |-> o, cause |-> m]

CountClose(s, o) ==
  /\ closes[s][o] < MaxCloses[s][o]
  /\ closes' = [closes EXCEPT ![s][o] = @ + 1]
  /\ owner' = IF o = owner THEN owner ELSE None

(* WireClientBase::AsyncClose.  AsyncProcessRequest throws once the        *)
(* session has ended.                                                      *)
ClientClose(c) ==
  /\ clientEnd[c] # "none"
  /\ CountClose("client", c)
  /\ call' = [call EXCEPT ![c] = "closed"]
  /\ clientEnd' = [clientEnd EXCEPT ![c] = "closed"]
  /\ \/ /\ ended = {}
        /\ network' = network \cup {WireDisconnectReq(c, closes'["client"][c])}
        /\ connection' = None
     \/ ended # {} /\ UNCHANGED <<network, connection>>
  /\ UNCHANGED <<serverVars, closing, valueVars, ended>>

(* WireDisconnectReq.  The slip forgets to close the object.                *)
SlipServerDisconnect(m) ==
  /\ network' = network \ {m}
  /\ server' = None
  /\ UNCHANGED <<connectVars, serverEnd, replying, closeVars, valueVars,
                 ended, owner>>

ServerDisconnect(m) ==
  /\ network' = network \ {m}
  /\ \/ /\ server # None
        /\ serverEnd' = [serverEnd EXCEPT ![server] = "closed"]
        /\ closing' = closing \cup {Closing("server", server, m)}
     \/ server = None /\ UNCHANGED <<serverEnd, closing>>
  /\ UNCHANGED <<connectVars, server, replying, closes, valueVars, ended,
                 owner>>

(* WireServerBase::AsyncClose tells the client first, all in outval_lock   *)
(* of the object.                                                          *)
ServerClose(o) ==
  LET m == WireClosed(o, closes'["server"][o]) IN
  /\ serverEnd[o] # "none"
  /\ \A r \in closing : ~(r.object = o /\ r.cause.kind = "Closed"
                           /\ r.side = "server")
  /\ CountClose("server", o)
  /\ serverEnd' = [serverEnd EXCEPT ![o] = "closed"]
  /\ closing' = closing \cup {Closing("server", o, m)}
  /\ network' = network \cup {m}
  /\ UNCHANGED <<connectVars, server, replying, valueVars, ended>>

(* WireClosed at the client.  With no connection c->RemoteClose() is a     *)
(* call through a null pointer.                                            *)
ClientClosed(m) ==
  /\ network' = network \ {m}
  /\ \/ /\ connection # None
        /\ clientEnd' = [clientEnd EXCEPT ![connection] = "closed"]
        /\ closing' = closing \cup {Closing("client", connection, m)}
        /\ connection' = None
        /\ UNCHANGED ended
     \/ /\ connection = None
        /\ ended' = ended \cup {"client"}
        /\ UNCHANGED <<clientEnd, closing, connection>>
  /\ UNCHANGED <<call, serverVars, closes, valueVars, owner>>

(* The end of RemoteClose and of WireServerBase::AsyncClose.  The slip     *)
(* leaves the object current.                                              *)
SlipEndClose(r) ==
  /\ closing' = closing \ {r}
  /\ UNCHANGED <<server, connection>>
  /\ UNCHANGED <<call, clientEnd, serverEnd, replying, closes, valueVars,
                 network, ended, owner>>

EndClose(r) ==
  /\ closing' = closing \ {r}
  /\ \/ r.side = "server" /\ server' = None /\ UNCHANGED connection
     \/ r.side = "client" /\ connection' = None /\ UNCHANGED server
  /\ UNCHANGED <<call, clientEnd, serverEnd, replying, closes, valueVars,
                 network, ended, owner>>

-----------------------------------------------------------------------------
(* The end of the session and of the service                               *)

(* WireServerBase::ClientDisconnected does not mark the object closed.     *)
ClientDisconnected ==
  /\ MayEnd \/ "client" \in ended
  /\ "session" \notin ended
  /\ ended' = ended \cup {"session"}
  /\ server' = None
  /\ UNCHANGED <<connectVars, serverEnd, replying, closeVars, valueVars,
                 network, owner>>

ServerShutdown ==
  /\ MayEnd /\ "service" \notin ended
  /\ ended' = ended \cup {"service"}
  /\ \/ /\ server # None
        /\ serverEnd' = [serverEnd EXCEPT ![server] = "closed"]
        /\ network' = network \cup {WireClosed(server, 0)}
     \/ server = None /\ UNCHANGED <<serverEnd, network>>
  /\ server' = None
  /\ UNCHANGED <<connectVars, replying, closeVars, valueVars, owner>>

(* WireClientBase::Shutdown leaves the connection where it is.             *)
ClientShutdown ==
  /\ ended # {} /\ connection # None
  /\ clientEnd[connection] = "open"
  /\ clientEnd' = [clientEnd EXCEPT ![connection] = "closed"]
  /\ UNCHANGED <<call, connection, serverVars, closeVars, valueVars, network,
                 ended, owner>>

-----------------------------------------------------------------------------

ClientDispatch(m) ==
  \/ m.kind = "Packet" /\ ClientReceive(m)
  \/ m.kind = "Closed" /\ ClientClosed(m)
  \/ m.kind = "ConnectRet" /\ ConnectReturns(m.object)

ServerDispatch(m) ==
  \/ m.kind = "Packet" /\ ServerReceive(m)
  \/ m.kind = "DisconnectReq" /\ ServerDisconnect(m)
  \/ m.kind = "ConnectReq" /\ ServerConnect(m.object)

EndCloses(side) == \E r \in closing : r.side = side /\ EndClose(r)

(* The client does nothing any more once it has crashed.                   *)
ClientStep ==
  /\ "client" \notin ended
  /\ \/ \E c \in Connects :
          \/ AsyncConnect(c) \/ ConnectFails(c)
          \/ ClientSend(c) \/ ClientClose(c) \/ SetIgnoreInValue("client", c)
     \/ \E m \in network : ClientDispatch(m)
     \/ EndCloses("client")
     \/ ClientShutdown

ServerStep ==
  \/ \E c \in Connects :
       \/ ServerReply(c) \/ ServerSend(c) \/ ServerClose(c)
       \/ SetIgnoreInValue("server", c)
  \/ \E m \in network : ServerDispatch(m)
  \/ EndCloses("server")
  \/ ClientDisconnected \/ ServerShutdown

Next ==
  \/ ClientStep
  \/ ServerStep
  \/ \E p \in network : p.kind = "Packet" /\ ReplacePacket(p)

Spec == Init /\ [][Next]_vars

(* Messages that have been read are dispatched, and a close that has begun *)
(* goes on.                                                                *)
Fairness ==
  /\ WF_vars("client" \notin ended /\ \E m \in network : ClientDispatch(m))
  /\ WF_vars(\E m \in network : ServerDispatch(m))
  /\ WF_vars("client" \notin ended /\ EndCloses("client"))
  /\ WF_vars(EndCloses("server"))

FairSpec == Spec /\ Fairness

-----------------------------------------------------------------------------
(* Properties.  With no index, a message of an earlier connection, a value *)
(* set on an old object or a close of it reaches the connection of today;  *)
(* what follows is said of the connect that has had the wire for itself.   *)

Messages ==
  [kind : {"ConnectReq", "ConnectRet"}, object : Connects]
  \cup [kind : {"DisconnectReq", "Closed"}, object : Connects, num : Nat]
  \cup [kind : {"Packet"}, from : Sides, object : Connects,
        value : [val : Nat, time : Nat]]

TypeOK ==
  /\ call \in [Connects -> {"idle", "pending", "connected", "failed",
                            "threw", "closed"}]
  /\ {connection, server, owner} \subseteq Connects \cup {None}
  /\ clientEnd \in [Connects -> {"none", "open", "closed"}]
  /\ serverEnd \in [Connects -> {"none", "open", "closed"}]
  /\ replying \subseteq Connects
  /\ outval \in [Sides -> [Connects -> [val : Nat, time : Nat]]]
  /\ inval \in [Sides -> [Connects ->
       [from : Connects \cup {None}, value : [val : Nat, time : Nat]]]]
  /\ dropped \in [Sides -> [Connects -> Nat]]
  /\ closes \in [Sides -> [Connects -> Nat]]
  /\ closing \subseteq [side : Sides, object : Connects, cause : Messages]
  /\ ignoring \subseteq [side : Sides, object : Connects]
  /\ ended \subseteq {"client", "session", "service"}

BothOpen(c) ==
  /\ c = owner /\ ended = {}
  /\ clientEnd[c] = "open" /\ serverEnd[c] = "open"

(* A closed object is not current any more, on the server once its close   *)
(* is over: no value and no connect reaches it then.                       *)
CurrentIsOpen ==
  /\ TypeOK
  /\ connection # None /\ ended = {} => clientEnd[connection] = "open"
  /\ server # None =>
       \/ serverEnd[server] = "open"
       \/ \E r \in closing : r.side = "server" /\ r.object = server

(* The peer has the last value, or its packet is under way.                *)
LastReaches(s, c) ==
  LET last == outval[s][c] IN
    \/ last = NotSet
    \/ Packet(s, c, last) \in network
    \/ inval[Other(s)][c].value = last
    \/ dropped[s][c] = last.val

(* The last value set on an end is the InValue of its peer or its packet   *)
(* is still under way, unless it was just this value that the peer dropped:*)
(* because it came before the reply to the connect, or while               *)
(* SetIgnoreInValue told the end to ignore what comes.  Never else is the  *)
(* peer left with an older one.                                            *)
Newest ==
  \A c \in Connects, s \in Sides : BothOpen(c) => LastReaches(s, c)

(* WireMember.h:622: "only the most recent value is of interest, and any   *)
(* older values will be dropped": an end sees values that were set, and    *)
(* none again or after a later one of the same sender, whatever the clock  *)
(* of the sender reads and whichever packets overtake each other.          *)
Register == INSTANCE WireRegister
  WITH Objects <- Connects,
       set <- [s \in Sides |-> [o \in Connects |-> outval[s][o].val]],
       seen <- [s \in Sides |-> [o \in Connects |->
                 [from |-> inval[s][o].from, val |-> inval[s][o].value.val]]]

ImplementsRegister == Register!Spec

(* Closing one end of the connection that has the wire for itself closes   *)
(* the other end, unless the session ends.                                 *)
HalfOpen(c) ==
  /\ c = owner /\ ended = {}
  /\ clientEnd[c] # "none"
  /\ clientEnd[c] # serverEnd[c]

CloseReachesPeer == []<>(\A c \in Connects : ~HalfOpen(c))

-----------------------------------------------------------------------------
(* The inductive invariant.                                                *)

(* The values set on an object that its peer has, or may still get.        *)
Known(s, o) ==
  {p.value : p \in {m \in network : /\ m.kind = "Packet"
                                    /\ m.from = s /\ m.object = o}}
  \cup {inval[Other(s)][c].value :
          c \in {d \in Connects : inval[Other(s)][d].from = o}}

(* The times of these values are in the order in which they were set.      *)
InOrder(s, o) ==
  LET last == outval[s][o] IN
  /\ \A v \in Known(s, o) :
       v.time > 0 /\ v.val > 0 /\ v.time <= last.time /\ v.val <= last.val
  /\ \A v, w \in Known(s, o) \cup {last} : v.time <= w.time <=> v.val <= w.val

(* An object has nothing before it is connected.                           *)
NoValues(s, c) ==
  outval[s][c] = NotSet /\ inval[s][c] = [from |-> None, value |-> NotSet]

Untouched(c) ==
  /\ clientEnd[c] = "none" /\ serverEnd[c] = "none"
  /\ c \notin replying /\ ConnectRet(c) \notin network

ObjectInv(c) ==
  /\ call[c] = "idle" => Untouched(c) /\ ConnectReq(c) \notin network
  /\ ConnectReq(c) \in network => Untouched(c)
  /\ clientEnd[c] # "none" <=> call[c] \in {"connected", "closed"}
  /\ connection = c => clientEnd[c] # "none"
  /\ server = c => serverEnd[c] # "none"
  /\ clientEnd[c] = "none" => NoValues("client", c)
  /\ serverEnd[c] = "none" => NoValues("server", c)
  /\ \A s \in Sides :
       /\ dropped[s][c] <= outval[s][c].val
       /\ inval[s][c].from = None => inval[s][c].value = NotSet

(* A connect that has the wire for itself: everything there is is of its   *)
(* connection, and an end that is open is current.                         *)
Alone(c) ==
  /\ \A m \in network :
       /\ m.object = c
       /\ m.kind = "DisconnectReq" => clientEnd[c] = "closed"
       /\ m.kind = "Closed" => serverEnd[c] = "closed"
  /\ \A r \in closing :
       /\ r.object = c
       /\ r.side = "client" => clientEnd[c] = "closed"
       /\ r.side = "server" => serverEnd[c] = "closed"
  /\ replying \subseteq {c}
  /\ {connection, server} \subseteq {c, None}
  /\ clientEnd[c] = "open" => connection = c
  /\ serverEnd[c] = "open" => server = c
  /\ \A s \in Sides : inval[s][c].from \in {c, None}

LastKept(c) ==
  serverEnd[c] = "open" /\ clientEnd[c] # "closed" =>
    \A s \in Sides : LastReaches(s, c)

IInv ==
  /\ CurrentIsOpen
  /\ network \subseteq Messages
  /\ \A s \in Sides, o \in Connects : InOrder(s, o)
  /\ \A c \in Connects : ObjectInv(c)
  /\ \A c \in Connects : c = owner /\ ended = {} => Alone(c) /\ LastKept(c)
=============================================================================
