---------------------------- MODULE Subscription ----------------------------
(***************************************************************************)
(* ServiceSubscription (Subscription.cpp): the connections a subscription  *)
(* makes to the services of one node, found by their type or given by a    *)
(* URL; retries, claims, and the events that connections send when they    *)
(* are lost or closed.  An event says which connection it is of, and may   *)
(* come when the entry of its service has another one.                     *)
(*                                                                         *)
(* The connector takes a connection first, then it attaches the listener   *)
(* of the subscription, and then it calls ClientConnected, while other     *)
(* threads may end the connection.                                         *)
(*                                                                         *)
(* Left out: SoftClose and UpdateServiceByType, after which a service can  *)
(* have two entries.                                                       *)
(***************************************************************************)
EXTENDS Integers, FiniteSets

CONSTANTS
  MaxService,  \* the services are 1 .. MaxService, in the order announced
  MaxErrors,   \* the 25 errors after which a service found by type is given up
  MaxUrl,      \* bound: calls of UpdateServiceURL
  MaxConns,    \* bound: connections made to each service
  None

Services == 1 .. MaxService
Conns == UNION {[service : {s}, num : 1 .. MaxConns[s]] : s \in Services}

ASSUME ConstantsAssumption ==
  /\ MaxService \in Nat \ {0}
  /\ MaxErrors \in Nat /\ MaxUrl \in Nat
  /\ MaxConns \in [Services -> Nat]
  /\ None \notin Nat \cup Conns

VARIABLES
  active,
  use_service_url,  \* given by a URL, and not found by type
  url,              \* the version of the URL
  clients,          \* services that have an entry in the map
  client,           \* the connection an entry has
  attempt,          \* AsyncConnectService under way, with the URL it was given
  candidate,        \* the connection it has made, that is no client yet
  retry_timer,      \* entries whose retry timer runs
  error_count,
  claimed,
  outdated,         \* entries without a node update for 65 s
  status,           \* of each connection: none, up, lost, left or closed
  heard,            \* connections that have the listener of the subscription
  events,           \* calls of ClientEvent to come
  late,             \* history: connections that became a client after Close
  missed            \* history: entries whose client had been closed, and the
                    \* subscription told of it or not, before it was set

subscriptionVars == <<active, use_service_url, url>>
connectVars == <<attempt, candidate, retry_timer, error_count>>
entryVars == <<clients, client, connectVars, claimed, outdated>>
connVars == <<status, heard, events>>
historyVars == <<late, missed>>
vars == <<subscriptionVars, entryVars, connVars, historyVars>>

(* InitServiceURL makes the entry of the one service; when                 *)
(* AsyncConnectService throws, nothing holds it and it is gone.            *)
Init ==
  /\ active = TRUE /\ url = 0
  /\ use_service_url \in BOOLEAN
  /\ clients \in IF use_service_url THEN {{}, {1}} ELSE {{}}
  /\ attempt = [s \in Services |-> IF s \in clients THEN 0 ELSE None]
  /\ candidate = [s \in Services |-> None]
  /\ client = [s \in Services |-> None]
  /\ error_count = [s \in Services |-> 0]
  /\ retry_timer = {} /\ claimed = {} /\ outdated = {}
  /\ status = [c \in Conns |-> "none"]
  /\ heard = {} /\ events = {} /\ late = {} /\ missed = {}

-----------------------------------------------------------------------------
(* Connecting                                                              *)

(* Given up after 25 errors.                                               *)
GivenUp(s) == error_count[s] > MaxErrors /\ ~use_service_url

(* ConnectRetry counts the error and sets the timer; the one before has    *)
(* fired.                                                                  *)
ConnectRetry(s) ==
  IF GivenUp(s)
  THEN /\ retry_timer' = retry_timer \ {s}
       /\ UNCHANGED error_count
  ELSE /\ error_count' = [error_count EXCEPT ![s] =
                            IF @ > MaxErrors THEN @ ELSE @ + 1]
       /\ retry_timer' = retry_timer \cup {s}

(* The services of a node update that NodeUpdated gets to: it returns at   *)
(* the first one that has a client.                                        *)
Reached(listed) ==
  {s \in listed : \A t \in listed \cap clients :
                    t <= s => client[t] = None}

(* Those without an entry.  The slip does not look for one.                *)
SlipUnknown(listed) == Reached(listed)

Unknown(listed) == Reached(listed) \ clients

(* NodeUpdated, with the services announced and those AsyncConnectService  *)
(* does not throw for.  A timer is set again for an entry that has one.    *)
NodeUpdated(listed, ok) ==
  LET new == Unknown(listed) \cap ok IN
  /\ active /\ ~use_service_url
  /\ clients' = clients \cup new
  /\ attempt' = [s \in Services |-> IF s \in new THEN url ELSE attempt[s]]
  /\ error_count' = [s \in Services |->
                       IF s \in new THEN 0 ELSE error_count[s]]
  /\ claimed' = claimed \ new
  /\ outdated' = outdated \ Reached(listed)
  /\ UNCHANGED <<subscriptionVars, client, candidate, retry_timer, connVars,
                 historyVars>>

(* A connection of an attempt is up and the connector takes it: the        *)
(* attempt does not fail any more.                                         *)
ConnectorTakes(c) ==
  LET s == c.service IN
  /\ attempt[s] # None /\ candidate[s] = None
  /\ status[c] = "none"
  /\ \A n \in 1 .. c.num - 1 : status[[c EXCEPT !.num = n]] # "none"
  /\ status' = [status EXCEPT ![c] = "up"]
  /\ candidate' = [candidate EXCEPT ![s] = c]
  /\ UNCHANGED <<subscriptionVars, clients, client, attempt, retry_timer,
                 error_count, claimed, outdated, heard, events, historyVars>>

AttachListener(s) ==
  /\ candidate[s] # None /\ candidate[s] \notin heard
  /\ heard' = heard \cup {candidate[s]}
  /\ UNCHANGED <<subscriptionVars, entryVars, status, events, historyVars>>

Event(c, evt) == [conn |-> c, evt |-> evt]

(* Closed, and no ClientClosed is to come.                                 *)
Over(c) ==
  status[c] \in {"left", "closed"} /\ Event(c, "ClientClosed") \notin events

(* ClientConnected with a client.  It does not ask whether the             *)
(* subscription or the connection has been closed.                         *)
ClientConnected(s) ==
  LET c == candidate[s] IN
  /\ c # None /\ c \in heard
  /\ client' = [client EXCEPT ![s] = c]
  /\ attempt' = [attempt EXCEPT ![s] = None]
  /\ candidate' = [candidate EXCEPT ![s] = None]
  /\ error_count' = [error_count EXCEPT ![s] = 0]
  /\ late' = IF active THEN late ELSE late \cup {c}
  /\ missed' = IF Over(c) THEN missed \cup {s} ELSE missed
  /\ UNCHANGED <<subscriptionVars, clients, retry_timer, claimed, outdated,
                 connVars>>

(* ClientConnected with an error.                                          *)
ClientConnectFailed(s) ==
  /\ attempt[s] # None /\ candidate[s] = None
  /\ attempt' = [attempt EXCEPT ![s] = None]
  /\ ConnectRetry(s)
  /\ UNCHANGED <<subscriptionVars, clients, client, candidate, claimed,
                 outdated, connVars, historyVars>>

(* A listener holds its entry.  When that is not in the map any more, the  *)
(* events it is called with change nothing that is.                        *)
Forget(s) ==
  /\ status' = [c \in Conns |-> IF c.service = s /\ status[c] = "lost"
                                 THEN "left" ELSE status[c]]
  /\ events' = {ev \in events : ev.conn.service # s}
  /\ UNCHANGED heard

(* ConnectRetry2, when the timer fires.                                    *)
ConnectRetry2(s) ==
  /\ s \in retry_timer
  /\ \/ /\ ~active
        /\ retry_timer' = retry_timer \ {s}
        /\ UNCHANGED <<clients, attempt, error_count, connVars>>
     \/ /\ active /\ ~use_service_url /\ s \in outdated
        /\ retry_timer' = retry_timer \ {s}
        /\ clients' = clients \ {s}
        /\ Forget(s)
        /\ UNCHANGED <<attempt, error_count>>
     \/ /\ active /\ (use_service_url \/ s \notin outdated)
        /\ retry_timer' = retry_timer \ {s}
        /\ attempt' = [attempt EXCEPT ![s] = url]
        /\ UNCHANGED <<clients, error_count, connVars>>
     \/ /\ active /\ (use_service_url \/ s \notin outdated)
        /\ ConnectRetry(s)      \* AsyncConnectService threw
        /\ UNCHANGED <<clients, attempt, connVars>>
  /\ UNCHANGED <<subscriptionVars, client, candidate, claimed, outdated,
                 historyVars>>

(* No update of the node for 65 s.                                         *)
Outdate(s) ==
  /\ s \in clients
  /\ outdated' = outdated \cup {s}
  /\ UNCHANGED <<subscriptionVars, clients, client, connectVars, claimed,
                 connVars, historyVars>>

-----------------------------------------------------------------------------
(* The end of a connection                                                 *)

(* AsyncDisconnectService of these; each that is connected sends           *)
(* ClientClosed.                                                           *)
Disconnect(cs) ==
  LET connected == {c \in cs : status[c] \in {"up", "lost"}} IN
  /\ status' = [c \in Conns |->
                  IF c \in connected THEN "closed" ELSE status[c]]
  /\ events' = events \cup {Event(c, "ClientClosed") : c \in connected}
  /\ UNCHANGED heard

Tell(c, evt) ==
  events' = IF c \in heard THEN events \cup {Event(c, evt)} ELSE events

(* The transport lost it (TransportConnectionClosed or                     *)
(* ClientConnectionTimeout), or the user or the service left it            *)
(* (AsyncClose1).                                                          *)
ConnectionEnds(c) ==
  /\ \/ /\ status[c] = "up"
        /\ status' = [status EXCEPT ![c] = "lost"]
        /\ Tell(c, "ConnectionLost")
     \/ /\ status[c] \in {"up", "lost"}
        /\ status' = [status EXCEPT ![c] = "left"]
        /\ Tell(c, "ClientClosed")
  /\ UNCHANGED <<subscriptionVars, entryVars, heard, historyVars>>

(* PeriodicCleanupTask tells of a lost connection again and again.         *)
PeriodicCleanup(c) ==
  /\ status[c] = "lost" /\ c \in heard
  /\ Tell(c, "ConnectionLost")
  /\ UNCHANGED <<subscriptionVars, entryVars, status, heard, historyVars>>

(* The entry has a weak pointer to its client; nothing in the library      *)
(* holds the object once the ClientClosed of its connection is over.       *)
StubReleased(s) ==
  /\ client[s] # None /\ Over(client[s])
  /\ client' = [client EXCEPT ![s] = None]
  /\ UNCHANGED <<subscriptionVars, clients, connectVars, claimed, outdated,
                 connVars, historyVars>>

(* ClientEvent: an entry that has another connection by now pays no        *)
(* attention.  The first slip does not compare, the second does not retry. *)
SlipAnyConnection(ev) ==
  LET s == ev.conn.service IN
  /\ client[s] # None
  /\ client' = [client EXCEPT ![s] = None]
  /\ ConnectRetry(s)
  /\ status' = [status EXCEPT ![client[s]] = "closed"]
  /\ events' = events \ {ev}
  /\ UNCHANGED <<subscriptionVars, clients, attempt, candidate, outdated,
                 claimed, heard, historyVars>>

SlipNoRetry(ev) ==
  LET s == ev.conn.service IN
  /\ client[s] = ev.conn
  /\ client' = [client EXCEPT ![s] = None]
  /\ events' = events \ {ev}
  /\ claimed' = claimed \ {s}
  /\ UNCHANGED <<subscriptionVars, clients, connectVars, outdated, status,
                 heard, historyVars>>

ConnectionGone(ev) ==
  LET s == ev.conn.service IN
  /\ client[s] = ev.conn
  /\ client' = [client EXCEPT ![s] = None]
  /\ ConnectRetry(s)
  /\ claimed' = claimed \ {s}
  /\ missed' = missed \ {s}
  /\ \/ s \in claimed /\ events' = events \ {ev} /\ UNCHANGED status
     \/ s \notin claimed /\ status[ev.conn] # "lost"
          /\ events' = events \ {ev} /\ UNCHANGED status
     \/ s \notin claimed /\ status[ev.conn] = "lost"
          /\ status' = [status EXCEPT ![ev.conn] = "closed"]
          /\ events' = (events \ {ev}) \cup {Event(ev.conn, "ClientClosed")}
  /\ UNCHANGED <<subscriptionVars, clients, attempt, candidate, outdated,
                 heard, late>>

(* An event that comes when there is no client takes the claim away.       *)
EventIgnored(ev) ==
  LET s == ev.conn.service IN
  /\ client[s] # ev.conn
  /\ claimed' = IF client[s] = None THEN claimed \ {s} ELSE claimed
  /\ events' = events \ {ev}
  /\ UNCHANGED <<subscriptionVars, clients, client, connectVars, outdated,
                 status, heard, historyVars>>

ClientEvent(ev) == ConnectionGone(ev) \/ EventIgnored(ev)

-----------------------------------------------------------------------------
(* Calls of the user                                                       *)

(* The user has the clients there are and have been.                       *)
BeenClient(c) == c \in heard /\ candidate[c.service] # c

(* The entry is found by its name, also with a client it had before.       *)
ClaimClient(c) ==
  /\ active
  /\ BeenClient(c) /\ c.service \in clients
  /\ claimed' = claimed \cup {c.service}
  /\ UNCHANGED <<subscriptionVars, clients, client, connectVars, outdated,
                 connVars, historyVars>>

ReleaseClient(c) ==
  /\ BeenClient(c) /\ status[c] \in {"up", "lost"}
  /\ claimed' = claimed \ (clients \cap {c.service})
  /\ IF active THEN UNCHANGED connVars ELSE Disconnect({c})
  /\ UNCHANGED <<subscriptionVars, clients, client, connectVars, outdated,
                 historyVars>>

ClientsOf(entries) == {client[s] : s \in entries} \ {None}

(* UpdateServiceURL.  The slip closes claimed clients too.                 *)
SlipUnclaimed == clients

Unclaimed == clients \ claimed

UpdateServiceURL(close_connected) ==
  /\ active /\ use_service_url
  /\ url < MaxUrl
  /\ url' = url + 1
  /\ outdated' = outdated \ clients
  /\ IF close_connected THEN Disconnect(ClientsOf(Unclaimed))
                        ELSE UNCHANGED connVars
  /\ UNCHANGED <<active, use_service_url, clients, client, connectVars,
                 claimed, historyVars>>

(* Close.  Attempts and timers go on.  The slip clears the map first.      *)
SlipClose ==
  /\ active
  /\ active' = FALSE
  /\ Disconnect({})
  /\ clients' = {} /\ claimed' = {}
  /\ UNCHANGED <<use_service_url, url, client, connectVars, outdated,
                 historyVars>>

Close ==
  /\ active
  /\ active' = FALSE
  /\ Disconnect(ClientsOf(clients))
  /\ clients' = {} /\ claimed' = {}
  /\ UNCHANGED <<use_service_url, url, client, connectVars, outdated,
                 historyVars>>

-----------------------------------------------------------------------------

Next ==
  \/ \E listed, ok \in SUBSET Services : NodeUpdated(listed, ok)
  \/ \E s \in Services :
       \/ AttachListener(s) \/ ClientConnected(s) \/ ClientConnectFailed(s)
       \/ ConnectRetry2(s) \/ Outdate(s) \/ StubReleased(s)
  \/ \E c \in Conns :
       \/ ConnectorTakes(c) \/ ConnectionEnds(c) \/ PeriodicCleanup(c)
       \/ ClaimClient(c) \/ ReleaseClient(c)
  \/ \E ev \in events : ClientEvent(ev)
  \/ \E b \in BOOLEAN : UpdateServiceURL(b)
  \/ Close

Spec == Init /\ [][Next]_vars

(* Attempts come to an end, timers fire, connections are looked after and  *)
(* events are delivered.                                                   *)
AttemptStep(s) ==
  \/ ClientConnectFailed(s) \/ AttachListener(s) \/ ClientConnected(s)
  \/ \E c \in Conns : c.service = s /\ ConnectorTakes(c)

Fairness ==
  /\ \A s \in Services : WF_vars(AttemptStep(s)) /\ WF_vars(ConnectRetry2(s))
  /\ \A c \in Conns :
       /\ WF_vars(PeriodicCleanup(c))
       /\ WF_vars(\E ev \in events : ev.conn = c /\ ClientEvent(ev))

FairSpec == Spec /\ Fairness

-----------------------------------------------------------------------------
(* Properties                                                              *)

TypeOK ==
  /\ active \in BOOLEAN /\ use_service_url \in BOOLEAN
  /\ url \in 0 .. MaxUrl
  /\ clients \cup retry_timer \cup claimed \cup outdated \subseteq Services
  /\ client \in [Services -> Conns \cup {None}]
  /\ attempt \in [Services -> Nat \cup {None}]
  /\ candidate \in [Services -> Conns \cup {None}]
  /\ error_count \in [Services -> 0 .. MaxErrors + 1]
  /\ status \in [Conns -> {"none", "up", "lost", "left", "closed"}]
  /\ events \subseteq [conn : Conns, evt : {"ConnectionLost", "ClientClosed"}]
  /\ heard \cup late \subseteq Conns
  /\ missed \subseteq Services

(* Of the client, the attempt and the retry timer an entry has one at      *)
(* most: never are two connections to a service made side by side.         *)
OneAtATime ==
  \A s \in Services :
    /\ client[s] # None => attempt[s] = None
    /\ s \in retry_timer => client[s] = None /\ attempt[s] = None

OneConnection ==
  \A c, d \in Conns :
    c.service = d.service /\ status[c] = "up" /\ status[d] = "up" => c = d

(* The subscription will hear of the end of the client: it is connected,   *)
(* as far as the library knows, or its ClientClosed is on its way.         *)
Followed(s) ==
  /\ client[s] # None /\ client[s] \in heard
  /\ \/ status[client[s]] \in {"up", "lost"}
     \/ Event(client[s], "ClientClosed") \in events

(* An entry is forgotten only when its connection was closed between the   *)
(* reply to the connect and ClientConnected.  Else it has a client, whose  *)
(* end it will hear of, or an attempt or a timer, unless it was given up.  *)
Attended ==
  \A s \in clients :
    \/ Followed(s)
    \/ attempt[s] # None
    \/ s \in retry_timer
    \/ GivenUp(s)
    \/ s \in missed

(* Close leaves no connection open but those an attempt under way has made *)
(* or will make.                                                           *)
ClosedLeavesNone ==
  ~active => \A c \in Conns :
               status[c] = "up" => c \in late \/ candidate[c.service] = c

(* The subscription lets go of a client only when it has ended: an event   *)
(* of an earlier connection does nothing to the one of today.              *)
KeepsClient ==
  [][\A s \in Services :
       client[s] # None /\ client'[s] # client[s]
         => status[client[s]] # "up"]_vars

(* Subscription.h:602: "Claimed clients will no longer have their          *)
(* lifecycle managed by the subscription": until Close, it disconnects no  *)
(* client that is claimed.                                                 *)
ClaimedIsLeft ==
  [][\A s \in claimed :
       active' /\ client[s] # None /\ status[client[s]] = "up"
         => status'[client[s]] # "closed"]_vars

(* Connected, or on the way to be.                                         *)
Tried(s) ==
  \/ s \notin clients \/ GivenUp(s)
  \/ client[s] # None /\ status[client[s]] = "up"
  \/ attempt[s] # None

(* Subscription.h:595: "will retry the connection if it fails or the       *)
(* connection is lost": a service with an entry is connected or tried      *)
(* again and again, unless its connection was closed before                *)
(* ClientConnected.  In that case it need not be.                          *)
TriedAgain == \A s \in Services : []<>(Tried(s) \/ s \in missed)

(* Why they hold: the only connection to a service that can be up is the   *)
(* client of its entry or about to be; an event tells of a connection that *)
(* is not up any more; and while the subscription is active a service      *)
(* without an entry has nothing under way.                                 *)
UpIsClient ==
  \A c \in Conns :
    status[c] = "up" => client[c.service] = c \/ candidate[c.service] = c

EventsOfEnded ==
  \A ev \in events : status[ev.conn] \in {"lost", "left", "closed"}

OwnClient ==
  \A s \in Services :
    /\ client[s] # None => client[s].service = s /\ client[s] \in heard
    /\ candidate[s] # None => /\ candidate[s].service = s
                              /\ status[candidate[s]] # "none"
                              /\ attempt[s] # None

NoEntryNothing ==
  \A s \in Services \ clients :
    active => client[s] = None /\ attempt[s] = None /\ s \notin retry_timer

EntriesWhileActive == clients # {} => active

IInv ==
  /\ TypeOK /\ OneAtATime /\ Attended /\ ClosedLeavesNone
  /\ UpIsClient /\ EventsOfEnded /\ OwnClient /\ NoEntryNothing
  /\ EntriesWhileActive
=============================================================================
