------------------------- MODULE SubscriptionProofs -------------------------
(***************************************************************************)
(* Safety of Subscription for any number of services, connections, errors  *)
(* and updates.                                                            *)
(***************************************************************************)
EXTENDS Subscription, TLAPS

Told(c) == Event(c, "ClientClosed") \in events

AttendedAt(s) ==
  \/ Followed(s)
  \/ attempt[s] # None
  \/ s \in retry_timer
  \/ GivenUp(s)
  \/ s \in missed

LEMMA AttendedEach == Attended <=> \A s \in clients : AttendedAt(s)
  BY DEF Attended, AttendedAt

(* A client that stays is followed if its end is told.                     *)
LEMMA StaysFollowed ==
  ASSUME NEW s \in Services, Followed(s), client'[s] = client[s],
         heard \subseteq heard',
         LET c == client[s] IN
           \/ status'[c] \in {"up", "lost"} \/ Told(c)'
           \/ status'[c] = status[c] /\ (Told(c) => Told(c)')
  PROVE  Followed(s)'
  BY DEF Followed, Told

(* Steps that only end connections, and tell of it, leave entries attended. *)
LEMMA EndsAreTold ==
  ASSUME IInv, clients' \subseteq clients, events \subseteq events',
         UNCHANGED <<client, attempt, retry_timer, error_count,
                     use_service_url, heard, missed>>,
         \A c \in Conns : \/ status'[c] = status[c]
                          \/ status'[c] = "lost"
                          \/ c \in heard => Told(c)'
  PROVE  Attended'
  <1> SUFFICES ASSUME NEW s \in clients' PROVE AttendedAt(s)'
    BY DEF Attended, AttendedAt
  <1>1. /\ AttendedAt(s) /\ s \in Services
        /\ client[s] \in Conns \cup {None}
    BY AttendedEach DEF IInv, TypeOK
  <1>2. CASE Followed(s)
    <2>1. client[s] \in Conns /\ client[s] \in heard
      BY <1>1, <1>2 DEF Followed
    <2>2. Told(client[s]) => Told(client[s])'
      BY DEF Told
    <2>3. Followed(s)'
      BY <1>1, <1>2, <2>1, <2>2, StaysFollowed
    <2>4. QED
      BY <2>3 DEF AttendedAt
  <1>3. CASE \/ attempt[s] # None \/ s \in retry_timer \/ GivenUp(s)
             \/ s \in missed
    BY <1>3 DEF AttendedAt, GivenUp
  <1>4. QED
    BY <1>1, <1>2, <1>3 DEF AttendedAt

LEMMA FollowedStays ==
  ASSUME UNCHANGED <<client, connVars>>
  PROVE  \A s \in Services : Followed(s) => Followed(s)'
  BY DEF Followed, connVars

(* AsyncDisconnectService closes what is connected, and tells.             *)
LEMMA DisconnectTells ==
  ASSUME TypeOK, NEW cs \in SUBSET Conns, Disconnect(cs)
  PROVE  /\ status' \in [Conns -> {"none", "up", "lost", "left", "closed"}]
         /\ events' \subseteq
              [conn : Conns, evt : {"ConnectionLost", "ClientClosed"}]
         /\ events \subseteq events'
         /\ heard' = heard
         /\ \A c \in Conns :
              \/ status'[c] = status[c] /\ (c \in cs => status[c] # "up")
              \/ c \in cs /\ status'[c] = "closed" /\ Told(c)'
         /\ \A ev \in events' : ev \in events \/ status'[ev.conn] = "closed"
         /\ \A c \in Conns : status[c] = "closed" => status'[c] = "closed"
         /\ \A c \in Conns : status'[c] # status[c] => status'[c] = "closed"
  <1> DEFINE connected == {c \in cs : status[c] \in {"up", "lost"}}
             tell(c) == Event(c, "ClientClosed")
  <1>1. /\ status' = [c \in Conns |->
                        IF c \in connected THEN "closed" ELSE status[c]]
        /\ events' = events \cup {tell(c) : c \in connected}
        /\ heard' = heard
    BY DEF Disconnect
  <1>2. connected \in SUBSET Conns
    OBVIOUS
  <1>3. \A c \in connected : tell(c) \in events'
    BY <1>1
  <1>4. \A c \in Conns : tell(c) \in
          [conn : Conns, evt : {"ConnectionLost", "ClientClosed"}]
    BY DEF Event
  <1>5. \A ev \in events' : ev \in events
           \/ \E c \in connected : ev = tell(c) /\ ev.conn = c
    BY <1>1 DEF Event
  <1>6. /\ status' \in [Conns -> {"none", "up", "lost", "left", "closed"}]
        /\ \A c \in Conns : c \in connected => status'[c] = "closed"
        /\ \A c \in Conns : c \notin connected => status'[c] = status[c]
    BY <1>1 DEF TypeOK
  <1>7. \A c \in cs : c \notin connected => status[c] # "up"
    OBVIOUS
  <1> HIDE DEF connected, tell
  <1>8. \A c \in Conns : c \in connected => Told(c)'
    BY <1>3 DEF Told, tell
  <1>9. connected \subseteq cs
    BY DEF connected
  <1>10. events' \subseteq
              [conn : Conns, evt : {"ConnectionLost", "ClientClosed"}]
    BY <1>2, <1>4, <1>5 DEF TypeOK
  <1>11. \A ev \in events' : ev \in events \/ status'[ev.conn] = "closed"
    BY <1>2, <1>5, <1>6
  <1>12. QED
    BY <1>1, <1>6, <1>7, <1>8, <1>9, <1>10, <1>11

LEMMA RetryCounts ==
  ASSUME TypeOK, NEW s \in Services, ConnectRetry(s)
  PROVE  /\ error_count' \in [Services -> 0 .. MaxErrors + 1]
         /\ retry_timer' \subseteq Services
  <1>1. \A n \in 0 .. MaxErrors + 1 :
          (IF n > MaxErrors THEN n ELSE n + 1) \in 0 .. MaxErrors + 1
    BY ConstantsAssumption
  <1>2. QED
    BY <1>1 DEF TypeOK, ConnectRetry

LEMMA InitIInv == Init => IInv
  <1> SUFFICES ASSUME Init PROVE IInv
    OBVIOUS
  <1> USE ConstantsAssumption DEF Init
  <1>1. 1 \in Services /\ clients \subseteq Services
    BY DEF Services
  <1>2. TypeOK
    BY <1>1 DEF TypeOK
  <1>3. OneAtATime /\ Attended /\ ClosedLeavesNone
    BY <1>1 DEF OneAtATime, Attended, ClosedLeavesNone
  <1>4. UpIsClient /\ EventsOfEnded /\ OwnClient
    BY DEF UpIsClient, EventsOfEnded, OwnClient
  <1>5. NoEntryNothing /\ EntriesWhileActive
    BY DEF NoEntryNothing, EntriesWhileActive
  <1>6. QED
    BY <1>2, <1>3, <1>4, <1>5 DEF IInv

-----------------------------------------------------------------------------
(* The steps, one by one.                                                  *)

LEMMA NodeUpdatedKeeps ==
  ASSUME IInv, NEW listed \in SUBSET Services, NEW ok \in SUBSET Services,
         NodeUpdated(listed, ok)
  PROVE  IInv'
  <1> USE ConstantsAssumption
  <1> USE DEF IInv, subscriptionVars, connectVars, entryVars, connVars,
              historyVars, NodeUpdated, Unknown, Reached
  <1>1. TypeOK'
    BY DEF TypeOK
  <1>2. OneAtATime'
    BY DEF OneAtATime, NoEntryNothing
  <1>3. Attended'
    BY FollowedStays DEF Attended, TypeOK, GivenUp
  <1>4. ClosedLeavesNone'
    BY DEF ClosedLeavesNone
  <1>5. UpIsClient'
    BY DEF UpIsClient
  <1>6. EventsOfEnded'
    BY DEF EventsOfEnded
  <1>7. OwnClient'
    BY DEF OwnClient, TypeOK
  <1>8. NoEntryNothing'
    BY DEF NoEntryNothing
  <1>9. EntriesWhileActive'
    BY DEF EntriesWhileActive
  <1>10. QED
    BY <1>1, <1>2, <1>3, <1>4, <1>5, <1>6, <1>7, <1>8, <1>9

LEMMA ClientConnectFailedKeeps ==
  ASSUME IInv, NEW s \in Services, ClientConnectFailed(s)
  PROVE  IInv'
  <1> USE ConstantsAssumption
  <1> USE DEF IInv, subscriptionVars, connectVars, entryVars, connVars,
              historyVars, ClientConnectFailed, ConnectRetry,
              GivenUp
  <1>1. TypeOK'
    BY RetryCounts DEF TypeOK
  <1>2. OneAtATime'
    BY DEF OneAtATime, TypeOK
  <1>3. Attended'
    BY FollowedStays DEF Attended, TypeOK
  <1>4. ClosedLeavesNone'
    BY DEF ClosedLeavesNone
  <1>5. UpIsClient'
    BY DEF UpIsClient
  <1>6. EventsOfEnded'
    BY DEF EventsOfEnded
  <1>7. OwnClient'
    BY DEF OwnClient, TypeOK
  <1>8. NoEntryNothing'
    BY DEF NoEntryNothing
  <1>9. EntriesWhileActive'
    BY DEF EntriesWhileActive
  <1>10. QED
    BY <1>1, <1>2, <1>3, <1>4, <1>5, <1>6, <1>7, <1>8, <1>9

LEMMA ConnectRetry2Keeps ==
  ASSUME IInv, NEW s \in Services, ConnectRetry2(s)
  PROVE  IInv'
  <1> USE ConstantsAssumption
  <1> USE DEF IInv, subscriptionVars, connectVars, entryVars, connVars,
              historyVars, ConnectRetry2, ConnectRetry,
              GivenUp, Forget
  <1>1. TypeOK'
    <2>1. /\ error_count' \in [Services -> 0 .. MaxErrors + 1]
          /\ retry_timer' \subseteq Services
      <3>1. CASE ConnectRetry(s)
        BY <3>1, RetryCounts
      <3>2. CASE UNCHANGED error_count /\ retry_timer' = retry_timer \ {s}
        BY <3>2 DEF TypeOK
      <3>3. QED
        BY <3>1, <3>2
    <2>2. /\ status' \in [Conns -> {"none", "up", "lost", "left", "closed"}]
          /\ events' \subseteq events
      BY DEF TypeOK
    <2>3. clients' \subseteq clients
      OBVIOUS
    <2>4. attempt' \in [Services -> Nat \cup {None}]
      BY DEF TypeOK
    <2>5. QED
      BY <2>1, <2>2, <2>3, <2>4 DEF TypeOK
  <1>2. OneAtATime'
    BY DEF OneAtATime, TypeOK
  <1>3. Attended'
    <2> SUFFICES ASSUME NEW t \in clients' PROVE AttendedAt(t)'
      BY DEF Attended, AttendedAt
    <2>1. AttendedAt(t) /\ t \in Services
      BY AttendedEach DEF TypeOK
    <2>2. CASE t = s
      BY <2>1, <2>2
      DEF AttendedAt, TypeOK, OneAtATime, EntriesWhileActive
    <2>3. CASE t # s
      <3>1. /\ attempt'[t] = attempt[t]
            /\ t \in retry_timer' <=> t \in retry_timer
            /\ error_count'[t] = error_count[t]
        BY <2>3 DEF TypeOK
      <3>2. Followed(t) => Followed(t)'
        <4> SUFFICES ASSUME Followed(t) PROVE Followed(t)'
          OBVIOUS
        <4>1. client[t] \in Conns /\ client[t].service # s
          BY <2>1, <2>3 DEF Followed, OwnClient, TypeOK
        <4>2. status'[client[t]] = status[client[t]]
          BY <4>1 DEF TypeOK
        <4>3. Told(client[t]) => Told(client[t])'
          BY <4>1 DEF Told, Event
        <4>4. QED
          BY <2>1, <4>2, <4>3, StaysFollowed
      <3>3. QED
        BY <2>1, <3>1, <3>2 DEF AttendedAt, TypeOK
    <2>4. QED
      BY <2>2, <2>3
  <1>4. ClosedLeavesNone'
    BY DEF ClosedLeavesNone
  <1>5. UpIsClient'
    BY DEF UpIsClient
  <1>6. EventsOfEnded'
    BY DEF EventsOfEnded, TypeOK
  <1>7. OwnClient'
    BY DEF OwnClient, TypeOK
  <1>8. NoEntryNothing'
    BY DEF NoEntryNothing, TypeOK, OneAtATime
  <1>9. EntriesWhileActive'
    BY DEF EntriesWhileActive
  <1>10. QED
    BY <1>1, <1>2, <1>3, <1>4, <1>5, <1>6, <1>7, <1>8, <1>9

LEMMA OutdateKeeps ==
  ASSUME IInv, NEW s \in Services, Outdate(s)
  PROVE  IInv'
  <1> USE ConstantsAssumption
  <1> USE DEF IInv, subscriptionVars, connectVars, entryVars, connVars,
              historyVars, Outdate
  <1>1. TypeOK'
    BY DEF TypeOK
  <1>2. OneAtATime'
    BY DEF OneAtATime
  <1>3. Attended'
    BY FollowedStays DEF Attended, TypeOK, GivenUp
  <1>4. ClosedLeavesNone'
    BY DEF ClosedLeavesNone
  <1>5. UpIsClient'
    BY DEF UpIsClient
  <1>6. EventsOfEnded'
    BY DEF EventsOfEnded
  <1>7. OwnClient'
    BY DEF OwnClient
  <1>8. NoEntryNothing'
    BY DEF NoEntryNothing
  <1>9. EntriesWhileActive'
    BY DEF EntriesWhileActive
  <1>10. QED
    BY <1>1, <1>2, <1>3, <1>4, <1>5, <1>6, <1>7, <1>8, <1>9

LEMMA ConnectorTakesKeeps ==
  ASSUME IInv, NEW c \in Conns, ConnectorTakes(c)
  PROVE  IInv'
  <1> USE ConstantsAssumption
  <1> USE DEF IInv, subscriptionVars, connectVars, entryVars, connVars,
              historyVars, ConnectorTakes
  <1>0. c.service \in Services /\ c # None
    BY DEF Conns
  <1>1. TypeOK'
    BY <1>0 DEF TypeOK
  <1>2. OneAtATime'
    BY DEF OneAtATime
  <1>3. Attended'
    <2> SUFFICES ASSUME NEW s \in clients' PROVE AttendedAt(s)'
      BY DEF Attended, AttendedAt
    <2>1. AttendedAt(s) /\ s \in Services /\ s \in clients
      BY AttendedEach DEF TypeOK
    <2>2. Followed(s) => Followed(s)'
      BY <2>1 DEF Followed, TypeOK
    <2>3. QED
      BY <2>1, <2>2 DEF AttendedAt, GivenUp
  <1>4. ClosedLeavesNone'
    BY <1>0 DEF ClosedLeavesNone, TypeOK, Conns
  <1>5. UpIsClient'
    BY <1>0 DEF UpIsClient, TypeOK, Conns
  <1>6. EventsOfEnded'
    BY DEF EventsOfEnded, TypeOK
  <1>7. OwnClient'
    BY <1>0 DEF OwnClient, TypeOK
  <1>8. NoEntryNothing'
    BY DEF NoEntryNothing
  <1>9. EntriesWhileActive'
    BY DEF EntriesWhileActive
  <1>10. QED
    BY <1>1, <1>2, <1>3, <1>4, <1>5, <1>6, <1>7, <1>8, <1>9

LEMMA AttachListenerKeeps ==
  ASSUME IInv, NEW s \in Services, AttachListener(s)
  PROVE  IInv'
  <1> USE ConstantsAssumption
  <1> USE DEF IInv, subscriptionVars, connectVars, entryVars, connVars,
              historyVars, AttachListener
  <1>1. TypeOK'
    BY DEF TypeOK
  <1>2. OneAtATime'
    BY DEF OneAtATime
  <1>3. Attended'
    BY DEF Attended, Followed, GivenUp
  <1>4. ClosedLeavesNone'
    BY DEF ClosedLeavesNone
  <1>5. UpIsClient'
    BY DEF UpIsClient
  <1>6. EventsOfEnded'
    BY DEF EventsOfEnded
  <1>7. OwnClient'
    BY DEF OwnClient
  <1>8. NoEntryNothing'
    BY DEF NoEntryNothing
  <1>9. EntriesWhileActive'
    BY DEF EntriesWhileActive
  <1>10. QED
    BY <1>1, <1>2, <1>3, <1>4, <1>5, <1>6, <1>7, <1>8, <1>9

LEMMA ClientConnectedKeeps ==
  ASSUME IInv, NEW s \in Services, ClientConnected(s)
  PROVE  IInv'
  <1> USE ConstantsAssumption
  <1> USE DEF IInv, subscriptionVars, connectVars, entryVars, connVars,
              historyVars, ClientConnected
  <1> DEFINE c == candidate[s]
  <1>0. c \in Conns /\ c.service = s /\ attempt[s] # None
    BY DEF TypeOK, OwnClient
  <1>1. TypeOK'
    BY <1>0 DEF TypeOK
  <1>2. OneAtATime'
    BY <1>0 DEF OneAtATime, TypeOK
  <1>3. Attended'
    <2> SUFFICES ASSUME NEW t \in clients' PROVE AttendedAt(t)'
      BY DEF Attended, AttendedAt
    <2>1. AttendedAt(t) /\ t \in Services
      BY AttendedEach DEF TypeOK
    <2>2. CASE t # s
      <3>1. Followed(t) => Followed(t)'
        BY <2>1, <2>2 DEF Followed, TypeOK
      <3>2. QED
        BY <2>1, <2>2, <3>1 DEF AttendedAt, GivenUp, TypeOK
    <2>3. CASE t = s /\ Over(c)
      BY <2>3 DEF AttendedAt
    <2>4. CASE t = s /\ ~Over(c)
      <3>1. client'[s] = c /\ c # None /\ c \in heard
        BY <1>0 DEF TypeOK
      <3>2. status[c] # "none"
        BY DEF OwnClient
      <3>3. QED
        BY <1>0, <2>4, <3>1, <3>2 DEF AttendedAt, Followed, Over, TypeOK
    <2>5. QED
      BY <2>2, <2>3, <2>4
  <1>4. ClosedLeavesNone'
    <2> SUFFICES ASSUME ~active, NEW d \in Conns, status[d] = "up"
                 PROVE  d \in late' \/ candidate'[d.service] = d
      BY DEF ClosedLeavesNone
    <2>1. d \in late \/ candidate[d.service] = d
      BY DEF ClosedLeavesNone
    <2>2. CASE d.service = s
      BY <2>1, <2>2
    <2>3. CASE d.service # s
      BY <2>1, <2>3 DEF TypeOK
    <2>4. QED
      BY <2>2, <2>3
  <1>5. UpIsClient'
    <2> SUFFICES ASSUME NEW d \in Conns, status[d] = "up"
                 PROVE  \/ client'[d.service] = d
                        \/ candidate'[d.service] = d
      BY DEF UpIsClient
    <2>1. client[s] = None /\ d.service \in Services /\ d # None
      BY <1>0 DEF OneAtATime, Conns
    <2>2. client[d.service] = d \/ candidate[d.service] = d
      BY DEF UpIsClient
    <2>3. QED
      BY <2>1, <2>2 DEF TypeOK
  <1>6. EventsOfEnded'
    BY DEF EventsOfEnded
  <1>7. OwnClient'
    BY <1>0 DEF OwnClient, TypeOK
  <1>8. NoEntryNothing'
    BY <1>0 DEF NoEntryNothing, TypeOK
  <1>9. EntriesWhileActive'
    BY DEF EntriesWhileActive
  <1>10. QED
    BY <1>1, <1>2, <1>3, <1>4, <1>5, <1>6, <1>7, <1>8, <1>9

LEMMA PeriodicCleanupKeeps ==
  ASSUME IInv, NEW c \in Conns, PeriodicCleanup(c)
  PROVE  IInv'
  <1> USE ConstantsAssumption
  <1> USE DEF IInv, subscriptionVars, connectVars, entryVars, connVars,
              historyVars, PeriodicCleanup, Tell
  <1>1. TypeOK'
    BY DEF TypeOK, Event
  <1>2. OneAtATime'
    BY DEF OneAtATime
  <1>3. Attended'
    BY EndsAreTold
  <1>4. ClosedLeavesNone'
    BY DEF ClosedLeavesNone
  <1>5. UpIsClient'
    BY DEF UpIsClient
  <1>6. EventsOfEnded'
    BY DEF EventsOfEnded, Event
  <1>7. OwnClient'
    BY DEF OwnClient
  <1>8. NoEntryNothing'
    BY DEF NoEntryNothing
  <1>9. EntriesWhileActive'
    BY DEF EntriesWhileActive
  <1>10. QED
    BY <1>1, <1>2, <1>3, <1>4, <1>5, <1>6, <1>7, <1>8, <1>9

LEMMA StubReleasedKeeps ==
  ASSUME IInv, NEW s \in Services, StubReleased(s)
  PROVE  IInv'
  <1> USE ConstantsAssumption
  <1> USE DEF IInv, subscriptionVars, connectVars, entryVars, connVars,
              historyVars, StubReleased
  <1>1. TypeOK'
    BY DEF TypeOK
  <1>2. OneAtATime'
    BY DEF OneAtATime, TypeOK
  <1>3. Attended'
    <2> SUFFICES ASSUME NEW t \in clients' PROVE AttendedAt(t)'
      BY DEF Attended, AttendedAt
    <2>1. AttendedAt(t) /\ t \in Services
      BY AttendedEach DEF TypeOK
    <2>2. Followed(t) => t # s
      BY DEF Followed, Over
    <2>3. Followed(t) => Followed(t)'
      BY <2>1, <2>2 DEF Followed, TypeOK
    <2>4. QED
      BY <2>1, <2>3 DEF AttendedAt, GivenUp
  <1>4. ClosedLeavesNone'
    BY DEF ClosedLeavesNone
  <1>5. UpIsClient'
    BY DEF UpIsClient, Over, TypeOK
  <1>6. EventsOfEnded'
    BY DEF EventsOfEnded
  <1>7. OwnClient'
    BY DEF OwnClient, TypeOK
  <1>8. NoEntryNothing'
    BY DEF NoEntryNothing, TypeOK
  <1>9. EntriesWhileActive'
    BY DEF EntriesWhileActive
  <1>10. QED
    BY <1>1, <1>2, <1>3, <1>4, <1>5, <1>6, <1>7, <1>8, <1>9

LEMMA ConnectionEndsKeeps ==
  ASSUME IInv, NEW c \in Conns, ConnectionEnds(c)
  PROVE  IInv'
  <1> USE ConstantsAssumption
  <1> USE DEF IInv, subscriptionVars, connectVars, entryVars, connVars,
              historyVars, ConnectionEnds, Tell
  <1>0. PICK e \in {"ConnectionLost", "ClientClosed"} :
          /\ events' = IF c \in heard THEN events \cup {Event(c, e)}
                                      ELSE events
          /\ status' = [status EXCEPT ![c] = IF e = "ConnectionLost"
                                             THEN "lost" ELSE "left"]
    OBVIOUS
  <1>1. TypeOK'
    <2>1. Event(c, e) \in
            [conn : Conns, evt : {"ConnectionLost", "ClientClosed"}]
      BY DEF Event
    <2>2. QED
      BY <1>0, <2>1 DEF TypeOK
  <1>2. OneAtATime'
    BY <1>0 DEF OneAtATime
  <1>3. Attended'
    <2>1. c \in heard /\ e = "ClientClosed" => Told(c)'
      BY <1>0 DEF Told
    <2>2. \A d \in Conns : \/ status'[d] = status[d]
                           \/ status'[d] = "lost"
                           \/ d \in heard => Told(d)'
      BY <1>0, <2>1 DEF TypeOK
    <2>3. events \subseteq events'
      BY <1>0
    <2>4. QED
      BY <2>2, <2>3, EndsAreTold
  <1>4. ClosedLeavesNone'
    BY <1>0 DEF ClosedLeavesNone
  <1>5. UpIsClient'
    BY <1>0 DEF UpIsClient
  <1>6. EventsOfEnded'
    BY <1>0 DEF EventsOfEnded, Event, TypeOK
  <1>7. OwnClient'
    BY <1>0 DEF OwnClient, TypeOK
  <1>8. NoEntryNothing'
    BY <1>0 DEF NoEntryNothing
  <1>9. EntriesWhileActive'
    BY <1>0 DEF EntriesWhileActive
  <1>10. QED
    BY <1>1, <1>2, <1>3, <1>4, <1>5, <1>6, <1>7, <1>8, <1>9

LEMMA ClaimClientKeeps ==
  ASSUME IInv, NEW c \in Conns, ClaimClient(c)
  PROVE  IInv'
  <1> USE ConstantsAssumption
  <1> USE DEF IInv, subscriptionVars, connectVars, entryVars, connVars,
              historyVars, ClaimClient
  <1>1. TypeOK'
    BY DEF TypeOK
  <1>2. OneAtATime'
    BY DEF OneAtATime
  <1>3. Attended'
    BY FollowedStays DEF Attended, TypeOK, GivenUp
  <1>4. ClosedLeavesNone'
    BY DEF ClosedLeavesNone
  <1>5. UpIsClient'
    BY DEF UpIsClient
  <1>6. EventsOfEnded'
    BY DEF EventsOfEnded
  <1>7. OwnClient'
    BY DEF OwnClient
  <1>8. NoEntryNothing'
    BY DEF NoEntryNothing
  <1>9. EntriesWhileActive'
    BY DEF EntriesWhileActive
  <1>10. QED
    BY <1>1, <1>2, <1>3, <1>4, <1>5, <1>6, <1>7, <1>8, <1>9

LEMMA ReleaseClientKeeps ==
  ASSUME IInv, NEW c \in Conns, ReleaseClient(c)
  PROVE  IInv'
  <1> USE ConstantsAssumption
  <1> USE DEF IInv, subscriptionVars, connectVars, entryVars, connVars,
              historyVars, ReleaseClient
  <1>0. /\ status' \in [Conns -> {"none", "up", "lost", "left", "closed"}]
        /\ events' \subseteq
             [conn : Conns, evt : {"ConnectionLost", "ClientClosed"}]
        /\ events \subseteq events' /\ heard' = heard
        /\ \A d \in Conns : status'[d] = status[d]
                             \/ (status'[d] = "closed" /\ Told(d)')
        /\ \A ev \in events' : ev \in events \/ status'[ev.conn] = "closed"
        /\ \A d \in Conns : status[d] = "closed" => status'[d] = "closed"
    <2>1. CASE active
      BY <2>1 DEF TypeOK
    <2>2. CASE ~active
      <3>1. Disconnect({c})
        BY <2>2
      <3>2. QED
        BY <3>1, DisconnectTells
    <2>3. QED
      BY <2>1, <2>2
  <1>1. TypeOK'
    BY <1>0 DEF TypeOK
  <1>2. OneAtATime'
    BY <1>0 DEF OneAtATime
  <1>3. Attended'
    BY <1>0, EndsAreTold
  <1>4. ClosedLeavesNone'
    BY <1>0 DEF ClosedLeavesNone
  <1>5. UpIsClient'
    BY <1>0 DEF UpIsClient
  <1>6. EventsOfEnded'
    BY <1>0 DEF EventsOfEnded
  <1>7. OwnClient'
    BY <1>0 DEF OwnClient, TypeOK
  <1>8. NoEntryNothing'
    BY <1>0 DEF NoEntryNothing
  <1>9. EntriesWhileActive'
    BY <1>0 DEF EntriesWhileActive
  <1>10. QED
    BY <1>1, <1>2, <1>3, <1>4, <1>5, <1>6, <1>7, <1>8, <1>9

LEMMA ConnectionGoneKeeps ==
  ASSUME IInv, NEW ev \in events, ConnectionGone(ev)
  PROVE  IInv'
  <1> USE ConstantsAssumption
  <1> USE DEF IInv, subscriptionVars, connectVars, entryVars, connVars,
              historyVars, ConnectionGone, ConnectRetry,
              GivenUp
  <1>0. ev.conn \in Conns /\ ev.conn.service \in Services
    BY DEF TypeOK, Conns
  <1>1. TypeOK'
    <2>1. /\ error_count' \in [Services -> 0 .. MaxErrors + 1]
          /\ retry_timer' \subseteq Services
      BY <1>0, RetryCounts
    <2>2. Event(ev.conn, "ClientClosed") \in
            [conn : Conns, evt : {"ConnectionLost", "ClientClosed"}]
      BY <1>0 DEF Event
    <2>3. events' \subseteq
            [conn : Conns, evt : {"ConnectionLost", "ClientClosed"}]
      BY <2>2 DEF TypeOK
    <2>4. status' \in [Conns -> {"none", "up", "lost", "left", "closed"}]
      BY <1>0 DEF TypeOK
    <2>5. client' \in [Services -> Conns \cup {None}]
      BY <1>0 DEF TypeOK
    <2>6. QED
      BY <2>1, <2>3, <2>4, <2>5 DEF TypeOK
  <1>2. OneAtATime'
    BY DEF OneAtATime, TypeOK
  <1>3. Attended'
    <2> DEFINE s == ev.conn.service
    <2> SUFFICES ASSUME NEW t \in clients' PROVE AttendedAt(t)'
      BY DEF Attended, AttendedAt
    <2>1. AttendedAt(t) /\ t \in Services
      BY AttendedEach DEF TypeOK
    <2>2. CASE t = s
      BY <2>1, <2>2 DEF AttendedAt, TypeOK
    <2>3. CASE t # s
      <3>1. Followed(t) => Followed(t)'
        <4> SUFFICES ASSUME Followed(t) PROVE Followed(t)'
          OBVIOUS
        <4>1. client[t] \in Conns /\ client[t] # ev.conn
          BY <2>1, <2>3 DEF Followed, OwnClient, TypeOK
        <4>2. /\ status'[client[t]] = status[client[t]]
              /\ client'[t] = client[t]
          BY <2>1, <2>3, <4>1 DEF TypeOK
        <4>3. Told(client[t]) => Told(client[t])'
          BY <4>1 DEF Told, Event
        <4>4. QED
          BY <2>1, <4>2, <4>3, StaysFollowed
      <3>2. QED
        BY <2>1, <2>3, <3>1 DEF AttendedAt, TypeOK
    <2>4. QED
      BY <2>2, <2>3
  <1>4. ClosedLeavesNone'
    BY DEF ClosedLeavesNone, TypeOK
  <1>5. UpIsClient'
    BY DEF UpIsClient, TypeOK, EventsOfEnded
  <1>6. EventsOfEnded'
    BY DEF EventsOfEnded, Event, TypeOK
  <1>7. OwnClient'
    BY DEF OwnClient, TypeOK
  <1>8. NoEntryNothing'
    BY DEF NoEntryNothing, TypeOK
  <1>9. EntriesWhileActive'
    BY DEF EntriesWhileActive
  <1>10. QED
    BY <1>1, <1>2, <1>3, <1>4, <1>5, <1>6, <1>7, <1>8, <1>9

LEMMA EventIgnoredKeeps ==
  ASSUME IInv, NEW ev \in events, EventIgnored(ev)
  PROVE  IInv'
  <1> USE ConstantsAssumption
  <1> USE DEF IInv, subscriptionVars, connectVars, entryVars, connVars,
              historyVars, EventIgnored
  <1>1. TypeOK'
    BY DEF TypeOK
  <1>2. OneAtATime'
    BY DEF OneAtATime
  <1>3. Attended'
    <2> SUFFICES ASSUME NEW t \in clients' PROVE AttendedAt(t)'
      BY DEF Attended, AttendedAt
    <2>1. AttendedAt(t) /\ t \in Services
      BY AttendedEach DEF TypeOK
    <2>2. ASSUME Followed(t) PROVE Followed(t)'
      <3>1. client[t] # ev.conn
        BY <2>1, <2>2 DEF Followed, OwnClient
      <3>2. Told(client[t]) => Told(client[t])'
        BY <3>1 DEF Told, Event
      <3>3. QED
        BY <2>1, <2>2, <3>2, StaysFollowed
    <2>3. QED
      BY <2>1, <2>2 DEF AttendedAt, GivenUp
  <1>4. ClosedLeavesNone'
    BY DEF ClosedLeavesNone
  <1>5. UpIsClient'
    BY DEF UpIsClient
  <1>6. EventsOfEnded'
    BY DEF EventsOfEnded
  <1>7. OwnClient'
    BY DEF OwnClient
  <1>8. NoEntryNothing'
    BY DEF NoEntryNothing
  <1>9. EntriesWhileActive'
    BY DEF EntriesWhileActive
  <1>10. QED
    BY <1>1, <1>2, <1>3, <1>4, <1>5, <1>6, <1>7, <1>8, <1>9

LEMMA UpdateServiceURLKeeps ==
  ASSUME IInv, NEW b \in BOOLEAN, UpdateServiceURL(b)
  PROVE  IInv'
  <1> USE ConstantsAssumption
  <1> USE DEF IInv, subscriptionVars, connectVars, entryVars, connVars,
              historyVars, UpdateServiceURL
  <1>0. /\ status' \in [Conns -> {"none", "up", "lost", "left", "closed"}]
        /\ events' \subseteq
             [conn : Conns, evt : {"ConnectionLost", "ClientClosed"}]
        /\ events \subseteq events' /\ heard' = heard
        /\ \A d \in Conns : status'[d] = status[d]
                             \/ (status'[d] = "closed" /\ Told(d)')
        /\ \A ev \in events' : ev \in events \/ status'[ev.conn] = "closed"
        /\ \A d \in Conns : status[d] = "closed" => status'[d] = "closed"
    <2>1. CASE ~b
      BY <2>1 DEF TypeOK
    <2>2. CASE b
      <3>1. ClientsOf(Unclaimed) \in SUBSET Conns
        BY DEF TypeOK, ClientsOf, Unclaimed
      <3>2. Disconnect(ClientsOf(Unclaimed))
        BY <2>2
      <3>3. QED
        BY <3>1, <3>2, DisconnectTells
    <2>3. QED
      BY <2>1, <2>2
  <1>1. TypeOK'
    BY <1>0 DEF TypeOK
  <1>2. OneAtATime'
    BY <1>0 DEF OneAtATime
  <1>3. Attended'
    BY <1>0, EndsAreTold
  <1>4. ClosedLeavesNone'
    BY <1>0 DEF ClosedLeavesNone
  <1>5. UpIsClient'
    BY <1>0 DEF UpIsClient
  <1>6. EventsOfEnded'
    BY <1>0 DEF EventsOfEnded
  <1>7. OwnClient'
    BY <1>0 DEF OwnClient, TypeOK
  <1>8. NoEntryNothing'
    BY <1>0 DEF NoEntryNothing
  <1>9. EntriesWhileActive'
    BY <1>0 DEF EntriesWhileActive
  <1>10. QED
    BY <1>1, <1>2, <1>3, <1>4, <1>5, <1>6, <1>7, <1>8, <1>9

LEMMA CloseKeeps ==
  ASSUME IInv, Close
  PROVE  IInv'
  <1> USE ConstantsAssumption
  <1> USE DEF IInv, subscriptionVars, connectVars, entryVars, connVars,
              historyVars, Close
  <1>0. /\ status' \in [Conns -> {"none", "up", "lost", "left", "closed"}]
        /\ events' \subseteq
             [conn : Conns, evt : {"ConnectionLost", "ClientClosed"}]
        /\ events \subseteq events' /\ heard' = heard
        /\ \A d \in Conns : status'[d] = status[d]
                             \/ (status'[d] = "closed" /\ Told(d)')
        /\ \A d \in ClientsOf(clients) : status'[d] # "up"
        /\ \A ev \in events' : ev \in events \/ status'[ev.conn] = "closed"
        /\ \A d \in Conns : status[d] = "closed" => status'[d] = "closed"
    <2>1. ClientsOf(clients) \in SUBSET Conns
      BY DEF TypeOK, ClientsOf
    <2>2. Disconnect(ClientsOf(clients))
      OBVIOUS
    <2>3. QED
      BY <2>1, <2>2, DisconnectTells
  <1>1. TypeOK'
    BY <1>0 DEF TypeOK
  <1>2. OneAtATime'
    BY <1>0 DEF OneAtATime
  <1>3. Attended'
    BY DEF Attended
  <1>4. ClosedLeavesNone'
    <2> SUFFICES ASSUME NEW d \in Conns, status'[d] = "up",
                        candidate[d.service] # d
                 PROVE  FALSE
      BY DEF ClosedLeavesNone
    <2>1. status[d] = "up"
      BY <1>0
    <2>2. d.service \in Services /\ client[d.service] = d /\ d # None
      BY <2>1, ConstantsAssumption DEF UpIsClient, Conns
    <2>3. d.service \in clients
      BY <2>2 DEF NoEntryNothing
    <2>4. d \in ClientsOf(clients)
      BY <2>2, <2>3 DEF ClientsOf
    <2>5. QED
      BY <2>4, <1>0
  <1>5. UpIsClient'
    BY <1>0 DEF UpIsClient
  <1>6. EventsOfEnded'
    BY <1>0 DEF EventsOfEnded
  <1>7. OwnClient'
    BY <1>0 DEF OwnClient, TypeOK
  <1>8. NoEntryNothing'
    BY <1>0 DEF NoEntryNothing
  <1>9. EntriesWhileActive'
    BY <1>0 DEF EntriesWhileActive
  <1>10. QED
    BY <1>1, <1>2, <1>3, <1>4, <1>5, <1>6, <1>7, <1>8, <1>9

LEMMA NextIInv == IInv /\ [Next]_vars => IInv'
  <1> SUFFICES ASSUME IInv, [Next]_vars PROVE IInv'
    OBVIOUS
  <1>1. CASE UNCHANGED vars
    <2> USE <1>1 DEF IInv, vars, subscriptionVars, connectVars, entryVars,
                     connVars, historyVars
    <2>1. TypeOK' /\ OneAtATime' /\ OwnClient'
      BY DEF TypeOK, OneAtATime, OwnClient
    <2>2. Attended' /\ ClosedLeavesNone'
      BY FollowedStays DEF Attended, GivenUp, ClosedLeavesNone, TypeOK
    <2>3. UpIsClient' /\ EventsOfEnded'
      BY DEF UpIsClient, EventsOfEnded
    <2>4. NoEntryNothing' /\ EntriesWhileActive'
      BY DEF NoEntryNothing, EntriesWhileActive
    <2>5. QED
      BY <2>1, <2>2, <2>3, <2>4
  <1>2. QED
    BY <1>1, NodeUpdatedKeeps, ClientConnectFailedKeeps, ConnectRetry2Keeps,
       OutdateKeeps, ConnectorTakesKeeps, AttachListenerKeeps,
       ClientConnectedKeeps, ConnectionEndsKeeps, PeriodicCleanupKeeps,
       StubReleasedKeeps,
       ClaimClientKeeps, ReleaseClientKeeps, ConnectionGoneKeeps,
       EventIgnoredKeeps, UpdateServiceURLKeeps, CloseKeeps
    DEF Next, ClientEvent

-----------------------------------------------------------------------------

(* What the table of entries, the connections and the events under way     *)
(* have to do with each other.                                             *)
THEOREM Invariance == Spec => []IInv
  BY InitIInv, NextIInv, PTL DEF Spec

(* However retries, updates, claims and late events come: a service has    *)
(* one connection at most.                                                 *)
THEOREM OneConnectionEach == Spec => []OneConnection
  <1>1. IInv => OneConnection
    BY ConstantsAssumption
    DEF IInv, UpIsClient, OneAtATime, OwnClient, OneConnection, Conns
  <1>2. QED
    BY <1>1, Invariance, PTL

(* No entry is left without a client whose end it will hear of, an attempt *)
(* or a timer, unless it was given up after too many errors or its         *)
(* connection had been closed when ClientConnected was called.             *)
THEOREM EntriesAttended == Spec => []Attended
  <1>1. IInv => Attended
    BY DEF IInv
  <1>2. QED
    BY <1>1, Invariance, PTL

(* Close disconnects every connection but those an attempt that was under  *)
(* way has made or makes.                                                  *)
THEOREM CloseLeavesNone == Spec => []ClosedLeavesNone
  <1>1. IInv => ClosedLeavesNone
    BY DEF IInv
  <1>2. QED
    BY <1>1, Invariance, PTL

(* No event, connect or release of a stub takes a client away that is up.  *)
THEOREM ClientsKept == Spec => KeepsClient
  <1> DEFINE Step == \A s \in Services :
                       client[s] # None /\ client'[s] # client[s]
                         => status[client[s]] # "up"
  <1>1. IInv /\ [Next]_vars => Step
    <2> SUFFICES ASSUME IInv, [Next]_vars, NEW s \in Services,
                        client[s] # None, client'[s] # client[s]
                 PROVE  status[client[s]] # "up"
      OBVIOUS
    <2>1. CASE UNCHANGED client
      BY <2>1
    <2>2. ASSUME NEW k \in Services, ClientConnected(k)
          PROVE  FALSE
      <3>1. client[k] = None
        BY <2>2 DEF IInv, OneAtATime, OwnClient, ClientConnected
      <3>2. QED
        BY <2>2, <3>1 DEF IInv, TypeOK, ClientConnected
    <2>3. ASSUME NEW ev \in events, ConnectionGone(ev)
          PROVE  client[s] = ev.conn
      BY <2>3 DEF ConnectionGone
    <2>4. ASSUME NEW ev \in events, ConnectionGone(ev)
          PROVE  status[client[s]] # "up"
      BY <2>3, <2>4 DEF IInv, EventsOfEnded
    <2>5. ASSUME NEW k \in Services, StubReleased(k)
          PROVE  status[client[s]] # "up"
      BY <2>5 DEF IInv, TypeOK, StubReleased, Over
    <2>6. QED
      BY <2>1, <2>2, <2>4, <2>5
      DEF Next, ClientEvent, NodeUpdated, ClientConnectFailed, ConnectRetry2,
          ConnectorTakes, AttachListener, PeriodicCleanup, Outdate,
          ConnectionEnds, ClaimClient, ReleaseClient, EventIgnored,
          UpdateServiceURL, Close, vars, entryVars
  <1>2. QED
    BY <1>1, Invariance, PTL DEF Spec, KeepsClient

(* Until Close no step disconnects a client that is claimed.               *)
THEOREM ClaimedLeftAlone == Spec => ClaimedIsLeft
  <1> DEFINE Step == \A s \in claimed :
                       active' /\ client[s] # None
                         /\ status[client[s]] = "up"
                           => status'[client[s]] # "closed"
  <1>1. IInv /\ [Next]_vars => Step
    <2> SUFFICES ASSUME IInv, [Next]_vars, NEW s \in claimed, active',
                        client[s] # None, status[client[s]] = "up",
                        status'[client[s]] = "closed"
                 PROVE  FALSE
      OBVIOUS
    <2> DEFINE c == client[s]
    <2>1. s \in Services /\ c \in Conns /\ c.service = s
      BY DEF IInv, TypeOK, OwnClient
    <2>2. ASSUME NEW k \in Services, ConnectRetry2(k)
          PROVE  FALSE
      BY <2>1, <2>2 DEF ConnectRetry2, Forget, connVars
    <2>3. ASSUME NEW d \in Conns, ConnectorTakes(d) \/ ConnectionEnds(d)
          PROVE  FALSE
      BY <2>1, <2>3 DEF IInv, TypeOK, ConnectorTakes, ConnectionEnds
    <2>4. ASSUME NEW d \in Conns, ReleaseClient(d)
          PROVE  FALSE
      BY <2>4 DEF ReleaseClient, subscriptionVars, connVars
    <2>5. ASSUME NEW ev \in events, ConnectionGone(ev)
          PROVE  FALSE
      BY <2>1, <2>5 DEF IInv, TypeOK, ConnectionGone
    <2>6. ASSUME NEW b \in BOOLEAN, UpdateServiceURL(b)
          PROVE  FALSE
      <3>1. CASE ~b
        BY <2>6, <3>1 DEF UpdateServiceURL, connVars
      <3>2. CASE b
        <4>1. ClientsOf(Unclaimed) \in SUBSET Conns
          BY DEF IInv, TypeOK, ClientsOf, Unclaimed
        <4>2. Disconnect(ClientsOf(Unclaimed))
          BY <2>6, <3>2 DEF UpdateServiceURL
        <4>3. c \in ClientsOf(Unclaimed)
          BY <2>1, <4>1, <4>2, DisconnectTells DEF IInv
        <4>4. PICK k \in clients \ claimed : client[k] = c
          BY <4>3 DEF ClientsOf, Unclaimed
        <4>5. k = s
          BY <2>1, <4>4 DEF IInv, TypeOK, OwnClient
        <4>6. QED
          BY <4>4, <4>5
      <3>3. QED
        BY <3>1, <3>2
    <2>7. CASE UNCHANGED connVars
      BY <2>7 DEF connVars
    <2>8. CASE UNCHANGED status
      BY <2>8
    <2>9. ASSUME NEW k \in Services,
                 AttachListener(k) \/ ClientConnected(k) \/ StubReleased(k)
          PROVE  FALSE
      BY <2>9 DEF AttachListener, ClientConnected, StubReleased, connVars
    <2>10. QED
      BY <2>2, <2>3, <2>4, <2>5, <2>6, <2>7, <2>8, <2>9
      DEF Next, ClientEvent, NodeUpdated, ClientConnectFailed, Outdate,
          PeriodicCleanup, ClaimClient, EventIgnored, Close, vars
  <1>2. QED
    BY <1>1, Invariance, PTL DEF Spec, ClaimedIsLeft
=============================================================================
