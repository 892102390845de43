----------------------- MODULE RequestResponseProofs -----------------------
(***************************************************************************)
(* Safety of RequestResponse for any number of requests and any space of   *)
(* ids: a response completes its own request, and a handler is called with *)
(* one response and one exception at most.                                 *)
(***************************************************************************)
EXTENDS RequestResponse, TLAPS

(* A run that is started has nothing to call yet.                          *)
LEMMA StartedRuns ==
  ASSUME NEW called \in SUBSET Requests,
         NEW how \in {"response", "failure", "posted", "service"}
  PROVE  /\ Started(called, how) \subseteq CloseRun
         /\ \A a \in Started(called, how) : a.todo = {}
  BY DEF Started, Run, CloseRun

LEMMA ErrorsCounted ==
  ASSUME TypeOK, NEW called, CallWithError(called)
  PROVE  /\ errors' \in [Callback -> Nat]
         /\ values' = values /\ reports' = reports
         /\ \A r \in Callback :
              errors'[r] = IF r \in called THEN errors[r] + 1 ELSE errors[r]
  BY DEF CallWithError, TypeOK

(* Throw leaves everything but the caller as it is.                        *)
LEMMA ThrowKeepsTypes ==
  ASSUME TypeOK, NEW r \in Requests, Throw(r)
  PROVE  /\ pc' = [pc EXCEPT ![r] = "threw"]
         /\ pc' \in [Requests -> {"idle", "closing", "checked", "entered",
                                 "waiting", "returned", "threw", "ignored"}]
         /\ connected' \in BOOLEAN
         /\ closing' \subseteq CloseRun /\ closing \subseteq closing'
         /\ \A a \in closing' : a \in closing \/ a.todo = {}
  <1>1. /\ Started({r}, "posted") \subseteq CloseRun
        /\ \A a \in Started({r}, "posted") : a.todo = {}
    BY StartedRuns
  <1>2. QED
    BY <1>1 DEF Throw, TypeOK

(* AsyncProcessRequest_timeout and _err.                                   *)
LEMMA FailRequestEnds ==
  ASSUME TypeOK, NEW i, FailRequest(i)
  PROVE  /\ outstanding' = outstanding \ WithId(i)
         /\ errors' \in [Callback -> Nat]
         /\ values' = values /\ reports' = reports
         /\ \A q \in Callback :
              errors'[q] = IF q \in WithId(i) THEN errors[q] + 1 ELSE errors[q]
         /\ closing' \subseteq CloseRun /\ closing \subseteq closing'
         /\ \A a \in closing' : a \in closing \/ a.todo = {}
  <1>1. WithId(i) \in SUBSET Requests
    BY DEF WithId, TypeOK
  <1>2. /\ Started(WithId(i), "failure") \subseteq CloseRun
        /\ \A a \in Started(WithId(i), "failure") : a.todo = {}
    BY <1>1, StartedRuns
  <1>3. CallWithError(WithId(i) \cap Callback)
    BY DEF FailRequest
  <1>4. QED
    BY <1>2, <1>3, ErrorsCounted DEF FailRequest, TypeOK

(* What runs of AsyncClose1 still have to call is left alone by steps that *)
(* touch neither the handlers nor the table for them.                      *)
LEMMA TodoKept ==
  ASSUME TypeOK, \A a \in closing : TodoInv(a),
         \A a \in closing' : a \in closing \/ a.todo = {},
         \A q \in Callback :
           errors[q] = 0 /\ q \notin outstanding /\ ~Unsent(q)
             => errors'[q] = 0 /\ q \notin outstanding' /\ ~Unsent(q)'
  PROVE  \A a \in closing' : TodoInv(a)'
  <1>1. \A a \in closing : a.todo \subseteq Callback
    BY DEF TypeOK, CloseRun
  <1>2. ASSUME NEW a \in closing', NEW q \in a.todo
        PROVE  /\ a \in closing /\ q \in Callback
               /\ errors[q] = 0 /\ q \notin outstanding /\ ~Unsent(q)
               /\ \A b \in closing' : q \in b.todo => b = a
    BY <1>1, <1>2 DEF TodoInv
  <1>3. QED
    BY <1>2 DEF TodoInv

(* A handler that a step has nothing to do with.                           *)
LEMMA HandlerKept ==
  ASSUME NEW q \in Callback, HandlerInv(q),
         values'[q] = values[q], errors'[q] = errors[q],
         sent' \cup replies' \subseteq sent \cup replies,
         q \in found' => q \in found,
         Unsent(q)' => Unsent(q),
         pc'[q] = "entered" => Unsent(q) \/ pc[q] = "entered",
         q \in outstanding' => q \in outstanding \/ Unsent(q)
  PROVE  HandlerInv(q)'
  BY DEF HandlerInv, InFlight

LEMMA AsyncCloseKeeps ==
  ASSUME IInv, NEW c \in Closers, AsyncClose(c)
  PROVE  IInv'
  <1> USE ConstantsAssumption
  <1> USE DEF IInv, table, net, calls, AsyncClose
  <1>1. TypeOK'
    BY DEF TypeOK
  <1>2. UniqueIds'
    BY DEF UniqueIds
  <1>3. OwnResponse'
    BY DEF OwnResponse
  <1>4. Watched'
    BY DEF Watched
  <1>5. ASSUME NEW n \in (sent \cup replies)' PROVE MessageInv(n)'
    BY <1>5 DEF MessageInv
  <1>6. ASSUME NEW q \in Requests PROVE RequestInv(q)'
    BY <1>6 DEF RequestInv, Unsent, InFlight
  <1>7. ASSUME NEW q \in Callback PROVE HandlerInv(q)'
    BY <1>7 DEF HandlerInv, Unsent, InFlight
  <1>8. ASSUME NEW b \in closing' PROVE TodoInv(b)'
    BY <1>8 DEF TodoInv, Unsent
  <1>9. QED
    BY <1>1, <1>2, <1>3, <1>4, <1>5, <1>6, <1>7, <1>8

LEMMA BeginKeeps ==
  ASSUME IInv, NEW r \in Requests, Begin(r)
  PROVE  IInv'
  <1> USE ConstantsAssumption
  <1> USE DEF IInv, table, net, calls, Begin
  <1>1. TypeOK'
    BY ThrowKeepsTypes DEF TypeOK
  <1>2. UniqueIds'
    BY ThrowKeepsTypes DEF UniqueIds
  <1>3. OwnResponse'
    BY ThrowKeepsTypes DEF OwnResponse
  <1>4. Watched'
    BY ThrowKeepsTypes DEF Watched
  <1>5. ASSUME NEW n \in (sent \cup replies)' PROVE MessageInv(n)'
    BY ThrowKeepsTypes, <1>5 DEF MessageInv
  <1>6. ASSUME NEW q \in Requests PROVE RequestInv(q)'
    BY ThrowKeepsTypes, <1>6 DEF TypeOK, RequestInv, Unsent, InFlight
  <1>7. ASSUME NEW q \in Callback PROVE HandlerInv(q)'
    <2>1. Unsent(q)' => Unsent(q)
      BY ThrowKeepsTypes DEF TypeOK, Unsent, Requests
    <2>2. pc'[q] = "entered" => pc[q] = "entered"
      BY ThrowKeepsTypes DEF TypeOK, Requests
    <2>3. QED
      BY <2>1, <2>2, <1>7, HandlerKept
  <1>8. ASSUME NEW b \in closing' PROVE TodoInv(b)'
    <2>1. \A q \in Callback : Unsent(q) \/ ~Unsent(q)'
      BY ThrowKeepsTypes DEF TypeOK, Unsent, Requests
    <2>2. \A a \in closing' : a \in closing \/ a.todo = {}
      BY ThrowKeepsTypes
    <2>3. QED
      BY <2>1, <2>2, TodoKept, <1>8
  <1>9. QED
    BY <1>1, <1>2, <1>3, <1>4, <1>5, <1>6, <1>7, <1>8

LEMMA EnterKeeps ==
  ASSUME IInv, NEW r \in Requests, NEW i \in 0 .. IdSpace - 1, Enter(r, i)
  PROVE  IInv'
  <1> USE ConstantsAssumption
  <1> USE DEF IInv, table, net, calls, Enter, FreeNumber, NoStaleId
  <1>1. TypeOK'
    BY DEF TypeOK
  <1>2. UniqueIds'
    BY DEF TypeOK, UniqueIds, WithId
  <1>3. OwnResponse'
    BY DEF OwnResponse
  <1>4. Watched'
    BY DEF Watched
  <1>5. ASSUME NEW n \in (sent \cup replies)' PROVE MessageInv(n)'
    <2>1. n \in sent \cup replies /\ MessageInv(n) /\ n.req \in Requests
      BY <1>5 DEF TypeOK, Message
    <2>2. n.req # r
      BY <2>1 DEF RequestInv, InFlight, Unsent
    <2>3. QED
      BY <2>1, <2>2 DEF MessageInv
  <1>6. ASSUME NEW q \in Requests PROVE RequestInv(q)'
    <2>1. \A s \in outstanding : id[s] # i
      BY DEF WithId
    <2>2. CASE q = r
      <3>1. ~InFlight(r) /\ r \notin found
        BY DEF RequestInv, Unsent
      <3>2. \A s \in outstanding' : id'[s] = id'[r] => s = r
        BY <2>1 DEF TypeOK
      <3>3. QED
        BY <2>2, <3>1, <3>2 DEF RequestInv, Unsent, InFlight, TypeOK
    <2>3. CASE q # r
      <3>1. pc[q] = "entered" \/ InFlight(q) => id[q] # i
        <4>1. CASE pc[q] = "entered"
          BY <2>1, <4>1
        <4>2. CASE InFlight(q)
          BY <4>2 DEF InFlight, MessageInv
        <4>3. QED
          BY <4>1, <4>2
      <3>2. /\ pc'[q] = pc[q] /\ id'[q] = id[q]
            /\ InFlight(q)' = InFlight(q) /\ found' = found
            /\ q \in outstanding' => q \in outstanding
        BY <2>3 DEF InFlight
      <3>3. ASSUME pc[q] = "entered" \/ InFlight(q),
                   NEW s \in outstanding', id'[s] = id'[q]
            PROVE  s = q
        BY <3>1, <3>2, <3>3 DEF TypeOK, RequestInv
      <3>4. QED
        BY <3>2, <3>3 DEF RequestInv, Unsent
    <2>4. QED
      BY <2>2, <2>3
  <1>7. ASSUME NEW q \in Callback PROVE HandlerInv(q)'
    BY <1>7 DEF HandlerInv, Unsent, InFlight
  <1>8. ASSUME NEW b \in closing' PROVE TodoInv(b)'
    BY <1>8 DEF TodoInv, Unsent
  <1>9. QED
    BY <1>1, <1>2, <1>3, <1>4, <1>5, <1>6, <1>7, <1>8

LEMMA SendKeeps ==
  ASSUME IInv, NEW r \in Requests, Send(r)
  PROVE  IInv'
  <1> USE ConstantsAssumption
  <1> USE DEF IInv, table, net, calls, Send
  <1>1. TypeOK'
    <2>1. [req |-> r, id |-> id[r]] \in Message
      BY DEF Message, TypeOK
    <2>2. CASE /\ pc' = [pc EXCEPT ![r] = "waiting"]
               /\ UNCHANGED <<connected, closing>>
      BY <2>1, <2>2 DEF TypeOK
    <2>3. CASE Throw(r) /\ UNCHANGED sent
      BY <2>3, ThrowKeepsTypes DEF TypeOK
    <2>4. QED
      BY <2>2, <2>3
  <1>2. UniqueIds'
    BY ThrowKeepsTypes DEF UniqueIds
  <1>3. OwnResponse'
    BY ThrowKeepsTypes DEF OwnResponse
  <1>4. Watched'
    BY ThrowKeepsTypes DEF Watched
  <1>5. ASSUME NEW n \in (sent \cup replies)' PROVE MessageInv(n)'
    <2>1. CASE n \in sent \cup replies
      <3>1. MessageInv(n) /\ n.req # r
        BY <2>1 DEF RequestInv, InFlight
      <3>2. n \in sent' <=> n \in sent
        BY <3>1
      <3>3. QED
        BY <3>1, <3>2 DEF MessageInv
    <2>2. CASE n \notin sent \cup replies
      <3>1. n = [req |-> r, id |-> id[r]]
        BY <2>2, <1>5
      <3>2. QED
        BY <3>1, <2>2 DEF MessageInv
    <2>3. QED
      BY <2>1, <2>2
  <1>6. ASSUME NEW q \in Requests PROVE RequestInv(q)'
    BY ThrowKeepsTypes, <1>6 DEF TypeOK, RequestInv, Unsent, InFlight
  <1>7. ASSUME NEW q \in Callback PROVE HandlerInv(q)'
    <2>1. CASE q = r
      <3>1. /\ values[q] = 0 /\ q \notin found
            /\ ~Unsent(q)' /\ pc'[q] # "entered"
        BY <2>1, ThrowKeepsTypes DEF TypeOK, HandlerInv, RequestInv, Unsent
      <3>2. QED
        BY <3>1 DEF HandlerInv
    <2>2. CASE q # r
      <3>1. pc'[q] = pc[q]
        BY <2>2, ThrowKeepsTypes DEF TypeOK, Requests
      <3>2. InFlight(q)' => InFlight(q)
        BY <2>2 DEF InFlight
      <3>3. QED
        BY <3>1, <3>2 DEF HandlerInv, Unsent
    <2>3. QED
      BY <2>1, <2>2
  <1>8. ASSUME NEW b \in closing' PROVE TodoInv(b)'
    <2>1. \A q \in Callback : Unsent(q) \/ ~Unsent(q)'
      BY ThrowKeepsTypes DEF TypeOK, Unsent, Requests
    <2>2. \A a \in closing' : a \in closing \/ a.todo = {}
      BY ThrowKeepsTypes
    <2>3. QED
      BY <2>1, <2>2, TodoKept, <1>8
  <1>9. QED
    BY <1>1, <1>2, <1>3, <1>4, <1>5, <1>6, <1>7, <1>8

LEMMA SyncReturnKeeps ==
  ASSUME IInv, NEW r \in Requests, SyncReturn(r)
  PROVE  IInv'
  <1> USE ConstantsAssumption
  <1> USE DEF IInv, table, net, calls, SyncReturn
  <1>1. TypeOK'
    BY DEF TypeOK
  <1>2. UniqueIds'
    BY DEF UniqueIds
  <1>3. OwnResponse'
    BY DEF OwnResponse
  <1>4. Watched'
    BY DEF Watched
  <1>5. ASSUME NEW n \in (sent \cup replies)' PROVE MessageInv(n)'
    BY <1>5 DEF MessageInv
  <1>6. ASSUME NEW q \in Requests PROVE RequestInv(q)'
    BY <1>6 DEF TypeOK, RequestInv, Unsent, InFlight
  <1>7. ASSUME NEW q \in Callback PROVE HandlerInv(q)'
    <2>1. q # r
      BY <1>7
    <2>2. QED
      BY <2>1, HandlerKept DEF Unsent, TypeOK, Requests
  <1>8. ASSUME NEW b \in closing' PROVE TodoInv(b)'
    <2>1. \A q \in Callback : q # r
      OBVIOUS
    <2>2. outstanding' \subseteq outstanding
      OBVIOUS
    <2>3. \A q \in Callback : Unsent(q)' = Unsent(q)
      BY <2>1 DEF TypeOK, Unsent, Requests
    <2>4. QED
      BY <2>2, <2>3, TodoKept, <1>8
  <1>9. QED
    BY <1>1, <1>2, <1>3, <1>4, <1>5, <1>6, <1>7, <1>8

LEMMA SyncConnectionLostKeeps ==
  ASSUME IInv, NEW r \in Requests, SyncConnectionLost(r)
  PROVE  IInv'
  <1> USE ConstantsAssumption
  <1> USE DEF IInv, table, net, calls, SyncConnectionLost
  <1>1. TypeOK'
    BY DEF TypeOK
  <1>2. UniqueIds'
    BY DEF UniqueIds
  <1>3. OwnResponse'
    BY DEF OwnResponse
  <1>4. Watched'
    BY DEF Watched
  <1>5. ASSUME NEW n \in (sent \cup replies)' PROVE MessageInv(n)'
    BY <1>5 DEF MessageInv
  <1>6. ASSUME NEW q \in Requests PROVE RequestInv(q)'
    BY <1>6 DEF RequestInv, Unsent, InFlight
  <1>7. ASSUME NEW q \in Callback PROVE HandlerInv(q)'
    BY <1>7 DEF HandlerInv, Unsent, InFlight
  <1>8. ASSUME NEW b \in closing' PROVE TodoInv(b)'
    BY <1>8 DEF TodoInv, Unsent
  <1>9. QED
    BY <1>1, <1>2, <1>3, <1>4, <1>5, <1>6, <1>7, <1>8

LEMMA SyncTimeoutKeeps ==
  ASSUME IInv, NEW r \in Requests, SyncTimeout(r)
  PROVE  IInv'
  <1> USE ConstantsAssumption
  <1> USE DEF IInv, table, net, calls, SyncTimeout
  <1>1. TypeOK'
    BY DEF TypeOK
  <1>2. UniqueIds'
    BY DEF UniqueIds
  <1>3. OwnResponse'
    BY DEF OwnResponse
  <1>4. Watched'
    BY DEF Watched
  <1>5. ASSUME NEW n \in (sent \cup replies)' PROVE MessageInv(n)'
    BY <1>5 DEF MessageInv
  <1>6. ASSUME NEW q \in Requests PROVE RequestInv(q)'
    BY <1>6 DEF RequestInv, Unsent, InFlight
  <1>7. ASSUME NEW q \in Callback PROVE HandlerInv(q)'
    BY <1>7 DEF HandlerInv, Unsent, InFlight
  <1>8. ASSUME NEW b \in closing' PROVE TodoInv(b)'
    BY <1>8 DEF TodoInv, Unsent
  <1>9. QED
    BY <1>1, <1>2, <1>3, <1>4, <1>5, <1>6, <1>7, <1>8

LEMMA MatchResponseKeeps ==
  ASSUME IInv, NEW m \in sent \cup replies, MatchResponse(m)
  PROVE  IInv'
  <1> USE ConstantsAssumption
  <1> USE DEF IInv, table, net, calls, MatchResponse, HandlerOf
  <1>0. /\ m \in replies /\ m \in Message
        /\ \E r \in outstanding : id[r] = m.id
        /\ \A r \in outstanding : id[r] = m.id => r = m.req
    BY DEF WithId, TypeOK, RequestInv, InFlight, MessageInv, Message
  <1>a. /\ m.req \in outstanding /\ m.req \in Requests
        /\ ret' = [ret EXCEPT ![m.req] = m.req]
        /\ found' = found \cup ({m.req} \cap Callback)
        /\ timer' = [timer EXCEPT ![m.req] = IF @ = "armed" THEN "over" ELSE @]
    <2>1. PICK r \in WithId(m.id) :
            /\ ret' = [ret EXCEPT ![r] = m.req]
            /\ timer' = [timer EXCEPT ![r] = IF @ = "armed" THEN "over" ELSE @]
            /\ found' = found \cup ({r} \cap Callback)
      OBVIOUS
    <2>2. r = m.req /\ r \in outstanding
      BY <1>0 DEF WithId
    <2>3. QED
      BY <2>1, <2>2 DEF TypeOK
  <1>b. /\ sent' = sent /\ replies' = replies \ {m}
        /\ \A n \in sent \cup replies : n.req = m.req => n = m
        /\ m \notin sent
    <2>1. \A n \in sent \cup replies : n = [req |-> n.req, id |-> id[n.req]]
      BY DEF MessageInv, TypeOK, Message
    <2>2. QED
      BY <2>1, <1>0 DEF MessageInv
  <1>c. ~InFlight(m.req)'
    BY <1>b DEF InFlight
  <1>1. TypeOK'
    BY <1>a DEF TypeOK
  <1>2. UniqueIds'
    BY DEF UniqueIds
  <1>3. OwnResponse'
    BY <1>a DEF OwnResponse
  <1>4. Watched'
    BY DEF Watched
  <1>5. ASSUME NEW n \in (sent \cup replies)' PROVE MessageInv(n)'
    BY <1>5 DEF MessageInv
  <1>6. ASSUME NEW q \in Requests PROVE RequestInv(q)'
    <2>1. InFlight(q)' => InFlight(q)
      BY <1>b DEF InFlight
    <2>2. q \in found' /\ q \notin found => q = m.req /\ InFlight(q)
      BY <1>0, <1>a DEF InFlight
    <2>3. QED
      BY <2>1, <2>2 DEF RequestInv, Unsent
  <1>7. ASSUME NEW q \in Callback PROVE HandlerInv(q)'
    <2>1. CASE q = m.req
      <3>1. InFlight(q)
        BY <2>1, <1>0 DEF InFlight
      <3>2. QED
        BY <2>1, <3>1, <1>c DEF HandlerInv, Unsent
    <2>2. CASE q # m.req
      <3>1. (q \in found' <=> q \in found) /\ (InFlight(q)' => InFlight(q))
        BY <2>2, <1>a, <1>b DEF InFlight
      <3>2. QED
        BY <3>1 DEF HandlerInv, Unsent
    <2>3. QED
      BY <2>1, <2>2
  <1>8. ASSUME NEW b \in closing' PROVE TodoInv(b)'
    BY <1>8 DEF TodoInv, Unsent
  <1>9. QED
    BY <1>1, <1>2, <1>3, <1>4, <1>5, <1>6, <1>7, <1>8

LEMMA DropResponseKeeps ==
  ASSUME IInv, NEW m \in sent \cup replies, DropResponse(m)
  PROVE  IInv'
  <1> USE ConstantsAssumption
  <1> USE DEF IInv, table, net, calls, DropResponse
  <1>1. TypeOK'
    BY DEF TypeOK
  <1>2. UniqueIds'
    BY DEF UniqueIds
  <1>3. OwnResponse'
    BY DEF OwnResponse
  <1>4. Watched'
    BY DEF Watched
  <1>5. ASSUME NEW n \in (sent \cup replies)' PROVE MessageInv(n)'
    BY <1>5 DEF MessageInv
  <1>6. ASSUME NEW q \in Requests PROVE RequestInv(q)'
    BY <1>6 DEF RequestInv, Unsent, InFlight
  <1>7. ASSUME NEW q \in Callback PROVE HandlerInv(q)'
    BY <1>7 DEF HandlerInv, Unsent, InFlight
  <1>8. ASSUME NEW b \in closing' PROVE TodoInv(b)'
    BY <1>8 DEF TodoInv, Unsent
  <1>9. QED
    BY <1>1, <1>2, <1>3, <1>4, <1>5, <1>6, <1>7, <1>8

LEMMA SendFailsKeeps ==
  ASSUME IInv, NEW m \in sent \cup replies, SendFails(m)
  PROVE  IInv'
  <1> USE ConstantsAssumption
  <1> USE DEF IInv, table, net, calls, SendFails
  <1>0. /\ outstanding' \subseteq outstanding
        /\ errors' \in [Callback -> Nat]
        /\ values' = values /\ reports' = reports
        /\ \A q \in Callback :
             \/ errors'[q] = errors[q]
             \/ q \in outstanding \ outstanding' /\ errors'[q] = errors[q] + 1
        /\ closing' \subseteq CloseRun
        /\ \A a \in closing' : a \in closing \/ a.todo = {}
    <2>1. CASE FailRequest(m.id)
      BY <2>1, FailRequestEnds DEF WithId
    <2>2. CASE UNCHANGED <<outstanding, closing, calls>>
      BY <2>2 DEF TypeOK
    <2>3. QED
      BY <2>1, <2>2
  <1>1. TypeOK'
    BY <1>0 DEF TypeOK
  <1>2. UniqueIds'
    BY <1>0 DEF UniqueIds
  <1>3. OwnResponse'
    BY DEF OwnResponse
  <1>4. Watched'
    BY <1>0 DEF Watched
  <1>5. ASSUME NEW n \in (sent \cup replies)' PROVE MessageInv(n)'
    BY <1>5 DEF MessageInv
  <1>6. ASSUME NEW q \in Requests PROVE RequestInv(q)'
    <2>1. InFlight(q)' => InFlight(q)
      BY DEF InFlight
    <2>2. QED
      BY <1>0, <2>1 DEF RequestInv, Unsent
  <1>7. ASSUME NEW q \in Callback PROVE HandlerInv(q)'
    <2>1. InFlight(q)' => InFlight(q)
      BY DEF InFlight
    <2>2. values'[q] = values[q] /\ found' = found /\ Unsent(q)' = Unsent(q)
      BY <1>0 DEF Unsent
    <2>3. CASE errors'[q] = errors[q]
      BY <1>0, <2>1, <2>2, <2>3 DEF HandlerInv
    <2>4. CASE q \in outstanding \ outstanding' /\ errors'[q] = errors[q] + 1
      <3>1. errors[q] = 0 /\ ~Unsent(q)
        BY <2>4 DEF HandlerInv, RequestInv, Requests
      <3>2. QED
        BY <2>1, <2>2, <2>4, <3>1 DEF HandlerInv
    <2>5. QED
      BY <1>0, <2>3, <2>4
  <1>8. ASSUME NEW b \in closing' PROVE TodoInv(b)'
    <2>1. \A q \in Callback :
            errors[q] = 0 /\ q \notin outstanding /\ ~Unsent(q)
             => errors'[q] = 0 /\ q \notin outstanding' /\ ~Unsent(q)'
      BY <1>0 DEF Unsent
    <2>2. QED
      BY <1>0, <2>1, TodoKept, <1>8
  <1>9. QED
    BY <1>1, <1>2, <1>3, <1>4, <1>5, <1>6, <1>7, <1>8

LEMMA RespondKeeps ==
  ASSUME IInv, NEW m \in sent \cup replies, Respond(m)
  PROVE  IInv'
  <1> USE ConstantsAssumption
  <1> USE DEF IInv, table, net, calls, Respond
  <1>1. TypeOK'
    BY DEF TypeOK
  <1>2. UniqueIds'
    BY DEF UniqueIds
  <1>3. OwnResponse'
    BY DEF OwnResponse
  <1>4. Watched'
    BY DEF Watched
  <1>5. ASSUME NEW n \in (sent \cup replies)' PROVE MessageInv(n)'
    BY <1>5 DEF MessageInv
  <1>6. ASSUME NEW q \in Requests PROVE RequestInv(q)'
    BY <1>6 DEF RequestInv, Unsent, InFlight
  <1>7. ASSUME NEW q \in Callback PROVE HandlerInv(q)'
    BY <1>7 DEF HandlerInv, Unsent, InFlight
  <1>8. ASSUME NEW b \in closing' PROVE TodoInv(b)'
    BY <1>8 DEF TodoInv, Unsent
  <1>9. QED
    BY <1>1, <1>2, <1>3, <1>4, <1>5, <1>6, <1>7, <1>8

LEMMA AnswerHandlerKeeps ==
  ASSUME IInv, NEW r \in Callback, AnswerHandler(r)
  PROVE  IInv'
  <1> USE ConstantsAssumption
  <1> USE DEF IInv, table, net, calls, AnswerHandler
  <1>0. /\ closing' \subseteq CloseRun
        /\ \A a \in closing' : a \in closing \/ a.todo = {}
    <2>1. /\ Started({r}, "response") \subseteq CloseRun
          /\ \A a \in Started({r}, "response") : a.todo = {}
      BY StartedRuns DEF Requests
    <2>2. QED
      BY <2>1 DEF TypeOK
  <1>a. /\ values' = [values EXCEPT ![r] = @ + 1]
        /\ errors' = errors /\ reports' = reports
    BY DEF CallWithResponse
  <1>b. outstanding' \subseteq outstanding /\ test' \in BOOLEAN
    BY DEF TestAfter
  <1>1. TypeOK'
    <2>1. values' \in [Callback -> Nat]
      BY <1>a DEF TypeOK
    <2>2. outstanding' \subseteq Requests /\ found' \subseteq Callback
      BY <1>b DEF TypeOK
    <2>3. QED
      BY <1>0, <1>a, <1>b, <2>1, <2>2 DEF TypeOK
  <1>2. UniqueIds'
    BY DEF UniqueIds
  <1>3. OwnResponse'
    BY DEF OwnResponse
  <1>4. Watched'
    BY DEF Watched, TestAfter
  <1>5. ASSUME NEW n \in (sent \cup replies)' PROVE MessageInv(n)'
    BY <1>5 DEF MessageInv
  <1>6. ASSUME NEW q \in Requests PROVE RequestInv(q)'
    BY <1>6 DEF RequestInv, Unsent, InFlight
  <1>7. ASSUME NEW q \in Callback PROVE HandlerInv(q)'
    <2>1. /\ errors'[q] = errors[q] /\ Unsent(q)' = Unsent(q)
          /\ InFlight(q)' = InFlight(q)
      BY <1>a DEF Unsent, InFlight
    <2>2. CASE q = r
      <3>1. values'[q] = 1 /\ q \notin found' /\ ~InFlight(q)
        BY <1>a, <2>2 DEF HandlerInv, TypeOK
      <3>2. ~Unsent(q) /\ pc[q] # "entered"
        BY <2>2 DEF RequestInv, Requests
      <3>3. QED
        BY <1>b, <2>1, <3>1, <3>2 DEF HandlerInv
    <2>3. CASE q # r
      <3>1. values'[q] = values[q] /\ (q \in found' <=> q \in found)
        BY <1>a, <2>3
      <3>2. QED
        BY <1>b, <2>1, <3>1 DEF HandlerInv
    <2>4. QED
      BY <2>2, <2>3
  <1>8. ASSUME NEW b \in closing' PROVE TodoInv(b)'
    <2>1. \A q \in Callback :
            errors[q] = 0 /\ q \notin outstanding /\ ~Unsent(q)
             => errors'[q] = 0 /\ q \notin outstanding' /\ ~Unsent(q)'
      BY <1>a, <1>b DEF Unsent
    <2>2. QED
      BY <1>0, <2>1, TodoKept, <1>8
  <1>9. QED
    BY <1>1, <1>2, <1>3, <1>4, <1>5, <1>6, <1>7, <1>8

LEMMA TimerExpiresKeeps ==
  ASSUME IInv, NEW r \in Requests, TimerExpires(r)
  PROVE  IInv'
  <1> USE ConstantsAssumption
  <1> USE DEF IInv, table, net, calls, TimerExpires
  <1>1. TypeOK'
    BY DEF TypeOK
  <1>2. UniqueIds'
    BY DEF UniqueIds
  <1>3. OwnResponse'
    BY DEF OwnResponse
  <1>4. Watched'
    BY DEF Watched
  <1>5. ASSUME NEW n \in (sent \cup replies)' PROVE MessageInv(n)'
    BY <1>5 DEF MessageInv
  <1>6. ASSUME NEW q \in Requests PROVE RequestInv(q)'
    BY <1>6 DEF RequestInv, Unsent, InFlight
  <1>7. ASSUME NEW q \in Callback PROVE HandlerInv(q)'
    BY <1>7 DEF HandlerInv, Unsent, InFlight
  <1>8. ASSUME NEW b \in closing' PROVE TodoInv(b)'
    BY <1>8 DEF TodoInv, Unsent
  <1>9. QED
    BY <1>1, <1>2, <1>3, <1>4, <1>5, <1>6, <1>7, <1>8

LEMMA RequestTimeoutKeeps ==
  ASSUME IInv, NEW r \in Requests, RequestTimeout(r)
  PROVE  IInv'
  <1> USE ConstantsAssumption
  <1> USE DEF IInv, table, net, calls, RequestTimeout
  <1>0. /\ outstanding' \subseteq outstanding
        /\ errors' \in [Callback -> Nat]
        /\ values' = values /\ reports' = reports
        /\ \A q \in Callback :
             \/ errors'[q] = errors[q]
             \/ q \in outstanding \ outstanding' /\ errors'[q] = errors[q] + 1
        /\ closing' \subseteq CloseRun
        /\ \A a \in closing' : a \in closing \/ a.todo = {}
    BY FailRequestEnds DEF WithId
  <1>1. TypeOK'
    BY <1>0 DEF TypeOK
  <1>2. UniqueIds'
    BY <1>0 DEF UniqueIds
  <1>3. OwnResponse'
    BY DEF OwnResponse
  <1>4. Watched'
    BY <1>0 DEF Watched
  <1>5. ASSUME NEW n \in (sent \cup replies)' PROVE MessageInv(n)'
    BY <1>5 DEF MessageInv
  <1>6. ASSUME NEW q \in Requests PROVE RequestInv(q)'
    <2>1. InFlight(q)' => InFlight(q)
      BY DEF InFlight
    <2>2. QED
      BY <1>0, <2>1 DEF RequestInv, Unsent
  <1>7. ASSUME NEW q \in Callback PROVE HandlerInv(q)'
    <2>1. InFlight(q)' => InFlight(q)
      BY DEF InFlight
    <2>2. values'[q] = values[q] /\ found' = found /\ Unsent(q)' = Unsent(q)
      BY <1>0 DEF Unsent
    <2>3. CASE errors'[q] = errors[q]
      BY <1>0, <2>1, <2>2, <2>3 DEF HandlerInv
    <2>4. CASE q \in outstanding \ outstanding' /\ errors'[q] = errors[q] + 1
      <3>1. errors[q] = 0 /\ ~Unsent(q)
        BY <2>4 DEF HandlerInv, RequestInv, Requests
      <3>2. QED
        BY <2>1, <2>2, <2>4, <3>1 DEF HandlerInv
    <2>5. QED
      BY <1>0, <2>3, <2>4
  <1>8. ASSUME NEW b \in closing' PROVE TodoInv(b)'
    <2>1. \A q \in Callback :
            errors[q] = 0 /\ q \notin outstanding /\ ~Unsent(q)
             => errors'[q] = 0 /\ q \notin outstanding' /\ ~Unsent(q)'
      BY <1>0 DEF Unsent
    <2>2. QED
      BY <1>0, <2>1, TodoKept, <1>8
  <1>9. QED
    BY <1>1, <1>2, <1>3, <1>4, <1>5, <1>6, <1>7, <1>8

LEMMA ProbeFailsKeeps ==
  ASSUME IInv, ProbeFails
  PROVE  IInv'
  <1> USE ConstantsAssumption
  <1> USE DEF IInv, table, net, calls, ProbeFails
  <1>1. TypeOK'
    BY DEF TypeOK
  <1>2. UniqueIds'
    BY DEF UniqueIds
  <1>3. OwnResponse'
    BY DEF OwnResponse
  <1>4. Watched'
    BY DEF Watched
  <1>5. ASSUME NEW n \in (sent \cup replies)' PROVE MessageInv(n)'
    BY <1>5 DEF MessageInv
  <1>6. ASSUME NEW q \in Requests PROVE RequestInv(q)'
    BY <1>6 DEF RequestInv, Unsent, InFlight
  <1>7. ASSUME NEW q \in Callback PROVE HandlerInv(q)'
    BY <1>7 DEF HandlerInv, Unsent, InFlight
  <1>8. ASSUME NEW b \in closing' PROVE TodoInv(b)'
    BY <1>8 DEF TodoInv, Unsent
  <1>9. QED
    BY <1>1, <1>2, <1>3, <1>4, <1>5, <1>6, <1>7, <1>8

LEMMA ProbeTakesAllKeeps ==
  ASSUME IInv, ProbeTakesAll
  PROVE  IInv'
  <1> USE ConstantsAssumption
  <1> USE DEF IInv, table, net, calls, ProbeTakesAll
  <1>0. /\ outstanding' \subseteq outstanding
        /\ errors' \in [Callback -> Nat]
        /\ values' = values /\ reports' = reports
        /\ \A q \in Callback :
             \/ errors'[q] = errors[q]
             \/ q \in outstanding \ outstanding' /\ errors'[q] = errors[q] + 1
        /\ closing' \subseteq CloseRun
        /\ \A a \in closing' : a \in closing \/ a.todo = {}
    <2>1. /\ Started(outstanding, "failure") \subseteq CloseRun
          /\ \A a \in Started(outstanding, "failure") : a.todo = {}
      BY StartedRuns DEF TypeOK
    <2>2. CallWithError(outstanding \cap Callback)
      OBVIOUS
    <2>3. QED
      BY <2>1, <2>2, ErrorsCounted DEF TypeOK
  <1>1. TypeOK'
    BY <1>0 DEF TypeOK
  <1>2. UniqueIds'
    BY <1>0 DEF UniqueIds
  <1>3. OwnResponse'
    BY DEF OwnResponse
  <1>4. Watched'
    BY DEF Watched
  <1>5. ASSUME NEW n \in (sent \cup replies)' PROVE MessageInv(n)'
    BY <1>5 DEF MessageInv
  <1>6. ASSUME NEW q \in Requests PROVE RequestInv(q)'
    <2>1. InFlight(q)' => InFlight(q)
      BY DEF InFlight
    <2>2. QED
      BY <1>0, <2>1 DEF RequestInv, Unsent
  <1>7. ASSUME NEW q \in Callback PROVE HandlerInv(q)'
    <2>1. InFlight(q)' => InFlight(q)
      BY DEF InFlight
    <2>2. values'[q] = values[q] /\ found' = found /\ Unsent(q)' = Unsent(q)
      BY <1>0 DEF Unsent
    <2>3. CASE errors'[q] = errors[q]
      BY <1>0, <2>1, <2>2, <2>3 DEF HandlerInv
    <2>4. CASE q \in outstanding \ outstanding' /\ errors'[q] = errors[q] + 1
      <3>1. errors[q] = 0 /\ ~Unsent(q)
        BY <2>4 DEF HandlerInv, RequestInv, Requests
      <3>2. QED
        BY <2>1, <2>2, <2>4, <3>1 DEF HandlerInv
    <2>5. QED
      BY <1>0, <2>3, <2>4
  <1>8. ASSUME NEW b \in closing' PROVE TodoInv(b)'
    <2>1. \A q \in Callback :
            errors[q] = 0 /\ q \notin outstanding /\ ~Unsent(q)
             => errors'[q] = 0 /\ q \notin outstanding' /\ ~Unsent(q)'
      BY <1>0 DEF Unsent
    <2>2. QED
      BY <1>0, <2>1, TodoKept, <1>8
  <1>9. QED
    BY <1>1, <1>2, <1>3, <1>4, <1>5, <1>6, <1>7, <1>8

LEMMA DisconnectKeeps ==
  ASSUME IInv, NEW a \in closing, Disconnect(a)
  PROVE  IInv'
  <1> USE ConstantsAssumption
  <1> USE DEF IInv, table, net, calls, Disconnect
  <1>1. TypeOK'
    BY DEF TypeOK
  <1>2. UniqueIds'
    BY DEF UniqueIds
  <1>3. OwnResponse'
    BY DEF OwnResponse
  <1>4. Watched'
    BY DEF Watched
  <1>5. ASSUME NEW n \in (sent \cup replies)' PROVE MessageInv(n)'
    BY <1>5 DEF MessageInv
  <1>6. ASSUME NEW q \in Requests PROVE RequestInv(q)'
    BY <1>6 DEF RequestInv, Unsent, InFlight
  <1>7. ASSUME NEW q \in Callback PROVE HandlerInv(q)'
    BY <1>7 DEF HandlerInv, Unsent, InFlight
  <1>8. ASSUME NEW b \in closing' PROVE TodoInv(b)'
    BY <1>8 DEF TodoInv, Unsent
  <1>9. QED
    BY <1>1, <1>2, <1>3, <1>4, <1>5, <1>6, <1>7, <1>8

LEMMA CloseTakesAllKeeps ==
  ASSUME IInv, NEW a \in closing, CloseTakesAll(a)
  PROVE  IInv'
  <1> USE ConstantsAssumption
  <1> USE DEF IInv, table, net, calls, CloseTakesAll, HandlersTaken
  <1>1. TypeOK'
    <2>1. [a EXCEPT !.at = "calling", !.todo = outstanding \cap Callback]
            \in CloseRun
      BY DEF TypeOK, CloseRun
    <2>2. QED
      BY <2>1 DEF TypeOK
  <1>2. UniqueIds'
    BY DEF UniqueIds
  <1>3. OwnResponse'
    BY DEF OwnResponse
  <1>4. Watched'
    BY DEF Watched
  <1>5. ASSUME NEW n \in (sent \cup replies)' PROVE MessageInv(n)'
    BY <1>5 DEF MessageInv
  <1>6. ASSUME NEW q \in Requests PROVE RequestInv(q)'
    BY <1>6 DEF RequestInv, Unsent, InFlight
  <1>7. ASSUME NEW q \in Callback PROVE HandlerInv(q)'
    BY <1>7 DEF HandlerInv, Unsent, InFlight
  <1>8. ASSUME NEW b \in closing' PROVE TodoInv(b)'
    <2> DEFINE new == [a EXCEPT !.at = "calling",
                                !.todo = outstanding \cap Callback]
    <2>1. new.todo = outstanding \cap Callback /\ closing \subseteq CloseRun
      BY DEF TypeOK
    <2>2. closing' = (closing \ {a}) \cup {new} /\ errors' = errors
      OBVIOUS
    <2>3. \A c \in closing : c.todo \subseteq Callback \ outstanding
      BY DEF TodoInv, TypeOK, CloseRun
    <2>4. outstanding' = {} /\ \A q \in Callback : Unsent(q)' = Unsent(q)
      BY DEF Unsent
    <2> HIDE DEF new
    <2>5. CASE b = new
      <3>1. ASSUME NEW q \in new.todo
            PROVE  /\ errors[q] = 0 /\ ~Unsent(q) /\ q \in Callback
                   /\ \A c \in closing' : q \in c.todo => c = new
        BY <2>1, <2>2, <2>3, <3>1 DEF HandlerInv, RequestInv, Requests
      <3>2. QED
        BY <2>2, <2>4, <2>5, <3>1 DEF TodoInv
    <2>6. CASE b # new
      <3>1. b \in closing
        BY <2>2, <2>6, <1>8
      <3>2. ASSUME NEW q \in b.todo
            PROVE  \A c \in closing' : q \in c.todo => c = b
        BY <2>1, <2>2, <2>3, <3>1, <3>2 DEF TodoInv
      <3>3. QED
        BY <2>2, <2>3, <2>4, <3>1, <3>2 DEF TodoInv
    <2>7. QED
      BY <2>5, <2>6
  <1>9. QED
    BY <1>1, <1>2, <1>3, <1>4, <1>5, <1>6, <1>7, <1>8

LEMMA CloseCallsKeeps ==
  ASSUME IInv, NEW a \in closing, NEW r \in Callback, CloseCalls(a, r)
  PROVE  IInv'
  <1> USE ConstantsAssumption
  <1> USE DEF IInv, table, net, calls, CloseCalls
  <1>0. /\ errors' \in [Callback -> Nat]
        /\ values' = values /\ reports' = reports
        /\ errors'[r] = errors[r] + 1
        /\ \A q \in Callback : q # r => errors'[q] = errors[q]
    BY ErrorsCounted
  <1>a. /\ closing' \subseteq CloseRun
        /\ \A c \in closing' : \/ c \in closing \ {a}
                              \/ c = [a EXCEPT !.todo = @ \ {r}]
                              \/ c.todo = {}
    <2>1. /\ Started({r}, "failure") \subseteq CloseRun
          /\ \A c \in Started({r}, "failure") : c.todo = {}
      BY StartedRuns DEF Requests
    <2>2. [a EXCEPT !.todo = @ \ {r}] \in CloseRun
      BY DEF TypeOK, CloseRun
    <2>3. QED
      BY <2>1, <2>2 DEF TypeOK
  <1>1. TypeOK'
    BY <1>0, <1>a DEF TypeOK
  <1>2. UniqueIds'
    BY DEF UniqueIds
  <1>3. OwnResponse'
    BY DEF OwnResponse
  <1>4. Watched'
    BY DEF Watched
  <1>5. ASSUME NEW n \in (sent \cup replies)' PROVE MessageInv(n)'
    BY <1>5 DEF MessageInv
  <1>6. ASSUME NEW q \in Requests PROVE RequestInv(q)'
    BY <1>6 DEF RequestInv, Unsent, InFlight
  <1>7. ASSUME NEW q \in Callback PROVE HandlerInv(q)'
    <2>1. Unsent(q)' = Unsent(q) /\ InFlight(q)' = InFlight(q)
      BY DEF Unsent, InFlight
    <2>2. CASE q = r
      <3>1. /\ errors[q] = 0 /\ errors'[q] = 1
            /\ ~Unsent(q) /\ q \notin outstanding
        BY <1>0, <2>2 DEF TodoInv
      <3>2. QED
        BY <1>0, <2>1, <3>1 DEF HandlerInv
    <2>3. CASE q # r
      <3>1. errors'[q] = errors[q]
        BY <1>0, <2>3
      <3>2. QED
        BY <1>0, <2>1, <3>1 DEF HandlerInv
    <2>4. QED
      BY <2>2, <2>3
  <1>8. ASSUME NEW b \in closing' PROVE TodoInv(b)'
    <2> DEFINE rest == [a EXCEPT !.todo = @ \ {r}]
    <2>1. rest.todo = a.todo \ {r}
      OBVIOUS
    <2>2. \A c \in closing' : c \in closing \ {a} \/ c = rest \/ c.todo = {}
      BY <1>a
    <2>3. /\ outstanding' = outstanding
          /\ \A q \in Requests : Unsent(q)' = Unsent(q)
      BY DEF Unsent
    <2>4. \A c \in closing : c.todo \subseteq Callback
      BY DEF TypeOK, CloseRun
    <2> HIDE DEF rest
    <2>5. ASSUME NEW q \in b.todo
          PROVE  /\ q \in Callback /\ q # r /\ errors[q] = 0
                 /\ q \notin outstanding /\ ~Unsent(q)
                 /\ \A c \in closing' : q \in c.todo => c = b
      <3>1. CASE b \in closing \ {a}
        <4>1. /\ q \in Callback /\ errors[q] = 0
              /\ q \notin outstanding /\ ~Unsent(q)
              /\ \A c \in closing : q \in c.todo => c = b
          BY <2>4, <2>5, <3>1 DEF TodoInv
        <4>2. q \notin a.todo
          BY <4>1, <3>1
        <4>3. QED
          BY <2>1, <2>2, <4>1, <4>2
      <3>2. CASE b = rest
        BY <2>1, <2>2, <2>4, <2>5, <3>2 DEF TodoInv
      <3>3. QED
        BY <2>2, <2>5, <3>1, <3>2, <1>8
    <2>6. QED
      BY <1>0, <2>3, <2>5 DEF TodoInv, Requests
  <1>9. QED
    BY <1>1, <1>2, <1>3, <1>4, <1>5, <1>6, <1>7, <1>8

LEMMA CloseClearsAgainKeeps ==
  ASSUME IInv, NEW a \in closing, CloseClearsAgain(a)
  PROVE  IInv'
  <1> USE ConstantsAssumption
  <1> USE DEF IInv, table, net, calls, CloseClearsAgain
  <1>1. TypeOK'
    <2>1. [a EXCEPT !.at = "closing"] \in CloseRun
      BY DEF TypeOK, CloseRun
    <2>2. QED
      BY <2>1 DEF TypeOK
  <1>2. UniqueIds'
    BY DEF UniqueIds
  <1>3. OwnResponse'
    BY DEF OwnResponse
  <1>4. Watched'
    BY DEF Watched
  <1>5. ASSUME NEW n \in (sent \cup replies)' PROVE MessageInv(n)'
    BY <1>5 DEF MessageInv
  <1>6. ASSUME NEW q \in Requests PROVE RequestInv(q)'
    BY <1>6 DEF RequestInv, Unsent, InFlight
  <1>7. ASSUME NEW q \in Callback PROVE HandlerInv(q)'
    BY <1>7 DEF HandlerInv, Unsent, InFlight
  <1>8. ASSUME NEW b \in closing' PROVE TodoInv(b)'
    <2>1. [a EXCEPT !.at = "closing"].todo = {}
      OBVIOUS
    <2>2. \A c \in closing' : c \in closing \/ c.todo = {}
      BY <2>1
    <2>3. \A q \in Callback :
            errors[q] = 0 /\ q \notin outstanding /\ ~Unsent(q)
             => errors'[q] = 0 /\ q \notin outstanding' /\ ~Unsent(q)'
      BY DEF Unsent
    <2>4. QED
      BY <2>2, <2>3, TodoKept, <1>8
  <1>9. QED
    BY <1>1, <1>2, <1>3, <1>4, <1>5, <1>6, <1>7, <1>8

LEMMA CloseEndsKeeps ==
  ASSUME IInv, NEW a \in closing, CloseEnds(a)
  PROVE  IInv'
  <1> USE ConstantsAssumption
  <1> USE DEF IInv, table, net, calls, CloseEnds
  <1>1. TypeOK'
    <2>1. reports' \in [Closers -> Nat]
      BY DEF TypeOK
    <2>2. QED
      BY <2>1 DEF TypeOK
  <1>2. UniqueIds'
    BY DEF UniqueIds
  <1>3. OwnResponse'
    BY DEF OwnResponse
  <1>4. Watched'
    BY DEF Watched
  <1>5. ASSUME NEW n \in (sent \cup replies)' PROVE MessageInv(n)'
    BY <1>5 DEF MessageInv
  <1>6. ASSUME NEW q \in Requests PROVE RequestInv(q)'
    BY <1>6 DEF RequestInv, Unsent, InFlight
  <1>7. ASSUME NEW q \in Callback PROVE HandlerInv(q)'
    BY <1>7 DEF HandlerInv, Unsent, InFlight
  <1>8. ASSUME NEW b \in closing' PROVE TodoInv(b)'
    BY <1>8 DEF TodoInv, Unsent
  <1>9. QED
    BY <1>1, <1>2, <1>3, <1>4, <1>5, <1>6, <1>7, <1>8

LEMMA ServiceClosedKeeps ==
  ASSUME IInv, ServiceClosed
  PROVE  IInv'
  <1> USE ConstantsAssumption
  <1> USE DEF IInv, table, net, calls, ServiceClosed, Run
  <1>1. TypeOK'
    <2>1. [by |-> None, how |-> "service", at |-> "start", todo |-> {}]
            \in CloseRun
      BY DEF CloseRun
    <2>2. QED
      BY <2>1 DEF TypeOK
  <1>2. UniqueIds'
    BY DEF UniqueIds
  <1>3. OwnResponse'
    BY DEF OwnResponse
  <1>4. Watched'
    BY DEF Watched
  <1>5. ASSUME NEW n \in (sent \cup replies)' PROVE MessageInv(n)'
    BY <1>5 DEF MessageInv
  <1>6. ASSUME NEW q \in Requests PROVE RequestInv(q)'
    BY <1>6 DEF RequestInv, Unsent, InFlight
  <1>7. ASSUME NEW q \in Callback PROVE HandlerInv(q)'
    BY <1>7 DEF HandlerInv, Unsent, InFlight
  <1>8. ASSUME NEW b \in closing' PROVE TodoInv(b)'
    BY <1>8 DEF TodoInv, Unsent
  <1>9. QED
    BY <1>1, <1>2, <1>3, <1>4, <1>5, <1>6, <1>7, <1>8

LEMMA ConnectionLostKeeps ==
  ASSUME IInv, ConnectionLost
  PROVE  IInv'
  <1> USE ConstantsAssumption
  <1> USE DEF IInv, table, net, calls, ConnectionLost
  <1>1. TypeOK'
    BY DEF TypeOK
  <1>2. UniqueIds'
    BY DEF UniqueIds
  <1>3. OwnResponse'
    BY DEF OwnResponse
  <1>4. Watched'
    BY DEF Watched
  <1>5. ASSUME NEW n \in (sent \cup replies)' PROVE MessageInv(n)'
    BY <1>5 DEF MessageInv
  <1>6. ASSUME NEW q \in Requests PROVE RequestInv(q)'
    BY <1>6 DEF RequestInv, Unsent, InFlight
  <1>7. ASSUME NEW q \in Callback PROVE HandlerInv(q)'
    BY <1>7 DEF HandlerInv, Unsent, InFlight
  <1>8. ASSUME NEW b \in closing' PROVE TodoInv(b)'
    BY <1>8 DEF TodoInv, Unsent
  <1>9. QED
    BY <1>1, <1>2, <1>3, <1>4, <1>5, <1>6, <1>7, <1>8

-----------------------------------------------------------------------------

LEMMA InitIInv == Init => IInv
  <1> SUFFICES ASSUME Init PROVE IInv
    OBVIOUS
  <1> USE ConstantsAssumption DEF Init
  <1>1. TypeOK
    <2>1. 0 \in 0 .. IdSpace - 1
      OBVIOUS
    <2>2. /\ values \in [Callback -> Nat] /\ errors \in [Callback -> Nat]
          /\ reports \in [Closers -> Nat]
      OBVIOUS
    <2>3. /\ pc \in [Requests -> {"idle"}] /\ timer \in [Requests -> {"none"}]
          /\ ret \in [Requests -> {None}]
          /\ id \in [Requests -> 0 .. IdSpace - 1]
      BY <2>1
    <2>4. QED
      BY <2>1, <2>2, <2>3 DEF TypeOK
  <1>2. UniqueIds /\ OwnResponse /\ Watched
    BY DEF UniqueIds, OwnResponse, Watched
  <1>3. ASSUME NEW r \in Requests PROVE RequestInv(r)
    BY <1>3 DEF RequestInv, InFlight
  <1>4. ASSUME NEW r \in Callback PROVE HandlerInv(r)
    BY <1>4 DEF HandlerInv
  <1>5. QED
    BY <1>1, <1>2, <1>3, <1>4 DEF IInv

LEMMA NextIInv == IInv /\ [Next]_vars => IInv'
  <1> SUFFICES ASSUME IInv, [Next]_vars PROVE IInv'
    OBVIOUS
  <1>1. CASE UNCHANGED vars
    <2> USE <1>1 DEF IInv, vars
    <2>1. TypeOK' /\ UniqueIds' /\ OwnResponse' /\ Watched'
      BY DEF TypeOK, UniqueIds, OwnResponse, Watched
    <2>2. ASSUME NEW m \in (sent \cup replies)' PROVE MessageInv(m)'
      BY <2>2 DEF MessageInv
    <2>3. ASSUME NEW r \in Requests PROVE RequestInv(r)'
      BY <2>3 DEF RequestInv, Unsent, InFlight
    <2>4. ASSUME NEW r \in Callback PROVE HandlerInv(r)'
      BY <2>4 DEF HandlerInv, Unsent, InFlight
    <2>5. ASSUME NEW a \in closing' PROVE TodoInv(a)'
      BY <2>5 DEF TodoInv, Unsent
    <2>6. QED
      BY <2>1, <2>2, <2>3, <2>4, <2>5
  <1>2. ASSUME NEW r \in Requests, CallerStep(r) \/ SyncStep(r) \/ TimerStep(r)
        PROVE  IInv'
    BY <1>2, BeginKeeps, EnterKeeps, SendKeeps, SyncReturnKeeps,
       SyncConnectionLostKeeps, SyncTimeoutKeeps, TimerExpiresKeeps,
       RequestTimeoutKeeps DEF CallerStep, SyncStep, TimerStep
  <1>3. ASSUME NEW m \in sent \cup replies, MessageStep(m) \/ Respond(m)
        PROVE  IInv'
    BY <1>3, MatchResponseKeeps, DropResponseKeeps, SendFailsKeeps,
       RespondKeeps DEF MessageStep
  <1>4. ASSUME NEW a \in closing, CloseStep(a)
        PROVE  IInv'
    BY <1>4, DisconnectKeeps, CloseTakesAllKeeps, CloseCallsKeeps,
       CloseClearsAgainKeeps, CloseEndsKeeps DEF CloseStep
  <1>5. QED
    BY <1>1, <1>2, <1>3, <1>4, AsyncCloseKeeps, AnswerHandlerKeeps,
       ProbeFailsKeeps, ProbeTakesAllKeeps, ServiceClosedKeeps,
       ConnectionLostKeeps DEF Next

-----------------------------------------------------------------------------

(* Who has the id of a message is the request it belongs to, and what a    *)
(* run of AsyncClose1 still has to call is nowhere else.                   *)
THEOREM Invariance == Spec => []IInv
  BY InitIInv, NextIInv, PTL DEF Spec

(* No two requests in the table have one id, also after the numbers have   *)
(* wrapped.                                                                *)
THEOREM IdsUnique == Spec => []UniqueIds
  <1>1. IInv => UniqueIds
    BY DEF IInv
  <1>2. QED
    BY <1>1, Invariance, PTL

(* MessageEntryReceived never gives a request the response to another one. *)
THEOREM ResponsesMatch == Spec => []OwnResponse
  <1>1. IInv => OwnResponse
    BY DEF IInv
  <1>2. QED
    BY <1>1, Invariance, PTL

(* However the response, a timeout, a failed send, the connection test and *)
(* the closing of the client race, a handler is called with one exception  *)
(* of theirs and one response, an error or not, at most.                   *)
THEOREM FailuresOnce == Spec => []OneFailure
  <1>1. IInv => OneFailure
    BY DEF IInv, HandlerInv, OneFailure
  <1>2. QED
    BY <1>1, Invariance, PTL

(* The connection test runs while an asynchronous request is outstanding.  *)
THEOREM ConnectionWatched == Spec => []Watched
  <1>1. IInv => Watched
    BY DEF IInv
  <1>2. QED
    BY <1>1, Invariance, PTL
=============================================================================
