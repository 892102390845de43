--------------------------- MODULE RequestResponse ---------------------------
(***************************************************************************)
(* The requests of a client (ClientContext in Client.cpp): numbered,       *)
(* entered in the table outstanding_requests, sent, and completed by the   *)
(* response, a timeout, a failed send, a lost connection or the closing of *)
(* the client, whichever gets at the table entry.                          *)
(*                                                                         *)
(* Each action is one critical section of outstanding_requests_lock with   *)
(* the lock-free code around it.  Timers run on pool threads, and a        *)
(* one-shot timer that has begun to run can no longer be stopped.          *)
(*                                                                         *)
(* The operators marked "slip" are plausible mistakes, kept next to the    *)
(* definition they would replace so that each property can be seen to      *)
(* fail.                                                                   *)
(***************************************************************************)
EXTENDS Integers

CONSTANTS
  Sync,        \* calls of ProcessRequest
  Async,       \* calls of AsyncProcessRequest by stubs
  Closers,     \* calls of AsyncClose, whose request disconnects the client
  Untimed,     \* the asynchronous ones with RR_TIMEOUT_INFINITE
  MayStop,     \* the service may announce that it closes
  IdSpace,     \* number of request ids; UINT32_MAX in the code
  None

Callback == Async \cup Closers
Requests == Sync \cup Callback

ASSUME ConstantsAssumption ==
  /\ Sync \cap Callback = {} /\ Async \cap Closers = {}
  /\ Untimed \subseteq Async
  /\ MayStop \in BOOLEAN
  /\ IdSpace \in Nat \ {0}
  /\ None \notin Requests

VARIABLES
  connected,       \* m_Connected
  up,              \* CheckConnection and sending succeed
  request_number,
  outstanding,     \* the requests in outstanding_requests
  id,              \* the id each request was given
  pc,              \* where each caller is
  ret,             \* outstanding_request.ret: the request it answers
  timer,           \* outstanding_request.timer
  found,           \* responses matched, whose handlers are still to be called
  test,            \* connection_test_timer is running
  probe,           \* connection_test has seen the connection fail
  sent,            \* requests on their way to the service
  replies,         \* responses on their way back
  closing,         \* runs of AsyncClose1
  values,          \* calls of each handler with a response
  errors,          \* calls of each handler with an exception
  reports          \* calls of the handler given to AsyncClose

vars == <<connected, up, request_number, outstanding, id, pc, ret, timer, found,
          test, probe, sent, replies, closing, values, errors, reports>>

table == <<request_number, outstanding, id>>
net == <<sent, replies>>
calls == <<values, errors, reports>>

Message == [req : Requests, id : 0 .. IdSpace - 1]

(* How a run of AsyncClose1 was started, and how far it is.                *)
CloseRun == [by : Closers \cup {None},
             how : {"response", "failure", "posted", "service"},
             at : {"start", "calling", "closing"},
             todo : SUBSET Callback]

TypeOK ==
  /\ connected \in BOOLEAN /\ up \in BOOLEAN
  /\ test \in BOOLEAN /\ probe \in BOOLEAN
  /\ request_number \in 0 .. IdSpace - 1
  /\ outstanding \subseteq Requests
  /\ id \in [Requests -> 0 .. IdSpace - 1]
  /\ pc \in [Requests -> {"idle", "closing", "checked", "entered", "waiting",
                          "returned", "threw", "ignored"}]
  /\ ret \in [Requests -> Requests \cup {None}]
  /\ timer \in [Requests -> {"none", "armed", "expired", "over"}]
  /\ found \subseteq Callback
  /\ sent \subseteq Message /\ replies \subseteq Message
  /\ closing \subseteq CloseRun
  /\ values \in [Callback -> Nat] /\ errors \in [Callback -> Nat]
  /\ reports \in [Closers -> Nat]

Init ==
  /\ connected = TRUE /\ up = TRUE
  /\ test = FALSE /\ probe = FALSE
  /\ request_number = 0
  /\ outstanding = {}
  /\ id = [r \in Requests |-> 0]
  /\ pc = [r \in Requests |-> "idle"]
  /\ ret = [r \in Requests |-> None]
  /\ timer = [r \in Requests |-> "none"]
  /\ found = {} /\ closing = {}
  /\ sent = {} /\ replies = {}
  /\ values = [r \in Callback |-> 0] /\ errors = [r \in Callback |-> 0]
  /\ reports = [c \in Closers |-> 0]

-----------------------------------------------------------------------------
(* The table                                                               *)

WithId(i) == {r \in outstanding : id[r] = i}

(* The loop that skips ids in use; the slip counts on without looking.     *)
SlipNextNumber(i) == i = (request_number + 1) % IdSpace

FreeNumber(i) ==
  \E k \in 1 .. IdSpace :
    /\ i = (request_number + k) % IdSpace
    /\ WithId(i) = {}
    /\ \A j \in 1 .. k - 1 : WithId((request_number + j) % IdSpace) # {}

(* Bound: an id comes round again only when everything that still carries  *)
(* it has arrived, which 2^32 requests later it has.                       *)
NoStaleId(i) ==
  /\ \A m \in sent \cup replies : m.id # i
  /\ \A r \in Requests \ outstanding :
       id[r] = i => /\ timer[r] \notin {"armed", "expired"} /\ r \notin found
                    /\ pc[r] # "entered" /\ ~(pc[r] = "waiting" /\ r \in Sync)

(* connection_test_timer is stopped when no callback waits any more; the   *)
(* slip stops it at the first response.                                    *)
SlipTestStopped(left) == FALSE

TestAfter(left) == test /\ left \cap Callback # {}

-----------------------------------------------------------------------------
(* Handlers.  The handler of a Closer is AsyncClose1.                      *)

Run(r, how) == [by |-> r, how |-> how, at |-> "start", todo |-> {}]

Started(called, how) == {Run(r, how) : r \in called \cap Closers}

CallWithError(called) ==
  /\ errors' = [r \in Callback |-> errors[r] + IF r \in called THEN 1 ELSE 0]
  /\ UNCHANGED <<values, reports>>

CallWithResponse(r) ==
  /\ values' = [values EXCEPT ![r] = @ + 1]
  /\ UNCHANGED <<errors, reports>>

-----------------------------------------------------------------------------
(* ProcessRequest and AsyncProcessRequest up to the send                   *)

(* AsyncClose keeps close_lock until its request has been sent.            *)
InClose == \E c \in Closers : pc[c] \in {"closing", "checked", "entered"}

AsyncClose(c) ==
  /\ pc[c] = "idle" /\ ~InClose
  /\ pc' = [pc EXCEPT ![c] = IF connected THEN "closing" ELSE "ignored"]
  /\ UNCHANGED <<connected, up, table, ret, timer, found, test, probe, net,
                 closing, calls>>

(* An exception reaches the caller; AsyncClose catches its own and posts   *)
(* AsyncClose1, which the slip forgets.                                    *)
SlipThrow(r) ==
  /\ pc' = [pc EXCEPT ![r] = "threw"]
  /\ connected' = (connected /\ r \notin Closers)
  /\ UNCHANGED closing

Throw(r) ==
  /\ pc' = [pc EXCEPT ![r] = "threw"]
  /\ connected' = (connected /\ r \notin Closers)
  /\ closing' = closing \cup Started({r}, "posted")

Begin(r) ==
  /\ pc[r] = IF r \in Closers THEN "closing" ELSE "idle"
  /\ \/ /\ connected
        /\ pc' = [pc EXCEPT ![r] = "checked"]
        /\ UNCHANGED <<connected, closing>>
     \/ ~connected /\ Throw(r)
  /\ UNCHANGED <<up, table, ret, timer, found, test, probe, net, calls>>

Enter(r, i) ==
  /\ pc[r] = "checked"
  /\ FreeNumber(i)
  /\ NoStaleId(i)
  /\ request_number' = i
  /\ id' = [id EXCEPT ![r] = i]
  /\ outstanding' = outstanding \cup {r}
  /\ timer' = [timer EXCEPT ![r] = IF r \in Callback \ Untimed THEN "armed" ELSE "none"]
  /\ test' = (test \/ r \in Callback)
  /\ pc' = [pc EXCEPT ![r] = "entered"]
  /\ UNCHANGED <<connected, up, ret, found, probe, net, closing, calls>>

(* The send may throw: the client or the connection is closed, or the      *)
(* transport refuses the message.  The entry, its timer and its handler    *)
(* stay behind.                                                            *)
Send(r) ==
  /\ pc[r] = "entered"
  /\ \/ /\ connected /\ up
        /\ sent' = sent \cup {[req |-> r, id |-> id[r]]}
        /\ pc' = [pc EXCEPT ![r] = "waiting"]
        /\ UNCHANGED <<connected, closing>>
     \/ /\ Throw(r)
        /\ UNCHANGED sent
  /\ UNCHANGED <<up, table, ret, timer, found, test, probe, replies, calls>>

-----------------------------------------------------------------------------
(* The loop of ProcessRequest                                              *)

SyncReturn(r) ==
  /\ pc[r] = "waiting" /\ r \in Sync
  /\ ret[r] # None
  /\ \/ /\ connected
        /\ pc' = [pc EXCEPT ![r] = "returned"]
        /\ outstanding' = outstanding \ WithId(id[r])
     \/ /\ ~connected
        /\ pc' = [pc EXCEPT ![r] = "threw"]
        /\ UNCHANGED outstanding
  /\ UNCHANGED <<connected, up, request_number, id, ret, timer, found, test, probe,
                 net, closing, calls>>

(* CheckConnection throws, and the entry stays behind.                     *)
SyncConnectionLost(r) ==
  /\ pc[r] = "waiting" /\ r \in Sync
  /\ ~up
  /\ pc' = [pc EXCEPT ![r] = "threw"]
  /\ UNCHANGED <<connected, up, table, ret, timer, found, test, probe, net,
                 closing, calls>>

(* The time is looked at after the wait and before ret.  The slip is a     *)
(* loop that waits for the response alone.                                 *)
SlipNoTimeout(r) == FALSE

SyncTimeout(r) ==
  /\ pc[r] = "waiting" /\ r \in Sync
  /\ pc' = [pc EXCEPT ![r] = "threw"]
  /\ outstanding' = outstanding \ WithId(id[r])
  /\ UNCHANGED <<connected, up, request_number, id, ret, timer, found, test, probe,
                 net, closing, calls>>

-----------------------------------------------------------------------------
(* Responses: MessageEntryReceived                                         *)

(* if (t->handler).                                                        *)
HandlerOf(r) == {r} \cap Callback

(* First section: the entry gets its response and stays in the table.      *)
MatchResponse(m) ==
  /\ m \in replies
  /\ replies' = replies \ {m}
  /\ \E r \in WithId(m.id) :
       /\ ret' = [ret EXCEPT ![r] = m.req]
       /\ timer' = [timer EXCEPT ![r] = IF @ = "armed" THEN "over" ELSE @]
       /\ found' = found \cup HandlerOf(r)
  /\ UNCHANGED <<connected, up, table, pc, test, probe, sent, closing, calls>>

(* Nobody waits for it any more, or the client is closed.                  *)
DropResponse(m) ==
  /\ m \in replies
  /\ WithId(m.id) = {} \/ ~connected
  /\ replies' = replies \ {m}
  /\ UNCHANGED <<connected, up, table, pc, ret, timer, found, test, probe, sent,
                 closing, calls>>

(* Second section, where the entry is erased whether or not it is still    *)
(* there, and the handler is called.                                       *)
AnswerHandler(r) ==
  /\ r \in found
  /\ found' = found \ {r}
  /\ outstanding' = outstanding \ WithId(id[r])
  /\ test' = TestAfter(outstanding')
  /\ CallWithResponse(r)
  /\ closing' = closing \cup Started({r}, "response")
  /\ UNCHANGED <<connected, up, request_number, id, pc, ret, timer, probe, net>>

-----------------------------------------------------------------------------
(* Failures                                                                *)

(* AsyncProcessRequest_timeout and _err take the entry and call its        *)
(* handler; the slip leaves the entry in the table.                        *)
SlipLeaveInTable(i) ==
  /\ CallWithError(WithId(i) \cap Callback)
  /\ closing' = closing \cup Started(WithId(i), "failure")
  /\ UNCHANGED outstanding

FailRequest(i) ==
  /\ CallWithError(WithId(i) \cap Callback)
  /\ closing' = closing \cup Started(WithId(i), "failure")
  /\ outstanding' = outstanding \ WithId(i)

(* WallTimer::timer_handler, first section.                                *)
TimerExpires(r) ==
  /\ timer[r] = "armed"
  /\ timer' = [timer EXCEPT ![r] = "expired"]
  /\ UNCHANGED <<connected, up, table, pc, ret, found, test, probe, net, closing,
                 calls>>

RequestTimeout(r) ==
  /\ timer[r] = "expired"
  /\ timer' = [timer EXCEPT ![r] = "over"]
  /\ FailRequest(id[r])
  /\ UNCHANGED <<connected, up, request_number, id, pc, ret, found, test, probe, net>>

(* The connection is lost before the message is out.                       *)
SendFails(m) ==
  /\ m \in sent /\ ~up
  /\ sent' = sent \ {m}
  /\ \/ m.req \in Callback /\ FailRequest(m.id)
     \/ m.req \in Sync /\ UNCHANGED <<outstanding, closing, calls>>
  /\ UNCHANGED <<connected, up, request_number, id, pc, ret, timer, found, test,
                 probe, replies>>

(* connection_test: CheckConnection throws, then every handler is taken.   *)
ProbeFails ==
  /\ test /\ ~up /\ ~probe
  /\ probe' = TRUE
  /\ UNCHANGED <<connected, up, table, pc, ret, timer, found, test, net, closing,
                 calls>>

ProbeTakesAll ==
  /\ probe
  /\ probe' = FALSE /\ test' = FALSE
  /\ outstanding' = {}
  /\ CallWithError(outstanding \cap Callback)
  /\ closing' = closing \cup Started(outstanding, "failure")
  /\ UNCHANGED <<connected, up, request_number, id, pc, ret, timer, found, net>>

-----------------------------------------------------------------------------
(* AsyncClose1.  A Closer's handler called by another run starts a run of  *)
(* its own here; in the code it is nested in the run that calls it.        *)

Disconnect(a) ==
  /\ a \in closing /\ a.at = "start" /\ connected
  /\ connected' = FALSE
  /\ UNCHANGED <<up, table, pc, ret, timer, found, test, probe, net, closing, calls>>

(* The handlers taken are called; the slip clears the table without them.  *)
SlipForgetHandlers(a) == {[a EXCEPT !.at = "calling"]}

HandlersTaken(a) == {[a EXCEPT !.at = "calling", !.todo = outstanding \cap Callback]}

CloseTakesAll(a) ==
  /\ a \in closing /\ a.at = "start" /\ ~connected
  /\ closing' = (closing \ {a}) \cup HandlersTaken(a)
  /\ outstanding' = {}
  /\ test' = FALSE
  /\ UNCHANGED <<connected, up, request_number, id, pc, ret, timer, found, probe, net,
                 calls>>

CloseCalls(a, r) ==
  /\ a \in closing /\ a.at = "calling" /\ r \in a.todo
  /\ CallWithError({r})
  /\ closing' = (closing \ {a}) \cup {[a EXCEPT !.todo = @ \ {r}]} \cup Started({r}, "failure")
  /\ UNCHANGED <<connected, up, table, pc, ret, timer, found, test, probe, net>>

(* Stubs are closed, and the table is cleared a second time.               *)
CloseClearsAgain(a) ==
  /\ a \in closing /\ a.at = "calling" /\ a.todo = {}
  /\ closing' = (closing \ {a}) \cup {[a EXCEPT !.at = "closing"]}
  /\ outstanding' = {}
  /\ UNCHANGED <<connected, up, request_number, id, pc, ret, timer, found, test, probe,
                 net, calls>>

(* ClientClosed is reported, the user's handler called, the endpoint       *)
(* deleted.                                                                *)
CloseEnds(a) ==
  /\ a \in closing /\ a.at = "closing"
  /\ closing' = closing \ {a}
  /\ reports' = [c \in Closers |-> reports[c] + IF a.by = c THEN 1 ELSE 0]
  /\ up' = FALSE
  /\ UNCHANGED <<connected, table, pc, ret, timer, found, test, probe, net, values, errors>>

-----------------------------------------------------------------------------
(* The service and the connection                                          *)

Respond(m) ==
  /\ m \in sent /\ up
  /\ sent' = sent \ {m}
  /\ replies' = replies \cup {m}
  /\ UNCHANGED <<connected, up, table, pc, ret, timer, found, test, probe, closing,
                 calls>>

ServiceClosed ==
  /\ MayStop
  /\ connected /\ up
  /\ \A a \in closing : a.how # "service"
  /\ closing' = closing \cup {Run(None, "service")}
  /\ UNCHANGED <<connected, up, table, pc, ret, timer, found, test, probe, net, calls>>

ConnectionLost ==
  /\ up
  /\ up' = FALSE
  /\ UNCHANGED <<connected, table, pc, ret, timer, found, test, probe, net, closing,
                 calls>>

-----------------------------------------------------------------------------

CallerStep(r) ==
  \/ Begin(r)
  \/ \E i \in 0 .. IdSpace - 1 : Enter(r, i)
  \/ Send(r)

SyncStep(r) == SyncReturn(r) \/ SyncConnectionLost(r) \/ SyncTimeout(r)

TimerStep(r) == TimerExpires(r) \/ RequestTimeout(r)

CloseStep(a) ==
  \/ Disconnect(a)
  \/ CloseTakesAll(a)
  \/ \E r \in Callback : CloseCalls(a, r)
  \/ CloseClearsAgain(a)
  \/ CloseEnds(a)

MessageStep(m) == MatchResponse(m) \/ DropResponse(m) \/ SendFails(m)

Next ==
  \/ \E c \in Closers : AsyncClose(c)
  \/ \E r \in Requests : CallerStep(r) \/ SyncStep(r) \/ TimerStep(r)
  \/ \E r \in Callback : AnswerHandler(r)
  \/ \E m \in sent \cup replies : MessageStep(m) \/ Respond(m)
  \/ ProbeFails \/ ProbeTakesAll
  \/ \E a \in closing : CloseStep(a)
  \/ ServiceClosed \/ ConnectionLost

Spec == Init /\ [][Next]_vars

(* A thread that has begun goes on, timers expire, messages read are       *)
(* dispatched.  Nobody has to call, the service need not answer, the       *)
(* connection need not fail.                                               *)
Fairness ==
  /\ \A r \in Requests : WF_vars(pc[r] # "idle" /\ CallerStep(r))
  /\ \A r \in Requests : WF_vars(SyncStep(r)) /\ WF_vars(TimerStep(r))
  /\ \A r \in Callback : WF_vars(AnswerHandler(r))
  /\ WF_vars(\E m \in sent \cup replies : MessageStep(m))
  /\ WF_vars(ProbeFails \/ ProbeTakesAll)
  /\ WF_vars(\E a \in closing : CloseStep(a))

FairSpec == Spec /\ Fairness

-----------------------------------------------------------------------------
(* Properties                                                              *)

(* No two requests wait under one id, also when the number has wrapped and *)
(* meets a request that still waits.                                       *)
UniqueIds ==
  \A r, s \in outstanding : id[r] = id[s] => r = s

(* A response completes the request it answers: the check in               *)
(* ProcessRequest, "This should be impossible!".                           *)
OwnResponse ==
  \A r \in Requests : ret[r] \in {None, r}

(* However timeout, failed send, connection test and closing race, one of  *)
(* them alone reports the failure of a request, and a handler is called    *)
(* with one response at most.  It can be called with both; the response    *)
(* may be an error, and the second exception a handler gets.               *)
OneFailure ==
  \A r \in Callback : errors[r] <= 1 /\ values[r] <= 1

(* While a handler waits, the connection is being watched, so that a lost  *)
(* connection is noticed even by a request without a timeout.              *)
Watched ==
  outstanding \cap Callback # {} => test

(* Nobody is forgotten: the handler of every request sent is called, if    *)
(* the request has a timeout or the connection fails.  (What is due stays  *)
(* due until the call, so that "again and again nothing is due" says it.)  *)
CallDue(r) ==
  /\ pc[r] = "waiting" /\ (r \notin Untimed \/ ~up)
  /\ values[r] + errors[r] = 0

HandlerCalled == []<>(\A r \in Callback : ~CallDue(r))

(* ProcessRequest returns or throws.                                       *)
SyncEnds == []<>(\A r \in Sync : pc[r] # "waiting")

(* A call of AsyncClose that found the client connected is reported to its *)
(* caller once its request is out or refused, however the request ends and *)
(* whoever else closes the client.  (A call that did not is not reported.) *)
CloseReported ==
  []<>(\A c \in Closers : pc[c] \in {"waiting", "threw"} => reports[c] > 0)

(* Why OwnResponse and OneFailure hold: who has the id of a message is its *)
(* request, which has no response yet, and no handler that waits for a     *)
(* call with an exception has had one.                                     *)
InFlight(r) == \E m \in sent \cup replies : m.req = r

MessageInv(m) ==
  /\ m.id = id[m.req]
  /\ m \notin sent \/ m \notin replies

Unsent(r) == pc[r] \in {"idle", "closing", "checked"}

RequestInv(r) ==
  /\ Unsent(r) \/ pc[r] = "entered" => ~InFlight(r) /\ r \notin found
  /\ Unsent(r) => r \notin outstanding
  /\ pc[r] = "entered" \/ InFlight(r) =>
       \A s \in outstanding : id[s] = id[r] => s = r

HandlerInv(r) ==
  /\ values[r] <= 1 /\ errors[r] <= 1
  /\ Unsent(r) \/ pc[r] = "entered" \/ InFlight(r) \/ r \in found
       => values[r] = 0
  /\ r \in found => ~InFlight(r)
  /\ Unsent(r) \/ r \in outstanding => errors[r] = 0

TodoInv(a) ==
  \A r \in a.todo :
    /\ errors[r] = 0 /\ r \notin outstanding /\ ~Unsent(r)
    /\ \A b \in closing : r \in b.todo => b = a

IInv ==
  /\ TypeOK /\ UniqueIds /\ OwnResponse /\ Watched
  /\ \A m \in sent \cup replies : MessageInv(m)
  /\ \A r \in Requests : RequestInv(r)
  /\ \A r \in Callback : HandlerInv(r)
  /\ \A a \in closing : TodoInv(a)
=============================================================================
