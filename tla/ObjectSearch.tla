---------------------------- MODULE ObjectSearch ----------------------------
(***************************************************************************)
(* The objects a client holds of a service (ClientContext in Client.cpp):  *)
(* AsyncFindObjRef answers from the table of stubs, joins a search for the *)
(* path that is under way, or starts one, while the service releases       *)
(* objects and the client closes.                                          *)
(*                                                                         *)
(* Each action is one critical section of stubs_lock, or one of the        *)
(* async_timeout_wrapper around a search.  A stub is named by the call     *)
(* whose search created it.  The request of a search has one outcome: how  *)
(* it comes by it is module RequestResponse.                               *)
(***************************************************************************)
EXTENDS Naturals, Sequences

CONSTANTS
  Calls,       \* calls of AsyncFindObjRef
  Paths,       \* service paths
  MayAsk,      \* bound: the paths each call may ask for
  Below,       \* of each path: itself and the paths inside it
  MayClose,    \* bound: the client may close
  Error,       \* an exception given to a handler
  None

ASSUME ConstantsAssumption ==
  /\ MayAsk \in [Calls -> SUBSET Paths]
  /\ Below \in [Paths -> SUBSET Paths]
  /\ \A p \in Paths : p \in Below[p]
  /\ MayClose \in BOOLEAN
  /\ Error \notin Calls /\ None \notin Calls /\ Error # None

VARIABLES
  closing,     \* how far AsyncClose1 is
  stubs,       \* the table
  dropped,     \* stubs that are no longer in it
  searching,   \* active_stub_searches, each entry named by its search
  joined,      \* active_stub_searches_handlers
  pc,          \* where each call is
  path,        \* what it asks for
  found,       \* the outcome of its search
  handled,     \* of its async_timeout_wrapper
  outcome,     \* what the wrapper passes on, until AsyncFindObjRef3 has it
  posted,      \* what is posted to the handler of a call that did not search
  answers      \* calls of the user's handlers: call, value

table == <<stubs, dropped>>
lists == <<searching, joined>>
wrapper == <<handled, outcome>>
calls == <<posted, answers>>
vars == <<closing, table, lists, pc, path, found, wrapper, calls>>

Results == Calls \cup {Error}

Init ==
  /\ closing = "no"
  /\ stubs = [p \in Paths |-> None]
  /\ dropped = {}
  /\ searching = {} /\ joined = {}
  /\ pc = [c \in Calls |-> "idle"]
  /\ path = [c \in Calls |-> None]
  /\ found = [c \in Calls |-> None]
  /\ handled = [c \in Calls |-> FALSE]
  /\ outcome = [c \in Calls |-> None]
  /\ posted = [c \in Calls |-> None]
  /\ answers = [c \in Calls |-> <<>>]

For(cs, p) == {c \in cs : path[c] = p}

Goto(c, label) == pc' = [pc EXCEPT ![c] = label]

-----------------------------------------------------------------------------
(* AsyncFindObjRef                                                         *)

(* GetConnected is read before the locks are taken.                        *)
CheckConnected(c, p) ==
  /\ pc[c] = "idle"
  /\ path' = [path EXCEPT ![c] = p]
  /\ Goto(c, IF closing = "no" THEN "checked" ELSE "threw")
  /\ UNCHANGED <<closing, table, lists, found, wrapper, calls>>

ReturnCached(c) ==
  /\ pc[c] = "checked"
  /\ stubs[path[c]] # None
  /\ posted' = [posted EXCEPT ![c] = stubs[path[c]]]
  /\ Goto(c, "posted")
  /\ UNCHANGED <<closing, table, lists, path, found, wrapper, answers>>

Join(c) ==
  /\ pc[c] = "checked"
  /\ stubs[path[c]] = None
  /\ For(searching, path[c]) # {}
  /\ joined' = joined \cup {c}
  /\ Goto(c, "joined")
  /\ UNCHANGED <<closing, table, searching, path, found, wrapper, calls>>

(* The request is sent and the path entered, or AsyncProcessRequest throws. *)
StartSearch(c) ==
  /\ pc[c] = "checked"
  /\ stubs[path[c]] = None
  /\ For(searching, path[c]) = {}
  /\ \/ searching' = searching \cup {c} /\ Goto(c, "requested")
     \/ searching' = searching /\ Goto(c, "threw")
  /\ UNCHANGED <<closing, table, joined, path, found, wrapper, calls>>

-----------------------------------------------------------------------------
(* The search                                                              *)

(* The request, the type AsyncFindObjRef1 gets, the definitions it pulls,  *)
(* or the making of the stub have failed.                                  *)
SearchFails(c) ==
  /\ pc[c] = "requested"
  /\ found' = [found EXCEPT ![c] = Error]
  /\ Goto(c, "found")
  /\ UNCHANGED <<closing, table, lists, path, wrapper, calls>>

(* The stub enters the table if no other has; the slip puts it there       *)
(* anyway.                                                                 *)
EnterAnyway(c) ==
  /\ stubs' = [stubs EXCEPT ![path[c]] = c]
  /\ found' = [found EXCEPT ![c] = c]

EnterStub(c) ==
  \/ /\ stubs[path[c]] = None
     /\ stubs' = [stubs EXCEPT ![path[c]] = c]
     /\ found' = [found EXCEPT ![c] = c]
  \/ /\ stubs[path[c]] # None
     /\ found' = [found EXCEPT ![c] = stubs[path[c]]]
     /\ UNCHANGED stubs

(* AsyncFindObjRef1 has changed nothing before.                            *)
AsyncFindObjRef2(c) ==
  /\ pc[c] = "requested"
  /\ EnterStub(c)
  /\ Goto(c, "found")
  /\ UNCHANGED <<closing, dropped, lists, path, wrapper, calls>>

(* The critical section of AsyncFindObjRef3: every search for the path is  *)
(* struck out, and all who joined one are answered.  The slip removes the  *)
(* handlers without posting them.                                          *)
EndUnanswered(p, r) ==
  /\ searching' = searching \ For(searching, p)
  /\ joined' = joined \ For(joined, p)
  /\ UNCHANGED posted

EndSearches(p, r) ==
  /\ searching' = searching \ For(searching, p)
  /\ joined' = joined \ For(joined, p)
  /\ posted' = [c \in Calls |-> IF c \in For(joined, p) THEN r ELSE posted[c]]

(* Called at the end of the search with the wrapper as its handler ...     *)
EndSearch(c) ==
  /\ pc[c] = "found"
  /\ EndSearches(path[c], found[c])
  /\ Goto(c, "ended")
  /\ UNCHANGED <<closing, table, path, found, wrapper, answers>>

(* ... and once more by the wrapper, which passes on the first of the      *)
(* result and the timeout.                                                 *)
PassOn(c, r) ==
  /\ ~handled[c]
  /\ handled' = [handled EXCEPT ![c] = TRUE]
  /\ outcome' = [outcome EXCEPT ![c] = r]

SearchReturns(c) ==
  /\ pc[c] = "ended"
  /\ PassOn(c, found[c]) \/ (handled[c] /\ UNCHANGED <<handled, outcome>>)
  /\ Goto(c, "returned")
  /\ UNCHANGED <<closing, table, lists, path, found, calls>>

TimesOut(c) ==
  /\ pc[c] \in {"requested", "found", "ended"}
  /\ PassOn(c, Error)
  /\ UNCHANGED <<closing, table, lists, pc, path, found, calls>>

AsyncFindObjRef3(c) ==
  /\ outcome[c] # None
  /\ EndSearches(path[c], outcome[c])
  /\ outcome' = [outcome EXCEPT ![c] = None]
  /\ answers' = [answers EXCEPT ![c] = Append(@, outcome[c])]
  /\ UNCHANGED <<closing, table, pc, path, found, handled>>

(* A posted handler runs.                                                  *)
CallPosted(c) ==
  /\ posted[c] # None
  /\ posted' = [posted EXCEPT ![c] = None]
  /\ answers' = [answers EXCEPT ![c] = Append(@, posted[c])]
  /\ Goto(c, "returned")
  /\ UNCHANGED <<closing, table, lists, path, found, wrapper>>

-----------------------------------------------------------------------------
(* The end of objects                                                      *)

Drop(ps) ==
  /\ stubs' = [p \in Paths |-> IF p \in ps THEN None ELSE stubs[p]]
  /\ dropped' = dropped \cup ({stubs[p] : p \in ps} \ {None})

ServicePathReleased(p) ==
  /\ \E q \in Below[p] : stubs[q] # None
  /\ Drop(Below[p])
  /\ UNCHANGED <<closing, lists, pc, path, found, wrapper, calls>>

(* AsyncClose1 sets m_Connected, closes the stubs, then empties the table. *)
CloseBegins ==
  /\ MayClose
  /\ closing = "no"
  /\ closing' = "begun"
  /\ UNCHANGED <<table, lists, pc, path, found, wrapper, calls>>

TableEmptied ==
  /\ closing = "begun"
  /\ closing' = "done"
  /\ Drop(Paths)
  /\ UNCHANGED <<lists, pc, path, found, wrapper, calls>>

-----------------------------------------------------------------------------

FindObjRef(c) ==
  \/ \E p \in MayAsk[c] : CheckConnected(c, p)
  \/ ReturnCached(c) \/ Join(c) \/ StartSearch(c)

Search(c) ==
  SearchFails(c) \/ AsyncFindObjRef2(c) \/ EndSearch(c) \/ SearchReturns(c)

Next ==
  \/ \E c \in Calls :
       \/ FindObjRef(c) \/ Search(c) \/ TimesOut(c)
       \/ AsyncFindObjRef3(c) \/ CallPosted(c)
  \/ \E p \in Paths : ServicePathReleased(p)
  \/ CloseBegins \/ TableEmptied

Spec == Init /\ [][Next]_vars

(* Requests get an outcome (module RequestResponse), and the thread pool   *)
(* runs what is posted to it.                                              *)
Fairness ==
  \A c \in Calls :
    /\ WF_vars(Search(c))
    /\ WF_vars(AsyncFindObjRef3(c))
    /\ WF_vars(CallPosted(c))

FairSpec == Spec /\ Fairness

-----------------------------------------------------------------------------

TypeOK ==
  /\ closing \in {"no", "begun", "done"}
  /\ stubs \in [Paths -> Calls \cup {None}]
  /\ dropped \subseteq Calls
  /\ searching \subseteq Calls /\ joined \subseteq Calls
  /\ pc \in [Calls -> {"idle", "checked", "threw", "posted", "joined",
                       "requested", "found", "ended", "returned"}]
  /\ path \in [Calls -> Paths \cup {None}]
  /\ found \in [Calls -> Results \cup {None}]
  /\ handled \in [Calls -> BOOLEAN]
  /\ outcome \in [Calls -> Results \cup {None}]
  /\ posted \in [Calls -> Results \cup {None}]
  /\ answers \in [Calls -> Seq(Results)]

(* Whatever searches for a path raced, a stub that a call is given is the  *)
(* one in the table, to which packets and callbacks for the path are       *)
(* dispatched, or one that was taken out of the table: there are never two *)
(* live objects for a path.                                                *)
Given(c) == {answers[c][i] : i \in DOMAIN answers[c]}

Known(p, s) == s \in dropped \/ stubs[p] = s

OneObject ==
  \A c \in Calls : \A s \in (Given(c) \cup {found[c], posted[c]}) \cap Calls :
    Known(path[c], s)

(* Who joined is remembered as long as a search for the path is listed,    *)
(* and a listed search has its end still before it, which answers them.    *)
JoinedAreServed ==
  /\ \A c \in joined : For(searching, path[c]) # {} /\ posted[c] = None
  /\ \A c \in searching : pc[c] \in {"requested", "found"}

(* No handler is called twice.                                             *)
AnsweredOnce == \A c \in Calls : Len(answers[c]) <= 1

(* The inductive invariant, with what holds of a call before it has its    *)
(* result, by the way it gets it.                                          *)
Untouched(c) ==
  /\ answers[c] = <<>> /\ outcome[c] = None /\ found[c] = None /\ ~handled[c]

Calling(c) ==
  /\ pc[c] \in {"idle", "checked", "threw"} => Untouched(c) /\ posted[c] = None
  /\ pc[c] \in {"joined", "posted"} => Untouched(c)
  /\ pc[c] \notin {"joined", "posted"} => posted[c] = None
  /\ pc[c] \in {"requested", "found", "ended"} /\ ~handled[c] =>
       answers[c] = <<>> /\ outcome[c] = None
  /\ outcome[c] # None => answers[c] = <<>>
  /\ pc[c] # "idle" => path[c] \in Paths
  /\ c \in joined => pc[c] = "joined"

Outcomes(c) == (Given(c) \cup {found[c], posted[c], outcome[c]}) \cap Calls

HandedOut == \A c \in Calls : \A s \in Outcomes(c) : Known(path[c], s)

IInv ==
  /\ TypeOK
  /\ AnsweredOnce
  /\ JoinedAreServed
  /\ \A c \in Calls : Calling(c)
  /\ HandedOut

(* Every call of AsyncFindObjRef that does not throw is answered.          *)
EveryCallAnswered ==
  \A c \in Calls :
    (pc[c] \in {"joined", "posted", "requested"}) ~> (answers[c] # <<>>)
=============================================================================
