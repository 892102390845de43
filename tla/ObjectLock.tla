----------------------------- MODULE ObjectLock -----------------------------
(***************************************************************************)
(* User and client locks on the objects of a service (ServerContext in     *)
(* Service.cpp, ServerContext_ObjectLock in Service_lock.cpp).  A lock     *)
(* covers an object and everything below it.  Skels are made when a client *)
(* first asks for an object and go when the service releases a path.       *)
(*                                                                         *)
(* All lock operations, the lock part of RemoveClient and                  *)
(* ReleaseServicePath1 hold ClientLockOp_lockobj, so each is one action;   *)
(* making a skel holds skels_lock.  A request is dispatched, with the user *)
(* of that moment, and carried out in later steps.                         *)
(*                                                                         *)
(* The operators marked "slip" are plausible mistakes, used to see the     *)
(* properties fail.                                                        *)
(***************************************************************************)
EXTENDS Integers, FiniteSets

CONSTANTS
  Paths,        \* service paths
  Root,         \* path of the service
  Parent,       \* the path above each other path
  Below,        \* p and the paths that start with p and a dot
  Prefixed,     \* boost::starts_with: paths that start with the text of p
  Sessions,     \* client endpoints
  UserOf,       \* the user a session authenticates as
  Overriders,   \* users with the privilege objectlockoverride
  MaxPending,   \* bound: requests dispatched and not yet done
  MayLogout,    \* sessions that may log out
  MayRelease,   \* the service may release paths
  None

Users == {UserOf[e] : e \in Sessions}

ASSUME ConstantsAssumption ==
  /\ Root \in Paths
  /\ Parent \in [Paths \ {Root} -> Paths]
  /\ Below \in [Paths -> SUBSET Paths] /\ Prefixed \in [Paths -> SUBSET Paths]
  /\ \A p \in Paths : p \in Below[p] /\ Below[p] \subseteq Prefixed[p]
  /\ \A p, q \in Paths : q \in Below[p] => Below[q] \subseteq Below[p]
  /\ \A p \in Paths, q \in Paths \ {Root} :
       q \in Below[p] <=> q = p \/ Parent[q] \in Below[p]
  /\ MayLogout \subseteq Sessions /\ MayRelease \in BOOLEAN /\ MaxPending \in Nat
  /\ None \notin Paths \cup Sessions \cup Users

VARIABLES
  skels,        \* paths with a skel
  objectlock,   \* ServiceSkel.objectlock: root path of the lock
  active,       \* active_object_locks, by root path
  conn,         \* client_endpoints
  auth,         \* endpoint_authenticated_user
  request       \* the request each session has dispatched

vars == <<skels, objectlock, active, conn, auth, request>>

Lock == [user : Users, session : Sessions \cup {None}, locked : BOOLEAN]
Operation == {"user lock", "client lock", "release", "call", "calling"}
Request == [user : Users \cup {None}, op : Operation, path : Paths]

ASSUME NoneAssumption == None \notin Lock \cup Request

TypeOK ==
  /\ skels \subseteq Paths
  /\ objectlock \in [Paths -> Paths \cup {None}]
  /\ active \in [Paths -> Lock \cup {None}]
  /\ conn \in [Sessions -> {"new", "connected", "leaving", "gone"}]
  /\ auth \in [Sessions -> Users \cup {None}]
  /\ request \in [Sessions -> Request \cup {None}]

Init ==
  /\ skels = {Root}
  /\ objectlock = [p \in Paths |-> None]
  /\ active = [p \in Paths |-> None]
  /\ conn = [e \in Sessions |-> "new"]
  /\ auth = [e \in Sessions |-> None]
  /\ request = [e \in Sessions |-> None]

-----------------------------------------------------------------------------

(* The weak pointer of a skel reaches a lock only while the lock is in     *)
(* active_object_locks; ReleaseLock resets the pointers it has set.        *)
IsLocked(p) == objectlock[p] # None

Unlocked(roots) ==
  [p \in Paths |-> IF objectlock[p] \in roots THEN None ELSE objectlock[p]]

Erased(roots) ==
  [p \in Paths |-> IF p \in roots THEN None ELSE active[p]]

Admits(lock, e, user) == lock.user = user /\ lock.session \in {None, e}

-----------------------------------------------------------------------------
(* Sessions                                                                *)

Connect(e) ==
  /\ conn[e] = "new"
  /\ conn' = [conn EXCEPT ![e] = "connected"]
  /\ auth' = [auth EXCEPT ![e] = UserOf[e]]
  /\ UNCHANGED <<skels, objectlock, active, request>>

LogoutUser(e) ==
  /\ e \in MayLogout
  /\ conn[e] = "connected" /\ auth[e] # None
  /\ auth' = [auth EXCEPT ![e] = None]
  /\ UNCHANGED <<skels, objectlock, active, conn, request>>

Dispatch(e, op, p) ==
  /\ conn[e] = "connected" /\ request[e] = None
  /\ Cardinality({f \in Sessions : request[f] # None}) < MaxPending
  /\ request' = [request EXCEPT ![e] = [user |-> auth[e], op |-> op, path |-> p]]
  /\ UNCHANGED <<skels, objectlock, active, conn, auth>>

(* RemoveClient looks at the other sessions of the user; the slip does not *)
(* and keeps no user lock beyond any session of its user.                  *)
SlipReleasedBy(e) ==
  {p \in Paths : active[p] # None /\ active[p].user = auth[e]}

ReleasedBy(e) ==
  {p \in Paths :
    /\ active[p] # None /\ active[p].user = auth[e]
    /\ \/ active[p].session = e
       \/ \A f \in Sessions \ {e} : conn[f] \in {"connected", "leaving"} => auth[f] # auth[e]}

RemoveClient(e) ==
  /\ conn[e] = "connected"
  /\ active' = Erased(ReleasedBy(e))
  /\ objectlock' = Unlocked(ReleasedBy(e))
  /\ conn' = [conn EXCEPT ![e] = "leaving"]
  /\ UNCHANGED <<skels, auth, request>>

(* client_endpoints.erase and DeleteEndpoint, after the locks.             *)
EraseClient(e) ==
  /\ conn[e] = "leaving"
  /\ conn' = [conn EXCEPT ![e] = "gone"]
  /\ UNCHANGED <<skels, objectlock, active, auth, request>>

-----------------------------------------------------------------------------
(* Requests; each first makes sure that there is a skel.                   *)

Executing(e, ops) ==
  /\ request[e] # None
  /\ request[e].op \in ops
  /\ request[e].path \in skels

Done(e) == request' = [request EXCEPT ![e] = None]

(* Objects above are seen through the pointers their locks have set.       *)
Free(p) == \A q \in (Prefixed[p] \cap skels) \cup {p} : ~IsLocked(q)

(* ClientLockOp, with the slip of locking the object alone.                *)
SlipCovers(p) == {p}

Covers(p) == Prefixed[p] \cap skels

Granted(e) == request[e].user # None /\ Free(request[e].path)

(* active_object_locks.insert has no effect when the key is there: then    *)
(* the new lock is dropped at once, and its pointers with it.              *)
RequestObjectLock(e) ==
  /\ Executing(e, {"user lock", "client lock"})
  /\ Done(e)
  /\ LET r == request[e]
         session == IF r.op = "client lock" THEN e ELSE None
     IN \/ /\ ~Granted(e)
           /\ UNCHANGED <<objectlock, active>>
        \/ /\ Granted(e)
           /\ \/ /\ active[r.path] = None
                 /\ active' = [active EXCEPT ![r.path] =
                      [user |-> r.user, session |-> session, locked |-> TRUE]]
                 /\ objectlock' = [q \in Paths |->
                      IF q \in Covers(r.path) THEN r.path ELSE objectlock[q]]
              \/ /\ active[r.path] # None
                 /\ UNCHANGED <<objectlock, active>>
  /\ UNCHANGED <<skels, conn, auth>>

(* The test that a client lock is released by its own session stands       *)
(* inside a test that its user is another one, and so refuses nobody.      *)
MayReleaseLock(e, lock) ==
  request[e].user = lock.user \/ request[e].user \in Overriders

ReleaseObjectLock(e) ==
  /\ Executing(e, {"release"})
  /\ Done(e)
  /\ LET p == request[e].path
         ends == /\ request[e].user # None
                 /\ objectlock[p] = p
                 /\ MayReleaseLock(e, active[p])
         roots == IF ends THEN {p} ELSE {}
     IN /\ active' = Erased(roots)
        /\ objectlock' = Unlocked(roots)
  /\ UNCHANGED <<skels, conn, auth>>

(* check_lock, and after it the call itself.                               *)
PassesCheck(e) ==
  LET r == request[e]
  IN IsLocked(r.path) => Admits(active[objectlock[r.path]], e, r.user)

CheckLock(e) ==
  /\ Executing(e, {"call"})
  /\ request' = [request EXCEPT ![e] =
       IF PassesCheck(e) THEN [@ EXCEPT !.op = "calling"] ELSE None]
  /\ UNCHANGED <<skels, objectlock, active, conn, auth>>

Call(e) ==
  /\ request[e] # None /\ request[e].op = "calling"
  /\ Done(e)
  /\ UNCHANGED <<skels, objectlock, active, conn, auth>>

-----------------------------------------------------------------------------
(* Skels                                                                   *)

(* GetObjectSkel: a new skel has the lock of the one above it.             *)
Inherited(p) == objectlock[Parent[p]]

CreateSkel(p) ==
  /\ p \in Paths \ skels
  /\ p # Root /\ Parent[p] \in skels
  /\ skels' = skels \cup {p}
  /\ objectlock' = [objectlock EXCEPT ![p] = Inherited(p)]
  /\ UNCHANGED <<active, conn, auth, request>>

(* A lock whose root goes is marked unlocked, but it is erased under the   *)
(* user's name from a map that is kept by path, and so stays there.        *)
ReleaseServicePath(p) ==
  /\ MayRelease
  /\ p \in skels \ {Root}
  /\ LET gone == Below[p] \cap skels
     IN /\ active' = [q \in Paths |->
             IF q \in gone /\ objectlock[q] = q THEN [active[q] EXCEPT !.locked = FALSE]
                                                ELSE active[q]]
        /\ objectlock' = [q \in Paths |->
             IF q \in gone \/ objectlock[q] \in gone THEN None ELSE objectlock[q]]
        /\ skels' = skels \ gone
  /\ UNCHANGED <<conn, auth, request>>

-----------------------------------------------------------------------------

SessionStep(e) ==
  \/ Connect(e) \/ LogoutUser(e) \/ RemoveClient(e) \/ EraseClient(e)
  \/ \E op \in Operation \ {"calling"}, p \in Paths : Dispatch(e, op, p)
  \/ RequestObjectLock(e) \/ ReleaseObjectLock(e) \/ CheckLock(e) \/ Call(e)

Next ==
  \/ \E e \in Sessions : SessionStep(e)
  \/ \E p \in Paths : CreateSkel(p) \/ ReleaseServicePath(p)

Spec == Init /\ [][Next]_vars

-----------------------------------------------------------------------------
(* Properties                                                              *)

(* A lock that is in force covers every skel below its root, whenever they *)
(* were made: the subtree changes while it is locked.                      *)
Coverage ==
  \A p, q \in skels :
    objectlock[p] = p /\ q \in Below[p] => objectlock[q] = p

(* Every pointer leads to a lock in force, on a root that exists.          *)
LockTable ==
  \A p \in Paths :
    objectlock[p] # None =>
      /\ {p, objectlock[p]} \subseteq skels
      /\ objectlock[objectlock[p]] = objectlock[p]
      /\ active[objectlock[p]] # None /\ active[objectlock[p]].locked

(* The inductive invariant.                                                *)
IInv == TypeOK /\ LockTable /\ Coverage

(* Whatever is made and released meanwhile, a call passes the check only   *)
(* if every lock in force on its object or above lets the caller through   *)
(* (docs/framework/object_locking.md:11, "only the requesting user will be *)
(* able to access the object").                                            *)
Exclusive ==
  [][\A e \in Sessions, p \in Paths :
       /\ CheckLock(e) /\ request'[e] # None
       /\ objectlock[p] = p /\ request[e].path \in Below[p]
       => Admits(active[p], e, request[e].user)]_vars

(* A lock in force ends when its user releases it, when an overrider does, *)
(* when its session or the last session of its user leaves, or when its    *)
(* object is released; never by what others do.                            *)
EndsByOwner(p) ==
  \/ p \notin skels'
  \/ \E e \in Sessions :
       \/ /\ ReleaseObjectLock(e)
          /\ request[e].user \in Overriders \cup {active[p].user}
       \/ /\ RemoveClient(e) /\ auth[e] = active[p].user
          /\ \/ active[p].session = e
             \/ \A f \in Sessions \ {e} :
                  conn[f] \in {"connected", "leaving"}
                    => auth[f] # active[p].user

EndedByOwner ==
  [][\A p \in Paths :
       objectlock[p] = p /\ objectlock'[p] # p => EndsByOwner(p)]_vars

(* Said of locks (docs/framework/object_locking.md:11): "When locked, only *)
(* the requesting user will be able to access the object".  A request that *)
(* is answered with OK has locked the object.                              *)
OKMeansLocked ==
  [][\A e \in Sessions :
       RequestObjectLock(e) /\ Granted(e)
         => objectlock'[request[e].path] = request[e].path]_vars
=============================================================================
