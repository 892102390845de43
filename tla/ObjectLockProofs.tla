-------------------------- MODULE ObjectLockProofs --------------------------
(***************************************************************************)
(* Safety of object locks, for any tree of objects, any sessions and any   *)
(* number of requests under way.                                           *)
(***************************************************************************)
EXTENDS ObjectLock, TLAPS

lockVars == <<skels, objectlock, active>>

(* A step that leaves locks and skels alone.                               *)
LEMMA SameLocks ==
  ASSUME LockTable, Coverage, UNCHANGED lockVars
  PROVE  LockTable' /\ Coverage'
  BY DEF LockTable, Coverage, lockVars

(* Locks that end leave the table and take all their pointers with them.   *)
LEMMA UnlockedKeeps ==
  ASSUME TypeOK, LockTable, Coverage, NEW roots \in SUBSET Paths,
         objectlock' = Unlocked(roots), active' = Erased(roots), skels' = skels
  PROVE  LockTable' /\ Coverage'
  <1>1. ASSUME NEW p \in Paths, objectlock'[p] # None
        PROVE  /\ objectlock'[p] = objectlock[p]
               /\ objectlock[p] \in Paths \ roots
    BY <1>1, ConstantsAssumption DEF TypeOK, Unlocked
  <1>2. ASSUME NEW p \in Paths, objectlock[p] # None, objectlock[p] \notin roots
        PROVE  objectlock'[p] = objectlock[p]
    BY <1>2 DEF TypeOK, Unlocked
  <1>3. LockTable'
    <2> SUFFICES ASSUME NEW p \in Paths, objectlock'[p] # None
                 PROVE  /\ {p, objectlock'[p]} \subseteq skels'
                        /\ objectlock'[objectlock'[p]] = objectlock'[p]
                        /\ active'[objectlock'[p]] # None
                        /\ active'[objectlock'[p]].locked
      BY DEF LockTable
    <2> DEFINE r == objectlock[p]
    <2>1. objectlock'[p] = r /\ r \in Paths \ roots /\ r # None
      BY <1>1
    <2>2. {p, r} \subseteq skels /\ objectlock[r] = r /\ active[r] # None /\ active[r].locked
      BY <2>1 DEF LockTable
    <2>3. objectlock'[r] = r
      BY <1>2, <2>1, <2>2
    <2>4. active'[r] = active[r]
      BY <2>1 DEF Erased
    <2>5. QED
      BY <2>1, <2>2, <2>3, <2>4
  <1>4. Coverage'
    <2> SUFFICES ASSUME NEW p \in skels, NEW q \in skels,
                        objectlock'[p] = p, q \in Below[p]
                 PROVE  objectlock'[q] = p
      BY DEF Coverage
    <2>1. p \in Paths /\ q \in Paths /\ p # None
      BY ConstantsAssumption DEF TypeOK
    <2>2. objectlock[p] = p /\ p \notin roots
      BY <1>1, <2>1
    <2>3. objectlock[q] = p
      BY <2>2 DEF Coverage
    <2>4. QED
      BY <1>2, <2>1, <2>2, <2>3
  <1>5. QED
    BY <1>3, <1>4

-----------------------------------------------------------------------------
(* One lemma for each action that touches a lock or a skel                 *)

LEMMA RemoveClientKeeps ==
  ASSUME IInv, NEW e \in Sessions, RemoveClient(e)
  PROVE  IInv'
  <1>1. ReleasedBy(e) \in SUBSET Paths
    BY DEF ReleasedBy
  <1>2. TypeOK'
    <2>1. objectlock' \in [Paths -> Paths \cup {None}] /\ active' \in [Paths -> Lock \cup {None}]
      BY DEF IInv, TypeOK, RemoveClient, Unlocked, Erased
    <2>2. QED
      BY <2>1 DEF IInv, TypeOK, RemoveClient
  <1>3. LockTable' /\ Coverage'
    BY <1>1, UnlockedKeeps DEF IInv, RemoveClient
  <1>4. QED
    BY <1>2, <1>3 DEF IInv

LEMMA ReleaseObjectLockKeeps ==
  ASSUME IInv, NEW e \in Sessions, ReleaseObjectLock(e)
  PROVE  IInv'
  <1>1. PICK roots \in SUBSET Paths :
          objectlock' = Unlocked(roots) /\ active' = Erased(roots)
    <2>1. request[e].path \in Paths
      BY DEF IInv, TypeOK, ReleaseObjectLock, Executing, Request
    <2>2. QED
      BY <2>1 DEF ReleaseObjectLock
  <1>2. TypeOK'
    <2>1. objectlock' \in [Paths -> Paths \cup {None}] /\ active' \in [Paths -> Lock \cup {None}]
      BY <1>1 DEF IInv, TypeOK, Unlocked, Erased
    <2>2. QED
      BY <2>1 DEF IInv, TypeOK, ReleaseObjectLock, Done
  <1>3. LockTable' /\ Coverage'
    BY <1>1, UnlockedKeeps DEF IInv, ReleaseObjectLock
  <1>4. QED
    BY <1>2, <1>3 DEF IInv

(* A lock that is granted takes every skel whose path starts with its own, *)
(* and all of them were free.                                              *)
LEMMA LockedKeeps ==
  ASSUME IInv, NEW r \in skels, Free(r), skels' = skels,
         NEW lock \in Lock, lock.locked,
         active' = [active EXCEPT ![r] = lock],
         objectlock' = [q \in Paths |-> IF q \in Covers(r) THEN r ELSE objectlock[q]]
  PROVE  LockTable' /\ Coverage'
  <1>1. r \in Paths /\ r \in Covers(r) /\ r # None /\ Covers(r) \subseteq skels
    BY ConstantsAssumption DEF IInv, TypeOK, Covers
  <1>2. \A q \in Covers(r) : objectlock[q] = None
    BY DEF Free, Covers, IsLocked
  <1>3. active'[r] = lock /\ \A q \in Paths \ {r} : active'[q] = active[q]
    BY <1>1 DEF IInv, TypeOK
  <1>4. LockTable'
    <2> SUFFICES ASSUME NEW p \in Paths, objectlock'[p] # None
                 PROVE  /\ {p, objectlock'[p]} \subseteq skels'
                        /\ objectlock'[objectlock'[p]] = objectlock'[p]
                        /\ active'[objectlock'[p]] # None
                        /\ active'[objectlock'[p]].locked
      BY DEF LockTable
    <2>1. CASE p \in Covers(r)
      <3>1. lock # None
        BY NoneAssumption
      <3>2. QED
        BY <2>1, <3>1, <1>1, <1>3
    <2>2. CASE p \notin Covers(r)
      <3>1. objectlock'[p] = objectlock[p] /\ objectlock[p] # None
        BY <2>2
      <3>2. /\ {p, objectlock[p]} \subseteq skels
            /\ objectlock[objectlock[p]] = objectlock[p]
            /\ active[objectlock[p]] # None /\ active[objectlock[p]].locked
        BY <3>1 DEF IInv, LockTable
      <3>3. objectlock[p] \in Paths /\ objectlock[p] \notin Covers(r) /\ objectlock[p] # r
        BY <1>1, <1>2, <3>1, <3>2 DEF IInv, TypeOK
      <3>4. QED
        BY <1>3, <3>1, <3>2, <3>3
    <2>3. QED
      BY <2>1, <2>2
  <1>5. Coverage'
    <2> SUFFICES ASSUME NEW p \in skels, NEW q \in skels,
                        objectlock'[p] = p, q \in Below[p]
                 PROVE  objectlock'[q] = p
      BY DEF Coverage
    <2>1. p \in Paths /\ q \in Paths /\ p # None
      BY ConstantsAssumption DEF IInv, TypeOK
    <2>2. CASE p \in Covers(r)
      <3>1. p = r
        BY <2>1, <2>2
      <3>2. q \in Covers(r)
        BY <2>1, <3>1, ConstantsAssumption DEF Covers
      <3>3. QED
        BY <2>1, <3>1, <3>2
    <2>3. CASE p \notin Covers(r)
      <3>1. objectlock[p] = p
        BY <2>1, <2>3
      <3>2. objectlock[q] = p
        BY <3>1 DEF IInv, Coverage
      <3>3. q \notin Covers(r)
        BY <1>2, <2>1, <3>2
      <3>4. QED
        BY <2>1, <3>2, <3>3
    <2>4. QED
      BY <2>2, <2>3
  <1>6. QED
    BY <1>4, <1>5

LEMMA RequestObjectLockKeeps ==
  ASSUME IInv, NEW e \in Sessions, RequestObjectLock(e)
  PROVE  IInv'
  <1> DEFINE r == request[e].path
             session == IF request[e].op = "client lock" THEN e ELSE None
             lock == [user |-> request[e].user, session |-> session, locked |-> TRUE]
  <1>1. request[e] \in Request /\ r \in skels /\ skels' = skels /\ r \in Paths
    BY DEF IInv, TypeOK, RequestObjectLock, Executing, Request
  <1>2. TypeOK' \/ ~UNCHANGED <<objectlock, active>>
    BY DEF IInv, TypeOK, RequestObjectLock, Done
  <1>3. CASE UNCHANGED <<objectlock, active>>
    BY <1>1, <1>2, <1>3, SameLocks DEF IInv, lockVars
  <1>4. CASE ~UNCHANGED <<objectlock, active>>
    <2>1. /\ request[e].user # None /\ Free(r)
          /\ active' = [active EXCEPT ![r] = lock]
          /\ objectlock' = [q \in Paths |-> IF q \in Covers(r) THEN r ELSE objectlock[q]]
      BY <1>4 DEF RequestObjectLock, Granted
    <2>2. lock \in Lock /\ lock.locked
      BY <1>1, <2>1 DEF Lock, Request
    <2>3. LockTable' /\ Coverage'
      <3> HIDE DEF lock
      <3>1. QED
        BY <1>1, <2>1, <2>2, LockedKeeps
    <2>4. TypeOK'
      <3>1. objectlock' \in [Paths -> Paths \cup {None}]
        BY <1>1, <2>1 DEF IInv, TypeOK
      <3>2. active' \in [Paths -> Lock \cup {None}]
        <4> HIDE DEF lock
        <4>1. QED
          BY <1>1, <2>1, <2>2 DEF IInv, TypeOK
      <3>3. QED
        BY <3>1, <3>2 DEF IInv, TypeOK, RequestObjectLock, Done
    <2>5. QED
      BY <2>3, <2>4 DEF IInv
  <1>5. QED
    BY <1>3, <1>4

(* A new skel has the pointer of the one above it, so that it is covered   *)
(* by the lock its parent is covered by.                                   *)
LEMMA CreateSkelKeeps ==
  ASSUME IInv, NEW n \in Paths, CreateSkel(n)
  PROVE  IInv'
  <1>1. /\ n \in Paths \ {Root} /\ n \notin skels
        /\ Parent[n] \in skels /\ Parent[n] \in Paths
        /\ skels' = skels \cup {n} /\ active' = active
    BY ConstantsAssumption DEF IInv, TypeOK, CreateSkel
  <1>2. /\ objectlock' \in [Paths -> Paths \cup {None}]
        /\ objectlock'[n] = objectlock[Parent[n]]
        /\ \A p \in Paths \ {n} : objectlock'[p] = objectlock[p]
    BY <1>1 DEF IInv, TypeOK, CreateSkel, Inherited
  <1>3. TypeOK'
    BY <1>1, <1>2 DEF IInv, TypeOK, CreateSkel
  <1>4. \A p \in Paths : objectlock[p] # None => objectlock[p] \in skels \ {n}
    BY <1>1 DEF IInv, LockTable
  <1>5. LockTable'
    <2> SUFFICES ASSUME NEW p \in Paths, objectlock'[p] # None
                 PROVE  /\ {p, objectlock'[p]} \subseteq skels'
                        /\ objectlock'[objectlock'[p]] = objectlock'[p]
                        /\ active'[objectlock'[p]] # None
                        /\ active'[objectlock'[p]].locked
      BY DEF LockTable
    <2>1. PICK q \in Paths : objectlock[q] = objectlock'[p] /\ (p = n \/ p = q)
      BY <1>1, <1>2
    <2>2. /\ {q, objectlock[q]} \subseteq skels
          /\ objectlock[objectlock[q]] = objectlock[q]
          /\ active[objectlock[q]] # None /\ active[objectlock[q]].locked
      BY <2>1 DEF IInv, LockTable
    <2>3. objectlock[q] \in Paths \ {n}
      BY <1>4, <2>1, <2>2 DEF IInv, TypeOK
    <2>4. QED
      BY <1>1, <1>2, <2>1, <2>2, <2>3
  <1>6. Coverage'
    <2> SUFFICES ASSUME NEW p \in skels', NEW q \in skels',
                        objectlock'[p] = p, q \in Below[p]
                 PROVE  objectlock'[q] = p
      BY DEF Coverage
    <2>1. p \in Paths /\ q \in Paths /\ p # None
      BY <1>3, ConstantsAssumption DEF TypeOK
    <2>2. p # n /\ p \in skels /\ objectlock[p] = p
      BY <1>1, <1>2, <1>4, <2>1
    <2>3. CASE q = n
      <3>1. Parent[n] \in Below[p]
        BY <1>1, <2>1, <2>2, <2>3, ConstantsAssumption
      <3>2. objectlock[Parent[n]] = p
        BY <1>1, <2>2, <3>1 DEF IInv, Coverage
      <3>3. QED
        BY <1>2, <2>3, <3>2
    <2>4. CASE q # n
      BY <1>1, <1>2, <2>1, <2>2, <2>4 DEF IInv, Coverage
    <2>5. QED
      BY <2>3, <2>4
  <1>7. QED
    BY <1>3, <1>5, <1>6 DEF IInv

(* A path goes with everything below it and with the locks rooted there.   *)
LEMMA ReleaseServicePathKeeps ==
  ASSUME IInv, NEW s \in Paths, ReleaseServicePath(s)
  PROVE  IInv'
  <1> DEFINE gone == Below[s] \cap skels
  <1>1. /\ active' = [q \in Paths |-> IF q \in gone /\ objectlock[q] = q
                       THEN [active[q] EXCEPT !.locked = FALSE] ELSE active[q]]
        /\ objectlock' = [q \in Paths |-> IF q \in gone \/ objectlock[q] \in gone
                           THEN None ELSE objectlock[q]]
        /\ skels' = skels \ gone /\ gone \subseteq skels
    BY DEF ReleaseServicePath
  <1> HIDE DEF gone
  <1>2. \A q \in Paths : objectlock'[q] # None =>
          q \notin gone /\ objectlock[q] \notin gone /\ objectlock'[q] = objectlock[q]
    BY <1>1
  <1>3. \A q \in Paths : q \notin gone /\ objectlock[q] \notin gone =>
          objectlock'[q] = objectlock[q]
    BY <1>1
  <1>4. TypeOK'
    <2>1. objectlock' \in [Paths -> Paths \cup {None}] /\ skels' \subseteq Paths
      BY <1>1 DEF IInv, TypeOK
    <2>2. ASSUME NEW q \in Paths, q \in gone, objectlock[q] = q
          PROVE  [active[q] EXCEPT !.locked = FALSE] \in Lock
      <3>1. active[q] \in Lock
        BY <2>2, ConstantsAssumption DEF IInv, TypeOK, LockTable
      <3>2. QED
        BY <3>1 DEF Lock
    <2>3. active' \in [Paths -> Lock \cup {None}]
      BY <1>1, <2>2 DEF IInv, TypeOK
    <2>4. QED
      BY <2>1, <2>3 DEF IInv, TypeOK, ReleaseServicePath
  <1>5. LockTable'
    <2> SUFFICES ASSUME NEW p \in Paths, objectlock'[p] # None
                 PROVE  /\ {p, objectlock'[p]} \subseteq skels'
                        /\ objectlock'[objectlock'[p]] = objectlock'[p]
                        /\ active'[objectlock'[p]] # None
                        /\ active'[objectlock'[p]].locked
      BY DEF LockTable
    <2>1. p \notin gone /\ objectlock[p] \notin gone /\ objectlock'[p] = objectlock[p]
      BY <1>2
    <2>2. /\ {p, objectlock[p]} \subseteq skels
          /\ objectlock[objectlock[p]] = objectlock[p]
          /\ active[objectlock[p]] # None /\ active[objectlock[p]].locked
          /\ objectlock[p] \in Paths
      BY <2>1 DEF IInv, LockTable, TypeOK
    <2>3. active'[objectlock[p]] = active[objectlock[p]]
      BY <1>1, <2>1, <2>2
    <2>4. objectlock'[objectlock[p]] = objectlock[p]
      BY <1>3, <2>1, <2>2
    <2>5. QED
      BY <1>1, <2>1, <2>2, <2>3, <2>4
  <1>6. Coverage'
    <2> SUFFICES ASSUME NEW p \in skels', NEW q \in skels',
                        objectlock'[p] = p, q \in Below[p]
                 PROVE  objectlock'[q] = p
      BY DEF Coverage
    <2>1. p \in Paths /\ q \in Paths /\ p # None /\ p \notin gone /\ q \notin gone
          /\ p \in skels /\ q \in skels
      BY <1>1, <1>4, ConstantsAssumption DEF TypeOK
    <2>2. objectlock[p] = p
      BY <1>2, <2>1
    <2>3. objectlock[q] = p
      BY <2>1, <2>2 DEF IInv, Coverage
    <2>4. QED
      BY <1>3, <2>1, <2>3
  <1>7. QED
    BY <1>4, <1>5, <1>6 DEF IInv

(* The other actions leave locks and skels alone.                          *)
LEMMA OthersKeep ==
  ASSUME IInv, NEW e \in Sessions,
         \/ Connect(e) \/ LogoutUser(e) \/ EraseClient(e) \/ CheckLock(e) \/ Call(e)
         \/ \E op \in Operation \ {"calling"}, p \in Paths : Dispatch(e, op, p)
  PROVE  IInv'
  <1>1. UNCHANGED lockVars
    BY DEF lockVars, Connect, LogoutUser, EraseClient, CheckLock, Call, Dispatch
  <1>2. LockTable' /\ Coverage'
    BY <1>1, SameLocks DEF IInv
  <1>3. TypeOK'
    <2> USE DEF IInv, TypeOK
    <2>1. CASE Connect(e)
      BY <2>1, ConstantsAssumption DEF Connect, Users
    <2>2. CASE LogoutUser(e)
      BY <2>2 DEF LogoutUser
    <2>3. CASE EraseClient(e)
      BY <2>3 DEF EraseClient
    <2>4. CASE CheckLock(e)
      <3>1. request[e] \in Request
        BY <2>4 DEF CheckLock, Executing
      <3>2. [request[e] EXCEPT !.op = "calling"] \in Request
        BY <3>1 DEF Request, Operation
      <3>3. request' \in [Sessions -> Request \cup {None}]
        BY <2>4, <3>2 DEF CheckLock
      <3>4. QED
        BY <2>4, <3>3 DEF CheckLock
    <2>5. CASE Call(e)
      BY <2>5 DEF Call, Done
    <2>6. ASSUME NEW op \in Operation, NEW p \in Paths, Dispatch(e, op, p)
          PROVE  TypeOK'
      BY <2>6 DEF Dispatch, Request
    <2>7. QED
      BY <2>1, <2>2, <2>3, <2>4, <2>5, <2>6
  <1>4. QED
    BY <1>2, <1>3 DEF IInv

-----------------------------------------------------------------------------

LEMMA InitIInv == Init => IInv
  <1> SUFFICES ASSUME Init PROVE IInv
    OBVIOUS
  <1>1. TypeOK
    BY ConstantsAssumption DEF Init, TypeOK
  <1>2. LockTable
    BY DEF Init, LockTable
  <1>3. Coverage
    BY ConstantsAssumption DEF Init, Coverage
  <1>4. QED
    BY <1>1, <1>2, <1>3 DEF IInv

LEMMA NextIInv == IInv /\ [Next]_vars => IInv'
  <1> SUFFICES ASSUME IInv, [Next]_vars PROVE IInv'
    OBVIOUS
  <1>1. ASSUME NEW e \in Sessions, SessionStep(e) PROVE IInv'
    BY <1>1, OthersKeep, RemoveClientKeeps, RequestObjectLockKeeps,
       ReleaseObjectLockKeeps DEF SessionStep
  <1>2. ASSUME NEW p \in Paths, CreateSkel(p) \/ ReleaseServicePath(p) PROVE IInv'
    BY <1>2, CreateSkelKeeps, ReleaseServicePathKeeps
  <1>3. CASE UNCHANGED vars
    <2>1. LockTable' /\ Coverage'
      BY <1>3, SameLocks DEF IInv, vars, lockVars
    <2>2. TypeOK'
      BY <1>3 DEF IInv, TypeOK, vars
    <2>3. QED
      BY <2>1, <2>2 DEF IInv
  <1>4. QED
    BY <1>1, <1>2, <1>3 DEF Next

(* The lock table is consistent and every lock in force covers everything  *)
(* below its object, for trees of any shape (LockTable, Coverage).         *)
THEOREM Invariance == Spec => []IInv
  BY InitIInv, NextIInv, PTL DEF Spec

(* No call passes the check past a lock of somebody else on its object or  *)
(* above it (check_lock).                                                  *)
THEOREM LocksExclude == Spec => Exclusive
  <1>1. ASSUME IInv, NEW e \in Sessions, NEW p \in Paths,
               CheckLock(e), request'[e] # None,
               objectlock[p] = p, request[e].path \in Below[p]
        PROVE  Admits(active[p], e, request[e].user)
    <2> DEFINE q == request[e].path
    <2>1. q \in skels /\ p \in skels /\ p # None
      BY <1>1, ConstantsAssumption DEF CheckLock, Executing, IInv, LockTable
    <2>2. objectlock[q] = p
      BY <1>1, <2>1 DEF IInv, Coverage
    <2>3. PassesCheck(e)
      BY <1>1 DEF IInv, TypeOK, CheckLock
    <2>4. QED
      BY <2>1, <2>2, <2>3 DEF PassesCheck, IsLocked
  <1> DEFINE Step ==
        \A e \in Sessions, p \in Paths :
          /\ CheckLock(e) /\ request'[e] # None
          /\ objectlock[p] = p /\ request[e].path \in Below[p]
          => Admits(active[p], e, request[e].user)
  <1>2. IInv => Step
    BY <1>1
  <1>3. QED
    BY <1>2, Invariance, PTL DEF Exclusive

(* What a step of a session does to a lock in force.                       *)
LEMMA SessionEndsOwn ==
  ASSUME IInv, NEW p \in skels, objectlock[p] = p, objectlock'[p] # p,
         NEW e \in Sessions, SessionStep(e)
  PROVE  EndsByOwner(p)
  <1>1. p \in Paths /\ p # None
    BY ConstantsAssumption DEF IInv, TypeOK
  <1>2. CASE RemoveClient(e)
    <2>1. p \in ReleasedBy(e)
      BY <1>1, <1>2 DEF RemoveClient, Unlocked
    <2>2. QED
      BY <1>2, <2>1 DEF ReleasedBy, EndsByOwner
  <1>3. CASE ReleaseObjectLock(e)
    BY <1>1, <1>3 DEF ReleaseObjectLock, MayReleaseLock, Unlocked, EndsByOwner
  <1>4. CASE RequestObjectLock(e)
    <2>1. /\ Free(request[e].path)
          /\ p \in Covers(request[e].path)
      BY <1>1, <1>4 DEF RequestObjectLock, Granted
    <2>2. QED
      BY <1>1, <2>1 DEF Free, Covers, IsLocked
  <1>5. objectlock' = objectlock \/ RemoveClient(e) \/ ReleaseObjectLock(e)
          \/ RequestObjectLock(e)
    BY DEF SessionStep, Connect, LogoutUser, EraseClient, Dispatch, CheckLock,
           Call
  <1>6. QED
    BY <1>2, <1>3, <1>4, <1>5

(* A lock in force ends by a release of its user or of an overrider, with  *)
(* its session or the last session of its user, or with its object, and    *)
(* never by what others do (ReleaseObjectLock, RemoveClient).              *)
THEOREM LocksEndByOwner == Spec => EndedByOwner
  <1>1. ASSUME IInv, [Next]_vars, NEW p \in Paths,
               objectlock[p] = p, objectlock'[p] # p
        PROVE  EndsByOwner(p)
    <2>1. p \in skels /\ p # None
      BY <1>1, ConstantsAssumption DEF IInv, LockTable
    <2>2. ASSUME NEW e \in Sessions, SessionStep(e) PROVE EndsByOwner(p)
      BY <1>1, <2>1, <2>2, SessionEndsOwn
    <2>3. ASSUME NEW n \in Paths, CreateSkel(n) PROVE FALSE
      BY <1>1, <2>1, <2>3 DEF CreateSkel, IInv, TypeOK
    <2>4. ASSUME NEW s \in Paths, ReleaseServicePath(s) PROVE EndsByOwner(p)
      BY <1>1, <2>1, <2>4 DEF ReleaseServicePath, EndsByOwner
    <2>5. QED
      BY <1>1, <2>2, <2>3, <2>4 DEF Next, vars
  <1> DEFINE Step ==
        \A p \in Paths :
          objectlock[p] = p /\ objectlock'[p] # p => EndsByOwner(p)
  <1>2. IInv /\ [Next]_vars => Step
    BY <1>1
  <1>3. QED
    BY <1>2, Invariance, PTL DEF Spec, EndedByOwner
=============================================================================
