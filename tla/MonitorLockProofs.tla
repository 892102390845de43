------------------------- MODULE MonitorLockProofs -------------------------
(***************************************************************************)
(* Safety of MonitorLock for any number of sessions, monitors and pool     *)
(* threads: the lock protects the object while a lease lasts.              *)
(***************************************************************************)
EXTENDS MonitorLock, TLAPS

LEMMA InitIInv == Init => IInv
  <1> SUFFICES ASSUME Init PROVE IInv
    OBVIOUS
  <1>1. TypeOK
    <2> USE ConstantsAssumption DEF Init
    <2>1. /\ request \in [Sessions -> {"idle"}]
          /\ thread \in [Monitors -> {"none"}]
      OBVIOUS
    <2>2. /\ monitor \in [Sessions -> Monitors \cup {None}]
          /\ monitorlocks \in [Sessions -> Monitors \cup {None}]
          /\ endpoint \in [Monitors -> Sessions \cup {None}]
      OBVIOUS
    <2>3. calls \in 0 .. MaxCalls
      OBVIOUS
    <2>4. QED
      BY <2>1, <2>2, <2>3 DEF TypeOK
  <1>2. ASSUME NEW m \in Monitors PROVE MonitorInv(m)
    BY <1>2 DEF Init, MonitorInv
  <1>3. ASSUME NEW s \in Sessions PROVE SessionInv(s)
    BY <1>3 DEF Init, SessionInv, Own, Holds
  <1>4. QED
    BY <1>1, <1>2, <1>3 DEF IInv

-----------------------------------------------------------------------------
(* The steps, one by one.                                                  *)

LEMMA MonitorEnterKeeps ==
  ASSUME IInv, NEW s \in Sessions, NEW m \in Monitors, MonitorEnter(s, m)
  PROVE  IInv'
  <1> USE ConstantsAssumption
  <1> USE DEF IInv, sessionVars, skelVars, flags
  <1>1. thread[m] = "none"
    BY DEF MonitorEnter, Monitors
  <1> USE DEF MonitorEnter, LockOp, Goto, ThreadTo
  <1>2. TypeOK'
    BY DEF TypeOK
  <1>3. ASSUME NEW k \in Monitors PROVE MonitorInv(k)'
    <2>1. CASE k = m
      BY <1>1, <2>1 DEF MonitorInv
    <2>2. CASE k # m
      BY <2>2 DEF MonitorInv
    <2>3. QED
      BY <2>1, <2>2
  <1>4. ASSUME NEW t \in Sessions PROVE SessionInv(t)'
    <2>1. CASE t = s
      BY <1>1, <2>1 DEF TypeOK, SessionInv, Own, Holds
    <2>2. CASE t # s
      BY <1>1, <2>2 DEF SessionInv, Own, Holds
    <2>3. QED
      BY <2>1, <2>2
  <1>5. QED
    BY <1>2, <1>3, <1>4

LEMMA EnterPostsKeeps ==
  ASSUME IInv, NEW s \in Sessions, EnterPosts(s)
  PROVE  IInv'
  <1> USE ConstantsAssumption
  <1> USE DEF IInv, sessionVars, skelVars, flags, EnterPosts, Goto, ThreadTo
  <1>1. TypeOK'
    BY DEF TypeOK
  <1>2. ASSUME NEW k \in Monitors PROVE MonitorInv(k)'
    BY <1>2 DEF MonitorInv, SessionInv
  <1>3. ASSUME NEW t \in Sessions PROVE SessionInv(t)'
    BY <1>3 DEF TypeOK, SessionInv, Own, Holds
  <1>4. QED
    BY <1>1, <1>2, <1>3

LEMMA EnterReturnsKeeps ==
  ASSUME IInv, NEW s \in Sessions, EnterReturns(s)
  PROVE  IInv'
  <1> USE ConstantsAssumption
  <1> USE DEF IInv, sessionVars, skelVars, flags, EnterReturns, Goto, Answer
  <1>1. TypeOK'
    BY DEF TypeOK
  <1>2. ASSUME NEW k \in Monitors PROVE MonitorInv(k)'
    BY <1>2 DEF MonitorInv
  <1>3. ASSUME NEW t \in Sessions PROVE SessionInv(t)'
    BY <1>3 DEF TypeOK, SessionInv, Own, Holds
  <1>4. QED
    BY <1>1, <1>2, <1>3

LEMMA MonitorContinueEnterKeeps ==
  ASSUME IInv, NEW s \in Sessions, MonitorContinueEnter(s)
  PROVE  IInv'
  <1> USE ConstantsAssumption
  <1> USE DEF IInv, sessionVars, skelVars, flags, MonitorContinueEnter, Goto
  <1>1. TypeOK'
    BY DEF TypeOK
  <1>2. ASSUME NEW k \in Monitors PROVE MonitorInv(k)'
    BY <1>2 DEF MonitorInv
  <1>3. ASSUME NEW t \in Sessions PROVE SessionInv(t)'
    BY <1>3 DEF TypeOK, SessionInv, Own, Holds
  <1>4. QED
    BY <1>1, <1>2, <1>3

LEMMA MonitorExitKeeps ==
  ASSUME IInv, NEW s \in Sessions, MonitorExit(s)
  PROVE  IInv'
  <1> USE ConstantsAssumption
  <1> USE DEF IInv, sessionVars, skelVars, flags, MonitorExit, Goto
  <1>1. TypeOK'
    BY DEF TypeOK
  <1>2. ASSUME NEW k \in Monitors PROVE MonitorInv(k)'
    BY <1>2 DEF MonitorInv
  <1>3. ASSUME NEW t \in Sessions PROVE SessionInv(t)'
    BY <1>3 DEF TypeOK, SessionInv, Own, Holds
  <1>4. QED
    BY <1>1, <1>2, <1>3

LEMMA ExitReturnsKeeps ==
  ASSUME IInv, NEW s \in Sessions, ExitReturns(s)
  PROVE  IInv'
  <1> USE ConstantsAssumption
  <1> USE DEF IInv, sessionVars, skelVars, flags, ExitReturns, Goto
  <1>1. TypeOK'
    BY DEF TypeOK
  <1>2. ASSUME NEW k \in Monitors PROVE MonitorInv(k)'
    BY <1>2 DEF MonitorInv
  <1>3. ASSUME NEW t \in Sessions PROVE SessionInv(t)'
    BY <1>3 DEF SessionInv, Own, Holds
  <1>4. QED
    BY <1>1, <1>2, <1>3

LEMMA GiveUpKeeps ==
  ASSUME IInv, NEW s \in Sessions, GiveUp(s)
  PROVE  IInv'
  <1> USE ConstantsAssumption
  <1> USE DEF IInv, sessionVars, skelVars, flags, GiveUp, Goto
  <1>1. TypeOK'
    BY DEF TypeOK
  <1>2. ASSUME NEW k \in Monitors PROVE MonitorInv(k)'
    BY <1>2 DEF MonitorInv
  <1>3. ASSUME NEW t \in Sessions PROVE SessionInv(t)'
    BY <1>3 DEF SessionInv, Own, Holds
  <1>4. QED
    BY <1>1, <1>2, <1>3

LEMMA CallKeeps ==
  ASSUME IInv, NEW s \in Sessions, Call(s)
  PROVE  IInv'
  <1> USE ConstantsAssumption
  <1> USE DEF IInv, sessionVars, skelVars, flags, Call, IsMonitorLocked
  <1>1. TypeOK'
    BY DEF TypeOK
  <1>2. ASSUME NEW k \in Monitors PROVE MonitorInv(k)'
    BY <1>2 DEF MonitorInv
  <1>3. ASSUME NEW t \in Sessions PROVE SessionInv(t)'
    BY <1>3 DEF SessionInv, Own, Holds
  <1>4. QED
    BY <1>1, <1>2, <1>3

LEMMA ThreadStartsKeeps ==
  ASSUME IInv, NEW m \in Monitors, ThreadStarts(m)
  PROVE  IInv'
  <1> USE ConstantsAssumption
  <1> USE DEF IInv, sessionVars, skelVars, flags, ThreadStarts, ThreadTo
  <1>1. TypeOK'
    BY DEF TypeOK
  <1>2. ASSUME NEW k \in Monitors PROVE MonitorInv(k)'
    BY <1>2 DEF MonitorInv
  <1>3. ASSUME NEW t \in Sessions PROVE SessionInv(t)'
    BY <1>3 DEF SessionInv, Own, Holds
  <1>4. QED
    BY <1>1, <1>2, <1>3

LEMMA UserEntersKeeps ==
  ASSUME IInv, NEW m \in Monitors, UserEnters(m)
  PROVE  IInv'
  <1> USE ConstantsAssumption
  <1> USE DEF IInv, sessionVars, skelVars, flags, UserEnters, ThreadTo
  <1>1. TypeOK'
    BY DEF TypeOK
  <1>2. ASSUME NEW k \in Monitors PROVE MonitorInv(k)'
    BY <1>2 DEF MonitorInv
  <1>3. ASSUME NEW t \in Sessions PROVE SessionInv(t)'
    BY <1>3 DEF SessionInv, Own, Holds
  <1>4. QED
    BY <1>1, <1>2, <1>3

LEMMA UserThrowsKeeps ==
  ASSUME IInv, NEW m \in Monitors, UserThrows(m)
  PROVE  IInv'
  <1> USE ConstantsAssumption
  <1> USE DEF IInv, sessionVars, skelVars, flags, UserThrows, ThreadTo
  <1>1. TypeOK'
    BY DEF TypeOK
  <1>2. ASSUME NEW k \in Monitors PROVE MonitorInv(k)'
    BY <1>2 DEF MonitorInv
  <1>3. ASSUME NEW t \in Sessions PROVE SessionInv(t)'
    BY <1>3 DEF SessionInv, Own, Holds
  <1>4. QED
    BY <1>1, <1>2, <1>3

LEMMA FailureErasesKeeps ==
  ASSUME IInv, NEW m \in Monitors, FailureErases(m)
  PROVE  IInv'
  <1> USE ConstantsAssumption
  <1> USE DEF IInv, sessionVars, skelVars, flags, FailureErases, ThreadTo,
              Erased
  <1>1. TypeOK'
    BY DEF TypeOK
  <1>2. ASSUME NEW k \in Monitors PROVE MonitorInv(k)'
    BY <1>2 DEF MonitorInv
  <1>3. ASSUME NEW t \in Sessions PROVE SessionInv(t)'
    BY <1>3 DEF SessionInv, Own, Holds
  <1>4. QED
    BY <1>1, <1>2, <1>3

LEMMA AcquiresKeeps ==
  ASSUME IInv, NEW m \in Monitors, Acquires(m)
  PROVE  IInv'
  <1> USE ConstantsAssumption
  <1> USE DEF IInv, sessionVars, skelVars, flags, Acquires, ThreadTo
  <1>1. TypeOK'
    BY DEF TypeOK
  <1>2. ASSUME NEW k \in Monitors PROVE MonitorInv(k)'
    BY <1>2 DEF TypeOK, MonitorInv
  <1>3. ASSUME NEW t \in Sessions PROVE SessionInv(t)'
    BY <1>3 DEF SessionInv, Own, Holds
  <1>4. QED
    BY <1>1, <1>2, <1>3

LEMMA PublishesKeeps ==
  ASSUME IInv, NEW m \in Monitors, Publishes(m)
  PROVE  IInv'
  <1> USE ConstantsAssumption
  <1> USE DEF IInv, sessionVars, skelVars, flags, Publishes, ThreadTo,
              Published
  <1>1. TypeOK'
    BY DEF TypeOK
  <1>2. ASSUME NEW k \in Monitors PROVE MonitorInv(k)'
    BY <1>2 DEF TypeOK, MonitorInv
  <1>3. ASSUME NEW t \in Sessions PROVE SessionInv(t)'
    BY <1>3 DEF SessionInv, Own, Holds
  <1>4. QED
    BY <1>1, <1>2, <1>3

LEMMA DecidesKeeps ==
  ASSUME IInv, NEW m \in Monitors, Decides(m)
  PROVE  IInv'
  <1> USE ConstantsAssumption
  <1> USE DEF IInv, sessionVars, skelVars, flags, Decides, ThreadTo
  <1>1. TypeOK'
    BY DEF TypeOK
  <1>2. ASSUME NEW k \in Monitors PROVE MonitorInv(k)'
    BY <1>2 DEF MonitorInv
  <1>3. ASSUME NEW t \in Sessions PROVE SessionInv(t)'
    BY <1>3 DEF SessionInv, Own, Holds
  <1>4. QED
    BY <1>1, <1>2, <1>3

LEMMA EventWakesKeeps ==
  ASSUME IInv, NEW m \in Monitors, EventWakes(m)
  PROVE  IInv'
  <1> USE ConstantsAssumption
  <1> USE DEF IInv, sessionVars, skelVars, flags, EventWakes, ThreadTo
  <1>1. TypeOK'
    BY DEF TypeOK
  <1>2. ASSUME NEW k \in Monitors PROVE MonitorInv(k)'
    BY <1>2 DEF MonitorInv
  <1>3. ASSUME NEW t \in Sessions PROVE SessionInv(t)'
    BY <1>3 DEF SessionInv, Own, Holds
  <1>4. QED
    BY <1>1, <1>2, <1>3

LEMMA LeaseExpiresKeeps ==
  ASSUME IInv, NEW m \in Monitors, LeaseExpires(m)
  PROVE  IInv'
  <1> USE ConstantsAssumption
  <1> USE DEF IInv, sessionVars, skelVars, flags, LeaseExpires, ThreadTo
  <1>1. TypeOK'
    BY DEF TypeOK
  <1>2. ASSUME NEW k \in Monitors PROVE MonitorInv(k)'
    BY <1>2 DEF MonitorInv
  <1>3. ASSUME NEW t \in Sessions PROVE SessionInv(t)'
    BY <1>3 DEF SessionInv, Own, Holds
  <1>4. QED
    BY <1>1, <1>2, <1>3

LEMMA LeaveErasesKeeps ==
  ASSUME IInv, NEW m \in Monitors, LeaveErases(m)
  PROVE  IInv'
  <1> USE ConstantsAssumption
  <1> USE DEF IInv, sessionVars, skelVars, flags, LeaveErases, ThreadTo, Erased
  <1>1. TypeOK'
    BY DEF TypeOK
  <1>2. ASSUME NEW k \in Monitors PROVE MonitorInv(k)'
    BY <1>2 DEF MonitorInv
  <1>3. ASSUME NEW t \in Sessions PROVE SessionInv(t)'
    BY <1>3 DEF SessionInv, Own, Holds
  <1>4. QED
    BY <1>1, <1>2, <1>3

LEMMA UserExitsKeeps ==
  ASSUME IInv, NEW m \in Monitors, UserExits(m)
  PROVE  IInv'
  <1> USE ConstantsAssumption
  <1> USE DEF IInv, sessionVars, skelVars, flags, UserExits, ThreadTo
  <1>1. TypeOK'
    BY DEF TypeOK
  <1>2. ASSUME NEW k \in Monitors PROVE MonitorInv(k)'
    BY <1>2 DEF TypeOK, MonitorInv
  <1>3. ASSUME NEW t \in Sessions PROVE SessionInv(t)'
    BY <1>3 DEF TypeOK, SessionInv, Own, Holds
  <1>4. QED
    BY <1>1, <1>2, <1>3

LEMMA ClearsKeeps ==
  ASSUME IInv, NEW m \in Monitors, Clears(m)
  PROVE  IInv'
  <1> USE ConstantsAssumption
  <1> USE DEF IInv, sessionVars, skelVars, flags, Clears, ThreadTo, Cleared
  <1>1. TypeOK'
    BY DEF TypeOK
  <1>2. ASSUME NEW k \in Monitors PROVE MonitorInv(k)'
    BY <1>2 DEF MonitorInv
  <1>3. ASSUME NEW t \in Sessions PROVE SessionInv(t)'
    BY <1>3 DEF MonitorInv, SessionInv, Own, Holds
  <1>4. QED
    BY <1>1, <1>2, <1>3

LEMMA ReleaseObjectKeeps ==
  ASSUME IInv, ReleaseObject
  PROVE  IInv'
  <1> USE ConstantsAssumption
  <1> USE DEF IInv, sessionVars, skelVars, flags, ReleaseObject
  <1>1. TypeOK'
    BY DEF TypeOK
  <1>2. ASSUME NEW k \in Monitors PROVE MonitorInv(k)'
    BY <1>2 DEF MonitorInv
  <1>3. ASSUME NEW t \in Sessions PROVE SessionInv(t)'
    BY <1>3 DEF SessionInv, Own, Holds
  <1>4. QED
    BY <1>1, <1>2, <1>3

LEMMA NextIInv == IInv /\ [Next]_vars => IInv'
  <1> SUFFICES ASSUME IInv, [Next]_vars PROVE IInv'
    OBVIOUS
  <1>1. ASSUME NEW s \in Sessions,
               \/ \E m \in Monitors : MonitorEnter(s, m)
               \/ ServerStep(s) \/ MonitorContinueEnter(s) \/ MonitorExit(s)
               \/ GiveUp(s) \/ Call(s)
        PROVE  IInv'
    BY <1>1, MonitorEnterKeeps, EnterPostsKeeps, EnterReturnsKeeps,
       ExitReturnsKeeps, MonitorContinueEnterKeeps, MonitorExitKeeps,
       GiveUpKeeps, CallKeeps DEF ServerStep
  <1>2. ASSUME NEW m \in Monitors, ThreadStep(m) \/ UserThrows(m)
        PROVE  IInv'
    BY <1>2, ThreadStartsKeeps, UserEntersKeeps, UserThrowsKeeps,
       FailureErasesKeeps, AcquiresKeeps, PublishesKeeps, DecidesKeeps,
       EventWakesKeeps, LeaseExpiresKeeps, LeaveErasesKeeps, UserExitsKeeps,
       ClearsKeeps DEF ThreadStep
  <1>3. CASE UNCHANGED vars
    <2> USE <1>3 DEF IInv, vars, sessionVars, skelVars, flags
    <2>1. TypeOK'
      BY DEF TypeOK
    <2>2. ASSUME NEW m \in Monitors PROVE MonitorInv(m)'
      BY <2>2 DEF MonitorInv
    <2>3. ASSUME NEW s \in Sessions PROVE SessionInv(s)'
      BY <2>3 DEF SessionInv, Own, Holds
    <2>4. QED
      BY <2>1, <2>2, <2>3
  <1>4. QED
    BY <1>1, <1>2, <1>3, ReleaseObjectKeeps DEF Next

-----------------------------------------------------------------------------

(* What thread_func and the requests agree on: who is in the object's lock *)
(* and which monitor check_monitor_lock looks at.                          *)
THEOREM Invariance == Spec => []IInv
  BY InitIInv, NextIInv, PTL DEF Spec

(* A session that was told "OK" is alone with the object until its lease   *)
(* is over: its monitor is the one in the object's lock, and               *)
(* check_monitor_lock turns every other session away.                      *)
THEOREM LockProtects == Spec => []Protected
  <1>1. IInv => Protected
    <2> SUFFICES ASSUME IInv, NEW s \in Sessions, Holds(s)
                 PROVE  /\ holder = monitor[s]
                        /\ \A t \in Sessions \ {s} : ~Admitted(t)
      BY DEF Protected
    <2> DEFINE m == monitor[s]
    <2>1. m \in Monitors /\ endpoint[m] = s /\ m \in monitor_acquired
      BY ConstantsAssumption DEF IInv, TypeOK, SessionInv, Own
    <2>2. /\ thread[m] \in {"publishing", "deciding", "blocked"}
          /\ holder = m
      BY <2>1 DEF IInv, MonitorInv, Holds
    <2>3. CASE thread[m] = "publishing"
      BY <2>1, <2>2, <2>3, ConstantsAssumption
      DEF IInv, MonitorInv, Admitted
    <2>4. CASE thread[m] # "publishing"
      BY <2>1, <2>2, <2>4, ConstantsAssumption
      DEF IInv, MonitorInv, Admitted, IsMonitorLocked
    <2>5. QED
      BY <2>2, <2>3, <2>4
  <1>2. QED
    BY <1>1, Invariance, PTL
=============================================================================
