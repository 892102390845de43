----------------------------- MODULE MonitorLock -----------------------------
(***************************************************************************)
(* The monitor lock of an object (ServerContext_MonitorObjectSkel in       *)
(* Service_lock.cpp and ClientLockOp in Service.cpp).  A session that asks *)
(* for it gets a monitor, whose thread enters the lock of the user's       *)
(* object and stays there until the session leaves, stops calling for the  *)
(* time of the lease, or the object is released.                           *)
(***************************************************************************)
EXTENDS Integers, FiniteSets

CONSTANTS
  Sessions,
  MaxMonitors,   \* bound: times the lock is asked for
  PoolThreads,   \* size of the thread pool of monitors, 5 in the code
  MayRelease,    \* the object may be released
  MaxCalls,      \* bound: calls that renew a lease
  None

(* The ServerContext_MonitorObjectSkel, in the order they are made.        *)
Monitors == 1 .. MaxMonitors

ASSUME ConstantsAssumption ==
  /\ MaxMonitors \in Nat
  /\ PoolThreads \in Nat \ {0} /\ MaxCalls \in Nat
  /\ MayRelease \in BOOLEAN
  /\ None \notin Sessions \cup Monitors

VARIABLES
  request,           \* the request each session has under way
  monitor,           \* the monitor its last request was about
  ClientLockOp_lockobj,
  monitorlocks,      \* skel->monitorlocks: the monitor of each session
  monitorlock,       \* skel->monitorlock: the last that acquired
  monitorlocks_lock,
  endpoint,          \* local_endpoint of each monitor
  thread,            \* thread_func of each monitor
  monitor_acquired, maintain_lock, monitor_thread_event,
  monitor_acquire_exception,
  holder,            \* who is in the lock of the user's object
  released,          \* the object is gone
  calls

sessionVars == <<request, monitor, ClientLockOp_lockobj>>
skelVars == <<monitorlocks, monitorlock, monitorlocks_lock>>
flags == <<monitor_acquired, maintain_lock, monitor_thread_event,
           monitor_acquire_exception>>
vars == <<sessionVars, skelVars, endpoint, thread, flags, holder, released,
          calls>>

TypeOK ==
  /\ request \in [Sessions -> {"idle", "entering", "waiting", "continue",
                               "locked", "exiting"}]
  /\ monitor \in [Sessions -> Monitors \cup {None}]
  /\ ClientLockOp_lockobj \in Sessions \cup {None}
  /\ monitorlocks \in [Sessions -> Monitors \cup {None}]
  /\ monitorlock \in Monitors \cup {None}
  /\ monitorlocks_lock \in Monitors \cup {None}
  /\ endpoint \in [Monitors -> Sessions \cup {None}]
  /\ thread \in [Monitors -> {"none", "made", "posted", "entering", "entered",
                              "failed", "publishing", "deciding", "blocked",
                              "leaving", "exiting", "clearing", "over"}]
  /\ monitor_acquired \subseteq Monitors /\ maintain_lock \subseteq Monitors
  /\ monitor_thread_event \subseteq Monitors
  /\ monitor_acquire_exception \subseteq Monitors
  /\ holder \in Monitors \cup {None}
  /\ released \in BOOLEAN
  /\ calls \in 0 .. MaxCalls

Init ==
  /\ request = [s \in Sessions |-> "idle"]
  /\ monitor = [s \in Sessions |-> None]
  /\ ClientLockOp_lockobj = None
  /\ monitorlocks = [s \in Sessions |-> None]
  /\ monitorlock = None /\ monitorlocks_lock = None
  /\ endpoint = [m \in Monitors |-> None]
  /\ thread = [m \in Monitors |-> "none"]
  /\ monitor_acquired = {} /\ maintain_lock = {}
  /\ monitor_thread_event = {} /\ monitor_acquire_exception = {}
  /\ holder = None
  /\ released = FALSE
  /\ calls = 0

Goto(s, r) == request' = [request EXCEPT ![s] = r]
ThreadTo(m, t) == thread' = [thread EXCEPT ![m] = t]

-----------------------------------------------------------------------------
(* Requests of the sessions.  A session has one request at a time: the     *)
(* client holds the mutex of the stub while it enters or leaves.           *)

(* ClientLockOp begins: the object is found and the lock is free.          *)
LockOp == ~released /\ ClientLockOp_lockobj = None /\ monitorlocks_lock = None

(* "Already acquiring or acquired monitor lock" is thrown otherwise.       *)
MonitorEnter(s, m) ==
  /\ request[s] = "idle" /\ LockOp
  /\ monitorlocks[s] = None
  /\ \A k \in Monitors : thread[k] = "none" <=> k >= m
  /\ ThreadTo(m, "made")
  /\ endpoint' = [endpoint EXCEPT ![m] = s]
  /\ maintain_lock' = maintain_lock \cup {m}
  /\ monitor' = [monitor EXCEPT ![s] = m]
  /\ Goto(s, "entering")
  /\ UNCHANGED <<ClientLockOp_lockobj, skelVars, monitor_acquired,
                 monitor_thread_event, monitor_acquire_exception, holder,
                 released, calls>>

(* insert() leaves an older entry alone; thread_func is posted.            *)
EnterPosts(s) ==
  /\ request[s] = "entering" /\ monitorlocks_lock = None
  /\ monitorlocks' = [monitorlocks EXCEPT ![s] = IF @ = None THEN monitor[s] ELSE @]
  /\ ThreadTo(monitor[s], "posted")
  /\ Goto(s, "waiting")
  /\ UNCHANGED <<monitor, ClientLockOp_lockobj, monitorlock, monitorlocks_lock,
                 endpoint, flags, holder, released, calls>>

(* wait_event->WaitOne(5000) has ended, by the event or by the time: what  *)
(* is read then is the answer.                                             *)
Answer(s) == IF monitor[s] \in monitor_acquired THEN "locked" ELSE "continue"

EnterReturns(s) ==
  /\ request[s] = "waiting"
  /\ \/ /\ monitor[s] \in monitor_acquire_exception
        /\ maintain_lock' = maintain_lock \ {monitor[s]}
        /\ Goto(s, "idle")
     \/ /\ monitor[s] \notin monitor_acquire_exception
        /\ Goto(s, Answer(s))
        /\ UNCHANGED maintain_lock
  /\ UNCHANGED <<monitor, ClientLockOp_lockobj, skelVars, endpoint, thread,
                 monitor_acquired, monitor_thread_event,
                 monitor_acquire_exception, holder, released, calls>>

(* The client was told "Continue" and asks again.                          *)
MonitorContinueEnter(s) ==
  /\ request[s] = "continue" /\ LockOp
  /\ \/ /\ monitorlocks[s] # None
        /\ monitor' = [monitor EXCEPT ![s] = monitorlocks[s]]
        /\ Goto(s, "waiting")
     \/ /\ monitorlocks[s] = None
        /\ Goto(s, "idle")
        /\ UNCHANGED monitor
  /\ UNCHANGED <<ClientLockOp_lockobj, skelVars, endpoint, thread, flags,
                 holder, released, calls>>

(* MonitorExit keeps ClientLockOp_lockobj while it waits for the thread.   *)
MonitorExit(s) ==
  /\ request[s] = "locked" /\ LockOp
  /\ \/ /\ monitorlock # None /\ monitorlocks[s] # None
        /\ monitor' = [monitor EXCEPT ![s] = monitorlocks[s]]
        /\ maintain_lock' = maintain_lock \ {monitorlocks[s]}
        /\ monitor_thread_event' = monitor_thread_event \cup {monitorlocks[s]}
        /\ ClientLockOp_lockobj' = s
        /\ Goto(s, "exiting")
     \/ /\ monitorlock = None \/ monitorlocks[s] = None
        /\ Goto(s, "idle")
        /\ UNCHANGED <<monitor, maintain_lock, monitor_thread_event,
                       ClientLockOp_lockobj>>
  /\ UNCHANGED <<skelVars, endpoint, thread, monitor_acquired,
                 monitor_acquire_exception, holder, released, calls>>

(* while (monitor_acquired) is over.                                       *)
ExitReturns(s) ==
  /\ request[s] = "exiting"
  /\ monitor[s] \notin monitor_acquired
  /\ ClientLockOp_lockobj' = None
  /\ Goto(s, "idle")
  /\ UNCHANGED <<monitor, skelVars, endpoint, thread, flags, holder, released,
                 calls>>

(* The client gives up waiting for the lock, or was told it failed.        *)
GiveUp(s) ==
  /\ request[s] = "continue"
  /\ Goto(s, "idle")
  /\ UNCHANGED <<monitor, ClientLockOp_lockobj, skelVars, endpoint, thread,
                 flags, holder, released, calls>>

-----------------------------------------------------------------------------
(* check_monitor_lock                                                      *)

IsMonitorLocked == monitorlock # None /\ monitorlock \in monitor_acquired

Admitted(s) ==
  /\ ~released /\ monitorlocks_lock = None
  /\ IsMonitorLocked => endpoint[monitorlock] = s

(* A call of the session that has the lock renews the lease.               *)
Call(s) ==
  /\ calls < MaxCalls
  /\ Admitted(s) /\ IsMonitorLocked
  /\ calls' = calls + 1
  /\ monitor_thread_event' = monitor_thread_event \cup {monitorlock}
  /\ UNCHANGED <<sessionVars, skelVars, endpoint, thread, monitor_acquired,
                 maintain_lock, monitor_acquire_exception, holder, released>>

-----------------------------------------------------------------------------
(* thread_func                                                             *)

Running == {m \in Monitors : thread[m] \notin {"none", "made", "posted", "over"}}

(* A pool thread takes the monitor up.                                     *)
ThreadStarts(m) ==
  /\ thread[m] = "posted"
  /\ Cardinality(Running) < PoolThreads
  /\ ThreadTo(m, IF released THEN "over" ELSE "entering")
  /\ UNCHANGED <<sessionVars, skelVars, endpoint, flags, holder, released, calls>>

(* RobotRaconteurMonitorEnter of the user's object.                        *)
UserEnters(m) ==
  /\ thread[m] = "entering"
  /\ holder = None
  /\ holder' = m
  /\ ThreadTo(m, "entered")
  /\ UNCHANGED <<sessionVars, skelVars, endpoint, flags, released, calls>>

(* It throws, for instance when its timeout has passed.                    *)
UserThrows(m) ==
  /\ thread[m] = "entering"
  /\ monitor_acquire_exception' = monitor_acquire_exception \cup {m}
  /\ ThreadTo(m, "failed")
  /\ UNCHANGED <<sessionVars, skelVars, endpoint, monitor_acquired,
                 maintain_lock, monitor_thread_event, holder, released, calls>>

Erased(m) == monitorlocks' = [monitorlocks EXCEPT ![endpoint[m]] = None]

FailureErases(m) ==
  /\ thread[m] = "failed" /\ monitorlocks_lock = None
  /\ Erased(m)
  /\ ThreadTo(m, "over")
  /\ UNCHANGED <<sessionVars, monitorlock, monitorlocks_lock, endpoint, flags,
                 holder, released, calls>>

(* monitor_acquired is set, and read elsewhere without the lock that is    *)
(* held here.                                                              *)
Acquires(m) ==
  /\ thread[m] = "entered" /\ monitorlocks_lock = None
  /\ monitorlocks_lock' = m
  /\ monitor_acquired' = monitor_acquired \cup {m}
  /\ ThreadTo(m, "publishing")
  /\ UNCHANGED <<sessionVars, monitorlocks, monitorlock, endpoint,
                 maintain_lock, monitor_thread_event,
                 monitor_acquire_exception, holder, released, calls>>

(* The slip keeps the first monitor there.                                 *)
SlipPublished(m) == IF monitorlock = None THEN m ELSE monitorlock

Published(m) == m

Publishes(m) ==
  /\ thread[m] = "publishing"
  /\ monitorlock' = Published(m)
  /\ monitorlocks_lock' = None
  /\ ThreadTo(m, "deciding")
  /\ UNCHANGED <<sessionVars, monitorlocks, endpoint, flags, holder, released,
                 calls>>

(* while (maintain_lock).                                                  *)
Decides(m) ==
  /\ thread[m] = "deciding"
  /\ ThreadTo(m, IF m \in maintain_lock THEN "blocked" ELSE "leaving")
  /\ UNCHANGED <<sessionVars, skelVars, endpoint, flags, holder, released, calls>>

EventWakes(m) ==
  /\ thread[m] = "blocked"
  /\ m \in monitor_thread_event
  /\ monitor_thread_event' = monitor_thread_event \ {m}
  /\ ThreadTo(m, "deciding")
  /\ UNCHANGED <<sessionVars, skelVars, endpoint, monitor_acquired,
                 maintain_lock, monitor_acquire_exception, holder, released,
                 calls>>

(* 30 seconds without a call; the slip waits for the event alone.          *)
SlipLeaseExpires(m) == FALSE

LeaseExpires(m) ==
  /\ thread[m] = "blocked"
  /\ m \notin monitor_thread_event
  /\ maintain_lock' = maintain_lock \ {m}
  /\ ThreadTo(m, "deciding")
  /\ UNCHANGED <<sessionVars, skelVars, endpoint, monitor_acquired,
                 monitor_thread_event, monitor_acquire_exception, holder,
                 released, calls>>

LeaveErases(m) ==
  /\ thread[m] = "leaving" /\ monitorlocks_lock = None
  /\ Erased(m)
  /\ ThreadTo(m, "exiting")
  /\ UNCHANGED <<sessionVars, monitorlock, monitorlocks_lock, endpoint, flags,
                 holder, released, calls>>

(* RobotRaconteurMonitorExit; a released object is left locked, and        *)
(* monitor_acquired set.                                                   *)
UserExits(m) ==
  /\ thread[m] = "exiting"
  /\ \/ /\ ~released
        /\ holder' = None
        /\ ThreadTo(m, "clearing")
     \/ /\ released
        /\ ThreadTo(m, "over")
        /\ UNCHANGED holder
  /\ UNCHANGED <<sessionVars, skelVars, endpoint, flags, released, calls>>

(* The slip forgets the flag.                                              *)
SlipCleared(m) == monitor_acquired

Cleared(m) == monitor_acquired \ {m}

Clears(m) ==
  /\ thread[m] = "clearing"
  /\ monitor_acquired' = Cleared(m)
  /\ ThreadTo(m, "over")
  /\ UNCHANGED <<sessionVars, skelVars, endpoint, maintain_lock,
                 monitor_thread_event, monitor_acquire_exception, holder,
                 released, calls>>

-----------------------------------------------------------------------------

(* ServiceSkel::ReleaseObject shuts the monitors down; the object goes     *)
(* away with the last reference of the user.                               *)
ReleaseObject ==
  /\ MayRelease /\ ~released /\ monitorlocks_lock = None
  /\ released' = TRUE
  /\ LET shut == {monitorlocks[s] : s \in Sessions} \ {None} IN
       /\ maintain_lock' = maintain_lock \ shut
       /\ monitor_thread_event' = monitor_thread_event \cup shut
  /\ UNCHANGED <<sessionVars, skelVars, endpoint, thread, monitor_acquired,
                 monitor_acquire_exception, holder, calls>>

ThreadStep(m) ==
  \/ ThreadStarts(m) \/ UserEnters(m) \/ FailureErases(m) \/ Acquires(m)
  \/ Publishes(m) \/ Decides(m) \/ EventWakes(m) \/ LeaseExpires(m)
  \/ LeaveErases(m) \/ UserExits(m) \/ Clears(m)

ServerStep(s) == EnterPosts(s) \/ EnterReturns(s) \/ ExitReturns(s)

Next ==
  \/ \E s \in Sessions :
       \/ \E m \in Monitors : MonitorEnter(s, m)
       \/ ServerStep(s) \/ MonitorContinueEnter(s) \/ MonitorExit(s)
       \/ GiveUp(s) \/ Call(s)
  \/ \E m \in Monitors : ThreadStep(m) \/ UserThrows(m)
  \/ ReleaseObject

Spec == Init /\ [][Next]_vars

(* Threads that have begun go on and leases expire; no client has to ask   *)
(* again, to leave or to call.                                             *)
Fairness ==
  /\ \A m \in Monitors : WF_vars(ThreadStep(m))
  /\ \A s \in Sessions : WF_vars(ServerStep(s))

FairSpec == Spec /\ Fairness

-----------------------------------------------------------------------------
(* Properties                                                              *)

(* A session that was told it has the lock, before its lease is over.      *)
Holds(s) == request[s] = "locked" /\ monitor[s] \in maintain_lock

(* While a session holds the lock it is in the lock of the user's object,  *)
(* and no call of another session gets past check_monitor_lock.            *)
Protected ==
  \A s \in Sessions :
    Holds(s) => /\ holder = monitor[s]
                /\ \A t \in Sessions \ {s} : ~Admitted(t)

(* Again and again no monitor is at work: whoever asked gets the lock or   *)
(* an exception however the sessions before ended, because leases run out. *)
EveryMonitorEnds ==
  []<>(released \/ \A m \in Monitors : thread[m] \in {"none", "over"})

(* Again and again no MonitorExit spins, unless the object was released    *)
(* meanwhile.                                                              *)
ExitEnds ==
  []<>(released \/ \A s \in Sessions : request[s] # "exiting")

(* Why Protected holds: a monitor whose lease is not over is at its wait,  *)
(* and a monitor between its two calls of the user's object is the one in  *)
(* the object's lock and, once published, the one check_monitor_lock asks. *)
MonitorInv(m) ==
  /\ thread[m] = "none" => m \notin monitor_acquired
  /\ m \in monitor_acquired /\ m \in maintain_lock
       => thread[m] \in {"publishing", "deciding", "blocked"}
  /\ thread[m] \in {"entered", "publishing", "deciding", "blocked",
                    "leaving", "exiting"} => holder = m
  /\ thread[m] = "publishing" => monitorlocks_lock = m
  /\ thread[m] \in {"publishing", "deciding", "blocked", "leaving", "exiting"}
       => m \in monitor_acquired
  /\ thread[m] \in {"deciding", "blocked", "leaving", "exiting"}
       => monitorlock = m

(* A monitor belongs to the session that made it.                          *)
Own(s, m) == m # None => endpoint[m] = s /\ thread[m] # "none"

SessionInv(s) ==
  /\ Own(s, monitor[s]) /\ Own(s, monitorlocks[s])
  /\ request[s] = "entering" =>
       monitor[s] # None /\ thread[monitor[s]] = "made"
  /\ Holds(s) => monitor[s] \in monitor_acquired

IInv ==
  /\ TypeOK
  /\ \A m \in Monitors : MonitorInv(m)
  /\ \A s \in Sessions : SessionInv(s)
=============================================================================
