------------------------ MODULE AsyncSignalSemaphore ------------------------
(***************************************************************************)
(* async_signal_semaphore (AsyncUtils.h): pipes and wires call             *)
(* try_fire_next whenever data has come, from any number of threads, to    *)
(* run a user's event handler.  One handler runs at a time; calls that     *)
(* come meanwhile are merged into one further run.                         *)
(*                                                                         *)
(* Each action is one critical section of this_lock; the handler itself    *)
(* runs outside the lock.                                                  *)
(***************************************************************************)
EXTENDS Integers, FiniteSets

CONSTANTS
  Threads,
  MaxCalls     \* bound: calls that get an id

VARIABLES
  running,     \* a handler is running
  next,        \* a caller waits for its turn
  next_id,     \* id of the latest caller that had to wait
  my_id,       \* id each thread drew
  pc,          \* where each thread is
  unseen       \* an event has come that no handler was started after

semaphoreVars == <<running, next, next_id, my_id, pc, unseen>>

-----------------------------------------------------------------------------

SemaphoreInit ==
  /\ running = FALSE
  /\ next = FALSE
  /\ next_id = 0
  /\ my_id = [t \in Threads |-> 0]
  /\ pc = [t \in Threads |-> "idle"]
  /\ unseen = FALSE

(* next_wait.notify_all(), and the slip of forgetting it.                  *)
NotNotified == pc

Notified == [t \in Threads |-> IF pc[t] = "waiting" THEN "woken" ELSE pc[t]]

(* The caller goes on to its handler; the slip leaves running as it was.   *)
StartHandlerUnmarked(t, threads) ==
  /\ running' = running
  /\ pc' = [threads EXCEPT ![t] = "handler"]
  /\ unseen' = FALSE

StartHandler(t, threads) ==
  /\ running' = TRUE
  /\ pc' = [threads EXCEPT ![t] = "handler"]
  /\ unseen' = FALSE

(* Nothing runs and nobody waits: the handler is started at once.          *)
FireAtOnce(t) ==
  /\ pc[t] = "idle"
  /\ ~running /\ ~next
  /\ StartHandler(t, pc)
  /\ UNCHANGED <<next, next_id, my_id>>

(* A new caller takes the place of the one that waits, which is woken to   *)
(* find that out.                                                          *)
DrawId(t) ==
  /\ pc[t] = "idle"
  /\ running \/ next
  /\ next_id < MaxCalls
  /\ next_id' = next_id + 1
  /\ my_id' = [my_id EXCEPT ![t] = next_id + 1]

WaitForTurn(t) ==
  /\ DrawId(t)
  /\ running
  /\ next' = TRUE
  /\ pc' = [(IF next THEN Notified ELSE pc) EXCEPT ![t] = "waiting"]
  /\ unseen' = TRUE
  /\ UNCHANGED running

(* The handler has ended and the waiting caller has not noticed yet.       *)
OvertakeWaiter(t) ==
  /\ DrawId(t)
  /\ ~running
  /\ next' = FALSE
  /\ StartHandler(t, Notified)

(* Back from next_wait.wait(), with my_id compared before running.         *)
IsLatest(t) == my_id[t] = next_id

Superseded(t) ==
  /\ pc[t] = "woken"
  /\ ~IsLatest(t)
  /\ pc' = [pc EXCEPT ![t] = "idle"]
  /\ UNCHANGED <<running, next, next_id, my_id, unseen>>

WaitAgain(t) ==
  /\ pc[t] = "woken"
  /\ IsLatest(t)
  /\ running
  /\ pc' = [pc EXCEPT ![t] = "waiting"]
  /\ UNCHANGED <<running, next, next_id, my_id, unseen>>

TakeTurn(t) ==
  /\ pc[t] = "woken"
  /\ IsLatest(t)
  /\ ~running
  /\ next' = FALSE
  /\ StartHandler(t, pc)
  /\ UNCHANGED <<next_id, my_id>>

(* The scope exit after h(), reached when h() throws as well.              *)
HandlerEnds(t) ==
  /\ pc[t] = "handler"
  /\ running' = FALSE
  /\ pc' = [Notified EXCEPT ![t] = "idle"]
  /\ UNCHANGED <<next, next_id, my_id, unseen>>

(* The condition variable may wake a thread for no reason.                 *)
SpuriousWakeup(t) ==
  /\ pc[t] = "waiting"
  /\ pc' = [pc EXCEPT ![t] = "woken"]
  /\ UNCHANGED <<running, next, next_id, my_id, unseen>>

TryFireNext(t) == FireAtOnce(t) \/ WaitForTurn(t) \/ OvertakeWaiter(t)

WakeUp(t) == Superseded(t) \/ WaitAgain(t) \/ TakeTurn(t)

SemaphoreNext ==
  \E t \in Threads :
    \/ TryFireNext(t)
    \/ WakeUp(t)
    \/ HandlerEnds(t)
    \/ SpuriousWakeup(t)

SemaphoreSpec == SemaphoreInit /\ [][SemaphoreNext]_semaphoreVars

(* A woken thread runs, and the user's handler returns.                    *)
SemaphoreFairness ==
  \A t \in Threads :
    WF_semaphoreVars(WakeUp(t)) /\ WF_semaphoreVars(HandlerEnds(t))

SemaphoreFairSpec == SemaphoreSpec /\ SemaphoreFairness

-----------------------------------------------------------------------------

SemaphoreTypeOK ==
  /\ running \in BOOLEAN
  /\ next \in BOOLEAN
  /\ next_id \in Nat
  /\ my_id \in [Threads -> Nat]
  /\ pc \in [Threads -> {"idle", "waiting", "woken", "handler"}]
  /\ unseen \in BOOLEAN

(* try_fire_next never runs two handlers at a time.                        *)
OneHandler ==
  \A s, t \in Threads : pc[s] = "handler" /\ pc[t] = "handler" => s = t

(* An event that came after the last handler was started has a caller that *)
(* will start another: it is awake, or the running handler will wake it.   *)
NoEventLost ==
  unseen => \E t \in Threads :
              /\ IsLatest(t)
              /\ pc[t] = "woken" \/ (pc[t] = "waiting" /\ running)

(* Every event is followed by the start of a handler.                      *)
EventsAreSeen == unseen ~> ~unseen

(* No caller is kept in try_fire_next while others come and go.            *)
CallersReturn ==
  \A t \in Threads : pc[t] = "waiting" ~> pc[t] \in {"idle", "handler"}

(* Why they hold: the waiting callers have ids of their own, the one with  *)
(* the latest id is there exactly while next is set, and a caller sleeps   *)
(* only while a handler runs and only if it is the latest.                 *)
Waits(t) == pc[t] \in {"waiting", "woken"}

WaitersMatch ==
  /\ \A t \in Threads : my_id[t] <= next_id
  /\ \A s, t \in Threads : Waits(s) /\ Waits(t) /\ my_id[s] = my_id[t] => s = t
  /\ \A t \in Threads : pc[t] = "waiting" => running /\ IsLatest(t)
  /\ \A t \in Threads : pc[t] = "handler" => running
  /\ next <=> \E t \in Threads : Waits(t) /\ IsLatest(t)
  /\ unseen => next

SemaphoreInv == SemaphoreTypeOK /\ WaitersMatch /\ OneHandler
=============================================================================
