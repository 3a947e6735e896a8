------------------------------- MODULE WaitSet -------------------------------
(***************************************************************************)
(* rmw_wait of rmw-zenoh-rs (wait_set.rs), the guard conditions            *)
(* (guard_condition.rs) and the Notifier every wait set of a context       *)
(* shares (utils.rs).                                                      *)
(*                                                                         *)
(* A producer (a transport callback, a graph event, an application thread  *)
(* that triggers a guard condition) first makes a waitable ready and then  *)
(* calls Notifier::notify_all, without the notifier's mutex.  An executor  *)
(* thread calls rmw_wait, which sleeps on the notifier's condition         *)
(* variable BEFORE it looks at its waitables, and takes what was reported. *)
(* Each is_ready is a lock and a read of its own, so a scan of the wait    *)
(* set is one step per waitable.                                           *)
(***************************************************************************)
EXTENDS Naturals

CONSTANTS
    Threads,      \* executor threads, each with a wait set of its own
    Queues,       \* subscriptions, services and clients: ready when not empty
    Events,       \* rmw events: ready while `changed` is set
    Guards,       \* guard conditions: ready while `triggered` is set
    WaitsOn,      \* the waitables a thread passes to rmw_wait
    Timeouts,     \* the wait_timeouts passed: "zero", "finite", "infinite"
    Depth,        \* capacity of a queue
    MaxNotifying, \* bound on producers that have not notified yet
    NONE

Waitables == Queues \cup Events \cup Guards

ASSUME WaitsOnAssumption == WaitsOn \in [Threads -> SUBSET Waitables]
ASSUME KindsAssumption ==
    Queues \cap Guards = {} /\ Queues \cap Events = {} /\ Events \cap Guards = {}
ASSUME TimeoutsAssumption == Timeouts \subseteq {"zero", "finite", "infinite"}
ASSUME BoundsAssumption == Depth \in Nat \ {0} /\ MaxNotifying \in Nat \ {0}
ASSUME NoneAssumption == NONE \notin Threads

VARIABLES
    queue,      \* number of items in each queue
    raised,     \* changed of an event, triggered of a guard condition
    notifying,  \* producers between making a waitable ready and notify_all
    mutex,      \* owner of Notifier.mutex
    pc,         \* where each thread is in rmw_wait
    timeout,    \* the wait_timeout of its call
    timed_out,  \* WaitTimeoutResult of its last wait
    checked,    \* has this call found its wait set not ready and looped
    left,       \* waitables the scan in progress has still to visit
    array,      \* the non-null entries of the caller's arrays
    owed        \* guard conditions triggered and not reported since (history)

waitables == <<queue, raised, notifying, owed>>
threads == <<mutex, pc, timeout, timed_out, checked, left, array>>
vars == <<waitables, threads>>

PC == {"idle", "lock", "wait", "asleep", "woken", "check", "collect"}

Init ==
    /\ queue = [q \in Queues |-> 0]
    /\ raised = [e \in Events \cup Guards |-> FALSE]
    /\ notifying = 0
    /\ owed = {}
    /\ mutex = NONE
    /\ pc = [t \in Threads |-> "idle"]
    /\ timeout = [t \in Threads |-> "zero"]
    /\ timed_out = [t \in Threads |-> FALSE]
    /\ checked = [t \in Threads |-> FALSE]
    /\ left = [t \in Threads |-> {}]
    /\ array = [t \in Threads |-> {}]

-----------------------------------------------------------------------------
(* Waitables                                                               *)

is_ready(e) == IF e \in Queues THEN queue[e] > 0 ELSE raised[e]

Producing == notifying < MaxNotifying /\ notifying' = notifying + 1

\* A message, request or response is queued; a full queue stays full.
Arrive(q) ==
    /\ Producing
    /\ queue' = [queue EXCEPT ![q] = IF @ < Depth THEN @ + 1 ELSE @]
    /\ UNCHANGED <<raised, owed, threads>>

\* update_event_status sets `changed`.
update_event_status(e) ==
    /\ Producing
    /\ raised' = [raised EXCEPT ![e] = TRUE]
    /\ UNCHANGED <<queue, owed, threads>>

trigger(g) ==
    /\ Producing
    /\ raised' = [raised EXCEPT ![g] = TRUE]
    /\ owed' = owed \cup {g}
    /\ UNCHANGED <<queue, threads>>

\* Everyone asleep in the condition variable is woken; nobody else notices.
Woken == [t \in Threads |-> IF pc[t] = "asleep" THEN "woken" ELSE pc[t]]

notify_all ==
    /\ notifying > 0
    /\ notifying' = notifying - 1
    /\ pc' = Woken
    /\ UNCHANGED <<queue, raised, owed, mutex, timeout, timed_out, checked,
                   left, array>>

\* Between two waits the executor takes from what the arrays still name.
take(t) ==
    /\ pc[t] = "idle"
    /\ \E q \in array[t] \cap Queues :
          queue[q] > 0 /\ queue' = [queue EXCEPT ![q] = @ - 1]
    /\ UNCHANGED <<raised, notifying, owed, threads>>

take_event(t) ==
    /\ pc[t] = "idle"
    /\ \E e \in array[t] \cap Events :
          raised[e] /\ raised' = [raised EXCEPT ![e] = FALSE]
    /\ UNCHANGED <<queue, notifying, owed, threads>>

-----------------------------------------------------------------------------
(* rmw_wait                                                                *)

\* The wait set is filled; a zero timeout only checks, without the mutex.
rmw_wait(t, w) ==
    /\ pc[t] = "idle"
    /\ timeout' = [timeout EXCEPT ![t] = w]
    /\ array' = [array EXCEPT ![t] = WaitsOn[t]]
    /\ checked' = [checked EXCEPT ![t] = FALSE]
    /\ timed_out' = [timed_out EXCEPT ![t] = FALSE]
    /\ IF w = "zero"
       THEN /\ pc' = [pc EXCEPT ![t] = "check"]
            /\ left' = [left EXCEPT ![t] = WaitsOn[t]]
       ELSE /\ pc' = [pc EXCEPT ![t] = "lock"]
            /\ UNCHANGED left
    /\ UNCHANGED <<waitables, mutex>>

Lock(t) ==
    /\ pc[t] = "lock" /\ mutex = NONE
    /\ mutex' = t
    /\ pc' = [pc EXCEPT ![t] = "wait"]
    /\ UNCHANGED <<waitables, timeout, timed_out, checked, left, array>>

\* cv.wait and cv.wait_for release the mutex and sleep.
Sleep(t) ==
    /\ pc[t] = "wait"
    /\ mutex' = NONE
    /\ pc' = [pc EXCEPT ![t] = "asleep"]
    /\ UNCHANGED <<waitables, timeout, timed_out, checked, left, array>>

TimeoutExpires(t) ==
    /\ pc[t] = "asleep" /\ timeout[t] = "finite"
    /\ timed_out' = [timed_out EXCEPT ![t] = TRUE]
    /\ pc' = [pc EXCEPT ![t] = "woken"]
    /\ UNCHANGED <<waitables, mutex, timeout, checked, left, array>>

\* A mutant: a wait that timed out returns before the last check.
Relock_GivesUp(t) ==
    /\ pc[t] = "woken" /\ mutex = NONE
    /\ mutex' = t
    /\ pc' = [pc EXCEPT ![t] = "check"]
    /\ left' = [left EXCEPT ![t] = IF timed_out[t] THEN {} ELSE WaitsOn[t]]
    /\ UNCHANGED <<waitables, timeout, timed_out, checked, array>>

\* The wait returns with the mutex, and check_ready begins.
Relock(t) ==
    /\ pc[t] = "woken" /\ mutex = NONE
    /\ mutex' = t
    /\ pc' = [pc EXCEPT ![t] = "check"]
    /\ left' = [left EXCEPT ![t] = WaitsOn[t]]
    /\ UNCHANGED <<waitables, timeout, timed_out, checked, array>>

Unlock(t) == mutex' = IF mutex = t THEN NONE ELSE mutex

\* check_ready: the first ready waitable ends the scan and the wait.
check_ready(t) ==
    /\ pc[t] = "check"
    /\ \E e \in left[t] :
          IF is_ready(e)
          THEN /\ pc' = [pc EXCEPT ![t] = "collect"]
               /\ left' = [left EXCEPT ![t] = WaitsOn[t]]
               /\ Unlock(t)
          ELSE /\ left' = [left EXCEPT ![t] = @ \ {e}]
               /\ UNCHANGED <<pc, mutex>>
    /\ UNCHANGED <<waitables, timeout, timed_out, checked, array>>

\* A mutant: the loop ignores the result of wait_for.
GiveUp_Never(t) == timeout[t] = "zero"

\* Nothing was ready: RMW_RET_TIMEOUT, and the arrays stay as they were.
GiveUp(t) == timeout[t] = "zero" \/ timed_out[t]

wait_loop(t) ==
    /\ pc[t] = "check" /\ left[t] = {}
    /\ IF GiveUp(t)
       THEN pc' = [pc EXCEPT ![t] = "idle"] /\ Unlock(t) /\ UNCHANGED checked
       ELSE /\ pc' = [pc EXCEPT ![t] = "wait"]
            /\ checked' = [checked EXCEPT ![t] = TRUE]
            /\ UNCHANGED mutex
    /\ UNCHANGED <<waitables, timeout, timed_out, left, array>>

\* A mutant: the first visit resets every guard condition of the wait set.
NullOrReset_All(t) ==
    /\ pc[t] = "collect"
    /\ \E e \in left[t] :
          /\ left' = [left EXCEPT ![t] = @ \ {e}]
          /\ array' = [array EXCEPT ![t] = IF is_ready(e) THEN @ ELSE @ \ {e}]
          /\ raised' = [f \in DOMAIN raised |->
                          raised[f] /\ f \notin WaitsOn[t] \cap Guards]
          /\ owed' = IF is_ready(e) THEN owed \ {e} ELSE owed
    /\ UNCHANGED <<queue, notifying, mutex, pc, timeout, timed_out, checked>>

\* Entries that are not ready are nulled, reported guard conditions reset.
NullOrReset(t) ==
    /\ pc[t] = "collect"
    /\ \E e \in left[t] :
          /\ left' = [left EXCEPT ![t] = @ \ {e}]
          /\ array' = [array EXCEPT ![t] = IF is_ready(e) THEN @ ELSE @ \ {e}]
          /\ raised' = IF e \in Guards THEN [raised EXCEPT ![e] = FALSE] ELSE raised
          /\ owed' = IF is_ready(e) THEN owed \ {e} ELSE owed
    /\ UNCHANGED <<queue, notifying, mutex, pc, timeout, timed_out, checked>>

\* RMW_RET_OK.
Return(t) ==
    /\ pc[t] = "collect" /\ left[t] = {}
    /\ pc' = [pc EXCEPT ![t] = "idle"]
    /\ UNCHANGED <<waitables, mutex, timeout, timed_out, checked, left, array>>

InWait(t) ==
    \/ Lock(t) \/ Sleep(t) \/ TimeoutExpires(t) \/ Relock(t)
    \/ check_ready(t) \/ wait_loop(t) \/ NullOrReset(t) \/ Return(t)

Next ==
    \/ \E q \in Queues : Arrive(q)
    \/ \E e \in Events : update_event_status(e)
    \/ \E g \in Guards : trigger(g)
    \/ notify_all
    \/ \E t \in Threads :
          \/ take(t) \/ take_event(t)
          \/ \E w \in Timeouts : rmw_wait(t, w)
          \/ InWait(t)

(***************************************************************************)
(* A producer that made something ready does notify, a thread inside       *)
(* rmw_wait is scheduled and its timeout expires, and the executor spins:  *)
(* it calls rmw_wait again.  The notifier's mutex is a parking_lot mutex,  *)
(* which hands the lock over to a starved waiter, hence SF.  Nothing makes *)
(* arrivals, triggers or takes happen.                                     *)
(***************************************************************************)
Fairness ==
    /\ WF_vars(notify_all)
    /\ \A t \in Threads :
          /\ WF_vars(\E w \in Timeouts : rmw_wait(t, w))
          /\ WF_vars(InWait(t))
          /\ SF_vars(Lock(t)) /\ SF_vars(Relock(t))

Spec == Init /\ [][Next]_vars /\ Fairness

-----------------------------------------------------------------------------
(* Properties                                                              *)

\* Every variable has its type, and only a thread between Lock and Sleep, or
\* in a check that did not begin with a zero timeout, owns the mutex.
TypeOK ==
    /\ queue \in [Queues -> 0..Depth]
    /\ raised \in [Events \cup Guards -> BOOLEAN]
    /\ notifying \in 0..MaxNotifying
    /\ owed \subseteq Guards
    /\ mutex \in Threads \cup {NONE}
    /\ pc \in [Threads -> PC]
    /\ timeout \in [Threads -> {"zero", "finite", "infinite"}]
    /\ timed_out \in [Threads -> BOOLEAN]
    /\ checked \in [Threads -> BOOLEAN]
    /\ left \in [Threads -> SUBSET Waitables]
    /\ array \in [Threads -> SUBSET Waitables]
    /\ \A t \in Threads :
          (mutex = t) <=> \/ pc[t] = "wait"
                          \/ pc[t] = "check" /\ timeout[t] # "zero"

\* No trigger is lost: a guard condition that was triggered and has not been
\* reported by a wait since is still triggered, whatever other waits reset.
TriggerKept == \A g \in owed : raised[g]

\* rmw_wait answers RMW_RET_OK only with an entry left in the arrays, as long
\* as nobody else takes from the waitables of this wait set: what check_ready
\* saw is still there when the arrays are collected.
Shared(t) == UNION {WaitsOn[u] : u \in Threads \ {t}}
OkHasEntry ==
    \A t \in Threads :
       pc[t] = "collect" /\ left[t] = {} /\ WaitsOn[t] \cap Shared(t) = {}
          => array[t] # {}

\* A waitable that becomes ready is reported by its thread's waits or is taken
\* first.  With finite timeouts the check after the timeout makes up for the
\* notifications that rmw_wait misses.
Reported(t, e) == pc[t] = "collect" /\ e \notin left[t] /\ e \in array[t]
ReadyReported ==
    \A t \in Threads : \A e \in WaitsOn[t] :
       is_ready(e) ~> (Reported(t, e) \/ ~is_ready(e))

\* A wait with a timeout ends once the notifications for others cease.  (Each
\* notification restarts the timeout, so under a steady stream it need not.)
WaitEnds ==
    <>[](notifying = 0) =>
       \A t \in Threads : pc[t] # "idle" ~> pc[t] = "idle"

\* utils.rs:46, "No need to lock mutex for notify_all": a thread that went
\* back to sleep after it found nothing ready is still to be notified of
\* whatever became ready since.
RecheckNotified ==
    \A t \in Threads :
       pc[t] = "asleep" /\ checked[t] /\ (\E e \in WaitsOn[t] : is_ready(e))
          => notifying > 0

\* What woke a wait is reported: triggers are kept for the wait that reports
\* them, and RMW_RET_OK comes with an entry.
TriggersReported == TriggerKept /\ OkHasEntry
=============================================================================
