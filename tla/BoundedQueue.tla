---------------------------- MODULE BoundedQueue ----------------------------
(***************************************************************************)
(* ros_z::queue::BoundedQueue: the queue behind every subscription and     *)
(* service server.  Zenoh's callback threads push, dropping the oldest     *)
(* item at capacity; threads take with recv, recv_timeout and try_recv;    *)
(* tasks take with recv_async, whose future may be dropped at its await.   *)
(*                                                                         *)
(* An item is its position in the order of pushes.  Every critical section *)
(* of the data mutex is one step.  The condvar (parking_lot) and the event *)
(* (event-listener) are external: a waiter is woken by a notification or   *)
(* by its timeout, never spuriously; notify(1) of the event does nothing   *)
(* while a listener it notified has neither run nor been dropped, and a    *)
(* notified listener that is dropped hands its notification on.  Which     *)
(* waiter a notification picks is left open.                               *)
(***************************************************************************)
EXTENDS Naturals, Sequences, FiniteSets

CONSTANTS
    Capacity,           \* capacity given to BoundedQueue::new
    BlockingReceivers,  \* threads that call recv, recv_timeout, try_recv
    AsyncReceivers,     \* tasks that call recv_async
    MaxPush             \* bound: the number of items ever pushed

\* Every caller derives the capacity from a KeepLast depth, which is non-zero,
\* or passes usize::MAX for KeepAll.
ASSUME CapacityAssumption == Capacity \in Nat \ {0}
ASSUME ReceiversAssumption ==
    /\ IsFiniteSet(BlockingReceivers)
    /\ BlockingReceivers \cap AsyncReceivers = {}
ASSUME MaxPushAssumption == MaxPush \in Nat

VARIABLES
    data,      \* the VecDeque, oldest item first
    pushed,    \* how many items were pushed: the newest item
    dropped,   \* the items push discarded
    got,       \* the items each receiver obtained
    pc,        \* where each receiver is in its call
    outcome,   \* what the last finished call of a blocking receiver returned
    notified   \* the event listeners notified and not yet run or dropped

vars == <<data, pushed, dropped, got, pc, outcome, notified>>

Receivers == BlockingReceivers \cup AsyncReceivers

CvWaiting == {"recvWait", "timeoutWait"}
CvWoken == {"recvWoken", "timeoutWoken"}
Listening == {"listening", "returning", "awaiting"}

CvWaiters == {r \in BlockingReceivers : pc[r] \in CvWaiting}
Woken == {r \in BlockingReceivers : pc[r] \in CvWoken}
Listeners == {r \in AsyncReceivers : pc[r] \in Listening}
Taken == UNION {got[r] : r \in Receivers}

Init ==
    /\ data = <<>>
    /\ pushed = 0
    /\ dropped = {}
    /\ got = [r \in Receivers |-> {}]
    /\ pc = [r \in Receivers |-> "idle"]
    /\ outcome = [r \in BlockingReceivers |-> "none"]
    /\ notified = {}

-----------------------------------------------------------------------------
(* The condvar and the event. *)

\* A notified condvar waiter has left the wait and competes for the mutex.
WokenFrom(state) == IF state = "recvWait" THEN "recvWoken" ELSE "timeoutWoken"

\* Mutated form: a thread is notified only when the queue was empty.
NotifyOne_IfEmpty ==
    IF CvWaiters = {} \/ data # <<>>
    THEN pc' = pc
    ELSE \E r \in CvWaiters : pc' = [pc EXCEPT ![r] = WokenFrom(pc[r])]

NotifyOne ==
    IF CvWaiters = {}
    THEN pc' = pc
    ELSE \E r \in CvWaiters : pc' = [pc EXCEPT ![r] = WokenFrom(pc[r])]

\* The sets of notified listeners that notify(1) can leave behind, from the
\* registered listeners ls of which ns are notified.
EventNotify(ls, ns) ==
    IF ns # {} \/ ls = {} THEN {ns} ELSE {{l} : l \in ls}

\* Dropping a listener passes an unused notification to another listener.
DropListener(r) ==
    IF r \in notified
    THEN notified' \in EventNotify(Listeners \ {r}, notified \ {r})
    ELSE notified' = notified

-----------------------------------------------------------------------------
(* Producers. *)

Enqueue(item) ==
    IF Len(data) >= Capacity
    THEN data' = Append(Tail(data), item) /\ dropped' = dropped \cup {Head(data)}
    ELSE data' = Append(data, item) /\ dropped' = dropped

\* Mutated form: a push notifies threads only.
push_NoEvent ==
    /\ pushed < MaxPush
    /\ pushed' = pushed + 1
    /\ Enqueue(pushed + 1)
    /\ NotifyOne
    /\ UNCHANGED <<got, outcome, notified>>

push ==
    /\ pushed < MaxPush
    /\ pushed' = pushed + 1
    /\ Enqueue(pushed + 1)
    /\ NotifyOne
    /\ notified' \in EventNotify(Listeners, notified)
    /\ UNCHANGED <<got, outcome>>

-----------------------------------------------------------------------------
(* Receivers. *)

\* Mutated form: the receiver takes the newest item.
PopBack(r) ==
    /\ data # <<>>
    /\ data' = SubSeq(data, 1, Len(data) - 1)
    /\ got' = [got EXCEPT ![r] = @ \cup {data[Len(data)]}]

PopFront(r) ==
    /\ data # <<>>
    /\ data' = Tail(data)
    /\ got' = [got EXCEPT ![r] = @ \cup {Head(data)}]

Goto(r, state) == pc' = [pc EXCEPT ![r] = state]
Return(r, value) == Goto(r, "idle") /\ outcome' = [outcome EXCEPT ![r] = value]

\* while data.is_empty() { wait }; pop_front(): entered on the call and again
\* after every notification.
recv(r) ==
    /\ pc[r] \in {"idle", "recvWoken"}
    /\ \/ PopFront(r) /\ Return(r, "item")
       \/ /\ data = <<>>
          /\ Goto(r, "recvWait")
          /\ UNCHANGED <<data, got, outcome>>
    /\ UNCHANGED <<pushed, dropped, notified>>

recv_timeout(r) ==
    /\ pc[r] = "idle"
    /\ \/ PopFront(r) /\ Return(r, "item")
       \/ /\ data = <<>>
          /\ Goto(r, "timeoutWait")
          /\ UNCHANGED <<data, got, outcome>>
    /\ UNCHANGED <<pushed, dropped, notified>>

\* wait_for gives up; the thread still has to lock the mutex again.
TimeoutExpires(r) ==
    /\ pc[r] = "timeoutWait"
    /\ Goto(r, "timeoutExpired")
    /\ UNCHANGED <<data, pushed, dropped, got, outcome, notified>>

\* wait_for has returned: one test of timed_out() and of the queue, no loop.
\* "early" is a None that no expired timeout explains.
recv_timeout_resume(r) ==
    /\ \/ /\ pc[r] = "timeoutExpired"
          /\ Return(r, "timedOut")
          /\ UNCHANGED <<data, got>>
       \/ /\ pc[r] = "timeoutWoken"
          /\ data = <<>>
          /\ Return(r, "early")
          /\ UNCHANGED <<data, got>>
       \/ /\ pc[r] = "timeoutWoken"
          /\ PopFront(r)
          /\ Return(r, "item")
    /\ UNCHANGED <<pushed, dropped, notified>>

try_recv(r) ==
    /\ pc[r] = "idle"
    /\ \/ PopFront(r) /\ Return(r, "item")
       \/ data = <<>> /\ Return(r, "empty") /\ UNCHANGED <<data, got>>
    /\ UNCHANGED <<pushed, dropped, notified>>

\* A turn of recv_async's loop registers a listener, then locks the mutex for
\* the check, then either returns (dropping the listener) or awaits it.
AsyncListen(r) ==
    /\ pc[r] = "idle"
    /\ Goto(r, "listening")
    /\ UNCHANGED <<data, pushed, dropped, got, outcome, notified>>

\* Mutated form: the item is taken but not handed to the caller.
AsyncCheck_LosesItem(r) ==
    /\ pc[r] = "listening"
    /\ \/ data # <<>> /\ data' = Tail(data) /\ Goto(r, "returning")
       \/ data = <<>> /\ data' = data /\ Goto(r, "awaiting")
    /\ UNCHANGED <<pushed, dropped, got, outcome, notified>>

AsyncCheck(r) ==
    /\ pc[r] = "listening"
    /\ \/ PopFront(r) /\ Goto(r, "returning")
       \/ data = <<>> /\ Goto(r, "awaiting") /\ UNCHANGED <<data, got>>
    /\ UNCHANGED <<pushed, dropped, outcome, notified>>

AsyncReturn(r) ==
    /\ pc[r] = "returning"
    /\ Goto(r, "idle")
    /\ DropListener(r)
    /\ UNCHANGED <<data, pushed, dropped, got, outcome>>

\* The await completes: the notification is used up and the loop's next turn
\* registers a new listener.
AsyncWake(r) ==
    /\ pc[r] = "awaiting"
    /\ r \in notified
    /\ notified' = notified \ {r}
    /\ Goto(r, "listening")
    /\ UNCHANGED <<data, pushed, dropped, got, outcome>>

\* The future is dropped: possible wherever the function is suspended.
AsyncCancel(r) ==
    /\ pc[r] = "awaiting"
    /\ Goto(r, "idle")
    /\ DropListener(r)
    /\ UNCHANGED <<data, pushed, dropped, got, outcome>>

BlockingStep(r) ==
    \/ recv(r)
    \/ recv_timeout(r)
    \/ TimeoutExpires(r)
    \/ recv_timeout_resume(r)
    \/ try_recv(r)

AsyncStep(r) ==
    \/ AsyncListen(r)
    \/ AsyncCheck(r)
    \/ AsyncReturn(r)
    \/ AsyncWake(r)
    \/ AsyncCancel(r)

Next ==
    \/ push
    \/ \E r \in BlockingReceivers : BlockingStep(r)
    \/ \E r \in AsyncReceivers : AsyncStep(r)

Spec == Init /\ [][Next]_vars

\* A thread or task inside a call keeps running; nobody has to start a call,
\* to push, or to cancel.
Fairness ==
    /\ \A r \in BlockingReceivers :
        /\ WF_vars(pc[r] # "idle" /\ recv(r))
        /\ WF_vars(TimeoutExpires(r))
        /\ WF_vars(recv_timeout_resume(r))
    /\ \A r \in AsyncReceivers :
        WF_vars(AsyncCheck(r) \/ AsyncReturn(r) \/ AsyncWake(r))

FairSpec == Spec /\ Fairness

-----------------------------------------------------------------------------
(* Properties. *)

\* The state has the shape the code gives it.
TypeOK ==
    /\ data \in Seq(Nat)
    /\ pushed \in 0..MaxPush
    /\ dropped \in SUBSET Nat
    /\ got \in [Receivers -> SUBSET Nat]
    /\ pc \in [Receivers -> {"idle"} \cup CvWaiting \cup CvWoken
                              \cup {"timeoutExpired"} \cup Listening]
    /\ \A r \in AsyncReceivers : pc[r] \in {"idle"} \cup Listening
    /\ \A r \in BlockingReceivers : pc[r] \notin Listening
    /\ outcome \in [BlockingReceivers ->
                     {"none", "item", "empty", "timedOut", "early"}]
    /\ notified \in SUBSET Listeners

\* The queue holds the most recent items, in order, and never more than its
\* capacity, whatever the receivers took in between (module comment of
\* queue.rs: "maintains the most recent N elements").
KeepsMostRecent ==
    /\ Len(data) <= Capacity
    /\ Len(data) <= pushed
    /\ \A i \in 1..Len(data) : data[i] = pushed - Len(data) + i

\* No item is lost or delivered twice: each item pushed is queued, or was
\* dropped by push, or was obtained by exactly one receiver, even when futures
\* are cancelled and receivers race (recv_async: "cancel-safe ... no item will
\* be lost").
ExactlyOnce ==
    /\ Taken \cup dropped = 1..(pushed - Len(data))
    /\ Taken \cap dropped = {}
    /\ \A r, s \in Receivers : r # s => got[r] \cap got[s] = {}

\* An item is given up only for the item pushed Capacity places after it, so
\* push never drops from a queue with room and never drops a newer item.
DropsOnlyOverflow ==
    [][\A i \in dropped' \ dropped : pushed' = i + Capacity]_vars

\* Items leave the queue in the order they were pushed, across all receivers.
LeavesInOrder ==
    [][\A i \in (Taken' \cup dropped') \ (Taken \cup dropped),
          j \in Taken \cup dropped : j < i]_vars

\* While a thread sleeps in the condvar, every queued item has a thread that
\* was woken and has not yet run: notify_one in push loses no wake-up.
NoLostWakeup ==
    CvWaiters # {} => Len(data) <= Cardinality(Woken)

\* A task that is the queue's only async receiver never awaits beside a queued
\* item without a notification on its way.  (With two, it can: see
\* AsyncReceiverServed.)
SoleAsyncNotified ==
    \A r \in AsyncReceivers :
        (AsyncReceivers = {r} /\ pc[r] = "awaiting" /\ data # <<>>)
            => r \in notified

\* A blocked thread does not sleep for ever beside a queued item.
BlockingReceiverServed ==
    \A r \in BlockingReceivers :
        (pc[r] = "recvWait" /\ data # <<>>)
            ~> (pc[r] # "recvWait" \/ data = <<>>)

\* A task awaiting in recv_async does not sleep for ever beside a queued item
\* (doc of recv_async: "waits until an item is available").
AsyncReceiverServed ==
    \A r \in AsyncReceivers :
        (pc[r] = "awaiting" /\ data # <<>>)
            ~> (pc[r] # "awaiting" \/ data = <<>>)

\* Where every item is: the queue holds the most recent ones, and each of the
\* others was dropped or delivered, once.
ItemsAccounted == KeepsMostRecent /\ ExactlyOnce

\* Items leave in order, and push gives one up only to make room.
QueueOrder == DropsOnlyOverflow /\ LeavesInOrder

\* Whoever sleeps beside an item is about to be woken for it.
WaitersNotified == NoLostWakeup /\ SoleAsyncNotified

\* Nobody sleeps for ever beside an item.
ReceiversServed == BlockingReceiverServed /\ AsyncReceiverServed
=============================================================================
