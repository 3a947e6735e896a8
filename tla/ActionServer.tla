---------------------------- MODULE ActionServer ----------------------------
(***************************************************************************)
(* The action server of ros_z::action: the goal manager, the goal handles  *)
(* (Requested, Accepted, Executing), the result-only task of manual mode   *)
(* and the driver loop that with_handler starts.                           *)
(*                                                                         *)
(* Concurrency: every goal runs in a task of its own; the driver loop, the *)
(* result-only task and the user's threads run beside them.  Each closure  *)
(* given to SafeGoalManager::modify or read is one step, each reply or     *)
(* publication made outside the lock another.  Sending on the oneshot      *)
(* channels of terminate is merged with its modify: their only receiver,   *)
(* the driver, wakes in a step of its own.                                 *)
(*                                                                         *)
(* A request is a name: whether its payload deserializes shows when it is  *)
(* read, so the next request of a queue may be treated or discarded.       *)
(*                                                                         *)
(* Time is abstract: a stored goal that has an expires_at may become due   *)
(* at any moment.  Clients ask for the result or the cancellation of a     *)
(* goal only once the acceptance has been sent to them.                    *)
(***************************************************************************)
EXTENDS Naturals, Sequences, FiniteSets

CONSTANTS
    Goals,           \* goal ids; every goal request carries a fresh one
    Requests,        \* result requests
    Cancels,         \* cancel requests
    QueueDepth,      \* depth of the three service queues (service QoS)
    HasGoalTimeout,  \* whether the builder set a goal timeout
    HandlersMayDrop  \* whether user code may drop a handle unfinished

ASSUME QueueDepthAssumption == QueueDepth \in Nat \ {0}
ASSUME SwitchesAssumption == {HasGoalTimeout, HandlersMayDrop} \subseteq BOOLEAN
ASSUME NamesAssumption ==
    Goals \cap {"all", "driver", "user", "none"} = {} /\ "none" \notin Requests

VARIABLES
    \* goal handles and the tasks that run them
    handle,        \* how far each goal's handle is
    gone,          \* the goals whose handle was dropped unfinished
    driverTasks,   \* the goals whose task is in the driver's JoinSet
    flag,          \* the AtomicBool shared by a handle and its stored state
    \* SafeGoalManager
    goals,         \* the stored state of each goal
    due,           \* the stored goals whose expires_at has passed
    result_futures,\* the requests waiting for each goal to terminate
    expired,       \* the goals expire_goals ever removed
    \* status publication
    pending,       \* where each publisher is in publish_status
    published,     \* the last message on the status topic
    \* the service queues and the fate of each request
    goalQ, cancelQ, resultQ,
    request, cancel,
    \* the driver loop and the result-only task
    driver, waitingOn, legacy, handlerToken, shutdown

handleVars == <<handle, gone, driverTasks, flag>>
managerVars == <<goals, due, result_futures, expired>>
statusVars == <<pending, published>>
clientVars == <<goalQ, cancelQ, resultQ, request, cancel>>
loopVars == <<driver, waitingOn, legacy, handlerToken, shutdown>>
vars == <<handleVars, managerVars, statusVars, clientVars, loopVars>>

Terminal == {"succeeded", "canceled", "aborted"}
Stored == {"absent", "accepted", "executing"} \cup Terminal
Publishers == Goals \cup {"driver", "user"}
Snapshot == [Goals -> Stored]
EmptyList == [g \in Goals |-> "absent"]

\* The handle's stage once SendGoalResponse { accepted: true } was sent.
AcceptanceSent == {"replied", "accepted", "executing"} \cup Terminal

\* The goals whose handle still exists at the given stage.
At(stage) == {g \in Goals \ gone : handle[g] = stage}

Init ==
    /\ handle = [g \in Goals |-> "none"]
    /\ gone = {}
    /\ driverTasks = {}
    /\ flag = [g \in Goals |-> FALSE]
    /\ goals = [g \in Goals |-> "absent"]
    /\ due = {}
    /\ result_futures = [g \in Goals |-> {}]
    /\ expired = {}
    /\ pending = [p \in Publishers |-> [phase |-> "no", list |-> EmptyList]]
    /\ published = EmptyList
    /\ goalQ = <<>> /\ cancelQ = <<>> /\ resultQ = <<>>
    /\ request = [r \in Requests |-> [state |-> "unsent", goal |-> "none", status |-> "none"]]
    /\ cancel = [c \in Cancels |-> [state |-> "unsent", goal |-> "none", code |-> 0]]
    /\ driver = "off" /\ waitingOn = "none"
    /\ legacy = "running" /\ handlerToken = FALSE /\ shutdown = FALSE

-----------------------------------------------------------------------------
(* Clients: a request reaches the server's BoundedQueue, whose push gives  *)
(* up the oldest request when it is full.                                  *)

Overflow(q) == IF Len(q) >= QueueDepth THEN {Head(q)} ELSE {}
PushBounded(q, x) == Append(IF Len(q) >= QueueDepth THEN Tail(q) ELSE q, x)

SendGoal(g) ==
    /\ handle[g] = "none"
    /\ goalQ' = PushBounded(goalQ, g)
    /\ handle' = [h \in Goals |-> CASE h = g -> "queued"
                                    [] h \in Overflow(goalQ) -> "overflowed"
                                    [] OTHER -> handle[h]]
    /\ UNCHANGED <<gone, driverTasks, flag, cancelQ, resultQ, request, cancel>>
    /\ UNCHANGED <<managerVars, statusVars, loopVars>>

SendResult(r, g) ==
    /\ request[r].state = "unsent"
    /\ handle[g] \in AcceptanceSent
    /\ resultQ' = PushBounded(resultQ, r)
    /\ request' = [s \in Requests |->
                     CASE s = r -> [request[s] EXCEPT !.state = "queued", !.goal = g]
                       [] s \in Overflow(resultQ) ->
                             [request[s] EXCEPT !.state = "overflowed"]
                       [] OTHER -> request[s]]
    /\ UNCHANGED <<goalQ, cancelQ, cancel>>
    /\ UNCHANGED <<handleVars, managerVars, statusVars, loopVars>>

\* target is a goal, or "all": the zero UUID of cancel_all_goals.
SendCancel(c, target) ==
    /\ cancel[c].state = "unsent"
    /\ target \in Goals => handle[target] \in AcceptanceSent
    /\ cancelQ' = PushBounded(cancelQ, c)
    /\ cancel' = [d \in Cancels |->
                    CASE d = c -> [cancel[d] EXCEPT !.state = "queued", !.goal = target]
                      [] d \in Overflow(cancelQ) ->
                            [cancel[d] EXCEPT !.state = "overflowed"]
                      [] OTHER -> cancel[d]]
    /\ UNCHANGED <<goalQ, resultQ, request>>
    /\ UNCHANGED <<handleVars, managerVars, statusVars, loopVars>>

-----------------------------------------------------------------------------
(* The goal manager. *)

\* manager.goals.insert: the new state has a fresh expires_at, if any.
Insert(g, state) ==
    /\ goals' = [goals EXCEPT ![g] = state]
    /\ due' = due \ {g}

HasExpiry(g) ==
    \/ goals[g] \in Terminal
    \/ goals[g] \in {"accepted", "executing"} /\ HasGoalTimeout

Elapse(g) ==
    /\ HasExpiry(g)
    /\ g \notin due
    /\ due' = due \cup {g}
    /\ UNCHANGED <<goals, result_futures, expired>>
    /\ UNCHANGED <<handleVars, statusVars, clientVars, loopVars>>

\* publish_status: snapshot under the lock, then publish without it.  A
\* publisher with a publication under way does nothing else.
Idle(p) == pending[p].phase = "no"
StartPublish(p) == pending' = [pending EXCEPT ![p].phase = "start"]

TakeSnapshot(p) ==
    /\ pending[p].phase = "start"
    /\ pending' = [pending EXCEPT ![p] = [phase |-> "taken", list |-> goals]]
    /\ UNCHANGED published
    /\ UNCHANGED <<handleVars, managerVars, clientVars, loopVars>>

PublishSnapshot(p) ==
    /\ pending[p].phase = "taken"
    /\ published' = pending[p].list
    /\ pending' = [pending EXCEPT ![p] = [phase |-> "no", list |-> EmptyList]]
    /\ UNCHANGED <<handleVars, managerVars, clientVars, loopVars>>

\* The driver is at its select!; the user serves requests in manual mode.
InLoop == driver = "loop" /\ Idle("driver")
Manual == driver = "off" /\ ~shutdown
Serving == InLoop \/ Manual

\* expire_goals removes the stored goals that are due, nothing else.  The
\* driver calls it on its timer; whoever holds a ZActionServer may, too.
expire_goals(p) ==
    /\ Idle(p)
    /\ IF p = "driver" THEN driver = "loop" ELSE ~shutdown
    /\ due # {}
    /\ goals' = [g \in Goals |-> IF g \in due THEN "absent" ELSE goals[g]]
    /\ due' = {}
    /\ expired' = expired \cup due
    /\ StartPublish(p)
    /\ UNCHANGED <<result_futures, published>>
    /\ UNCHANGED <<handleVars, clientVars, loopVars>>

-----------------------------------------------------------------------------
(* Goal handles. *)

\* Manual mode: recv_goal gives the user a Requested handle.
recv_goal ==
    /\ Manual
    /\ goalQ # <<>>
    /\ goalQ' = Tail(goalQ)
    /\ handle' = [handle EXCEPT ![Head(goalQ)] = "requested"]
    /\ UNCHANGED <<gone, driverTasks, flag, cancelQ, resultQ, request, cancel>>
    /\ UNCHANGED <<managerVars, statusVars, loopVars>>

\* A goal request that does not deserialize is dropped without a reply, by
\* recv_goal with an error or by the task spawned for it, which ends at once.
discard_goal ==
    /\ Serving
    /\ goalQ # <<>>
    /\ goalQ' = Tail(goalQ)
    /\ handle' = [handle EXCEPT ![Head(goalQ)] = "unread"]
    /\ UNCHANGED <<gone, driverTasks, flag, cancelQ, resultQ, request, cancel>>
    /\ UNCHANGED <<managerVars, statusVars, loopVars>>

\* accept replies first and inserts the goal afterwards.
accept_reply(g) ==
    /\ g \in At("requested")
    /\ handle' = [handle EXCEPT ![g] = "replied"]
    /\ UNCHANGED <<gone, driverTasks, flag>>
    /\ UNCHANGED <<managerVars, statusVars, clientVars, loopVars>>

accept_insert(g) ==
    /\ g \in At("replied")
    /\ handle' = [handle EXCEPT ![g] = "accepted"]
    /\ Insert(g, "accepted")
    /\ StartPublish(g)
    /\ UNCHANGED <<gone, driverTasks, flag, result_futures, expired, published>>
    /\ UNCHANGED <<clientVars, loopVars>>

\* Only the user rejects: handle_goal_request accepts every goal.
reject(g) ==
    /\ g \in At("requested")
    /\ g \notin driverTasks
    /\ handle' = [handle EXCEPT ![g] = "rejected"]
    /\ UNCHANGED <<gone, driverTasks, flag>>
    /\ UNCHANGED <<managerVars, statusVars, clientVars, loopVars>>

execute(g) ==
    /\ g \in At("accepted")
    /\ Idle(g)
    /\ handle' = [handle EXCEPT ![g] = "executing"]
    /\ flag' = [flag EXCEPT ![g] = FALSE]
    /\ Insert(g, "executing")
    /\ StartPublish(g)
    /\ UNCHANGED <<gone, driverTasks, result_futures, expired, published>>
    /\ UNCHANGED <<clientVars, loopVars>>

\* Take the goal's waiting senders and send the result to each.
\* Mutated form: only while the goal is stored.
Notify_IfStored(g, status) ==
    IF goals[g] = "absent"
    THEN UNCHANGED <<request, result_futures>>
    ELSE /\ request' = [r \in Requests |->
                          IF r \in result_futures[g]
                          THEN [request[r] EXCEPT !.state = "ready", !.status = status]
                          ELSE request[r]]
         /\ result_futures' = [result_futures EXCEPT ![g] = {}]

Notify(g, status) ==
    /\ request' = [r \in Requests |->
                     IF r \in result_futures[g]
                     THEN [request[r] EXCEPT !.state = "ready", !.status = status]
                     ELSE request[r]]
    /\ result_futures' = [result_futures EXCEPT ![g] = {}]

\* Mutated form: the handle is not consumed, so a goal can terminate again.
terminate_Again(g, status) ==
    /\ g \in Goals \ gone /\ handle[g] \in {"executing"} \cup Terminal
    /\ Idle(g)
    /\ handle' = [handle EXCEPT ![g] = status]
    /\ Insert(g, status)
    /\ Notify(g, status)
    /\ StartPublish(g)
    /\ UNCHANGED <<gone, driverTasks, flag, expired, published, goalQ, cancelQ, resultQ, cancel>>
    /\ UNCHANGED loopVars

\* Mutated form: a goal whose result was handed to a waiter is forgotten.
terminate_Forgets(g, status) ==
    /\ g \in At("executing")
    /\ Idle(g)
    /\ handle' = [handle EXCEPT ![g] = status]
    /\ Insert(g, IF result_futures[g] = {} THEN status ELSE "absent")
    /\ Notify(g, status)
    /\ StartPublish(g)
    /\ UNCHANGED <<gone, driverTasks, flag, expired, published, goalQ, cancelQ, resultQ, cancel>>
    /\ UNCHANGED loopVars

terminate(g, status) ==
    /\ g \in At("executing")
    /\ Idle(g)
    /\ handle' = [handle EXCEPT ![g] = status]
    /\ Insert(g, status)
    /\ Notify(g, status)
    /\ StartPublish(g)
    /\ UNCHANGED <<gone, driverTasks, flag, expired, published, goalQ, cancelQ, resultQ, cancel>>
    /\ UNCHANGED loopVars

\* succeed, abort and canceled.  None of them looks at the cancel flag: a
\* handler may report canceled although nobody asked it to cancel.
Finish(g) == \E status \in Terminal : terminate(g, status)

\* A handler (or the user) may drop its handle, or panic, without terminating:
\* the stored state and the waiting senders stay as they are.
DropHandle(g) ==
    /\ HandlersMayDrop
    /\ \/ g \in At("executing")
       \/ g \in (At("requested") \cup At("accepted")) \ driverTasks
    /\ Idle(g)
    /\ gone' = gone \cup {g}
    /\ driverTasks' = driverTasks \ {g}
    /\ UNCHANGED <<handle, flag>>
    /\ UNCHANGED <<managerVars, statusVars, clientVars, loopVars>>

\* The task of a terminated goal ends; the driver's join_next reaps it.
TaskEnds(g) ==
    /\ g \in driverTasks
    /\ handle[g] \in Terminal
    /\ Idle(g)
    /\ driverTasks' = driverTasks \ {g}
    /\ UNCHANGED <<handle, gone, flag>>
    /\ UNCHANGED <<managerVars, statusVars, clientVars, loopVars>>

-----------------------------------------------------------------------------
(* Cancel requests: the driver and, in manual mode, the user (recv_cancel,  *)
(* request_cancel, send_cancel_response_low) treat them alike.              *)

\* Mutated form: an accepted goal, which has no flag yet, is canceled too.
HandleCancel_Accepted(c, g) ==
    IF g \in Goals /\ goals[g] \in {"accepted", "executing"}
    THEN /\ flag' = [flag EXCEPT ![g] = TRUE]
         /\ cancel' = [cancel EXCEPT ![c].state = "canceling", ![c].code = 1]
    ELSE /\ flag' = flag
         /\ cancel' = [cancel EXCEPT ![c].state = "refused", ![c].code = 0]

HandleCancel(c, g) ==
    IF g \in Goals /\ goals[g] = "executing"
    THEN /\ flag' = [flag EXCEPT ![g] = TRUE]
         /\ cancel' = [cancel EXCEPT ![c].state = "canceling", ![c].code = 1]
    ELSE /\ flag' = flag
         /\ cancel' = [cancel EXCEPT ![c].state = "refused", ![c].code = 0]

handle_cancel_request ==
    /\ Serving
    /\ cancelQ # <<>>
    /\ cancelQ' = Tail(cancelQ)
    /\ HandleCancel(Head(cancelQ), cancel[Head(cancelQ)].goal)
    /\ UNCHANGED <<handle, gone, driverTasks, goalQ, resultQ, request>>
    /\ UNCHANGED <<managerVars, statusVars, loopVars>>

\* One that does not deserialize is dropped without a reply.
discard_cancel ==
    /\ Serving
    /\ cancelQ # <<>>
    /\ cancelQ' = Tail(cancelQ)
    /\ cancel' = [cancel EXCEPT ![Head(cancelQ)].state = "unread"]
    /\ UNCHANGED <<goalQ, resultQ, request>>
    /\ UNCHANGED <<handleVars, managerVars, statusVars, loopVars>>

-----------------------------------------------------------------------------
(* Result requests. *)

Settle(r, state, status) ==
    request' = [request EXCEPT ![r].state = state, ![r].status = status]

\* The result-only task of manual mode replies for a terminated goal and
\* otherwise stays silent.
legacy_result_request ==
    /\ legacy = "running"
    /\ resultQ # <<>>
    /\ resultQ' = Tail(resultQ)
    /\ LET r == Head(resultQ)
           g == request[r].goal
       IN  IF goals[g] \in Terminal
           THEN Settle(r, "replied", goals[g])
           ELSE Settle(r, "silent", "none")
    /\ UNCHANGED <<goalQ, cancelQ, cancel>>
    /\ UNCHANGED <<handleVars, managerVars, statusVars, loopVars>>

legacy_stop ==
    /\ legacy = "running"
    /\ handlerToken \/ shutdown
    /\ legacy' = "stopped"
    /\ UNCHANGED <<driver, waitingOn, handlerToken, shutdown>>
    /\ UNCHANGED <<handleVars, managerVars, statusVars, clientVars>>

\* The driver answers at once for a terminated goal, registers a waiter and
\* awaits it for a goal in progress, and stays silent for an unknown goal.
handle_result_request ==
    /\ InLoop
    /\ resultQ # <<>>
    /\ resultQ' = Tail(resultQ)
    /\ LET r == Head(resultQ)
           g == request[r].goal
       IN  \/ /\ goals[g] \in Terminal
              /\ Settle(r, "replied", goals[g])
              /\ UNCHANGED <<result_futures, driver, waitingOn>>
           \/ /\ goals[g] \in {"accepted", "executing"}
              /\ Settle(r, "waiting", "none")
              /\ result_futures' = [result_futures EXCEPT ![g] = @ \cup {r}]
              /\ driver' = "waiting" /\ waitingOn' = r
           \/ /\ goals[g] = "absent"
              /\ Settle(r, "ignored", "none")
              /\ UNCHANGED <<result_futures, driver, waitingOn>>
    /\ UNCHANGED <<goalQ, cancelQ, cancel, goals, due, expired>>
    /\ UNCHANGED <<legacy, handlerToken, shutdown, handleVars, statusVars>>

\* Either of them drops a request that does not deserialize.
discard_result ==
    /\ legacy = "running" \/ InLoop
    /\ resultQ # <<>>
    /\ resultQ' = Tail(resultQ)
    /\ Settle(Head(resultQ), "unread", "none")
    /\ UNCHANGED <<goalQ, cancelQ, cancel>>
    /\ UNCHANGED <<handleVars, managerVars, statusVars, loopVars>>

\* rx.await returns and the reply is sent.
result_ready ==
    /\ driver = "waiting"
    /\ request[waitingOn].state = "ready"
    /\ request' = [request EXCEPT ![waitingOn].state = "replied"]
    /\ driver' = "loop" /\ waitingOn' = "none"
    /\ UNCHANGED <<goalQ, cancelQ, resultQ, cancel>>
    /\ UNCHANGED <<legacy, handlerToken, shutdown, handleVars, managerVars, statusVars>>

-----------------------------------------------------------------------------
(* The driver loop. *)

with_handler ==
    /\ Manual
    /\ handlerToken' = TRUE
    /\ driver' = "loop"
    /\ UNCHANGED <<waitingOn, legacy, shutdown>>
    /\ UNCHANGED <<handleVars, managerVars, statusVars, clientVars>>

\* handle_goal_request is spawned into the JoinSet.
spawn_goal ==
    /\ InLoop
    /\ goalQ # <<>>
    /\ goalQ' = Tail(goalQ)
    /\ handle' = [handle EXCEPT ![Head(goalQ)] = "requested"]
    /\ driverTasks' = driverTasks \cup {Head(goalQ)}
    /\ UNCHANGED <<gone, flag, cancelQ, resultQ, request, cancel>>
    /\ UNCHANGED <<managerVars, statusVars, loopVars>>

\* The last ZActionServer with the real guard is dropped.  A user's handle
\* holds one; a handle of the driver's tasks holds a dummy guard.
Shutdown ==
    /\ ~shutdown
    /\ \A stage \in {"requested", "replied", "accepted", "executing"} :
           At(stage) \subseteq driverTasks
    /\ Idle("user")
    /\ shutdown' = TRUE
    /\ UNCHANGED <<driver, waitingOn, legacy, handlerToken>>
    /\ UNCHANGED <<handleVars, managerVars, statusVars, clientVars>>

\* The loop sees the token: abort_all and break.
driver_break ==
    /\ InLoop
    /\ shutdown
    /\ driver' = "draining"
    /\ UNCHANGED <<waitingOn, legacy, handlerToken, shutdown>>
    /\ UNCHANGED <<handleVars, managerVars, statusVars, clientVars>>

\* An aborted task stops at its only await, the handler, or before its first
\* poll.
TaskAborted(g) ==
    /\ driver = "draining"
    /\ g \in driverTasks
    /\ Idle(g)
    /\ handle[g] \in {"requested", "executing"}
    /\ gone' = gone \cup {g}
    /\ driverTasks' = driverTasks \ {g}
    /\ UNCHANGED <<handle, flag>>
    /\ UNCHANGED <<managerVars, statusVars, clientVars, loopVars>>

driver_stop ==
    /\ driver = "draining"
    /\ driverTasks = {}
    /\ driver' = "stopped"
    /\ UNCHANGED <<waitingOn, legacy, handlerToken, shutdown>>
    /\ UNCHANGED <<handleVars, managerVars, statusVars, clientVars>>

-----------------------------------------------------------------------------

ClientStep ==
    \/ \E g \in Goals : SendGoal(g)
    \/ \E r \in Requests, g \in Goals : SendResult(r, g)
    \/ \E c \in Cancels, target \in Goals \cup {"all"} : SendCancel(c, target)

HandleStep(g) ==
    \/ accept_reply(g)
    \/ accept_insert(g)
    \/ execute(g)
    \/ TaskEnds(g)
    \/ TaskAborted(g)

PublishStep(p) == TakeSnapshot(p) \/ PublishSnapshot(p)

DriverStep ==
    \/ handle_result_request
    \/ result_ready
    \/ spawn_goal
    \/ driver_break
    \/ driver_stop

DiscardStep == discard_goal \/ discard_cancel \/ discard_result

LegacyStep == legacy_result_request \/ legacy_stop

Next ==
    \/ ClientStep
    \/ \E g \in Goals :
        HandleStep(g) \/ reject(g) \/ Finish(g) \/ DropHandle(g) \/ Elapse(g)
    \/ \E p \in Publishers : PublishStep(p)
    \/ recv_goal
    \/ handle_cancel_request
    \/ \E p \in {"driver", "user"} : expire_goals(p)
    \/ DriverStep
    \/ LegacyStep
    \/ DiscardStep
    \/ with_handler
    \/ Shutdown

Spec == Init /\ [][Next]_vars

\* Tasks, threads and the driver keep running (tokio polls every ready task,
\* select! picks a ready branch at random), and a handler that is asked to
\* cancel does; otherwise handlers may run for ever.
Fairness ==
    /\ \A g \in Goals :
        /\ WF_vars(HandleStep(g))
        /\ WF_vars(flag[g] /\ terminate(g, "canceled"))
    /\ \A p \in Publishers : WF_vars(PublishStep(p))
    /\ WF_vars(DriverStep)
    /\ WF_vars(handle_cancel_request)
    /\ WF_vars(LegacyStep)

FairSpec == Spec /\ Fairness

-----------------------------------------------------------------------------
(* Properties. *)

Stages == {"none", "queued", "overflowed", "unread", "requested", "rejected"} \cup AcceptanceSent

\* The state has the shape the code gives it.
TypeOK ==
    /\ handle \in [Goals -> Stages]
    /\ gone \subseteq Goals /\ driverTasks \subseteq Goals
    /\ flag \in [Goals -> BOOLEAN]
    /\ goals \in Snapshot
    /\ due \subseteq Goals /\ expired \subseteq Goals
    /\ result_futures \in [Goals -> SUBSET Requests]
    /\ pending \in [Publishers -> [phase : {"no", "start", "taken"}, list : Snapshot]]
    /\ published \in Snapshot
    /\ goalQ \in Seq(Goals) /\ cancelQ \in Seq(Cancels) /\ resultQ \in Seq(Requests)
    /\ request \in [Requests ->
          [state : {"unsent", "queued", "overflowed", "waiting", "ready",
                    "replied", "ignored", "silent", "unread"},
           goal : Goals \cup {"none"}, status : Terminal \cup {"none"}]]
    /\ cancel \in [Cancels ->
          [state : {"unsent", "queued", "overflowed", "canceling", "refused", "unread"},
           goal : Goals \cup {"all", "none"}, code : {0, 1}]]
    /\ driver \in {"off", "loop", "waiting", "draining", "stopped"}
    /\ waitingOn \in Requests \cup {"none"}
    /\ legacy \in {"running", "stopped"}
    /\ handlerToken \in BOOLEAN /\ shutdown \in BOOLEAN

\* The goal manager never shows a goal at another stage than its handle, even
\* when a goal expires while its handler runs and is stored again later.
RecordMatchesHandle ==
    \A g \in Goals : goals[g] # "absent" => goals[g] = handle[g]

\* A cancellation the server acknowledged reaches the handler: the flag it
\* polls with is_cancel_requested is set and stays set.
AckedCancelSeen ==
    \A c \in Cancels : cancel[c].state = "canceling" => flag[cancel[c].goal]

\* The request the driver is blocked on is registered with a goal that has not
\* terminated, or its answer is there; no other request waits.  So the test of
\* the stored state and the registration (driver.rs:236-254) race with no
\* terminate and no expiry.
NoOrphanedWaiter ==
    /\ \A g \in Goals : result_futures[g] \subseteq {waitingOn} \ {"none"}
    /\ driver = "waiting" =>
         LET r == waitingOn
             g == request[r].goal
         IN  \/ /\ request[r].state = "waiting"
                /\ r \in result_futures[g]
                /\ handle[g] \notin Terminal
             \/ /\ request[r].state = "ready"
                /\ request[r].status = handle[g]

\* The published status list never runs ahead of a goal and never shows a
\* terminal status other than the one the goal ended with, although snapshots
\* are published outside the lock and may overtake each other.
PublishedWasReached ==
    \A g \in Goals :
        /\ published[g] \in Terminal => published[g] = handle[g]
        /\ published[g] = "executing" => handle[g] \in {"executing"} \cup Terminal
        /\ published[g] = "accepted" =>
              handle[g] \in {"accepted", "executing"} \cup Terminal

\* The status of a goal's handle as the ROS 2 state machine names it: the
\* server keeps "canceling" in the cancel flag.
HandleStatus(g) ==
    IF handle[g] = "executing" /\ flag[g] THEN "canceling"
    ELSE IF handle[g] \in {"accepted", "executing"} \cup Terminal THEN handle[g]
    ELSE "unknown"

Lifecycle == INSTANCE GoalLifecycle WITH
    status <- [g \in Goals |-> HandleStatus(g)],
    reported <- [g \in Goals |->
                   {request[r].status : r \in {s \in Requests :
                        request[s].state = "replied" /\ request[s].goal = g}}]

\* The server implements GoalLifecycle: a goal is accepted, executes and ends
\* once, in this order and whatever expires, is dropped or canceled meanwhile,
\* and a result reply carries the status its goal ended with.
ImplementsLifecycle == Lifecycle!Spec

\* After the last handle is dropped the driver and the result-only task stop,
\* and every goal task has ended, also the task of a handler that hangs
\* (driver.rs:101: "This is now safe. If it hangs, abort_all() kills it.").
\* The code does not keep this promise: see the run action_server_hang.
ShutdownCompletes ==
    shutdown ~> /\ legacy = "stopped"
                /\ driver \in {"off", "stopped"}
                /\ driverTasks = {}

\* The driver stays silent on a result request only if the goal has expired, or
\* if its handle is between the acceptance it sent and the insertion that
\* follows (server.rs:759-779): a goal once stored leaves by expiry alone.
SilenceExplained ==
    [][\A r \in Requests :
          request[r].state # "ignored" /\ request'[r].state = "ignored"
             => LET g == request[r].goal
                IN  g \in expired \/ handle[g] = "replied"]_vars

\* The stored record, the handle, the cancel flag and the published list tell
\* the same story of a goal.
RecordFaithful ==
    TypeOK /\ RecordMatchesHandle /\ AckedCancelSeen /\ PublishedWasReached
=============================================================================
