---------------------------- MODULE ActionClient ----------------------------
(***************************************************************************)
(* The action client of ros_z::action (client.rs): the goal board, the     *)
(* feedback and status callbacks, send_goal, cancel_goal, get_result and   *)
(* GoalHandle::result.                                                     *)
(*                                                                         *)
(* Every goal is driven by a task of its own; a call is cut at its awaits. *)
(* The goal, result and cancel clients each have one bounded channel that  *)
(* the replies to all their requests go to, and a caller takes whichever   *)
(* reply is first.  A call's future may be dropped at its await, and a     *)
(* query may end without an answer (its timeout of 10 s, an error reply).  *)
(*                                                                         *)
(* The server is the environment: it accepts goals, ends them, and         *)
(* publishes lists of statuses that it took earlier, in any order          *)
(* (publish_status takes the list under the lock and publishes it          *)
(* outside).  Feedback is left out: it goes to the unbounded channel in    *)
(* the goal's entry and nothing here depends on it.                        *)
(***************************************************************************)
EXTENDS Naturals, Sequences, FiniteSets

CONSTANTS
    Goals,      \* the goals that tasks send
    Cancelling, \* the goals whose task may ask for cancellation
    Depth,      \* capacity of a client's reply channel (service QoS)
    MaxLists    \* bound on status lists taken and not yet delivered

ASSUME ClientAssumption ==
    /\ Depth \in Nat \ {0} /\ MaxLists \in Nat /\ Cancelling \subseteq Goals
    /\ Goals \cap {"none", "lost"} = {}

Services == {"goal", "cancel", "result"}
\* What the client tells apart of a goal's status; "active" is any status of
\* GoalStatus::is_active.
Statuses == {"absent", "active", "succeeded"}
Terminal == {"succeeded"}

VARIABLES
    call,     \* where the task of each goal is
    board,    \* GoalBoard.active_goals: the goals with an entry
    status,   \* the value in each goal's watch channel
    seen,     \* whether the watching task has read that value
    watched,  \* goals whose handle still holds its status receiver
    asked,    \* queries that are open, by service
    rx,       \* the reply channel of each service client
    took,     \* the goal whose reply each goal's call took (history)
    mixed,    \* services on which calls overlapped or one was given up (history)
    server,   \* the server's status of each goal
    lists     \* status lists the server took and has not published

boardVars == <<board, status, seen, watched>>
wireVars == <<asked, rx, took, mixed>>
serverVars == <<server, lists>>
vars == <<call, boardVars, wireVars, serverVars>>

Init ==
    /\ call = [g \in Goals |-> "new"]
    /\ board = {}
    /\ status = [g \in Goals |-> "unknown"]
    /\ seen = [g \in Goals |-> FALSE]
    /\ watched = Goals
    /\ asked = [s \in Services |-> {}]
    /\ rx = [s \in Services |-> <<>>]
    /\ took = [s \in Services |-> [g \in Goals |-> "none"]]
    /\ mixed = {}
    /\ server = [g \in Goals |-> "absent"]
    /\ lists = {}

-----------------------------------------------------------------------------
(* ZClient: sending, the reply callback and rx.recv_async.                 *)

Waiting(s) == {g \in Goals : call[g] = s}

\* send_request succeeded: the call of g now awaits a reply.
send_request(s, g) ==
    /\ call' = [call EXCEPT ![g] = s]
    /\ asked' = [asked EXCEPT ![s] = @ \cup {g}]
    /\ mixed' = IF Waiting(s) = {} /\ asked[s] = {} THEN mixed ELSE mixed \cup {s}
    /\ UNCHANGED <<rx, took>>

\* A reply is dropped when the channel is full.
Answer(s, g, value) ==
    /\ g \in asked[s]
    /\ asked' = [asked EXCEPT ![s] = @ \ {g}]
    /\ rx' = IF Len(rx[s]) < Depth
             THEN [rx EXCEPT ![s] = Append(@, [goal |-> g, value |-> value])] ELSE rx
    /\ UNCHANGED <<call, boardVars, took, mixed>>

\* The query times out or is answered with an error: the callback only logs it.
NoAnswer(s, g) ==
    /\ g \in asked[s]
    /\ asked' = [asked EXCEPT ![s] = @ \ {g}]
    /\ UNCHANGED <<call, boardVars, rx, took, mixed, serverVars>>

\* A mutant: the reply is left in the channel.
recv_async_Peeks(s, g, next) ==
    /\ call[g] = s /\ rx[s] # <<>>
    /\ took' = [took EXCEPT ![s][g] = Head(rx[s]).goal]
    /\ call' = [call EXCEPT ![g] = next]
    /\ UNCHANGED <<rx, asked, mixed>>

\* The call of g takes the first reply in the channel, whosever it is.
recv_async(s, g, next) ==
    /\ call[g] = s /\ rx[s] # <<>>
    /\ rx' = [rx EXCEPT ![s] = Tail(@)]
    /\ took' = [took EXCEPT ![s][g] = Head(rx[s]).goal]
    /\ call' = [call EXCEPT ![g] = next]
    /\ UNCHANGED <<asked, mixed>>

-----------------------------------------------------------------------------
(* send_goal *)

InsertGoal(g) ==
    /\ call[g] = "new"
    /\ board' = board \cup {g}
    /\ call' = [call EXCEPT ![g] = "inserted"]
    /\ UNCHANGED <<status, seen, watched, wireVars, serverVars>>

SendGoal(g) ==
    /\ call[g] = "inserted"
    /\ send_request("goal", g)
    /\ UNCHANGED <<boardVars, serverVars>>

SendGoalFails(g) ==
    /\ call[g] = "inserted"
    /\ call' = [call EXCEPT ![g] = "ended"]
    /\ board' = board \ {g}
    /\ UNCHANGED <<status, seen, watched, wireVars, serverVars>>

\* The reply does not deserialize: send_goal returns with ?, its entry stays.
GoalReplyBad(g) ==
    /\ rx["goal"] # <<>> /\ Head(rx["goal"]).value = "bad"
    /\ recv_async("goal", g, "failed")
    /\ UNCHANGED <<boardVars, serverVars>>

\* A mutant: the entry of a rejected goal stays.
GoalRejected_Keeps(g) ==
    /\ rx["goal"] # <<>> /\ Head(rx["goal"]).value = "rejected"
    /\ recv_async("goal", g, "ended")
    /\ UNCHANGED <<boardVars, serverVars>>

GoalRejected(g) ==
    /\ rx["goal"] # <<>> /\ Head(rx["goal"]).value = "rejected"
    /\ recv_async("goal", g, "ended")
    /\ board' = board \ {g}
    /\ UNCHANGED <<status, seen, watched, serverVars>>

GoalAccepted(g) ==
    /\ rx["goal"] # <<>> /\ Head(rx["goal"]).value = "accepted"
    /\ recv_async("goal", g, "active")
    /\ UNCHANGED <<boardVars, serverVars>>

-----------------------------------------------------------------------------
(* The handle: cancel, feedback, status_watch, result. *)

\* cancel_goal; cancel_all_goals differs in the id it sends.  An error of
\* send_request leaves the handle as it was.
cancel_goal(g) ==
    /\ g \in Cancelling /\ call[g] = "active" /\ took["cancel"][g] = "none"
    /\ send_request("cancel", g)
    /\ UNCHANGED <<boardVars, serverVars>>

Cancelled(g) ==
    /\ recv_async("cancel", g, "active")
    /\ UNCHANGED <<boardVars, serverVars>>

\* status_watch takes the receiver out of the handle.
status_watch(g) ==
    /\ call[g] = "active" /\ g \in watched
    /\ watched' = watched \ {g}
    /\ UNCHANGED <<call, board, status, seen, wireVars, serverVars>>

\* result(): without a receiver it does not wait for a terminal status.
result(g) ==
    /\ call[g] = "active"
    /\ call' = [call EXCEPT ![g] = IF g \in watched THEN "watching" ELSE "fetching"]
    /\ watched' = watched \ {g}
    /\ seen' = [seen EXCEPT ![g] = FALSE]
    /\ UNCHANGED <<board, status, wireVars, serverVars>>

\* borrow_and_update: leave the loop, or wait until the value is sent again.
\* changed() fails only once the sender is gone with the board's entry, which
\* BoardTracksGoals rules out.
borrow_and_update(g) ==
    /\ call[g] = "watching" /\ ~seen[g]
    /\ seen' = [seen EXCEPT ![g] = TRUE]
    /\ call' = [call EXCEPT ![g] = IF status[g] \in Terminal THEN "fetching" ELSE @]
    /\ UNCHANGED <<board, status, watched, wireVars, serverVars>>

get_result(g) ==
    /\ call[g] = "fetching"
    /\ send_request("result", g)
    /\ UNCHANGED <<boardVars, serverVars>>

\* result() removes the entry whether get_result succeeded or not.
GetResultFails(g) ==
    /\ call[g] = "fetching"
    /\ call' = [call EXCEPT ![g] = "ended"]
    /\ board' = board \ {g}
    /\ UNCHANGED <<status, seen, watched, wireVars, serverVars>>

ResultTaken(g) ==
    /\ recv_async("result", g, "ended")
    /\ board' = board \ {g}
    /\ UNCHANGED <<status, seen, watched, serverVars>>

\* The future of a call is dropped at its await, or a handle is dropped:
\* neither has a Drop that would remove the entry.
Abandon(g) ==
    /\ call[g] \in Services \cup {"watching", "active"}
    /\ call' = [call EXCEPT ![g] = IF @ = "cancel" THEN "active" ELSE "dropped"]
    /\ mixed' = mixed \cup ({call[g]} \cap Services)
    /\ took' = [s \in Services |-> [took[s] EXCEPT ![g] = IF call[g] = s THEN "lost" ELSE @]]
    /\ UNCHANGED <<boardVars, asked, rx, serverVars>>

-----------------------------------------------------------------------------
(* The subscriptions' callbacks and the server. *)

\* A mutant: a terminal status is not announced.
StatusCallback_Silent(list) ==
    LET hit == {g \in board : list[g] # "absent"} IN
    /\ status' = [g \in Goals |-> IF g \in hit THEN list[g] ELSE status[g]]
    /\ seen' = [g \in Goals |-> seen[g] /\ (g \notin hit \/ list[g] \in Terminal)]
    /\ lists' = lists \ {list}
    /\ UNCHANGED <<call, board, watched, wireVars, server>>

\* Each status goes to the watch channel of its goal, whatever was there.
StatusCallback(list) ==
    LET hit == {g \in board : list[g] # "absent"} IN
    /\ status' = [g \in Goals |-> IF g \in hit THEN list[g] ELSE status[g]]
    /\ seen' = [g \in Goals |-> seen[g] /\ g \notin hit]
    /\ lists' = lists \ {list}
    /\ UNCHANGED <<call, board, watched, wireVars, server>>

ServerGoal(g) ==
    \E v \in {"accepted", "rejected", "bad"} :
       /\ Answer("goal", g, v)
       /\ server' = [server EXCEPT ![g] = IF v = "accepted" THEN "active" ELSE @]
       /\ UNCHANGED lists

ServerAdvance(g) ==
    /\ server[g] = "active"
    /\ server' = [server EXCEPT ![g] = "succeeded"]
    /\ UNCHANGED <<call, boardVars, wireVars, lists>>

ServerTakesList ==
    /\ Cardinality(lists) < MaxLists
    /\ lists' = lists \cup {server}
    /\ UNCHANGED <<call, boardVars, wireVars, server>>

ServerReply(g) ==
    /\ \/ Answer("cancel", g, "done")
       \/ server[g] \in Terminal /\ Answer("result", g, "done")
    /\ UNCHANGED serverVars

Task(g) ==
    \/ InsertGoal(g) \/ SendGoal(g) \/ SendGoalFails(g)
    \/ GoalReplyBad(g) \/ GoalRejected(g) \/ GoalAccepted(g)
    \/ Cancelled(g) \/ borrow_and_update(g)
    \/ get_result(g) \/ GetResultFails(g) \/ ResultTaken(g)

Next ==
    \/ \E g \in Goals :
          \/ Task(g) \/ cancel_goal(g) \/ status_watch(g)
          \/ result(g) \/ Abandon(g)
          \/ ServerGoal(g) \/ ServerAdvance(g) \/ ServerReply(g)
          \/ \E s \in Services : NoAnswer(s, g)
    \/ \E list \in lists : StatusCallback(list)
    \/ ServerTakesList

\* The runtime polls a task that can go on; nobody else has to move.
Spec == Init /\ [][Next]_vars /\ \A g \in Goals : WF_vars(Task(g))

-----------------------------------------------------------------------------
(* Properties *)

\* Every variable has its type, and no reply channel exceeds the depth its QoS
\* gives it.
TypeOK ==
    /\ call \in [Goals -> Services \cup {"new", "inserted", "active", "watching",
                                         "fetching", "ended", "failed", "dropped"}]
    /\ board \subseteq Goals
    /\ status \in [Goals -> Statuses \cup {"unknown"}]
    /\ seen \in [Goals -> BOOLEAN]
    /\ watched \subseteq Goals
    /\ asked \in [Services -> SUBSET Goals]
    /\ \A s \in Services : Len(rx[s]) <= Depth
    /\ took \in [Services -> [Goals -> Goals \cup {"none", "lost"}]]
    /\ mixed \subseteq Services
    /\ server \in [Goals -> Statuses]
    /\ lists \subseteq [Goals -> Statuses]

\* The reply a call takes answers its own request unless, on the same service,
\* two calls overlapped or an earlier one was given up: the shared channel of
\* client.rs correlates nothing, and this is all that a caller can rely on.
OwnReply ==
    \A s \in Services \ mixed : \A g \in Goals : took[s][g] \in {g, "none", "lost"}

\* Whatever was mixed up, a reply is taken by one call only.
ReplyTakenOnce ==
    \A s \in Services : \A g, h \in Goals :
       took[s][g] = took[s][h] /\ took[s][g] \in Goals => g = h

\* The board holds an entry for exactly the goals whose call or handle is
\* alive, and beside them only those of calls that failed after sending and of
\* futures and handles that were dropped.  In particular result() never finds
\* its watch channel closed.
BoardTracksGoals ==
    \A g \in Goals :
       g \in board <=> call[g] \notin {"new", "ended"}

\* Once the status in the watch channel stays terminal, result() stops waiting;
\* an older list that is published late may still overwrite it before that.
ResultStopsWaiting ==
    \A g \in Goals :
       <>[](status[g] \in Terminal) => []<>(call[g] # "watching")

\* Who gets which reply.
RepliesPaired == TypeOK /\ OwnReply /\ ReplyTakenOnce
=============================================================================
