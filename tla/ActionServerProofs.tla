------------------------- MODULE ActionServerProofs -------------------------
(***************************************************************************)
(* What the action server guarantees for any number of goals, result       *)
(* requests and cancel requests, any queue depth, with and without goal    *)
(* timeouts and dropped handles.  IInv is inductive.  Its parts follow a   *)
(* goal (its handle, its record, the lists that show it), a result request *)
(* (queued, registered with the goal, settled) and the driver, which       *)
(* blocks on one request at a time.  RecordFaithful and NoOrphanedWaiter   *)
(* are weakenings of IInv; SilenceExplained follows from LeavesByExpiry,   *)
(* and the refinement of GoalLifecycle from RepliesFinal.                  *)
(***************************************************************************)
EXTENDS ActionServer, TLAPS

USE QueueDepthAssumption, SwitchesAssumption, NamesAssumption

\* A queue holds nothing twice.
Distinct(q) == \A i, j \in 1..Len(q) : q[i] = q[j] => i = j

\* A queued goal is in the queue once and its handle says so.
GoalsQueued ==
    /\ \A i \in 1..Len(goalQ) : handle[goalQ[i]] = "queued"
    /\ Distinct(goalQ)

\* A result request in the queue is there once and has not been treated.
ResultsQueued ==
    /\ \A i \in 1..Len(resultQ) : request[resultQ[i]].state = "queued"
    /\ Distinct(resultQ)

\* Results are only asked of goals whose acceptance was sent.
ResultsAddressed ==
    \A r \in Requests : request[r].state # "unsent" =>
        request[r].goal \in Goals /\ handle[request[r].goal] \in AcceptanceSent

\* An acknowledged cancellation is of a goal that was executing.
CancelsSeen ==
    \A c \in Cancels : cancel[c].state = "canceling" =>
        /\ cancel[c].goal \in Goals /\ flag[cancel[c].goal]
        /\ handle[cancel[c].goal] \in {"executing"} \cup Terminal

\* What a status list may show of a goal; the lists on their way included.
Shown(g, status) ==
    /\ status \in Terminal => status = handle[g]
    /\ status = "executing" => handle[g] \in {"executing"} \cup Terminal
    /\ status = "accepted" => handle[g] \in {"accepted", "executing"} \cup Terminal
ListsReached ==
    \A g \in Goals :
        /\ Shown(g, published[g])
        /\ \A p \in Publishers : Shown(g, pending[p].list[g])

\* A registered request is the one the driver waits on, and its goal's.
Registered ==
    \A g \in Goals : \A r \in result_futures[g] :
        /\ r = waitingOn
        /\ request[r].state = "waiting" /\ request[r].goal = g

\* The driver waits on a registered request of a goal in progress, or on one
\* whose answer is the status its goal ended with.
DriverWaits ==
    /\ driver # "waiting" => waitingOn = "none"
    /\ driver = "waiting" =>
         /\ waitingOn \in Requests /\ request[waitingOn].goal \in Goals
         /\ \/ /\ request[waitingOn].state = "waiting"
               /\ waitingOn \in result_futures[request[waitingOn].goal]
               /\ handle[request[waitingOn].goal] \notin Terminal
            \/ /\ request[waitingOn].state = "ready"
               /\ request[waitingOn].status \in Terminal
               /\ request[waitingOn].status = handle[request[waitingOn].goal]

\* A reply carries the status its goal ended with.
RepliesFinal ==
    \A r \in Requests : request[r].state = "replied" =>
        request[r].status \in Terminal /\ request[r].status = handle[request[r].goal]

\* A goal whose handle is at a stored stage is stored, unless it has expired.
LeavesByExpiry ==
    \A g \in Goals :
        handle[g] \in AcceptanceSent \ {"replied"} /\ goals[g] = "absent" => g \in expired

IInv ==
    /\ TypeOK /\ RecordMatchesHandle /\ LeavesByExpiry
    /\ GoalsQueued /\ ResultsQueued /\ ResultsAddressed
    /\ CancelsSeen /\ ListsReached
    /\ Registered /\ DriverWaits /\ RepliesFinal

-----------------------------------------------------------------------------
(* Types                                                                   *)

\* The parts of TypeOK, by who changes them.
TypeHandles ==
    /\ handle \in [Goals -> Stages]
    /\ gone \subseteq Goals /\ driverTasks \subseteq Goals
    /\ flag \in [Goals -> BOOLEAN]
TypeManager ==
    /\ goals \in Snapshot
    /\ due \subseteq Goals /\ expired \subseteq Goals
    /\ result_futures \in [Goals -> SUBSET Requests]
TypeStatus ==
    /\ pending \in [Publishers -> [phase : {"no", "start", "taken"}, list : Snapshot]]
    /\ published \in Snapshot
TypeQueues ==
    goalQ \in Seq(Goals) /\ cancelQ \in Seq(Cancels) /\ resultQ \in Seq(Requests)
RequestStates ==
    {"unsent", "queued", "overflowed", "waiting", "ready", "replied", "ignored", "silent",
     "unread"}
RequestRecord ==
    [state : RequestStates, goal : Goals \cup {"none"}, status : Terminal \cup {"none"}]
TypeRequests == request \in [Requests -> RequestRecord]
CancelRecord ==
    [state : {"unsent", "queued", "overflowed", "canceling", "refused", "unread"},
     goal : Goals \cup {"all", "none"}, code : {0, 1}]
TypeCancels == cancel \in [Cancels -> CancelRecord]
TypeLoops ==
    /\ driver \in {"off", "loop", "waiting", "draining", "stopped"}
    /\ waitingOn \in Requests \cup {"none"}
    /\ legacy \in {"running", "stopped"}
    /\ handlerToken \in BOOLEAN /\ shutdown \in BOOLEAN
Types ==
    /\ TypeHandles /\ TypeManager /\ TypeStatus /\ TypeQueues
    /\ TypeRequests /\ TypeCancels /\ TypeLoops

\* TypeOK is the conjunction of its parts, before and after a step.
LEMMA TypeParts == (TypeOK <=> Types) /\ (TypeOK' <=> Types')
  BY DEF TypeOK, Types, TypeHandles, TypeManager, TypeStatus, TypeQueues,
         TypeRequests, TypeCancels, TypeLoops, RequestRecord, RequestStates, CancelRecord

\* Settling a request changes its state and its status.
LEMMA SettleRecord ==
    ASSUME TypeRequests, NEW r \in Requests, NEW state \in RequestStates,
           NEW status \in Terminal \cup {"none"}, Settle(r, state, status)
    PROVE  /\ TypeRequests'
           /\ request'[r].state = state /\ request'[r].status = status
           /\ request'[r].goal = request[r].goal
           /\ \A s \in Requests \ {r} : request'[s] = request[s]
  <1>1. request[r] \in RequestRecord
    BY DEF TypeRequests
  <1>2. PICK new : new = [request[r] EXCEPT !.state = state, !.status = status]
    OBVIOUS
  <1>3. /\ new \in RequestRecord /\ new.state = state
        /\ new.goal = request[r].goal /\ new.status = status
    BY <1>1, <1>2 DEF RequestRecord
  <1>4. request' = [s \in Requests |-> IF s = r THEN new ELSE request[s]]
    BY <1>2 DEF TypeRequests, Settle
  <1> QED
    BY <1>3, <1>4 DEF TypeRequests

\* Notifying changes the registered requests.
LEMMA NotifyRecord ==
    ASSUME TypeRequests, NEW g \in Goals, NEW status \in Terminal, Notify(g, status)
    PROVE  /\ TypeRequests'
           /\ \A r \in Requests : request'[r].goal = request[r].goal
           /\ \A r \in Requests : IF r \in result_futures[g]
                 THEN request'[r].state = "ready" /\ request'[r].status = status
                 ELSE request'[r] = request[r]
  <1>1. SUFFICES ASSUME NEW r \in Requests
                 PROVE  /\ request'[r] \in RequestRecord /\ request'[r].goal = request[r].goal
                        /\ IF r \in result_futures[g]
                           THEN request'[r].state = "ready" /\ request'[r].status = status
                           ELSE request'[r] = request[r]
    BY DEF TypeRequests, Notify
  <1>2. request[r] \in RequestRecord
    BY DEF TypeRequests
  <1>3. PICK new : new = [request[r] EXCEPT !.state = "ready", !.status = status]
    OBVIOUS
  <1>4. /\ new \in RequestRecord /\ new.state = "ready"
        /\ new.goal = request[r].goal /\ new.status = status
    BY <1>2, <1>3 DEF RequestRecord, RequestStates
  <1>5. request'[r] = IF r \in result_futures[g] THEN new ELSE request[r]
    BY <1>3 DEF Notify
  <1> QED
    BY <1>2, <1>4, <1>5

\* Starting a publication changes the phase of its publisher.
LEMMA StartRecord ==
    ASSUME TypeStatus, NEW p \in Publishers, StartPublish(p), UNCHANGED published
    PROVE  /\ TypeStatus'
           /\ \A q \in Publishers : pending'[q].list = pending[q].list
  <1>1. \A q \in Publishers :
            pending[q] \in [phase : {"no", "start", "taken"}, list : Snapshot]
    BY DEF TypeStatus
  <1>2. pending' = [q \in Publishers |->
                 IF q = p THEN [pending[q] EXCEPT !.phase = "start"] ELSE pending[q]]
    BY DEF TypeStatus, StartPublish
  <1> QED
    BY <1>1, <1>2 DEF TypeStatus

\* Sending a result request changes it, and the one that overflows.
LEMMA SendResultRecord ==
    ASSUME TypeRequests, NEW r \in Requests, NEW g \in Goals, SendResult(r, g)
    PROVE  /\ TypeRequests'
           /\ \A s \in Requests : request'[s].status = request[s].status
           /\ \A s \in Requests :
                 \/ /\ s = r
                    /\ r \notin Overflow(resultQ) =>
                          request'[s].state = "queued" /\ request'[s].goal = g
                 \/ /\ s # r /\ s \in Overflow(resultQ)
                    /\ request'[s].state = "overflowed" /\ request'[s].goal = request[s].goal
                 \/ s # r /\ s \notin Overflow(resultQ) /\ request'[s] = request[s]
  <1>1. SUFFICES ASSUME NEW s \in Requests
                 PROVE  /\ request'[s] \in RequestRecord
                        /\ request'[s].status = request[s].status
                        /\ \/ /\ s = r
                              /\ r \notin Overflow(resultQ) =>
                                    request'[s].state = "queued" /\ request'[s].goal = g
                           \/ /\ s # r /\ s \in Overflow(resultQ)
                              /\ request'[s].state = "overflowed"
                              /\ request'[s].goal = request[s].goal
                           \/ s # r /\ s \notin Overflow(resultQ) /\ request'[s] = request[s]
    BY DEF TypeRequests, SendResult
  <1>2. request[s] \in RequestRecord
    BY DEF TypeRequests
  <1>3. PICK new : new = [request[s] EXCEPT !.state = "queued", !.goal = g]
    OBVIOUS
  <1>4. /\ new \in RequestRecord /\ new.state = "queued"
        /\ new.goal = g /\ new.status = request[s].status
    BY <1>2, <1>3 DEF RequestRecord, RequestStates
  <1>5. PICK lost : lost = [request[s] EXCEPT !.state = "overflowed"]
    OBVIOUS
  <1>6. /\ lost \in RequestRecord /\ lost.state = "overflowed"
        /\ lost.goal = request[s].goal /\ lost.status = request[s].status
    BY <1>2, <1>5 DEF RequestRecord, RequestStates
  <1>7. request'[s] = CASE s = r -> new [] s \in Overflow(resultQ) -> lost
                        [] OTHER -> request[s]
    BY <1>3, <1>5 DEF SendResult
  <1>8. CASE s = r
    BY <1>4, <1>6, <1>7, <1>8
  <1>9. CASE s # r /\ s \in Overflow(resultQ)
    BY <1>6, <1>7, <1>9
  <1>10. CASE s # r /\ s \notin Overflow(resultQ)
    BY <1>2, <1>7, <1>10
  <1> QED
    BY <1>8, <1>9, <1>10

\* Sending a cancel request acknowledges none.
LEMMA SendCancelRecord ==
    ASSUME TypeCancels, NEW c \in Cancels, NEW target \in Goals \cup {"all"},
           SendCancel(c, target)
    PROVE  /\ TypeCancels'
           /\ \A d \in Cancels :
                 cancel'[d] = cancel[d] \/ cancel'[d].state \in {"queued", "overflowed"}
  <1>1. SUFFICES ASSUME NEW d \in Cancels
                 PROVE  /\ cancel'[d] \in CancelRecord
                        /\ \/ cancel'[d] = cancel[d]
                           \/ cancel'[d].state \in {"queued", "overflowed"}
    BY DEF TypeCancels, SendCancel
  <1>2. cancel[d] \in CancelRecord
    BY DEF TypeCancels
  <1>3. PICK new : new = [cancel[d] EXCEPT !.state = "queued", !.goal = target]
    OBVIOUS
  <1>4. new \in CancelRecord /\ new.state = "queued"
    BY <1>2, <1>3 DEF CancelRecord
  <1>5. PICK lost : lost = [cancel[d] EXCEPT !.state = "overflowed"]
    OBVIOUS
  <1>6. lost \in CancelRecord /\ lost.state = "overflowed"
    BY <1>2, <1>5 DEF CancelRecord
  <1>7. cancel'[d] = CASE d = c -> new [] d \in Overflow(cancelQ) -> lost
                       [] OTHER -> cancel[d]
    BY <1>3, <1>5 DEF SendCancel
  <1> QED
    BY <1>2, <1>4, <1>6, <1>7

\* A treated cancel request is acknowledged, and the flag set, or refused.
LEMMA HandleCancelRecord ==
    ASSUME TypeCancels, TypeHandles, NEW c \in Cancels, NEW g, g = cancel[c].goal,
           HandleCancel(c, g)
    PROVE  /\ TypeCancels' /\ flag' \in [Goals -> BOOLEAN]
           /\ cancel'[c].goal = g
           /\ \A d \in Cancels \ {c} : cancel'[d] = cancel[d]
           /\ \/ /\ g \in Goals /\ goals[g] = "executing"
                 /\ flag' = [flag EXCEPT ![g] = TRUE] /\ cancel'[c].state = "canceling"
              \/ flag' = flag /\ cancel'[c].state = "refused"
  <1>1. cancel[c] \in CancelRecord
    BY DEF TypeCancels
  <1>2. CASE g \in Goals /\ goals[g] = "executing"
    <2>1. PICK new : new = [cancel[c] EXCEPT !.state = "canceling", !.code = 1]
      OBVIOUS
    <2>2. new \in CancelRecord /\ new.state = "canceling" /\ new.goal = g
      BY <1>1, <2>1 DEF CancelRecord
    <2>3. cancel' = [d \in Cancels |-> IF d = c THEN new ELSE cancel[d]]
      BY <1>2, <2>1 DEF TypeCancels, HandleCancel
    <2> QED
      BY <1>2, <2>2, <2>3 DEF HandleCancel, TypeCancels, TypeHandles
  <1>3. CASE ~(g \in Goals /\ goals[g] = "executing")
    <2>1. PICK new : new = [cancel[c] EXCEPT !.state = "refused", !.code = 0]
      OBVIOUS
    <2>2. new \in CancelRecord /\ new.state = "refused" /\ new.goal = g
      BY <1>1, <2>1 DEF CancelRecord
    <2>3. cancel' = [d \in Cancels |-> IF d = c THEN new ELSE cancel[d]]
      BY <1>3, <2>1 DEF TypeCancels, HandleCancel
    <2> QED
      BY <1>3, <2>2, <2>3 DEF HandleCancel, TypeCancels, TypeHandles
  <1> QED
    BY <1>2, <1>3

\* A discarded cancel request acknowledges nothing.
LEMMA DiscardCancelRecord ==
    ASSUME TypeCancels, Head(cancelQ) \in Cancels, discard_cancel
    PROVE  /\ TypeCancels'
           /\ \A d \in Cancels : cancel'[d] = cancel[d] \/ cancel'[d].state = "unread"
  <1>1. PICK c \in Cancels : c = Head(cancelQ)
    OBVIOUS
  <1>2. cancel[c] \in CancelRecord
    BY DEF TypeCancels
  <1>3. PICK new : new = [cancel[c] EXCEPT !.state = "unread"]
    OBVIOUS
  <1>4. new \in CancelRecord /\ new.state = "unread"
    BY <1>2, <1>3 DEF CancelRecord
  <1>5. cancel' = [d \in Cancels |-> IF d = c THEN new ELSE cancel[d]]
    BY <1>1, <1>3 DEF TypeCancels, discard_cancel
  <1> QED
    BY <1>4, <1>5 DEF TypeCancels

\* A delivered answer is the one the driver was waiting for.
LEMMA ReadyRecord ==
    ASSUME TypeRequests, waitingOn \in Requests, result_ready
    PROVE  /\ TypeRequests'
           /\ request'[waitingOn].state = "replied"
           /\ request'[waitingOn].goal = request[waitingOn].goal
           /\ request'[waitingOn].status = request[waitingOn].status
           /\ \A s \in Requests \ {waitingOn} : request'[s] = request[s]
  <1>1. request[waitingOn] \in RequestRecord
    BY DEF TypeRequests
  <1>2. PICK new : new = [request[waitingOn] EXCEPT !.state = "replied"]
    OBVIOUS
  <1>3. /\ new \in RequestRecord /\ new.state = "replied"
        /\ new.goal = request[waitingOn].goal /\ new.status = request[waitingOn].status
    BY <1>1, <1>2 DEF RequestRecord, RequestStates
  <1>4. request' = [s \in Requests |-> IF s = waitingOn THEN new ELSE request[s]]
    BY <1>2 DEF TypeRequests, result_ready
  <1> QED
    BY <1>3, <1>4 DEF TypeRequests

\* A snapshot holds the records of its moment, and is published as taken.
LEMMA PublishRecord ==
    ASSUME TypeStatus, TypeManager, NEW p \in Publishers, PublishStep(p)
    PROVE  /\ TypeStatus'
           /\ \A q \in Publishers :
                 pending'[q].list \in {pending[q].list, goals, EmptyList}
           /\ published' \in {published, pending[p].list}
  <1>1. \A q \in Publishers :
            pending[q] \in [phase : {"no", "start", "taken"}, list : Snapshot]
    BY DEF TypeStatus
  <1>2. EmptyList \in Snapshot
    BY DEF EmptyList, Snapshot, Stored
  <1>3. CASE TakeSnapshot(p)
    <2>1. pending' = [q \in Publishers |->
                 IF q = p THEN [phase |-> "taken", list |-> goals] ELSE pending[q]]
      BY <1>3 DEF TypeStatus, TakeSnapshot
    <2> QED
      BY <1>1, <1>3, <2>1 DEF TypeStatus, TypeManager, TakeSnapshot
  <1>4. CASE PublishSnapshot(p)
    <2>1. pending' = [q \in Publishers |->
                 IF q = p THEN [phase |-> "no", list |-> EmptyList] ELSE pending[q]]
      BY <1>4 DEF TypeStatus, PublishSnapshot
    <2> QED
      BY <1>1, <1>2, <1>4, <2>1 DEF TypeStatus, PublishSnapshot
  <1> QED
    BY <1>3, <1>4 DEF PublishStep

\* What the head and the tail of a queue are.
LEMMA Dequeue ==
    ASSUME NEW S, NEW q \in Seq(S), q # <<>>
    PROVE  /\ Head(q) \in S /\ Head(q) = q[1] /\ Tail(q) \in Seq(S)
           /\ Len(q) \in Nat /\ Len(q) > 0 /\ Len(Tail(q)) = Len(q) - 1
           /\ \A i \in 1..Len(Tail(q)) : Tail(q)[i] = q[i + 1]
  OBVIOUS

\* Only the oldest element overflows.
LEMMA Oldest ==
    ASSUME NEW S, NEW q \in Seq(S), NEW x \in Overflow(q)
    PROVE  Len(q) \in Nat /\ Len(q) > 0 /\ x = q[1] /\ x \in S
  <1>1. Len(q) >= QueueDepth /\ x = Head(q)
    BY DEF Overflow
  <1>2. q # <<>>
    BY <1>1
  <1> QED
    BY <1>1, <1>2, Dequeue

\* A push that fits appends.
LEMMA PushFits ==
    ASSUME NEW S, NEW q \in Seq(S), NEW x \in S, Overflow(q) = {}
    PROVE  /\ PushBounded(q, x) \in Seq(S)
           /\ Len(PushBounded(q, x)) = Len(q) + 1 /\ PushBounded(q, x)[Len(q) + 1] = x
           /\ \A i \in 1..Len(q) : PushBounded(q, x)[i] = q[i]
  <1>1. Len(q) < QueueDepth
    BY DEF Overflow
  <1>2. PushBounded(q, x) = Append(q, x)
    BY <1>1 DEF PushBounded
  <1> QED
    BY <1>2

\* A push that does not fit gives up the oldest element.
LEMMA PushDrops ==
    ASSUME NEW S, NEW q \in Seq(S), NEW x \in S, Overflow(q) # {}
    PROVE  /\ PushBounded(q, x) \in Seq(S)
           /\ Len(q) > 0 /\ Overflow(q) = {q[1]} /\ q[1] \in S
           /\ Len(PushBounded(q, x)) = Len(q) /\ PushBounded(q, x)[Len(q)] = x
           /\ \A i \in 1..(Len(q) - 1) : PushBounded(q, x)[i] = q[i + 1]
  <1>1. Len(q) >= QueueDepth
    BY DEF Overflow
  <1>2. PushBounded(q, x) = Append(Tail(q), x) /\ Overflow(q) = {Head(q)}
    BY <1>1 DEF PushBounded, Overflow
  <1>3. q # <<>>
    BY <1>1
  <1>4. /\ Head(q) \in S /\ Head(q) = q[1] /\ Tail(q) \in Seq(S)
        /\ Len(q) \in Nat /\ Len(q) > 0 /\ Len(Tail(q)) = Len(q) - 1
        /\ \A i \in 1..Len(Tail(q)) : Tail(q)[i] = q[i + 1]
    BY <1>3, Dequeue
  <1>5. PICK t \in Seq(S) : t = Tail(q)
    BY <1>4
  <1>6. /\ Append(t, x) \in Seq(S) /\ Len(Append(t, x)) = Len(q)
        /\ \A i \in 1..(Len(q) - 1) : Append(t, x)[i] = t[i]
        /\ Append(t, x)[Len(q)] = x
    BY <1>4, <1>5
  <1> QED
    BY <1>2, <1>4, <1>5, <1>6

\* A bounded queue stays a queue.
LEMMA PushType ==
    ASSUME NEW S, NEW q \in Seq(S), NEW x \in S
    PROVE  PushBounded(q, x) \in Seq(S)
  BY PushFits, PushDrops

\* What is in the queue after a push.
LEMMA PushElements ==
    ASSUME NEW S, NEW q \in Seq(S), NEW x \in S, Distinct(q), \A i \in 1..Len(q) : q[i] # x
    PROVE  /\ Distinct(PushBounded(q, x)) /\ x \notin Overflow(q)
           /\ \A i \in 1..Len(PushBounded(q, x)) :
                 \/ PushBounded(q, x)[i] = x
                 \/ /\ PushBounded(q, x)[i] \notin Overflow(q)
                    /\ \E j \in 1..Len(q) : PushBounded(q, x)[i] = q[j]
  <1>1. PICK n \in Seq(S) : n = PushBounded(q, x)
    BY PushType
  <1>2. Len(q) \in Nat /\ Len(n) \in Nat
    OBVIOUS
  <1>3. CASE Overflow(q) = {}
    <2>1. /\ Len(n) = Len(q) + 1 /\ n[Len(q) + 1] = x
          /\ \A i \in 1..Len(q) : n[i] = q[i]
      BY <1>1, <1>3, PushFits
    <2>2. \A i \in 1..Len(n) : \/ i \in 1..Len(q) /\ n[i] = q[i]
                               \/ i = Len(q) + 1 /\ n[i] = x
      BY <1>2, <2>1
    <2>3. Distinct(n)
      BY <2>2 DEF Distinct
    <2> QED
      BY <1>1, <1>3, <2>2, <2>3
  <1>4. CASE Overflow(q) # {}
    <2>1. /\ Len(q) > 0 /\ Overflow(q) = {q[1]}
          /\ Len(n) = Len(q) /\ n[Len(q)] = x
          /\ \A i \in 1..(Len(q) - 1) : n[i] = q[i + 1]
      BY <1>1, <1>4, PushDrops
    <2>2. \A i \in 1..Len(n) :
             \/ i + 1 \in 1..Len(q) /\ n[i] = q[i + 1] /\ q[i + 1] # q[1]
             \/ i = Len(q) /\ n[i] = x
      BY <1>2, <2>1 DEF Distinct
    <2>3. Distinct(n)
      BY <1>2, <2>2 DEF Distinct
    <2>4. x \notin Overflow(q)
      BY <1>2, <2>1
    <2>5. \A i \in 1..Len(n) :
             n[i] = x \/ (n[i] # q[1] /\ \E j \in 1..Len(q) : n[i] = q[j])
      BY <2>2
    <2> QED
      BY <1>1, <2>1, <2>3, <2>4, <2>5
  <1> QED
    BY <1>3, <1>4

\* What is in the queue after its head is taken.
LEMMA PopElements ==
    ASSUME NEW S, NEW q \in Seq(S), Distinct(q), q # <<>>
    PROVE  /\ Head(q) \in S /\ \E j \in 1..Len(q) : Head(q) = q[j]
           /\ Distinct(Tail(q))
           /\ \A i \in 1..Len(Tail(q)) : /\ Tail(q)[i] # Head(q)
                                         /\ \E j \in 1..Len(q) : Tail(q)[i] = q[j]
  <1>1. /\ Head(q) \in S /\ Head(q) = q[1] /\ Tail(q) \in Seq(S)
        /\ Len(q) \in Nat /\ Len(q) > 0 /\ Len(Tail(q)) = Len(q) - 1
        /\ \A i \in 1..Len(Tail(q)) : Tail(q)[i] = q[i + 1]
    BY Dequeue
  <1>2. PICK t \in Seq(S) : t = Tail(q)
    BY <1>1
  <1>3. \A i \in 1..Len(t) : i + 1 \in 1..Len(q) /\ t[i] = q[i + 1] /\ q[i + 1] # q[1]
    BY <1>1, <1>2 DEF Distinct
  <1>4. Distinct(t)
    BY <1>1, <1>3 DEF Distinct
  <1>5. 1 \in 1..Len(q)
    BY <1>1
  <1> QED
    BY <1>1, <1>2, <1>3, <1>4, <1>5

\* Every action keeps the types.
LEMMA NextType ==
    ASSUME Types, [Next]_vars, driver = "waiting" => waitingOn \in Requests
    PROVE  Types'
  <1> USE DEF handleVars, managerVars, statusVars, clientVars, loopVars, Types
  <1>1. CASE \E g \in Goals : SendGoal(g)
    <2>1. PICK g \in Goals : SendGoal(g)
      BY <1>1
    <2>2. goalQ' \in Seq(Goals)
      BY <2>1, PushType DEF SendGoal, TypeQueues
    <2>3. TypeHandles'
      BY <2>1 DEF SendGoal, Stages, TypeHandles
    <2> QED
      BY <2>1, <2>2, <2>3
      DEF SendGoal, TypeManager, TypeStatus, TypeQueues, TypeRequests, TypeCancels, TypeLoops
  <1>2. CASE \E r \in Requests, g \in Goals : SendResult(r, g)
    <2>1. PICK r \in Requests, g \in Goals : SendResult(r, g)
      BY <1>2
    <2>2. resultQ' \in Seq(Requests)
      BY <2>1, PushType DEF SendResult, TypeQueues
    <2>3. TypeRequests'
      BY <2>1, SendResultRecord
    <2> QED
      BY <2>1, <2>2, <2>3
      DEF SendResult, TypeHandles, TypeManager, TypeStatus, TypeQueues, TypeCancels, TypeLoops
  <1>3. CASE \E c \in Cancels, target \in Goals \cup {"all"} : SendCancel(c, target)
    <2>1. PICK c \in Cancels, target \in Goals \cup {"all"} : SendCancel(c, target)
      BY <1>3
    <2>2. cancelQ' \in Seq(Cancels)
      BY <2>1, PushType DEF SendCancel, TypeQueues
    <2>3. TypeCancels'
      BY <2>1, SendCancelRecord
    <2> QED
      BY <2>1, <2>2, <2>3
      DEF SendCancel, TypeHandles, TypeManager, TypeStatus, TypeQueues, TypeRequests, TypeLoops
  <1>4. CASE \E g \in Goals : accept_reply(g) \/ reject(g)
    BY <1>4 DEF accept_reply, reject, At, Stages, AcceptanceSent, TypeHandles,
                TypeManager, TypeStatus, TypeQueues, TypeRequests, TypeCancels, TypeLoops
  <1>5. CASE \E g \in Goals : accept_insert(g) \/ execute(g)
    <2>1. PICK g \in Goals : accept_insert(g) \/ execute(g)
      BY <1>5
    <2>2. TypeStatus'
      BY <2>1, StartRecord DEF accept_insert, execute, Publishers
    <2>3. TypeHandles'
      BY <2>1 DEF accept_insert, execute, TypeHandles, Stages, AcceptanceSent
    <2>4. TypeManager'
      BY <2>1 DEF accept_insert, execute, Insert, TypeManager, Snapshot, Stored
    <2> QED
      BY <2>1, <2>2, <2>3, <2>4
      DEF accept_insert, execute, TypeQueues, TypeRequests, TypeCancels, TypeLoops
  <1>6. CASE \E g \in Goals : Finish(g)
    <2>1. PICK g \in Goals, status \in Terminal : terminate(g, status)
      BY <1>6 DEF Finish, Terminal
    <2>2. TypeRequests'
      BY <2>1, NotifyRecord DEF terminate
    <2>3. TypeStatus'
      BY <2>1, StartRecord DEF terminate, Publishers
    <2>4. TypeHandles'
      BY <2>1 DEF terminate, TypeHandles, Stages, AcceptanceSent
    <2>5. TypeManager'
      BY <2>1 DEF terminate, Insert, Notify, TypeManager, Snapshot, Stored
    <2> QED
      BY <2>1, <2>2, <2>3, <2>4, <2>5 DEF terminate, TypeQueues, TypeCancels, TypeLoops
  <1>7. CASE \E g \in Goals : TaskEnds(g) \/ TaskAborted(g) \/ DropHandle(g) \/ Elapse(g)
    BY <1>7 DEF TaskEnds, TaskAborted, DropHandle, Elapse, TypeHandles, TypeManager,
                TypeStatus, TypeQueues, TypeRequests, TypeCancels, TypeLoops
  <1>8. CASE \E p \in Publishers : PublishStep(p)
    <2>1. PICK p \in Publishers : PublishStep(p)
      BY <1>8
    <2>2. TypeStatus'
      BY <2>1, PublishRecord
    <2> QED
      BY <2>1, <2>2 DEF PublishStep, TakeSnapshot, PublishSnapshot, TypeHandles,
                        TypeManager, TypeQueues, TypeRequests, TypeCancels, TypeLoops
  <1>9. CASE \E p \in {"driver", "user"} : expire_goals(p)
    <2>1. PICK p \in {"driver", "user"} : expire_goals(p)
      BY <1>9
    <2>2. TypeStatus'
      BY <2>1, StartRecord DEF expire_goals, Publishers
    <2>3. TypeManager'
      BY <2>1 DEF expire_goals, TypeManager, Snapshot, Stored
    <2> QED
      BY <2>1, <2>2, <2>3
      DEF expire_goals, TypeHandles, TypeQueues, TypeRequests, TypeCancels, TypeLoops
  <1>10. CASE recv_goal \/ spawn_goal \/ discard_goal
    <2>1. Head(goalQ) \in Goals /\ Tail(goalQ) \in Seq(Goals)
      BY <1>10, Dequeue DEF recv_goal, spawn_goal, discard_goal, TypeQueues
    <2> QED
      BY <1>10, <2>1 DEF recv_goal, spawn_goal, discard_goal, Stages, TypeHandles, TypeManager, TypeStatus,
                         TypeQueues, TypeRequests, TypeCancels, TypeLoops
  <1>11. CASE handle_cancel_request
    <2>1. Head(cancelQ) \in Cancels /\ Tail(cancelQ) \in Seq(Cancels)
      BY <1>11, Dequeue DEF handle_cancel_request, TypeQueues
    <2>2. TypeCancels' /\ flag' \in [Goals -> BOOLEAN]
      BY <1>11, <2>1, HandleCancelRecord DEF handle_cancel_request
    <2> QED
      BY <1>11, <2>1, <2>2 DEF handle_cancel_request, TypeHandles, TypeManager, TypeStatus,
                               TypeQueues, TypeRequests, TypeLoops
  <1>12. CASE legacy_result_request
    <2>1. Head(resultQ) \in Requests /\ Tail(resultQ) \in Seq(Requests)
      BY <1>12, Dequeue DEF legacy_result_request, TypeQueues
    <2>2. TypeRequests'
      BY <1>12, <2>1, SettleRecord DEF legacy_result_request, RequestStates
    <2> QED
      BY <1>12, <2>1, <2>2 DEF legacy_result_request, TypeHandles, TypeManager, TypeStatus,
                               TypeQueues, TypeCancels, TypeLoops
  <1>13. CASE handle_result_request
    <2>1. Head(resultQ) \in Requests /\ Tail(resultQ) \in Seq(Requests)
      BY <1>13, Dequeue DEF handle_result_request, TypeQueues
    <2>2. TypeRequests'
      BY <1>13, <2>1, SettleRecord DEF handle_result_request, RequestStates
    <2>3. TypeManager' /\ TypeLoops'
      BY <1>13, <2>1 DEF handle_result_request, TypeManager, TypeLoops
    <2> QED
      BY <1>13, <2>1, <2>2, <2>3
      DEF handle_result_request, TypeHandles, TypeStatus, TypeQueues, TypeCancels
  <1>14. CASE result_ready
    <2>1. TypeRequests'
      BY <1>14, ReadyRecord DEF result_ready
    <2> QED
      BY <1>14, <2>1 DEF result_ready, TypeHandles, TypeManager, TypeStatus, TypeQueues,
                         TypeCancels, TypeLoops
  <1>15. CASE driver_break \/ driver_stop \/ legacy_stop \/ with_handler \/ Shutdown
    BY <1>15 DEF driver_break, driver_stop, legacy_stop, with_handler, Shutdown, TypeHandles,
                 TypeManager, TypeStatus, TypeQueues, TypeRequests, TypeCancels, TypeLoops
  <1>17. CASE discard_cancel
    <2>1. Head(cancelQ) \in Cancels /\ Tail(cancelQ) \in Seq(Cancels)
      BY <1>17, Dequeue DEF discard_cancel, TypeQueues
    <2>2. TypeCancels'
      BY <1>17, <2>1, DiscardCancelRecord
    <2> QED
      BY <1>17, <2>1, <2>2 DEF discard_cancel, TypeHandles, TypeManager, TypeStatus,
                               TypeQueues, TypeRequests, TypeLoops
  <1>18. CASE discard_result
    <2>1. Head(resultQ) \in Requests /\ Tail(resultQ) \in Seq(Requests)
      BY <1>18, Dequeue DEF discard_result, TypeQueues
    <2>2. TypeRequests'
      BY <1>18, <2>1, SettleRecord DEF discard_result, RequestStates
    <2> QED
      BY <1>18, <2>1, <2>2 DEF discard_result, TypeHandles, TypeManager, TypeStatus,
                               TypeQueues, TypeCancels, TypeLoops
  <1>16. CASE UNCHANGED vars
    BY <1>16 DEF vars, TypeHandles, TypeManager, TypeStatus, TypeQueues, TypeRequests,
                 TypeCancels, TypeLoops
  <1> QED
    BY <1>1, <1>2, <1>3, <1>4, <1>5, <1>6, <1>7, <1>8, <1>9, <1>10, <1>11, <1>12, <1>13,
       <1>14, <1>15, <1>16, <1>17, <1>18
    DEF Next, ClientStep, HandleStep, DriverStep, LegacyStep, DiscardStep

-----------------------------------------------------------------------------
(* Which actions change what                                               *)

Ends == \E g \in Goals : Finish(g)
HandleChange ==
    \/ \E g \in Goals : \/ SendGoal(g) \/ accept_reply(g) \/ reject(g)
                        \/ accept_insert(g) \/ execute(g)
    \/ Ends \/ recv_goal \/ spawn_goal \/ discard_goal
RecordChange ==
    \/ \E g \in Goals : accept_insert(g) \/ execute(g)
    \/ Ends
    \/ \E p \in {"driver", "user"} : expire_goals(p)
RequestChange ==
    \/ \E r \in Requests, g \in Goals : SendResult(r, g)
    \/ Ends \/ legacy_result_request \/ handle_result_request \/ discard_result
    \/ result_ready
CancelChange ==
    \/ \E c \in Cancels, target \in Goals \cup {"all"} : SendCancel(c, target)
    \/ handle_cancel_request \/ discard_cancel
    \/ \E g \in Goals : execute(g)
ListChange == \E p \in Publishers : PublishStep(p)

\* Every other action leaves the group alone; only a publication changes a
\* status list, however many actions start one.
LEMMA Frames ==
    ASSUME Types, [Next]_vars
    PROVE  /\ HandleChange \/ UNCHANGED <<handle, goalQ>>
           /\ RecordChange \/ UNCHANGED <<goals, expired>>
           /\ RequestChange \/ /\ UNCHANGED <<request, resultQ, result_futures, waitingOn>>
                               /\ driver = "waiting" <=> driver' = "waiting"
           /\ CancelChange \/ UNCHANGED <<cancel, flag>>
           /\ ListChange \/ /\ UNCHANGED published
                            /\ \A q \in Publishers : pending'[q].list = pending[q].list
  <1> USE DEF handleVars, managerVars, statusVars, clientVars, loopVars
  <1>1. CASE \/ \E g \in Goals : SendGoal(g) \/ accept_reply(g) \/ reject(g)
             \/ recv_goal \/ spawn_goal \/ discard_goal
    BY <1>1 DEF SendGoal, accept_reply, reject, recv_goal, spawn_goal, discard_goal,
                HandleChange
  <1>2. CASE \E r \in Requests, g \in Goals : SendResult(r, g)
    BY <1>2 DEF SendResult, RequestChange
  <1>3. CASE \E c \in Cancels, target \in Goals \cup {"all"} : SendCancel(c, target)
    BY <1>3 DEF SendCancel, CancelChange
  <1>4. CASE \E g \in Goals : accept_insert(g) \/ execute(g)
    <2>1. PICK g \in Goals : accept_insert(g) \/ execute(g)
      BY <1>4
    <2>2. UNCHANGED published /\ \A q \in Publishers : pending'[q].list = pending[q].list
      BY <2>1, StartRecord DEF accept_insert, execute, Publishers, Types
    <2> QED
      BY <2>1, <2>2 DEF accept_insert, execute, HandleChange, RecordChange, CancelChange
  <1>5. CASE \E g \in Goals : Finish(g)
    <2>1. PICK g \in Goals, status \in Terminal : terminate(g, status)
      BY <1>5 DEF Finish
    <2>2. UNCHANGED published /\ \A q \in Publishers : pending'[q].list = pending[q].list
      BY <2>1, StartRecord DEF terminate, Publishers, Types
    <2>3. UNCHANGED <<cancel, flag>>
      BY <2>1 DEF terminate
    <2> QED
      BY <1>5, <2>2, <2>3 DEF HandleChange, RecordChange, RequestChange, Ends
  <1>6. CASE \E g \in Goals : TaskEnds(g) \/ TaskAborted(g) \/ DropHandle(g) \/ Elapse(g)
    BY <1>6 DEF TaskEnds, TaskAborted, DropHandle, Elapse
  <1>7. CASE \E p \in Publishers : PublishStep(p)
    BY <1>7 DEF PublishStep, TakeSnapshot, PublishSnapshot, ListChange
  <1>8. CASE \E p \in {"driver", "user"} : expire_goals(p)
    <2>1. PICK p \in {"driver", "user"} : expire_goals(p)
      BY <1>8
    <2>2. UNCHANGED published /\ \A q \in Publishers : pending'[q].list = pending[q].list
      BY <2>1, StartRecord DEF expire_goals, Publishers, Types
    <2> QED
      BY <2>1, <2>2 DEF expire_goals, RecordChange
  <1>9. CASE handle_cancel_request \/ discard_cancel
    BY <1>9 DEF handle_cancel_request, discard_cancel, CancelChange
  <1>10. CASE \/ legacy_result_request \/ handle_result_request \/ discard_result
              \/ result_ready
    BY <1>10 DEF legacy_result_request, handle_result_request, discard_result, result_ready,
                 RequestChange
  <1>11. CASE driver_break \/ driver_stop \/ legacy_stop \/ with_handler \/ Shutdown
    BY <1>11 DEF driver_break, driver_stop, legacy_stop, with_handler, Shutdown, InLoop, Manual
  <1>12. CASE UNCHANGED vars
    BY <1>12 DEF vars
  <1> QED
    BY <1>1, <1>2, <1>3, <1>4, <1>5, <1>6, <1>7, <1>8, <1>9, <1>10, <1>11, <1>12
    DEF Next, ClientStep, HandleStep, DriverStep, LegacyStep, DiscardStep

\* What can happen to a handle: before the acceptance is stored it moves among
\* the early stages, and afterwards only accept, execute and terminate move it.
Early == {"none", "queued", "requested"}
Moved == {"queued", "overflowed", "unread", "requested", "rejected", "replied"}
\* Which steps move a goal's handle, and where.
LEMMA Moves ==
    ASSUME Types, GoalsQueued, [Next]_vars, NEW g \in Goals
    PROVE  \/ handle'[g] = handle[g]
           \/ handle[g] \in Early /\ handle'[g] \in Moved
           \/ accept_insert(g) /\ handle[g] = "replied" /\ handle'[g] = "accepted"
           \/ execute(g) /\ handle[g] = "accepted" /\ handle'[g] = "executing"
           \/ \E status \in Terminal :
                 /\ terminate(g, status)
                 /\ handle[g] = "executing" /\ handle'[g] = status
  <1> USE DEF Early, Moved
  <1>1. HandleChange \/ handle' = handle
    BY Frames
  <1>2. CASE \E h \in Goals : SendGoal(h)
    <2>1. PICK h \in Goals : SendGoal(h)
      BY <1>2
    <2>2. \A x \in Overflow(goalQ) : handle[x] = "queued"
      BY Oldest DEF GoalsQueued, Types, TypeQueues
    <2> QED
      BY <2>1, <2>2 DEF SendGoal
  <1>3. CASE \E h \in Goals : \/ accept_reply(h) \/ reject(h) \/ accept_insert(h) \/ execute(h)
    BY <1>3 DEF accept_reply, reject, accept_insert, execute, At, Types, TypeHandles
  <1>4. CASE Ends
    BY <1>4 DEF Ends, Finish, terminate, At, Types, TypeHandles
  <1>5. CASE recv_goal \/ spawn_goal \/ discard_goal
    <2>1. Head(goalQ) \in Goals /\ handle[Head(goalQ)] = "queued"
      BY <1>5, Dequeue DEF recv_goal, spawn_goal, discard_goal, GoalsQueued, Types, TypeQueues
    <2> QED
      BY <1>5, <2>1 DEF recv_goal, spawn_goal, discard_goal, Types, TypeHandles
  <1> QED
    BY <1>1, <1>2, <1>3, <1>4, <1>5 DEF HandleChange

\* A handle never goes back, and a terminal status is final.
LEMMA Forward ==
    ASSUME Types, GoalsQueued, [Next]_vars, NEW g \in Goals
    PROVE  /\ handle[g] \in Terminal => handle'[g] = handle[g]
           /\ handle[g] \in {"executing"} \cup Terminal =>
                 handle'[g] \in {"executing"} \cup Terminal
           /\ handle[g] \in {"accepted", "executing"} \cup Terminal =>
                 handle'[g] \in {"accepted", "executing"} \cup Terminal
           /\ handle[g] \in AcceptanceSent => handle'[g] \in AcceptanceSent
  BY Moves DEF Early, Terminal, AcceptanceSent

-----------------------------------------------------------------------------
(* A goal: its record, the queue it comes from, the lists that show it     *)

\* The stored state of a goal follows its handle, and a goal that was stored
\* is still stored unless it expired.
LEMMA RecordStep ==
    ASSUME Types, GoalsQueued, RecordMatchesHandle, LeavesByExpiry, [Next]_vars
    PROVE  RecordMatchesHandle' /\ LeavesByExpiry'
  <1>0. \A g \in Goals : \/ handle'[g] = handle[g]
                         \/ handle[g] \in Early /\ handle'[g] \in Moved
                         \/ RecordChange
    BY Moves DEF RecordChange, Ends, Finish
  <1>1. CASE \E g \in Goals : accept_insert(g) \/ execute(g)
    BY <1>1 DEF accept_insert, execute, Insert, Snapshot, RecordMatchesHandle,
                LeavesByExpiry, Types, TypeHandles, TypeManager
  <1>2. CASE Ends
    <2>1. PICK g \in Goals, status \in Terminal : terminate(g, status)
      BY <1>2 DEF Ends, Finish
    <2>2. /\ handle' = [handle EXCEPT ![g] = status] /\ goals' = [goals EXCEPT ![g] = status]
          /\ expired' = expired /\ status # "absent"
      BY <2>1 DEF terminate, Insert, Terminal
    <2> QED
      BY <2>2 DEF Snapshot, RecordMatchesHandle, LeavesByExpiry, Types, TypeHandles, TypeManager
  <1>3. CASE \E p \in {"driver", "user"} : expire_goals(p)
    BY <1>3 DEF expire_goals, handleVars, Snapshot, RecordMatchesHandle, LeavesByExpiry,
                Types, TypeManager
  <1>4. CASE ~RecordChange
    <2>1. UNCHANGED <<goals, expired>>
      BY <1>4, Frames
    <2>2. SUFFICES ASSUME NEW g \in Goals
                   PROVE  /\ goals[g] # "absent" => goals[g] = handle'[g]
                          /\ handle'[g] \in AcceptanceSent \ {"replied"} /\ goals[g] = "absent"
                                => g \in expired
      BY <2>1 DEF RecordMatchesHandle, LeavesByExpiry
    <2>3. handle'[g] = handle[g] \/ (handle[g] \in Early /\ handle'[g] \in Moved)
      BY <1>0, <1>4
    <2>4. goals[g] \in Stored
      BY DEF Snapshot, Types, TypeManager
    <2> QED
      BY <2>3, <2>4 DEF Early, Moved, Stored, AcceptanceSent, Terminal, RecordMatchesHandle,
                        LeavesByExpiry
  <1> QED
    BY <1>1, <1>2, <1>3, <1>4 DEF RecordChange

\* A goal enters the queue once and leaves it when its handle moves.
LEMMA GoalsQueuedStep ==
    ASSUME Types, GoalsQueued, [Next]_vars
    PROVE  GoalsQueued'
  <1>0. /\ goalQ \in Seq(Goals) /\ handle \in [Goals -> Stages] /\ Len(goalQ) \in Nat
        /\ \A i \in 1..Len(goalQ) : goalQ[i] \in Goals
    BY DEF Types, TypeQueues, TypeHandles
  <1>1. CASE \E g \in Goals : SendGoal(g)
    <2>1. PICK g \in Goals : SendGoal(g)
      BY <1>1
    <2>2. \A i \in 1..Len(goalQ) : goalQ[i] # g
      BY <1>0, <2>1 DEF SendGoal, GoalsQueued
    <2>3. goalQ' = PushBounded(goalQ, g)
      BY <2>1 DEF SendGoal
    <2>4. /\ Distinct(goalQ') /\ g \notin Overflow(goalQ)
          /\ \A i \in 1..Len(goalQ') :
                \/ goalQ'[i] = g
                \/ /\ goalQ'[i] \notin Overflow(goalQ)
                   /\ \E j \in 1..Len(goalQ) : goalQ'[i] = goalQ[j]
      BY <1>0, <2>2, <2>3, PushElements DEF GoalsQueued
    <2>5. /\ handle'[g] = "queued"
          /\ \A h \in Goals : h # g /\ h \notin Overflow(goalQ) => handle'[h] = handle[h]
      BY <2>1, <2>4 DEF SendGoal
    <2>6. \A i \in 1..Len(goalQ') : handle'[goalQ'[i]] = "queued"
      BY <1>0, <2>4, <2>5 DEF GoalsQueued
    <2> QED
      BY <2>4, <2>6 DEF GoalsQueued
  <1>2. CASE \E g \in Goals : \/ accept_reply(g) \/ reject(g) \/ accept_insert(g) \/ execute(g)
    BY <1>0, <1>2 DEF accept_reply, reject, accept_insert, execute, At, GoalsQueued, clientVars
  <1>3. CASE Ends
    BY <1>0, <1>3 DEF Ends, Finish, terminate, At, GoalsQueued
  <1>4. CASE recv_goal \/ spawn_goal \/ discard_goal
    <2>1. /\ goalQ # <<>> /\ goalQ' = Tail(goalQ)
          /\ \E stage \in Stages : handle' = [handle EXCEPT ![Head(goalQ)] = stage]
      BY <1>4 DEF recv_goal, spawn_goal, discard_goal, Stages
    <2>2. /\ Head(goalQ) \in Goals /\ Distinct(goalQ')
          /\ \A i \in 1..Len(goalQ') : /\ goalQ'[i] # Head(goalQ)
                                       /\ \E j \in 1..Len(goalQ) : goalQ'[i] = goalQ[j]
      BY <1>0, <2>1, PopElements DEF GoalsQueued
    <2>3. \A i \in 1..Len(goalQ') : handle'[goalQ'[i]] = "queued"
      BY <1>0, <2>1, <2>2 DEF GoalsQueued
    <2> QED
      BY <2>2, <2>3 DEF GoalsQueued
  <1>5. CASE ~HandleChange
    BY <1>5, Frames DEF GoalsQueued
  <1> QED
    BY <1>1, <1>2, <1>3, <1>4, <1>5 DEF HandleChange

\* What a list shows of a goal stays true as the goal moves on, and a new
\* snapshot shows the records, which match the handles.
LEMMA ListsStep ==
    ASSUME Types, GoalsQueued, RecordMatchesHandle, ListsReached, [Next]_vars
    PROVE  ListsReached'
  <1>1. \A g \in Goals : \A status : Shown(g, status) => Shown(g, status)'
    BY Forward DEF Shown
  <1>2. \A g \in Goals : Shown(g, goals[g]) /\ Shown(g, EmptyList[g])
    BY DEF Shown, RecordMatchesHandle, EmptyList, Terminal
  <1>3. CASE ListChange
    <2>1. PICK p \in Publishers : PublishStep(p)
      BY <1>3 DEF ListChange
    <2>2. /\ \A q \in Publishers : pending'[q].list \in {pending[q].list, goals, EmptyList}
          /\ published' \in {published, pending[p].list}
      BY <2>1, PublishRecord DEF Types
    <2> QED
      BY <1>1, <1>2, <2>2 DEF ListsReached
  <1>4. CASE ~ListChange
    <2>1. UNCHANGED published /\ \A q \in Publishers : pending'[q].list = pending[q].list
      BY <1>4, Frames
    <2> QED
      BY <1>1, <2>1 DEF ListsReached
  <1> QED
    BY <1>3, <1>4

-----------------------------------------------------------------------------
(* A request: in the queue, registered, settled                            *)

\* An acknowledged cancellation stays visible: execute, which clears the flag,
\* comes before any acknowledgement.
LEMMA CancelsStep ==
    ASSUME Types, GoalsQueued, RecordMatchesHandle, CancelsSeen, [Next]_vars
    PROVE  CancelsSeen'
  <1>1. \A g \in Goals : handle[g] \in {"executing"} \cup Terminal =>
                         handle'[g] \in {"executing"} \cup Terminal
    BY Forward
  <1>2. CASE \E c \in Cancels, target \in Goals \cup {"all"} : SendCancel(c, target)
    <2>1. PICK c \in Cancels, target \in Goals \cup {"all"} : SendCancel(c, target)
      BY <1>2
    <2>2. \A d \in Cancels : \/ cancel'[d] = cancel[d]
                             \/ cancel'[d].state \in {"queued", "overflowed"}
      BY <2>1, SendCancelRecord DEF Types
    <2>3. flag' = flag
      BY <2>1 DEF SendCancel, handleVars
    <2> QED
      BY <1>1, <2>2, <2>3 DEF CancelsSeen
  <1>3. CASE handle_cancel_request
    <2>1. PICK c \in Cancels : c = Head(cancelQ)
      BY <1>3, Dequeue DEF handle_cancel_request, Types, TypeQueues
    <2>2. PICK g : g = cancel[c].goal
      OBVIOUS
    <2>3. HandleCancel(c, g) /\ handle' = handle
      BY <1>3, <2>1, <2>2 DEF handle_cancel_request
    <2>4. /\ cancel'[c].goal = g
          /\ \A d \in Cancels \ {c} : cancel'[d] = cancel[d]
          /\ \/ /\ g \in Goals /\ goals[g] = "executing"
                /\ flag' = [flag EXCEPT ![g] = TRUE] /\ cancel'[c].state = "canceling"
             \/ flag' = flag /\ cancel'[c].state = "refused"
      BY <2>2, <2>3, HandleCancelRecord DEF Types
    <2>5. \A h \in Goals : flag[h] => flag'[h]
      BY <2>4 DEF Types, TypeHandles
    <2>6. \A d \in Cancels \ {c} : cancel'[d].state = "canceling" =>
             /\ cancel'[d].goal \in Goals /\ flag'[cancel'[d].goal]
             /\ handle'[cancel'[d].goal] \in {"executing"} \cup Terminal
      BY <1>1, <2>4, <2>5 DEF CancelsSeen
    <2>7. cancel'[c].state = "canceling" =>
             /\ cancel'[c].goal \in Goals /\ flag'[cancel'[c].goal]
             /\ handle'[cancel'[c].goal] \in {"executing"} \cup Terminal
      BY <2>3, <2>4 DEF RecordMatchesHandle, Types, TypeHandles
    <2> QED
      BY <2>6, <2>7 DEF CancelsSeen
  <1>4. CASE \E g \in Goals : execute(g)
    <2>1. PICK g \in Goals : execute(g)
      BY <1>4
    <2>2. /\ handle[g] = "accepted" /\ cancel' = cancel
          /\ \A h \in Goals \ {g} : flag'[h] = flag[h]
      BY <2>1 DEF execute, At, clientVars, Types, TypeHandles
    <2>3. \A c \in Cancels : cancel[c].state = "canceling" => cancel[c].goal # g
      BY <2>2 DEF CancelsSeen, Terminal
    <2> QED
      BY <1>1, <2>2, <2>3 DEF CancelsSeen
  <1>5. CASE discard_cancel
    <2>1. \A d \in Cancels : cancel'[d] = cancel[d] \/ cancel'[d].state = "unread"
      BY <1>5, Dequeue, DiscardCancelRecord DEF discard_cancel, Types, TypeQueues
    <2>2. flag' = flag
      BY <1>5 DEF discard_cancel, handleVars
    <2> QED
      BY <1>1, <2>1, <2>2 DEF CancelsSeen
  <1>6. CASE ~CancelChange
    <2>1. UNCHANGED <<cancel, flag>>
      BY <1>6, Frames
    <2> QED
      BY <1>1, <2>1 DEF CancelsSeen
  <1> QED
    BY <1>2, <1>3, <1>4, <1>5, <1>6 DEF CancelChange

\* The request at the head of the queue, and what its treatment does to it.
LEMMA HeadRequest ==
    ASSUME Types, ResultsQueued, ResultsAddressed,
           legacy_result_request \/ handle_result_request \/ discard_result
    PROVE  \E r \in Requests, g \in Goals, status \in Terminal \cup {"none"} :
              /\ r = Head(resultQ) /\ g = request[r].goal /\ request[r].state = "queued"
              /\ handle[g] \in AcceptanceSent
              /\ \E state \in {"replied", "silent", "ignored", "waiting", "unread"} :
                    /\ Settle(r, state, status)
                    /\ state = "replied" => status = goals[g] /\ goals[g] \in Terminal
                    /\ state = "waiting" =>
                          /\ goals[g] \in {"accepted", "executing"}
                          /\ result_futures' = [result_futures EXCEPT ![g] = @ \cup {r}]
                          /\ driver' = "waiting" /\ waitingOn' = r
                    /\ state = "ignored" => goals[g] = "absent"
                    /\ state # "waiting" => UNCHANGED <<result_futures, driver, waitingOn>>
  <1>1. resultQ # <<>> /\ resultQ \in Seq(Requests)
    BY DEF legacy_result_request, handle_result_request, discard_result, Types, TypeQueues
  <1>2. PICK r \in Requests : r = Head(resultQ) /\ \E j \in 1..Len(resultQ) : r = resultQ[j]
    BY <1>1, PopElements DEF ResultsQueued
  <1>3. request[r].state = "queued"
    BY <1>2 DEF ResultsQueued
  <1>4. PICK g \in Goals : g = request[r].goal /\ handle[g] \in AcceptanceSent
    BY <1>3 DEF ResultsAddressed
  <1>5. CASE legacy_result_request
    <2>1. CASE goals[g] \in Terminal
      BY <1>2, <1>3, <1>4, <1>5, <2>1 DEF legacy_result_request, managerVars, loopVars
    <2>2. CASE goals[g] \notin Terminal
      BY <1>2, <1>3, <1>4, <1>5, <2>2 DEF legacy_result_request, managerVars, loopVars
    <2> QED
      BY <2>1, <2>2
  <1>6. CASE handle_result_request
    BY <1>2, <1>3, <1>4, <1>6 DEF handle_result_request
  <1>7. CASE discard_result
    BY <1>2, <1>3, <1>4, <1>7 DEF discard_result, managerVars, loopVars
  <1> QED
    BY <1>5, <1>6, <1>7

RequestInv ==
    ResultsQueued /\ ResultsAddressed /\ Registered /\ DriverWaits /\ RepliesFinal

\* A new result request goes behind the others.
LEMMA SendResultStep ==
    ASSUME Types, RequestInv, NEW r \in Requests, NEW g \in Goals, SendResult(r, g)
    PROVE  RequestInv'
  <1>1. /\ resultQ \in Seq(Requests)
        /\ \A i \in 1..Len(resultQ) : resultQ[i] \in Requests
    BY DEF Types, TypeQueues
  <1>2. /\ request[r].state = "unsent" /\ handle[g] \in AcceptanceSent
        /\ resultQ' = PushBounded(resultQ, r)
        /\ UNCHANGED <<handle, result_futures, driver, waitingOn>>
    BY DEF SendResult, handleVars, managerVars, loopVars
  <1>3. \A i \in 1..Len(resultQ) : resultQ[i] # r
    BY <1>2 DEF RequestInv, ResultsQueued
  <1>4. /\ Distinct(resultQ') /\ r \notin Overflow(resultQ)
        /\ \A i \in 1..Len(resultQ') :
              \/ resultQ'[i] = r
              \/ /\ resultQ'[i] \notin Overflow(resultQ)
                 /\ \E j \in 1..Len(resultQ) : resultQ'[i] = resultQ[j]
    BY <1>1, <1>2, <1>3, PushElements DEF RequestInv, ResultsQueued
  <1>5. request'[r].state = "queued" /\ request'[r].goal = g
    BY <1>4, SendResultRecord DEF Types
  <1>6. \A s \in Overflow(resultQ) : /\ s \in Requests /\ request[s].state = "queued"
                                     /\ request'[s].state = "overflowed"
                                     /\ request'[s].goal = request[s].goal
    <2>1. SUFFICES ASSUME NEW s \in Overflow(resultQ)
                   PROVE  /\ s \in Requests /\ request[s].state = "queued"
                          /\ request'[s].state = "overflowed"
                          /\ request'[s].goal = request[s].goal
      OBVIOUS
    <2>2. Len(resultQ) \in Nat /\ Len(resultQ) > 0 /\ s = resultQ[1] /\ s \in Requests
      BY <1>1, Oldest
    <2>3. request[s].state = "queued" /\ s # r
      BY <1>4, <2>2 DEF RequestInv, ResultsQueued
    <2> QED
      BY <2>2, <2>3, SendResultRecord DEF Types
  <1>7. \A s \in Requests : s # r /\ s \notin Overflow(resultQ) => request'[s] = request[s]
    BY SendResultRecord DEF Types
  <1>8. ResultsQueued'
    <2>1. \A i \in 1..Len(resultQ') : request'[resultQ'[i]].state = "queued"
      BY <1>1, <1>4, <1>5, <1>7 DEF RequestInv, ResultsQueued
    <2> QED
      BY <1>4, <2>1 DEF ResultsQueued
  <1>9. ResultsAddressed'
    BY <1>2, <1>5, <1>6, <1>7 DEF RequestInv, ResultsAddressed
  <1>10. \A s \in Requests : request[s].state \in {"waiting", "ready", "replied"} =>
                             request'[s] = request[s]
    BY <1>2, <1>6, <1>7
  <1>11. Registered'
    BY <1>2, <1>10 DEF RequestInv, Registered, Types, TypeManager
  <1>12. DriverWaits'
    BY <1>2, <1>10 DEF RequestInv, DriverWaits
  <1>13. \A s \in Requests : request'[s].state = "replied" => request'[s] = request[s]
    BY <1>5, <1>6, <1>7
  <1>14. RepliesFinal'
    BY <1>2, <1>13 DEF RequestInv, RepliesFinal
  <1> QED
    BY <1>8, <1>9, <1>11, <1>12, <1>14 DEF RequestInv

\* terminate hands its status to the request the driver waits on, if that was
\* registered with this goal, and to no other.
LEMMA TerminateStep ==
    ASSUME Types, RequestInv, NEW g \in Goals, NEW status \in Terminal, terminate(g, status)
    PROVE  RequestInv'
  <1>1. /\ handle[g] = "executing" /\ handle' = [handle EXCEPT ![g] = status]
        /\ result_futures' = [result_futures EXCEPT ![g] = {}]
        /\ UNCHANGED <<resultQ, driver, waitingOn>>
    BY DEF terminate, At, Notify, loopVars
  <1>2. /\ \A r \in Requests : request'[r].goal = request[r].goal
        /\ \A r \in Requests : IF r \in result_futures[g]
              THEN request'[r].state = "ready" /\ request'[r].status = status
              ELSE request'[r] = request[r]
    BY NotifyRecord DEF terminate, Types
  <1>3. /\ handle \in [Goals -> Stages] /\ result_futures \in [Goals -> SUBSET Requests]
        /\ resultQ \in Seq(Requests)
        /\ \A i \in 1..Len(resultQ) : resultQ[i] \in Requests
    BY DEF Types, TypeHandles, TypeManager, TypeQueues
  <1>4. \A r \in result_futures[g] :
            r = waitingOn /\ request[r].state = "waiting" /\ request[r].goal = g
    BY DEF RequestInv, Registered
  <1>5. \A h \in Goals : \/ handle'[h] = handle[h] /\ h # g
                         \/ h = g /\ handle[h] = "executing" /\ handle'[h] = status
    BY <1>1, <1>3
  <1>6. ResultsQueued'
    BY <1>1, <1>2, <1>3, <1>4 DEF RequestInv, ResultsQueued
  <1>7. ResultsAddressed'
    BY <1>2, <1>4, <1>5 DEF RequestInv, ResultsAddressed, AcceptanceSent
  <1>8. Registered'
    <2>1. SUFFICES ASSUME NEW h \in Goals, NEW r \in result_futures'[h]
                   PROVE  r = waitingOn /\ request'[r].state = "waiting" /\ request'[r].goal = h
      BY <1>1 DEF Registered
    <2>2. h # g /\ r \in result_futures[h] /\ r \in Requests
      BY <1>1, <1>3
    <2>3. r \notin result_futures[g]
      BY <1>4, <2>2 DEF RequestInv, Registered
    <2> QED
      BY <1>2, <2>2, <2>3 DEF RequestInv, Registered
  <1>9. DriverWaits'
    <2>1. CASE driver # "waiting"
      BY <1>1, <2>1 DEF RequestInv, DriverWaits
    <2>2. CASE driver = "waiting"
      <3>1. PICK r \in Requests, h \in Goals : r = waitingOn /\ h = request[r].goal
        BY <2>2 DEF RequestInv, DriverWaits
      <3>2. \/ request[r].state = "waiting" /\ r \in result_futures[h] /\ handle[h] \notin Terminal
            \/ /\ request[r].state = "ready" /\ request[r].status \in Terminal
               /\ request[r].status = handle[h]
        BY <2>2, <3>1 DEF RequestInv, DriverWaits
      <3>3. CASE r \in result_futures[g]
        <4>1. h = g /\ request'[r].state = "ready" /\ request'[r].status = status
          BY <1>2, <1>4, <3>1, <3>3
        <4> QED
          BY <1>1, <1>2, <1>5, <2>2, <3>1, <4>1, ZenonT(40) DEF DriverWaits
      <3>4. CASE r \notin result_futures[g]
        <4>1. request'[r] = request[r]
          BY <1>2, <3>4
        <4>2. CASE h = g
          <5>1. FALSE
            BY <1>1, <3>2, <3>4, <4>2 DEF Terminal
          <5> QED
            BY <5>1
        <4>3. CASE h # g
          <5>1. handle'[h] = handle[h] /\ result_futures'[h] = result_futures[h]
            BY <1>1, <1>3, <4>3
          <5> QED
            BY <1>1, <2>2, <3>1, <3>2, <4>1, <5>1 DEF DriverWaits
        <4> QED
          BY <4>2, <4>3
      <3> QED
        BY <3>3, <3>4
    <2> QED
      BY <2>1, <2>2
  <1>10. RepliesFinal'
    <2>1. SUFFICES ASSUME NEW r \in Requests, request'[r].state = "replied"
                   PROVE  /\ request'[r].status \in Terminal
                          /\ request'[r].status = handle'[request'[r].goal]
      BY DEF RepliesFinal
    <2>2. request'[r] = request[r]
      BY <1>2, <2>1
    <2>3. /\ request[r].status \in Terminal /\ request[r].status = handle[request[r].goal]
          /\ request[r].goal \in Goals
      BY <2>1, <2>2 DEF RequestInv, RepliesFinal, ResultsAddressed
    <2>4. handle'[request[r].goal] = handle[request[r].goal]
      BY <1>1, <1>5, <2>3 DEF Terminal
    <2> QED
      BY <2>2, <2>3, <2>4
  <1> QED
    BY <1>6, <1>7, <1>8, <1>9, <1>10 DEF RequestInv

\* The request taken from the queue is settled, or it is the one the driver
\* now waits on; while the driver waits it treats no other request, and what
\* the result-only task settles is not registered.
LEMMA TreatStep ==
    ASSUME Types, RequestInv, RecordMatchesHandle,
           legacy_result_request \/ handle_result_request \/ discard_result
    PROVE  RequestInv'
  <1>1. PICK r \in Requests, g \in Goals, status \in Terminal \cup {"none"} :
              /\ r = Head(resultQ) /\ g = request[r].goal /\ request[r].state = "queued"
              /\ handle[g] \in AcceptanceSent
              /\ \E state \in {"replied", "silent", "ignored", "waiting", "unread"} :
                    /\ Settle(r, state, status)
                    /\ state = "replied" => status = goals[g] /\ goals[g] \in Terminal
                    /\ state = "waiting" =>
                          /\ goals[g] \in {"accepted", "executing"}
                          /\ result_futures' = [result_futures EXCEPT ![g] = @ \cup {r}]
                          /\ driver' = "waiting" /\ waitingOn' = r
                    /\ state = "ignored" => goals[g] = "absent"
                    /\ state # "waiting" => UNCHANGED <<result_futures, driver, waitingOn>>
    BY HeadRequest DEF RequestInv
  <1>2. PICK state \in {"replied", "silent", "ignored", "waiting", "unread"} :
                    /\ Settle(r, state, status)
                    /\ state = "replied" => status = goals[g] /\ goals[g] \in Terminal
                    /\ state = "waiting" =>
                          /\ goals[g] \in {"accepted", "executing"}
                          /\ result_futures' = [result_futures EXCEPT ![g] = @ \cup {r}]
                          /\ driver' = "waiting" /\ waitingOn' = r
                    /\ state # "waiting" => UNCHANGED <<result_futures, driver, waitingOn>>
    BY <1>1
  <1>3. /\ resultQ \in Seq(Requests) /\ resultQ # <<>> /\ resultQ' = Tail(resultQ)
        /\ \A i \in 1..Len(resultQ) : resultQ[i] \in Requests
        /\ handle' = handle
        /\ result_futures \in [Goals -> SUBSET Requests]
    BY DEF legacy_result_request, handle_result_request, discard_result, handleVars, Types,
           TypeQueues, TypeManager
  <1>4. /\ request'[r].state = state /\ request'[r].status = status
        /\ request'[r].goal = g
        /\ \A s \in Requests \ {r} : request'[s] = request[s]
    BY <1>1, <1>2, SettleRecord DEF Types, RequestStates
  <1>5. ResultsQueued'
    <2>1. /\ Distinct(resultQ')
          /\ \A i \in 1..Len(resultQ') : /\ resultQ'[i] # r
                                         /\ \E j \in 1..Len(resultQ) : resultQ'[i] = resultQ[j]
      BY <1>1, <1>3, PopElements DEF RequestInv, ResultsQueued
    <2>2. \A i \in 1..Len(resultQ') : request'[resultQ'[i]].state = "queued"
      BY <1>3, <1>4, <2>1 DEF RequestInv, ResultsQueued
    <2> QED
      BY <2>1, <2>2 DEF ResultsQueued
  <1>6. ResultsAddressed'
    BY <1>1, <1>3, <1>4 DEF RequestInv, ResultsAddressed
  <1>7. RepliesFinal'
    <2>1. state = "replied" => status \in Terminal /\ status = handle[g]
      BY <1>2 DEF RecordMatchesHandle, Terminal
    <2> QED
      BY <1>3, <1>4, <2>1 DEF RequestInv, RepliesFinal
  <1>8. \A h \in Goals : \A q \in result_futures[h] :
            q \in Requests \ {r} /\ q = waitingOn /\ request[q].state = "waiting"
    BY <1>1, <1>3 DEF RequestInv, Registered
  <1>9. Registered' /\ DriverWaits'
    <2>1. CASE state # "waiting"
      <3>1. UNCHANGED <<result_futures, driver, waitingOn>>
        BY <1>2, <2>1
      <3>2. Registered'
        BY <1>4, <1>8, <3>1 DEF RequestInv, Registered
      <3>3. driver = "waiting" => waitingOn \in Requests \ {r}
        BY <1>1 DEF RequestInv, DriverWaits
      <3>4. DriverWaits'
        BY <1>3, <1>4, <3>1, <3>3 DEF RequestInv, DriverWaits
      <3> QED
        BY <3>2, <3>4
    <2>2. CASE state = "waiting"
      <3>1. driver # "waiting" /\ waitingOn = "none"
        <4>1. handle_result_request
          BY <1>1, <1>3, <1>4, <2>2 DEF legacy_result_request, discard_result, Settle, Types,
                                        TypeRequests, RequestRecord
        <4> QED
          BY <4>1 DEF handle_result_request, InLoop, RequestInv, DriverWaits
      <3>2. \A h \in Goals : result_futures[h] = {}
        BY <1>8, <3>1
      <3>3. /\ result_futures' = [result_futures EXCEPT ![g] = @ \cup {r}]
            /\ driver' = "waiting" /\ waitingOn' = r
            /\ goals[g] \in {"accepted", "executing"}
        BY <1>2, <2>2
      <3>4. \A h \in Goals : result_futures'[h] = IF h = g THEN {r} ELSE {}
        BY <1>3, <3>2, <3>3
      <3>5. Registered'
        BY <1>4, <2>2, <3>3, <3>4 DEF Registered
      <3>6. handle'[g] \notin Terminal
        BY <1>3, <3>3 DEF RecordMatchesHandle, Terminal
      <3>7. DriverWaits'
        BY <1>4, <2>2, <3>3, <3>4, <3>6 DEF DriverWaits
      <3> QED
        BY <3>5, <3>7
    <2> QED
      BY <2>1, <2>2
  <1> QED
    BY <1>5, <1>6, <1>7, <1>9 DEF RequestInv

\* The reply the driver sends is the answer it waited for.
LEMMA ReadyStep ==
    ASSUME Types, RequestInv, result_ready
    PROVE  RequestInv'
  <1>1. /\ driver = "waiting" /\ request[waitingOn].state = "ready"
        /\ driver' = "loop" /\ waitingOn' = "none"
        /\ UNCHANGED <<resultQ, handle, result_futures>>
    BY DEF result_ready, handleVars, managerVars
  <1>2. PICK r \in Requests : r = waitingOn
    BY <1>1 DEF RequestInv, DriverWaits
  <1>3. /\ request'[r].state = "replied" /\ request'[r].goal = request[r].goal
        /\ request'[r].status = request[r].status
        /\ \A s \in Requests \ {r} : request'[s] = request[s]
    BY <1>2, ReadyRecord DEF Types
  <1>4. ResultsQueued'
    <2>1. \A i \in 1..Len(resultQ) : resultQ[i] \in Requests
      BY DEF Types, TypeQueues
    <2> QED
      BY <1>1, <1>2, <1>3, <2>1 DEF RequestInv, ResultsQueued
  <1>5. ResultsAddressed'
    BY <1>1, <1>2, <1>3 DEF RequestInv, ResultsAddressed
  <1>6. \A g \in Goals : result_futures[g] = {}
    BY <1>1, <1>2 DEF RequestInv, Registered
  <1>7. Registered' /\ DriverWaits'
    BY <1>1, <1>6 DEF Registered, DriverWaits
  <1>8. RepliesFinal'
    BY <1>1, <1>2, <1>3 DEF RequestInv, DriverWaits, RepliesFinal
  <1> QED
    BY <1>4, <1>5, <1>7, <1>8 DEF RequestInv

\* Together: requests are followed correctly through every step.
LEMMA RequestStep ==
    ASSUME Types, GoalsQueued, RecordMatchesHandle, RequestInv, [Next]_vars
    PROVE  RequestInv'
  <1>1. CASE RequestChange
    BY <1>1, SendResultStep, TerminateStep, TreatStep, ReadyStep DEF RequestChange, Ends, Finish
  <1>2. CASE ~RequestChange
    <2>1. /\ UNCHANGED <<request, resultQ, result_futures, waitingOn>>
          /\ driver = "waiting" <=> driver' = "waiting"
      BY <1>2, Frames
    <2>2. \A g \in Goals : /\ handle[g] \in AcceptanceSent => handle'[g] \in AcceptanceSent
                           /\ handle[g] \in Terminal => handle'[g] = handle[g]
      BY Forward
    <2>3. \A g \in Goals : handle[g] \notin Terminal => handle'[g] \notin Terminal
      BY <1>2, Moves DEF RequestChange, Ends, Finish, Early, Moved, Terminal
    <2>4. ResultsQueued' /\ Registered'
      BY <2>1 DEF RequestInv, ResultsQueued, Registered
    <2>5. ResultsAddressed' /\ RepliesFinal'
      BY <2>1, <2>2 DEF RequestInv, ResultsAddressed, RepliesFinal
    <2>6. DriverWaits'
      BY <2>1, <2>2, <2>3 DEF RequestInv, DriverWaits
    <2> QED
      BY <2>4, <2>5, <2>6 DEF RequestInv
  <1> QED
    BY <1>1, <1>2

-----------------------------------------------------------------------------
(* The invariant and what follows from it                                  *)

\* IInv holds initially: nothing is queued, registered, stored or shown.
LEMMA InitIInv == Init => IInv
  <1> SUFFICES ASSUME Init
               PROVE  IInv
    OBVIOUS
  <1>0. TypeHandles /\ TypeLoops
    BY DEF Init, TypeHandles, TypeLoops, Stages
  <1>1. TypeManager
    BY DEF Init, TypeManager, Snapshot, Stored
  <1>2. TypeQueues
    BY DEF Init, TypeQueues
  <1>3. EmptyList \in Snapshot
    BY DEF EmptyList, Snapshot, Stored
  <1>4. TypeStatus
    BY <1>3 DEF Init, TypeStatus, Snapshot
  <1>5. TypeRequests /\ TypeCancels
    BY DEF Init, TypeRequests, TypeCancels, RequestRecord, RequestStates, CancelRecord
  <1>6. TypeOK
    BY <1>0, <1>1, <1>2, <1>4, <1>5, TypeParts DEF Types
  <1>7. RecordMatchesHandle /\ LeavesByExpiry
    BY DEF Init, RecordMatchesHandle, LeavesByExpiry, AcceptanceSent, Terminal
  <1>8. GoalsQueued /\ ResultsQueued
    BY DEF Init, GoalsQueued, ResultsQueued, Distinct
  <1>9. ResultsAddressed /\ CancelsSeen /\ RepliesFinal
    BY DEF Init, ResultsAddressed, CancelsSeen, RepliesFinal
  <1>10. ListsReached
    BY DEF Init, ListsReached, Shown, EmptyList, Terminal
  <1>11. Registered /\ DriverWaits
    BY DEF Init, Registered, DriverWaits
  <1> QED
    BY <1>6, <1>7, <1>8, <1>9, <1>10, <1>11 DEF IInv

\* Every step keeps IInv.
LEMMA NextIInv == IInv /\ [Next]_vars => IInv'
  <1> SUFFICES ASSUME IInv, [Next]_vars
               PROVE  IInv'
    OBVIOUS
  <1>1. Types /\ RequestInv
    BY TypeParts DEF IInv, RequestInv
  <1>2. driver = "waiting" => waitingOn \in Requests
    BY DEF IInv, DriverWaits
  <1>3. TypeOK'
    BY <1>1, <1>2, NextType, TypeParts
  <1>4. RecordMatchesHandle' /\ LeavesByExpiry'
    BY <1>1, RecordStep DEF IInv
  <1>5. GoalsQueued'
    BY <1>1, GoalsQueuedStep DEF IInv
  <1>6. CancelsSeen'
    BY <1>1, CancelsStep DEF IInv
  <1>7. ListsReached'
    BY <1>1, ListsStep DEF IInv
  <1>8. RequestInv'
    BY <1>1, RequestStep DEF IInv
  <1> QED
    BY <1>3, <1>4, <1>5, <1>6, <1>7, <1>8 DEF IInv, RequestInv

\* The invariant behind the results on the action server: it holds in every
\* reachable state.
THEOREM ServerInvariant == Spec => []IInv
  BY InitIInv, NextIInv, PTL DEF Spec

\* For any number of goals, requests and publishers: the stored record, the
\* handle, the cancel flag and the published list tell the same story of a
\* goal, although records expire under running handlers and snapshots are
\* published outside the manager's lock (server.rs, driver.rs).
THEOREM RecordFaithfulCorrect == Spec => []RecordFaithful
  <1>1. IInv => RecordFaithful
    BY DEF IInv, RecordFaithful, AckedCancelSeen, CancelsSeen, PublishedWasReached,
           ListsReached, Shown
  <1> QED
    BY <1>1, ServerInvariant, PTL

\* The driver never blocks on a request nobody will answer: it is registered
\* with a goal that has not terminated, or its answer is there.
THEOREM NoOrphanedWaiterCorrect == Spec => []NoOrphanedWaiter
  <1>1. ASSUME IInv PROVE NoOrphanedWaiter
    <2>1. \A g \in Goals : result_futures[g] \subseteq {waitingOn} \ {"none"}
      <3>1. \A g \in Goals : result_futures[g] \subseteq Requests
        BY <1>1 DEF IInv, TypeOK
      <3> QED
        BY <1>1, <3>1 DEF IInv, Registered
    <2> QED
      BY <1>1, <2>1 DEF IInv, DriverWaits, NoOrphanedWaiter
  <1> QED
    BY <1>1, ServerInvariant, PTL

\* A request is ignored only by handle_result_request finding no record, and a
\* goal whose acceptance was sent has a record unless it has expired or is just
\* being accepted.
LEMMA SilenceStep ==
    ASSUME IInv, [Next]_vars, NEW r \in Requests,
           request[r].state # "ignored", request'[r].state = "ignored"
    PROVE  request[r].goal \in expired \/ handle[request[r].goal] = "replied"
  <1>1. Types /\ RequestInv
    BY TypeParts DEF IInv, RequestInv
  <1>2. RequestChange
    BY <1>1, Frames
  <1>3. CASE \E s \in Requests, g \in Goals : SendResult(s, g)
    <2>1. PICK s \in Requests, g \in Goals : SendResult(s, g)
      BY <1>3
    <2>2. s \notin Overflow(resultQ)
      <3>1. \A x \in Overflow(resultQ) : request[x].state = "queued"
        BY <1>1, Oldest DEF RequestInv, ResultsQueued, Types, TypeQueues
      <3> QED
        BY <2>1, <3>1 DEF SendResult
    <2> QED
      BY <1>1, <2>1, <2>2, SendResultRecord DEF Types
  <1>4. CASE Ends
    <2>1. PICK g \in Goals, status \in Terminal : terminate(g, status)
      BY <1>4 DEF Ends, Finish
    <2> QED
      BY <1>1, <2>1, NotifyRecord DEF terminate, Types
  <1>5. CASE result_ready
    <2>1. waitingOn \in Requests
      BY <1>5 DEF IInv, DriverWaits, result_ready
    <2> QED
      BY <1>1, <1>5, <2>1, ReadyRecord DEF Types
  <1>6. CASE legacy_result_request \/ handle_result_request \/ discard_result
    <2>1. PICK s \in Requests, g \in Goals, status \in Terminal \cup {"none"},
               state \in {"replied", "silent", "ignored", "waiting", "unread"} :
              /\ g = request[s].goal /\ handle[g] \in AcceptanceSent
              /\ Settle(s, state, status)
              /\ state = "ignored" => goals[g] = "absent"
      BY <1>1, <1>6, HeadRequest DEF RequestInv
    <2>2. s = r /\ state = "ignored"
      BY <1>1, <2>1, SettleRecord DEF Types, RequestStates
    <2> QED
      BY <2>1, <2>2 DEF IInv, LeavesByExpiry
  <1> QED
    BY <1>2, <1>3, <1>4, <1>5, <1>6 DEF RequestChange

\* The driver stays silent on a result request only if the goal has expired, or
\* between the acceptance and the insertion that follows it in accept.
THEOREM SilenceExplainedCorrect == Spec => SilenceExplained
  <1> DEFINE Explained ==
        \A r \in Requests :
          request[r].state # "ignored" /\ request'[r].state = "ignored"
             => LET g == request[r].goal
                IN  g \in expired \/ handle[g] = "replied"
  <1>1. ASSUME IInv, [Next]_vars PROVE [Explained]_vars
    BY <1>1, SilenceStep
  <1>2. Spec => [][Explained]_vars
    BY <1>1, ServerInvariant, PTL DEF Spec
  <1> QED
    BY <1>2 DEF SilenceExplained

-----------------------------------------------------------------------------
(* The server implements the goal state machine                            *)

Reported(g) ==
    {request[r].status : r \in {s \in Requests :
        request[s].state = "replied" /\ request[s].goal = g}}
\* The replies of a goal carry its terminal status, so they are known from
\* whether there is one.
HasReply(g) == \E r \in Requests : request[r].state = "replied" /\ request[r].goal = g
\* What waiters were told of a goal is its final handle, or nothing yet.
LEMMA ReportedIs ==
    ASSUME RepliesFinal, NEW g \in Goals
    PROVE  Reported(g) = IF HasReply(g) THEN {handle[g]} ELSE {}
  BY DEF RepliesFinal, Reported, HasReply

\* The same request replies as before.
SameReplies ==
    \A s \in Requests :
        /\ request'[s].state = "replied" <=> request[s].state = "replied"
        /\ request'[s].state = "replied" =>
              request'[s].goal = request[s].goal /\ request'[s].status = request[s].status
\* One request more replies, with the terminal status of its goal.
NewReply(r, g) ==
    /\ g = request[r].goal /\ g = request'[r].goal /\ request'[r].state = "replied"
    /\ handle[g] \in Terminal
    /\ \A s \in Requests \ {r} : request'[s] = request[s]
    /\ UNCHANGED <<handle, flag>>

\* A step sends no reply or one.
LEMMA ReplyStep ==
    ASSUME IInv, [Next]_vars
    PROVE  SameReplies \/ \E r \in Requests, g \in Goals : NewReply(r, g)
  <1>1. Types /\ RequestInv
    BY TypeParts DEF IInv, RequestInv
  <1>2. CASE ~RequestChange
    BY <1>1, <1>2, Frames DEF SameReplies
  <1>3. CASE \E s \in Requests, g \in Goals : SendResult(s, g)
    <2>1. PICK s \in Requests, g \in Goals : SendResult(s, g)
      BY <1>3
    <2>2. \A x \in Overflow(resultQ) : request[x].state = "queued"
      BY <1>1, Oldest DEF RequestInv, ResultsQueued, Types, TypeQueues
    <2>3. request[s].state = "unsent" /\ s \notin Overflow(resultQ)
      BY <2>1, <2>2 DEF SendResult
    <2> QED
      BY <1>1, <2>1, <2>2, <2>3, SendResultRecord DEF Types, SameReplies
  <1>4. CASE Ends
    <2>1. PICK g \in Goals, status \in Terminal : terminate(g, status)
      BY <1>4 DEF Ends, Finish
    <2>2. \A r \in result_futures[g] : request[r].state = "waiting"
      BY DEF IInv, Registered
    <2> QED
      BY <1>1, <2>1, <2>2, NotifyRecord DEF terminate, Types, SameReplies
  <1>5. CASE result_ready
    <2>1. /\ waitingOn \in Requests /\ request[waitingOn].goal \in Goals
          /\ handle[request[waitingOn].goal] \in Terminal
      BY <1>5 DEF IInv, DriverWaits, result_ready
    <2>2. NewReply(waitingOn, request[waitingOn].goal)
      BY <1>1, <1>5, <2>1, ReadyRecord DEF Types, NewReply, result_ready, handleVars
    <2> QED
      BY <2>1, <2>2
  <1>6. CASE legacy_result_request \/ handle_result_request \/ discard_result
    <2>1. PICK r \in Requests, g \in Goals, status \in Terminal \cup {"none"},
               state \in {"replied", "silent", "ignored", "waiting", "unread"} :
              /\ g = request[r].goal /\ request[r].state = "queued"
              /\ Settle(r, state, status)
              /\ state = "replied" => status = goals[g] /\ goals[g] \in Terminal
      BY <1>1, <1>6, HeadRequest DEF RequestInv
    <2>2. /\ request'[r].state = state /\ request'[r].goal = g
          /\ \A s \in Requests \ {r} : request'[s] = request[s]
      BY <1>1, <2>1, SettleRecord DEF Types, RequestStates
    <2>3. CASE state = "replied"
      <3>1. handle[g] \in Terminal
        BY <2>1, <2>3 DEF IInv, RecordMatchesHandle, Terminal
      <3>2. UNCHANGED <<handle, flag>>
        BY <1>6 DEF legacy_result_request, handle_result_request, discard_result, handleVars
      <3> QED
        BY <2>1, <2>2, <2>3, <3>1, <3>2 DEF NewReply
    <2>4. CASE state # "replied"
      BY <2>1, <2>2, <2>4 DEF SameReplies
    <2> QED
      BY <2>3, <2>4
  <1> QED
    BY <1>2, <1>3, <1>4, <1>5, <1>6 DEF RequestChange

\* A step takes at most one goal along one edge of the state machine.
Edge(g) ==
    \/ HandleStatus(g) = "unknown" /\ HandleStatus(g)' = "accepted"
    \/ HandleStatus(g) = "accepted" /\ HandleStatus(g)' = "executing"
    \/ HandleStatus(g) = "executing" /\ HandleStatus(g)' = "canceling"
    \/ /\ HandleStatus(g) \in {"executing", "canceling"}
       /\ HandleStatus(g)' \in {"succeeded", "aborted"}
    \/ HandleStatus(g) \in {"executing", "canceling"} /\ HandleStatus(g)' = "canceled"
SameStatus(g) == HandleStatus(g)' = HandleStatus(g)

\* A step changes the status of one goal at most, along an edge of the protocol.
LEMMA StatusStep ==
    ASSUME IInv, [Next]_vars
    PROVE  \/ \A g \in Goals : SameStatus(g)
           \/ \E g \in Goals : Edge(g) /\ \A h \in Goals \ {g} : SameStatus(h)
  <1>1. /\ Types /\ GoalsQueued
        /\ handle \in [Goals -> Stages] /\ flag \in [Goals -> BOOLEAN]
    BY TypeParts DEF IInv, Types, TypeHandles
  <1>2. CASE \E g \in Goals : accept_insert(g) \/ execute(g)
    <2>1. PICK g \in Goals : accept_insert(g) \/ execute(g)
      BY <1>2
    <2>2. \A h \in Goals \ {g} : handle'[h] = handle[h] /\ flag'[h] = flag[h]
      BY <1>1, <2>1 DEF accept_insert, execute
    <2>3. \A h \in Goals \ {g} : SameStatus(h)
      BY <2>2 DEF SameStatus, HandleStatus
    <2>4. Edge(g)
      BY <1>1, <2>1 DEF Edge, HandleStatus, accept_insert, execute, At, Terminal
    <2> QED
      BY <2>3, <2>4
  <1>3. CASE Ends
    <2>1. PICK g \in Goals, status \in Terminal : terminate(g, status)
      BY <1>3 DEF Ends, Finish
    <2>2. /\ handle[g] = "executing" /\ handle' = [handle EXCEPT ![g] = status]
          /\ flag' = flag
      BY <2>1 DEF terminate, At
    <2>3. \A h \in Goals \ {g} : SameStatus(h)
      BY <1>1, <2>2 DEF SameStatus, HandleStatus
    <2>4. /\ HandleStatus(g) = IF flag[g] THEN "canceling" ELSE "executing"
          /\ HandleStatus(g)' = status
      BY <1>1, <2>2 DEF HandleStatus, Terminal
    <2>5. Edge(g)
      BY <2>1, <2>4 DEF Edge, Terminal
    <2> QED
      BY <2>3, <2>5
  <1>4. CASE handle_cancel_request
    <2>1. PICK c \in Cancels : c = Head(cancelQ)
      BY <1>1, <1>4, Dequeue DEF handle_cancel_request, Types, TypeQueues
    <2>2. PICK g : g = cancel[c].goal
      OBVIOUS
    <2>3. HandleCancel(c, g) /\ handle' = handle
      BY <1>4, <2>1, <2>2 DEF handle_cancel_request
    <2>4. CASE g \in Goals /\ goals[g] = "executing"
      <3>1. handle[g] = "executing" /\ flag' = [flag EXCEPT ![g] = TRUE]
        BY <2>3, <2>4 DEF HandleCancel, IInv, RecordMatchesHandle
      <3>2. \A h \in Goals \ {g} : SameStatus(h)
        BY <1>1, <2>3, <2>4, <3>1 DEF SameStatus, HandleStatus
      <3>3. SameStatus(g) \/ Edge(g)
        BY <1>1, <2>3, <2>4, <3>1 DEF SameStatus, Edge, HandleStatus
      <3> QED
        BY <2>4, <3>2, <3>3
    <2>5. CASE ~(g \in Goals /\ goals[g] = "executing")
      <3>1. flag' = flag
        BY <2>3, <2>5 DEF HandleCancel
      <3> QED
        BY <2>3, <3>1 DEF SameStatus, HandleStatus
    <2> QED
      BY <2>4, <2>5
  <1>5. CASE /\ ~(\E g \in Goals : accept_insert(g) \/ execute(g))
             /\ ~Ends /\ ~handle_cancel_request
    <2>1. \A g \in Goals : \/ handle'[g] = handle[g]
                           \/ handle[g] \in Early /\ handle'[g] \in Moved
      BY <1>1, <1>5, Moves DEF Ends, Finish
    <2>2. flag' = flag
      <3>1. CASE CancelChange
        BY <1>5, <3>1 DEF CancelChange, SendCancel, discard_cancel, handleVars
      <3> QED
        BY <1>1, <3>1, Frames
    <2> QED
      BY <2>1, <2>2 DEF SameStatus, HandleStatus, Early, Moved, Terminal
  <1> QED
    BY <1>2, <1>3, <1>4, <1>5

\* Every step of the server is a step of the state machine or leaves what it
\* sees unchanged.
LEMMA LifecycleStep ==
    ASSUME IInv, [Next]_vars, RepliesFinal'
    PROVE  [Lifecycle!Next]_(Lifecycle!vars)
  <1> DEFINE S == [g \in Goals |-> HandleStatus(g)]
             R == [g \in Goals |-> Reported(g)]
  <1>1. /\ Lifecycle!vars = <<S, R>>
        /\ Lifecycle!vars' = <<S', R'>>
    BY DEF Lifecycle!vars, Reported
  <1>2. CASE \E r \in Requests, g \in Goals : NewReply(r, g)
    <2>1. PICK r \in Requests, g \in Goals : NewReply(r, g)
      BY <1>2
    <2>2. S' = S
      BY <2>1 DEF NewReply, HandleStatus
    <2>3. S[g] \in Lifecycle!Terminal /\ S[g] = handle[g]
      BY <2>1 DEF NewReply, HandleStatus, Terminal, Lifecycle!Terminal
    <2>4. Reported(g)' = {handle[g]}
      BY <2>1 DEF NewReply, Reported, RepliesFinal
    <2>5. \A h \in Goals \ {g} : Reported(h)' = Reported(h)
      BY <2>1 DEF NewReply, Reported
    <2>6. R' = [R EXCEPT ![g] = {S[g]}]
      BY <2>3, <2>4, <2>5
    <2>7. Lifecycle!Report(g)
      BY <2>2, <2>3, <2>6 DEF Lifecycle!Report, Reported
    <2> QED
      BY <2>7 DEF Lifecycle!Next
  <1>3. CASE SameReplies
    <2>1. \A g \in Goals : Reported(g)' = Reported(g)
      BY <1>3 DEF SameReplies, Reported
    <2>2. R' = R
      BY <2>1
    <2>3. CASE \A g \in Goals : SameStatus(g)
      <3>1. S' = S
        BY <2>3 DEF SameStatus
      <3> QED
        BY <1>1, <2>2, <3>1
    <2>4. CASE \E g \in Goals : Edge(g) /\ \A h \in Goals \ {g} : SameStatus(h)
      <3>1. PICK g \in Goals : Edge(g) /\ \A h \in Goals \ {g} : SameStatus(h)
        BY <2>4
      <3>2. S' = [S EXCEPT ![g] = HandleStatus(g)']
        BY <3>1 DEF SameStatus
      <3>3. CASE HandleStatus(g) = "unknown"
        <4>1. HandleStatus(g)' = "accepted"
          BY <3>1, <3>3 DEF Edge
        <4>2. Lifecycle!Accept(g)
          BY <2>2, <3>2, <3>3, <4>1 DEF Lifecycle!Accept, Reported
        <4> QED
          BY <4>2 DEF Lifecycle!Next
      <3>4. CASE HandleStatus(g) = "executing" /\ HandleStatus(g)' = "canceled"
        <4>1. Lifecycle!CanceledUnasked(g)
          BY <2>2, <3>2, <3>4 DEF Lifecycle!CanceledUnasked, Reported
        <4> QED
          BY <4>1 DEF Lifecycle!Next
      <3>5. CASE /\ HandleStatus(g) # "unknown"
                 /\ ~(HandleStatus(g) = "executing" /\ HandleStatus(g)' = "canceled")
        <4>1. PICK event \in Lifecycle!GoalEvent :
                 /\ Lifecycle!transition_goal_state(S[g], event) = HandleStatus(g)'
                 /\ HandleStatus(g)' # "unknown"
          BY <3>1, <3>5 DEF Edge, Lifecycle!GoalEvent, Lifecycle!transition_goal_state
        <4>2. Lifecycle!Event(g)
          BY <2>2, <3>2, <4>1 DEF Lifecycle!Event, Reported
        <4> QED
          BY <4>2 DEF Lifecycle!Next
      <3> QED
        BY <3>3, <3>4, <3>5
    <2> QED
      BY <2>3, <2>4, StatusStep
  <1> QED
    BY <1>2, <1>3, ReplyStep

\* The action server implements GoalLifecycle: its goals follow the table of
\* transition_goal_state (action/mod.rs), but for handlers that report canceled
\* unasked (server.rs:919), no goal ends twice or before it executes, and a
\* result reply carries the terminal status of its goal.
THEOREM LifecycleImplemented == Spec => ImplementsLifecycle
  <1>1. Init => Lifecycle!Init
    BY DEF Init, Lifecycle!Init, HandleStatus, Terminal
  <1>2. IInv /\ IInv' /\ [Next]_vars => [Lifecycle!Next]_(Lifecycle!vars)
    BY LifecycleStep DEF IInv
  <1>3. Spec => Lifecycle!Spec
    BY <1>1, <1>2, ServerInvariant, PTL DEF Spec, Lifecycle!Spec
  <1> QED
    BY <1>3 DEF ImplementsLifecycle

=============================================================================
