------------------------- MODULE ActionClientProofs -------------------------
(***************************************************************************)
(* What the action client guarantees for any number of goals and any depth *)
(* of the reply channels.  A request is in one place: open, in the channel *)
(* or taken (OnePlace), and a task sends on a service once (Unsent); so a  *)
(* reply is taken once.  On a service where no two calls overlapped and    *)
(* none was given up, whatever is open or in the channel belongs to the    *)
(* one call that waits (Alone); so that call takes its own reply.          *)
(***************************************************************************)
EXTENDS ActionClient, TLAPS

USE ClientAssumption

Values == {"accepted", "rejected", "bad", "done"}
Reply == [goal : Goals, value : Values]
Calls == Services \cup {"new", "inserted", "active", "watching",
                        "fetching", "ended", "failed", "dropped"}

\* A channel holds a reply to the goal's request; it holds no two to the same.
Holds(q, g) == \E i \in 1..Len(q) : q[i].goal = g
DistinctGoals(q) == \A i, j \in 1..Len(q) : q[i].goal = q[j].goal => i = j
Taken(s, g) == \E h \in Goals : took[s][h] = g

\* The task of g may still send on the service.
MaySend(s, g) ==
    \/ s = "goal" /\ call[g] \in {"new", "inserted"}
    \/ s = "cancel" /\ call[g] # "cancel" /\ took["cancel"][g] = "none"
    \/ s = "result" /\ call[g] \in {"new", "inserted", "goal", "active", "cancel",
                                    "watching", "fetching"}

\* A goal that may still send on a service has no request there yet.
Unsent ==
    \A s \in Services, g \in Goals : MaySend(s, g) =>
        g \notin asked[s] /\ ~Holds(rx[s], g) /\ ~Taken(s, g)

\* A request is open, or its reply is in the channel once, or it was taken.
OnePlace ==
    \A s \in Services :
        /\ \A g \in asked[s] : ~Holds(rx[s], g) /\ ~Taken(s, g)
        /\ DistinctGoals(rx[s])
        /\ \A g \in Goals : Holds(rx[s], g) => ~Taken(s, g)

\* Where calls never overlapped, one call waits and everything is for it.
Alone ==
    \A s \in Services \ mixed :
        /\ \A g, h \in Goals : call[g] = s /\ call[h] = s => g = h
        /\ \A g \in Goals : g \in asked[s] \/ Holds(rx[s], g) => call[g] = s

Wire == Unsent /\ OnePlace /\ Alone /\ OwnReply /\ ReplyTakenOnce

\* The types, with that of the reply channels.
Channels == rx \in [Services -> Seq(Reply)] /\ \A s \in Services : Len(rx[s]) <= Depth
TypeWire ==
    /\ call \in [Goals -> Calls] /\ asked \in [Services -> SUBSET Goals] /\ Channels
    /\ took \in [Services -> [Goals -> Goals \cup {"none", "lost"}]] /\ mixed \subseteq Services
TypeBoard ==
    /\ board \subseteq Goals /\ status \in [Goals -> Statuses \cup {"unknown"}]
    /\ seen \in [Goals -> BOOLEAN] /\ watched \subseteq Goals
TypeServer == server \in [Goals -> Statuses] /\ lists \subseteq [Goals -> Statuses]
Types == TypeWire /\ TypeBoard /\ TypeServer

IInv == Types /\ Wire /\ BoardTracksGoals

-----------------------------------------------------------------------------
(* Channels                                                                *)

\* Taking the first reply.
LEMMA TailHolds ==
    ASSUME NEW q \in Seq(Reply), q # <<>>, DistinctGoals(q)
    PROVE  /\ Head(q) \in Reply /\ Holds(q, Head(q).goal)
           /\ Tail(q) \in Seq(Reply) /\ Len(Tail(q)) <= Len(q)
           /\ DistinctGoals(Tail(q))
           /\ \A g : Holds(Tail(q), g) => Holds(q, g) /\ g # Head(q).goal
  <1>1. /\ Head(q) = q[1] /\ Tail(q) \in Seq(Reply) /\ Len(q) \in Nat /\ Len(q) > 0
        /\ Len(Tail(q)) = Len(q) - 1 /\ Head(q) \in Reply
        /\ \A i \in 1..Len(Tail(q)) : Tail(q)[i] = q[i + 1]
    OBVIOUS
  <1>2. PICK t \in Seq(Reply) : t = Tail(q)
    BY <1>1
  <1>3. 1 \in 1..Len(q)
    BY <1>1
  <1>4. \A i \in 1..Len(t) :
            i + 1 \in 1..Len(q) /\ t[i] = q[i + 1] /\ q[i + 1].goal # q[1].goal
    BY <1>1, <1>2, <1>3 DEF DistinctGoals
  <1>5. DistinctGoals(t)
    BY <1>1, <1>4 DEF DistinctGoals
  <1>6. \A g : Holds(t, g) => Holds(q, g) /\ g # q[1].goal
    BY <1>4 DEF Holds
  <1> QED
    BY <1>1, <1>2, <1>3, <1>5, <1>6 DEF Holds

\* Adding a reply.
LEMMA AppendHolds ==
    ASSUME NEW q \in Seq(Reply), NEW m \in Reply, DistinctGoals(q), ~Holds(q, m.goal)
    PROVE  /\ Append(q, m) \in Seq(Reply) /\ Len(Append(q, m)) = Len(q) + 1
           /\ DistinctGoals(Append(q, m))
           /\ \A g : Holds(Append(q, m), g) => Holds(q, g) \/ g = m.goal
  <1>0. Append(q, m) \in Seq(Reply)
    OBVIOUS
  <1>1. PICK t \in Seq(Reply) : t = Append(q, m)
    BY <1>0
  <1>2. Len(q) \in Nat /\ Len(t) = Len(q) + 1
    BY <1>1
  <1>3. \A i \in 1..Len(t) : \/ i \in 1..Len(q) /\ t[i] = q[i]
                             \/ i = Len(q) + 1 /\ t[i] = m
    BY <1>1, <1>2
  <1>4. DistinctGoals(t)
    BY <1>3 DEF DistinctGoals, Holds
  <1>5. \A g : Holds(t, g) => Holds(q, g) \/ g = m.goal
    BY <1>3 DEF Holds
  <1> QED
    BY <1>1, <1>2, <1>4, <1>5

-----------------------------------------------------------------------------
(* Which step does what to the wire                                        *)

\* A call that neither sends nor takes moves on; it is not at an await of a
\* client before or after, and it gains no right to send.
Local ==
    /\ UNCHANGED wireVars
    /\ call' \in [Goals -> Calls]
    /\ \A g \in Goals : \A s \in Services :
          (call'[g] = s <=> call[g] = s) /\ (MaySend(s, g)' => MaySend(s, g))

\* The kinds of steps, as the clients of the services see them.
LEMMA Kinds ==
    ASSUME Types, [Next]_vars
    PROVE  \/ \E s \in Services, g \in Goals :
                 send_request(s, g) /\ call[g] \in {"inserted", "active", "fetching"} /\ MaySend(s, g)
           \/ \E s \in Services, g \in Goals, v \in Values : Answer(s, g, v)
           \/ \E s \in Services, g \in Goals : NoAnswer(s, g)
           \/ \E s \in Services, g \in Goals, next \in {"active", "ended", "failed"} :
                 recv_async(s, g, next) /\ (s = "result" => next = "ended")
           \/ \E g \in Goals : Abandon(g)
           \/ Local
  <1> USE DEF Types, TypeWire, Services
  <1>1. CASE \E g \in Goals : SendGoal(g) \/ cancel_goal(g) \/ get_result(g)
    BY <1>1 DEF SendGoal, cancel_goal, get_result, MaySend
  <1>2. CASE \E g \in Goals : ServerGoal(g) \/ ServerReply(g)
    BY <1>2 DEF ServerGoal, ServerReply, Values
  <1>3. CASE \E g \in Goals : \E s \in Services : NoAnswer(s, g)
    BY <1>3
  <1>4. CASE \E g \in Goals : \/ GoalReplyBad(g) \/ GoalRejected(g) \/ GoalAccepted(g)
                              \/ Cancelled(g) \/ ResultTaken(g)
    BY <1>4 DEF GoalReplyBad, GoalRejected, GoalAccepted, Cancelled, ResultTaken
  <1>5. CASE \E g \in Goals : Abandon(g)
    BY <1>5
  <1>6. CASE \E g \in Goals : \/ InsertGoal(g) \/ SendGoalFails(g) \/ GetResultFails(g)
    BY <1>6 DEF InsertGoal, SendGoalFails, GetResultFails, Local, Calls, MaySend, wireVars
  <1>7. CASE \E g \in Goals : result(g) \/ borrow_and_update(g)
    BY <1>7 DEF result, borrow_and_update, Local, Calls, MaySend, wireVars
  <1>8. CASE UNCHANGED <<call, wireVars>>
    BY <1>8 DEF Local, wireVars, MaySend
  <1>9. CASE \/ \E g \in Goals : status_watch(g) \/ ServerAdvance(g)
             \/ \E list \in lists : StatusCallback(list)
             \/ ServerTakesList \/ UNCHANGED vars
    BY <1>8, <1>9 DEF status_watch, ServerAdvance, StatusCallback, ServerTakesList, vars
  <1> QED
    BY <1>1, <1>2, <1>3, <1>4, <1>5, <1>6, <1>7, <1>9 DEF Next, Task

-----------------------------------------------------------------------------
(* Each kind of step                                                       *)

\* A request is sent.
LEMMA SendStep ==
    ASSUME TypeWire, Wire, NEW s \in Services, NEW g \in Goals, send_request(s, g),
           call[g] \in {"inserted", "active", "fetching"}, MaySend(s, g)
    PROVE  TypeWire' /\ Wire'
  <1>1. /\ call' = [call EXCEPT ![g] = s]
        /\ asked' = [asked EXCEPT ![s] = @ \cup {g}]
        /\ mixed' = IF Waiting(s) = {} /\ asked[s] = {} THEN mixed ELSE mixed \cup {s}
        /\ rx' = rx /\ took' = took
    BY DEF send_request
  <1>2. TypeWire'
    BY <1>1 DEF TypeWire, Calls, Channels
  <1>3. \A t \in Services : asked'[t] = IF t = s THEN asked[t] \cup {g} ELSE asked[t]
    BY <1>1 DEF TypeWire
  <1>4. \A h \in Goals : call'[h] = IF h = g THEN s ELSE call[h]
    BY <1>1 DEF TypeWire
  <1>5. \A t \in Services, h \in Goals :
            MaySend(t, h)' => MaySend(t, h) /\ ~(t = s /\ h = g)
    BY <1>1, <1>4 DEF MaySend, Services
  <1>6. Unsent'
    BY <1>1, <1>3, <1>5 DEF Wire, Unsent, Taken
  <1>7. OnePlace'
    BY <1>1, <1>3 DEF Wire, Unsent, OnePlace, Taken
  <1>8. Alone'
    <2>1. SUFFICES ASSUME NEW t \in Services \ mixed'
                   PROVE  /\ \A k, h \in Goals : call'[k] = t /\ call'[h] = t => k = h
                          /\ \A k \in Goals : k \in asked'[t] \/ Holds(rx[t], k) => call'[k] = t
      BY <1>1 DEF Alone
    <2>2. t \notin mixed
      BY <1>1
    <2>3. CASE t # s
      BY <1>3, <1>4, <2>2, <2>3 DEF Wire, Alone, Services
    <2>4. CASE t = s
      <3>1. Waiting(s) = {} /\ asked[s] = {}
        BY <1>1, <2>4
      <3>2. \A k \in Goals : call[k] # s /\ ~Holds(rx[s], k)
        BY <2>2, <2>4, <3>1 DEF Wire, Alone, Waiting
      <3> QED
        BY <1>3, <1>4, <2>4, <3>1, <3>2
    <2> QED
      BY <2>3, <2>4
  <1>9. OwnReply' /\ ReplyTakenOnce'
    BY <1>1 DEF Wire, OwnReply, ReplyTakenOnce
  <1> QED
    BY <1>2, <1>6, <1>7, <1>8, <1>9 DEF Wire

\* A query ends, with a reply or without; the reply may find the channel full.
LEMMA AnswerStep ==
    ASSUME TypeWire, Wire, NEW s \in Services, NEW g \in Goals,
           (\E v \in Values : Answer(s, g, v)) \/ NoAnswer(s, g)
    PROVE  TypeWire' /\ Wire'
  <1>1. /\ g \in asked[s] /\ asked' = [asked EXCEPT ![s] = @ \ {g}]
        /\ UNCHANGED <<call, took, mixed>>
    BY DEF Answer, NoAnswer
  <1>2. /\ rx \in [Services -> Seq(Reply)] /\ \A t \in Services : Len(rx[t]) <= Depth
        /\ asked \in [Services -> SUBSET Goals]
        /\ DistinctGoals(rx[s]) /\ ~Holds(rx[s], g)
    BY <1>1 DEF TypeWire, Channels, Wire, OnePlace
  <1>3. \/ rx' = rx
        \/ \E v \in Values : /\ Len(rx[s]) < Depth
                             /\ rx' = [rx EXCEPT ![s] = Append(@, [goal |-> g, value |-> v])]
    BY DEF Answer, NoAnswer
  <1>4. /\ Channels'
        /\ DistinctGoals(rx'[s])
        /\ \A h \in Goals : Holds(rx'[s], h) => Holds(rx[s], h) \/ h = g
        /\ \A t \in Services \ {s} : rx'[t] = rx[t]
    <2>1. CASE rx' = rx
      BY <1>2, <2>1 DEF Channels
    <2>2. CASE rx' # rx
      <3>1. PICK v \in Values : /\ Len(rx[s]) < Depth
                                /\ rx' = [rx EXCEPT ![s] = Append(@, [goal |-> g, value |-> v])]
        BY <1>3, <2>2
      <3>2. PICK m : m = [goal |-> g, value |-> v]
        OBVIOUS
      <3>2a. m \in Reply /\ m.goal = g
        BY <3>2 DEF Reply
      <3>3. PICK q \in Seq(Reply) : q = rx[s] /\ Len(q) \in Nat
        BY <1>2
      <3>4. /\ Append(q, m) \in Seq(Reply) /\ Len(Append(q, m)) = Len(q) + 1
            /\ DistinctGoals(Append(q, m))
            /\ \A h : Holds(Append(q, m), h) => Holds(q, h) \/ h = g
        BY <1>2, <3>2a, <3>3, AppendHolds
      <3>5. rx' = [rx EXCEPT ![s] = Append(q, m)]
        BY <3>1, <3>2, <3>3
      <3>6. rx'[s] = Append(q, m) /\ \A t \in Services \ {s} : rx'[t] = rx[t]
        BY <1>2, <3>5
      <3>7. Len(rx'[s]) <= Depth
        BY <3>1, <3>3, <3>4, <3>6
      <3>8. Channels'
        BY <1>2, <3>4, <3>5, <3>6, <3>7 DEF Channels
      <3> QED
        BY <3>3, <3>4, <3>6, <3>8
    <2> QED
      BY <2>1, <2>2
  <1>5. \A t \in Services : asked'[t] = IF t = s THEN asked[t] \ {g} ELSE asked[t]
    BY <1>1, <1>2
  <1>6. TypeWire'
    BY <1>1, <1>2, <1>4, <1>5 DEF TypeWire
  <1>7. \A t \in Services, h \in Goals :
            /\ (h \in asked'[t] \/ Holds(rx'[t], h)) => (h \in asked[t] \/ Holds(rx[t], h))
            /\ h \in asked'[t] => h \in asked[t] /\ ~(t = s /\ h = g)
            /\ Holds(rx'[t], h) => Holds(rx[t], h) \/ (t = s /\ h = g)
    BY <1>1, <1>4, <1>5
  <1>8. Unsent'
    BY <1>1, <1>7 DEF Wire, Unsent, MaySend, Taken
  <1>9. OnePlace'
    <2>1. \A t \in Services : DistinctGoals(rx'[t])
      BY <1>4 DEF Wire, OnePlace
    <2>2. ~Taken(s, g)
      BY <1>1 DEF Wire, OnePlace
    <2> QED
      BY <1>1, <1>2, <1>5, <1>7, <2>1, <2>2 DEF Wire, OnePlace, Taken
  <1>10. Alone'
    BY <1>1, <1>7 DEF Wire, Alone
  <1>11. OwnReply' /\ ReplyTakenOnce'
    BY <1>1 DEF Wire, OwnReply, ReplyTakenOnce
  <1> QED
    BY <1>6, <1>8, <1>9, <1>10, <1>11 DEF Wire

\* A call takes the first reply of its channel.
LEMMA TakeStep ==
    ASSUME TypeWire, Wire, NEW s \in Services, NEW g \in Goals,
           NEW next \in {"active", "ended", "failed"}, recv_async(s, g, next),
           s = "result" => next = "ended"
    PROVE  TypeWire' /\ Wire'
  <1>1. /\ call[g] = s /\ rx[s] # <<>>
        /\ rx' = [rx EXCEPT ![s] = Tail(@)]
        /\ took' = [took EXCEPT ![s][g] = Head(rx[s]).goal]
        /\ call' = [call EXCEPT ![g] = next]
        /\ asked' = asked /\ mixed' = mixed
    BY DEF recv_async
  <1>2. /\ rx \in [Services -> Seq(Reply)] /\ \A t \in Services : Len(rx[t]) <= Depth
        /\ asked \in [Services -> SUBSET Goals] /\ mixed \subseteq Services
        /\ took \in [Services -> [Goals -> Goals \cup {"none", "lost"}]]
        /\ call \in [Goals -> Calls]
    BY DEF TypeWire, Channels
  <1>3. PICK q \in Seq(Reply) : q = rx[s] /\ Len(q) \in Nat
    BY <1>2
  <1>4. /\ Head(q) \in Reply /\ Holds(q, Head(q).goal)
        /\ Tail(q) \in Seq(Reply) /\ Len(Tail(q)) <= Len(q)
        /\ DistinctGoals(Tail(q))
        /\ \A h : Holds(Tail(q), h) => Holds(q, h) /\ h # Head(q).goal
    BY <1>1, <1>3, TailHolds DEF Wire, OnePlace
  <1>5. PICK k \in Goals : k = Head(q).goal
    BY <1>4 DEF Reply
  <1>6. rx'[s] = Tail(q) /\ \A t \in Services \ {s} : rx'[t] = rx[t]
    BY <1>1, <1>2, <1>3
  <1>7. Channels'
    <2>0. Len(Tail(q)) \in Nat /\ Len(Tail(q)) <= Depth
      <3>1. Len(q) <= Depth /\ Len(Tail(q)) \in Nat
        BY <1>2, <1>3, <1>4
      <3> QED
        BY <1>3, <1>4, <3>1
    <2>1. \A t \in Services : rx'[t] \in Seq(Reply) /\ Len(rx'[t]) <= Depth
      BY <1>2, <1>4, <1>6, <2>0
    <2>2. rx' = [t \in Services |-> rx'[t]]
      BY <1>1, <1>2
    <2> QED
      BY <2>1, <2>2 DEF Channels
  <1>8. /\ took'[s][g] = k
        /\ \A t \in Services, h \in Goals : ~(t = s /\ h = g) => took'[t][h] = took[t][h]
        /\ took' \in [Services -> [Goals -> Goals \cup {"none", "lost"}]]
    BY <1>1, <1>2, <1>3, <1>5
  <1>9. call'[g] = next /\ \A h \in Goals \ {g} : call'[h] = call[h]
    BY <1>1, <1>2
  <1>10. TypeWire'
    BY <1>1, <1>2, <1>7, <1>8 DEF TypeWire, Calls
  <1>11. /\ k \notin asked[s] /\ ~Taken(s, k) /\ Holds(rx[s], k)
         /\ ~Holds(rx'[s], k)
         /\ \A t \in Services, h \in Goals : Holds(rx'[t], h) => Holds(rx[t], h)
    BY <1>3, <1>4, <1>5, <1>6 DEF Wire, OnePlace
  <1>12. \A t \in Services, h \in Goals :
             Taken(t, h)' => Taken(t, h) \/ (t = s /\ h = k)
    BY <1>8 DEF Taken
  <1>13. \A t \in Services, h \in Goals : MaySend(t, h)' => MaySend(t, h)
    <2>1. s = "cancel" => took'["cancel"][g] # "none"
      BY <1>8
    <2>2. \A h \in Goals : took'["cancel"][h] = "none" => took["cancel"][h] = "none"
      BY <1>8 DEF Services
    <2> QED
      BY <1>1, <1>9, <2>1, <2>2 DEF MaySend, Services
  <1>14. ~MaySend(s, k)
    BY <1>11 DEF Wire, Unsent
  <1>15. Unsent'
    BY <1>1, <1>11, <1>12, <1>13, <1>14 DEF Wire, Unsent
  <1>16. OnePlace'
    <2>1. \A t \in Services : DistinctGoals(rx'[t])
      BY <1>4, <1>6 DEF Wire, OnePlace
    <2> QED
      BY <1>1, <1>2, <1>11, <1>12, <2>1 DEF Wire, OnePlace
  <1>17. s \notin mixed => k = g /\ \A h \in Goals : h \notin asked[s] /\ ~Holds(rx'[s], h)
    BY <1>1, <1>2, <1>11 DEF Wire, Alone
  <1>18. Alone'
    <2>1. SUFFICES ASSUME NEW t \in Services \ mixed
                   PROVE  /\ \A j, h \in Goals : call'[j] = t /\ call'[h] = t => j = h
                          /\ \A h \in Goals : h \in asked[t] \/ Holds(rx'[t], h) => call'[h] = t
      BY <1>1 DEF Alone
    <2>2. next \notin Services
      BY DEF Services
    <2>3. \A j, h \in Goals : call'[j] = t /\ call'[h] = t => j = h
      BY <1>9, <2>2 DEF Wire, Alone
    <2>4. CASE t = s
      BY <1>17, <2>3, <2>4
    <2>5. CASE t # s
      BY <1>1, <1>6, <1>9, <2>3, <2>5 DEF Wire, Alone
    <2> QED
      BY <2>4, <2>5
  <1>19. OwnReply'
    BY <1>1, <1>8, <1>17 DEF Wire, OwnReply
  <1>20. ReplyTakenOnce'
    <2>1. \A h \in Goals : took[s][h] # k
      BY <1>11 DEF Taken
    <2> QED
      BY <1>8, <2>1 DEF Wire, ReplyTakenOnce
  <1> QED
    BY <1>10, <1>15, <1>16, <1>18, <1>19, <1>20 DEF Wire

\* A call is given up: its service counts as mixed from then on.
LEMMA AbandonStep ==
    ASSUME TypeWire, Wire, NEW g \in Goals, Abandon(g)
    PROVE  TypeWire' /\ Wire'
  <1>1. /\ call[g] \in Services \cup {"watching", "active"}
        /\ call' = [call EXCEPT ![g] = IF @ = "cancel" THEN "active" ELSE "dropped"]
        /\ mixed' = mixed \cup ({call[g]} \cap Services)
        /\ took' = [s \in Services |-> [took[s] EXCEPT ![g] = IF call[g] = s THEN "lost" ELSE @]]
        /\ asked' = asked /\ rx' = rx
    BY DEF Abandon
  <1>2. \A s \in Services, h \in Goals :
            took'[s][h] = IF h = g /\ call[g] = s THEN "lost" ELSE took[s][h]
    BY <1>1 DEF TypeWire
  <1>3. took' \in [Services -> [Goals -> Goals \cup {"none", "lost"}]]
    BY <1>1 DEF TypeWire
  <1>4. TypeWire'
    BY <1>1, <1>3 DEF TypeWire, Calls, Channels
  <1>5. \A h \in Goals : \/ call'[h] = call[h] /\ h # g
                         \/ h = g /\ call'[h] = IF call[g] = "cancel" THEN "active" ELSE "dropped"
    BY <1>1 DEF TypeWire
  <1>6. \A s \in Services, h \in Goals : MaySend(s, h)' => MaySend(s, h)
    BY <1>1, <1>2, <1>5 DEF MaySend, Services
  <1>7. \A s \in Services, h \in Goals : Taken(s, h)' => Taken(s, h)
    BY <1>2 DEF Taken
  <1>8. Unsent' /\ OnePlace'
    BY <1>1, <1>6, <1>7 DEF Wire, Unsent, OnePlace, TypeWire
  <1>9. Alone'
    <2>1. SUFFICES ASSUME NEW s \in Services \ mixed'
                   PROVE  /\ \A j, h \in Goals : call'[j] = s /\ call'[h] = s => j = h
                          /\ \A h \in Goals : h \in asked[s] \/ Holds(rx[s], h) => call'[h] = s
      BY <1>1 DEF Alone
    <2>2. s \notin mixed /\ call[g] # s
      BY <1>1
    <2>3. \A h \in Goals : call'[h] = s <=> call[h] = s
      BY <1>5, <2>2 DEF Services
    <2> QED
      BY <2>2, <2>3 DEF Wire, Alone
  <1>10. OwnReply' /\ ReplyTakenOnce'
    BY <1>1, <1>2 DEF Wire, OwnReply, ReplyTakenOnce
  <1> QED
    BY <1>4, <1>8, <1>9, <1>10 DEF Wire

\* Any other step leaves the wire as it is.
LEMMA LocalStep ==
    ASSUME TypeWire, Wire, Local
    PROVE  TypeWire' /\ Wire'
  <1>1. UNCHANGED <<asked, rx, took, mixed>> /\ call' \in [Goals -> Calls]
    BY DEF Local, wireVars
  <1>2. \A g \in Goals : \A s \in Services :
          (call'[g] = s <=> call[g] = s) /\ (MaySend(s, g)' => MaySend(s, g))
    BY DEF Local
  <1>3. TypeWire'
    BY <1>1 DEF TypeWire, Channels
  <1>4. Unsent' /\ OnePlace'
    BY <1>1, <1>2 DEF Wire, Unsent, OnePlace, Taken
  <1>5. Alone'
    BY <1>1, <1>2 DEF Wire, Alone
  <1>6. OwnReply' /\ ReplyTakenOnce'
    BY <1>1 DEF Wire, OwnReply, ReplyTakenOnce
  <1> QED
    BY <1>3, <1>4, <1>5, <1>6 DEF Wire

-----------------------------------------------------------------------------
(* The board, the invariant and what follows from it                       *)

\* An entry is made before the call's first await and removed with the last.
LEMMA BoardStep ==
    ASSUME Types, BoardTracksGoals, [Next]_vars
    PROVE  TypeBoard' /\ TypeServer' /\ BoardTracksGoals'
  <1> USE DEF boardVars, wireVars, serverVars
  <1> USE DEF Types, TypeWire, TypeBoard, TypeServer, BoardTracksGoals, Services
  <1>1. CASE \E g \in Goals : InsertGoal(g) \/ SendGoalFails(g) \/ GetResultFails(g)
    BY <1>1 DEF InsertGoal, SendGoalFails, GetResultFails
  <1>2. CASE \E g \in Goals : SendGoal(g) \/ cancel_goal(g) \/ get_result(g)
    BY <1>2 DEF SendGoal, cancel_goal, get_result, send_request
  <1>3. CASE \E g \in Goals : GoalReplyBad(g) \/ GoalAccepted(g) \/ Cancelled(g)
    BY <1>3 DEF GoalReplyBad, GoalAccepted, Cancelled, recv_async
  <1>4. CASE \E g \in Goals : GoalRejected(g) \/ ResultTaken(g)
    BY <1>4 DEF GoalRejected, ResultTaken, recv_async
  <1>5. CASE \E g \in Goals : status_watch(g) \/ result(g)
    <2>1. PICK g \in Goals : status_watch(g) \/ result(g)
      BY <1>5
    <2>2. CASE status_watch(g)
      BY <2>2 DEF status_watch
    <2>3. CASE result(g)
      <3>1. PICK next \in {"watching", "fetching"} : call' = [call EXCEPT ![g] = next]
        BY <2>3 DEF result
      <3> QED
        BY <2>3, <3>1 DEF result
    <2> QED
      BY <2>1, <2>2, <2>3
  <1>6. CASE \E g \in Goals : borrow_and_update(g)
    BY <1>6 DEF borrow_and_update
  <1>7. CASE \E g \in Goals : Abandon(g)
    BY <1>7 DEF Abandon
  <1>8. CASE \E g \in Goals : ServerGoal(g) \/ ServerAdvance(g) \/ ServerReply(g)
    BY <1>8 DEF ServerGoal, ServerAdvance, ServerReply, Answer, Statuses
  <1>9. CASE \E g \in Goals : \E s \in Services : NoAnswer(s, g)
    BY <1>9 DEF NoAnswer
  <1>10. CASE \E list \in lists : StatusCallback(list)
    BY <1>10 DEF StatusCallback
  <1>11. CASE ServerTakesList
    BY <1>11 DEF ServerTakesList
  <1>12. CASE UNCHANGED vars
    BY <1>12 DEF vars
  <1> QED
    BY <1>1, <1>2, <1>3, <1>4, <1>5, <1>6, <1>7, <1>8, <1>9, <1>10, <1>11, <1>12
    DEF Next, Task

\* IInv holds initially.
LEMMA InitIInv == Init => IInv
  <1> SUFFICES ASSUME Init
               PROVE  IInv
    OBVIOUS
  <1>1. TypeWire
    <2>1. \A s \in Services : rx[s] = <<>>
      BY DEF Init
    <2>2. Channels
      BY <2>1 DEF Init, Channels
    <2> QED
      BY <2>2 DEF Init, TypeWire, Calls
  <1>2. TypeBoard /\ TypeServer /\ BoardTracksGoals
    BY DEF Init, TypeBoard, TypeServer, Statuses, BoardTracksGoals
  <1>3. \A s \in Services : /\ asked[s] = {} /\ DistinctGoals(rx[s])
                            /\ \A g \in Goals : ~Holds(rx[s], g) /\ ~Taken(s, g)
    BY DEF Init, DistinctGoals, Holds, Taken
  <1>4. Unsent /\ OnePlace
    BY <1>3 DEF Unsent, OnePlace
  <1>5. Alone /\ OwnReply /\ ReplyTakenOnce
    BY <1>3 DEF Init, Alone, OwnReply, ReplyTakenOnce, Services
  <1> QED
    BY <1>1, <1>2, <1>4, <1>5 DEF IInv, Types, Wire

\* Every step keeps IInv.
LEMMA NextIInv == IInv /\ [Next]_vars => IInv'
  <1> SUFFICES ASSUME IInv, [Next]_vars
               PROVE  IInv'
    OBVIOUS
  <1>1. TypeWire /\ Wire /\ Types
    BY DEF IInv, Types
  <1>2. TypeWire' /\ Wire'
    BY <1>1, Kinds, SendStep, AnswerStep, TakeStep, AbandonStep, LocalStep
  <1>3. TypeBoard' /\ TypeServer' /\ BoardTracksGoals'
    BY BoardStep DEF IInv
  <1> QED
    BY <1>2, <1>3 DEF IInv, Types

\* The invariant behind the results on the action client.
THEOREM ClientInvariant == Spec => []IInv
  BY InitIInv, NextIInv, PTL DEF Spec

\* For any number of goals and any depth of the reply channels: a reply is
\* taken by one call only, and by the call it answers on a service where no
\* two calls overlapped and none was given up (the channel that client.rs
\* shares among the calls of a service).
THEOREM RepliesPairedCorrect == Spec => []RepliesPaired
  <1>1. IInv => RepliesPaired
    BY DEF IInv, Types, TypeWire, TypeBoard, TypeServer, Channels, Calls, Wire,
           RepliesPaired, TypeOK
  <1> QED
    BY <1>1, ClientInvariant, PTL

\* The board has an entry for every call and handle that is alive, so that
\* result() never finds its watch channel closed.
THEOREM BoardTracksGoalsCorrect == Spec => []BoardTracksGoals
  <1>1. IInv => BoardTracksGoals
    BY DEF IInv
  <1> QED
    BY <1>1, ClientInvariant, PTL

=============================================================================
