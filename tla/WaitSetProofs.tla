---------------------------- MODULE WaitSetProofs ----------------------------
(***************************************************************************)
(* Theorems about WaitSet: the notifier's mutex has the owner the code's   *)
(* guards say it has, and no trigger of a guard condition is lost, for any *)
(* executors, waitables, wait sets and timeouts.                           *)
(***************************************************************************)
EXTENDS WaitSet, TLAPS

\* A call that takes part in sleeping was not made with a zero timeout.
Timed == \A t \in Threads :
            pc[t] \in {"lock", "wait", "asleep", "woken"} => timeout[t] # "zero"

Inv == TypeOK /\ Timed

-----------------------------------------------------------------------------
(* Typing                                                                  *)

\* Init of WaitSetImpl::new and of fresh waitables is well typed.
LEMMA InitInv == Init => Inv
  BY NoneAssumption, BoundsAssumption
  DEF Init, Inv, TypeOK, Timed, PC, Waitables

\* Steps that only change waitables: Arrive, update_event_status, trigger.
LEMMA ProducerInv ==
    ASSUME Inv,
           \/ \E q \in Queues : Arrive(q)
           \/ \E e \in Events : update_event_status(e)
           \/ \E g \in Guards : trigger(g)
    PROVE  Inv'
  <1>0. UNCHANGED threads /\ notifying' \in 0..MaxNotifying
    BY BoundsAssumption
    DEF Inv, TypeOK, Arrive, update_event_status, trigger, Producing
  <1>1. queue' \in [Queues -> 0..Depth]
    BY BoundsAssumption
    DEF Inv, TypeOK, Arrive, update_event_status, trigger, Producing
  <1>2. raised' \in [Events \cup Guards -> BOOLEAN] /\ owed' \subseteq Guards
    BY DEF Inv, TypeOK, Arrive, update_event_status, trigger
  <1> QED BY <1>0, <1>1, <1>2 DEF Inv, TypeOK, Timed, threads

\* notify_all moves sleepers to "woken", where nobody owns the mutex either.
LEMMA NotifyInv == ASSUME Inv, notify_all PROVE Inv'
  <1>1. pc' = Woken /\ pc' \in [Threads -> PC]
    BY DEF Inv, TypeOK, notify_all, Woken, PC
  <1>2. \A t \in Threads : pc'[t] = IF pc[t] = "asleep" THEN "woken" ELSE pc[t]
    BY <1>1 DEF Woken
  <1>3. notifying' \in 0..MaxNotifying
    BY BoundsAssumption DEF Inv, TypeOK, notify_all
  <1>4. UNCHANGED <<queue, raised, owed, mutex, timeout, timed_out, checked, left, array>>
    BY DEF notify_all
  <1> QED BY <1>1, <1>2, <1>3, <1>4 DEF Inv, TypeOK, Timed

\* take and take_event change a queue or an event and nothing of a thread.
LEMMA TakeInv ==
    ASSUME Inv, NEW t \in Threads, take(t) \/ take_event(t) PROVE Inv'
  <1>1. UNCHANGED <<notifying, owed, threads>>
    BY DEF take, take_event
  <1>2. queue' \in [Queues -> 0..Depth]
    <2>1. CASE take(t)
      <3>1. PICK q \in array[t] \cap Queues :
               queue[q] > 0 /\ queue' = [queue EXCEPT ![q] = @ - 1]
        BY <2>1 DEF take
      <3>2. queue[q] \in 0..Depth /\ queue[q] - 1 \in 0..Depth
        BY <3>1, BoundsAssumption DEF Inv, TypeOK
      <3> QED BY <3>1, <3>2 DEF Inv, TypeOK
    <2>2. CASE take_event(t)
      BY <2>2 DEF take_event, Inv, TypeOK
    <2> QED BY <2>1, <2>2
  <1>3. raised' \in [Events \cup Guards -> BOOLEAN]
    BY DEF take, take_event, Inv, TypeOK
  <1> QED BY <1>1, <1>2, <1>3 DEF Inv, TypeOK, Timed, threads

\* A thread's own steps keep the types and the ownership of the mutex.
LEMMA WaitInv ==
    ASSUME Inv, NEW t \in Threads, NEW w \in Timeouts, rmw_wait(t, w) PROVE Inv'
  <1>1. w \in {"zero", "finite", "infinite"} /\ WaitsOn[t] \in SUBSET Waitables
    BY TimeoutsAssumption, WaitsOnAssumption
  <1>2. UNCHANGED waitables /\ mutex' = mutex
    BY DEF rmw_wait
  <1>3. pc' = [pc EXCEPT ![t] = IF w = "zero" THEN "check" ELSE "lock"]
    BY DEF rmw_wait, Inv, TypeOK
  <1>4. /\ timeout' = [timeout EXCEPT ![t] = w]
        /\ timed_out' \in [Threads -> BOOLEAN]
        /\ checked' \in [Threads -> BOOLEAN]
        /\ left' \in [Threads -> SUBSET Waitables]
        /\ array' \in [Threads -> SUBSET Waitables]
    BY <1>1 DEF rmw_wait, Inv, TypeOK
  <1>5. pc[t] = "idle" /\ mutex # t
    BY DEF rmw_wait, Inv, TypeOK
  <1> QED BY <1>1, <1>2, <1>3, <1>4, <1>5
          DEF Inv, TypeOK, Timed, PC, waitables

\* Taking the mutex, and giving it up to sleep or when the sleep times out.
LEMMA LockInv ==
    ASSUME Inv, NEW t \in Threads, Lock(t) \/ Sleep(t) \/ TimeoutExpires(t)
    PROVE  Inv'
  <1>1. CASE Lock(t)
    BY <1>1, NoneAssumption DEF Lock, Inv, TypeOK, Timed, PC, waitables
  <1>2. CASE Sleep(t)
    BY <1>2, NoneAssumption DEF Sleep, Inv, TypeOK, Timed, PC, waitables
  <1>3. CASE TimeoutExpires(t)
    BY <1>3, NoneAssumption DEF TimeoutExpires, Inv, TypeOK, Timed, PC, waitables
  <1> QED BY <1>1, <1>2, <1>3

\* cv.wait returns with the mutex; only timed calls get there.
LEMMA RelockInv == ASSUME Inv, NEW t \in Threads, Relock(t) PROVE Inv'
  <1>1. WaitsOn[t] \in SUBSET Waitables
    BY WaitsOnAssumption
  <1> QED BY <1>1, NoneAssumption DEF Relock, Inv, TypeOK, Timed, PC, waitables

\* check_ready gives the mutex up exactly when it ends the wait.
LEMMA CheckInv == ASSUME Inv, NEW t \in Threads, check_ready(t) PROVE Inv'
  <1>1. WaitsOn[t] \in SUBSET Waitables
    BY WaitsOnAssumption
  <1>2. PICK e \in left[t] :
           IF is_ready(e)
           THEN /\ pc' = [pc EXCEPT ![t] = "collect"]
                /\ left' = [left EXCEPT ![t] = WaitsOn[t]]
                /\ Unlock(t)
           ELSE /\ left' = [left EXCEPT ![t] = @ \ {e}]
                /\ UNCHANGED <<pc, mutex>>
    BY DEF check_ready
  <1>3. pc[t] = "check" /\ UNCHANGED <<waitables, timeout, timed_out, checked, array>>
    BY DEF check_ready
  <1>4. CASE is_ready(e)
    BY <1>1, <1>2, <1>3, <1>4, NoneAssumption
    DEF Unlock, Inv, TypeOK, Timed, PC, waitables
  <1>5. CASE ~is_ready(e)
    BY <1>2, <1>3, <1>5 DEF Inv, TypeOK, Timed, PC, waitables
  <1> QED BY <1>4, <1>5

\* The loop returns without the mutex or goes back to cv.wait with it.
LEMMA LoopInv == ASSUME Inv, NEW t \in Threads, wait_loop(t) PROVE Inv'
  <1>1. CASE GiveUp(t)
    BY <1>1, NoneAssumption DEF wait_loop, Unlock, Inv, TypeOK, Timed, PC, waitables
  <1>2. CASE ~GiveUp(t)
    <2>1. timeout[t] # "zero"
      BY <1>2 DEF GiveUp
    <2> QED BY <1>2, <2>1, NoneAssumption, ZenonT(40) DEF wait_loop, Inv, TypeOK, Timed, PC, waitables
  <1> QED BY <1>1, <1>2

\* The arrays are updated, and rmw_wait returns, without the mutex.
LEMMA CollectInv ==
    ASSUME Inv, NEW t \in Threads, NullOrReset(t) \/ Return(t) PROVE Inv'
  <1>1. CASE NullOrReset(t)
    BY <1>1 DEF NullOrReset, Inv, TypeOK, Timed, PC
  <1>2. CASE Return(t)
    BY <1>2 DEF Return, Inv, TypeOK, Timed, PC, waitables
  <1> QED BY <1>1, <1>2

\* Every step keeps the invariant.
LEMMA StepInv == Inv /\ [Next]_vars => Inv'
  <1> SUFFICES ASSUME Inv, [Next]_vars PROVE Inv'
    OBVIOUS
  <1>1. CASE UNCHANGED vars
    BY <1>1 DEF Inv, TypeOK, Timed, vars, waitables, threads
  <1>2. CASE \/ \E q \in Queues : Arrive(q)
             \/ \E e \in Events : update_event_status(e)
             \/ \E g \in Guards : trigger(g)
    BY <1>2, ProducerInv
  <1>3. CASE notify_all
    BY <1>3, NotifyInv
  <1>4. ASSUME NEW t \in Threads, take(t) \/ take_event(t) PROVE Inv'
    BY <1>4, TakeInv
  <1>5. ASSUME NEW t \in Threads, NEW w \in Timeouts, rmw_wait(t, w) PROVE Inv'
    BY <1>5, WaitInv
  <1>6. ASSUME NEW t \in Threads, InWait(t) PROVE Inv'
    BY <1>6, LockInv, RelockInv, CheckInv, LoopInv, CollectInv DEF InWait
  <1> QED BY <1>1, <1>2, <1>3, <1>4, <1>5, <1>6 DEF Next

\* rmw_wait and the producers keep every variable in its type, and a thread
\* owns the notifier's mutex exactly between cv.wait and the return or the
\* next sleep, unless it called with a zero timeout.
THEOREM TypeCorrect == Spec => []TypeOK
  <1>1. Inv => TypeOK
    BY DEF Inv
  <1> QED BY <1>1, InitInv, StepInv, PTL DEF Spec

-----------------------------------------------------------------------------
(* Triggers                                                                *)

\* Only NullOrReset takes a trigger back, and then the wait reports it.
LEMMA StepTriggerKept ==
    ASSUME Inv, TriggerKept, [Next]_vars PROVE TriggerKept'
  <1> USE DEF TriggerKept
  <1>1. CASE UNCHANGED <<raised, owed>>
    BY <1>1
  <1>2. ASSUME NEW e \in Events, update_event_status(e) PROVE TriggerKept'
    BY <1>2 DEF update_event_status, Inv, TypeOK
  <1>3. ASSUME NEW g \in Guards, trigger(g) PROVE TriggerKept'
    BY <1>3 DEF trigger, Inv, TypeOK
  <1>4. ASSUME NEW t \in Threads, take_event(t) PROVE TriggerKept'
    BY <1>4, KindsAssumption DEF take_event, Inv, TypeOK
  <1>5. ASSUME NEW t \in Threads, NullOrReset(t) PROVE TriggerKept'
    <2>1. PICK e \in left[t] :
             /\ raised' = IF e \in Guards THEN [raised EXCEPT ![e] = FALSE] ELSE raised
             /\ owed' = IF is_ready(e) THEN owed \ {e} ELSE owed
      BY <1>5 DEF NullOrReset
    <2>2. CASE e \in Guards
      <3>1. is_ready(e) <=> raised[e]
        BY <2>2, KindsAssumption DEF is_ready
      <3>2. e \notin owed'
        BY <2>1, <3>1
      <3> QED BY <2>1, <2>2, <3>2 DEF Inv, TypeOK
    <2>3. CASE e \notin Guards
      BY <2>1, <2>3
    <2> QED BY <2>2, <2>3
  <1>6. ASSUME NEW t \in Threads,
               Lock(t) \/ Sleep(t) \/ TimeoutExpires(t) \/ Relock(t)
               \/ check_ready(t) \/ wait_loop(t) \/ Return(t)
        PROVE  UNCHANGED <<raised, owed>>
    BY <1>6 DEF Lock, Sleep, TimeoutExpires, Relock, check_ready, wait_loop, Return,
               waitables
  <1>7. ASSUME NEW t \in Threads, take(t) PROVE UNCHANGED <<raised, owed>>
    BY <1>7 DEF take
  <1>8. ASSUME NEW t \in Threads, NEW w \in Timeouts, rmw_wait(t, w)
        PROVE  UNCHANGED <<raised, owed>>
    BY <1>8 DEF rmw_wait, waitables
  <1>9. ASSUME (\E q \in Queues : Arrive(q)) \/ notify_all
        PROVE  UNCHANGED <<raised, owed>>
    BY <1>9 DEF Arrive, notify_all
  <1>10. ASSUME UNCHANGED vars PROVE UNCHANGED <<raised, owed>>
    BY <1>10 DEF vars, waitables
  <1> QED BY <1>1, <1>2, <1>3, <1>4, <1>5, <1>6, <1>7, <1>8, <1>9, <1>10
          DEF Next, InWait

\* A guard condition that was triggered stays triggered until a wait reports
\* it, however many executors share it and whatever they reset.
THEOREM TriggerKeptCorrect == Spec => []TriggerKept
  <1>1. Init => TriggerKept
    BY DEF Init, TriggerKept
  <1>2. Inv /\ TriggerKept /\ [Next]_vars => TriggerKept'
    BY StepTriggerKept
  <1> QED BY <1>1, <1>2, InitInv, StepInv, PTL DEF Spec
-----------------------------------------------------------------------------
(* RMW_RET_OK comes with an entry                                          *)

\* A thread's arrays and scans stay inside its wait set, and the arrays are
\* complete from the call of rmw_wait until check_ready has found something.
Within ==
    \A t \in Threads :
       /\ array[t] \subseteq WaitsOn[t] /\ left[t] \subseteq WaitsOn[t]
       /\ pc[t] \notin {"idle", "collect"} => array[t] = WaitsOn[t]

\* While the arrays of a wait set nobody shares are collected, they name an
\* entry that was kept or that is still ready.
Entry(t) == \E e \in array[t] : e \notin left[t] \/ is_ready(e)
Collected ==
    \A t \in Threads :
       pc[t] = "collect" /\ WaitsOn[t] \cap Shared(t) = {} => Entry(t)

\* Steps of producers leave Within alone, and steps of threads keep it.
LEMMA WithinStep == ASSUME Inv, Within, [Next]_vars PROVE Within'
  <1> USE DEF Within
  <1>1. CASE UNCHANGED threads
    BY <1>1 DEF threads
  <1>2. CASE notify_all
    BY <1>2 DEF notify_all, Woken, Inv, TypeOK
  <1>3. ASSUME NEW t \in Threads, NEW w \in Timeouts, rmw_wait(t, w) PROVE Within'
    BY <1>3 DEF rmw_wait, Inv, TypeOK
  <1>4. ASSUME NEW t \in Threads, Lock(t) \/ Sleep(t) \/ TimeoutExpires(t) \/ Relock(t)
        PROVE  Within'
    BY <1>4 DEF Lock, Sleep, TimeoutExpires, Relock, Inv, TypeOK
  <1>5. ASSUME NEW t \in Threads, check_ready(t) PROVE Within'
    BY <1>5 DEF check_ready, Inv, TypeOK
  <1>6. ASSUME NEW t \in Threads, wait_loop(t) PROVE Within'
    BY <1>6 DEF wait_loop, Inv, TypeOK
  <1>7. ASSUME NEW t \in Threads, NullOrReset(t) \/ Return(t) PROVE Within'
    BY <1>7 DEF NullOrReset, Return, Inv, TypeOK
  <1>8. ASSUME \/ \E q \in Queues : Arrive(q)
               \/ \E e \in Events : update_event_status(e)
               \/ \E g \in Guards : trigger(g)
               \/ \E t \in Threads : take(t) \/ take_event(t)
               \/ UNCHANGED vars
        PROVE  UNCHANGED threads
    BY <1>8 DEF Arrive, update_event_status, trigger, take, take_event, vars
  <1> QED BY <1>1, <1>2, <1>3, <1>4, <1>5, <1>6, <1>7, <1>8 DEF Next, InWait

\* A waitable only another thread's wait set could hold keeps its readiness.
LEMMA ReadyStable ==
    ASSUME Inv, Within, [Next]_vars, NEW t \in Threads,
           WaitsOn[t] \cap Shared(t) = {}, pc[t] = "collect",
           NEW e \in WaitsOn[t], is_ready(e), ~NullOrReset(t)
    PROVE  is_ready(e)'
  <1>0. e \in Waitables /\ \A u \in Threads \ {t} : e \notin WaitsOn[u]
    BY WaitsOnAssumption DEF Shared
  <1> SUFFICES /\ e \in Queues => queue'[e] > 0
               /\ e \notin Queues => raised'[e]
    BY DEF is_ready
  <1>1. /\ e \in Queues => queue[e] > 0
        /\ e \notin Queues => e \in Events \cup Guards /\ raised[e]
    BY <1>0 DEF is_ready, Waitables
  <1>2. CASE UNCHANGED <<queue, raised>>
    BY <1>1, <1>2
  <1>3. ASSUME NEW q \in Queues, Arrive(q)
        PROVE  /\ e \in Queues => queue'[e] > 0
               /\ e \notin Queues => raised'[e]
    BY <1>1, <1>3, BoundsAssumption DEF Arrive, Inv, TypeOK
  <1>4. ASSUME NEW f \in Events \cup Guards,
               raised' = [raised EXCEPT ![f] = TRUE], queue' = queue
        PROVE  /\ e \in Queues => queue'[e] > 0
               /\ e \notin Queues => raised'[e]
    BY <1>1, <1>4 DEF Inv, TypeOK
  <1>5. ASSUME NEW u \in Threads, take(u)
        PROVE  /\ e \in Queues => queue'[e] > 0
               /\ e \notin Queues => raised'[e]
    <2>1. u # t
      BY <1>5 DEF take
    <2>2. PICK q \in array[u] \cap Queues : queue' = [queue EXCEPT ![q] = @ - 1]
      BY <1>5 DEF take
    <2>3. q # e
      BY <1>0, <2>1, <2>2 DEF Within
    <2> QED BY <1>1, <1>5, <2>2, <2>3 DEF take, Inv, TypeOK
  <1>6. ASSUME NEW u \in Threads, take_event(u)
        PROVE  /\ e \in Queues => queue'[e] > 0
               /\ e \notin Queues => raised'[e]
    <2>1. u # t
      BY <1>6 DEF take_event
    <2>2. PICK f \in array[u] \cap Events : raised' = [raised EXCEPT ![f] = FALSE]
      BY <1>6 DEF take_event
    <2>3. f # e
      BY <1>0, <2>1, <2>2 DEF Within
    <2> QED BY <1>1, <1>6, <2>2, <2>3 DEF take_event, Inv, TypeOK
  <1>7. ASSUME NEW u \in Threads, NullOrReset(u)
        PROVE  /\ e \in Queues => queue'[e] > 0
               /\ e \notin Queues => raised'[e]
    <2>1. PICK f \in left[u] :
             raised' = IF f \in Guards THEN [raised EXCEPT ![f] = FALSE] ELSE raised
      BY <1>7 DEF NullOrReset
    <2>2. u # t
      BY <1>7
    <2>3. f # e
      BY <1>0, <2>1, <2>2 DEF Within
    <2> QED BY <1>1, <1>7, <2>1, <2>3 DEF NullOrReset, Inv, TypeOK
  <1>8. ASSUME \/ UNCHANGED vars
               \/ notify_all
               \/ \E u \in Threads : \E w \in Timeouts : rmw_wait(u, w)
               \/ \E u \in Threads :
                     \/ Lock(u) \/ Sleep(u) \/ TimeoutExpires(u) \/ Relock(u)
                     \/ check_ready(u) \/ wait_loop(u) \/ Return(u)
        PROVE  UNCHANGED <<queue, raised>>
    BY <1>8 DEF vars, notify_all, rmw_wait, Lock, Sleep, TimeoutExpires, Relock,
               check_ready, wait_loop, Return, waitables
  <1>9. ASSUME NEW f \in Events, update_event_status(f)
        PROVE  raised' = [raised EXCEPT ![f] = TRUE] /\ queue' = queue
    BY <1>9 DEF update_event_status
  <1>10. ASSUME NEW f \in Guards, trigger(f)
         PROVE  raised' = [raised EXCEPT ![f] = TRUE] /\ queue' = queue
    BY <1>10 DEF trigger
  <1> QED BY <1>2, <1>3, <1>4, <1>5, <1>6, <1>7, <1>8, <1>9, <1>10 DEF Next, InWait

\* A thread in the middle of collecting moves only by collecting.
LEMMA CollectorMoves ==
    ASSUME Inv, [Next]_vars, NEW t \in Threads, pc'[t] = "collect", ~NullOrReset(t)
    PROVE  \/ pc[t] = "collect" /\ array'[t] = array[t] /\ left'[t] = left[t]
           \/ check_ready(t)
  <1> DEFINE Goal == \/ pc[t] = "collect" /\ array'[t] = array[t] /\ left'[t] = left[t]
                     \/ check_ready(t)
  <1>1. ASSUME UNCHANGED threads PROVE Goal
    BY <1>1 DEF threads
  <1>2. ASSUME notify_all PROVE Goal
    BY <1>2 DEF notify_all, Woken, Inv, TypeOK
  <1>3. ASSUME NEW u \in Threads, NEW w \in Timeouts, rmw_wait(u, w) PROVE Goal
    BY <1>3 DEF rmw_wait, Inv, TypeOK
  <1>4. ASSUME NEW u \in Threads, Lock(u) \/ Sleep(u) \/ TimeoutExpires(u) \/ Relock(u)
        PROVE  Goal
    BY <1>4 DEF Lock, Sleep, TimeoutExpires, Relock, Inv, TypeOK
  <1>5. ASSUME NEW u \in Threads, check_ready(u) PROVE Goal
    BY <1>5 DEF check_ready, Inv, TypeOK
  <1>6. ASSUME NEW u \in Threads, wait_loop(u) PROVE Goal
    BY <1>6 DEF wait_loop, Inv, TypeOK
  <1>7. ASSUME NEW u \in Threads, NullOrReset(u) \/ Return(u) PROVE Goal
    BY <1>7 DEF NullOrReset, Return, Inv, TypeOK
  <1>8. ASSUME \/ \E q \in Queues : Arrive(q)
               \/ \E e \in Events : update_event_status(e)
               \/ \E g \in Guards : trigger(g)
               \/ \E u \in Threads : take(u) \/ take_event(u)
               \/ UNCHANGED vars
        PROVE  UNCHANGED threads
    BY <1>8 DEF Arrive, update_event_status, trigger, take, take_event, vars
  <1> QED BY <1>1, <1>2, <1>3, <1>4, <1>5, <1>6, <1>7, <1>8 DEF Next, InWait

\* Every step keeps an entry for the collecting thread.
LEMMA CollectedStep ==
    ASSUME Inv, Within, Collected, [Next]_vars PROVE Collected'
  <1> SUFFICES ASSUME NEW t \in Threads, pc'[t] = "collect", WaitsOn[t] \cap Shared(t) = {}
               PROVE  \E e \in array'[t] : e \notin left'[t] \/ is_ready(e)'
    BY DEF Collected, Entry, Shared, is_ready
  <1>1. CASE NullOrReset(t)
    <2>1. pc[t] = "collect"
      BY <1>1 DEF NullOrReset
    <2>2. PICK e \in array[t] : e \notin left[t] \/ is_ready(e)
      BY <2>1 DEF Collected, Entry
    <2>3. PICK f \in left[t] :
             /\ left' = [left EXCEPT ![t] = @ \ {f}]
             /\ array' = [array EXCEPT ![t] = IF is_ready(f) THEN @ ELSE @ \ {f}]
             /\ raised' = IF f \in Guards THEN [raised EXCEPT ![f] = FALSE] ELSE raised
      BY <1>1 DEF NullOrReset
    <2>4. left'[t] = left[t] \ {f} /\ e \in array'[t]
      BY <2>2, <2>3 DEF Inv, TypeOK
    <2>5. CASE e \notin left[t] \/ e = f
      BY <2>4, <2>5
    <2>6. CASE is_ready(e) /\ e # f
      <3>1. queue' = queue
        BY <1>1 DEF NullOrReset
      <3>2. raised'[e] = raised[e]
        BY <2>3, <2>6 DEF Inv, TypeOK
      <3>3. is_ready(e)'
        BY <2>6, <3>1, <3>2 DEF is_ready
      <3> QED BY <2>4, <3>3
    <2> QED BY <2>2, <2>5, <2>6
  <1>2. CASE ~NullOrReset(t) /\ ~check_ready(t)
    <2>1. pc[t] = "collect" /\ array'[t] = array[t] /\ left'[t] = left[t]
      BY <1>2, CollectorMoves
    <2>2. PICK e \in array[t] : e \notin left[t] \/ is_ready(e)
      BY <2>1 DEF Collected, Entry
    <2>3. e \in WaitsOn[t]
      BY <2>2 DEF Within
    <2>4. is_ready(e) => is_ready(e)'
      BY <1>2, <2>1, <2>3, ReadyStable
    <2> QED BY <2>1, <2>2, <2>4
  <1>3. CASE check_ready(t)
    <2>1. pc[t] = "check" /\ array' = array /\ UNCHANGED waitables
      BY <1>3 DEF check_ready
    <2>2. PICK e \in left[t] : is_ready(e)
      BY <1>3, <2>1 DEF check_ready
    <2>3. e \in array'[t]
      BY <2>1, <2>2 DEF Within
    <2>4. is_ready(e)'
      BY <2>1, <2>2 DEF is_ready, waitables
    <2> QED BY <2>3, <2>4
  <1> QED BY <1>1, <1>2, <1>3

\* No trigger is lost, and rmw_wait returns RMW_RET_OK with at least one entry
\* that is not null (wait_set.rs), for any executors and wait sets.
THEOREM TriggersReportedCorrect == Spec => []TriggersReported
  <1>1. Init => Within /\ Collected
    BY DEF Init, Within, Collected
  <1>2. Inv /\ Within /\ Collected /\ [Next]_vars => Within' /\ Collected'
    BY WithinStep, CollectedStep
  <1>3. Collected => OkHasEntry
    BY DEF Collected, OkHasEntry, Entry
  <1> QED BY <1>1, <1>2, <1>3, InitInv, StepInv, TriggerKeptCorrect, PTL
          DEF Spec, TriggersReported
=============================================================================
