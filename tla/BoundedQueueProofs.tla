------------------------- MODULE BoundedQueueProofs -------------------------
(***************************************************************************)
(* What BoundedQueue guarantees for every capacity and every number of     *)
(* threads and tasks.  Type correctness comes first; KeepsMostRecent,      *)
(* ExactlyOnce, NoLostWakeup and SoleAsyncNotified follow one after the    *)
(* other, each inductive relative to the ones before it.                   *)
(***************************************************************************)
EXTENDS BoundedQueue, FiniteSetTheorems, TLAPS

USE CapacityAssumption, ReceiversAssumption, MaxPushAssumption

\* Popping the front gives its receiver the front item and nothing else.
LEMMA PopFrontFacts ==
    ASSUME TypeOK, NEW r \in Receivers, PopFront(r)
    PROVE  /\ Head(data) \in Nat
           /\ data' \in Seq(Nat)
           /\ Len(data) > 0
           /\ Len(data') = Len(data) - 1
           /\ \A i \in 1..Len(data') : data'[i] = data[i + 1]
           /\ Head(data) = data[1]
           /\ got' \in [Receivers -> SUBSET Nat]
           /\ got'[r] = got[r] \cup {Head(data)}
           /\ \A s \in Receivers \ {r} : got'[s] = got[s]
           /\ Taken' = Taken \cup {Head(data)}
  <1>1. /\ Head(data) \in Nat
        /\ data' \in Seq(Nat)
        /\ Len(data) > 0
        /\ Len(data') = Len(data) - 1
        /\ \A i \in 1..Len(data') : data'[i] = data[i + 1]
        /\ Head(data) = data[1]
    BY DEF TypeOK, PopFront
  <1>2. /\ got' \in [Receivers -> SUBSET Nat]
        /\ got'[r] = got[r] \cup {Head(data)}
        /\ \A s \in Receivers \ {r} : got'[s] = got[s]
    BY <1>1 DEF TypeOK, PopFront
  <1>3. Taken' = Taken \cup {Head(data)}
    BY <1>2 DEF Taken
  <1> QED
    BY <1>1, <1>2, <1>3

\* A push appends the new item, after giving up the front item at capacity.
LEMMA PushFacts ==
    ASSUME TypeOK, push
    PROVE  /\ pushed \in Nat /\ pushed' = pushed + 1
           /\ data' \in Seq(Nat)
           /\ data'[Len(data')] = pushed + 1
           /\ \/ /\ Len(data) < Capacity
                 /\ dropped' = dropped
                 /\ Len(data') = Len(data) + 1
                 /\ \A i \in 1..Len(data) : data'[i] = data[i]
              \/ /\ Len(data) >= Capacity
                 /\ Head(data) = data[1] /\ Head(data) \in Nat
                 /\ dropped' = dropped \cup {Head(data)}
                 /\ Len(data') = Len(data)
                 /\ \A i \in 1..(Len(data) - 1) : data'[i] = data[i + 1]
  <1> DEFINE n == pushed + 1
  <1>1. pushed \in Nat /\ n \in Nat /\ pushed' = n
    BY DEF TypeOK, push
  <1>2. Len(data) \in Nat
    BY DEF TypeOK
  <1>3. CASE Len(data) < Capacity
    <2>1. data' = Append(data, n) /\ dropped' = dropped
      BY <1>2, <1>3 DEF push, Enqueue
    <2> HIDE DEF n
    <2>2. /\ data' \in Seq(Nat) /\ Len(data') = Len(data) + 1
          /\ data'[Len(data')] = n
          /\ \A i \in 1..Len(data) : data'[i] = data[i]
      BY <1>1, <2>1 DEF TypeOK
    <2> QED
      BY <1>1, <1>3, <2>1, <2>2 DEF n
  <1>4. CASE Len(data) >= Capacity
    <2> DEFINE t == Tail(data)
    <2>1. data' = Append(t, n) /\ dropped' = dropped \cup {Head(data)}
      BY <1>2, <1>4 DEF push, Enqueue
    <2>2. /\ t \in Seq(Nat) /\ Len(t) = Len(data) - 1
          /\ \A i \in 1..Len(t) : t[i] = data[i + 1]
          /\ Head(data) = data[1] /\ Head(data) \in Nat
      <3>1. data # <<>>
        BY <1>4
      <3> QED
        BY <3>1 DEF TypeOK
    <2> HIDE DEF n, t
    <2>3. /\ data' \in Seq(Nat) /\ Len(data') = Len(t) + 1
          /\ data'[Len(data')] = n
          /\ \A i \in 1..Len(t) : data'[i] = t[i]
      BY <1>1, <2>1, <2>2
    <2> QED
      BY <1>1, <1>2, <1>4, <2>1, <2>2, <2>3 DEF n
  <1> QED
    BY <1>2, <1>3, <1>4

\* Every set of listeners that notify(1) leaves notified is one of listeners.
LEMMA EventNotifySubset ==
    ASSUME NEW ls, NEW ns \in SUBSET ls, NEW m \in EventNotify(ls, ns)
    PROVE  m \in SUBSET ls
  BY DEF EventNotify

\* The condvar's notify_one moves at most one sleeping thread, and only to the
\* matching woken place.
LEMMA NotifyOneFacts ==
    ASSUME TypeOK, NotifyOne
    PROVE  /\ pc' \in [Receivers -> {"idle"} \cup CvWaiting \cup CvWoken
                              \cup {"timeoutExpired"} \cup Listening]
           /\ \A r \in AsyncReceivers : pc'[r] = pc[r]
           /\ \A r \in BlockingReceivers : pc'[r] \notin Listening
           /\ Listeners' = Listeners
  <1>1. \A r \in AsyncReceivers : pc'[r] = pc[r]
    BY DEF TypeOK, NotifyOne, CvWaiters, Receivers
  <1>2. Listeners' = Listeners
    BY <1>1 DEF Listeners
  <1> QED
    BY <1>1, <1>2
    DEF TypeOK, NotifyOne, CvWaiters, Receivers, WokenFrom, CvWaiting, CvWoken,
        Listening

\* The part of TypeOK about places and listeners is kept when one receiver
\* moves to a place of its kind and stays a listener if it was notified.
LEMMA GotoFacts ==
    ASSUME TypeOK, NEW r \in Receivers, NEW state, Goto(r, state),
           r \in BlockingReceivers =>
               state \in {"idle"} \cup CvWaiting \cup CvWoken \cup {"timeoutExpired"},
           r \in AsyncReceivers => state \in {"idle"} \cup Listening
    PROVE  /\ pc' \in [Receivers -> {"idle"} \cup CvWaiting \cup CvWoken
                              \cup {"timeoutExpired"} \cup Listening]
           /\ pc'[r] = state
           /\ \A s \in Receivers \ {r} : pc'[s] = pc[s]
           /\ \A s \in AsyncReceivers : pc'[s] \in {"idle"} \cup Listening
           /\ \A s \in BlockingReceivers : pc'[s] \notin Listening
           /\ r \in BlockingReceivers => Listeners' = Listeners
           /\ r \in AsyncReceivers /\ state \in Listening
                => Listeners' = Listeners \cup {r}
           /\ r \in AsyncReceivers /\ state = "idle"
                => Listeners' = Listeners \ {r}
  <1>1. /\ pc' \in [Receivers -> {"idle"} \cup CvWaiting \cup CvWoken
                              \cup {"timeoutExpired"} \cup Listening]
        /\ pc'[r] = state
        /\ \A s \in Receivers \ {r} : pc'[s] = pc[s]
    BY DEF TypeOK, Goto, Receivers
  <1>2. /\ \A s \in AsyncReceivers : pc'[s] \in {"idle"} \cup Listening
        /\ \A s \in BlockingReceivers : pc'[s] \notin Listening
    BY <1>1 DEF TypeOK, Receivers, CvWaiting, CvWoken, Listening
  <1>3. /\ r \in BlockingReceivers => Listeners' = Listeners
        /\ r \in AsyncReceivers /\ state \in Listening
                => Listeners' = Listeners \cup {r}
        /\ r \in AsyncReceivers /\ state = "idle"
                => Listeners' = Listeners \ {r}
    BY <1>1, <1>2 DEF Listeners, Receivers, Listening
  <1> QED
    BY <1>1, <1>2, <1>3

-----------------------------------------------------------------------------
(* Type correctness. *)

\* BoundedQueue::new starts well typed.
LEMMA TypeInit == Init => TypeOK
  BY DEF Init, TypeOK, Receivers, Listeners, Listening, CvWaiting, CvWoken

\* push keeps the types.
LEMMA TypePush ==
    ASSUME TypeOK, push
    PROVE  TypeOK'
  <1>1. pushed' \in 0..MaxPush
    BY DEF TypeOK, push
  <1>2. data' \in Seq(Nat) /\ dropped' \in SUBSET Nat
    <2>1. dropped \in SUBSET Nat
      BY DEF TypeOK
    <2> QED
      BY <2>1, PushFacts
  <1>3. got' = got /\ outcome' = outcome
    BY DEF push
  <1>4. NotifyOne
    BY DEF push
  <1>5. notified' \in SUBSET Listeners'
    BY <1>4, NotifyOneFacts, EventNotifySubset DEF TypeOK, push
  <1> QED
    BY <1>1, <1>2, <1>3, <1>4, <1>5, NotifyOneFacts DEF TypeOK

\* Dropping a listener leaves only remaining listeners notified.
LEMMA DropListenerFacts ==
    ASSUME TypeOK, NEW r \in AsyncReceivers, DropListener(r)
    PROVE  notified' \in SUBSET (Listeners \ {r})
  <1>1. CASE r \in notified
    <2>1. notified' \in EventNotify(Listeners \ {r}, notified \ {r})
      BY <1>1 DEF DropListener
    <2>2. notified \ {r} \in SUBSET (Listeners \ {r})
      BY DEF TypeOK
    <2> QED
      BY <2>1, <2>2, EventNotifySubset
  <1>2. CASE r \notin notified
    BY <1>2 DEF DropListener, TypeOK
  <1> QED
    BY <1>1, <1>2

\* recv, recv_timeout and try_recv keep the types.
LEMMA TypeBlocking ==
    ASSUME TypeOK, NEW r \in BlockingReceivers, BlockingStep(r)
    PROVE  TypeOK'
  <1> r \in Receivers /\ r \notin AsyncReceivers
    BY DEF Receivers
  <1>1. \E state \in {"idle"} \cup CvWaiting \cup {"timeoutExpired"} : Goto(r, state)
    BY DEF BlockingStep, recv, recv_timeout, TimeoutExpires,
           recv_timeout_resume, try_recv, Return, CvWaiting
  <1>2. /\ pc' \in [Receivers -> {"idle"} \cup CvWaiting \cup CvWoken
                              \cup {"timeoutExpired"} \cup Listening]
        /\ \A s \in AsyncReceivers : pc'[s] \in {"idle"} \cup Listening
        /\ \A s \in BlockingReceivers : pc'[s] \notin Listening
        /\ Listeners' = Listeners
    BY <1>1, GotoFacts
  <1>3. \/ PopFront(r)
        \/ data' = data /\ got' = got
    BY DEF BlockingStep, recv, recv_timeout, TimeoutExpires,
           recv_timeout_resume, try_recv
  <1>4. data' \in Seq(Nat) /\ got' \in [Receivers -> SUBSET Nat]
    BY <1>3, PopFrontFacts DEF TypeOK
  <1>5. /\ pushed' = pushed
        /\ dropped' = dropped
        /\ notified' = notified
        /\ outcome' \in [BlockingReceivers ->
                     {"none", "item", "empty", "timedOut", "early"}]
    BY DEF TypeOK, BlockingStep, recv, recv_timeout, TimeoutExpires,
           recv_timeout_resume, try_recv, Return
  <1> QED
    BY <1>2, <1>4, <1>5 DEF TypeOK

\* recv_async and its cancellation keep the types.
LEMMA TypeAsync ==
    ASSUME TypeOK, NEW r \in AsyncReceivers, AsyncStep(r)
    PROVE  TypeOK'
  <1> r \in Receivers /\ r \notin BlockingReceivers
    BY DEF Receivers
  <1>1. pushed' = pushed /\ dropped' = dropped /\ outcome' = outcome
    BY DEF AsyncStep, AsyncListen, AsyncCheck, AsyncReturn, AsyncWake, AsyncCancel
  <1>2. \/ PopFront(r)
        \/ data' = data /\ got' = got
    BY DEF AsyncStep, AsyncListen, AsyncCheck, AsyncReturn, AsyncWake, AsyncCancel
  <1>3. data' \in Seq(Nat) /\ got' \in [Receivers -> SUBSET Nat]
    BY <1>2, PopFrontFacts DEF TypeOK
  <1>4. \/ /\ \E state \in Listening : Goto(r, state)
           /\ notified' \in SUBSET notified
        \/ Goto(r, "idle") /\ DropListener(r)
    BY DEF AsyncStep, AsyncListen, AsyncCheck, AsyncReturn, AsyncWake,
           AsyncCancel, Listening
  <1>5. CASE /\ \E state \in Listening : Goto(r, state)
             /\ notified' \in SUBSET notified
    BY <1>1, <1>3, <1>5, GotoFacts DEF TypeOK
  <1>6. CASE Goto(r, "idle") /\ DropListener(r)
    BY <1>1, <1>3, <1>6, GotoFacts, DropListenerFacts DEF TypeOK
  <1> QED
    BY <1>4, <1>5, <1>6

\* A stuttering step changes no part of the state.
LEMMA TypeStutter == TypeOK /\ UNCHANGED vars => TypeOK'
  BY DEF TypeOK, vars, Listeners

\* Every step keeps the types.
LEMMA TypeNext == TypeOK /\ [Next]_vars => TypeOK'
  BY TypePush, TypeBlocking, TypeAsync, TypeStutter DEF Next

\* Every reachable state of the queue is well typed.
THEOREM TypeCorrect == Spec => []TypeOK
  BY TypeInit, TypeNext, PTL DEF Spec
-----------------------------------------------------------------------------
(* The window of recent items, and the fate of every item. *)

\* Every step that is not a push either pops the front for one receiver or
\* leaves the queue, what was obtained and what was dropped alone.
LEMMA ReceiverStep ==
    ASSUME [Next]_vars, ~push
    PROVE  /\ pushed' = pushed /\ dropped' = dropped
           /\ \/ \E r \in Receivers : PopFront(r)
              \/ data' = data /\ got' = got
  <1>1. ASSUME NEW r \in BlockingReceivers, BlockingStep(r)
        PROVE  /\ pushed' = pushed /\ dropped' = dropped
               /\ PopFront(r) \/ (data' = data /\ got' = got)
    BY <1>1 DEF BlockingStep, recv, recv_timeout, TimeoutExpires,
                recv_timeout_resume, try_recv
  <1>2. ASSUME NEW r \in AsyncReceivers, AsyncStep(r)
        PROVE  /\ pushed' = pushed /\ dropped' = dropped
               /\ PopFront(r) \/ (data' = data /\ got' = got)
    BY <1>2 DEF AsyncStep, AsyncListen, AsyncCheck, AsyncReturn, AsyncWake,
                AsyncCancel
  <1>3. ASSUME UNCHANGED vars
        PROVE  pushed' = pushed /\ dropped' = dropped /\ data' = data /\ got' = got
    BY <1>3 DEF vars
  <1> QED
    BY <1>1, <1>2, <1>3 DEF Next, Receivers

\* Every step keeps the queue a window on the most recent items.
LEMMA WindowNext ==
    ASSUME TypeOK, KeepsMostRecent, [Next]_vars
    PROVE  KeepsMostRecent'
  <1>0. pushed \in Nat /\ Len(data) \in Nat
    BY DEF TypeOK
  <1>1. CASE push
    <2> DEFINE m == Len(data)
               k == Len(data')
    <2>1. pushed' = pushed + 1 /\ data'[k] = pushed + 1
      BY <1>1, PushFacts
    <2>2. CASE /\ m < Capacity /\ k = m + 1
               /\ \A i \in 1..m : data'[i] = data[i]
      <3>1. k <= Capacity /\ k <= pushed'
        BY <1>0, <2>1, <2>2 DEF KeepsMostRecent
      <3>2. ASSUME NEW i \in 1..k
            PROVE  data'[i] = pushed' - k + i
        <4>1. CASE i = k
          BY <1>0, <2>1, <2>2, <4>1
        <4>2. CASE i # k
          <5>1. i \in 1..m
            BY <1>0, <2>2, <4>2
          <5> QED
            BY <1>0, <2>1, <2>2, <5>1 DEF KeepsMostRecent
        <4> QED
          BY <4>1, <4>2
      <3> QED
        BY <3>1, <3>2 DEF KeepsMostRecent
    <2>3. CASE /\ m >= Capacity /\ k = m
               /\ \A i \in 1..(m - 1) : data'[i] = data[i + 1]
      <3>1. k <= Capacity /\ k <= pushed'
        BY <1>0, <2>1, <2>3 DEF KeepsMostRecent
      <3>2. ASSUME NEW i \in 1..k
            PROVE  data'[i] = pushed' - k + i
        <4>1. CASE i = k
          BY <1>0, <2>1, <2>3, <4>1
        <4>2. CASE i # k
          <5>1. i \in 1..(m - 1) /\ i + 1 \in 1..m
            BY <1>0, <2>3, <4>2
          <5> QED
            BY <1>0, <2>1, <2>3, <5>1 DEF KeepsMostRecent
        <4> QED
          BY <4>1, <4>2
      <3> QED
        BY <3>1, <3>2 DEF KeepsMostRecent
    <2> QED
      BY <1>1, <2>2, <2>3, PushFacts
  <1>2. ASSUME NEW r \in Receivers, PopFront(r), pushed' = pushed
        PROVE  KeepsMostRecent'
    <2>1. /\ Len(data) > 0 /\ Len(data') = Len(data) - 1
          /\ \A i \in 1..Len(data') : data'[i] = data[i + 1]
      BY <1>2, PopFrontFacts
    <2>2. ASSUME NEW i \in 1..Len(data')
          PROVE  data'[i] = pushed - Len(data') + i
      <3>1. i + 1 \in 1..Len(data)
        BY <1>0, <2>1
      <3> QED
        BY <1>0, <2>1, <3>1 DEF KeepsMostRecent
    <2> QED
      BY <1>0, <1>2, <2>1, <2>2 DEF KeepsMostRecent
  <1>3. ASSUME data' = data, pushed' = pushed
        PROVE  KeepsMostRecent'
    BY <1>3 DEF KeepsMostRecent
  <1> QED
    BY <1>1, <1>2, <1>3, ReceiverStep

\* The queue always holds the most recent items in order, at most Capacity of
\* them, whatever its receivers do (push, queue.rs:42-54).
THEOREM KeepsMostRecentCorrect == Spec => []KeepsMostRecent
  <1>1. Init => KeepsMostRecent
    BY DEF Init, KeepsMostRecent
  <1>2. TypeOK /\ KeepsMostRecent /\ [Next]_vars => KeepsMostRecent'
    BY WindowNext
  <1> QED
    BY <1>1, <1>2, TypeCorrect, PTL DEF Spec

\* The item a step removes from the queue is the first one not removed before.
LEMMA FrontItem ==
    ASSUME TypeOK, KeepsMostRecent, Len(data) > 0
    PROVE  data[1] = pushed - Len(data) + 1
  BY DEF TypeOK, KeepsMostRecent

\* Every step keeps each item in exactly one place.
LEMMA FateNext ==
    ASSUME TypeOK, KeepsMostRecent, ExactlyOnce, [Next]_vars
    PROVE  ExactlyOnce'
  <1>0. /\ pushed \in Nat /\ Len(data) \in Nat /\ Len(data) <= pushed
        /\ \A r \in Receivers : got[r] \subseteq Taken
    BY DEF TypeOK, KeepsMostRecent, Taken
  <1>1. CASE push
    <2>1. got' = got /\ Taken' = Taken
      BY <1>1 DEF push, Taken
    <2>2. CASE dropped' = dropped /\ Len(data') = Len(data) + 1
      BY <1>0, <1>1, <2>1, <2>2, PushFacts DEF ExactlyOnce
    <2>3. CASE /\ Len(data) >= Capacity
               /\ dropped' = dropped \cup {Head(data)}
               /\ Len(data') = Len(data)
      <3>1. Head(data) = pushed - Len(data) + 1
        BY <1>1, <2>3, PushFacts, FrontItem, <1>0
      <3> QED
        BY <1>0, <1>1, <2>1, <2>3, <3>1, PushFacts DEF ExactlyOnce
    <2> QED
      BY <1>1, <2>2, <2>3, PushFacts
  <1>2. ASSUME NEW r \in Receivers, PopFront(r),
               pushed' = pushed, dropped' = dropped
        PROVE  ExactlyOnce'
    <2> DEFINE x == Head(data)
    <2>1. x = pushed - Len(data) + 1 /\ Len(data) > 0
      BY <1>2, PopFrontFacts, FrontItem
    <2>2. Taken' = Taken \cup {x} /\ Len(data') = Len(data) - 1
      BY <1>2, PopFrontFacts
    <2>3. x \notin Taken /\ x \notin dropped
      BY <1>0, <2>1 DEF ExactlyOnce
    <2>4. /\ got'[r] = got[r] \cup {x}
          /\ \A s \in Receivers \ {r} : got'[s] = got[s]
      BY <1>2, PopFrontFacts
    <2> HIDE DEF x
    <2>5. Taken' \cup dropped' = 1..(pushed' - Len(data'))
      BY <1>0, <1>2, <2>1, <2>2 DEF ExactlyOnce
    <2>6. Taken' \cap dropped' = {}
      BY <1>2, <2>2, <2>3 DEF ExactlyOnce
    <2>7. \A s \in Receivers : x \notin got[s]
      BY <1>0, <2>3
    <2>8. ASSUME NEW p \in Receivers, NEW q \in Receivers, p # q
          PROVE  got'[p] \cap got'[q] = {}
      BY <2>4, <2>7, <2>8 DEF ExactlyOnce
    <2> QED
      BY <2>5, <2>6, <2>8 DEF ExactlyOnce
  <1>3. ASSUME data' = data, got' = got, pushed' = pushed, dropped' = dropped
        PROVE  ExactlyOnce'
    BY <1>3 DEF ExactlyOnce, Taken
  <1> QED
    BY <1>1, <1>2, <1>3, ReceiverStep

\* No item is lost or delivered twice, for any number of racing threads, tasks
\* and cancellations (push, recv*, try_recv, recv_async, queue.rs:42-115).
THEOREM ExactlyOnceCorrect == Spec => []ExactlyOnce
  <1>1. Init => ExactlyOnce
    <2> SUFFICES ASSUME Init PROVE ExactlyOnce
      OBVIOUS
    <2>1. Taken = {}
      BY DEF Init, Taken
    <2> QED
      BY <2>1 DEF Init, ExactlyOnce
  <1>2. TypeOK /\ KeepsMostRecent /\ ExactlyOnce /\ [Next]_vars => ExactlyOnce'
    BY FateNext
  <1> QED
    BY <1>1, <1>2, TypeCorrect, KeepsMostRecentCorrect, PTL DEF Spec

\* An item is dropped only by the push that brings the item Capacity places
\* behind it (push, queue.rs:44-50).
THEOREM DropsOnlyOverflowCorrect == Spec => DropsOnlyOverflow
  <1>1. TypeOK /\ KeepsMostRecent /\ [Next]_vars
          => [\A i \in dropped' \ dropped : pushed' = i + Capacity]_vars
    <2> SUFFICES ASSUME TypeOK, KeepsMostRecent, [Next]_vars,
                        NEW i \in dropped' \ dropped
                 PROVE  pushed' = i + Capacity
      OBVIOUS
    <2>1. push
      BY ReceiverStep
    <2>2. Len(data) >= Capacity /\ i = data[1] /\ pushed' = pushed + 1
      BY <2>1, PushFacts
    <2>3. data[1] = pushed - Len(data) + 1 /\ Len(data) = Capacity
      BY <2>2, FrontItem DEF KeepsMostRecent, TypeOK
    <2> QED
      BY <2>2, <2>3 DEF TypeOK
  <1> QED
    BY <1>1, TypeCorrect, KeepsMostRecentCorrect, PTL DEF Spec, DropsOnlyOverflow

\* Items leave the queue in push order, whoever takes or drops them (pop_front
\* in queue.rs:45, 62, 78, 85).
THEOREM LeavesInOrderCorrect == Spec => LeavesInOrder
  <1>1. TypeOK /\ KeepsMostRecent /\ ExactlyOnce /\ ExactlyOnce' /\ [Next]_vars
          => [\A i \in (Taken' \cup dropped') \ (Taken \cup dropped),
                 j \in Taken \cup dropped : j < i]_vars
    <2> SUFFICES ASSUME TypeOK, ExactlyOnce, ExactlyOnce',
                        NEW i \in (Taken' \cup dropped') \ (Taken \cup dropped),
                        NEW j \in Taken \cup dropped
                 PROVE  j < i
      OBVIOUS
    <2>1. j \in 1..(pushed - Len(data)) /\ i \notin 1..(pushed - Len(data))
      BY DEF ExactlyOnce
    <2>2. i \in 1..(pushed' - Len(data'))
      BY DEF ExactlyOnce
    <2> QED
      BY <2>1, <2>2 DEF TypeOK
  <1> QED
    BY <1>1, TypeCorrect, KeepsMostRecentCorrect, ExactlyOnceCorrect, PTL
    DEF Spec, LeavesInOrder

-----------------------------------------------------------------------------
(* No lost wake-up. *)

\* The threads that were woken form a finite set.
LEMMA WokenFinite == IsFiniteSet(Woken)
  BY FS_Subset DEF Woken

\* What a thread's step does to the queue, the sleepers and the woken.
LEMMA BlockingEffect ==
    ASSUME TypeOK, NEW r \in BlockingReceivers, BlockingStep(r)
    PROVE  \/ Len(data') = 0
           \/ /\ CvWaiters' \subseteq CvWaiters
              /\ \/ PopFront(r) /\ Woken' = Woken \ {r}
                 \/ data' = data /\ Woken' = Woken
  <1> r \in Receivers
    BY DEF Receivers
  <1> USE DEF Goto, Return, CvWaiting, CvWoken
  <1>1. \/ data = <<>> /\ data' = data
        \/ /\ PopFront(r) /\ Goto(r, "idle")
           /\ pc[r] \notin CvWaiting
        \/ /\ data' = data
           /\ pc[r] \notin CvWoken
           /\ \E state \in {"idle", "timeoutExpired"} : Goto(r, state)
    BY DEF BlockingStep, recv, recv_timeout, TimeoutExpires,
           recv_timeout_resume, try_recv
  <1>2. CASE data = <<>> /\ data' = data
    BY <1>2
  <1>3. CASE PopFront(r) /\ Goto(r, "idle") /\ pc[r] \notin CvWaiting
    BY <1>3 DEF TypeOK, CvWaiters, Woken, Receivers
  <1>4. CASE /\ data' = data
             /\ pc[r] \notin CvWoken
             /\ \E state \in {"idle", "timeoutExpired"} : Goto(r, state)
    BY <1>4 DEF TypeOK, CvWaiters, Woken, Receivers
  <1> QED
    BY <1>1, <1>2, <1>3, <1>4

\* Every step keeps the queued items no more than the woken threads while one sleeps.
LEMMA WakeupNext ==
    ASSUME TypeOK, NoLostWakeup, [Next]_vars
    PROVE  NoLostWakeup'
  <1>0. /\ Len(data) \in Nat /\ Cardinality(Woken) \in Nat
        /\ Cardinality(Woken') \in Nat
    <2>1. IsFiniteSet(Woken')
      BY FS_Subset DEF Woken
    <2> QED
      BY <2>1, WokenFinite, FS_CardinalityType DEF TypeOK
  <1>1. CASE push
    <2>1. Len(data') <= Len(data) + 1
      BY <1>0, <1>1, PushFacts
    <2>2. CASE CvWaiters = {}
      <3>1. CvWaiters' = {}
        BY <1>1, <2>2 DEF push, NotifyOne, CvWaiters
      <3> QED
        BY <3>1 DEF NoLostWakeup
    <2>3. CASE CvWaiters # {}
      <3>1. PICK r \in CvWaiters : pc' = [pc EXCEPT ![r] = WokenFrom(pc[r])]
        BY <1>1, <2>3 DEF push, NotifyOne
      <3>2. r \notin Woken
        BY DEF Woken, CvWaiters, CvWaiting, CvWoken
      <3>3. Woken' = Woken \cup {r}
        BY <3>1 DEF TypeOK, Woken, CvWaiters, CvWoken, CvWaiting, WokenFrom, Receivers
      <3>4. Cardinality(Woken') = Cardinality(Woken) + 1
        BY <3>2, <3>3, WokenFinite, FS_AddElement
      <3>5. Len(data') \in Nat
        BY <1>1, PushFacts
      <3> QED
        BY <1>0, <2>1, <2>3, <3>4, <3>5 DEF NoLostWakeup
    <2> QED
      BY <2>2, <2>3
  <1>2. ASSUME NEW r \in BlockingReceivers, BlockingStep(r)
        PROVE  NoLostWakeup'
    <2>1. CASE Len(data') = 0
      BY <1>0, <2>1 DEF NoLostWakeup
    <2>2. CASE /\ CvWaiters' \subseteq CvWaiters
               /\ PopFront(r) /\ Woken' = Woken \ {r}
      <3>1. Len(data') = Len(data) - 1
        BY <2>2, PopFrontFacts DEF Receivers
      <3>2. Cardinality(Woken') >= Cardinality(Woken) - 1
        <4>1. CASE r \in Woken
          <5>1. Cardinality(Woken \ {r}) = Cardinality(Woken) - 1
            BY <4>1, WokenFinite, FS_RemoveElement
          <5> QED
            BY <1>0, <2>2, <5>1
        <4>2. CASE r \notin Woken
          <5>1. Woken' = Woken
            BY <2>2, <4>2
          <5> QED
            BY <1>0, <5>1
        <4> QED
          BY <4>1, <4>2
      <3> QED
        BY <1>0, <2>2, <3>1, <3>2 DEF NoLostWakeup
    <2>3. CASE CvWaiters' \subseteq CvWaiters /\ data' = data /\ Woken' = Woken
      BY <2>3 DEF NoLostWakeup
    <2> QED
      BY <1>2, <2>1, <2>2, <2>3, BlockingEffect
  <1>3. ASSUME NEW r \in AsyncReceivers, AsyncStep(r)
        PROVE  NoLostWakeup'
    <2>1. \A b \in BlockingReceivers : pc'[b] = pc[b]
      BY <1>3 DEF TypeOK, AsyncStep, AsyncListen, AsyncCheck, AsyncReturn,
                  AsyncWake, AsyncCancel, Goto, Receivers
    <2>2. CvWaiters' = CvWaiters /\ Woken' = Woken
      BY <2>1 DEF CvWaiters, Woken
    <2>3. PopFront(r) \/ data' = data
      BY <1>3 DEF AsyncStep, AsyncListen, AsyncCheck, AsyncReturn, AsyncWake,
                  AsyncCancel
    <2>4. Len(data') \in Nat /\ Len(data') <= Len(data)
      BY <1>0, <2>3, PopFrontFacts DEF Receivers
    <2> QED
      BY <1>0, <2>2, <2>4 DEF NoLostWakeup
  <1>4. CASE UNCHANGED vars
    BY <1>4 DEF vars, NoLostWakeup, CvWaiters, Woken
  <1> QED
    BY <1>1, <1>2, <1>3, <1>4 DEF Next

\* No thread sleeps beside an item nobody was woken for: the condvar side of
\* push and recv (queue.rs:51, 59-61, 72-77) loses no wake-up, for any number
\* of threads and with tasks and try_recv stealing items in between.
THEOREM NoLostWakeupCorrect == Spec => []NoLostWakeup
  <1>1. Init => NoLostWakeup
    BY DEF Init, NoLostWakeup, CvWaiters, CvWaiting, Receivers
  <1>2. TypeOK /\ NoLostWakeup /\ [Next]_vars => NoLostWakeup'
    BY WakeupNext
  <1> QED
    BY <1>1, <1>2, TypeCorrect, PTL DEF Spec

\* Every step keeps a sole awaiting task notified beside an item.
LEMMA SoleAsyncNext ==
    ASSUME TypeOK, SoleAsyncNotified, [Next]_vars
    PROVE  SoleAsyncNotified'
  <1> SUFFICES ASSUME NEW r \in AsyncReceivers, AsyncReceivers = {r},
                      pc'[r] = "awaiting", data' # <<>>
               PROVE  r \in notified'
    BY DEF SoleAsyncNotified
  <1>0. pc[r] = "awaiting" /\ data # <<>> => r \in notified
    BY DEF SoleAsyncNotified
  <1>1. CASE push
    <2>1. pc[r] = "awaiting"
      BY <1>1, NotifyOneFacts DEF push
    <2>2. Listeners = {r}
      BY <2>1 DEF Listeners, Listening
    <2>3. notified' \in EventNotify({r}, notified) /\ notified \in SUBSET {r}
      BY <1>1, <2>2 DEF push, TypeOK
    <2> QED
      BY <2>3 DEF EventNotify
  <1>2. ASSUME NEW b \in BlockingReceivers, BlockingStep(b)
        PROVE  r \in notified'
    <2>1. pc'[r] = pc[r]
      BY <1>2 DEF TypeOK, BlockingStep, recv, recv_timeout, TimeoutExpires,
                  recv_timeout_resume, try_recv, Goto, Return, Receivers
    <2>2. notified' = notified /\ (data' = data \/ data # <<>>)
      BY <1>2 DEF BlockingStep, recv, recv_timeout, TimeoutExpires,
                  recv_timeout_resume, try_recv, PopFront
    <2> QED
      BY <1>0, <2>1, <2>2
  <1>3. ASSUME AsyncStep(r)
        PROVE  r \in notified'
    <2>1. pc'[r] = "awaiting" => data' = <<>>
      BY <1>3 DEF TypeOK, AsyncStep, AsyncListen, AsyncCheck, AsyncReturn,
                  AsyncWake, AsyncCancel, Goto, Receivers
    <2> QED
      BY <2>1
  <1>4. CASE UNCHANGED vars
    BY <1>0, <1>4 DEF vars
  <1> QED
    BY <1>1, <1>2, <1>3, <1>4 DEF Next

\* A queue with one async receiver never leaves it awaiting beside an item: the
\* listener registered before the check (queue.rs:104-113) closes the race,
\* whatever threads, pushes and cancellations do.
THEOREM SoleAsyncNotifiedCorrect == Spec => []SoleAsyncNotified
  <1>1. Init => SoleAsyncNotified
    BY DEF Init, SoleAsyncNotified, Receivers
  <1>2. TypeOK /\ SoleAsyncNotified /\ [Next]_vars => SoleAsyncNotified'
    BY SoleAsyncNext
  <1> QED
    BY <1>1, <1>2, TypeCorrect, PTL DEF Spec

\* At every moment the queue holds the most recent items, capacity at most, and
\* every other item pushed so far was dropped or delivered exactly once
\* (queue.rs:40-57, 66-115), for any capacity and any receivers.
THEOREM ItemsAccountedCorrect == Spec => []ItemsAccounted
  BY KeepsMostRecentCorrect, ExactlyOnceCorrect, PTL DEF ItemsAccounted

\* No step lets an item out of its turn: pops and drops take the oldest, and push
\* drops only from a full queue (queue.rs:40-49).
THEOREM QueueOrderCorrect == Spec => QueueOrder
  BY DropsOnlyOverflowCorrect, LeavesInOrderCorrect DEF QueueOrder

\* No receiver sleeps beside an item without a wakeup on its way: neither a
\* thread on the condition variable nor the sole awaiting task.
THEOREM WaitersNotifiedCorrect == Spec => []WaitersNotified
  BY NoLostWakeupCorrect, SoleAsyncNotifiedCorrect, PTL DEF WaitersNotified
=============================================================================
