---------------------------- MODULE RmwApiProofs ----------------------------
(***************************************************************************)
(* Theorems about what rmw offers around its entities, for all values of   *)
(* the constants: on-new-data callbacks (NewDataCallback), event managers  *)
(* (Events), options and contexts (RmwContext), QoS profiles (MCQos),      *)
(* names and liveliness tokens (Names).                                    *)
(***************************************************************************)
EXTENDS NewDataCallback, Events, RmwContext, MCQos, Names, TLAPS

-----------------------------------------------------------------------------
(* On-new-data callbacks: any callbacks, any kinds of entity, any items.   *)

\* A setter of a subscription is never at a point of a service's setter.
OwnSteps == kind = "subscription" => setter \in {"idle", "data_first", "locked"}

\* What a setter has stored when it is at each of its points: a call that falls
\* between its two stores sees the settings before and after.
Stored ==
    /\ setter \in {"idle", "data_first", "unread", "callback"} => user_data = callback
    /\ setter = "idle" => setting = callback
    /\ setter \in {"data_first", "unread", "callback"} => <<callback, setting>> \in successive
    /\ setter = "locked" => user_data = setting /\ <<callback, setting>> \in successive
    /\ setter = "data" => callback = setting /\ <<user_data, setting>> \in successive
    /\ kind = "service" => setter \notin {"data_first", "locked"}

\* notify_callback and the setters keep every variable in its type; in
\* particular they never call a null callback.
THEOREM TypeCorrect == CallbackSpec => []CallbackTypeOK
  <1> USE NoneAssumption, MaxItemsAssumption DEF Owners
  <1>1. CallbackInit => CallbackTypeOK
    BY DEF CallbackInit, CallbackTypeOK
  <1>2. CallbackTypeOK /\ [CallbackNext]_callbackVars => CallbackTypeOK'
    <2> SUFFICES ASSUME CallbackTypeOK, [CallbackNext]_callbackVars PROVE CallbackTypeOK'
      OBVIOUS
    <2> USE DEF CallbackTypeOK
    <2>1. CASE UNCHANGED callbackVars
      BY <2>1 DEF callbackVars
    <2>2. CASE CallbackNext
      <3>0. UNCHANGED kind
        BY <2>2 DEF CallbackNext
      <3>1. CASE Arrive
        BY <3>0, <3>1 DEF Arrive
      <3>2. CASE notify_callback
        BY <3>0, <3>2 DEF notify_callback
      <3>3. CASE \E c \in Owners : Begin(c)
        BY <3>0, <3>3 DEF Begin
      <3>4. CASE Subscription_UserData \/ Service_Callback \/ Service_UserData
        BY <3>0, <3>4 DEF Subscription_UserData, Service_Callback, Service_UserData
      <3>5. CASE Subscription_Callback \/ Service_Unread
        BY <3>0, <3>5 DEF Subscription_Callback, Service_Unread, AnnounceUnread
      <3> QED BY <2>2, <3>1, <3>2, <3>3, <3>4, <3>5 DEF CallbackNext, Set
    <2> QED BY <2>1, <2>2
  <1> QED BY <1>1, <1>2, PTL DEF CallbackSpec

\* Whatever notifications race with whatever settings, an item is announced
\* exactly once or counted as unread, once.
THEOREM AnnouncedOnceCorrect == CallbackSpec => []AnnouncedOnce
  <1>1. CallbackInit => AnnouncedOnce
    BY DEF CallbackInit, AnnouncedOnce
  <1>2. CallbackTypeOK /\ AnnouncedOnce /\ [CallbackNext]_callbackVars => AnnouncedOnce'
    <2> SUFFICES ASSUME CallbackTypeOK, AnnouncedOnce, [CallbackNext]_callbackVars PROVE AnnouncedOnce'
      OBVIOUS
    <2>0. items \in Nat /\ queued \in Nat /\ announced \in Nat /\ unread \in Nat
      BY DEF CallbackTypeOK
    <2>1. CASE Arrive
      BY <2>0, <2>1 DEF Arrive, AnnouncedOnce
    <2>2. CASE notify_callback
      BY <2>0, <2>2 DEF notify_callback, AnnouncedOnce
    <2>3. CASE Subscription_Callback \/ Service_Unread
      BY <2>0, <2>3 DEF Subscription_Callback, Service_Unread, AnnounceUnread, AnnouncedOnce
    <2>4. CASE UNCHANGED <<items, queued, announced, unread>>
      BY <2>4 DEF AnnouncedOnce
    <2> QED BY <2>1, <2>2, <2>3, <2>4
            DEF CallbackNext, Set, callbackVars, Begin, Subscription_UserData, Service_Callback,
                Service_UserData
  <1> QED BY <1>1, <1>2, TypeCorrect, PTL DEF CallbackSpec

\* The steps of one kind of setter are not those of the other.
LEMMA OwnStepsKept == CallbackTypeOK /\ OwnSteps /\ [CallbackNext]_callbackVars => OwnSteps'
  BY DEF OwnSteps, CallbackNext, Set, callbackVars, Arrive, notify_callback, Begin,
         Subscription_UserData, Subscription_Callback, Service_Unread,
         Service_Callback, Service_UserData

\* With a subscription, nothing stays unread while a callback is registered:
\* its setter announces and stores under the lock notify_callback takes.
THEOREM SubscriptionNothingUnreadCorrect == CallbackSpec => []SubscriptionNothingUnread
  <1>1. CallbackInit => OwnSteps /\ SubscriptionNothingUnread
    BY DEF CallbackInit, OwnSteps, SubscriptionNothingUnread, NothingUnread
  <1>2. CallbackTypeOK /\ OwnSteps /\ [CallbackNext]_callbackVars => OwnSteps'
    BY OwnStepsKept
  <1>3. CallbackTypeOK /\ OwnSteps /\ SubscriptionNothingUnread /\ [CallbackNext]_callbackVars
           => SubscriptionNothingUnread'
    <2> SUFFICES ASSUME CallbackTypeOK, OwnSteps, SubscriptionNothingUnread, [CallbackNext]_callbackVars,
                        kind' = "subscription"
                 PROVE  NothingUnread'
      BY DEF SubscriptionNothingUnread
    <2>0. /\ kind = "subscription" /\ NothingUnread /\ unread \in Nat
          /\ setter \in {"idle", "data_first", "locked"}
      BY DEF CallbackNext, callbackVars, SubscriptionNothingUnread, OwnSteps, CallbackTypeOK
    <2>1. CASE notify_callback
      BY <2>0, <2>1 DEF notify_callback, NothingUnread
    <2>2. CASE Subscription_Callback
      BY <2>0, <2>2 DEF Subscription_Callback, AnnounceUnread, NothingUnread
    <2>3. CASE UNCHANGED <<callback, unread>>
      BY <2>0, <2>3 DEF NothingUnread
    <2> QED BY <2>0, <2>1, <2>2, <2>3
            DEF CallbackNext, Set, callbackVars, Arrive, Begin, Subscription_UserData, Service_Unread,
                Service_Callback, Service_UserData
  <1> QED BY <1>1, <1>2, <1>3, TypeCorrect, PTL DEF CallbackSpec

\* No call gets data of another setting than its own or the neighbouring one
\* that is being stored.
THEOREM DataCurrentCorrect == CallbackSpec => []DataCurrent
  <1>1. CallbackInit => OwnSteps /\ Stored /\ DataCurrent
    BY DEF CallbackInit, OwnSteps, Stored, DataCurrent
  <1>2. CallbackTypeOK /\ OwnSteps /\ [CallbackNext]_callbackVars => OwnSteps'
    BY OwnStepsKept
  <1>3. CallbackTypeOK /\ OwnSteps /\ Stored /\ [CallbackNext]_callbackVars => Stored'
    <2> SUFFICES ASSUME CallbackTypeOK, OwnSteps, Stored, [CallbackNext]_callbackVars PROVE Stored'
      OBVIOUS
    <2>0. kind \in {"subscription", "service"} /\ kind' = kind
      BY KindsAssumption DEF CallbackTypeOK, CallbackNext, callbackVars
    <2>1. CASE UNCHANGED <<callback, user_data, setter, setting, successive>>
      BY <2>0, <2>1 DEF Stored
    <2>2. ASSUME NEW c \in Owners, Begin(c) PROVE Stored'
      BY <2>0, <2>2 DEF Begin, Stored
    <2>3. CASE Subscription_UserData
      BY <2>0, <2>3 DEF Subscription_UserData, Stored
    <2>4. CASE Subscription_Callback
      BY <2>0, <2>4 DEF Subscription_Callback, Stored
    <2>5. CASE Service_Unread
      BY <2>0, <2>5 DEF Service_Unread, Stored
    <2>6. CASE Service_Callback
      BY <2>0, <2>6 DEF Service_Callback, Stored
    <2>7. CASE Service_UserData
      BY <2>0, <2>7 DEF Service_UserData, Stored
    <2> QED BY <2>1, <2>2, <2>3, <2>4, <2>5, <2>6, <2>7
            DEF CallbackNext, Set, callbackVars, Arrive, notify_callback
  <1>4. CallbackTypeOK /\ OwnSteps /\ Stored /\ DataCurrent /\ [CallbackNext]_callbackVars => DataCurrent'
    <2> SUFFICES ASSUME CallbackTypeOK, OwnSteps, Stored, DataCurrent, [CallbackNext]_callbackVars
                 PROVE  DataCurrent'
      OBVIOUS
    <2>0. kind \in {"subscription", "service"} /\ kind' = kind /\ successive \subseteq successive'
      BY KindsAssumption
         DEF CallbackTypeOK, CallbackNext, callbackVars, Set, Arrive, notify_callback, Begin,
             Subscription_UserData, Subscription_Callback, Service_Unread, Service_Callback, Service_UserData
    <2>1. CASE calls' = calls
      BY <2>0, <2>1 DEF DataCurrent
    <2>2. CASE notify_callback
      <3>1. \/ user_data = callback
            \/ kind = "subscription" /\ <<callback, user_data>> \in successive
            \/ kind = "service" /\ <<user_data, callback>> \in successive
        <4>1. setter \in {"idle", "data_first", "locked", "unread", "callback", "data"}
          BY DEF CallbackTypeOK
        <4> QED BY <2>0, <4>1 DEF Stored, OwnSteps
      <3>2. calls' = calls \/ calls' = calls \cup {<<callback, user_data>>}
        BY <2>2 DEF notify_callback
      <3> QED BY <2>0, <3>1, <3>2 DEF DataCurrent
    <2>3. CASE Subscription_Callback \/ Service_Unread
      <3>1. calls' = calls \/ calls' = calls \cup {<<setting, setting>>}
        BY <2>3 DEF Subscription_Callback, Service_Unread, AnnounceUnread
      <3> QED BY <2>0, <3>1 DEF DataCurrent
    <2> QED BY <2>1, <2>2, <2>3
            DEF CallbackNext, Set, callbackVars, Arrive, Begin, Subscription_UserData, Service_Callback,
                Service_UserData
  <1> QED BY <1>1, <1>2, <1>3, <1>4, TypeCorrect, PTL DEF CallbackSpec

\* Whatever the order of arrivals and setters, no arrival is lost between the
\* counter and the callback, and a subscription with a callback has none counted.
THEOREM NothingForgottenCorrect == CallbackSpec => []NothingForgotten
  BY AnnouncedOnceCorrect, SubscriptionNothingUnreadCorrect, PTL
     DEF NothingForgotten

-----------------------------------------------------------------------------
(* Event managers: any policies, any numbers of conflicts, any number of     *)
(* operations in any order.                                                  *)

Statuses == [total : Int, total_change : Int, current : Int, current_change : Int,
             changed : BOOLEAN, policy : Int]
Managers == [status : Statuses, callback : {"none", "user", "null"}, heard : Int]

\* All that the proofs need to know of the integers' widths.
LEMMA Sizes == USIZE \in Nat /\ 1 < USIZE /\ Bits16 \in Nat /\ Bits15 \in Nat /\ 0 < Bits15 /\ Bits15 < Bits16
  BY SMT DEF USIZE, Bits15, Bits16

\* Remainder and quotient for any modulus.
LEMMA RemainderSmall == ASSUME NEW k \in Nat, NEW n \in 0..(k - 1) PROVE n % k = n
  BY Z3

\* Wrapping below zero.
LEMMA RemainderMinusOne == ASSUME NEW k \in Nat, 1 < k PROVE (-1) % k = k - 1
  BY Z3

\* A value shifted above another is found again by division.
LEMMA DivideShifted ==
  ASSUME NEW k \in Nat, NEW n \in 0..(k - 1), NEW p \in Nat
  PROVE  (p * k + n) \div k = p /\ (p * k + n) % k = n
  BY Z3

\* A count that did not overflow is the same as size_t; -1 is the largest one.
LEMMA UsizeSmall == ASSUME NEW n \in 0..(USIZE - 1) PROVE Usize(n) = n
  BY Sizes, RemainderSmall DEF Usize

\* Minus one, as a usize.
LEMMA UsizeMinusOne == Usize(-1) = USIZE - 1
  BY Sizes, Z3 DEF Usize

\* A usize is a natural number.
LEMMA UsizeNat == ASSUME NEW n \in Int PROVE Usize(n) \in Nat
  BY Sizes, Z3 DEF Usize

\* What calling the callback changes of a manager.
LEMMA CalledResult ==
  ASSUME NEW m \in Managers, NEW n \in Int
  PROVE  /\ Called(m, n) \in Managers
         /\ Called(m, n).status = m.status
         /\ Called(m, n).callback = m.callback
         /\ m.callback = "user" => Called(m, n).heard = m.heard + Usize(n)
         /\ m.callback # "user" => Called(m, n).heard = m.heard
  BY UsizeNat DEF Called, Managers

\* A new callback hears of what is unread, which then counts as read.
LEMMA SetResult ==
  ASSUME NEW m \in Managers, NEW c \in {"user", "null"}
  PROVE  LET new == set_callback(m, c)
         IN  /\ new \in Managers
             /\ new.callback = c
             /\ new.status = [m.status EXCEPT !.total_change = 0]
             /\ (c = "user" /\ m.status.total_change # 0) =>
                    new.heard = m.heard + Usize(m.status.total_change)
             /\ (c # "user" \/ m.status.total_change = 0) => new.heard = m.heard
  <1> PICK n : n = [m EXCEPT !.callback = c]
    OBVIOUS
  <1>1. /\ n \in Managers /\ n.callback = c /\ n.status = m.status /\ n.heard = m.heard
        /\ m.status \in Statuses /\ m.status.total_change \in Int
    BY DEF Managers, Statuses
  <1>2. CASE m.status.total_change = 0
    <2>1. set_callback(m, c) = n
      BY <1>2 DEF set_callback
    <2>2. [m.status EXCEPT !.total_change = 0] = m.status
      BY <1>1, <1>2 DEF Statuses
    <2> QED BY <1>1, <1>2, <2>1, <2>2
  <1>3. CASE m.status.total_change # 0
    <2> PICK d : d = Called(n, m.status.total_change)
      OBVIOUS
    <2>1. set_callback(m, c) = [d EXCEPT !.status.total_change = 0]
      BY <1>3 DEF set_callback
    <2>2. /\ d \in Managers /\ d.status = m.status /\ d.callback = c
          /\ c = "user" => d.heard = m.heard + Usize(m.status.total_change)
          /\ c # "user" => d.heard = m.heard
      <3>1. d \in Managers /\ d.status = n.status /\ d.callback = n.callback
        BY <1>1, CalledResult
      <3>2. n.callback = "user" => d.heard = n.heard + Usize(m.status.total_change)
        BY <1>1, CalledResult
      <3>3. n.callback # "user" => d.heard = n.heard
        BY <1>1, CalledResult
      <3> QED BY <1>1, <3>1, <3>2, <3>3
    <2>3. [m.status EXCEPT !.total_change = 0] \in Statuses
      BY <1>1 DEF Statuses
    <2> QED BY <1>3, <2>1, <2>2, <2>3 DEF Managers
  <1> QED BY <1>1, <1>2, <1>3

\* A change moves all four counts and is what the callback is called with.
LEMMA UpdateResult ==
  ASSUME NEW m \in Managers, NEW change \in Int, NEW policy \in Int, NEW more \in Int,
         more = IF change > 0 THEN change ELSE 0
  PROVE  LET new == update_event_status_with_policy(m, change, policy)
         IN  /\ new \in Managers
             /\ new.callback = m.callback
             /\ new.status.total = m.status.total + more
             /\ new.status.total_change = m.status.total_change + more
             /\ new.status.current = m.status.current + change
             /\ new.status.current_change = m.status.current_change + change
             /\ policy # 0 => new.status.policy = policy
             /\ m.callback = "user" => new.heard = m.heard + Usize(change)
             /\ m.callback # "user" => new.heard = m.heard
  <1> PICK kept : kept = IF policy # 0 THEN policy ELSE m.status.policy
    OBVIOUS
  <1> PICK s : s = [total |-> m.status.total + more,
                    total_change |-> m.status.total_change + more,
                    current |-> m.status.current + change,
                    current_change |-> m.status.current_change + change,
                    changed |-> TRUE, policy |-> kept]
    OBVIOUS
  <1> PICK n : n = [m EXCEPT !.status = s]
    OBVIOUS
  <1>1. s \in Statuses
    <2>1. m.status \in Statuses
      BY DEF Managers
    <2>2. kept \in Int
      BY <2>1 DEF Statuses
    <2> QED BY <2>1, <2>2 DEF Statuses
  <1>2. /\ s.total = m.status.total + more /\ s.total_change = m.status.total_change + more
        /\ s.current = m.status.current + change
        /\ s.current_change = m.status.current_change + change
        /\ policy # 0 => s.policy = policy
    OBVIOUS
  <1>3. n \in Managers /\ n.status = s /\ n.callback = m.callback /\ n.heard = m.heard
    BY <1>1 DEF Managers
  <1>4. update_event_status_with_policy(m, change, policy) = Called(n, change)
    BY DEF update_event_status_with_policy
  <1>5. /\ Called(n, change) \in Managers /\ Called(n, change).status = s
        /\ Called(n, change).callback = m.callback
        /\ m.callback = "user" => Called(n, change).heard = m.heard + Usize(change)
        /\ m.callback # "user" => Called(n, change).heard = m.heard
    <2>1. /\ Called(n, change) \in Managers /\ Called(n, change).status = n.status
          /\ Called(n, change).callback = n.callback
      BY <1>3, CalledResult, ZenonT(40)
    <2>2. n.callback = "user" => Called(n, change).heard = n.heard + Usize(change)
      BY <1>3, CalledResult
    <2>3. n.callback # "user" => Called(n, change).heard = n.heard
      BY <1>3, CalledResult
    <2> QED BY <1>3, <2>1, <2>2, <2>3
  <1> QED BY <1>2, <1>4, <1>5

\* The i32 that carries policy and change is taken apart into what was put in.
LEMMA PolicyDecoded ==
  ASSUME NEW policy \in Nat, policy # 0, policy < Bits16, NEW n \in 0..(Bits16 - 1)
  PROVE  Decoded(Encoded(policy, n)) = [policy |-> policy, change |-> n]
  <1>1. n % Bits16 = n
    BY Sizes, RemainderSmall
  <1>2. Encoded(policy, n) = policy * Bits16 + n
    BY <1>1 DEF Encoded
  <1>3. /\ (policy * Bits16 + n) \div Bits16 = policy
        /\ (policy * Bits16 + n) % Bits16 = n
    BY Sizes, DivideShifted, Z3
  <1>4. policy % Bits16 = policy
    BY Sizes, RemainderSmall
  <1> QED BY <1>2, <1>3, <1>4 DEF Decoded

\* A policy and a count that fit their halves of the sample are taken apart again.
LEMMA ConflictResult ==
  ASSUME NEW m \in Managers, NEW policy \in Nat, policy # 0, policy < Bits16,
         NEW n \in 0..(Bits16 - 1)
  PROVE  QosIncompatible(m, policy, n) = update_event_status_with_policy(m, n, policy)
  BY PolicyDecoded DEF QosIncompatible

\* Whatever the event, the total that is reported is the manager's.
LEMMA TakenTotal ==
  ASSUME NEW m \in Managers, m.status.total \in 0..(USIZE - 1), NEW t
  PROVE  rmw_take_event(m, t).total_count = m.status.total
  <1>1. Usize(m.status.total) = m.status.total
    BY UsizeSmall
  <1>2. CASE t \in {"SubscriptionMatched", "PublicationMatched"}
    BY <1>1, <1>2 DEF rmw_take_event
  <1>3. CASE t \in {"RequestedQosIncompatible", "OfferedQosIncompatible"}
    BY <1>3 DEF rmw_take_event
  <1>4. CASE t \notin {"SubscriptionMatched", "PublicationMatched", "RequestedQosIncompatible",
                       "OfferedQosIncompatible"}
    BY <1>4 DEF rmw_take_event
  <1> QED BY <1>2, <1>3, <1>4

EventTypeOK ==
    /\ manager \in Managers
    /\ appeared \in Nat /\ gone \in Nat /\ handed \in Nat /\ also \in Nat /\ lost \in Nat
    /\ reported \in Nat /\ changes \in Int /\ wrapped \in Nat
    /\ sets \in Nat /\ clears \in Nat /\ takes \in Nat

\* The counts of the manager: all that appeared, less what went.
Counted ==
    /\ appeared <= MaxEvents
    /\ manager.status.total = appeared
    /\ manager.status.current = appeared - gone
    /\ changes + manager.status.current_change = appeared - gone

\* Every event is unread, or was reported, handed to a callback or lost.
SharedOut ==
    /\ manager.status.total_change >= 0
    /\ reported + manager.status.total_change + lost + handed = appeared
    /\ clears = 0 => lost = 0
    /\ takes = 0 => reported = 0

\* What the callback heard, and when there was one.
HeardInv ==
    /\ manager.heard = handed + also + (USIZE - 1) * wrapped
    /\ sets = 0 => manager.callback # "user" /\ handed = 0 /\ also = 0
    /\ (sets = 1 /\ clears = 0 /\ takes = 0) =>
          manager.callback = "user" /\ manager.status.total_change = also

EventInv == EventTypeOK /\ Counted /\ SharedOut /\ HeardInv

\* The invariant holds before any event.
LEMMA EventInvInit == EventInit => EventInv
  <1> SUFFICES ASSUME EventInit PROVE EventInv
    OBVIOUS
  <1>1. NoStatus \in Statuses
    BY DEF NoStatus, Statuses
  <1>2. NewManager \in Managers
    BY <1>1 DEF NewManager, Managers
  <1>3. Counted /\ SharedOut
    BY MaxEventsAssumption DEF EventInit, NewManager, NoStatus, Counted, SharedOut
  <1>4. (USIZE - 1) * 0 = 0
    BY Sizes
  <1>5. HeardInv
    BY <1>4 DEF EventInit, NewManager, NoStatus, HeardInv
  <1> QED BY <1>2, <1>3, <1>5 DEF EventInit, EventInv, EventTypeOK

\* The types of the manager's counts.
LEMMA CountTypes ==
  ASSUME EventTypeOK
  PROVE  /\ manager.status \in Statuses
         /\ manager.status.total \in Int /\ manager.status.total_change \in Int
         /\ manager.status.current \in Int /\ manager.status.current_change \in Int
         /\ manager.heard \in Int /\ (USIZE - 1) * wrapped \in Int
  BY Sizes DEF EventTypeOK, Managers, Statuses

\* An unread count did not overflow.
LEMMA UnreadSmall ==
  ASSUME EventInv
  PROVE  /\ manager.status.total_change \in Nat
         /\ Usize(manager.status.total_change) = manager.status.total_change
  <1>1. EventTypeOK /\ Counted /\ SharedOut
    BY DEF EventInv
  <1>2. manager.status.total_change \in Nat /\ manager.status.total_change <= MaxEvents
    BY <1>1, CountTypes, MaxEventsAssumption, Sizes DEF EventTypeOK, Counted, SharedOut
  <1>3. manager.status.total_change \in 0..(USIZE - 1)
    BY <1>2, MaxEventsAssumption, Sizes
  <1> QED BY <1>2, <1>3, UsizeSmall

\* A callback that is set is handed what is unread, one that is cleared loses it.
LEMMA CallbackKeeps ==
  ASSUME EventInv, NEW c \in {"user", "null"},
         manager' = set_callback(manager, c),
         c = "user" => SetCallback, c = "null" => ClearCallback
  PROVE  EventInv'
  <1>0. EventTypeOK /\ Counted /\ SharedOut /\ HeardInv
    BY DEF EventInv
  <1>1. /\ manager.status.total_change \in Nat
        /\ Usize(manager.status.total_change) = manager.status.total_change
    BY UnreadSmall
  <1>2. manager \in Managers
    BY <1>0 DEF EventTypeOK
  <1>3. manager' \in Managers /\ manager'.callback = c
    BY <1>2, SetResult
  <1>4. manager'.status = [manager.status EXCEPT !.total_change = 0]
    BY <1>2, SetResult
  <1>5. /\ manager'.status.total_change = 0
        /\ manager'.status.total = manager.status.total
        /\ manager'.status.current = manager.status.current
        /\ manager'.status.current_change = manager.status.current_change
    BY <1>0, <1>4, CountTypes DEF Statuses
  <1>6. EventTypeOK'
    BY <1>0, <1>1, <1>3 DEF EventTypeOK, SetCallback, ClearCallback
  <1>7. Counted'
    BY <1>0, <1>5 DEF Counted, SetCallback, ClearCallback
  <1>8. SharedOut'
    BY <1>0, <1>1, <1>5, CountTypes DEF SharedOut, EventTypeOK, SetCallback, ClearCallback
  <1>9. CASE c = "user"
    <2>1. manager'.heard = manager.heard + manager.status.total_change
      <3>1. manager.heard \in Int
        BY <1>0, CountTypes
      <3>2. manager.status.total_change # 0 =>
               manager'.heard = manager.heard + Usize(manager.status.total_change)
        BY <1>2, <1>9, SetResult
      <3>3. manager.status.total_change = 0 => manager'.heard = manager.heard
        BY <1>2, <1>9, SetResult
      <3> QED BY <1>1, <3>1, <3>2, <3>3
    <2> QED BY <1>0, <1>1, <1>3, <1>5, <1>6, <1>7, <1>8, <1>9, <2>1, CountTypes
            DEF EventInv, HeardInv, EventTypeOK, SetCallback
  <1>10. CASE c = "null"
    <2>1. manager'.heard = manager.heard
      BY <1>2, <1>10, SetResult
    <2> QED BY <1>0, <1>3, <1>5, <1>6, <1>7, <1>8, <1>10, <2>1, CountTypes
            DEF EventInv, HeardInv, EventTypeOK, ClearCallback
  <1> QED BY <1>9, <1>10

\* Events that appear, matched or in conflict, add to the unread ones and are
\* what a callback is called with.
LEMMA AppearKeeps ==
  ASSUME EventInv, NEW n \in Nat, n # 0, appeared + n <= MaxEvents,
         NEW policy \in Int,
         manager' = update_event_status_with_policy(manager, n, policy),
         appeared' = appeared + n, also' = also + Heeded(n),
         UNCHANGED <<gone, handed, lost, reported, changes, wrapped, sets, clears, takes>>
  PROVE  EventInv'
  <1>0. EventTypeOK /\ Counted /\ SharedOut /\ HeardInv
    BY DEF EventInv
  <1>1. manager \in Managers /\ n \in Int /\ n = IF n > 0 THEN n ELSE 0
    BY <1>0 DEF EventTypeOK
  <1>2. n \in 0..(USIZE - 1)
    BY <1>0, MaxEventsAssumption, Sizes DEF EventTypeOK
  <1>3. Usize(n) = n
    BY <1>2, UsizeSmall
  <1>4. /\ manager' \in Managers /\ manager'.callback = manager.callback
        /\ manager'.status.total = manager.status.total + n
        /\ manager'.status.total_change = manager.status.total_change + n
        /\ manager'.status.current = manager.status.current + n
        /\ manager'.status.current_change = manager.status.current_change + n
        /\ manager.callback = "user" => manager'.heard = manager.heard + n
        /\ manager.callback # "user" => manager'.heard = manager.heard
    BY <1>1, <1>3, UpdateResult
  <1>5. Heeded(n) \in Nat
    BY DEF Heeded
  <1>6. EventTypeOK'
    BY <1>0, <1>4, <1>5 DEF EventTypeOK
  <1>7. Counted'
    BY <1>0, <1>4, CountTypes DEF Counted, EventTypeOK
  <1>8. SharedOut'
    BY <1>0, <1>4, CountTypes DEF SharedOut, EventTypeOK
  <1>9. HeardInv'
    <2>1. CASE manager.callback = "user"
      <3>1. also' = also + n
        BY <2>1 DEF Heeded
      <3> QED BY <1>0, <1>4, <2>1, <3>1, CountTypes DEF HeardInv, EventTypeOK
    <2>2. CASE manager.callback # "user"
      <3>1. also' = also
        BY <1>0, <2>2 DEF Heeded, EventTypeOK
      <3> QED BY <1>0, <1>4, <2>2, <3>1, CountTypes DEF HeardInv, EventTypeOK
    <2> QED BY <2>1, <2>2
  <1> QED BY <1>6, <1>7, <1>8, <1>9 DEF EventInv

\* An event that went lowers the current count; a callback hears the largest
\* size_t, which is no event.
LEMMA VanishKeeps ==
  ASSUME EventInv, Vanish
  PROVE  EventInv'
  <1>0. EventTypeOK /\ Counted /\ SharedOut /\ HeardInv
    BY DEF EventInv
  <1>1. manager \in Managers
    BY <1>0 DEF EventTypeOK
  <1>2. /\ manager' \in Managers /\ manager'.callback = manager.callback
        /\ manager'.status.total = manager.status.total + 0
        /\ manager'.status.total_change = manager.status.total_change + 0
        /\ manager'.status.current = manager.status.current + (-1)
        /\ manager'.status.current_change = manager.status.current_change + (-1)
        /\ manager.callback = "user" => manager'.heard = manager.heard + (USIZE - 1)
        /\ manager.callback # "user" => manager'.heard = manager.heard
    <2>1. (-1) \in Int /\ 0 = IF (-1) > 0 THEN (-1) ELSE 0
      OBVIOUS
    <2>2. manager' = update_event_status_with_policy(manager, -1, 0)
      BY DEF Vanish, update_event_status
    <2> QED BY <1>1, <2>1, <2>2, UpdateResult, UsizeMinusOne
  <1>3. Heeded(1) \in Nat
    BY DEF Heeded
  <1>4. EventTypeOK'
    BY <1>0, <1>2, <1>3 DEF EventTypeOK, Vanish
  <1>5. Counted'
    BY <1>0, <1>2, CountTypes DEF Counted, EventTypeOK, Vanish
  <1>6. SharedOut'
    BY <1>0, <1>2, CountTypes DEF SharedOut, EventTypeOK, Vanish
  <1>7. HeardInv'
    <2>1. CASE manager.callback = "user"
      <3>1. wrapped' = wrapped + 1
        BY <2>1 DEF Heeded, Vanish
      <3>2. (USIZE - 1) * (wrapped + 1) = (USIZE - 1) * wrapped + (USIZE - 1)
        BY <1>0, Sizes DEF EventTypeOK
      <3> QED BY <1>0, <1>2, <2>1, <3>1, <3>2, CountTypes, Sizes DEF HeardInv, EventTypeOK, Vanish
    <2>2. CASE manager.callback # "user"
      <3>1. wrapped' = wrapped
        BY <1>0, <2>2 DEF Heeded, Vanish, EventTypeOK
      <3> QED BY <1>0, <1>2, <2>2, <3>1, CountTypes DEF HeardInv, EventTypeOK, Vanish
    <2> QED BY <2>1, <2>2
  <1> QED BY <1>4, <1>5, <1>6, <1>7 DEF EventInv

\* What a take of a matched event reports.
LEMMA TakenMatched ==
  ASSUME EventInv
  PROVE  LET taken == rmw_take_event(manager, "PublicationMatched")
         IN  /\ taken.total_count_change = manager.status.total_change
             /\ taken.current_count_change = manager.status.current_change
             /\ taken.current_count = Usize(manager.status.current)
  BY UnreadSmall DEF rmw_take_event

\* A take reports what is unread and what changed, once.
LEMMA TakeKeeps ==
  ASSUME EventInv, TakeEvent
  PROVE  EventInv'
  <1>0. EventTypeOK /\ Counted /\ SharedOut /\ HeardInv
    BY DEF EventInv
  <1>1. manager \in Managers /\ manager.status \in Statuses /\ manager.status.total_change \in Nat
    BY <1>0, CountTypes, UnreadSmall DEF EventTypeOK
  <1>2. /\ reported' = reported + manager.status.total_change
        /\ changes' = changes + manager.status.current_change
    BY TakenMatched DEF TakeEvent
  <1>3. /\ manager' \in Managers /\ manager'.callback = manager.callback
        /\ manager'.heard = manager.heard
        /\ manager'.status.total = manager.status.total /\ manager'.status.total_change = 0
        /\ manager'.status.current = manager.status.current /\ manager'.status.current_change = 0
    <2> PICK s : s = [total |-> manager.status.total, total_change |-> 0,
                      current |-> manager.status.current, current_change |-> 0,
                      changed |-> FALSE, policy |-> manager.status.policy]
      OBVIOUS
    <2>1. s \in Statuses
      BY <1>1 DEF Statuses
    <2>2. /\ s.total = manager.status.total /\ s.total_change = 0
          /\ s.current = manager.status.current /\ s.current_change = 0
      BY <1>1 DEF Statuses
    <2>3. manager' = [manager EXCEPT !.status = s]
      BY DEF TakeEvent, take_event_status
    <2> QED BY <1>1, <2>1, <2>2, <2>3 DEF Managers
  <1>4. EventTypeOK'
    BY <1>0, <1>1, <1>2, <1>3, CountTypes DEF EventTypeOK, TakeEvent
  <1>5. Counted'
    BY <1>0, <1>2, <1>3, CountTypes DEF Counted, EventTypeOK, TakeEvent
  <1>6. SharedOut'
    BY <1>0, <1>2, <1>3, CountTypes DEF SharedOut, EventTypeOK, TakeEvent
  <1>7. HeardInv'
    BY <1>0, <1>3, CountTypes DEF HeardInv, EventTypeOK, TakeEvent
  <1> QED BY <1>4, <1>5, <1>6, <1>7 DEF EventInv

\* Every operation of the manager keeps the invariant.
LEMMA EventInvNext == EventInv /\ [EventNext]_eventVars => EventInv'
  <1> SUFFICES ASSUME EventInv, [EventNext]_eventVars PROVE EventInv'
    OBVIOUS
  <1>1. CASE UNCHANGED eventVars
    BY <1>1 DEF eventVars, EventInv, EventTypeOK, Counted, SharedOut, HeardInv
  <1>2. CASE SetCallback
    BY <1>2, CallbackKeeps DEF SetCallback
  <1>3. CASE ClearCallback
    BY <1>3, CallbackKeeps DEF ClearCallback
  <1>4. CASE Appear
    <2>1. appeared \in Nat
      BY DEF EventInv, EventTypeOK
    <2>2. appeared + 1 <= MaxEvents
      BY <1>4, <2>1, MaxEventsAssumption, Sizes DEF Appear
    <2>3. manager' = update_event_status_with_policy(manager, 1, 0)
      BY <1>4 DEF Appear, update_event_status
    <2> QED BY <1>4, <2>2, <2>3, AppearKeeps DEF Appear
  <1>5. CASE Vanish
    BY <1>5, VanishKeeps
  <1>6. CASE TakeEvent
    BY <1>6, TakeKeeps
  <1>7. ASSUME NEW policy \in Policies, NEW n \in Counts, Conflict(policy, n)
        PROVE  EventInv'
    <2>1. policy \in Nat /\ policy # 0 /\ policy < Bits16
      BY PoliciesAssumption, Sizes
    <2>2. n \in Nat /\ n # 0 /\ n \in 0..(Bits16 - 1)
      BY CountsAssumption, Sizes
    <2>3. manager \in Managers
      BY DEF EventInv, EventTypeOK
    <2>4. manager' = update_event_status_with_policy(manager, n, policy)
      BY <1>7, <2>1, <2>2, <2>3, ConflictResult DEF Conflict
    <2> QED BY <1>7, <2>1, <2>2, <2>4, AppearKeeps DEF Conflict
  <1> QED BY <1>1, <1>2, <1>3, <1>4, <1>5, <1>6, <1>7 DEF EventNext

\* The invariant says what takes and callbacks add up to.
LEMMA EventInvSound == EventInv => EventsSound
  <1> SUFFICES ASSUME EventInv PROVE EventsSound
    OBVIOUS
  <1>0. EventTypeOK /\ Counted /\ SharedOut /\ HeardInv
    BY DEF EventInv
  <1>1. manager \in Managers /\ manager.status.total \in 0..(USIZE - 1)
    BY <1>0, MaxEventsAssumption, Sizes DEF EventTypeOK, Counted
  <1>2. ChangesAddUp
    <2> PICK now : now = rmw_take_event(manager, "PublicationMatched")
      OBVIOUS
    <2>1. /\ now.total_count_change = manager.status.total_change
          /\ now.current_count_change = manager.status.current_change
          /\ now.current_count = Usize(manager.status.current)
      BY TakenMatched
    <2>2. \A n \in 0..12 : rmw_take_event(manager, rmw_event_type_to_zenoh_event(n)).total_count = appeared
      BY <1>0, <1>1, TakenTotal DEF Counted
    <2>3. changes + now.current_count_change = appeared - gone
      BY <1>0, <2>1 DEF Counted
    <2>4. now.current_count = Usize(appeared - gone)
      BY <1>0, <2>1 DEF Counted
    <2>5. /\ reported + now.total_count_change <= appeared
          /\ sets = 0 => (reported + now.total_count_change) + lost = appeared
          /\ clears = 0 => lost = 0
      BY <1>0, <2>1, CountTypes DEF SharedOut, HeardInv, EventTypeOK
    <2> QED BY <2>2, <2>3, <2>4, <2>5 DEF ChangesAddUp
  <1>3. EventsAnnounced
    <2>0. (USIZE - 1) * wrapped \in Int
      BY <1>0, CountTypes
    <2> PICK w \in Int : w = (USIZE - 1) * wrapped
      BY <2>0
    <2>1. Heard = manager.heard - w
      BY DEF Heard
    <2>c. PICK c : c = manager.status.total_change
      OBVIOUS
    <2>4. /\ manager.heard \in Int /\ c \in Int /\ handed \in Int /\ also \in Int
          /\ reported \in Int /\ lost \in Int /\ appeared \in Int
      BY <1>0, <2>c, CountTypes DEF EventTypeOK
    <2>5. manager.heard = handed + also + w
      BY <1>0 DEF HeardInv
    <2>6. reported + c + lost + handed = appeared
      BY <1>0, <2>c DEF SharedOut
    <2>2. Heard + reported + manager.status.total_change + lost = appeared + also
      <3>1. Heard = handed + also
        BY <2>1, <2>4, <2>5
      <3>2. (handed + also) + reported + c + lost = appeared + also
        BY <2>4, <2>6
      <3> QED BY <2>c, <3>1, <3>2
    <2>3. (clears = 0 /\ takes = 0 /\ sets = 1) => Heard = appeared
      <3>1. clears = 0 => lost = 0
        BY <1>0 DEF SharedOut
      <3>2. takes = 0 => reported = 0
        BY <1>0 DEF SharedOut
      <3>3. (sets = 1 /\ clears = 0 /\ takes = 0) => c = also
        BY <1>0, <2>c DEF HeardInv
      <3> QED BY <2>1, <2>4, <2>5, <2>6, <3>1, <3>2, <3>3
    <2> QED BY <2>2, <2>3 DEF EventsAnnounced
  <1>4. PolicyArrives
    <2> SUFFICES ASSUME NEW policy \in Policies, NEW n \in Counts
                 PROVE  rmw_take_event(QosIncompatible(manager, policy, n), "OfferedQosIncompatible") =
                           [total_count |-> manager.status.total + n,
                            total_count_change |-> manager.status.total_change + n,
                            last_policy_kind |-> policy]
      BY DEF PolicyArrives
    <2>1. policy \in Nat /\ policy # 0 /\ policy < Bits16
      BY PoliciesAssumption, Sizes
    <2>2. n \in Nat /\ n \in Int /\ n \in 0..(Bits16 - 1) /\ n = IF n > 0 THEN n ELSE 0
      BY CountsAssumption, Sizes
    <2> PICK m : m = QosIncompatible(manager, policy, n)
      OBVIOUS
    <2>3. m = update_event_status_with_policy(manager, n, policy)
      BY <1>1, <2>1, <2>2, ConflictResult
    <2>4. /\ m.status.total = manager.status.total + n
          /\ m.status.total_change = manager.status.total_change + n
          /\ m.status.policy = policy
      BY <1>1, <2>1, <2>2, <2>3, UpdateResult
    <2>5. rmw_take_event(m, "OfferedQosIncompatible") =
             [total_count |-> m.status.total, total_count_change |-> m.status.total_change,
              last_policy_kind |-> m.status.policy]
      BY DEF rmw_take_event
    <2> QED BY <2>4, <2>5
  <1> QED BY <1>2, <1>3, <1>4 DEF EventsSound

\* Whatever is set, cleared, taken and reported by the graph, in whatever order,
\* no event is lost between manager, callback and takes, none is reported twice
\* by takes, and policy and count of a conflict arrive as the graph sent them.
THEOREM EventsSoundCorrect == EventSpec => []EventsSound
  <1>1. EventInit => EventInv
    BY EventInvInit
  <1>2. EventInv /\ [EventNext]_eventVars => EventInv'
    BY EventInvNext
  <1>3. EventInv => EventsSound
    BY EventInvSound
  <1> QED BY <1>1, <1>2, <1>3, PTL DEF EventSpec

-----------------------------------------------------------------------------
(* The options of rmw. *)

OptionTypeOK ==
    /\ allocator \in [Structs -> BOOLEAN]
    /\ owned \in [Structs -> [Fields -> Int]]
    /\ blocks \in SUBSET Int
    /\ allocated \in Int
    /\ ~twice

\* What is owned was handed out; nothing has two owners, and nothing is lost.
Handed == \A o \in Structs : \A f \in Fields : owned[o][f] <= allocated
OneOwner ==
    \A o, p \in Structs : \A f, g \in Fields :
       owned[o][f] # 0 /\ owned[o][f] = owned[p][g] => o = p /\ f = g
AllOwned == \A b : b \in blocks <=> b # 0 /\ \E o \in Structs : \E f \in Fields : b = owned[o][f]
OptionInv == OptionTypeOK /\ allocated >= 0 /\ Handed /\ OneOwner /\ AllOwned

\* No options own anything initially.
LEMMA OptionInvInit == OptionInit => OptionInv
  BY DEF OptionInit, OptionInv, OptionTypeOK, Handed, OneOwner, AllOwned

\* The number of a field, and the new blocks: larger than all before, one each.
LEMMA NewBlocks ==
  ASSUME OptionTypeOK, allocated >= 0
  PROVE  /\ \A f \in Fields : /\ NewBlock(f) \in Int /\ NewBlock(f) # 0
                              /\ NewBlock(f) > allocated /\ NewBlock(f) <= allocated + 3
         /\ \A f, g \in Fields : NewBlock(f) = NewBlock(g) => f = g
  <1>1. /\ \A f \in Fields : Nth[f] \in 1..3
        /\ \A f, g \in Fields : Nth[f] = Nth[g] => f = g
    BY DEF Nth, Fields
  <1>2. allocated \in Int
    BY DEF OptionTypeOK
  <1>3. \A f \in Fields : NewBlock(f) = allocated + Nth[f]
    BY DEF NewBlock
  <1>4. \A f \in Fields : /\ NewBlock(f) \in Int /\ NewBlock(f) # 0
                          /\ NewBlock(f) > allocated /\ NewBlock(f) <= allocated + 3
    BY <1>1, <1>2, <1>3
  <1>5. ASSUME NEW f \in Fields, NEW g \in Fields, NewBlock(f) = NewBlock(g)
        PROVE  f = g
    <2>1. Nth[f] \in Int /\ Nth[g] \in Int
      BY <1>1
    <2>2. Nth[f] = Nth[g]
      BY <1>2, <1>3, <1>5, <2>1
    <2> QED BY <1>1, <2>2
  <1> QED BY <1>4, <1>5

\* A struct that owned nothing is given new blocks.
LEMMA GivenKeeps ==
  ASSUME OptionInv, NEW o \in Structs, Unused(o), NEW fs \in SUBSET Fields, Allocate(fs),
         owned' = [owned EXCEPT ![o] = [f \in Fields |-> IF f \in fs THEN NewBlock(f) ELSE 0]],
         allocator' \in [Structs -> BOOLEAN], UNCHANGED twice
  PROVE  OptionInv'
  <1>0. OptionTypeOK /\ allocated >= 0 /\ Handed /\ OneOwner /\ AllOwned
    BY DEF OptionInv
  <1>1. /\ allocated \in Int /\ owned \in [Structs -> [Fields -> Int]] /\ blocks \in SUBSET Int
    BY <1>0 DEF OptionTypeOK
  <1>2. allocated' = allocated + 3 /\ blocks' = blocks \cup {NewBlock(f) : f \in fs}
    BY DEF Allocate
  <1>3. /\ \A f \in Fields : /\ NewBlock(f) \in Int /\ NewBlock(f) # 0
                             /\ NewBlock(f) > allocated /\ NewBlock(f) <= allocated + 3
        /\ \A f, g \in Fields : NewBlock(f) = NewBlock(g) => f = g
    BY <1>0, NewBlocks
  <1> PICK new : new = [f \in Fields |-> IF f \in fs THEN NewBlock(f) ELSE 0]
    OBVIOUS
  <1>4. new \in [Fields -> Int]
    BY <1>3
  <1>5. \A f \in Fields : (f \in fs => new[f] = NewBlock(f)) /\ (f \notin fs => new[f] = 0)
    OBVIOUS
  <1>6. owned' = [owned EXCEPT ![o] = new]
    OBVIOUS
  <1>7. owned'[o] = new /\ \A p \in Structs : p # o => owned'[p] = owned[p]
    BY <1>1, <1>6
  <1>8. OptionTypeOK'
    <2>1. owned' \in [Structs -> [Fields -> Int]]
      BY <1>1, <1>4, <1>6
    <2>2. blocks' \in SUBSET Int
      BY <1>1, <1>2, <1>3
    <2> QED BY <1>0, <1>1, <1>2, <2>1, <2>2 DEF OptionTypeOK
  <1>9. allocated' >= 0
    BY <1>0, <1>1, <1>2
  <1>10. Handed'
    <2> SUFFICES ASSUME NEW p \in Structs, NEW f \in Fields PROVE owned'[p][f] <= allocated'
      BY DEF Handed
    <2>1. CASE p = o /\ f \in fs
      BY <1>2, <1>3, <1>5, <1>7, <2>1
    <2>2. CASE p = o /\ f \notin fs
      BY <1>5, <1>7, <1>9, <2>2
    <2>3. CASE p # o
      <3>1. owned'[p][f] = owned[p][f] /\ owned[p][f] \in Int
        BY <1>1, <1>7, <2>3
      <3>2. owned[p][f] <= allocated
        BY <1>0 DEF Handed
      <3> QED BY <1>1, <1>2, <3>1, <3>2
    <2> QED BY <2>1, <2>2, <2>3
  <1>11. OneOwner'
    <2> SUFFICES ASSUME NEW p \in Structs, NEW q \in Structs, NEW f \in Fields, NEW g \in Fields,
                        owned'[p][f] # 0, owned'[p][f] = owned'[q][g]
                 PROVE  p = q /\ f = g
      BY DEF OneOwner
    <2>0. /\ owned[p][f] \in Int /\ owned[q][g] \in Int
          /\ owned[p][f] <= allocated /\ owned[q][g] <= allocated
      BY <1>0, <1>1 DEF Handed
    <2>1. CASE p = o /\ q = o
      <3>1. f \in fs /\ g \in fs
        BY <1>5, <1>7, <2>1
      <3>2. NewBlock(f) = NewBlock(g)
        BY <1>5, <1>7, <2>1, <3>1
      <3> QED BY <1>3, <2>1, <3>2
    <2>2. CASE p = o /\ q # o
      <3>1. f \in fs
        BY <1>5, <1>7, <2>2
      <3>2. NewBlock(f) = owned[q][g]
        BY <1>5, <1>7, <2>2, <3>1
      <3> QED BY <1>1, <1>3, <2>0, <3>2
    <2>3. CASE p # o /\ q = o
      <3>1. g \in fs
        BY <1>5, <1>7, <2>3
      <3>2. NewBlock(g) = owned[p][f]
        BY <1>5, <1>7, <2>3, <3>1
      <3> QED BY <1>1, <1>3, <2>0, <3>2
    <2>4. CASE p # o /\ q # o
      BY <1>0, <1>7, <2>4 DEF OneOwner
    <2> QED BY <2>1, <2>2, <2>3, <2>4
  <1>12. AllOwned'
    <2>0. \A f \in Fields : owned[o][f] = 0
      BY DEF Unused
    <2> SUFFICES ASSUME NEW b
                 PROVE  b \in blocks' <=> b # 0 /\ \E p \in Structs : \E f \in Fields : b = owned'[p][f]
      BY DEF AllOwned
    <2>1. ASSUME b \in blocks
          PROVE  b # 0 /\ \E p \in Structs : \E f \in Fields : b = owned'[p][f]
      <3>1. b # 0
        BY <1>0, <2>1 DEF AllOwned
      <3>2. PICK p \in Structs : \E f \in Fields : b = owned[p][f]
        BY <1>0, <2>1 DEF AllOwned
      <3>3. p # o
        BY <2>0, <3>1, <3>2
      <3> QED BY <1>7, <3>1, <3>2, <3>3
    <2>2. ASSUME NEW f \in fs, b = NewBlock(f)
          PROVE  b # 0 /\ \E p \in Structs : \E g \in Fields : b = owned'[p][g]
      <3>1. b # 0 /\ b = owned'[o][f]
        BY <1>3, <1>5, <1>7, <2>2
      <3> QED BY <3>1
    <2>3. ASSUME b # 0, NEW p \in Structs, NEW f \in Fields, b = owned'[p][f]
          PROVE  b \in blocks'
      <3>1. CASE p = o
        <4>1. f \in fs /\ b = NewBlock(f)
          BY <1>5, <1>7, <2>3, <3>1
        <4> QED BY <1>2, <4>1
      <3>2. CASE p # o
        <4>1. b = owned[p][f]
          BY <1>7, <2>3, <3>2
        <4> QED BY <1>0, <1>2, <2>3, <4>1 DEF AllOwned
      <3> QED BY <3>1, <3>2
    <2> QED BY <1>2, <2>1, <2>2, <2>3
  <1> QED BY <1>8, <1>9, <1>10, <1>11, <1>12 DEF OptionInv

\* A copy gives its struct new blocks, whichever part of it fails.
LEMMA CopyKeeps ==
  ASSUME OptionInv, NEW src \in Structs, NEW dst \in Structs, NEW fails,
         rmw_init_options_copy(src, dst, fails)
  PROVE  OptionInv'
  <1> PICK fs \in SUBSET Fields : fs = CopiedFields(src, fails)
    BY DEF CopiedFields
  <1>1. Unused(dst) /\ Allocate(fs) /\ UNCHANGED twice
    BY DEF rmw_init_options_copy
  <1>2. allocator' \in [Structs -> BOOLEAN]
    BY DEF rmw_init_options_copy, OptionInv, OptionTypeOK
  <1>3. [f \in Fields |-> IF f \in fs THEN NewBlock(f)
                          ELSE IF Nth[f] < fails \/ (Nth[f] = fails /\ f # "enclave") THEN 0
                          ELSE owned[dst][f]] =
        [f \in Fields |-> IF f \in fs THEN NewBlock(f) ELSE 0]
    BY <1>1 DEF Unused
  <1>4. owned' = [owned EXCEPT ![dst] = [f \in Fields |-> IF f \in fs THEN NewBlock(f) ELSE 0]]
    BY <1>3 DEF rmw_init_options_copy
  <1> QED BY <1>1, <1>2, <1>4, GivenKeeps

\* Options that are finalised give back what they own, except an enclave
\* without an allocator, which they keep.
LEMMA FiniKeeps ==
  ASSUME OptionInv, NEW o \in Structs, rmw_init_options_fini(o)
  PROVE  OptionInv'
  <1>0. OptionTypeOK /\ allocated >= 0 /\ Handed /\ OneOwner /\ AllOwned
    BY DEF OptionInv
  <1>1. /\ allocated \in Int /\ owned \in [Structs -> [Fields -> Int]] /\ blocks \in SUBSET Int
    BY <1>0 DEF OptionTypeOK
  <1> PICK freed \in SUBSET Fields :
         freed = {f \in Fields : owned[o][f] # 0 /\ (f = "enclave" => allocator[o])}
    OBVIOUS
  <1>2. /\ blocks' = blocks \ {owned[o][f] : f \in freed}
        /\ owned' = [owned EXCEPT ![o] = [f \in Fields |-> IF f \in freed THEN 0 ELSE owned[o][f]]]
        /\ twice' = (twice \/ \E f \in freed : \/ owned[o][f] \notin blocks
                                              \/ \E g \in freed \ {f} : owned[o][f] = owned[o][g])
        /\ UNCHANGED <<allocator, allocated>>
    BY DEF rmw_init_options_fini
  <1> PICK new : new = [f \in Fields |-> IF f \in freed THEN 0 ELSE owned[o][f]]
    OBVIOUS
  <1>3. new \in [Fields -> Int]
    BY <1>1
  <1>4. \A f \in Fields : (f \in freed => new[f] = 0) /\ (f \notin freed => new[f] = owned[o][f])
    OBVIOUS
  <1>5. owned' = [owned EXCEPT ![o] = new]
    BY <1>2
  <1>6. owned'[o] = new /\ \A p \in Structs : p # o => owned'[p] = owned[p]
    BY <1>1, <1>5
  <1>7. \A p \in Structs : \A f \in Fields : owned'[p][f] = owned[p][f] \/ (p = o /\ f \in freed /\ owned'[p][f] = 0)
    BY <1>4, <1>6
  <1>8. ~twice'
    <2>1. ~twice
      BY <1>0 DEF OptionTypeOK
    <2>2. ASSUME NEW f \in freed PROVE owned[o][f] \in blocks
      BY <1>0 DEF AllOwned
    <2>3. ASSUME NEW f \in freed, NEW g \in freed \ {f} PROVE owned[o][f] # owned[o][g]
      BY <1>0 DEF OneOwner
    <2> QED BY <1>2, <2>1, <2>2, <2>3
  <1>9. OptionTypeOK'
    <2>1. owned' \in [Structs -> [Fields -> Int]]
      BY <1>1, <1>3, <1>5
    <2>2. blocks' \in SUBSET Int
      BY <1>1, <1>2
    <2> QED BY <1>0, <1>1, <1>2, <1>8, <2>1, <2>2 DEF OptionTypeOK
  <1>10. Handed'
    <2> SUFFICES ASSUME NEW p \in Structs, NEW f \in Fields PROVE owned'[p][f] <= allocated'
      BY DEF Handed
    <2>1. owned[p][f] <= allocated /\ 0 <= allocated
      BY <1>0, <1>1 DEF Handed
    <2> QED BY <1>2, <1>7, <2>1
  <1>11. OneOwner'
    <2> SUFFICES ASSUME NEW p \in Structs, NEW q \in Structs, NEW f \in Fields, NEW g \in Fields,
                        owned'[p][f] # 0, owned'[p][f] = owned'[q][g]
                 PROVE  p = q /\ f = g
      BY DEF OneOwner
    <2>1. owned'[p][f] = owned[p][f]
      BY <1>7
    <2>2. owned'[q][g] = owned[q][g]
      BY <1>7
    <2>3. owned[p][f] # 0 /\ owned[p][f] = owned[q][g]
      BY <2>1, <2>2
    <2> QED BY <1>0, <2>3 DEF OneOwner
  <1>12. AllOwned'
    <2> SUFFICES ASSUME NEW b
                 PROVE  b \in blocks' <=> b # 0 /\ \E p \in Structs : \E f \in Fields : b = owned'[p][f]
      BY DEF AllOwned
    <2>1. ASSUME b \in blocks'
          PROVE  b # 0 /\ \E p \in Structs : \E f \in Fields : b = owned'[p][f]
      <3>1. b \in blocks /\ \A f \in freed : b # owned[o][f]
        BY <1>2, <2>1
      <3>2. b # 0
        BY <1>0, <3>1 DEF AllOwned
      <3>3. PICK p \in Structs : \E f \in Fields : b = owned[p][f]
        BY <1>0, <3>1 DEF AllOwned
      <3>4. PICK f \in Fields : b = owned[p][f]
        BY <3>3
      <3>5. b = owned'[p][f]
        BY <1>7, <3>1, <3>4
      <3> QED BY <3>2, <3>5
    <2>2. ASSUME b # 0, NEW p \in Structs, NEW f \in Fields, b = owned'[p][f]
          PROVE  b \in blocks'
      <3>1. b = owned[p][f]
        BY <1>7, <2>2
      <3>2. b \in blocks
        BY <1>0, <2>2, <3>1 DEF AllOwned
      <3>3. ASSUME NEW g \in freed, b = owned[o][g] PROVE FALSE
        <4>0. g \in Fields /\ owned[p][f] # 0 /\ owned[p][f] = owned[o][g]
          BY <2>2, <3>1, <3>3
        <4>1. p = o /\ f = g
          BY <1>0, <4>0 DEF OneOwner
        <4> QED BY <1>4, <1>6, <2>2, <4>1
      <3> QED BY <1>2, <3>2, <3>3
    <2> QED BY <2>1, <2>2
  <1> QED BY <1>0, <1>2, <1>9, <1>10, <1>11, <1>12 DEF OptionInv

\* Every call on options keeps each block with one owner.
LEMMA OptionInvNext == OptionInv /\ OptionNext => OptionInv'
  <1> SUFFICES ASSUME OptionInv, OptionNext PROVE OptionInv'
    OBVIOUS
  <1>1. ASSUME NEW o \in Structs, rmw_init_options_init(o) PROVE OptionInv'
    <2>1. owned \in [Structs -> [Fields -> Int]] /\ owned[o]["discovery"] = 0
      BY <1>1 DEF OptionInv, OptionTypeOK, rmw_init_options_init, Unused, Fields
    <2>2. owned' = owned
      BY <1>1, <2>1 DEF rmw_init_options_init
    <2>3. allocator' \in [Structs -> BOOLEAN]
      BY <1>1 DEF rmw_init_options_init, OptionInv, OptionTypeOK
    <2>4. blocks' = blocks /\ allocated' = allocated /\ twice' = twice
      BY <1>1 DEF rmw_init_options_init
    <2>5. OptionTypeOK' /\ allocated' >= 0
      BY <2>2, <2>3, <2>4 DEF OptionInv, OptionTypeOK
    <2>6. Handed' /\ OneOwner' /\ AllOwned'
      BY <2>2, <2>4 DEF OptionInv, Handed, OneOwner, AllOwned
    <2> QED BY <2>5, <2>6 DEF OptionInv
  <1>2. ASSUME NEW o \in Structs, NEW fs \in SUBSET Fields, FilledIn(o, fs) PROVE OptionInv'
    <2>1. allocator' \in [Structs -> BOOLEAN]
      BY <1>2 DEF FilledIn, OptionInv, OptionTypeOK
    <2> QED BY <1>2, <2>1, GivenKeeps DEF FilledIn
  <1>3. ASSUME NEW o \in Structs, rmw_init_options_fini(o) PROVE OptionInv'
    BY <1>3, FiniKeeps
  <1>4. ASSUME NEW src \in Structs, NEW dst \in Structs, NEW fails \in 1..4,
               rmw_init_options_copy(src, dst, fails)
        PROVE  OptionInv'
    BY <1>4, CopyKeeps
  <1> QED BY <1>1, <1>2, <1>3, <1>4 DEF OptionNext

\* Whoever initialises, fills, copies and finalises options, in whatever order
\* and wherever a copy fails, no block has two owners or is freed twice or is
\* lost.
THEOREM OptionsFreedCorrect == RmwSpec => []OptionsFreed
  <1>1. RmwInit => OptionInv
    BY OptionInvInit DEF RmwInit
  <1>2. OptionInv /\ [RmwNext]_<<optionVars, context>> => OptionInv'
    <2> SUFFICES ASSUME OptionInv, [RmwNext]_<<optionVars, context>>
                 PROVE  OptionInv'
      OBVIOUS
    <2>1. UNCHANGED optionVars => OptionInv'
      BY DEF optionVars, OptionInv, OptionTypeOK, Handed, OneOwner, AllOwned
    <2>2. CASE OptionNext
      BY <2>2, OptionInvNext
    <2> QED BY <2>1, <2>2 DEF RmwNext
  <1>3. OptionInv => OptionsFreed
    <2> SUFFICES ASSUME OptionInv PROVE OptionsFreed
      OBVIOUS
    <2>1. blocks = (UNION {{owned[o][f] : f \in Fields} : o \in Structs}) \ {0}
      <3>1. AllOwned
        BY DEF OptionInv
      <3>2. ASSUME NEW b
            PROVE  b \in UNION {{owned[o][f] : f \in Fields} : o \in Structs} <=>
                      \E o \in Structs : \E f \in Fields : b = owned[o][f]
        OBVIOUS
      <3> PICK all : all = UNION {{owned[o][f] : f \in Fields} : o \in Structs}
        OBVIOUS
      <3>3. \A b : b \in blocks <=> b \in all \ {0}
        BY <3>1, <3>2 DEF AllOwned
      <3>4. blocks \subseteq all \ {0} /\ all \ {0} \subseteq blocks
        BY <3>3
      <3> QED BY <3>4
    <2> QED BY <2>1 DEF OptionsFreed, OptionInv, OptionTypeOK, OneOwner
  <1> QED BY <1>1, <1>2, <1>3, PTL DEF RmwSpec

-----------------------------------------------------------------------------
(* QoS profiles. *)

\* Any profile of ros-z, and any of rmw.
AnyHistory == {KeepLast(n) : n \in Nat \ {0}} \cup {KeepAll}
AnyQos ==
    [reliability : {"Reliable", "BestEffort"}, durability : {"Volatile", "TransientLocal"},
     history : AnyHistory, deadline : Nat, lifespan : Nat,
     liveliness : {"Automatic", "ManualByNode", "ManualByTopic"}, lease : Nat]
AnyRmwQos ==
    [reliability : {0, 1, 2}, durability : {0, 1, 2}, history : {0, 1, 2}, depth : Nat,
     deadline : 0..Infinite, lifespan : 0..Infinite, liveliness : {0, 1, 3}, lease : 0..Infinite]
QosInput ==
    /\ part = "qos" => x \in AnyQos
    /\ part = "rmw qos" => x \in AnyRmwQos
    /\ part = "offers" => x \in AnyRmwQos \X AnyRmwQos

\* A table gives the value of a code and the code of a value.
LEMMA CodeOf ==
  ASSUME NEW table, NEW p \in table, \A q \in table : q[2] = p[2] => q = p
  PROVE  Code(table, p[2]) = p[1]
  <1> PICK q : q = CHOOSE r \in table : r[2] = p[2]
    OBVIOUS
  <1>1. q \in table /\ q[2] = p[2]
    OBVIOUS
  <1> QED BY <1>1 DEF Code

\* A table read at a key that has one row.
LEMMA ValueOf ==
  ASSUME NEW table, NEW p \in table, \A q \in table : q[1] = p[1] => q = p
  PROVE  FromTable(table, p[1]) = p[2]
  <1> PICK q : q = CHOOSE r \in table : r[1] = p[1]
    OBVIOUS
  <1>1. q \in table /\ q[1] = p[1]
    OBVIOUS
  <1> QED BY <1>1 DEF FromTable

\* The parts of a row.
LEMMA Pair == ASSUME NEW a, NEW b, NEW t, t = <<a, b>> PROVE t[1] = a /\ t[2] = b
  OBVIOUS

\* The parts of a token of four texts.
LEMMA Four ==
  ASSUME NEW a, NEW b, NEW c, NEW d, NEW t, t = <<a, b, c, d>>
  PROVE  t[1] = a /\ t[2] = b /\ t[3] = c /\ t[4] = d
  OBVIOUS

\* A history with a depth is no other.
LEMMA LastHistory ==
  ASSUME NEW n \in Nat, NEW h, h = KeepLast(n)
  PROVE  h # KeepAll /\ h # HistoryError /\ h[1] = "KeepLast" /\ h[2] = n
  BY DEF KeepLast, KeepAll, HistoryError

\* Tables of two and of three rows.
Two(a, v, b, w) == {<<a, v>>, <<b, w>>}
Three(a, u, b, v, c, w) == {<<a, u>>, <<b, v>>, <<c, w>>}

\* Reading a table of two rows, and back.
LEMMA TwoRows ==
  ASSUME NEW a, NEW b, NEW v, NEW w, NEW table, a # b, v # w, table = Two(a, v, b, w)
  PROVE  /\ Code(table, v) = a /\ Code(table, w) = b
         /\ FromTable(table, a) = v /\ FromTable(table, b) = w
         /\ InTable(table) = {a, b}
  <1>1. PICK p : p = <<a, v>>
    OBVIOUS
  <1>2. PICK q : q = <<b, w>>
    OBVIOUS
  <1>3. table = {p, q}
    BY <1>1, <1>2 DEF Two
  <1>4. p[1] = a /\ p[2] = v /\ q[1] = b /\ q[2] = w
    BY <1>1, <1>2, Pair
  <1>5. Code(table, p[2]) = p[1] /\ Code(table, q[2]) = q[1]
    BY <1>3, <1>4, CodeOf
  <1>6. FromTable(table, p[1]) = p[2] /\ FromTable(table, q[1]) = q[2]
    BY <1>3, <1>4, ValueOf
  <1>7. InTable(table) = {p[1], q[1]}
    BY <1>3 DEF InTable
  <1> QED BY <1>4, <1>5, <1>6, <1>7

\* Reading a table of three rows, and back.
LEMMA ThreeRows ==
  ASSUME NEW a, NEW b, NEW c, NEW u, NEW v, NEW w, NEW table,
         a # b, a # c, b # c, u # v, u # w, v # w, table = Three(a, u, b, v, c, w)
  PROVE  /\ Code(table, u) = a /\ Code(table, v) = b /\ Code(table, w) = c
         /\ FromTable(table, a) = u /\ FromTable(table, b) = v /\ FromTable(table, c) = w
         /\ InTable(table) = {a, b, c}
  <1>1. PICK p : p = <<a, u>>
    OBVIOUS
  <1>2. PICK q : q = <<b, v>>
    OBVIOUS
  <1>3. PICK r : r = <<c, w>>
    OBVIOUS
  <1>4. table = {p, q, r}
    BY <1>1, <1>2, <1>3 DEF Three
  <1>5. p[1] = a /\ p[2] = u /\ q[1] = b /\ q[2] = v /\ r[1] = c /\ r[2] = w
    BY <1>1, <1>2, <1>3, Pair
  <1>6. Code(table, p[2]) = p[1] /\ Code(table, q[2]) = q[1] /\ Code(table, r[2]) = r[1]
    <2>1. Code(table, p[2]) = p[1]
      BY <1>4, <1>5, CodeOf
    <2>2. Code(table, q[2]) = q[1]
      BY <1>4, <1>5, CodeOf
    <2>3. Code(table, r[2]) = r[1]
      BY <1>4, <1>5, CodeOf
    <2> QED BY <2>1, <2>2, <2>3
  <1>7. FromTable(table, p[1]) = p[2] /\ FromTable(table, q[1]) = q[2] /\ FromTable(table, r[1]) = r[2]
    BY <1>4, <1>5, ValueOf
  <1>8. InTable(table) = {p[1], q[1], r[1]}
    BY <1>4 DEF InTable
  <1> QED BY <1>5, <1>6, <1>7, <1>8

\* The tables that give the policies their codes are read back.
LEMMA ReliabilityCodes ==
  /\ Code(ReliabilityText, "Reliable") = "1" /\ Code(ReliabilityText, "BestEffort") = "2"
  /\ FromTable(ReliabilityText, "1") = "Reliable" /\ FromTable(ReliabilityText, "2") = "BestEffort"
  /\ InTable(ReliabilityText) = {"1", "2"}
  <1>1. ReliabilityText = Two("1", "Reliable", "2", "BestEffort")
    BY DEF ReliabilityText, Two
  <1> QED BY <1>1, TwoRows

\* The codes of durability.
LEMMA DurabilityCodes ==
  /\ Code(DurabilityText, "TransientLocal") = "1" /\ Code(DurabilityText, "Volatile") = "2"
  /\ FromTable(DurabilityText, "1") = "TransientLocal" /\ FromTable(DurabilityText, "2") = "Volatile"
  /\ InTable(DurabilityText) = {"1", "2"}
  <1>1. DurabilityText = Two("1", "TransientLocal", "2", "Volatile")
    BY DEF DurabilityText, Two
  <1> QED BY <1>1, TwoRows

\* The codes of liveliness.
LEMMA LivelinessCodes ==
  /\ Code(LivelinessText, "Automatic") = "1" /\ Code(LivelinessText, "ManualByNode") = "2"
  /\ Code(LivelinessText, "ManualByTopic") = "3"
  /\ FromTable(LivelinessText, "1") = "Automatic" /\ FromTable(LivelinessText, "2") = "ManualByNode"
  /\ FromTable(LivelinessText, "3") = "ManualByTopic"
  /\ InTable(LivelinessText) = {"1", "2", "3"}
  <1>1. LivelinessText = Three("1", "Automatic", "2", "ManualByNode", "3", "ManualByTopic")
    BY DEF LivelinessText, Three
  <1> QED BY <1>1, ThreeRows

\* The codes of the ros2dds format.
LEMMA DdsCodes ==
  /\ Code(DdsReliability, "Reliable") = "1" /\ Code(DdsReliability, "BestEffort") = "0"
  /\ FromTable(DdsReliability, "1") = "Reliable" /\ FromTable(DdsReliability, "0") = "BestEffort"
  /\ InTable(DdsReliability) = {"0", "1"}
  /\ Code(DdsDurability, "TransientLocal") = "1" /\ Code(DdsDurability, "Volatile") = "0"
  /\ FromTable(DdsDurability, "1") = "TransientLocal" /\ FromTable(DdsDurability, "0") = "Volatile"
  /\ InTable(DdsDurability) = {"0", "1"}
  <1>1. /\ Code(DdsReliability, "Reliable") = "1" /\ Code(DdsReliability, "BestEffort") = "0"
        /\ FromTable(DdsReliability, "1") = "Reliable" /\ FromTable(DdsReliability, "0") = "BestEffort"
        /\ InTable(DdsReliability) = {"0", "1"}
    <2>1. DdsReliability = Two("0", "BestEffort", "1", "Reliable")
      BY DEF DdsReliability, Two
    <2> QED BY <2>1, TwoRows
  <1>2. /\ Code(DdsDurability, "TransientLocal") = "1" /\ Code(DdsDurability, "Volatile") = "0"
        /\ FromTable(DdsDurability, "1") = "TransientLocal" /\ FromTable(DdsDurability, "0") = "Volatile"
        /\ InTable(DdsDurability) = {"0", "1"}
    <2>1. DdsDurability = Two("0", "Volatile", "1", "TransientLocal")
      BY DEF DdsDurability, Two
    <2> QED BY <2>1, TwoRows
  <1> QED BY <1>1, <1>2

\* The codes of rmw.
LEMMA RmwCodes ==
  /\ Code(RmwReliability, "Reliable") = 1 /\ Code(RmwReliability, "BestEffort") = 2
  /\ FromTable(RmwReliability, 1) = "Reliable" /\ FromTable(RmwReliability, 2) = "BestEffort"
  /\ InTable(RmwReliability) = {1, 2}
  /\ Code(RmwDurability, "TransientLocal") = 1 /\ Code(RmwDurability, "Volatile") = 2
  /\ FromTable(RmwDurability, 1) = "TransientLocal" /\ FromTable(RmwDurability, 2) = "Volatile"
  /\ InTable(RmwDurability) = {1, 2}
  /\ Code(RmwHistory, "KeepLast") = 1 /\ Code(RmwHistory, "KeepAll") = 2
  /\ FromTable(RmwLiveliness, 1) = "Automatic" /\ FromTable(RmwLiveliness, 3) = "ManualByTopic"
  /\ InTable(RmwLiveliness) = {1, 3}
  <1>1. /\ Code(RmwReliability, "Reliable") = 1 /\ Code(RmwReliability, "BestEffort") = 2
        /\ FromTable(RmwReliability, 1) = "Reliable" /\ FromTable(RmwReliability, 2) = "BestEffort"
        /\ InTable(RmwReliability) = {1, 2}
    <2>1. RmwReliability = Two(1, "Reliable", 2, "BestEffort")
      BY DEF RmwReliability, Two
    <2> QED BY <2>1, TwoRows
  <1>2. /\ Code(RmwDurability, "TransientLocal") = 1 /\ Code(RmwDurability, "Volatile") = 2
        /\ FromTable(RmwDurability, 1) = "TransientLocal" /\ FromTable(RmwDurability, 2) = "Volatile"
        /\ InTable(RmwDurability) = {1, 2}
    <2>1. RmwDurability = Two(1, "TransientLocal", 2, "Volatile")
      BY DEF RmwDurability, Two
    <2> QED BY <2>1, TwoRows
  <1>3. Code(RmwHistory, "KeepLast") = 1 /\ Code(RmwHistory, "KeepAll") = 2
    <2>1. RmwHistory = Two(1, "KeepLast", 2, "KeepAll")
      BY DEF RmwHistory, Two
    <2> QED BY <2>1, TwoRows
  <1>4. /\ FromTable(RmwLiveliness, 1) = "Automatic" /\ FromTable(RmwLiveliness, 3) = "ManualByTopic"
        /\ InTable(RmwLiveliness) = {1, 3}
    <2>1. RmwLiveliness = Two(1, "Automatic", 3, "ManualByTopic")
      BY DEF RmwLiveliness, Two
    <2> QED BY <2>1, TwoRows
  <1> QED BY <1>1, <1>2, <1>3, <1>4

\* The text of a history, and what both crates read from it.
LEMMA HistoryRead ==
  ASSUME NEW h \in AnyHistory, NEW t, t = encode_history(h)
  PROVE  /\ decode_history(t) = h /\ h # HistoryError
         /\ t[1] \in {"", "1", "2"}
         /\ t[1] = "2" => h = KeepAll
         /\ t[1] # "2" => t[2] # Empty /\ h = KeepLast(t[2][1])
  <1>1. CASE h = KeepAll
    <2>1. t = <<"2", Empty>>
      BY <1>1 DEF encode_history
    <2>2. t[1] = "2" /\ t # <<"", Empty>>
      BY <2>1
    <2>3. decode_history(t) = KeepAll
      BY <2>2 DEF decode_history
    <2> QED BY <1>1, <2>2, <2>3 DEF KeepAll, HistoryError
  <1>2. ASSUME NEW n \in Nat \ {0}, h = KeepLast(n)
        PROVE  /\ decode_history(t) = h /\ h # HistoryError
               /\ t[1] \in {"", "1"}
               /\ t[2] # Empty /\ h = KeepLast(t[2][1])
    <2>1. h # KeepAll /\ h[2] = n /\ h # HistoryError
      BY <1>2 DEF KeepLast, KeepAll, HistoryError
    <2>2. PICK k \in {"", "1"} : t = <<k, Number(n)>>
      BY <2>1 DEF encode_history, IfNot
    <2>3. t[1] \in {"", "1"} /\ t[2] = Number(n)
      BY <2>2, Pair
    <2>4. Number(n) # Empty /\ Number(n)[1] = n /\ Number(n) # Number(0)
      BY DEF Number, Empty
    <2>5. t # <<"", Empty>>
      <3> SUFFICES ASSUME t = <<"", Empty>> PROVE FALSE
        OBVIOUS
      <3>1. t[2] = Empty
        BY Pair
      <3> QED BY <2>3, <2>4, <3>1
    <2>6. decode_history(t) = KeepLast(n)
      BY <2>3, <2>4, <2>5 DEF decode_history
    <2> QED BY <1>2, <2>1, <2>3, <2>4, <2>6
  <1> QED BY <1>1, <1>2 DEF AnyHistory

\* A duration is read as it was written, or as infinite.
LEMMA SecondsRead ==
  ASSUME NEW d \in Nat
  PROVE  decode_seconds(Seconds(d)) = d /\ decode_seconds(Number(d)) = d /\ decode_seconds(Empty) = Infinite
  BY DEF decode_seconds, Seconds, Number, Empty

\* Liveliness and lease are read as they were written, or left out as default.
LEMMA LivelinessRead ==
  ASSUME NEW q \in AnyQos, NEW t, t = encode_liveliness(q)
  PROVE  /\ decode_seconds(t[2]) = q.lease
         /\ t[1] \in InTable(LivelinessText) => FromTable(LivelinessText, t[1]) = q.liveliness
         /\ t[1] \notin InTable(LivelinessText) => q.liveliness = "Automatic"
  <1>0. q.liveliness \in {"Automatic", "ManualByNode", "ManualByTopic"} /\ q.lease \in Nat
    BY DEF AnyQos
  <1>1. CASE q.liveliness = "Automatic" /\ q.lease = Infinite
    <2>1. t = <<"", Empty>>
      BY <1>1 DEF encode_liveliness
    <2>2. t[1] = "" /\ t[2] = Empty
      BY <2>1, Pair
    <2> QED BY <1>0, <1>1, <2>2, SecondsRead, LivelinessCodes
  <1>2. CASE ~(q.liveliness = "Automatic" /\ q.lease = Infinite)
    <2>1. t = <<Code(LivelinessText, q.liveliness), Number(q.lease)>>
      BY <1>2 DEF encode_liveliness
    <2>2. t[1] = Code(LivelinessText, q.liveliness) /\ t[2] = Number(q.lease)
      BY <2>1
    <2> QED BY <1>0, <2>2, SecondsRead, LivelinessCodes
  <1> QED BY <1>1, <1>2

\* Reliability is read as it was written, or left out as default.
LEMMA ReliabilityRead ==
  ASSUME NEW r \in {"Reliable", "BestEffort"}, NEW t, t = IfNot("Reliable", r, Code(ReliabilityText, r))
  PROVE  /\ t \in {""} \cup InTable(ReliabilityText) /\ t # "0"
         /\ t = "" => r = "Reliable"
         /\ t # "" => FromTable(ReliabilityText, t) = r
  BY ReliabilityCodes DEF IfNot

\* So is durability.
LEMMA DurabilityRead ==
  ASSUME NEW d \in {"Volatile", "TransientLocal"}, NEW t, t = IfNot("Volatile", d, Code(DurabilityText, d))
  PROVE  /\ t \in {""} \cup InTable(DurabilityText) /\ t # "0"
         /\ t = "" => d = "Volatile"
         /\ t # "" => FromTable(DurabilityText, t) = d
  BY DurabilityCodes DEF IfNot

\* The token carries the whole profile.
LEMMA TokenCarriesAll == ASSUME NEW q \in AnyQos PROVE decode(encode(q)) = q
  <1> PICK t : t = encode(q)
    OBVIOUS
  <1>0. /\ q.reliability \in {"Reliable", "BestEffort"} /\ q.durability \in {"Volatile", "TransientLocal"}
        /\ q.history \in AnyHistory /\ q.deadline \in Nat /\ q.lifespan \in Nat
    BY DEF AnyQos
  <1>1. /\ t.reliability = IfNot("Reliable", q.reliability, Code(ReliabilityText, q.reliability))
        /\ t.durability = IfNot("Volatile", q.durability, Code(DurabilityText, q.durability))
        /\ t.history = encode_history(q.history)
        /\ t.deadline = Seconds(q.deadline) /\ t.lifespan = Seconds(q.lifespan)
        /\ t.liveliness = encode_liveliness(q)
    BY DEF encode
  <1>3. /\ t.reliability \in {""} \cup InTable(ReliabilityText) /\ t.reliability # "0"
        /\ t.reliability = "" => q.reliability = "Reliable"
        /\ t.reliability # "" => FromTable(ReliabilityText, t.reliability) = q.reliability
    BY <1>0, <1>1, ReliabilityRead
  <1>4. /\ t.durability \in {""} \cup InTable(DurabilityText) /\ t.durability # "0"
        /\ t.durability = "" => q.durability = "Volatile"
        /\ t.durability # "" => FromTable(DurabilityText, t.durability) = q.durability
    BY <1>0, <1>1, DurabilityRead
  <1>5. decode_history(t.history) = q.history /\ q.history # HistoryError
    BY <1>0, <1>1, HistoryRead
  <1>6. decode_seconds(t.deadline) = q.deadline /\ decode_seconds(t.lifespan) = q.lifespan
    BY <1>0, <1>1, SecondsRead
  <1>7. /\ decode_seconds(t.liveliness[2]) = q.lease
        /\ q.liveliness = IF t.liveliness[1] \in InTable(LivelinessText)
                          THEN FromTable(LivelinessText, t.liveliness[1]) ELSE "Automatic"
    BY <1>1, LivelinessRead
  <1>8. decode(t) = [reliability |-> q.reliability, durability |-> q.durability, history |-> q.history,
                     deadline |-> q.deadline, lifespan |-> q.lifespan, liveliness |-> q.liveliness,
                     lease |-> q.lease]
    BY <1>3, <1>4, <1>5, <1>6, <1>7 DEF decode
  <1>9. q = [reliability |-> q.reliability, durability |-> q.durability, history |-> q.history,
             deadline |-> q.deadline, lifespan |-> q.lifespan, liveliness |-> q.liveliness,
             lease |-> q.lease]
    BY DEF AnyQos
  <1> QED BY <1>8, <1>9

\* What both crates read from the three policies of a token.
LEMMA PoliciesRead ==
  ASSUME NEW q \in AnyQos, NEW t,
         t.reliability = IfNot("Reliable", q.reliability, Code(ReliabilityText, q.reliability)),
         t.durability = IfNot("Volatile", q.durability, Code(DurabilityText, q.durability)),
         t.history = encode_history(q.history)
  PROVE  /\ protocol_decode(t) = to_protocol_qos(q)
         /\ (/\ t.deadline = Empty /\ t.lifespan = Empty /\ t.liveliness = <<"", Empty>>) =>
               decode(t) = [reliability |-> q.reliability, durability |-> q.durability,
                            history |-> q.history, deadline |-> Infinite, lifespan |-> Infinite,
                            liveliness |-> "Automatic", lease |-> Infinite]
  <1>0. /\ q.reliability \in {"Reliable", "BestEffort"} /\ q.durability \in {"Volatile", "TransientLocal"}
        /\ q.history \in AnyHistory
    BY DEF AnyQos
  <1>1. /\ t.reliability \in {""} \cup InTable(ReliabilityText) /\ t.reliability # "0"
        /\ t.reliability = "" => q.reliability = "Reliable"
        /\ t.reliability # "" => FromTable(ReliabilityText, t.reliability) = q.reliability
    BY <1>0, ReliabilityRead
  <1>2. /\ t.durability \in {""} \cup InTable(DurabilityText) /\ t.durability # "0"
        /\ t.durability = "" => q.durability = "Volatile"
        /\ t.durability # "" => FromTable(DurabilityText, t.durability) = q.durability
    BY <1>0, DurabilityRead
  <1>3. /\ decode_history(t.history) = q.history /\ q.history # HistoryError
        /\ t.history[1] \in {"", "1", "2"}
        /\ t.history[1] = "2" => q.history = KeepAll
        /\ t.history[1] # "2" => t.history[2] # Empty /\ q.history = KeepLast(t.history[2][1])
    BY <1>0, HistoryRead
  <1>4. protocol_decode(t) = [reliability |-> q.reliability, durability |-> q.durability, history |-> q.history]
    BY <1>1, <1>2, <1>3 DEF protocol_decode
  <1>5. ASSUME t.deadline = Empty, t.lifespan = Empty, t.liveliness = <<"", Empty>>
        PROVE  decode(t) = [reliability |-> q.reliability, durability |-> q.durability,
                            history |-> q.history, deadline |-> Infinite, lifespan |-> Infinite,
                            liveliness |-> "Automatic", lease |-> Infinite]
    <2>1. t.liveliness[1] = "" /\ t.liveliness[2] = Empty
      <3>1. PICK l : l = t.liveliness
        OBVIOUS
      <3>2. l = <<"", Empty>>
        BY <1>5, <3>1
      <3>3. l[1] = "" /\ l[2] = Empty
        BY <3>2, Pair
      <3> QED BY <3>1, <3>3
    <2>2. t.liveliness[1] \notin InTable(LivelinessText)
      BY <2>1, LivelinessCodes
    <2>3. decode_seconds(Empty) = Infinite
      BY SecondsRead
    <2> QED BY <1>1, <1>2, <1>3, <1>5, <2>1, <2>2, <2>3 DEF decode
  <1> QED BY <1>4, <1>5 DEF to_protocol_qos

\* The other format's text of the three policies.
LEMMA DdsRead ==
  ASSUME NEW q \in AnyQos, NEW keyless \in BOOLEAN
  PROVE  dds_decode_qos(dds_encode_qos(to_protocol_qos(q), keyless)) = <<keyless, to_protocol_qos(q)>>
  <1>0. /\ q.reliability \in {"Reliable", "BestEffort"} /\ q.durability \in {"Volatile", "TransientLocal"}
        /\ q.history \in AnyHistory
    BY DEF AnyQos
  <1> PICK p : p = to_protocol_qos(q)
    OBVIOUS
  <1>1. /\ p.reliability = q.reliability /\ p.durability = q.durability /\ p.history = q.history
        /\ p = [reliability |-> q.reliability, durability |-> q.durability, history |-> q.history]
    BY DEF to_protocol_qos
  <1>h. PICK h : h = IF p.history = KeepAll THEN <<"1", 0>> ELSE <<"0", p.history[2]>>
    OBVIOUS
  <1>k. PICK k : k = IF keyless THEN "" ELSE "K"
    OBVIOUS
  <1>r. PICK r : r = Code(DdsReliability, p.reliability)
    OBVIOUS
  <1>d. PICK d : d = Code(DdsDurability, p.durability)
    OBVIOUS
  <1>t. PICK t : t = dds_encode_qos(p, keyless)
    OBVIOUS
  <1>2. t = <<k, r, d, h>>
    BY <1>h, <1>k, <1>r, <1>d, <1>t DEF dds_encode_qos
  <1>3. t[1] = k /\ t[2] = r /\ t[3] = d /\ t[4] = h
    BY <1>2, Four
  <1>4. (k = "") = keyless
    BY <1>k
  <1>5. r \in InTable(DdsReliability) /\ FromTable(DdsReliability, r) = q.reliability
    BY <1>0, <1>1, <1>r, DdsCodes
  <1>6. d \in InTable(DdsDurability) /\ FromTable(DdsDurability, d) = q.durability
    BY <1>0, <1>1, <1>d, DdsCodes
  <1>7. /\ h[1] = "1" => q.history = KeepAll
        /\ h[1] # "1" => q.history = KeepLast(h[2])
    <2>1. CASE q.history = KeepAll
      BY <1>1, <1>h, <2>1
    <2>2. ASSUME NEW n \in Nat \ {0}, q.history = KeepLast(n)
          PROVE  h[1] # "1" /\ q.history = KeepLast(h[2])
      <3>1. q.history # KeepAll /\ q.history[2] = n
        BY <2>2, LastHistory
      <3>2. h = <<"0", n>>
        BY <1>1, <1>h, <3>1
      <3>3. h[1] = "0" /\ h[2] = n
        BY <3>2, Pair
      <3> QED BY <2>2, <3>3
    <2> QED BY <1>0, <2>1, <2>2 DEF AnyHistory
  <1>8. dds_decode_qos(t) =
           <<t[1] = "", [reliability |-> q.reliability, durability |-> q.durability, history |-> q.history]>>
    BY <1>3, <1>5, <1>6, <1>7 DEF dds_decode_qos
  <1> QED BY <1>1, <1>3, <1>4, <1>8, <1>t

\* Both crates and both formats read the same policies.
LEMMA Interop == ASSUME QosInput PROVE QosInterop
  <1> SUFFICES ASSUME x \in AnyQos
               PROVE  LET p == to_protocol_qos(x) IN
                      /\ protocol_decode(encode(x)) = p
                      /\ decode(protocol_encode(p)) =
                            [DefaultQos EXCEPT !.reliability = x.reliability,
                                               !.durability = x.durability, !.history = x.history]
                      /\ \A keyless \in BOOLEAN : dds_decode_qos(dds_encode_qos(p, keyless)) = <<keyless, p>>
    BY DEF QosInput, QosInterop
  <1> PICK p : p = to_protocol_qos(x)
    OBVIOUS
  <1>1. protocol_decode(encode(x)) = p
    <2> PICK t : t = encode(x)
      OBVIOUS
    <2>1. /\ t.reliability = IfNot("Reliable", x.reliability, Code(ReliabilityText, x.reliability))
          /\ t.durability = IfNot("Volatile", x.durability, Code(DurabilityText, x.durability))
          /\ t.history = encode_history(x.history)
      BY DEF encode
    <2> QED BY <2>1, PoliciesRead
  <1>2. decode(protocol_encode(p)) = [DefaultQos EXCEPT !.reliability = x.reliability,
                                               !.durability = x.durability, !.history = x.history]
    <2> PICK t : t = protocol_encode(p)
      OBVIOUS
    <2>0. p.reliability = x.reliability /\ p.durability = x.durability /\ p.history = x.history
      BY DEF to_protocol_qos
    <2>1. /\ t.reliability = IfNot("Reliable", x.reliability, Code(ReliabilityText, x.reliability))
          /\ t.durability = IfNot("Volatile", x.durability, Code(DurabilityText, x.durability))
          /\ t.history = encode_history(x.history)
          /\ t.deadline = Empty /\ t.lifespan = Empty /\ t.liveliness = <<"", Empty>>
      BY <2>0 DEF protocol_encode
    <2>2. decode(t) = [reliability |-> x.reliability, durability |-> x.durability,
                       history |-> x.history, deadline |-> Infinite, lifespan |-> Infinite,
                       liveliness |-> "Automatic", lease |-> Infinite]
      BY <2>1, PoliciesRead
    <2>3. [DefaultQos EXCEPT !.reliability = x.reliability,
                             !.durability = x.durability, !.history = x.history] =
          [reliability |-> x.reliability, durability |-> x.durability,
           history |-> x.history, deadline |-> Infinite, lifespan |-> Infinite,
           liveliness |-> "Automatic", lease |-> Infinite]
      <3>1. PICK a : a = [DefaultQos EXCEPT !.reliability = x.reliability]
        OBVIOUS
      <3>2. a = [reliability |-> x.reliability, durability |-> "Volatile",
                 history |-> KeepLast(DEFAULT_HISTORY_DEPTH), deadline |-> Infinite,
                 lifespan |-> Infinite, liveliness |-> "Automatic", lease |-> Infinite]
        BY <3>1 DEF DefaultQos
      <3>3. PICK b : b = [a EXCEPT !.durability = x.durability]
        OBVIOUS
      <3>4. b = [reliability |-> x.reliability, durability |-> x.durability,
                 history |-> KeepLast(DEFAULT_HISTORY_DEPTH), deadline |-> Infinite,
                 lifespan |-> Infinite, liveliness |-> "Automatic", lease |-> Infinite]
        BY <3>2, <3>3
      <3>5. [b EXCEPT !.history = x.history] =
            [reliability |-> x.reliability, durability |-> x.durability,
             history |-> x.history, deadline |-> Infinite, lifespan |-> Infinite,
             liveliness |-> "Automatic", lease |-> Infinite]
        BY <3>4
      <3> QED BY <3>1, <3>3, <3>5
    <2> QED BY <2>2, <2>3
  <1>3. \A keyless \in BOOLEAN : dds_decode_qos(dds_encode_qos(p, keyless)) = <<keyless, p>>
    BY DdsRead
  <1> QED BY <1>1, <1>2, <1>3

\* A duration is read from a dictionary, infinite ones being left out.
LEMMA EntryRead == ASSUME NEW d \in Nat PROVE Or(Entry(d), Infinite) = d
  BY DEF Or, Entry, Empty

\* An entry that is there is read as it is.
LEMMA NamedRead == ASSUME NEW v, NEW default PROVE Or(<<v>>, default) = v
  BY DEF Or, Empty

\* A Python dictionary carries the whole profile.
LEMMA DictionaryCarriesAll == ASSUME NEW q \in AnyQos PROVE qos_from_pydict(qos_to_pydict(q)) = q
  <1>0. q.history \in AnyHistory /\ q.deadline \in Nat /\ q.lifespan \in Nat /\ q.lease \in Nat
    BY DEF AnyQos
  <1> PICK d : d = qos_to_pydict(q)
    OBVIOUS
  <1>1. /\ d.reliability = <<q.reliability>> /\ d.durability = <<q.durability>>
        /\ d.history = <<q.history[1]>> /\ d.liveliness = <<q.liveliness>>
        /\ d.depth = IF q.history = KeepAll THEN Empty ELSE <<q.history[2]>>
        /\ d.deadline = Entry(q.deadline) /\ d.lifespan = Entry(q.lifespan) /\ d.lease = Entry(q.lease)
    BY DEF qos_to_pydict
  <1>2. /\ ~(d.history = <<"KeepLast">> /\ d.depth \in {Empty, <<0>>})
        /\ d.history # Empty
        /\ d.history = <<"KeepAll">> => q.history = KeepAll
        /\ d.history # <<"KeepAll">> => q.history = KeepLast(d.depth[1])
    <2>1. CASE q.history = KeepAll
      <3>1. d.history = <<"KeepAll">>
        BY <1>1, <2>1 DEF KeepAll
      <3> QED BY <2>1, <3>1 DEF Empty
    <2>2. ASSUME NEW n \in Nat \ {0}, q.history = KeepLast(n)
          PROVE  /\ d.depth \notin {Empty, <<0>>} /\ d.history # Empty /\ d.history # <<"KeepAll">>
                 /\ q.history = KeepLast(d.depth[1])
      <3>1. q.history # KeepAll /\ q.history[1] = "KeepLast" /\ q.history[2] = n
        BY <2>2, LastHistory
      <3>2. d.history = <<"KeepLast">> /\ d.depth = <<n>>
        BY <1>1, <3>1
      <3>3. d.depth[1] = n /\ d.depth # Empty /\ d.depth # <<0>>
        BY <3>2 DEF Empty
      <3>4. d.history # Empty /\ d.history # <<"KeepAll">>
        BY <3>2 DEF Empty
      <3> QED BY <2>2, <3>3, <3>4
    <2> QED BY <1>0, <2>1, <2>2 DEF AnyHistory
  <1>3. /\ Or(d.deadline, Infinite) = q.deadline /\ Or(d.lifespan, Infinite) = q.lifespan
        /\ Or(d.lease, Infinite) = q.lease
    BY <1>0, <1>1, EntryRead
  <1>4. /\ Or(d.reliability, "Reliable") = q.reliability /\ Or(d.durability, "Volatile") = q.durability
        /\ Or(d.liveliness, "Automatic") = q.liveliness
    BY <1>1, NamedRead
  <1>5. qos_from_pydict(d) =
           [reliability |-> q.reliability, durability |-> q.durability, history |-> q.history,
            deadline |-> q.deadline, lifespan |-> q.lifespan, liveliness |-> q.liveliness,
            lease |-> q.lease]
    BY <1>2, <1>3, <1>4 DEF qos_from_pydict
  <1>6. q = [reliability |-> q.reliability, durability |-> q.durability, history |-> q.history,
             deadline |-> q.deadline, lifespan |-> q.lifespan, liveliness |-> q.liveliness,
             lease |-> q.lease]
    BY DEF AnyQos
  <1> QED BY <1>5, <1>6

-----------------------------------------------------------------------------
\* What ros-z makes of a profile of rmw, and of the three policies of it that
\* travel: the policies that are left open become their defaults.
LEMMA FromRmw ==
  ASSUME NEW r \in AnyRmwQos, NEW q, q = rmw_qos_to_ros_z_qos(r)
  PROVE  /\ r.reliability = 2 => q.reliability = "BestEffort"
         /\ r.reliability # 2 => q.reliability = "Reliable"
         /\ r.durability = 1 => q.durability = "TransientLocal"
         /\ r.durability # 1 => q.durability = "Volatile"
         /\ r.history = 2 => q.history = KeepAll
         /\ r.history = 1 /\ r.depth # 0 => q.history = KeepLast(r.depth)
         /\ r.history = 0 \/ (r.history = 1 /\ r.depth = 0) => q.history = KeepLast(DEFAULT_HISTORY_DEPTH)
         /\ r.liveliness = 3 => q.liveliness = "ManualByTopic"
         /\ r.liveliness # 3 => q.liveliness = "Automatic"
         /\ q.deadline = r.deadline /\ q.lifespan = r.lifespan /\ q.lease = r.lease
  <1>0. /\ r.reliability \in {0, 1, 2} /\ r.durability \in {0, 1, 2} /\ r.history \in {0, 1, 2}
        /\ r.liveliness \in {0, 1, 3}
    BY DEF AnyRmwQos
  <1>1. /\ q.reliability = OrDefault(RmwReliability, r.reliability, "Reliable")
        /\ q.durability = OrDefault(RmwDurability, r.durability, "Volatile")
        /\ q.liveliness = OrDefault(RmwLiveliness, r.liveliness, "Automatic")
        /\ q.deadline = r.deadline /\ q.lifespan = r.lifespan /\ q.lease = r.lease
    BY DEF rmw_qos_to_ros_z_qos
  <1>2. /\ r.history = 1 => q.history = from_depth(r.depth)
        /\ r.history = 2 => q.history = KeepAll
        /\ r.history = 0 => q.history = DefaultQos.history
    BY DEF rmw_qos_to_ros_z_qos
  <1>3. /\ r.history = 2 => q.history = KeepAll
        /\ r.history = 1 /\ r.depth # 0 => q.history = KeepLast(r.depth)
        /\ r.history = 0 \/ (r.history = 1 /\ r.depth = 0) => q.history = KeepLast(DEFAULT_HISTORY_DEPTH)
    BY <1>2 DEF from_depth, DefaultQos
  <1>4. /\ r.reliability = 2 => q.reliability = "BestEffort"
        /\ r.reliability # 2 => q.reliability = "Reliable"
    BY <1>0, <1>1, RmwCodes DEF OrDefault
  <1>5. /\ r.durability = 1 => q.durability = "TransientLocal"
        /\ r.durability # 1 => q.durability = "Volatile"
    BY <1>0, <1>1, RmwCodes DEF OrDefault
  <1>6. /\ r.liveliness = 3 => q.liveliness = "ManualByTopic"
        /\ r.liveliness # 3 => q.liveliness = "Automatic"
    BY <1>0, <1>1, RmwCodes DEF OrDefault
  <1> QED BY <1>1, <1>3, <1>4, <1>5, <1>6

\* The way through ros-z and back closes what rmw left open, and nothing else.
LEMMA ThroughRosZ ==
  ASSUME NEW r \in AnyRmwQos, NEW back, back = ros_z_qos_to_rmw_qos(rmw_qos_to_ros_z_qos(r))
  PROVE  /\ back \in AnyRmwQos
         /\ back.reliability = IF r.reliability = 2 THEN 2 ELSE 1
         /\ back.durability = IF r.durability = 1 THEN 1 ELSE 2
         /\ back.history = IF r.history = 2 THEN 2 ELSE 1
         /\ r.history = 2 => back.depth = 0
         /\ r.history = 1 /\ r.depth # 0 => back.depth = r.depth
         /\ r.history = 0 \/ (r.history = 1 /\ r.depth = 0) => back.depth = DEFAULT_HISTORY_DEPTH
         /\ back.liveliness = IF r.liveliness = 3 THEN 3 ELSE 1
         /\ back.deadline = r.deadline /\ back.lifespan = r.lifespan /\ back.lease = r.lease
  <1>0. /\ r.reliability \in {0, 1, 2} /\ r.durability \in {0, 1, 2} /\ r.history \in {0, 1, 2}
        /\ r.liveliness \in {0, 1, 3} /\ r.depth \in Nat
        /\ r.deadline \in 0..Infinite /\ r.lifespan \in 0..Infinite /\ r.lease \in 0..Infinite
    BY DEF AnyRmwQos
  <1>q. PICK q : q = rmw_qos_to_ros_z_qos(r)
    OBVIOUS
  <1>1. /\ r.reliability = 2 => q.reliability = "BestEffort"
        /\ r.reliability # 2 => q.reliability = "Reliable"
        /\ r.durability = 1 => q.durability = "TransientLocal"
        /\ r.durability # 1 => q.durability = "Volatile"
        /\ r.history = 2 => q.history = KeepAll
        /\ r.history = 1 /\ r.depth # 0 => q.history = KeepLast(r.depth)
        /\ r.history = 0 \/ (r.history = 1 /\ r.depth = 0) => q.history = KeepLast(DEFAULT_HISTORY_DEPTH)
        /\ r.liveliness = 3 => q.liveliness = "ManualByTopic"
        /\ r.liveliness # 3 => q.liveliness = "Automatic"
        /\ q.deadline = r.deadline /\ q.lifespan = r.lifespan /\ q.lease = r.lease
    BY <1>q, FromRmw
  <1>2. /\ back.reliability = Code(RmwReliability, q.reliability)
        /\ back.durability = Code(RmwDurability, q.durability)
        /\ back.history = Code(RmwHistory, q.history[1])
        /\ back.depth = IF q.history = KeepAll THEN 0 ELSE q.history[2]
        /\ back.deadline = q.deadline /\ back.lifespan = q.lifespan
        /\ back.liveliness = IF q.liveliness = "Automatic" THEN 1 ELSE 3
        /\ back.lease = q.lease
    BY <1>q DEF ros_z_qos_to_rmw_qos
  <1>3. /\ back.reliability = IF r.reliability = 2 THEN 2 ELSE 1
        /\ back.durability = IF r.durability = 1 THEN 1 ELSE 2
    BY <1>1, <1>2, RmwCodes
  <1>4. back.liveliness = IF r.liveliness = 3 THEN 3 ELSE 1
    BY <1>1, <1>2
  <1>5. /\ back.history = IF r.history = 2 THEN 2 ELSE 1
        /\ r.history = 2 => back.depth = 0
        /\ r.history = 1 /\ r.depth # 0 => back.depth = r.depth
        /\ r.history = 0 \/ (r.history = 1 /\ r.depth = 0) => back.depth = DEFAULT_HISTORY_DEPTH
    <2>1. CASE r.history = 2
      <3>1. q.history = KeepAll /\ KeepAll[1] = "KeepAll"
        BY <1>1, <2>1 DEF KeepAll
      <3> QED BY <1>2, <2>1, <3>1, RmwCodes
    <2>2. ASSUME NEW n \in Nat, q.history = KeepLast(n)
          PROVE  back.history = 1 /\ back.depth = n
      <3>1. q.history # KeepAll /\ q.history[1] = "KeepLast" /\ q.history[2] = n
        BY <2>2, LastHistory
      <3> QED BY <1>2, <3>1, RmwCodes
    <2>3. DEFAULT_HISTORY_DEPTH \in Nat
      BY DEF DEFAULT_HISTORY_DEPTH
    <2> QED BY <1>0, <1>1, <2>1, <2>2, <2>3
  <1>6. back.depth \in Nat
    BY <1>0, <1>5 DEF DEFAULT_HISTORY_DEPTH
  <1>7. back \in AnyRmwQos
    <2>1. /\ back.reliability \in {0, 1, 2} /\ back.durability \in {0, 1, 2}
          /\ back.history \in {0, 1, 2} /\ back.liveliness \in {0, 1, 3}
          /\ back.deadline \in 0..Infinite /\ back.lifespan \in 0..Infinite /\ back.lease \in 0..Infinite
      BY <1>0, <1>1, <1>2, <1>3, <1>4, <1>5
    <2>2. back = [reliability |-> back.reliability, durability |-> back.durability,
                  history |-> back.history, depth |-> back.depth, deadline |-> back.deadline,
                  lifespan |-> back.lifespan, liveliness |-> back.liveliness, lease |-> back.lease]
      BY DEF ros_z_qos_to_rmw_qos
    <2> QED BY <1>6, <2>1, <2>2 DEF AnyRmwQos
  <1> QED BY <1>1, <1>2, <1>3, <1>4, <1>5, <1>7

\* What came from rmw goes back as it came, up to the defaults.
LEMMA StableThroughRosZ == ASSUME QosInput PROVE RmwQosStable
  <1> SUFFICES ASSUME x \in AnyRmwQos
               PROVE  LET q == rmw_qos_to_ros_z_qos(x)
                          back == ros_z_qos_to_rmw_qos(q)
                      IN  /\ rmw_qos_to_ros_z_qos(back) = q
                          /\ \A f \in {"reliability", "durability", "history", "liveliness"} :
                                x[f] # 0 => back[f] = x[f]
                          /\ x.history = 1 => back.depth = normalize_rmw_qos(x).depth
                          /\ back.history = 1 => back.depth > 0
    BY DEF QosInput, RmwQosStable
  <1>q. PICK q : q = rmw_qos_to_ros_z_qos(x)
    OBVIOUS
  <1>b. PICK back : back = ros_z_qos_to_rmw_qos(q)
    OBVIOUS
  <1>a. PICK again : again = rmw_qos_to_ros_z_qos(back)
    OBVIOUS
  <1>0. /\ x.reliability \in {0, 1, 2} /\ x.durability \in {0, 1, 2} /\ x.history \in {0, 1, 2}
        /\ x.liveliness \in {0, 1, 3} /\ x.depth \in Nat
    BY DEF AnyRmwQos
  <1>1. /\ back \in AnyRmwQos
        /\ back.reliability = IF x.reliability = 2 THEN 2 ELSE 1
        /\ back.durability = IF x.durability = 1 THEN 1 ELSE 2
        /\ back.history = IF x.history = 2 THEN 2 ELSE 1
        /\ x.history = 2 => back.depth = 0
        /\ x.history = 1 /\ x.depth # 0 => back.depth = x.depth
        /\ x.history = 0 \/ (x.history = 1 /\ x.depth = 0) => back.depth = DEFAULT_HISTORY_DEPTH
        /\ back.liveliness = IF x.liveliness = 3 THEN 3 ELSE 1
        /\ back.deadline = x.deadline /\ back.lifespan = x.lifespan /\ back.lease = x.lease
    BY <1>q, <1>b, ThroughRosZ
  <1>2. again.reliability = q.reliability
    <2>1. /\ x.reliability = 2 => q.reliability = "BestEffort"
          /\ x.reliability # 2 => q.reliability = "Reliable"
      BY <1>q, FromRmw
    <2>2. /\ back.reliability = 2 => again.reliability = "BestEffort"
          /\ back.reliability # 2 => again.reliability = "Reliable"
      BY <1>1, <1>a, FromRmw
    <2> QED BY <1>1, <2>1, <2>2
  <1>3. again.durability = q.durability
    <2>1. /\ x.durability = 1 => q.durability = "TransientLocal"
          /\ x.durability # 1 => q.durability = "Volatile"
      BY <1>q, FromRmw
    <2>2. /\ back.durability = 1 => again.durability = "TransientLocal"
          /\ back.durability # 1 => again.durability = "Volatile"
      BY <1>1, <1>a, FromRmw
    <2> QED BY <1>1, <2>1, <2>2
  <1>4. again.liveliness = q.liveliness
    <2>1. /\ x.liveliness = 3 => q.liveliness = "ManualByTopic"
          /\ x.liveliness # 3 => q.liveliness = "Automatic"
      BY <1>q, FromRmw
    <2>2. /\ back.liveliness = 3 => again.liveliness = "ManualByTopic"
          /\ back.liveliness # 3 => again.liveliness = "Automatic"
      BY <1>1, <1>a, FromRmw
    <2> QED BY <1>1, <2>1, <2>2
  <1>5. again.history = q.history
    <2>1. /\ x.history = 2 => q.history = KeepAll
          /\ x.history = 1 /\ x.depth # 0 => q.history = KeepLast(x.depth)
          /\ x.history = 0 \/ (x.history = 1 /\ x.depth = 0) => q.history = KeepLast(DEFAULT_HISTORY_DEPTH)
      BY <1>q, FromRmw
    <2>2. /\ back.history = 2 => again.history = KeepAll
          /\ back.history = 1 /\ back.depth # 0 => again.history = KeepLast(back.depth)
      BY <1>1, <1>a, FromRmw
    <2>3. DEFAULT_HISTORY_DEPTH # 0
      BY DEF DEFAULT_HISTORY_DEPTH
    <2> QED BY <1>0, <1>1, <2>1, <2>2, <2>3
  <1>6. again.deadline = q.deadline /\ again.lifespan = q.lifespan /\ again.lease = q.lease
    <2>1. q.deadline = x.deadline /\ q.lifespan = x.lifespan /\ q.lease = x.lease
      BY <1>q, FromRmw
    <2>2. again.deadline = back.deadline /\ again.lifespan = back.lifespan /\ again.lease = back.lease
      BY <1>1, <1>a, FromRmw
    <2> QED BY <1>1, <2>1, <2>2
  <1>7. again = q
    <2>1. q = [reliability |-> q.reliability, durability |-> q.durability, history |-> q.history,
               deadline |-> q.deadline, lifespan |-> q.lifespan, liveliness |-> q.liveliness,
               lease |-> q.lease]
      BY <1>q DEF rmw_qos_to_ros_z_qos
    <2>2. again = [reliability |-> again.reliability, durability |-> again.durability,
                   history |-> again.history, deadline |-> again.deadline, lifespan |-> again.lifespan,
                   liveliness |-> again.liveliness, lease |-> again.lease]
      BY <1>a DEF rmw_qos_to_ros_z_qos
    <2> QED BY <1>2, <1>3, <1>4, <1>5, <1>6, <2>1, <2>2
  <1>8. ASSUME NEW f \in {"reliability", "durability", "history", "liveliness"}, x[f] # 0
        PROVE  back[f] = x[f]
    BY <1>0, <1>1, <1>8
  <1>9. x.history = 1 => back.depth = normalize_rmw_qos(x).depth
    <2>1. normalize_rmw_qos(x).depth = IF x.history = 1 /\ x.depth = 0 THEN DEFAULT_HISTORY_DEPTH ELSE x.depth
      BY DEF normalize_rmw_qos, AnyRmwQos
    <2> QED BY <1>1, <2>1
  <1>10. back.history = 1 => back.depth > 0
    BY <1>0, <1>1 DEF DEFAULT_HISTORY_DEPTH
  <1> QED BY <1>q, <1>b, <1>a, <1>7, <1>8, <1>9, <1>10

-----------------------------------------------------------------------------
\* When a publisher suits a subscription.
Suits(p, s) ==
    /\ ~(p.reliability = 2 /\ s.reliability = 1)
    /\ ~(p.durability = 2 /\ s.durability = 1)
    /\ ~Exceeds(p.deadline, s.deadline)
    /\ ~(s.liveliness > p.liveliness)
    /\ ~Exceeds(p.lease, s.lease)

\* When check_qos_compatibility_with_policy is content.
LEMMA SuitsChecked ==
  ASSUME NEW p, NEW s
  PROVE  /\ check_qos_compatibility_with_policy(p, s) = "compatible" <=> Suits(p, s)
         /\ check_qos_compatibility_with_policy(p, s) = "durability" => p.durability = 2
  BY DEF check_qos_compatibility_with_policy, Suits

\* The fields of a profile of rmw.
LEMMA RmwFields ==
  ASSUME NEW r \in AnyRmwQos
  PROVE  /\ r.reliability \in {0, 1, 2} /\ r.durability \in {0, 1, 2} /\ r.liveliness \in {0, 1, 3}
         /\ r.deadline \in Nat /\ r.deadline <= Infinite
         /\ r.lease \in Nat /\ r.lease <= Infinite
         /\ Infinite \in Nat /\ Infinite > 0
  BY InfiniteAssumption DEF AnyRmwQos

\* The profile that is reported.
LEMMA ActualFields ==
  ASSUME NEW r \in AnyRmwQos, NEW actual, actual = get_actual_qos(r)
  PROVE  /\ actual.reliability = r.reliability /\ actual.durability = r.durability
         /\ actual.deadline = IF r.deadline = 0 THEN MaxSeconds ELSE r.deadline
         /\ actual.lease = IF r.lease = 0 THEN MaxSeconds ELSE r.lease
         /\ actual.liveliness = IF r.liveliness = 0 THEN 1 ELSE r.liveliness
  BY DEF get_actual_qos, AnyRmwQos

\* The two endpoints of the input.
LEMMA Endpoints ==
  ASSUME QosInput, part = "offers"
  PROVE  x[1] \in AnyRmwQos /\ x[2] \in AnyRmwQos
  BY DEF QosInput

\* Who offers more stays compatible.
LEMMA OffersMore == ASSUME QosInput PROVE OfferMonotone
  <1> SUFFICES ASSUME part = "offers"
               PROVE  LET check(p) == check_qos_compatibility_with_policy(p, x[2]) IN
                      /\ check(x[2]) = "compatible"
                      /\ rmw_qos_profile_check_compatible(x[1], x[2]) = "warning" => check(x[1]) # "durability"
                      /\ check(x[1]) = "compatible" =>
                            \A f \in {"reliability", "durability", "liveliness"} :
                               check([x[1] EXCEPT ![f] = IF f = "liveliness" THEN 3 ELSE 1]) = "compatible"
    BY DEF OfferMonotone
  <1>p. PICK p \in AnyRmwQos : p = x[1]
    BY Endpoints
  <1>s. PICK s \in AnyRmwQos : s = x[2]
    BY Endpoints
  <1>1. check_qos_compatibility_with_policy(s, s) = "compatible"
    <2>1. Suits(s, s)
      BY RmwFields DEF Suits, Exceeds
    <2> QED BY <2>1, SuitsChecked
  <1>2. rmw_qos_profile_check_compatible(p, s) = "warning" =>
           check_qos_compatibility_with_policy(p, s) # "durability"
    <2>1. rmw_qos_profile_check_compatible(p, s) = "warning" => p.durability = 1
      BY DEF rmw_qos_profile_check_compatible
    <2>2. check_qos_compatibility_with_policy(p, s) = "durability" => p.durability = 2
      BY SuitsChecked
    <2> QED BY <2>1, <2>2
  <1>3. ASSUME check_qos_compatibility_with_policy(p, s) = "compatible",
               NEW f \in {"reliability", "durability", "liveliness"}
        PROVE  check_qos_compatibility_with_policy(
                  [p EXCEPT ![f] = IF f = "liveliness" THEN 3 ELSE 1], s) = "compatible"
    <2>m. PICK more : more = [p EXCEPT ![f] = IF f = "liveliness" THEN 3 ELSE 1]
      OBVIOUS
    <2>1. /\ more.reliability = p.reliability \/ more.reliability = 1
          /\ more.durability = p.durability \/ more.durability = 1
          /\ more.liveliness = p.liveliness \/ more.liveliness = 3
          /\ more.deadline = p.deadline /\ more.lease = p.lease
      BY <2>m DEF AnyRmwQos
    <2>2. Suits(p, s)
      BY <1>3, SuitsChecked
    <2>3. Suits(more, s)
      BY <2>1, <2>2, RmwFields DEF Suits
    <2> QED BY <2>m, <2>3, SuitsChecked
  <1> QED BY <1>p, <1>s, <1>1, <1>2, <1>3

\* Nothing is incompatible, so that everything found counts.
LEMMA MatchedAlike == ASSUME QosInput PROVE MatchedCounts
  <1>1. ASSUME NEW p, NEW s PROVE qos_profiles_are_compatible(p, s)
    BY DEF qos_profiles_are_compatible, rmw_qos_profile_check_compatible
  <1> QED BY <1>1 DEF MatchedCounts, CountsAsMatched

\* The profile reported as actual promises no more than the endpoint keeps.
LEMMA ReportsNoMore == ASSUME QosInput PROVE ActualOffersNoMore
  <1> SUFFICES ASSUME part = "offers"
               PROVE  LET suits(p, s) == check_qos_compatibility_with_policy(p, s) = "compatible"
                          actual == subscription_get_actual_qos(x[2])
                      IN  /\ x[1].liveliness # 0 /\ suits(get_actual_qos(x[1]), x[2]) => suits(x[1], x[2])
                          /\ x[2].liveliness # 0 =>
                                /\ suits(x[1], actual) => suits(x[1], x[2])
                                /\ suits(x[1], x[2]) /\ x[1].deadline <= MaxSeconds
                                   /\ x[1].lease <= MaxSeconds => suits(x[1], actual)
    BY DEF ActualOffersNoMore
  <1>p. PICK p \in AnyRmwQos : p = x[1]
    BY Endpoints
  <1>s. PICK s \in AnyRmwQos : s = x[2]
    BY Endpoints
  <1>ap. PICK ap : ap = get_actual_qos(p)
    OBVIOUS
  <1>as. PICK as : as = get_actual_qos(s)
    OBVIOUS
  <1>1. /\ ap.reliability = p.reliability /\ ap.durability = p.durability
        /\ ap.deadline = IF p.deadline = 0 THEN MaxSeconds ELSE p.deadline
        /\ ap.lease = IF p.lease = 0 THEN MaxSeconds ELSE p.lease
        /\ ap.liveliness = IF p.liveliness = 0 THEN 1 ELSE p.liveliness
    BY <1>ap, ActualFields
  <1>2. /\ as.reliability = s.reliability /\ as.durability = s.durability
        /\ as.deadline = IF s.deadline = 0 THEN MaxSeconds ELSE s.deadline
        /\ as.lease = IF s.lease = 0 THEN MaxSeconds ELSE s.lease
        /\ as.liveliness = IF s.liveliness = 0 THEN 1 ELSE s.liveliness
    BY <1>as, ActualFields
  <1>3. /\ p.deadline \in Nat /\ p.lease \in Nat /\ s.deadline \in Nat /\ s.lease \in Nat
        /\ MaxSeconds \in Nat /\ MaxSeconds > 0
    BY RmwFields, InfiniteAssumption
  <1>4. ASSUME Suits(p, as), s.liveliness # 0
        PROVE  Suits(p, s)
    <2>1. Exceeds(p.deadline, s.deadline) => Exceeds(p.deadline, as.deadline)
      BY <1>2, <1>3 DEF Exceeds
    <2>2. Exceeds(p.lease, s.lease) => Exceeds(p.lease, as.lease)
      BY <1>2, <1>3 DEF Exceeds
    <2>3. as.liveliness = s.liveliness
      BY <1>2, <1>4
    <2> QED BY <1>2, <1>4, <2>1, <2>2, <2>3 DEF Suits
  <1>5. ASSUME Suits(p, s), s.liveliness # 0, p.deadline <= MaxSeconds, p.lease <= MaxSeconds
        PROVE  Suits(p, as)
    <2>1. Exceeds(p.deadline, as.deadline) => Exceeds(p.deadline, s.deadline)
      BY <1>2, <1>3, <1>5 DEF Exceeds
    <2>2. Exceeds(p.lease, as.lease) => Exceeds(p.lease, s.lease)
      BY <1>2, <1>3, <1>5 DEF Exceeds
    <2>3. as.liveliness = s.liveliness
      BY <1>2, <1>5
    <2> QED BY <1>2, <1>5, <2>1, <2>2, <2>3 DEF Suits
  <1>6. ASSUME Suits(ap, s), p.liveliness # 0
        PROVE  Suits(p, s)
    <2>1. Exceeds(p.deadline, s.deadline) => Exceeds(ap.deadline, s.deadline)
      BY <1>1, <1>3 DEF Exceeds
    <2>2. Exceeds(p.lease, s.lease) => Exceeds(ap.lease, s.lease)
      BY <1>1, <1>3 DEF Exceeds
    <2>3. ap.liveliness = p.liveliness
      BY <1>1, <1>6
    <2> QED BY <1>1, <1>6, <2>1, <2>2, <2>3 DEF Suits
  <1>7. /\ check_qos_compatibility_with_policy(p, s) = "compatible" <=> Suits(p, s)
        /\ check_qos_compatibility_with_policy(ap, s) = "compatible" <=> Suits(ap, s)
        /\ check_qos_compatibility_with_policy(p, as) = "compatible" <=> Suits(p, as)
    BY SuitsChecked
  <1> QED BY <1>p, <1>s, <1>ap, <1>as, <1>4, <1>5, <1>6, <1>7 DEF subscription_get_actual_qos

\* For every profile of ros-z and of rmw, and every pair of a publisher and a
\* subscription: no encoding loses or changes a policy, who offers more stays
\* compatible, each counts the other, and none reports more than it keeps.
THEOREM QosFaithfulCorrect == QosInput => QosFaithful
  <1> SUFFICES ASSUME QosInput PROVE QosFaithful
    OBVIOUS
  <1>1. QosRoundTrip
    BY TokenCarriesAll DEF QosInput, QosRoundTrip
  <1>2. PyQosRoundTrip
    BY DictionaryCarriesAll DEF QosInput, PyQosRoundTrip
  <1> QED BY <1>1, <1>2, Interop, StableThroughRosZ, OffersMore, MatchedAlike, ReportsNoMore DEF QosFaithful

\* The inputs of the data run are some of these.
LEMMA InputsCovered ==
  ASSUME Infinite >= 2
  PROVE  QosProfiles \subseteq AnyQos /\ RmwProfiles \subseteq AnyRmwQos /\ RmwOffers \subseteq AnyRmwQos
  <1>0. Infinite \in Nat
    BY InfiniteAssumption
  <1>1. QosProfiles \subseteq AnyQos
    <2>1. Times \subseteq Nat /\ {1, Infinite} \subseteq Nat
      BY <1>0 DEF Times
    <2>2. Depths \subseteq Nat \ {0}
      BY DEF Depths, DEFAULT_HISTORY_DEPTH
    <2>3. {KeepLast(n) : n \in Depths} \cup {KeepAll} \subseteq AnyHistory
      BY <2>2 DEF AnyHistory
    <2> QED BY <2>1, <2>3 DEF QosProfiles, AnyQos
  <1>2. RmwProfiles \subseteq AnyRmwQos
    <2>1. {0, 1, 2} \subseteq 0..Infinite /\ {0} \subseteq 0..Infinite /\ {0, Infinite} \subseteq 0..Infinite
      BY <1>0
    <2>2. 0..2 = {0, 1, 2} /\ {0, 2} \subseteq Nat
      OBVIOUS
    <2> QED BY <2>1, <2>2 DEF RmwProfiles, AnyRmwQos
  <1> QED BY <1>1, <1>2 DEF RmwOffers

-----------------------------------------------------------------------------
(* Names: any texts, namespaces and rules. *)

\* The root namespace is one namespace, in whichever of its two forms a name is
\* qualified: with_namespace and the graph's keys drop the slash.
THEOREM RootNamespaceAlike ==
  ASSUME NEW t, NEW ns, NEW node
  PROVE  qualify_topic_name(t, normalize_namespace(ns), node) = qualify_topic_name(t, ns, node)
  <1>1. CASE ns = <<"/">>
    <2>1. normalize_namespace(ns) = <<>>
      BY <1>1 DEF normalize_namespace
    <2>2. validate_namespace(<<>>) /\ validate_namespace(<<"/">>)
      BY DEF validate_namespace
    <2>3. \A s : Under(<<>>, s) = Under(<<"/">>, s)
      BY DEF Under
    <2>4. qualify_private(t, <<>>, node) = qualify_private(t, <<"/">>, node)
      BY <2>3 DEF qualify_private
    <2>5. qualify_relative(t, <<>>) = qualify_relative(t, <<"/">>)
      BY <2>3 DEF qualify_relative
    <2> QED BY <1>1, <2>1, <2>2, <2>4, <2>5 DEF qualify_topic_name
  <1>2. CASE ns # <<"/">>
    BY <1>2 DEF normalize_namespace
  <1> QED BY <1>1, <1>2

\* The concatenation of two sequences.
LEMMA Joined ==
  ASSUME NEW U, NEW v \in Seq(U), NEW w \in Seq(U)
  PROVE  /\ v \o w \in Seq(U) /\ Len(v \o w) = Len(v) + Len(w)
         /\ \A i \in 1..Len(v) : (v \o w)[i] = v[i]
         /\ \A i \in 1..Len(w) : (v \o w)[Len(v) + i] = w[i]
  OBVIOUS

\* What is put under a namespace is absolute.
LEMMA UnderAbsolute ==
  ASSUME NEW U, "/" \in U, NEW ns \in Seq(U), NEW s \in Seq(U)
  PROVE  Starts(Under(ns, s), "/") /\ Under(ns, s) \in Seq(U)
  <1>p. PICK p : p = IF ns \in {<<>>, <<"/">>} THEN <<>> ELSE IF Starts(ns, "/") THEN ns ELSE <<"/">> \o ns
    OBVIOUS
  <1>1. Under(ns, s) = p \o <<"/">> \o s
    BY <1>p DEF Under
  <1>2. p \in Seq(U) /\ (p = <<>> \/ p[1] = "/")
    BY <1>p DEF Starts
  <1>o. PICK o : o = <<"/">>
    OBVIOUS
  <1>3. o \in Seq(U) /\ Len(o) = 1 /\ o[1] = "/"
    BY <1>o
  <1>q. PICK q : q = p \o o
    OBVIOUS
  <1>4. q \in Seq(U) /\ Len(q) > 0 /\ q[1] = "/"
    <2>0. p \in Seq(U) /\ o \in Seq(U) /\ Len(o) = 1
      BY <1>2, <1>3
    <2>4. q \in Seq(U) /\ Len(q) = Len(p) + Len(o)
      BY <2>0, <1>q, Joined
    <2>1. q \in Seq(U) /\ Len(q) = Len(p) + 1
      BY <2>0, <2>4
    <2>2. CASE p = <<>>
      BY <1>2, <1>3, <1>q, <2>1, <2>2
    <2>3. CASE p # <<>>
      BY <1>2, <1>3, <1>q, <2>1, <2>3
    <2> QED BY <2>1, <2>2, <2>3, <1>2
  <1>r. PICK r : r = q \o s
    OBVIOUS
  <1>5. r \in Seq(U) /\ Len(r) > 0 /\ r[1] = "/"
    BY <1>4, <1>r
  <1> QED BY <1>1, <1>o, <1>q, <1>r, <1>5 DEF Starts

\* StripSuffix and StripPrefix take a slash off at most.
LEMMA Stripped ==
  ASSUME NEW U, NEW s \in Seq(U)
  PROVE  /\ StripSuffix(s) \in Seq(U) /\ StripPrefix(s) \in Seq(U)
         /\ StripSuffix(s) # <<>> => StripSuffix(s)[1] = s[1] /\ s # <<>>
  <1>1. CASE Ends(s, "/")
    <2>1. s # <<>> /\ StripSuffix(s) = SubSeq(s, 1, Len(s) - 1)
      BY <1>1 DEF StripSuffix, Ends
    <2>n. PICK n : n = Len(s) - 1
      OBVIOUS
    <2>0. n \in Nat /\ n <= Len(s)
      BY <2>1, <2>n
    <2>4. SubSeq(s, 1, n) \in Seq(U)
      BY <2>0
    <2>5. Len(SubSeq(s, 1, n)) = n
      BY <2>0
    <2>2. SubSeq(s, 1, Len(s) - 1) \in Seq(U) /\ Len(SubSeq(s, 1, Len(s) - 1)) = Len(s) - 1
      BY <2>n, <2>4, <2>5
    <2>3. SubSeq(s, 1, Len(s) - 1) # <<>> => SubSeq(s, 1, Len(s) - 1)[1] = s[1]
      BY <2>1, <2>2
    <2> QED BY <2>1, <2>2, <2>3 DEF StripPrefix, Starts
  <1>2. CASE ~Ends(s, "/")
    BY <1>2 DEF StripSuffix, StripPrefix, Starts
  <1> QED BY <1>1, <1>2

\* A qualified name is absolute, and qualify_topic_name leaves it alone in every
\* namespace, up to one final slash: builders that qualify a name again, as
\* those of actions do, mean the same topic.
THEOREM QualifiedIsStable ==
  ASSUME NEW U, "/" \in U, NEW t \in Seq(U), NEW ns \in Seq(U), NEW node \in Seq(U),
         qualify_topic_name(t, ns, node) # NameError,
         StripSuffix(qualify_topic_name(t, ns, node)) \notin {<<>>, <<"/">>}
  PROVE  /\ Starts(qualify_topic_name(t, ns, node), "/")
         /\ \A other \in Seq(U) :
               validate_namespace(other) =>
                  qualify_topic_name(qualify_topic_name(t, ns, node), other, node)
                     = StripSuffix(qualify_topic_name(t, ns, node))
  <1>q. PICK q : q = qualify_topic_name(t, ns, node)
    OBVIOUS
  <1>1. t # <<>> /\ validate_namespace(ns) /\ validate_node_name(node)
    BY DEF qualify_topic_name
  <1>2. /\ Starts(t, "/") => q = qualify_absolute(t)
        /\ ~Starts(t, "/") /\ Starts(t, "~") => q = qualify_private(t, ns, node)
        /\ ~Starts(t, "/") /\ ~Starts(t, "~") => q = qualify_relative(t, ns)
    BY <1>1, <1>q, "/" # "~" DEF qualify_topic_name, Starts
  <1>3. Starts(q, "/")
    <2>1. CASE Starts(t, "/")
      <3>1. q = StripSuffix(t) /\ q # <<>>
        BY <1>2, <1>q, <2>1 DEF qualify_absolute
      <3> QED BY <2>1, <3>1, Stripped DEF Starts
    <2>2. CASE ~Starts(t, "/") /\ Starts(t, "~")
      <3>s. PICK s : s = StripPrefix(Tail(t))
        OBVIOUS
      <3>u. PICK u : u = IF s = <<>> THEN node ELSE node \o <<"/">> \o s
        OBVIOUS
      <3>1. q = Under(ns, u)
        BY <1>2, <1>q, <2>2, <3>s, <3>u DEF qualify_private
      <3>2. s \in Seq(U)
        <4>1. Tail(t) \in Seq(U)
          BY <1>1
        <4> QED BY <3>s, <4>1, Stripped
      <3>3. <<"/">> \in Seq(U)
        OBVIOUS
      <3>4. node \o <<"/">> \in Seq(U)
        BY <3>3, Joined
      <3>5. u \in Seq(U)
        BY <3>2, <3>4, <3>u, Joined
      <3> QED BY <3>1, <3>5, UnderAbsolute
    <2>3. CASE ~Starts(t, "/") /\ ~Starts(t, "~")
      <3>1. q = Under(ns, StripSuffix(t))
        BY <1>2, <1>q, <2>3 DEF qualify_relative
      <3> QED BY <3>1, Stripped, UnderAbsolute
    <2> QED BY <2>1, <2>2, <2>3
  <1>4. ASSUME NEW other \in Seq(U), validate_namespace(other)
        PROVE  qualify_topic_name(q, other, node) = StripSuffix(q)
    <2>1. qualify_absolute(q) = StripSuffix(q)
      BY <1>q DEF qualify_absolute
    <2>2. q # <<>>
      BY <1>3 DEF Starts
    <2>3. ~Starts(q, "~")
      BY <1>3 DEF Starts
    <2> QED BY <1>1, <1>3, <1>4, <2>1, <2>2, <2>3 DEF qualify_topic_name
  <1> QED BY <1>q, <1>3, <1>4

\* No two rules for one name.
OneRule(rules) == \A r, s \in rules : r[1] = s[1] => r = s

\* RemapRules: the rule given last for a name holds, it leaves the other names
\* alone, and there is never more than one rule for a name to choose from.
THEOREM RemapLatest ==
  ASSUME NEW U, NEW rules \in SUBSET (Seq(U) \X Seq(U)), OneRule(rules),
         NEW from \in Seq(U), NEW to \in Seq(U), from # <<>>, to # <<>>
  PROVE  /\ OneRule(add_rule(rules, from, to))
         /\ add_rule(rules, from, to) \in SUBSET (Seq(U) \X Seq(U))
         /\ apply(add_rule(rules, from, to), from) = to
         /\ \A n \in Seq(U) : n # from => apply(add_rule(rules, from, to), n) = apply(rules, n)
  <1>n. PICK new : new = <<from, to>>
    OBVIOUS
  <1>1. new[1] = from /\ new[2] = to /\ new \in Seq(U) \X Seq(U)
    BY <1>n
  <1>a. PICK a : a = add_rule(rules, from, to)
    OBVIOUS
  <1>2. a = {r \in rules : r[1] # from} \cup {new}
    BY <1>a, <1>n DEF add_rule
  <1>3. OneRule(a) /\ a \in SUBSET (Seq(U) \X Seq(U))
    BY <1>1, <1>2 DEF OneRule
  <1>4. apply(a, from) = to
    <2>1. new \in a /\ \A r \in a : r[1] = from => r = new
      BY <1>1, <1>2
    <2>c. PICK c : c = CHOOSE r \in a : r[1] = from
      OBVIOUS
    <2>2. c \in a /\ c[1] = from
      BY <1>1, <2>1, <2>c
    <2>3. c = new
      BY <2>1, <2>2
    <2> QED BY <1>1, <2>1, <2>c, <2>3 DEF apply
  <1>5. ASSUME NEW n \in Seq(U), n # from
        PROVE  apply(a, n) = apply(rules, n)
    <2>1. \A r : r \in a /\ r[1] = n <=> r \in rules /\ r[1] = n
      BY <1>1, <1>2, <1>5
    <2>2. CASE \E r \in rules : r[1] = n
      <3>c. PICK c : c = CHOOSE r \in a : r[1] = n
        OBVIOUS
      <3>d. PICK d : d = CHOOSE r \in rules : r[1] = n
        OBVIOUS
      <3>1. c \in a /\ c[1] = n
        BY <2>1, <2>2, <3>c
      <3>2. d \in rules /\ d[1] = n
        BY <2>2, <3>d
      <3>3. c = d
        BY <2>1, <3>1, <3>2 DEF OneRule
      <3> QED BY <2>1, <2>2, <3>c, <3>d, <3>3 DEF apply
    <2>3. CASE ~\E r \in rules : r[1] = n
      BY <2>1, <2>3 DEF apply
    <2> QED BY <2>2, <2>3
  <1> QED BY <1>a, <1>3, <1>4, <1>5

\* What the topics of an action are put together from.
LEMMA ActionParts ==
  ASSUME NEW U, {"/", "_action"} \subseteq U, NEW w \in U, NEW q \in Seq(U)
  PROVE  LET t == q \o <<"/", "_action", "/", w>>
         IN  /\ t \in Seq(U) /\ Len(t) = Len(q) + 4
             /\ SubSeq(t, 1, Len(t) - 4) = q
             /\ SubSeq(t, Len(t) - 3, Len(t)) = <<"/", "_action", "/", w>>
  <1>f. PICK f : f = <<"/", "_action", "/", w>>
    OBVIOUS
  <1>1. f \in Seq(U) /\ Len(f) = 4
    BY <1>f
  <1>t. PICK t : t = q \o f
    OBVIOUS
  <1>2. t \in Seq(U) /\ Len(t) = Len(q) + 4
    <2>1. t \in Seq(U) /\ Len(t) = Len(q) + Len(f)
      BY <1>1, <1>t, Joined
    <2> QED BY <1>1, <2>1
  <1>3. /\ \A i \in 1..Len(q) : t[i] = q[i]
        /\ \A i \in 1..Len(f) : t[Len(q) + i] = f[i]
    <2>1. f \in Seq(U)
      BY <1>1
    <2> QED BY <1>t, <2>1, Joined
  <1>n. PICK n : n = Len(q)
    OBVIOUS
  <1>4. n \in Nat /\ Len(t) = n + 4
    BY <1>2, <1>n
  <1>h. PICK h : h = SubSeq(t, 1, n)
    OBVIOUS
  <1>5. h \in Seq(U)
    BY <1>2, <1>4, <1>h
  <1>6. Len(h) = n /\ \A i \in 1..n : h[i] = t[i]
    BY <1>2, <1>4, <1>h
  <1>7. h = q
    BY <1>3, <1>5, <1>6, <1>n
  <1>e. PICK e : e = SubSeq(t, n + 1, n + 4)
    OBVIOUS
  <1>8. e \in Seq(U)
    BY <1>2, <1>4, <1>e
  <1>9. Len(e) = 4 /\ \A i \in 1..Len(f) : e[i] = t[n + i]
    BY <1>1, <1>2, <1>4, <1>e
  <1>10. e = f
    BY <1>1, <1>3, <1>8, <1>9, <1>n
  <1>11. Len(t) - 4 = n /\ Len(t) - 3 = n + 1 /\ Len(t) = n + 4
    BY <1>4
  <1> QED BY <1>f, <1>t, <1>2, <1>h, <1>7, <1>e, <1>10, <1>11

\* Of the topics an action server declares, filter_action_names finds one, and
\* under it the name the server qualified.
THEOREM ActionListedOnce ==
  ASSUME NEW U, {"/", "_action", "feedback", "status"} \subseteq U, NEW q \in Seq(U)
  PROVE  filter_action_names({q \o <<"/", "_action", "/", "feedback">>,
                              q \o <<"/", "_action", "/", "status">>}) = {q}
  <1>a. PICK a : a = q \o <<"/", "_action", "/", "feedback">>
    OBVIOUS
  <1>b. PICK b : b = q \o <<"/", "_action", "/", "status">>
    OBVIOUS
  <1>f. PICK f : f = <<"/", "_action", "/", "feedback">>
    OBVIOUS
  <1>1. a \in Seq(U) /\ Len(a) = Len(q) + 4 /\ SubSeq(a, 1, Len(a) - 4) = q /\ SubSeq(a, Len(a) - 3, Len(a)) = f
    BY <1>a, <1>f, ActionParts
  <1>2. SubSeq(b, Len(b) - 3, Len(b)) = <<"/", "_action", "/", "status">>
    BY <1>b, ActionParts
  <1>3. SubSeq(b, Len(b) - 3, Len(b)) # f
    BY <1>2, <1>f
  <1>4. Len(a) >= 4
    BY <1>1
  <1>5. {u \in {a, b} : Len(u) >= 4 /\ SubSeq(u, Len(u) - 3, Len(u)) = f} = {a}
    BY <1>1, <1>3, <1>4
  <1>6. filter_action_names({a, b}) = {SubSeq(t, 1, Len(t) - 4) : t \in {a}}
    BY <1>5, <1>f DEF filter_action_names
  <1>7. {SubSeq(t, 1, Len(t) - 4) : t \in {a}} = {q}
    BY <1>1
  <1> QED BY <1>a, <1>b, <1>6, <1>7

-----------------------------------------------------------------------------
(* Liveliness tokens (Names): what is written is read, for every endpoint. *)

\* What names are made of.
Tokens == STRING \cup {"/", "%"}
\* Mangling is undone for a text without the escape character, and leaves no
\* slash to split at.
LEMMA MangleUndone ==
  ASSUME NEW s \in Seq(Tokens), NEW esc \in Tokens, ~Mentions(s, esc), esc # "/"
  PROVE  /\ demangle_name(mangle_name(s, esc), esc) = s
         /\ ~Mentions(mangle_name(s, esc), "/")
         /\ mangle_name(s, esc) \in Seq(Tokens) /\ Len(mangle_name(s, esc)) = Len(s)
  <1>m. PICK m : m = mangle_name(s, esc)
    OBVIOUS
  <1>1. m = [i \in 1..Len(s) |-> IF s[i] = "/" THEN esc ELSE s[i]]
    BY <1>m DEF mangle_name, Replace
  <1>2. m \in Seq(Tokens) /\ Len(m) = Len(s)
    BY <1>1
  <1>3. \A i \in 1..Len(s) : (s[i] = "/" => m[i] = esc) /\ (s[i] # "/" => m[i] = s[i])
    BY <1>1
  <1>4. \A i \in 1..Len(s) : s[i] # esc
    BY DEF Mentions
  <1>5. ~Mentions(m, "/")
    BY <1>2, <1>3, <1>4 DEF Mentions
  <1>d. PICK d : d = demangle_name(m, esc)
    OBVIOUS
  <1>6. d = [i \in 1..Len(s) |-> IF m[i] = esc THEN "/" ELSE m[i]]
    BY <1>2, <1>d DEF demangle_name, Replace
  <1>7. d \in Seq(Tokens) /\ Len(d) = Len(s)
    <2>1. \A i \in 1..Len(s) : (IF m[i] = esc THEN "/" ELSE m[i]) \in Tokens
      BY <1>2 DEF Tokens
    <2> QED BY <1>6, <2>1
  <1>8. \A i \in 1..Len(s) : d[i] = s[i]
    BY <1>3, <1>4, <1>6
  <1>9. d = s
    BY <1>7, <1>8
  <1> QED BY <1>m, <1>d, <1>2, <1>5, <1>9

\* A namespace comes back in the form of the graph's keys.
LEMMA NamespaceUndone ==
  ASSUME NEW ns \in Seq(Tokens), ~Mentions(ns, "%")
  PROVE  /\ OrPlaceholder(ns) = <<"%">> => normalize_namespace(ns) = <<>>
         /\ OrPlaceholder(ns) # <<"%">> => demangle_name(OrPlaceholder(ns), "%") = normalize_namespace(ns)
  <1>1. CASE ns = <<>>
    BY <1>1 DEF OrPlaceholder, normalize_namespace
  <1>2. CASE ns # <<>>
    <2>m. PICK m : m = mangle_name(ns, "%")
      OBVIOUS
    <2>1. OrPlaceholder(ns) = m
      BY <1>2, <2>m DEF OrPlaceholder
    <2>2. m \in Seq(Tokens) /\ Len(m) = Len(ns) /\ demangle_name(m, "%") = ns
      <3>1. "%" \in Tokens /\ "%" # "/"
        BY DEF Tokens
      <3> QED BY <2>m, <3>1, MangleUndone
    <2>3. m = <<"%">> => ns = <<"/">>
      <3> SUFFICES ASSUME m = <<"%">> PROVE ns = <<"/">>
        OBVIOUS
      <3>1. Len(m) = 1 /\ m[1] = "%"
        OBVIOUS
      <3>2. demangle_name(m, "%") = [i \in 1..1 |-> IF m[i] = "%" THEN "/" ELSE m[i]]
        BY <3>1 DEF demangle_name, Replace
      <3>3. Len(ns) = 1 /\ ns[1] = "/"
        BY <2>2, <3>1, <3>2
      <3> QED BY <3>3
    <2>4. ns = <<"/">> => m = <<"%">>
      <3> SUFFICES ASSUME ns = <<"/">> PROVE m = <<"%">>
        OBVIOUS
      <3>1. Len(ns) = 1 /\ ns[1] = "/"
        OBVIOUS
      <3>2. m = [i \in 1..1 |-> IF ns[i] = "/" THEN "%" ELSE ns[i]]
        BY <2>m, <3>1 DEF mangle_name, Replace
      <3>3. Len(m) = 1 /\ m[1] = "%"
        BY <2>2, <3>1, <3>2
      <3> QED BY <2>2, <3>3
    <2> QED BY <2>1, <2>2, <2>3, <2>4 DEF normalize_namespace
  <1> QED BY <1>1, <1>2

\* The endpoints a token can name: texts without the escape character, a topic
\* that does not end in a slash, and a type that is none or has a hash of version 1.
Words == STRING \ {"/"}
Texts == {s \in Seq(Tokens) : ~Mentions(s, "%")}
AnyType == {<<>>} \cup {<<t, h>> : t \in Texts \ {<<"EMPTY_TOPIC_TYPE">>}, h \in {"h", "zero"}}
AnyEndpoint ==
    [kind : EntityKinds \ {"Node"},
     node : [domain : Words, zid : Words, id : Words, ns : Texts, name : Texts],
     id : Words, topic : {t \in Texts : ~Ends(t, "/")}, type : AnyType, qos : Words]

\* A mangled text is one chunk.
LEMMA TextWhole ==
  ASSUME NEW s \in Texts
  PROVE  ~Mentions(mangle_name(s, "%"), "/")
  <1>1. "%" \in Tokens /\ "%" # "/" /\ s \in Seq(Tokens) /\ ~Mentions(s, "%")
    BY DEF Texts, Tokens
  <1> QED BY <1>1, MangleUndone

\* A word is one chunk.
LEMMA WordWhole ==
  ASSUME NEW w, w # "/"
  PROVE  ~Mentions(<<w>>, "/")
  BY DEF Mentions

\* A mangled text is read back.
LEMMA TextUndone ==
  ASSUME NEW s \in Texts
  PROVE  demangle_name(mangle_name(s, "%"), "%") = s
  <1>1. "%" \in Tokens /\ "%" # "/" /\ s \in Seq(Tokens) /\ ~Mentions(s, "%")
    BY DEF Texts, Tokens
  <1> QED BY <1>1, MangleUndone

\* So is a kind: no two have the same text.
LEMMA KindUndone ==
  ASSUME NEW k \in EntityKinds
  PROVE  from_str(KindText[k]) = k /\ k # "Error"
  <1>1. EntityKinds = {"Node", "Publisher", "Subscription", "Service", "Client"}
    BY DEF EntityKinds, KindText
  <1>2. \A j \in EntityKinds : KindText[j] = KindText[k] => j = k
    BY <1>1 DEF KindText
  <1>3. PICK t : t = KindText[k]
    OBVIOUS
  <1>4. from_str(t) = CHOOSE j \in EntityKinds : KindText[j] = t
    BY <1>3 DEF from_str
  <1>5. PICK c : c = CHOOSE j \in EntityKinds : KindText[j] = t
    OBVIOUS
  <1>6. c \in EntityKinds /\ KindText[c] = t
    BY <1>3, <1>5
  <1> QED BY <1>1, <1>2, <1>3, <1>4, <1>5, <1>6

\* So is a type and its hash, or that there is none.
LEMMA TypeUndone ==
  ASSUME NEW e, e.type \in AnyType
  PROVE  \E a, b : /\ TypeChunks(e) = <<a, b>> /\ parse_type(a, b) = e.type
                   /\ ~Mentions(a, "/") /\ ~Mentions(b, "/")
  <1>1. CASE e.type = <<>>
    <2>1. TypeChunks(e) = <<<<"EMPTY_TOPIC_TYPE">>, <<"EMPTY_TOPIC_HASH">>>>
      BY <1>1 DEF TypeChunks
    <2>2. parse_type(<<"EMPTY_TOPIC_TYPE">>, <<"EMPTY_TOPIC_HASH">>) = <<>>
      BY DEF parse_type
    <2>3. ~Mentions(<<"EMPTY_TOPIC_TYPE">>, "/") /\ ~Mentions(<<"EMPTY_TOPIC_HASH">>, "/")
      BY WordWhole
    <2> QED BY <1>1, <2>1, <2>2, <2>3
  <1>2. ASSUME NEW t \in Texts \ {<<"EMPTY_TOPIC_TYPE">>}, NEW h \in {"h", "zero"}, e.type = <<t, h>>
        PROVE  \E a, b : /\ TypeChunks(e) = <<a, b>> /\ parse_type(a, b) = e.type
                   /\ ~Mentions(a, "/") /\ ~Mentions(b, "/")
    <2>y. PICK y : y = e.type
      OBVIOUS
    <2>1. y = <<t, h>>
      BY <1>2, <2>y
    <2>2. y # <<>> /\ y[1] = t /\ y[2] = h
      BY <2>1
    <2>m. PICK m : m = mangle_name(t, "%")
      OBVIOUS
    <2>g. PICK g : g = to_rihs_string(h)
      OBVIOUS
    <2>c. PICK c : c = TypeChunks(e)
      OBVIOUS
    <2>3. c = <<m, <<g>>>>
      BY <2>y, <2>2, <2>m, <2>g, <2>c DEF TypeChunks
    <2>5. from_rihs_string(g) = h /\ g # "EMPTY_TOPIC_HASH"
      BY <2>g DEF to_rihs_string, from_rihs_string
    <2>6. demangle_name(m, "%") = t
      BY <2>m, TextUndone
    <2>7. m # <<"EMPTY_TOPIC_TYPE">>
      <3> SUFFICES ASSUME m = <<"EMPTY_TOPIC_TYPE">> PROVE FALSE
        OBVIOUS
      <3>1. Len(m) = 1 /\ m[1] = "EMPTY_TOPIC_TYPE"
        OBVIOUS
      <3>2. demangle_name(m, "%") = [i \in 1..1 |-> IF m[i] = "%" THEN "/" ELSE m[i]]
        BY <3>1 DEF demangle_name, Replace
      <3>3. t \in Seq(Tokens)
        BY DEF Texts
      <3>4. Len(t) = 1 /\ t[1] = "EMPTY_TOPIC_TYPE"
        BY <2>6, <3>1, <3>2, <3>3
      <3> QED BY <3>3, <3>4
    <2>8. PICK k : k = <<g>>
      OBVIOUS
    <2>9. k[1] = g /\ k # <<"EMPTY_TOPIC_HASH">>
      BY <2>5, <2>8
    <2>10. parse_type(m, k) = <<t, h>>
      BY <2>5, <2>6, <2>7, <2>9 DEF parse_type
    <2>11. TypeChunks(e) = <<m, k>> /\ parse_type(m, k) = e.type
      BY <1>2, <2>c, <2>3, <2>8, <2>10
    <2>12. g # "/"
      BY <2>g DEF to_rihs_string
    <2>13. ~Mentions(m, "/") /\ ~Mentions(k, "/")
      BY <2>m, <2>8, <2>12, TextWhole, WordWhole
    <2> QED BY <2>11, <2>13
  <1> QED BY <1>1, <1>2 DEF AnyType

\* The chunks of a token, by their index.
LEMMA Concatenated ==
  ASSUME NEW a1, NEW a2, NEW a3, NEW a4, NEW a5, NEW a6, NEW a7, NEW a8, NEW a9,
         NEW b, NEW c, NEW d, NEW f, NEW s,
         s = <<a1, a2, a3, a4, a5, a6, a7, a8, a9>> \o <<b>> \o <<c, d>> \o <<f>>
  PROVE  /\ Len(s) = 13
         /\ s[1] = a1 /\ s[2] = a2 /\ s[3] = a3 /\ s[4] = a4 /\ s[5] = a5 /\ s[6] = a6
         /\ s[7] = a7 /\ s[8] = a8 /\ s[9] = a9 /\ s[10] = b /\ s[11] = c /\ s[12] = d
         /\ s[13] = f
  <1>u. PICK U : {a1, a2, a3, a4, a5, a6, a7, a8, a9} \cup {b, c, d, f} \subseteq U
    OBVIOUS
  <1>n. PICK n : n = <<a1, a2, a3, a4, a5, a6, a7, a8, a9>>
    OBVIOUS
  <1>1. /\ Len(n) = 9 /\ n[1] = a1 /\ n[2] = a2 /\ n[3] = a3 /\ n[4] = a4 /\ n[5] = a5
        /\ n[6] = a6 /\ n[7] = a7 /\ n[8] = a8 /\ n[9] = a9
    BY <1>n
  <1>2. n \in Seq(U)
    BY <1>n, <1>u
  <1>t. PICK t : t = <<c, d>>
    OBVIOUS
  <1>o. PICK o : o = <<b>>
    OBVIOUS
  <1>3. o \in Seq(U) /\ Len(o) = 1 /\ o[1] = b
    BY <1>o, <1>u
  <1>4. t \in Seq(U) /\ Len(t) = 2 /\ t[1] = c /\ t[2] = d
    BY <1>t, <1>u
  <1>p. PICK p : p = n \o o
    OBVIOUS
  <1>8. /\ p \in Seq(U) /\ Len(p) = 10 /\ p[10] = b
        /\ p[1] = a1 /\ p[2] = a2 /\ p[3] = a3 /\ p[4] = a4 /\ p[5] = a5
        /\ p[6] = a6 /\ p[7] = a7 /\ p[8] = a8 /\ p[9] = a9
    <2>0. n \in Seq(U) /\ o \in Seq(U)
      BY <1>2, <1>3
    <2>1. p \in Seq(U) /\ Len(p) = Len(n) + Len(o)
      BY <2>0, <1>p, Joined
    <2>2. \A i \in 1..Len(n) : p[i] = n[i]
      BY <2>0, <1>p, Joined
    <2>3. \A i \in 1..Len(o) : p[Len(n) + i] = o[i]
      BY <2>0, <1>p, Joined
    <2>4. p[10] = b
      BY <1>1, <1>3, <2>3
    <2> QED BY <1>1, <1>3, <2>1, <2>2, <2>4
  <1>q. PICK q : q = p \o t
    OBVIOUS
  <1>5. /\ q \in Seq(U) /\ Len(q) = 12 /\ q[10] = b /\ q[11] = c /\ q[12] = d
        /\ q[1] = a1 /\ q[2] = a2 /\ q[3] = a3 /\ q[4] = a4 /\ q[5] = a5
        /\ q[6] = a6 /\ q[7] = a7 /\ q[8] = a8 /\ q[9] = a9
    <2>0. p \in Seq(U) /\ t \in Seq(U)
      BY <1>4, <1>8
    <2>1. q \in Seq(U) /\ Len(q) = Len(p) + Len(t)
      BY <2>0, <1>q, Joined
    <2>2. \A i \in 1..Len(p) : q[i] = p[i]
      BY <2>0, <1>q, Joined
    <2>3. \A i \in 1..Len(t) : q[Len(p) + i] = t[i]
      BY <2>0, <1>q, Joined
    <2>4. q[11] = c /\ q[12] = d
      <3>1. q[Len(p) + 1] = c /\ q[Len(p) + 2] = d
        BY <1>4, <2>3
      <3> QED BY <1>8, <3>1
    <2> QED BY <1>4, <1>8, <2>1, <2>2, <2>4
  <1>6. s = q \o <<f>>
    BY <1>n, <1>o, <1>t, <1>p, <1>q
  <1>7. Len(s) = 13 /\ s[13] = f /\ \A i \in 1..12 : s[i] = q[i]
    BY <1>u, <1>5, <1>6
  <1> QED BY <1>5, <1>7

\* What a peer makes of an entity.
Received(e) == [e EXCEPT !.node = [e.node EXCEPT !.ns = normalize_namespace(e.node.ns)]]

\* What liveliness_key_expr puts into the chunks of a token, parse_liveliness takes
\* out of them, for every endpoint: kind, topic, type, QoS and ids come back, the
\* root namespace in the form of the graph's keys; and no chunk has a slash, at
\* which it would be split.
THEOREM TokenFieldsCarried ==
  \A e \in AnyEndpoint :
     /\ parse_chunks(EndpointChunks(e)) = Received(e)
     /\ \A i \in 1..Len(EndpointChunks(e)) : ~Mentions(EndpointChunks(e)[i], "/")
  <1> SUFFICES ASSUME NEW e \in AnyEndpoint
      PROVE /\ parse_chunks(EndpointChunks(e)) = Received(e)
            /\ \A i \in 1..Len(EndpointChunks(e)) : ~Mentions(EndpointChunks(e)[i], "/")
    OBVIOUS
  <1>n. PICK n : n = e.node
    OBVIOUS
  <1>1. /\ e.kind \in EntityKinds \ {"Node"} /\ e.topic \in Texts /\ ~Ends(e.topic, "/")
        /\ e.type \in AnyType /\ e.id # "/" /\ e.qos # "/"
        /\ e = [kind |-> e.kind, node |-> n, id |-> e.id, topic |-> e.topic,
                type |-> e.type, qos |-> e.qos]
        /\ n \in [domain : Words, zid : Words, id : Words, ns : Texts, name : Texts]
    BY <1>n DEF AnyEndpoint, Words
  <1>2. /\ n.ns \in Texts /\ n.name \in Texts /\ n.domain # "/" /\ n.zid # "/" /\ n.id # "/"
        /\ n = [domain |-> n.domain, zid |-> n.zid, id |-> n.id, ns |-> n.ns, name |-> n.name]
    BY <1>1 DEF Words
  <1>3. PICK a, b : TypeChunks(e) = <<a, b>> /\ parse_type(a, b) = e.type
                      /\ ~Mentions(a, "/") /\ ~Mentions(b, "/")
    BY <1>1, TypeUndone
  <1>t. PICK t : t = mangle_name(e.topic, "%")
    OBVIOUS
  <1>4. StripSuffix(e.topic) = e.topic
    BY <1>1 DEF StripSuffix
  <1>p. PICK p : p = OrPlaceholder(n.ns)
    OBVIOUS
  <1>m. PICK m : m = mangle_name(n.name, "%")
    OBVIOUS
  <1>k. PICK k : k = KindText[e.kind]
    OBVIOUS
  <1>c. PICK c : c = EndpointChunks(e)
    OBVIOUS
  <1>5. c = <<<<"@ros2_lv">>, <<n.domain>>, <<n.zid>>, <<n.id>>, <<e.id>>, <<k>>, <<"%">>, p, m>>
            \o <<t>> \o <<a, b>> \o <<<<e.qos>>>>
    BY <1>n, <1>3, <1>t, <1>4, <1>p, <1>m, <1>k, <1>c DEF EndpointChunks, NodeChunks
  <1>6. /\ Len(c) = 13 /\ c[1] = <<"@ros2_lv">> /\ c[2] = <<n.domain>> /\ c[3] = <<n.zid>>
        /\ c[4] = <<n.id>> /\ c[5] = <<e.id>> /\ c[6] = <<k>> /\ c[7] = <<"%">> /\ c[8] = p /\ c[9] = m
        /\ c[10] = t /\ c[11] = a /\ c[12] = b /\ c[13] = <<e.qos>>
    BY <1>5, Concatenated
  <1>7. /\ c[2][1] = n.domain /\ c[3][1] = n.zid /\ c[4][1] = n.id /\ c[5][1] = e.id
        /\ c[6][1] = k /\ c[13][1] = e.qos
    BY <1>6
  <1>8. from_str(k) = e.kind /\ e.kind # "Error" /\ e.kind # "Node"
    BY <1>1, <1>k, KindUndone
  <1>9. demangle_name(t, "%") = e.topic /\ demangle_name(m, "%") = n.name
    BY <1>1, <1>2, <1>t, <1>m, TextUndone
  <1>10. (IF p = <<"%">> THEN <<>> ELSE demangle_name(p, "%")) = normalize_namespace(n.ns)
    <2>1. n.ns \in Seq(Tokens) /\ ~Mentions(n.ns, "%")
      BY <1>2 DEF Texts
    <2> QED BY <1>p, <2>1, NamespaceUndone
  <1>x. PICK w : w = normalize_namespace(n.ns)
    OBVIOUS
  <1>11. parse_chunks(c) =
           [kind |-> e.kind,
            node |-> [domain |-> n.domain, zid |-> n.zid, id |-> n.id, ns |-> w, name |-> n.name],
            id |-> e.id, topic |-> e.topic, type |-> e.type, qos |-> e.qos]
    BY <1>3, <1>6, <1>7, <1>8, <1>9, <1>10, <1>x DEF parse_chunks
  <1>12. [n EXCEPT !.ns = normalize_namespace(n.ns)]
           = [domain |-> n.domain, zid |-> n.zid, id |-> n.id, ns |-> w, name |-> n.name]
    BY <1>2, <1>x
  <1>13. PICK y : y = [n EXCEPT !.ns = normalize_namespace(n.ns)]
    OBVIOUS
  <1>14. Received(e) =
           [kind |-> e.kind, node |-> y, id |-> e.id, topic |-> e.topic, type |-> e.type,
            qos |-> e.qos]
    <2>1. Received(e) = [e EXCEPT !.node = y]
      BY <1>n, <1>13 DEF Received
    <2> QED BY <1>1, <2>1
  <1>16. k # "/"
    BY <1>1, <1>k DEF EntityKinds, KindText
  <1>17. ~Mentions(p, "/")
    BY <1>2, <1>p, TextWhole, WordWhole DEF OrPlaceholder
  <1>18. ~Mentions(m, "/") /\ ~Mentions(t, "/")
    BY <1>1, <1>2, <1>m, <1>t, TextWhole
  <1>19. /\ ~Mentions(<<"@ros2_lv">>, "/") /\ ~Mentions(<<"%">>, "/")
         /\ ~Mentions(<<n.domain>>, "/") /\ ~Mentions(<<n.zid>>, "/") /\ ~Mentions(<<n.id>>, "/")
         /\ ~Mentions(<<e.id>>, "/") /\ ~Mentions(<<k>>, "/") /\ ~Mentions(<<e.qos>>, "/")
    BY <1>1, <1>2, <1>16, WordWhole
  <1>20. /\ ~Mentions(c[1], "/") /\ ~Mentions(c[2], "/") /\ ~Mentions(c[3], "/")
         /\ ~Mentions(c[4], "/") /\ ~Mentions(c[5], "/") /\ ~Mentions(c[6], "/")
         /\ ~Mentions(c[7], "/") /\ ~Mentions(c[8], "/") /\ ~Mentions(c[9], "/")
         /\ ~Mentions(c[10], "/") /\ ~Mentions(c[11], "/") /\ ~Mentions(c[12], "/")
         /\ ~Mentions(c[13], "/")
    BY <1>3, <1>6, <1>17, <1>18, <1>19
  <1>21. \A i \in 1..13 : i = 1 \/ i = 2 \/ i = 3 \/ i = 4 \/ i = 5 \/ i = 6 \/ i = 7 \/ i = 8
                          \/ i = 9 \/ i = 10 \/ i = 11 \/ i = 12 \/ i = 13
    OBVIOUS
  <1>22. \A i \in 1..13 : ~Mentions(c[i], "/")
    BY <1>20, <1>21
  <1> QED BY <1>c, <1>6, <1>11, <1>12, <1>13, <1>14, <1>22

=============================================================================
