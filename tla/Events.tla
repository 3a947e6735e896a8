------------------------------- MODULE Events -------------------------------
(***************************************************************************)
(* The event status of a publisher or subscription (EventsManager of       *)
(* event.rs) and what rmw makes of it (the event functions of rmw.rs).     *)
(* All operations run under the mutex of the manager, one after the other: *)
(* each is a function of the manager, and one step.                        *)
(*                                                                         *)
(* A manager holds the status of one event, says whether a callback is set *)
(* ("none", "user", or "null" for one that rmw was given no function for), *)
(* and adds up the counts the user's callback was called with (heard).     *)
(***************************************************************************)
EXTENDS Integers

CONSTANTS
    Policies,     \* the policies that conflicts are about
    Counts,       \* the numbers of conflicts the graph finds at a time
    MaxEvents,    \* bound on the events counted, which are an i32
    MaxEventOps   \* bound on the operations

\* Sizes of the build: C's size_t is cut to what TLC can count.
USIZE == 67108864
Bits15 == 32768
Bits16 == 65536
Usize(n) == n % USIZE

\* The policies are flags of rmw's enum, a change fits 16 bits (event.rs:217).
ASSUME PoliciesAssumption == Policies \subseteq 1..(Bits15 - 1)
ASSUME CountsAssumption == Counts \subseteq 1..(Bits16 - 1)
ASSUME MaxEventsAssumption == MaxEvents \in 0..(USIZE - 1)
ASSUME MaxEventOpsAssumption == MaxEventOps \in Nat

NoStatus == [total |-> 0, total_change |-> 0, current |-> 0, current_change |-> 0,
             changed |-> FALSE, policy |-> 0]
NewManager == [status |-> NoStatus, callback |-> "none", heard |-> 0]

\* rmw_event_set_callback wraps the function, with the count cast to size_t.
Called(m, n) == IF m.callback = "user" THEN [m EXCEPT !.heard = @ + Usize(n)] ELSE m

\* A mutant: what is unread is not announced.
set_callback_Silent(m, callback) == [m EXCEPT !.callback = callback, !.status.total_change = 0]

\* What is unread is announced to the new callback and counts as read.
set_callback(m, callback) ==
    LET new == [m EXCEPT !.callback = callback]
    IN  IF m.status.total_change # 0
        THEN [Called(new, m.status.total_change) EXCEPT !.status.total_change = 0] ELSE new

update_event_status_with_policy(m, change, policy) ==
    LET s == m.status
        more == IF change > 0 THEN change ELSE 0
    IN  Called([m EXCEPT !.status =
                  [total |-> s.total + more, total_change |-> s.total_change + more,
                   current |-> s.current + change, current_change |-> s.current_change + change,
                   changed |-> TRUE, policy |-> IF policy # 0 THEN policy ELSE s.policy]],
               change)
update_event_status(m, change) == update_event_status_with_policy(m, change, 0)

take_event_status(m) ==
    [m EXCEPT !.status = [total |-> @.total, total_change |-> 0, current |-> @.current,
                          current_change |-> 0, changed |-> FALSE, policy |-> @.policy]]

-----------------------------------------------------------------------------
(* A conflict of QoS passes the callback of the graph as one i32. *)

\* trigger_event_with_policy: the policy above 16 bits of the change.
Encoded(policy, change) == IF policy # 0 THEN policy * Bits16 + (change % Bits16) ELSE change

\* The callbacks of rmw: (e >> 16) & 0xFFFF and e & 0xFFFF.
Decoded(e) == [policy |-> (e \div Bits16) % Bits16, change |-> e % Bits16]

QosIncompatible(m, policy, change) ==
    LET d == Decoded(Encoded(policy, change))
    IN  update_event_status_with_policy(m, d.change, d.policy)

-----------------------------------------------------------------------------
(* rmw *)

EventTypes == [RequestedQosIncompatible |-> 3, MessageLost |-> 4, SubscriptionIncompatibleType |-> 5,
               SubscriptionMatched |-> 6, OfferedQosIncompatible |-> 9,
               PublisherIncompatibleType |-> 10, PublicationMatched |-> 11]
NoEvent == "no event"
rmw_event_type_to_zenoh_event(n) ==
    IF \E t \in DOMAIN EventTypes : EventTypes[t] = n
    THEN CHOOSE t \in DOMAIN EventTypes : EventTypes[t] = n ELSE NoEvent

PublisherEvents == {"OfferedQosIncompatible", "PublisherIncompatibleType", "PublicationMatched"}
SubscriptionEvents ==
    {"RequestedQosIncompatible", "MessageLost", "SubscriptionIncompatibleType", "SubscriptionMatched"}
InitFor(allowed, n) ==
    LET t == rmw_event_type_to_zenoh_event(n)
    IN  IF t = NoEvent THEN "UNSUPPORTED" ELSE IF t \in allowed THEN "OK" ELSE "INVALID_ARGUMENT"
rmw_publisher_event_init(n) == InitFor(PublisherEvents, n)
rmw_subscription_event_init(n) == InitFor(SubscriptionEvents, n)

\* The structure that is filled for an event; a matched event's counts are size_t.
rmw_take_event(m, type) ==
    LET s == m.status IN
    CASE type \in {"SubscriptionMatched", "PublicationMatched"} ->
            [total_count |-> Usize(s.total), total_count_change |-> Usize(s.total_change),
             current_count |-> Usize(s.current), current_count_change |-> s.current_change]
      [] type \in {"RequestedQosIncompatible", "OfferedQosIncompatible"} ->
            [total_count |-> s.total, total_count_change |-> s.total_change,
             last_policy_kind |-> s.policy]
      [] OTHER -> [total_count |-> s.total, total_count_change |-> s.total_change]

-----------------------------------------------------------------------------
(* The steps of one manager, with their history. *)

VARIABLES
    manager,
    appeared, gone,      \* the events that appeared, and those that went
    handed,              \* events announced to a callback as it was set
    also,                \* events a callback was called for as they appeared
    lost,                \* unread events when the callback was cleared
    reported, changes,   \* what takes reported as changes of the total and of the current count
    wrapped,             \* calls of a callback for an event that went
    sets, clears, takes, \* how often the callback was set and cleared, and the status taken
    ops                  \* all operations

eventVars == <<manager, appeared, gone, handed, also, lost, reported, changes, wrapped,
               sets, clears, takes, ops>>

EventInit ==
    /\ manager = NewManager
    /\ appeared = 0 /\ gone = 0 /\ handed = 0 /\ also = 0 /\ lost = 0 /\ reported = 0
    /\ changes = 0 /\ wrapped = 0 /\ sets = 0 /\ clears = 0 /\ takes = 0 /\ ops = 0

\* How many of n events a callback is called for as they come.
Heeded(n) == IF manager.callback = "user" THEN n ELSE 0

SetCallback ==
    /\ manager' = set_callback(manager, "user")
    /\ handed' = handed + manager.status.total_change
    /\ sets' = sets + 1
    /\ UNCHANGED <<appeared, gone, also, lost, reported, changes, wrapped, clears, takes>>

ClearCallback ==
    /\ manager' = set_callback(manager, "null")
    /\ lost' = lost + manager.status.total_change
    /\ clears' = clears + 1
    /\ UNCHANGED <<appeared, gone, handed, also, reported, changes, wrapped, sets, takes>>

Appear ==
    /\ appeared < MaxEvents
    /\ manager' = update_event_status(manager, 1)
    /\ appeared' = appeared + 1 /\ also' = also + Heeded(1)
    /\ UNCHANGED <<gone, handed, lost, reported, changes, wrapped, sets, clears, takes>>

Vanish ==
    /\ manager' = update_event_status(manager, -1)
    /\ gone' = gone + 1 /\ wrapped' = wrapped + Heeded(1)
    /\ UNCHANGED <<appeared, handed, also, lost, reported, changes, sets, clears, takes>>

Conflict(policy, n) ==
    /\ appeared + n <= MaxEvents
    /\ manager' = QosIncompatible(manager, policy, n)
    /\ appeared' = appeared + n /\ also' = also + Heeded(n)
    /\ UNCHANGED <<gone, handed, lost, reported, changes, wrapped, sets, clears, takes>>

TakeEvent ==
    LET taken == rmw_take_event(manager, "PublicationMatched") IN
    /\ manager' = take_event_status(manager)
    /\ reported' = reported + taken.total_count_change
    /\ changes' = changes + taken.current_count_change
    /\ takes' = takes + 1
    /\ UNCHANGED <<appeared, gone, handed, also, lost, wrapped, sets, clears>>

EventNext ==
    /\ ops < MaxEventOps /\ ops' = ops + 1
    /\ \/ SetCallback \/ ClearCallback \/ Appear \/ Vanish \/ TakeEvent
       \/ \E policy \in Policies, n \in Counts : Conflict(policy, n)

EventSpec == EventInit /\ [][EventNext]_eventVars

-----------------------------------------------------------------------------

\* What the callback was told of events that appeared: each one that went was a
\* call with the largest size_t.
Heard == manager.heard - (USIZE - 1) * wrapped

\* What the takes report as changes adds up, with what a take would report now:
\* of the current count to the count itself, and of the total to all that
\* appeared, except what a callback that was set meanwhile was told instead, or
\* was lost because it was cleared.  Every event that can be initialised reports
\* the same total.
ChangesAddUp ==
    LET now == rmw_take_event(manager, "PublicationMatched")
        total == reported + now.total_count_change
    IN  /\ changes + now.current_count_change = appeared - gone
        /\ now.current_count = Usize(appeared - gone)
        /\ \A n \in 0..12 : "OK" \in {rmw_publisher_event_init(n), rmw_subscription_event_init(n)} =>
              rmw_take_event(manager, rmw_event_type_to_zenoh_event(n)).total_count = appeared
        /\ total <= appeared
        /\ sets = 0 => total + lost = appeared
        /\ clears = 0 => lost = 0

\* Every event is announced to a callback or reported by a take or still unread
\* or was lost to a cleared callback; only those that a callback was called for
\* as they came count twice.  If the callback is never replaced nor anything
\* taken, it was told each event exactly once, whenever the callback was set.
EventsAnnounced ==
    /\ Heard + reported + manager.status.total_change + lost =
          appeared + also
    /\ (clears = 0 /\ takes = 0 /\ sets = 1) => Heard = appeared

\* An incompatibility is recorded with the policy the graph found and counted
\* as the number of conflicts, whatever was recorded before.
PolicyArrives ==
    \A policy \in Policies : \A n \in Counts :
       rmw_take_event(QosIncompatible(manager, policy, n), "OfferedQosIncompatible") =
          [total_count |-> manager.status.total + n,
           total_count_change |-> manager.status.total_change + n,
           last_policy_kind |-> policy]

\* No graph change is lost between the event manager, its callback and a take.
EventsSound == ChangesAddUp /\ EventsAnnounced /\ PolicyArrives
=============================================================================
