--------------------------- MODULE NewDataCallback ---------------------------
(***************************************************************************)
(* The "on new data" callback of one rmw subscription, service or client   *)
(* (rmw-zenoh-rs, rmw.rs and service.rs).  The transport thread queues an  *)
(* item and then runs notify_callback, which calls the registered callback *)
(* or counts the item as unread.  The executor registers, replaces and     *)
(* clears the callback with rmw_*_set_on_new_*_callback.                   *)
(*                                                                         *)
(* callback, callback_user_data and unread_count are three mutexes.        *)
(* notify_callback holds the callback mutex throughout, and so does the    *)
(* main part of the subscription's setter; the setter of a service or a    *)
(* client takes the three mutexes one after the other.                     *)
(***************************************************************************)
EXTENDS Naturals

CONSTANTS
    Callbacks,   \* callbacks the executor may register, each with its own data
    Kinds,       \* the kinds of entity: "subscription", and "service" for both
                 \* services and clients
    MayClear,    \* may the executor clear the callback
    MaxItems,    \* bound on the items that arrive
    NONE

ASSUME KindsAssumption == Kinds \subseteq {"subscription", "service"}
ASSUME MayClearAssumption == MayClear \in BOOLEAN
ASSUME MaxItemsAssumption == MaxItems \in Nat
ASSUME NoneAssumption == NONE \notin Callbacks

VARIABLES
    kind,       \* what the entity is
    callback,   \* the registered callback or NONE
    user_data,  \* whose user data is stored; NONE is the null pointer
    unread,     \* unread_count
    queued,     \* items queued whose notify_callback has not run
    setter,     \* where the executor's setter is
    setting,    \* the callback it sets; NONE clears
    items,      \* items that arrived (history, and the bound)
    announced,  \* items announced to a callback (history)
    calls,      \* callbacks called, each with the user data it got (history)
    successive  \* settings that followed one another (history)

callbackVars == <<kind, callback, user_data, unread, queued, setter, setting, items,
                  announced, calls, successive>>

Owners == Callbacks \cup {NONE}

CallbackInit ==
    /\ kind \in Kinds
    /\ callback = NONE /\ user_data = NONE /\ setting = NONE
    /\ unread = 0 /\ queued = 0 /\ items = 0 /\ announced = 0
    /\ setter = "idle"
    /\ calls = {} /\ successive = {}

-----------------------------------------------------------------------------
(* The transport thread                                                    *)

Arrive ==
    /\ items < MaxItems
    /\ items' = items + 1
    /\ queued' = queued + 1
    /\ UNCHANGED <<callback, user_data, unread, setter, setting, announced, calls, successive>>

\* A mutant: the item is counted whether or not a callback is called.
notify_callback_Counts ==
    /\ queued > 0 /\ queued' = queued - 1
    /\ unread' = unread + 1
    /\ IF callback # NONE
       THEN /\ calls' = calls \cup {<<callback, user_data>>}
            /\ announced' = announced + 1
       ELSE UNCHANGED <<calls, announced>>
    /\ UNCHANGED <<callback, user_data, setter, setting, items, successive>>

notify_callback ==
    /\ queued > 0 /\ queued' = queued - 1
    /\ IF callback # NONE
       THEN /\ calls' = calls \cup {<<callback, user_data>>}
            /\ announced' = announced + 1
            /\ UNCHANGED unread
       ELSE /\ unread' = unread + 1
            /\ UNCHANGED <<calls, announced>>
    /\ UNCHANGED <<callback, user_data, setter, setting, items, successive>>

-----------------------------------------------------------------------------
(* The executor's setter                                                   *)

Begin(c) ==
    /\ setter = "idle"
    /\ c = NONE => MayClear
    /\ setting' = c
    /\ successive' = successive \cup {<<setting, c>>}
    /\ setter' = IF kind = "subscription" THEN "data_first"
                 ELSE IF c # NONE THEN "unread" ELSE "callback"
    /\ UNCHANGED <<callback, user_data, unread, queued, items, announced, calls>>

\* The unread items are announced to the callback being set.
AnnounceUnread ==
    IF setting # NONE /\ unread > 0
    THEN /\ calls' = calls \cup {<<setting, setting>>}
         /\ announced' = announced + unread
         /\ unread' = 0
    ELSE UNCHANGED <<calls, announced, unread>>

Subscription_UserData ==
    /\ setter = "data_first"
    /\ setter' = "locked"
    /\ user_data' = setting
    /\ UNCHANGED <<callback, unread, queued, setting, items, announced, calls, successive>>

\* One critical section: announce what is unread and store the callback.
Subscription_Callback ==
    /\ setter = "locked"
    /\ setter' = "idle"
    /\ AnnounceUnread
    /\ callback' = setting
    /\ UNCHANGED <<user_data, queued, setting, items, successive>>

Service_Unread ==
    /\ setter = "unread"
    /\ setter' = "callback"
    /\ AnnounceUnread
    /\ UNCHANGED <<callback, user_data, queued, setting, items, successive>>

Service_Callback ==
    /\ setter = "callback"
    /\ setter' = "data"
    /\ callback' = setting
    /\ UNCHANGED <<user_data, unread, queued, setting, items, announced, calls, successive>>

\* A mutant: clearing leaves the user data of the callback that was cleared.
Service_UserData_KeepsOld ==
    /\ setter = "data"
    /\ setter' = "idle"
    /\ user_data' = IF setting = NONE THEN user_data ELSE setting
    /\ UNCHANGED <<callback, unread, queued, setting, items, announced, calls, successive>>

Service_UserData ==
    /\ setter = "data"
    /\ setter' = "idle"
    /\ user_data' = setting
    /\ UNCHANGED <<callback, unread, queued, setting, items, announced, calls, successive>>

Set ==
    \/ \E c \in Owners : Begin(c)
    \/ Subscription_UserData \/ Subscription_Callback
    \/ Service_Unread \/ Service_Callback \/ Service_UserData

CallbackNext ==
    /\ Arrive \/ notify_callback \/ Set
    /\ UNCHANGED kind

CallbackSpec == CallbackInit /\ [][CallbackNext]_callbackVars

-----------------------------------------------------------------------------
(* Properties                                                              *)

\* Every variable has its type; in particular a null callback is never called.
CallbackTypeOK ==
    /\ kind \in Kinds
    /\ callback \in Owners /\ user_data \in Owners /\ setting \in Owners
    /\ unread \in Nat /\ queued \in Nat /\ items \in 0..MaxItems /\ announced \in Nat
    /\ setter \in {"idle", "data_first", "locked", "unread", "callback", "data"}
    /\ calls \subseteq Callbacks \X Owners /\ successive \subseteq Owners \X Owners

\* Every item that was notified has been announced to a callback exactly once
\* or is still counted as unread.
AnnouncedOnce == items = queued + announced + unread

\* The comment on the retroactive notification: once a callback is stored,
\* nothing that arrived before it is left uncounted for it.  An executor that
\* only acts on announcements would never read such an item.
NothingUnread == callback # NONE => unread = 0

\* A subscription keeps it, since its setter announces what is unread and
\* stores the callback under one lock.
SubscriptionNothingUnread == kind = "subscription" => NothingUnread

\* A callback is called with its own user data or, if the call falls between the
\* two stores of a setter, with that of the neighbouring setting: a subscription's
\* old callback with the new data, a service's new callback with the old data
\* (the null pointer if there was none).  Data of a setting before that, which
\* the caller may have freed, is never passed.
DataCurrent ==
    \A c, d \in Owners :
       <<c, d>> \in calls =>
          \/ c = d
          \/ kind = "subscription" /\ <<c, d>> \in successive
          \/ kind = "service" /\ <<d, c>> \in successive

\* No item is forgotten: each is announced or counted once, and a subscription
\* leaves none counted while it has a callback.
NothingForgotten == AnnouncedOnce /\ SubscriptionNothingUnread
=============================================================================
