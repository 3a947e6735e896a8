------------------------------- MODULE PubSub -------------------------------
(***************************************************************************)
(* Publishing and receiving: ZPub and ZSub of pubsub.rs, the data handlers *)
(* of common.rs, and the publishers and subscriptions of rmw-zenoh-rs on   *)
(* top of them.                                                            *)
(*                                                                         *)
(* Threads share publishers.  A publication is three steps that other      *)
(* threads run between: the message is serialized (into shared memory or   *)
(* not), stamped with the publisher's next sequence number, and put.  The  *)
(* transport is zenoh's: ordered from a publisher to a subscription, and   *)
(* lossless unless the publisher is best effort, when congestion drops.    *)
(* A subscription keeps the samples in a queue of its depth, and is read   *)
(* by rmw ("rmw") or through ZSub ("native"), or hands every sample to a   *)
(* callback.                                                               *)
(*                                                                         *)
(* A body is "good", "bad" (does not deserialize: publish_serialized takes *)
(* any bytes) or "empty" (what rmw publishes if serialization fails).      *)
(***************************************************************************)
EXTENDS Integers, Sequences, FiniteSets

CONSTANTS Threads, Pubs, Subs,
          PubOf,       \* the publisher a thread uses
          Reliable,    \* the reliable publishers
          RmwPubs,     \* the publishers of rmw
          Shm,         \* the publishers with shared memory
          Attached,    \* the publishers that attach sequence numbers (with_attachment)
          Depth,       \* its depth (KeepAll: larger than all that is sent)
          MaxMsgs      \* publications of a thread

ASSUME PubSubAssumption ==
    /\ PubOf \in [Threads -> Pubs] /\ Reliable \subseteq Pubs /\ RmwPubs \subseteq Pubs
    /\ Shm \subseteq Pubs /\ RmwPubs \subseteq Attached /\ Attached \subseteq Pubs
    /\ Depth \in [Subs -> Nat \ {0}] /\ MaxMsgs \in [Threads -> Nat]

VARIABLES
    sn,        \* the next sequence number of a publisher
    step,      \* what a thread is doing, and with which message
    count,     \* publications a thread has begun
    live,      \* the subscriptions that are declared
    kind,      \* how a subscription is read
    net,       \* samples on their way from a publisher to a subscription
    queue,     \* the queue of a subscription
    arrived,   \* what its handler has queued, ever
    taken,     \* what was handed to the user, with the verdict
    left       \* messages a rmw_take_sequence still wants

vars == <<sn, step, count, live, kind, net, queue, arrived, taken, left>>

Kinds == {"rmw", "native", "dynamic", "callback"}
Message == [pub : Pubs, thread : Threads, n : Nat, sn : Int, body : {"good", "bad", "empty"}]
Unstamped == -1
Idle == [at |-> "idle"]
At(where, m) == [at |-> where, msg |-> m]

TypeOK ==
    /\ sn \in [Pubs -> Nat] /\ count \in [Threads -> Nat] /\ live \subseteq Subs
    /\ kind \in [Subs -> Kinds]
    /\ \A t \in Threads : \/ step[t] \in {Idle, [at |-> "panicked"]}
                          \/ step[t].at \in {"serialized", "stamped"} /\ step[t].msg \in Message
    /\ \A s \in Subs : /\ Len(queue[s]) <= Depth[s] /\ left[s] \in Nat
                       /\ kind[s] = "callback" => queue[s] = <<>>
                       /\ \A i \in DOMAIN queue[s] : queue[s][i] \in Message

Init ==
    /\ sn = [p \in Pubs |-> 0]
    /\ step = [t \in Threads |-> Idle]
    /\ count = [t \in Threads |-> 0]
    /\ live = {}
    /\ kind = [s \in Subs |-> "rmw"]
    /\ net = [p \in Pubs |-> [s \in Subs |-> <<>>]]
    /\ queue = [s \in Subs |-> <<>>]
    /\ arrived = [s \in Subs |-> <<>>]
    /\ taken = [s \in Subs |-> <<>>]
    /\ left = [s \in Subs |-> 0]

-----------------------------------------------------------------------------
(* Publishing *)

New(t, body) == [pub |-> PubOf[t], thread |-> t, n |-> count[t] + 1, sn |-> Unstamped, body |-> body]

serialize_message == {"good", "empty"}

\* Shared memory: too small an estimate fails an assertion while the message is
\* written (not for rmw, which copies what it serialized); an allocation that
\* fails falls back to the heap.  rmw publishes nothing at all, successfully, if
\* the type support cannot serialize.
Serialized(t) ==
    {At("serialized", New(t, body)) : body \in IF PubOf[t] \in RmwPubs THEN serialize_message ELSE {"good"}}
    \cup (IF PubOf[t] \in Shm \ RmwPubs THEN {[at |-> "panicked"]} ELSE {})

publish(t) ==
    /\ step[t] = Idle /\ count[t] < MaxMsgs[t]
    /\ count' = [count EXCEPT ![t] = @ + 1]
    /\ \E s \in Serialized(t) : step' = [step EXCEPT ![t] = s]
    /\ UNCHANGED <<sn, live, kind, net, queue, arrived, taken, left>>

publish_serialized(t) ==
    /\ step[t] = Idle /\ count[t] < MaxMsgs[t]
    /\ count' = [count EXCEPT ![t] = @ + 1]
    /\ \E body \in {"good", "bad"} : step' = [step EXCEPT ![t] = At("serialized", New(t, body))]
    /\ UNCHANGED <<sn, live, kind, net, queue, arrived, taken, left>>

\* A mutant: the number is read and written in two places.
new_attachment_Stale(t) ==
    /\ step[t].at = "serialized"
    /\ step' = [step EXCEPT ![t] = At("stamped", [step[t].msg EXCEPT !.sn = count[t]])]
    /\ sn' = [sn EXCEPT ![PubOf[t]] = count[t] + 1]
    /\ UNCHANGED <<count, live, kind, net, queue, arrived, taken, left>>

new_attachment(t) ==
    /\ step[t].at = "serialized"
    /\ IF PubOf[t] \in Attached
       THEN /\ step' = [step EXCEPT ![t] = At("stamped", [step[t].msg EXCEPT !.sn = sn[PubOf[t]]])]
            /\ sn' = [sn EXCEPT ![PubOf[t]] = @ + 1]
       ELSE step' = [step EXCEPT ![t].at = "stamped"] /\ UNCHANGED sn
    /\ UNCHANGED <<count, live, kind, net, queue, arrived, taken, left>>

\* CongestionControl::Block for reliable publishers, Drop for the others.
Receivers(p) == IF p \in Reliable THEN {live} ELSE SUBSET live

\* The put fails, or every subscription that gets the sample has it on its way.
put(t) ==
    /\ step[t].at = "stamped"
    /\ step' = [step EXCEPT ![t] = Idle]
    /\ LET p == PubOf[t] IN
       \E to \in Receivers(p) \cup {{}} :
          net' = [net EXCEPT ![p] = [s \in Subs |-> IF s \in to THEN Append(net[p][s], step[t].msg)
                                                    ELSE net[p][s]]]
    /\ UNCHANGED <<sn, count, live, kind, queue, arrived, taken, left>>

-----------------------------------------------------------------------------
(* Subscriptions *)

\* build_internal: from now on samples arrive.  Dropping the subscription drops
\* its queue and what is on its way.
declare(s) ==
    /\ s \notin live
    /\ \E k \in Kinds : kind' = [kind EXCEPT ![s] = k]
    /\ live' = live \cup {s}
    /\ UNCHANGED <<sn, step, count, net, queue, arrived, taken, left>>

undeclare(s) ==
    /\ s \in live /\ left[s] = 0
    /\ live' = live \ {s}
    /\ kind' = [kind EXCEPT ![s] = "rmw"]
    /\ net' = [p \in Pubs |-> [net[p] EXCEPT ![s] = <<>>]]
    /\ queue' = [queue EXCEPT ![s] = <<>>]
    /\ arrived' = [arrived EXCEPT ![s] = <<>>]
    /\ taken' = [taken EXCEPT ![s] = <<>>]
    /\ UNCHANGED <<sn, step, count, left>>

Verdict(m, ok) == [msg |-> m, ok |-> ok]

\* A mutant: a full queue refuses the new sample.
Pushed_Newest(q, m, depth) == IF Len(q) >= depth THEN q ELSE Append(q, m)

\* BoundedQueue::push: a full queue loses its oldest sample.
Pushed(q, m, depth) == IF Len(q) >= depth THEN Append(Tail(q), m) ELSE Append(q, m)

\* build_with_callback: only what deserializes.
Called(m) == IF m.body = "good" THEN {Verdict(m, TRUE)} ELSE {}

\* DataHandler::handle, on zenoh's thread.
handle(p, s) ==
    /\ net[p][s] # <<>>
    /\ LET m == Head(net[p][s]) IN
       IF kind[s] = "callback"
       THEN /\ taken' = [taken EXCEPT ![s] = IF Called(m) = {} THEN @
                                             ELSE Append(@, CHOOSE v \in Called(m) : TRUE)]
            /\ UNCHANGED <<queue, arrived>>
       ELSE /\ queue' = [queue EXCEPT ![s] = Pushed(@, m, Depth[s])]
            /\ arrived' = [arrived EXCEPT ![s] = Append(@, m)]
            /\ UNCHANGED taken
    /\ net' = [net EXCEPT ![p][s] = Tail(@)]
    /\ UNCHANGED <<sn, step, count, live, kind, left>>

TakeOne(s, ok) ==
    /\ s \in live /\ queue[s] # <<>>
    /\ queue' = [queue EXCEPT ![s] = Tail(@)]
    /\ taken' = [taken EXCEPT ![s] = Append(@, Verdict(Head(queue[s]), ok))]
    /\ UNCHANGED <<sn, step, count, live, kind, net, arrived>>

\* rmw: the result of the deserialization is not looked at.
take(s) == kind[s] = "rmw" /\ TakeOne(s, TRUE) /\ UNCHANGED left

rmw_take_sequence(s, k) ==
    /\ s \in live /\ kind[s] = "rmw" /\ left[s] = 0
    /\ left' = [left EXCEPT ![s] = k]
    /\ UNCHANGED <<sn, step, count, live, kind, net, queue, arrived, taken>>

\* A mutant: the loop pops a sample before it looks whether one more is wanted.
TakeNext_Overreads(s) ==
    /\ left[s] > 0
    /\ IF queue[s] = <<>>
       THEN left' = [left EXCEPT ![s] = 0] /\ UNCHANGED <<queue, taken>>
       ELSE /\ left' = [left EXCEPT ![s] = @ - 1]
            /\ queue' = [queue EXCEPT ![s] = IF left[s] = 1 THEN SubSeq(@, 3, Len(@)) ELSE Tail(@)]
            /\ taken' = [taken EXCEPT ![s] = Append(@, Verdict(Head(queue[s]), TRUE))]
    /\ UNCHANGED <<sn, step, count, live, kind, net, arrived>>

\* One round of its loop: samples that arrive meanwhile are taken as well.
TakeNext(s) ==
    /\ left[s] > 0
    /\ IF queue[s] = <<>>
       THEN left' = [left EXCEPT ![s] = 0] /\ UNCHANGED <<sn, step, count, live, kind, net, queue, arrived, taken>>
       ELSE left' = [left EXCEPT ![s] = @ - 1] /\ TakeOne(s, TRUE)

\* recv, recv_timeout and async_recv: a sample that does not deserialize is an
\* error, and is gone.
Deserializes(m) == m.body = "good"
recv(s) ==
    /\ kind[s] = "native" /\ queue[s] # <<>>
    /\ TakeOne(s, Deserializes(Head(queue[s])))
    /\ UNCHANGED left

\* The same for DynamicMessage; without a schema nothing is received at all.
recv_dynamic(s) ==
    /\ kind[s] = "dynamic" /\ queue[s] # <<>>
    /\ TakeOne(s, Deserializes(Head(queue[s])))
    /\ UNCHANGED left

Next ==
    \/ \E t \in Threads : publish(t) \/ publish_serialized(t) \/ new_attachment(t) \/ put(t)
    \/ \E s \in Subs : \/ declare(s) \/ undeclare(s) \/ take(s) \/ TakeNext(s) \/ recv(s) \/ recv_dynamic(s)
                       \/ \E k \in 1..2 : rmw_take_sequence(s, k)
                       \/ \E p \in Pubs : handle(p, s)

\* zenoh delivers; whoever has a queue reads it.
Fairness ==
    \A s \in Subs : /\ \A p \in Pubs : WF_vars(handle(p, s))
                    /\ WF_vars(take(s)) /\ WF_vars(TakeNext(s)) /\ WF_vars(recv(s) \/ recv_dynamic(s))

Spec == Init /\ [][Next]_vars /\ Fairness

-----------------------------------------------------------------------------
(* Properties *)

\* The samples of a subscription, in the order they come.
Msgs(q) == {q[i] : i \in DOMAIN q}
OnTheWay(s) == UNION {Msgs(net[p][s]) : p \in Pubs}
Given(s) == {taken[s][i].msg : i \in DOMAIN taken[s]}
All == (UNION {OnTheWay(s) \cup Msgs(queue[s]) \cup Given(s) : s \in Subs})
       \cup {step[t].msg : t \in {u \in Threads : step[u].at = "stamped"}}

\* Threads that share a publisher never stamp two samples alike, and a thread's
\* later sample has the larger number, whatever else happens in between.
StampsUnique ==
    \A m, l \in All : m.pub = l.pub /\ m.pub \in Attached =>
       /\ m.sn = l.sn => m = l
       /\ m.thread = l.thread /\ m.n < l.n => m.sn < l.sn

\* A subscription gets no sample twice, and what one thread published in the
\* order it was published.
OnceInOrder ==
    \A s \in Subs : \A i, j \in DOMAIN taken[s] :
       i < j /\ taken[s][i].msg.thread = taken[s][j].msg.thread =>
          taken[s][i].msg.n < taken[s][j].msg.n

\* The queue holds the newest samples there were: whatever was lost by a slow
\* reader is older than everything still to be read.
KeepsNewest ==
    \A s \in Subs : \E k \in 0..Len(arrived[s]) : queue[s] = SubSeq(arrived[s], k + 1, Len(arrived[s]))

\* ZSub and its callbacks never present as a message what was not one.
OnlyMessages ==
    \A s \in Subs : kind[s] # "rmw" =>
       \A i \in DOMAIN taken[s] : taken[s][i].ok => taken[s][i].msg.body = "good"

\* What is on its way is handed to the user, or pushed out of the queue by as
\* many newer samples as it holds, unless the subscription goes away.  A callback
\* is not called for what does not deserialize.
SamplesReachUser ==
    \A s \in Subs : \A t \in Threads : \A n \in 1..MaxMsgs[t] :
       LET Is(m) == m.thread = t /\ m.n = n
       IN  (\E m \in OnTheWay(s) : Is(m) /\ (kind[s] = "callback" => Deserializes(m))) ~>
              \/ s \notin live
              \/ \E m \in Given(s) : Is(m)
              \/ \E i \in 1..(Len(arrived[s]) - Depth[s]) : Is(arrived[s][i])

\* What a subscription reads is what was published: messages only, once, in
\* order, and the newest if there were too many.
ReadsFaithful == TypeOK /\ OnceInOrder /\ KeepsNewest /\ OnlyMessages
=============================================================================
