------------------------------ MODULE RmwGraph ------------------------------
(***************************************************************************)
(* The graph of one rmw session at work.  The session's own nodes and      *)
(* endpoints are created and destroyed by rmw_create_* and rmw_destroy_*   *)
(* (rmw-zenoh-rs, rmw.rs and node.rs), each of which declares or drops a   *)
(* liveliness token, changes the graph cache and reports the change to the *)
(* GraphEventManager.  The tokens of all sessions, the own one included,   *)
(* come back through the liveliness subscriber; while Graph::new runs they *)
(* also come as replies to its initial query, from another thread.         *)
(*                                                                         *)
(* An operation of the program is a sequence of steps, one for each time   *)
(* it takes a lock or talks to zenoh; steps of different operations        *)
(* interleave.                                                             *)
(***************************************************************************)
EXTENDS GraphCache, Integers, Sequences

CONSTANTS
    Serialised,  \* does one thread make all create and destroy calls
    MaxDeclared, \* bound: how often another session declares a token
    MaxLocal     \* bound: how many of the local entities are ever created

ASSUME SerialisedAssumption == Serialised \in BOOLEAN
ASSUME MaxDeclaredAssumption == MaxDeclared \in Nat
ASSUME MaxLocalAssumption == MaxLocal \in Nat

VARIABLES
    declared,   \* liveliness tokens that are declared
    wire,       \* per token, the samples on their way to the subscriber
    times,      \* per token, how often it was declared
    replies,    \* replies to the initial query still to come
    phase,      \* of Graph::new: "subscribed", "querying", "ready"
    pc,         \* per local entity, the next step of its life
    existed,    \* already_exists of add_local_entity, until its call ends
    registered, \* endpoints with callbacks in the GraphEventManager
    matched,    \* per endpoint, current_count of its matched event
    incompatible, \* per endpoint, total_count of its QoS incompatible event
    guards,     \* guard conditions registered with the GraphEventManager
    freed,      \* guard conditions destroyed
    dangling,   \* was a destroyed guard condition triggered (history)
    late        \* tokens a reply inserted after their deletion (history)

env == <<declared, wire, times, replies, phase>>
events == <<registered, matched, incompatible, guards, freed, dangling>>
vars == <<graph, env, pc, existed, events, late>>

Local == {e \in Entities : e.local}
Remote == Tokens \ Local
Endpoints == {e \in Local : e.kind \in Matchable}
LocalNodes == {e \in Local : e.kind = "Node"}

\* The steps of the entry points, in their order.  A creation ends with
\* "announce"; nodes and endpoints of topics leave the graph before their token
\* is dropped, services and clients after it.
rmw_create_node == <<"build", "guard", "add", "announce">>
rmw_destroy_node == <<"remove", "renounce", "unguard", "free", "drop">>
rmw_create_publisher == <<"build", "register", "count", "check", "add", "announce">>
rmw_destroy_publisher == <<"remove", "renounce", "drop">>
rmw_create_subscription == <<"build", "register", "count", "check", "add", "announce">>
rmw_destroy_subscription == <<"remove", "renounce", "drop">>
rmw_create_client == <<"build", "add", "announce">>
rmw_destroy_client == <<"drop", "remove", "renounce">>
rmw_create_service == <<"build", "add", "announce">>
rmw_destroy_service == <<"drop", "remove", "renounce">>

Life(e) ==
    CASE e.kind = "Node" -> rmw_create_node \o rmw_destroy_node
      [] e.kind = "Publisher" -> rmw_create_publisher \o rmw_destroy_publisher
      [] e.kind = "Subscription" -> rmw_create_subscription \o rmw_destroy_subscription
      [] e.kind = "Client" -> rmw_create_client \o rmw_destroy_client
      [] e.kind = "Service" -> rmw_create_service \o rmw_destroy_service

At(e, step) == pc[e] <= Len(Life(e)) /\ Life(e)[pc[e]] = step

\* Between two calls an entity waits to be created, or to be destroyed.
Between(e) ==
    \/ pc[e] \in {1, Len(Life(e)) + 1}
    \/ pc[e] > 1 /\ Life(e)[pc[e] - 1] = "announce"

Step(e, step) ==
    /\ phase = "ready"
    /\ At(e, step)
    /\ pc' = [pc EXCEPT ![e] = @ + 1]
    /\ Serialised => \A f \in Local \ {e} : Between(f)

\* Graph::new has declared its subscriber, which reports what is declared.
Init ==
    /\ GraphInit
    /\ declared \in SUBSET Remote
    /\ wire = [t \in Tokens |-> IF t \in declared THEN <<"put">> ELSE <<>>]
    /\ times = [t \in Tokens |-> IF t \in declared THEN 1 ELSE 0]
    /\ replies = {} /\ phase = "subscribed" /\ late = {}
    /\ pc = [e \in Local |-> 1]
    /\ existed = [e \in Local |-> FALSE]
    /\ registered = {} /\ guards = {} /\ freed = {} /\ dangling = FALSE
    /\ matched = [e \in Endpoints |-> 0]
    /\ incompatible = [e \in Endpoints |-> 0]

-----------------------------------------------------------------------------
(* Zenoh: tokens of other sessions, and the samples about them             *)

Declare(t) ==
    /\ declared' = declared \cup {t}
    /\ wire' = [wire EXCEPT ![t] = Append(@, "put")]
    /\ times' = [times EXCEPT ![t] = @ + 1]
    /\ UNCHANGED <<replies, phase>>

Undeclare(t) ==
    /\ declared' = declared \ {t}
    /\ wire' = [wire EXCEPT ![t] = Append(@, "delete")]
    /\ UNCHANGED <<times, replies, phase>>

\* Another session declares or drops a token, or its connection comes and goes.
RemoteChange ==
    /\ \E t \in Remote :
          \/ t \notin declared /\ times[t] < MaxDeclared /\ Declare(t)
          \/ t \in declared /\ Undeclare(t)
    /\ UNCHANGED <<graph, pc, existed, events, late>>

-----------------------------------------------------------------------------
(* GraphEventManager                                                       *)

\* Whose matched event a change of an entity of the given kind concerns.
Notified(kind) ==
    {f \in registered : {f.kind, kind} = Matchable}

trigger_graph_change(e, change) ==
    /\ dangling' = (dangling \/ guards \cap freed # {})
    /\ matched' = [f \in Endpoints |->
                      matched[f] + IF f \in Notified(e.kind) THEN change ELSE 0]
    /\ UNCHANGED <<registered, incompatible, guards, freed>>

-----------------------------------------------------------------------------
(* Graph::new: its subscriber's callback and its initial query             *)

OnPut(t) ==
    /\ insert(t)
    /\ UNCHANGED <<parsed, index, lent>>
    /\ IF t \in Entities THEN trigger_graph_change(t, 1) ELSE UNCHANGED events

OnDelete(t) ==
    /\ remove(t)
    /\ IF t \in Entities THEN trigger_graph_change(t, -1) ELSE UNCHANGED events

OnSample ==
    \E t \in Tokens :
        /\ wire[t] # <<>>
        /\ wire' = [wire EXCEPT ![t] = Tail(@)]
        /\ IF Head(wire[t]) = "put" THEN OnPut(t) ELSE OnDelete(t)
        /\ UNCHANGED <<declared, times, replies, phase, pc, existed, late>>

StartQuery ==
    /\ phase = "subscribed"
    /\ phase' = "querying"
    /\ replies' = declared
    /\ UNCHANGED <<graph, declared, wire, times, pc, existed, events, late>>

\* Replies that parse and are not local are inserted; nothing is reported.
OnReply ==
    \E t \in replies :
        /\ replies' = replies \ {t}
        /\ IF t \in Entities \ Local
           THEN /\ insert(t)
                /\ late' = IF t \notin declared /\ wire[t] = <<>>
                           THEN late \cup {t} ELSE late
           ELSE UNCHANGED <<cached, late>>
        /\ UNCHANGED <<parsed, index, lent, declared, wire, times, phase, pc, existed,
                       events>>

\* The replies end, or the timeout of three seconds cuts them off.
QueryEnds ==
    /\ phase = "querying"
    /\ phase' = "ready"
    /\ replies' = {}
    /\ UNCHANGED <<graph, declared, wire, times, pc, existed, events, late>>

-----------------------------------------------------------------------------
(* Creating and destroying the session's own entities                      *)

\* The builder declares the token.
Build(e) ==
    /\ Step(e, "build")
    /\ Cardinality({f \in Local : pc[f] > 1}) < MaxLocal
    /\ Declare(e)
    /\ UNCHANGED <<graph, existed, events, late>>

\* rmw_create_node creates a guard condition and registers it.
Guard(e) ==
    /\ Step(e, "guard")
    /\ guards' = guards \cup {e}
    /\ UNCHANGED <<graph, env, existed, registered, matched, incompatible, freed,
                   dangling, late>>

\* rmw_create_publisher and rmw_create_subscription register their callbacks,
Register(e) ==
    /\ Step(e, "register")
    /\ registered' = registered \cup {e}
    /\ UNCHANGED <<graph, env, existed, matched, incompatible, guards, freed,
                   dangling, late>>

Opposite(e) == IF e.kind = "Publisher" THEN "Subscription" ELSE "Publisher"
Topic(e) == <<"topic", e.topic>>

\* count the endpoints that are already there,
Count(e) ==
    /\ Step(e, "count")
    /\ visit({Topic(e)})
    /\ matched' = [matched EXCEPT ![e] = @ + CountOf(Opposite(e), Topic(e))]
    /\ UNCHANGED <<env, existed, registered, incompatible, guards, freed, dangling,
                   late>>

\* check_qos_compatibility_with_policy, for reliability.
Incompatible(e, f) ==
    LET p == IF e.kind = "Publisher" THEN e ELSE f
        s == IF e.kind = "Publisher" THEN f ELSE e
    IN  p.qos = "BestEffort" /\ s.qos = "Reliable"

\* checked_gids: an endpoint that is found twice is checked once.
Conflicts(e) ==
    {f \in OfKind(Opposite(e), Topic(e)) : f.local /\ Incompatible(e, f)}

\* check their QoS, where the other side is told through its callback,
Check(e) ==
    /\ Step(e, "check")
    /\ visit({Topic(e)})
    /\ incompatible' = [f \in Endpoints |->
           incompatible[f] + IF f = e THEN Cardinality(Conflicts(e))
                             ELSE IF f \in Conflicts(e) \cap registered THEN 1 ELSE 0]
    /\ UNCHANGED <<env, existed, registered, matched, guards, freed, dangling, late>>

\* and like all others add themselves to the graph.
Add(e) ==
    /\ Step(e, "add")
    /\ insert_local(e)
    /\ existed' = [existed EXCEPT ![e] = e \in parsed]
    /\ UNCHANGED <<env, events, late>>

Announce(e) ==
    /\ Step(e, "announce")
    /\ IF existed[e] THEN UNCHANGED events ELSE trigger_graph_change(e, 1)
    /\ existed' = [existed EXCEPT ![e] = FALSE]
    /\ UNCHANGED <<graph, env, late>>

Remove(e) ==
    /\ Step(e, "remove")
    /\ remove_local(e)
    /\ UNCHANGED <<env, existed, events, late>>

Renounce(e) ==
    /\ Step(e, "renounce")
    /\ trigger_graph_change(e, -1)
    /\ UNCHANGED <<graph, env, existed, late>>

\* A mutant: the guard condition stays registered.
Unguard_Keeps(e) ==
    /\ Step(e, "unguard")
    /\ UNCHANGED <<graph, env, existed, events, late>>

Unguard(e) ==
    /\ Step(e, "unguard")
    /\ guards' = guards \ {e}
    /\ UNCHANGED <<graph, env, existed, registered, matched, incompatible, freed,
                   dangling, late>>

\* rmw_destroy_guard_condition
Free(e) ==
    /\ Step(e, "free")
    /\ freed' = freed \cup {e}
    /\ UNCHANGED <<graph, env, existed, registered, matched, incompatible, guards,
                   dangling, late>>

\* Dropping the implementation drops the token.  Nothing unregisters the
\* callbacks of an endpoint.
Drop(e) ==
    /\ Step(e, "drop")
    /\ Undeclare(e)
    /\ UNCHANGED <<graph, existed, events, late>>

Lives ==
    \E e \in Local :
        \/ Build(e) \/ Guard(e) \/ Register(e) \/ Count(e) \/ Check(e) \/ Add(e)
        \/ Announce(e) \/ Remove(e) \/ Renounce(e) \/ Unguard(e) \/ Free(e) \/ Drop(e)

-----------------------------------------------------------------------------
(* Queries of the application                                              *)

Topics == {e.topic : e \in {f \in Entities : f.kind # "Node"}}
Nodes == {e.node : e \in Entities}

rmw_count_publishers(t) == CountOf("Publisher", <<"topic", t>>)
rmw_count_subscribers(t) == CountOf("Subscription", <<"topic", t>>)
rmw_count_clients(t) == CountOf("Client", <<"service", t>>)
rmw_count_services(t) == CountOf("Service", <<"service", t>>)

\* A client sees a server as available if some service of its name is known.
rmw_service_server_is_available(t) == rmw_count_services(t) > 0

rmw_get_publishers_info_by_topic(t) == OfKind("Publisher", <<"topic", t>>)
rmw_get_subscriptions_info_by_topic(t) == OfKind("Subscription", <<"topic", t>>)

rmw_get_topic_names_and_types == get_topic_names
rmw_get_service_names_and_types == get_service_names

rmw_get_node_names == get_node_names
rmw_get_node_names_with_enclaves == get_node_names

\* "unknown" stands for RMW_RET_NODE_NAME_NON_EXISTENT.
IfNode(n, names) == IF node_exists(n) THEN names ELSE {"unknown"}

rmw_get_publisher_names_and_types_by_node(n) == IfNode(n, get_names_by_node("Publisher", n))
rmw_get_subscriber_names_and_types_by_node(n) == IfNode(n, get_names_by_node("Subscription", n))
rmw_get_client_names_and_types_by_node(n) == IfNode(n, get_names_by_node("Client", n))
rmw_get_service_names_and_types_by_node(n) == IfNode(n, get_names_by_node("Service", n))

\* Which slabs a query sweeps: one topic's or service's, all of a sort, a
\* node's, or none (node_exists and get_node_names).
Visits ==
    {{k} : k \in Keys} \cup {{}, {k \in Keys : k[1] = "topic"}, {k \in Keys : k[1] = "service"}}

Query ==
    /\ phase = "ready"
    /\ \E k \in Visits : visit(k)
    /\ UNCHANGED <<env, pc, existed, events, late>>

\* Somebody keeps what get_entities_by_topic or get_entities_by_service returned,
\* as rmw_get_publishers_info_by_topic does for its loop, the type description
\* client over its calls and the console while it draws.
Keep ==
    /\ phase = "ready"
    /\ \E k \in Keys, kind \in Matchable \cup Callable : k[1] # "node" /\ lend(kind, k)
    /\ UNCHANGED <<env, pc, existed, events, late>>

GiveBack ==
    /\ lent # {}
    /\ give_back
    /\ UNCHANGED <<env, pc, existed, events, late>>

Next ==
    \/ RemoteChange \/ OnSample \/ StartQuery \/ OnReply \/ QueryEnds
    \/ Lives \/ Query \/ Keep \/ GiveBack

Spec == Init /\ [][Next]_vars

-----------------------------------------------------------------------------
(* Properties                                                              *)

\* Every variable has its type, and a slab is never fuller than its capacity.
TypeOK ==
    /\ cached \subseteq Tokens /\ parsed \subseteq Entities /\ lent \subseteq Entities
    /\ DOMAIN index \subseteq Keys
    /\ \A k \in DOMAIN index :
          /\ index[k].live \subseteq Indexed(k) /\ index[k].held \subseteq Indexed(k) /\ index[k].dead \in Nat
          /\ Cardinality(index[k].live) + Cardinality(index[k].held) + index[k].dead <= index[k].cap
    /\ declared \subseteq Tokens /\ replies \subseteq Remote /\ late \subseteq Remote
    /\ wire \in [Tokens -> Seq({"put", "delete"})]
    /\ phase \in {"subscribed", "querying", "ready"}
    /\ pc \in [Local -> 1 .. 10] /\ existed \in [Local -> BOOLEAN]
    /\ registered \subseteq Endpoints
    /\ guards \subseteq LocalNodes /\ freed \subseteq LocalNodes
    /\ matched \in [Endpoints -> Int] /\ incompatible \in [Endpoints -> Nat]

\* The slabs and the map agree: an entity in parsed has a live reference under
\* each of its keys, and a reference that upgrades leads to an entity in parsed
\* or to one whose Arc a caller has, although add_local_entity replaces Arcs and
\* deletions leave the slabs alone.
IndexComplete ==
    \A k \in Keys : Slab(k).live = Having(k, parsed) /\ Slab(k).held \subseteq lent

Known == cached \cup parsed

\* Nobody is about to report or change the token.
Settled(t) ==
    /\ wire[t] = <<>> /\ t \notin replies
    /\ t \in Local => Between(t)

\* A declared token that is settled is known, whether the subscriber, the
\* initial query or the creation reported it, in whatever order.
NothingMissed ==
    \A e \in Entities : e \in declared /\ Settled(e) => e \in Known

OfKnown(kind, t) == {e \in Known \cap Entities : e.kind = kind /\ e.topic = t}

\* An answer has all of S and, besides it, at most entities that are gone but
\* whose Arc a caller has; a count of S is as exact.
Answers(found, S) == S \subseteq found /\ found \subseteq S \cup lent
Lists(names, S) == NamesOf(S) \subseteq names /\ names \subseteq NamesOf(S \cup lent)
Counts(n, S) == Cardinality(S) <= n /\ n <= Cardinality(S) + Cardinality(lent)

\* What the queries of the rmw layer answer is what the session knows, parsed or
\* not: no known endpoint is left out although the slabs are swept, refilled and
\* parsed in parts by whoever comes first, and nothing is answered that is
\* neither known nor in the hands of a caller.  Of endpoints without a type the
\* queries for names say nothing.  For a node the queries are claimed right as
\* long as something of it is known.
AnswersKnown ==
    /\ \A t \in Topics :
          /\ Answers(rmw_get_publishers_info_by_topic(t), OfKnown("Publisher", t))
          /\ Answers(rmw_get_subscriptions_info_by_topic(t), OfKnown("Subscription", t))
          /\ Counts(rmw_count_publishers(t), OfKnown("Publisher", t))
          /\ Counts(rmw_count_subscribers(t), OfKnown("Subscription", t))
          /\ Counts(rmw_count_clients(t), OfKnown("Client", t))
          /\ Counts(rmw_count_services(t), OfKnown("Service", t))
          /\ OfKnown("Service", t) # {} => rmw_service_server_is_available(t)
    /\ Lists(rmw_get_topic_names_and_types, {e \in Known \cap Entities : e.kind \in Matchable})
    /\ Lists(rmw_get_service_names_and_types, {e \in Known \cap Entities : e.kind = "Service"})
    /\ rmw_get_node_names = {e \in Known \cap Entities : e.kind = "Node"}
    /\ \A c \in snapshot.topics :
          Counts(c[2], OfKnown("Publisher", c[1])) /\ Counts(c[3], OfKnown("Subscription", c[1]))
    /\ \A n \in Nodes :
          LET here(kind) == {e \in Known \cap Entities : e.node = n /\ e.kind = kind}
          IN  (\E e \in Known \cap Entities : e.node = n) =>
                /\ Lists(rmw_get_publisher_names_and_types_by_node(n), here("Publisher"))
                /\ Lists(rmw_get_subscriber_names_and_types_by_node(n), here("Subscription"))
                /\ Lists(rmw_get_client_names_and_types_by_node(n), here("Client"))
                /\ Lists(rmw_get_service_names_and_types_by_node(n), here("Service"))

\* A settled entity whose token is gone is not known, but for one case: the
\* initial query is answered from another thread than the subscriber, and a reply
\* that comes after the deletion brings the entity back for good.
GhostExplained ==
    \A e \in Entities \ late : e \notin declared /\ Settled(e) => e \notin Known

\* A slab with room for each of its entities twice (once in the map, once with a
\* caller) does not grow: the references that died make room.
SlabsKeepCapacity ==
    \A k \in DOMAIN index :
        2 * Cardinality(Indexed(k)) <= SlabCapacity => index[k].cap = SlabCapacity

\* No graph change triggers a guard condition that was destroyed.
NoDanglingTrigger == ~dangling

\* If one thread makes the calls, an incompatible pair of local endpoints has
\* been counted once on either side, whoever came first.
IncompatibleOnce ==
    Serialised =>
        \A e, f \in Endpoints :
            /\ e.kind = "Publisher" /\ f.kind = "Subscription"
            /\ e.topic = f.topic /\ Incompatible(e, f)
            /\ Cardinality({g \in Endpoints : g.topic = e.topic}) = 2
            => incompatible[e] = incompatible[f] /\ incompatible[e] <= 1

\* Nothing is missing: what is declared is known, and what is known is indexed.
QueriesComplete == IndexComplete /\ NothingMissed

\* Nothing is made up: what the queries answer is known, and what is known is
\* declared.  The slabs they read stay as small as they can.
QueriesSound == TypeOK /\ AnswersKnown /\ GhostExplained /\ SlabsKeepCapacity

\* A graph change triggers only guard conditions that are there, and each
\* incompatibility is counted once.  (Of the matched counts nothing is claimed:
\* a change is reported to the endpoints of every topic, and a local pair twice.)
EventsAimed == NoDanglingTrigger /\ IncompatibleOnce
=============================================================================
