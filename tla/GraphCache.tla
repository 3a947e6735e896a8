----------------------------- MODULE GraphCache -----------------------------
(***************************************************************************)
(* GraphData (ros-z, graph.rs): what one session knows of the ROS graph.   *)
(* Liveliness tokens are kept unparsed in cached until a query needs them; *)
(* parse moves them to parsed and puts a weak reference to each entity     *)
(* into the slabs by_topic, by_service and by_node.  Removing an entity    *)
(* from parsed drops its Arc: the weak references to it die and are swept  *)
(* out of a slab by the next query of it or when it is full, unless the    *)
(* Arc is also in a result that a caller still has.                        *)
(*                                                                         *)
(* Every operation here runs under the one mutex of the graph.  RmwGraph   *)
(* says who performs them and in which order.                              *)
(***************************************************************************)
EXTENDS Naturals, FiniteSets

CONSTANTS
    Entities,     \* records [id, kind, topic, node, qos, local, typed]
    Unparsable,   \* liveliness tokens that no parser accepts
    SlabCapacity  \* DEFAULT_SLAB_CAPACITY

ASSUME SlabCapacityAssumption == SlabCapacity \in Nat \ {0}
ASSUME TokensAssumption == Entities \cap Unparsable = {}

VARIABLES
    cached,  \* tokens received and not parsed yet
    parsed,  \* entities parsed, or added locally
    index,   \* the slabs of by_topic, by_service and by_node, by key
    lent     \* entities whose Arcs a caller of get_entities_by_* has

graph == <<cached, parsed, index, lent>>

Tokens == Entities \cup Unparsable

Matchable == {"Publisher", "Subscription"}
Callable == {"Service", "Client"}

ASSUME EntitiesAssumption ==
    /\ IsFiniteSet(Entities)
    /\ \A e \in Entities : e.kind \in {"Node"} \cup Matchable \cup Callable /\ e.local \in BOOLEAN /\ e.typed \in BOOLEAN

\* The keys an entity is indexed by.
KeysOf(e) ==
    {<<"node", e.node>>}
    \cup {<<"topic", e.topic>> : x \in {e.kind} \cap Matchable}
    \cup {<<"service", e.topic>> : x \in {e.kind} \cap Callable}

Keys == UNION {KeysOf(e) : e \in Entities}
Having(k, S) == {e \in S : k \in KeysOf(e)}
Indexed(k) == Having(k, Entities)

GraphInit ==
    /\ cached = {}
    /\ parsed = {}
    /\ index = [k \in {} |-> {}]
    /\ lent = {}

-----------------------------------------------------------------------------
(* Slabs of weak references                                                *)

\* live: the references whose Arc is in parsed; held: those whose Arc only a
\* caller has; dead: how many do not upgrade any more; cap: the capacity.
EmptySlab == [live |-> {}, held |-> {}, dead |-> 0, cap |-> SlabCapacity]

Slab(k) == IF k \in DOMAIN index THEN index[k] ELSE EmptySlab

\* Dropping the Arcs of the entities in gone kills the references to them, but
\* for those a caller keeps alive.
Dying(s, gone) ==
    LET kept == (s.live \cap gone \cap lent) \ s.held IN
    [live |-> s.live \ gone,
     held |-> s.held \cup kept,
     dead |-> s.dead + Cardinality((s.live \cap gone) \ kept),
     cap  |-> s.cap]

\* The caller drops its result.
Released(s) == [live |-> s.live, held |-> {}, dead |-> s.dead + Cardinality(s.held), cap |-> s.cap]

\* retain: the dead references go, and with them those to an entity in without.
Swept(s, without) ==
    [live |-> s.live \ without, held |-> s.held \ without, dead |-> 0, cap |-> s.cap]

Larger(a, b) == IF a < b THEN b ELSE a

\* References to the entities of new are inserted one after the other; a full
\* slab is swept first, and grows if that makes no room (to just what it needs;
\* the vector behind it grows in larger steps).
Filled(s, new) ==
    LET size == Cardinality(s.live) + Cardinality(s.held) + Cardinality(new) IN
    [live |-> s.live \cup new,
     held |-> s.held,
     dead |-> IF size + s.dead <= s.cap THEN s.dead ELSE 0,
     cap  |-> Larger(s.cap, size)]

\* The index after the Arcs of gone are dropped and those of new are indexed.
Reindexed(gone, new) ==
    [k \in DOMAIN index \cup UNION {KeysOf(e) : e \in new} |->
        LET s == Dying(Slab(k), gone)
            here == Having(k, new)
        IN  IF here = {} THEN s ELSE Filled(s, here)]

-----------------------------------------------------------------------------
(* GraphData                                                               *)

insert(t) == cached' = IF t \in parsed THEN cached ELSE cached \cup {t}

\* A mutant: a token that was not parsed yet stays.
remove_Parsed(t) ==
    /\ parsed' = parsed \ {t}
    /\ index' = Reindexed({t}, {})
    /\ UNCHANGED <<cached, lent>>

remove(t) ==
    /\ cached' = cached \ {t}
    /\ parsed' = parsed \ {t}
    /\ index' = Reindexed({t}, {})
    /\ UNCHANGED lent

\* What parse would add: the cached tokens that parse and are not parsed yet.
Unparsed == (cached \cap Entities) \ parsed

\* A mutant: only what the query is about is parsed, but all is drained.
visit_Partly(k) ==
    /\ cached' = {}
    /\ parsed' = parsed \cup {e \in Unparsed : KeysOf(e) \cap k # {}}
    /\ index' = LET i == Reindexed({}, {e \in Unparsed : KeysOf(e) \cap k # {}}) IN
                [j \in DOMAIN i |-> IF j \in k THEN Swept(i[j], {}) ELSE i[j]]
    /\ UNCHANGED lent

\* A query parses what is cached and sweeps the slabs of the keys it visits.
parse_and_retain(k) ==
    /\ cached' = {}
    /\ parsed' = parsed \cup Unparsed
    /\ index' = LET i == Reindexed({}, Unparsed) IN
                [j \in DOMAIN i |-> IF j \in k THEN Swept(i[j], {}) ELSE i[j]]

visit(k) == parse_and_retain(k) /\ UNCHANGED lent

\* What a query that visits k finds: what is in the map, and what callers have.
Found(k) == Slab(k).live \cup Having(k, Unparsed)
Reached(k) == Found(k) \cup Slab(k).held

\* The get_entities queries filter by kind; count and count_by_service count
\* references, and there may be two of an entity that came back.
OfKind(kind, k) == {e \in Reached(k) : e.kind = kind}
CountOf(kind, k) ==
    Cardinality({e \in Found(k) : e.kind = kind}) + Cardinality({e \in Slab(k).held : e.kind = kind})

\* The names of the entities that have a type: of the others they are not told.
NamesOf(S) == {e.topic : e \in {f \in S : f.typed}}

get_topic_names == UNION {NamesOf(Reached(k)) : k \in {j \in Keys : j[1] = "topic"}}
get_service_names == UNION {NamesOf(OfKind("Service", k)) : k \in {j \in Keys : j[1] = "service"}}
get_names_by_node(kind, n) == NamesOf(OfKind(kind, <<"node", n>>))

\* node_exists asks for the key, whether or not its references are alive.
node_exists(n) ==
    <<"node", n>> \in DOMAIN index \cup UNION {KeysOf(e) : e \in Unparsed}

\* get_node_names and get_node_names_with_enclaves upgrade and filter.
get_node_names == {e \in Entities : e.kind = "Node" /\ e \in Reached(<<"node", e.node>>)}

\* Graph::snapshot: what the console shows and exports.
snapshot ==
    [topics |-> {<<t, CountOf("Publisher", <<"topic", t>>),
                   CountOf("Subscription", <<"topic", t>>)>> : t \in get_topic_names},
     nodes |-> get_node_names, services |-> get_service_names]

\* add_local_entity: the Arc in parsed is replaced, cached is not looked at.
insert_local(e) ==
    /\ parsed' = parsed \cup {e}
    /\ index' = Reindexed({e}, {e})
    /\ UNCHANGED <<cached, lent>>

\* remove_local_entity also sweeps the slabs of the entity, and takes the
\* references to it out of them whoever has its Arc.
remove_local(e) ==
    /\ cached' = cached \ {e}
    /\ parsed' = parsed \ {e}
    /\ index' = LET i == Reindexed({e}, {}) IN
                [k \in DOMAIN i |-> IF k \in KeysOf(e) THEN Swept(i[k], {e}) ELSE i[k]]
    /\ lent' = lent \ {e}

\* A caller of get_entities_by_topic or get_entities_by_service keeps the result
\* (the bound is one result at a time).
lend(kind, k) ==
    /\ lent = {}
    /\ parse_and_retain({k})
    /\ lent' = OfKind(kind, k)

\* And drops it.
give_back ==
    /\ lent' = {}
    /\ index' = [k \in DOMAIN index |-> Released(index[k])]
    /\ UNCHANGED <<cached, parsed>>
=============================================================================
