--------------------------- MODULE RmwGraphProofs ---------------------------
(***************************************************************************)
(* What the graph of a session guarantees for any entities, any number of  *)
(* other sessions and any capacity of the slabs.  GraphInv is about the    *)
(* data behind the mutex: the slabs hold live references to just what is   *)
(* parsed and what a caller has, in as little room as they need.  TokenInv relates what is       *)
(* declared to what is on the wire, and ReportInv that to what is known:   *)
(* the last sample on its way says whether a token is declared, so one     *)
(* with no sample on its way is known if and only if it is declared, but   *)
(* for a late reply and for the calls that have not come to that yet.      *)
(* EventInv says which callbacks and guard conditions there are at which   *)
(* step of an entity's life.                                               *)
(***************************************************************************)
EXTENDS RmwGraph, SequenceTheorems, FiniteSetTheorems, TLAPS

USE SlabCapacityAssumption, TokensAssumption, EntitiesAssumption

\* The steps of an entity's life, by number.
AddAt(e) == IF e.kind = "Node" THEN 3 ELSE IF e.kind \in Matchable THEN 5 ELSE 2
AnnounceAt(e) == IF e.kind = "Node" THEN 4 ELSE IF e.kind \in Matchable THEN 6 ELSE 3
RemoveAt(e) == IF e.kind \in Matchable THEN 7 ELSE 5
DropAt(e) == IF e.kind \in Callable THEN 4 ELSE 9
EndAt(e) == IF e.kind \in Callable THEN 7 ELSE 10

\* A slab of the key k: what it holds fits, and it has not grown without need.
SlabOK(k, s) ==
    /\ s \in [live : SUBSET Indexed(k), held : SUBSET Indexed(k), dead : Nat, cap : Nat]
    /\ Cardinality(s.live) + Cardinality(s.held) + s.dead <= s.cap
    /\ 2 * Cardinality(Indexed(k)) <= SlabCapacity => s.cap = SlabCapacity
IndexOK(i) == DOMAIN i \subseteq Keys /\ \A k \in DOMAIN i : SlabOK(k, i[k])

\* What a slab of an index has alive, and that it is what is in the map; the
\* other references that upgrade are to entities of S.
LiveIn(i, k) == IF k \in DOMAIN i THEN i[k].live ELSE {}
Complete(i, there) == \A k \in Keys : LiveIn(i, k) = there \cap Indexed(k)
HeldIn(i, S) == \A k \in DOMAIN i : i[k].held \subseteq S

GraphInv ==
    /\ cached \subseteq Tokens /\ parsed \subseteq Entities
    /\ lent \subseteq {e \in Entities : e.kind # "Node"}
    /\ IndexOK(index) /\ Complete(index, parsed) /\ HeldIn(index, lent)

\* Types, and where an entity is in its life.
LifeInv ==
    /\ pc \in [Local -> 1..10] /\ existed \in [Local -> BOOLEAN]
    /\ \A e \in Local : pc[e] <= EndAt(e)
    /\ phase \in {"subscribed", "querying", "ready"}
    /\ phase # "ready" => \A e \in Local : pc[e] = 1

TokenInv ==
    /\ declared \subseteq Tokens /\ replies \subseteq Remote /\ late \subseteq Remote
    /\ wire \in [Tokens -> Seq({"put", "delete"})]
    /\ \A t \in Tokens : wire[t] # <<>> =>
          wire[t][Len(wire[t])] = IF t \in declared THEN "put" ELSE "delete"
    /\ \A e \in Local :
          /\ e \in declared <=> pc[e] > 1 /\ pc[e] <= DropAt(e)
          /\ e \in declared => \A i \in 1..Len(wire[e]) : wire[e][i] = "put"
          /\ pc[e] = 1 => wire[e] = <<>>

ReportInv ==
    /\ \A e \in Entities \ late : e \notin declared /\ wire[e] = <<>> => e \notin Known
    /\ \A e \in Entities \ Local : e \in declared /\ wire[e] = <<>> => e \in Known
    /\ \A e \in Local : e \in declared /\ AddAt(e) < pc[e] /\ pc[e] <= RemoveAt(e) => e \in parsed

EventInv ==
    /\ registered \subseteq Endpoints /\ guards \subseteq LocalNodes /\ freed \subseteq LocalNodes
    /\ matched \in [Endpoints -> Int] /\ incompatible \in [Endpoints -> Nat]
    /\ \A e \in Endpoints : pc[e] > 2 => e \in registered
    /\ \A e \in guards : pc[e] > 2 /\ pc[e] <= 7
    /\ \A e \in freed : pc[e] > 8
    /\ ~dangling

\* An incompatible pair, alone on its topic, that IncompatibleOnce is about: it
\* is counted when the second of the two is checked.
Pair(e, f) ==
    /\ e.kind = "Publisher" /\ f.kind = "Subscription"
    /\ e.topic = f.topic /\ Incompatible(e, f)
    /\ Cardinality({g \in Endpoints : g.topic = e.topic}) = 2
OnceInv ==
    Serialised => \A e, f \in Endpoints : Pair(e, f) =>
        /\ incompatible[e] = incompatible[f] /\ incompatible[e] <= 1
        /\ pc[e] <= 4 \/ pc[f] <= 4 => incompatible[e] = 0

\* An entity that a caller has was built before.
LentInv == \A e \in Local \cap lent : pc[e] > 1

IInv == GraphInv /\ LifeInv /\ TokenInv /\ ReportInv /\ EventInv /\ OnceInv

-----------------------------------------------------------------------------
(* The life of an entity                                                   *)

Calls == {"build", "guard", "register", "count", "check", "add", "announce",
          "remove", "renounce", "unguard", "free", "drop"}

\* The calls that make and end a node, in their order.
LEMMA NodeLife ==
    ASSUME NEW e \in Local, e.kind = "Node"
    PROVE  /\ Len(Life(e)) = 9 /\ Life(e)[1] = "build" /\ Life(e)[2] = "guard" /\ Life(e)[3] = "add"
           /\ Life(e)[4] = "announce" /\ Life(e)[5] = "remove" /\ Life(e)[6] = "renounce" /\ Life(e)[7] = "unguard"
           /\ Life(e)[8] = "free" /\ Life(e)[9] = "drop"
  <1>0. rmw_create_node \in Seq(Calls) /\ rmw_destroy_node \in Seq(Calls)
    BY DEF Calls, rmw_create_node, rmw_destroy_node
  <1>1. PICK s \in Seq(Calls) : s = rmw_create_node
    BY <1>0
  <1>2. PICK t \in Seq(Calls) : t = rmw_destroy_node
    BY <1>0
  <1>3. /\ Len(s) = 4 /\ s[1] = "build" /\ s[2] = "guard" /\ s[3] = "add"
        /\ s[4] = "announce"
    BY <1>1 DEF rmw_create_node
  <1>4. /\ Len(t) = 5 /\ t[1] = "remove" /\ t[2] = "renounce" /\ t[3] = "unguard"
        /\ t[4] = "free" /\ t[5] = "drop"
    BY <1>2 DEF rmw_destroy_node
  <1>5. Life(e) = s \o t
    BY <1>1, <1>2 DEF Life
  <1>6. /\ Len(Life(e)) = Len(s) + Len(t)
        /\ \A i \in 1..(Len(s) + Len(t)) :
              Life(e)[i] = IF i <= Len(s) THEN s[i] ELSE t[i - Len(s)]
    BY <1>5, ConcatProperties
  <1> QED
    BY <1>3, <1>4, <1>6

\* Publishers and subscriptions.
LEMMA EndpointLife ==
    ASSUME NEW e \in Local, e.kind \in Matchable
    PROVE  /\ Len(Life(e)) = 9 /\ Life(e)[1] = "build" /\ Life(e)[2] = "register" /\ Life(e)[3] = "count"
           /\ Life(e)[4] = "check" /\ Life(e)[5] = "add" /\ Life(e)[6] = "announce" /\ Life(e)[7] = "remove"
           /\ Life(e)[8] = "renounce" /\ Life(e)[9] = "drop"
  <1>0. rmw_create_publisher \in Seq(Calls) /\ rmw_destroy_publisher \in Seq(Calls)
    BY DEF Calls, rmw_create_publisher, rmw_destroy_publisher
  <1>1. PICK s \in Seq(Calls) : s = rmw_create_publisher
    BY <1>0
  <1>2. PICK t \in Seq(Calls) : t = rmw_destroy_publisher
    BY <1>0
  <1>3. /\ Len(s) = 6 /\ s[1] = "build" /\ s[2] = "register" /\ s[3] = "count"
        /\ s[4] = "check" /\ s[5] = "add" /\ s[6] = "announce"
    BY <1>1 DEF rmw_create_publisher
  <1>4. /\ Len(t) = 3 /\ t[1] = "remove" /\ t[2] = "renounce" /\ t[3] = "drop"
    BY <1>2 DEF rmw_destroy_publisher
  <1>5. Life(e) = s \o t
    BY <1>1, <1>2 DEF Life, Matchable, rmw_create_publisher, rmw_destroy_publisher,
                     rmw_create_subscription, rmw_destroy_subscription
  <1>6. /\ Len(Life(e)) = Len(s) + Len(t)
        /\ \A i \in 1..(Len(s) + Len(t)) :
              Life(e)[i] = IF i <= Len(s) THEN s[i] ELSE t[i - Len(s)]
    BY <1>5, ConcatProperties
  <1> QED
    BY <1>3, <1>4, <1>6

\* Clients and services.
LEMMA CallableLife ==
    ASSUME NEW e \in Local, e.kind \in Callable
    PROVE  /\ Len(Life(e)) = 6 /\ Life(e)[1] = "build" /\ Life(e)[2] = "add" /\ Life(e)[3] = "announce"
           /\ Life(e)[4] = "drop" /\ Life(e)[5] = "remove" /\ Life(e)[6] = "renounce"
  <1>0. rmw_create_client \in Seq(Calls) /\ rmw_destroy_client \in Seq(Calls)
    BY DEF Calls, rmw_create_client, rmw_destroy_client
  <1>1. PICK s \in Seq(Calls) : s = rmw_create_client
    BY <1>0
  <1>2. PICK t \in Seq(Calls) : t = rmw_destroy_client
    BY <1>0
  <1>3. /\ Len(s) = 3 /\ s[1] = "build" /\ s[2] = "add" /\ s[3] = "announce"
    BY <1>1 DEF rmw_create_client
  <1>4. /\ Len(t) = 3 /\ t[1] = "drop" /\ t[2] = "remove" /\ t[3] = "renounce"
    BY <1>2 DEF rmw_destroy_client
  <1>5. Life(e) = s \o t
    BY <1>1, <1>2 DEF Life, Callable, rmw_create_client, rmw_destroy_client,
                     rmw_create_service, rmw_destroy_service
  <1>6. /\ Len(Life(e)) = Len(s) + Len(t)
        /\ \A i \in 1..(Len(s) + Len(t)) :
              Life(e)[i] = IF i <= Len(s) THEN s[i] ELSE t[i - Len(s)]
    BY <1>5, ConcatProperties
  <1> QED
    BY <1>3, <1>4, <1>6

\* The call an entity is at, by its number; between the calls it waits to be
\* created or destroyed, or is gone.
LEMMA AtFacts ==
    ASSUME NEW e \in Local, pc[e] \in 1..10, pc[e] <= EndAt(e)
    PROVE  /\ At(e, "build") <=> pc[e] = 1
           /\ At(e, "add") <=> pc[e] = AddAt(e)
           /\ At(e, "announce") <=> pc[e] = AnnounceAt(e)
           /\ At(e, "remove") <=> pc[e] = RemoveAt(e)
           /\ At(e, "drop") <=> pc[e] = DropAt(e)
           /\ At(e, "guard") <=> e.kind = "Node" /\ pc[e] = 2
           /\ At(e, "unguard") <=> e.kind = "Node" /\ pc[e] = 7
           /\ At(e, "free") <=> e.kind = "Node" /\ pc[e] = 8
           /\ At(e, "register") <=> e.kind \in Matchable /\ pc[e] = 2
           /\ At(e, "count") <=> e.kind \in Matchable /\ pc[e] = 3
           /\ At(e, "check") <=> e.kind \in Matchable /\ pc[e] = 4
           /\ At(e, "renounce") => pc[e] = RemoveAt(e) + 1
           /\ Between(e) <=> pc[e] \in {1, AnnounceAt(e) + 1, EndAt(e)}
           /\ \A call : At(e, call) => pc[e] + 1 \in 1..10 /\ pc[e] + 1 <= EndAt(e)
  <1>1. e.kind = "Node" \/ e.kind \in Matchable \/ e.kind \in Callable
    BY DEF Local
  <1>2. CASE e.kind = "Node"
    <2>1. pc[e] \in {1, 2, 3, 4, 5, 6, 7, 8, 9, 10}
      OBVIOUS
    <2>2. /\ AddAt(e) = 3 /\ AnnounceAt(e) = 4 /\ RemoveAt(e) = 5 /\ DropAt(e) = 9 /\ EndAt(e) = 10
          /\ e.kind = "Node" /\ e.kind \notin Matchable
      BY <1>2 DEF AddAt, AnnounceAt, RemoveAt, DropAt, EndAt, Matchable, Callable
    <2>3. PICK life : life = Life(e)
      OBVIOUS
    <2>4. /\ Len(life) = 9 /\ life[1] = "build" /\ life[2] = "guard" /\ life[3] = "add"
          /\ life[4] = "announce" /\ life[5] = "remove" /\ life[6] = "renounce" /\ life[7] = "unguard"
          /\ life[8] = "free" /\ life[9] = "drop"
      BY <1>2, <2>3, NodeLife
    <2>5. \A call : At(e, call) <=> pc[e] <= Len(life) /\ life[pc[e]] = call
      BY <2>3 DEF At
    <2>6. Between(e) <=> pc[e] \in {1, AnnounceAt(e) + 1, EndAt(e)}
      BY <2>1, <2>2, <2>3, <2>4 DEF Between
    <2> QED
      BY <2>1, <2>2, <2>4, <2>5, <2>6
  <1>3. CASE e.kind \in Matchable
    <2>1. pc[e] \in {1, 2, 3, 4, 5, 6, 7, 8, 9, 10}
      OBVIOUS
    <2>2. /\ AddAt(e) = 5 /\ AnnounceAt(e) = 6 /\ RemoveAt(e) = 7 /\ DropAt(e) = 9 /\ EndAt(e) = 10
          /\ e.kind # "Node" /\ e.kind \in Matchable
      BY <1>3 DEF AddAt, AnnounceAt, RemoveAt, DropAt, EndAt, Matchable, Callable
    <2>3. PICK life : life = Life(e)
      OBVIOUS
    <2>4. /\ Len(life) = 9 /\ life[1] = "build" /\ life[2] = "register" /\ life[3] = "count"
          /\ life[4] = "check" /\ life[5] = "add" /\ life[6] = "announce" /\ life[7] = "remove"
          /\ life[8] = "renounce" /\ life[9] = "drop"
      BY <1>3, <2>3, EndpointLife
    <2>5. \A call : At(e, call) <=> pc[e] <= Len(life) /\ life[pc[e]] = call
      BY <2>3 DEF At
    <2>6. Between(e) <=> pc[e] \in {1, AnnounceAt(e) + 1, EndAt(e)}
      BY <2>1, <2>2, <2>3, <2>4 DEF Between
    <2> QED
      BY <2>1, <2>2, <2>4, <2>5, <2>6
  <1>4. CASE e.kind \in Callable
    <2>1. pc[e] \in {1, 2, 3, 4, 5, 6, 7}
      BY <1>4 DEF EndAt
    <2>2. /\ AddAt(e) = 2 /\ AnnounceAt(e) = 3 /\ RemoveAt(e) = 5 /\ DropAt(e) = 4 /\ EndAt(e) = 7
          /\ e.kind # "Node" /\ e.kind \notin Matchable
      BY <1>4 DEF AddAt, AnnounceAt, RemoveAt, DropAt, EndAt, Matchable, Callable
    <2>3. PICK life : life = Life(e)
      OBVIOUS
    <2>4. /\ Len(life) = 6 /\ life[1] = "build" /\ life[2] = "add" /\ life[3] = "announce"
          /\ life[4] = "drop" /\ life[5] = "remove" /\ life[6] = "renounce"
      BY <1>4, <2>3, CallableLife
    <2>5. \A call : At(e, call) <=> pc[e] <= Len(life) /\ life[pc[e]] = call
      BY <2>3 DEF At
    <2>6. Between(e) <=> pc[e] \in {1, AnnounceAt(e) + 1, EndAt(e)}
      BY <2>1, <2>2, <2>3, <2>4 DEF Between
    <2> QED
      BY <2>1, <2>2, <2>4, <2>5, <2>6
  <1> QED
    BY <1>1, <1>2, <1>3, <1>4

-----------------------------------------------------------------------------
(* Slabs                                                                   *)

\* What is indexed by a key is finite, and so is every part of it.
LEMMA IndexedFinite ==
    ASSUME NEW k, NEW S \in SUBSET Indexed(k)
    PROVE  /\ IsFiniteSet(S) /\ Cardinality(S) \in Nat
           /\ Cardinality(S) <= Cardinality(Indexed(k)) /\ Cardinality(Indexed(k)) \in Nat
  <1>1. Indexed(k) \subseteq Entities
    BY DEF Indexed, Having
  <1>2. IsFiniteSet(Indexed(k))
    BY <1>1, FS_Subset
  <1> QED
    BY <1>2, FS_Subset, FS_CardinalityType

\* A slab that was just created is in order.
LEMMA EmptyOK ==
    ASSUME NEW k
    PROVE  SlabOK(k, EmptySlab) /\ EmptySlab.live = {} /\ EmptySlab.held = {}
  BY FS_EmptySet DEF SlabOK, EmptySlab

\* A slab made of its parts.
LEMMA SlabParts ==
    ASSUME NEW k, NEW l \in SUBSET Indexed(k), NEW h \in SUBSET Indexed(k), NEW n \in Nat, NEW c \in Nat,
           NEW d, d = [live |-> l, held |-> h, dead |-> n, cap |-> c],
           Cardinality(l) + Cardinality(h) + n <= c,
           2 * Cardinality(Indexed(k)) <= SlabCapacity => c = SlabCapacity
    PROVE  SlabOK(k, d) /\ d.live = l /\ d.held = h
  BY DEF SlabOK

\* What a slab is, and that its parts can be counted.
LEMMA SlabFacts ==
    ASSUME NEW k, NEW s, SlabOK(k, s)
    PROVE  /\ s.live \subseteq Indexed(k) /\ s.held \subseteq Indexed(k) /\ s.dead \in Nat /\ s.cap \in Nat
           /\ Cardinality(s.live) + Cardinality(s.held) + s.dead <= s.cap
           /\ 2 * Cardinality(Indexed(k)) <= SlabCapacity => s.cap = SlabCapacity
           /\ IsFiniteSet(s.live) /\ IsFiniteSet(s.held)
           /\ Cardinality(s.live) \in Nat /\ Cardinality(s.held) \in Nat
  <1>1. /\ s.live \subseteq Indexed(k) /\ s.held \subseteq Indexed(k) /\ s.dead \in Nat /\ s.cap \in Nat
        /\ Cardinality(s.live) + Cardinality(s.held) + s.dead <= s.cap
        /\ 2 * Cardinality(Indexed(k)) <= SlabCapacity => s.cap = SlabCapacity
    BY DEF SlabOK
  <1> QED
    BY <1>1, IndexedFinite

\* References die, or are left to a caller: they take the room they took.
LEMMA DyingOK ==
    ASSUME NEW k, NEW s, SlabOK(k, s), NEW gone
    PROVE  /\ SlabOK(k, Dying(s, gone)) /\ Dying(s, gone).live = s.live \ gone
           /\ Dying(s, gone).held \subseteq s.held \cup lent
  <1>1. PICK kept : kept = (s.live \cap gone \cap lent) \ s.held
    OBVIOUS
  <1>2. PICK lost : lost = (s.live \cap gone) \ kept
    OBVIOUS
  <1>3. PICK l : l = s.live \ gone
    OBVIOUS
  <1>4. PICK h : h = s.held \cup kept
    OBVIOUS
  <1>5. l \subseteq Indexed(k) /\ h \subseteq Indexed(k) /\ kept \subseteq Indexed(k) /\ lost \subseteq Indexed(k)
    BY <1>1, <1>2, <1>3, <1>4, SlabFacts
  <1>6. /\ IsFiniteSet(l) /\ IsFiniteSet(h) /\ IsFiniteSet(kept) /\ IsFiniteSet(lost)
        /\ Cardinality(l) \in Nat /\ Cardinality(h) \in Nat /\ Cardinality(kept) \in Nat /\ Cardinality(lost) \in Nat
    BY <1>5, IndexedFinite
  <1>7. Cardinality(h) = Cardinality(s.held) + Cardinality(kept)
    <2>1. s.held \cap kept = {}
      BY <1>1
    <2>2. IsFiniteSet(s.held) /\ Cardinality(s.held) \in Nat
      BY SlabFacts
    <2>3. Cardinality(s.held \cup kept) = Cardinality(s.held) + Cardinality(kept) - Cardinality(s.held \cap kept)
      BY <1>6, <2>2, FS_Union
    <2>4. Cardinality(s.held \cap kept) = 0
      BY <2>1, FS_EmptySet
    <2> QED
      BY <1>4, <1>6, <2>2, <2>3, <2>4
  <1>8. Cardinality(s.live) = Cardinality(l) + Cardinality(kept) + Cardinality(lost)
    <2>1. s.live \ gone = l /\ s.live \cap gone = kept \cup lost /\ kept \cap lost = {}
      BY <1>1, <1>2, <1>3
    <2>2. IsFiniteSet(s.live) /\ Cardinality(s.live) \in Nat
      BY SlabFacts
    <2>3. Cardinality(s.live \ gone) = Cardinality(s.live) - Cardinality(s.live \cap gone)
      BY <2>2, FS_Difference
    <2>4. Cardinality(kept \cup lost) = Cardinality(kept) + Cardinality(lost) - Cardinality(kept \cap lost)
      BY <1>6, FS_Union
    <2>5. Cardinality(kept \cap lost) = 0
      BY <2>1, FS_EmptySet
    <2>6. Cardinality(l) = Cardinality(s.live) - Cardinality(kept \cup lost)
      BY <2>1, <2>3
    <2>7. Cardinality(kept \cup lost) = Cardinality(kept) + Cardinality(lost)
      BY <1>6, <2>4, <2>5
    <2> QED
      BY <1>6, <2>2, <2>6, <2>7
  <1>9. PICK n \in Nat : n = s.dead + Cardinality(lost)
    BY <1>6, SlabFacts
  <1>10. Cardinality(l) + Cardinality(h) + n <= s.cap
    <2>1. /\ s.dead \in Nat /\ s.cap \in Nat /\ Cardinality(s.held) \in Nat
          /\ Cardinality(s.live) + Cardinality(s.held) + s.dead <= s.cap
      BY SlabFacts
    <2> QED
      BY <1>6, <1>7, <1>8, <1>9, <2>1
  <1>11. PICK d : d = Dying(s, gone)
    OBVIOUS
  <1>12. d = [live |-> l, held |-> h, dead |-> n, cap |-> s.cap]
    BY <1>1, <1>2, <1>3, <1>4, <1>9, <1>11 DEF Dying
  <1>13. s.cap \in Nat /\ (2 * Cardinality(Indexed(k)) <= SlabCapacity => s.cap = SlabCapacity)
    BY SlabFacts
  <1>14. SlabOK(k, d) /\ d.live = l /\ d.held = h
    BY <1>5, <1>9, <1>10, <1>12, <1>13, SlabParts
  <1> QED
    BY <1>1, <1>3, <1>4, <1>11, <1>14

\* A caller drops what it has: that is dead then.
LEMMA ReleasedOK ==
    ASSUME NEW k, NEW s, SlabOK(k, s)
    PROVE  SlabOK(k, Released(s)) /\ Released(s).live = s.live /\ Released(s).held = {}
  <1>1. PICK n \in Nat : n = s.dead + Cardinality(s.held)
    BY SlabFacts
  <1>2. PICK d : d = Released(s)
    OBVIOUS
  <1>h. PICK h \in SUBSET Indexed(k) : h = {}
    OBVIOUS
  <1>3. d = [live |-> s.live, held |-> h, dead |-> n, cap |-> s.cap]
    BY <1>1, <1>2, <1>h DEF Released
  <1>4. Cardinality(h) = 0
    BY <1>h, FS_EmptySet
  <1>5. Cardinality(s.live) + Cardinality(h) + n <= s.cap
    BY <1>1, <1>4, SlabFacts
  <1>6. s.live \subseteq Indexed(k) /\ s.cap \in Nat
        /\ (2 * Cardinality(Indexed(k)) <= SlabCapacity => s.cap = SlabCapacity)
    BY SlabFacts
  <1>7. SlabOK(k, d) /\ d.live = s.live /\ d.held = h
    BY <1>1, <1>3, <1>5, <1>6, SlabParts
  <1> QED
    BY <1>2, <1>h, <1>7

\* Sweeping a slab keeps what upgrades, but for what is to go.
LEMMA SweptOK ==
    ASSUME NEW k, NEW s, SlabOK(k, s), NEW without
    PROVE  /\ SlabOK(k, Swept(s, without)) /\ Swept(s, without).live = s.live \ without
           /\ Swept(s, without).held = s.held \ without
  <1>1. PICK l : l = s.live \ without
    OBVIOUS
  <1>2. PICK h : h = s.held \ without
    OBVIOUS
  <1>3. PICK d : d = Swept(s, without)
    OBVIOUS
  <1>n. PICK n \in Nat : n = 0
    OBVIOUS
  <1>4. d = [live |-> l, held |-> h, dead |-> n, cap |-> s.cap]
    BY <1>1, <1>2, <1>3, <1>n DEF Swept
  <1>5. l \subseteq Indexed(k) /\ h \subseteq Indexed(k) /\ l \subseteq s.live /\ h \subseteq s.held
    BY <1>1, <1>2, SlabFacts
  <1>6. /\ Cardinality(l) \in Nat /\ Cardinality(h) \in Nat
        /\ Cardinality(l) <= Cardinality(s.live) /\ Cardinality(h) <= Cardinality(s.held)
    BY <1>5, IndexedFinite, SlabFacts, FS_Subset
  <1>7. Cardinality(l) + Cardinality(h) + n <= s.cap
    BY <1>6, <1>n, SlabFacts
  <1>8. s.cap \in Nat /\ (2 * Cardinality(Indexed(k)) <= SlabCapacity => s.cap = SlabCapacity)
    BY SlabFacts
  <1>9. SlabOK(k, d) /\ d.live = l /\ d.held = h
    BY <1>4, <1>5, <1>7, <1>8, <1>n, SlabParts
  <1> QED
    BY <1>1, <1>2, <1>3, <1>9

\* New references are inserted: the slab grows only if those that upgrade need it.
LEMMA FilledOK ==
    ASSUME NEW k, NEW s, SlabOK(k, s), NEW new \in SUBSET Indexed(k), new \cap s.live = {}
    PROVE  /\ SlabOK(k, Filled(s, new)) /\ Filled(s, new).live = s.live \cup new
           /\ Filled(s, new).held = s.held
  <1>1. /\ s.live \subseteq Indexed(k) /\ s.held \subseteq Indexed(k) /\ s.dead \in Nat /\ s.cap \in Nat
        /\ Cardinality(s.live) + Cardinality(s.held) + s.dead <= s.cap
        /\ 2 * Cardinality(Indexed(k)) <= SlabCapacity => s.cap = SlabCapacity
        /\ IsFiniteSet(s.live) /\ Cardinality(s.live) \in Nat /\ Cardinality(s.held) \in Nat
    BY SlabFacts
  <1>2. PICK l : l = s.live \cup new
    OBVIOUS
  <1>3. /\ IsFiniteSet(new) /\ Cardinality(new) \in Nat /\ l \subseteq Indexed(k)
        /\ Cardinality(l) \in Nat /\ Cardinality(Indexed(k)) \in Nat
        /\ Cardinality(l) <= Cardinality(Indexed(k)) /\ Cardinality(s.held) <= Cardinality(Indexed(k))
    BY <1>1, <1>2, IndexedFinite
  <1>4. Cardinality(l) = Cardinality(s.live) + Cardinality(new)
    <2>1. Cardinality(s.live \cap new) = 0
      <3>1. s.live \cap new = {}
        OBVIOUS
      <3> QED
        BY <3>1, FS_EmptySet
    <2>2. Cardinality(s.live \cup new)
             = Cardinality(s.live) + Cardinality(new) - Cardinality(s.live \cap new)
      BY <1>1, <1>3, FS_Union
    <2> QED
      BY <1>1, <1>2, <1>3, <2>1, <2>2
  <1>5. PICK size \in Nat : size = Cardinality(s.live) + Cardinality(s.held) + Cardinality(new)
    BY <1>1, <1>3
  <1>6. PICK n \in Nat : n = IF size + s.dead <= s.cap THEN s.dead ELSE 0
    BY <1>1
  <1>7. PICK c \in Nat : c = Larger(s.cap, size)
    BY <1>1 DEF Larger
  <1>8. c >= size /\ c >= s.cap /\ (size <= s.cap => c = s.cap)
    BY <1>1, <1>7 DEF Larger
  <1>9. size + n <= c
    BY <1>1, <1>6, <1>8
  <1>10. Cardinality(l) + Cardinality(s.held) + n <= c
    BY <1>1, <1>3, <1>4, <1>5, <1>9
  <1>11. 2 * Cardinality(Indexed(k)) <= SlabCapacity => c = SlabCapacity
    <2>1. size <= 2 * Cardinality(Indexed(k))
      BY <1>1, <1>3, <1>4, <1>5
    <2> QED
      BY <1>1, <1>3, <1>8, <2>1
  <1>12. PICK d : d = Filled(s, new)
    OBVIOUS
  <1>13. d = [live |-> l, held |-> s.held, dead |-> n, cap |-> c]
    BY <1>2, <1>5, <1>6, <1>7, <1>12 DEF Filled
  <1>14. SlabOK(k, d) /\ d.live = l /\ d.held = s.held
    BY <1>1, <1>3, <1>6, <1>7, <1>10, <1>11, <1>13, SlabParts
  <1> QED
    BY <1>2, <1>12, <1>14

\* Of a set of entities a key has those indexed by it.
LEMMA HavingFacts ==
    ASSUME NEW k, NEW S \in SUBSET Entities
    PROVE  Having(k, S) = S \cap Indexed(k)
  BY DEF Having, Indexed

\* Every key has a slab, if an empty one.
LEMMA SlabThere ==
    ASSUME GraphInv, NEW k
    PROVE  /\ k \in Keys => SlabOK(k, Slab(k))
           /\ Slab(k).live = parsed \cap Indexed(k)
           /\ Slab(k).held \subseteq lent /\ Slab(k).held \subseteq Indexed(k)
  <1>1. CASE k \in DOMAIN index
    BY <1>1, SlabFacts DEF Slab, GraphInv, IndexOK, Complete, LiveIn, HeldIn
  <1>2. CASE k \notin DOMAIN index
    <2>1. k \notin Keys => Indexed(k) = {}
      BY DEF Indexed, Having, Keys
    <2>2. k \in Keys => parsed \cap Indexed(k) = {}
      BY <1>2 DEF GraphInv, Complete, LiveIn
    <2> QED
      BY <1>2, <2>1, <2>2, EmptyOK DEF Slab
  <1> QED
    BY <1>1, <1>2

\* Dropping entities and indexing new ones keeps the slabs exact.
LEMMA ReindexedOK ==
    ASSUME GraphInv, NEW gone, NEW new \in SUBSET Entities, new \cap (parsed \ gone) = {},
           NEW i, i = Reindexed(gone, new)
    PROVE  IndexOK(i) /\ Complete(i, (parsed \ gone) \cup new) /\ HeldIn(i, lent)
  <1>1. PICK D : D = (DOMAIN index) \cup (UNION {KeysOf(e) : e \in new})
    OBVIOUS
  <1>2. /\ DOMAIN i = D
        /\ \A k \in D : i[k] = IF Having(k, new) = {} THEN Dying(Slab(k), gone)
                               ELSE Filled(Dying(Slab(k), gone), Having(k, new))
    BY <1>1 DEF Reindexed
  <1>3. D \subseteq Keys
    BY <1>1 DEF GraphInv, IndexOK, Keys
  <1>5. ASSUME NEW k \in D
        PROVE  /\ SlabOK(k, i[k]) /\ i[k].live = ((parsed \ gone) \cup new) \cap Indexed(k)
               /\ i[k].held \subseteq lent
    <2>1. PICK d : d = Dying(Slab(k), gone)
      OBVIOUS
    <2>2. SlabOK(k, d) /\ d.live = (parsed \cap Indexed(k)) \ gone /\ d.held \subseteq lent
      BY <1>3, <2>1, SlabThere, DyingOK
    <2>3. PICK here \in SUBSET Indexed(k) : here = Having(k, new) /\ here = new \cap Indexed(k)
      BY HavingFacts
    <2>4. CASE here = {}
      BY <1>2, <2>1, <2>2, <2>3, <2>4
    <2>5. CASE here # {}
      <3>1. here \cap d.live = {}
        BY <2>2, <2>3
      <3>2. SlabOK(k, Filled(d, here)) /\ Filled(d, here).live = d.live \cup here /\ Filled(d, here).held = d.held
        BY <2>2, <3>1, FilledOK
      <3>3. i[k] = Filled(d, here)
        BY <1>2, <2>1, <2>3, <2>5
      <3> QED
        BY <2>2, <2>3, <3>2, <3>3
    <2> QED
      BY <2>4, <2>5
  <1>6. ASSUME NEW k \in Keys, k \notin D
        PROVE  ((parsed \ gone) \cup new) \cap Indexed(k) = {}
    <2>1. parsed \cap Indexed(k) = {}
      BY <1>1, <1>6 DEF GraphInv, Complete, LiveIn
    <2>2. new \cap Indexed(k) = {}
      BY <1>1, <1>6 DEF Indexed, Having
    <2> QED
      BY <2>1, <2>2
  <1>7. IndexOK(i)
    BY <1>2, <1>3, <1>5 DEF IndexOK
  <1>8. Complete(i, (parsed \ gone) \cup new)
    BY <1>2, <1>5, <1>6 DEF Complete, LiveIn
  <1>9. HeldIn(i, lent)
    BY <1>2, <1>5 DEF HeldIn
  <1> QED
    BY <1>7, <1>8, <1>9

\* Sweeping slabs changes only what is to go.
LEMMA SweepOK ==
    ASSUME NEW i, NEW there, IndexOK(i), Complete(i, there), NEW S, HeldIn(i, S),
           NEW K, NEW without, there \cap without = {}, \A e \in without : KeysOf(e) \subseteq K,
           NEW j, DOMAIN j = DOMAIN i,
           \A k \in DOMAIN i : j[k] = IF k \in K THEN Swept(i[k], without) ELSE i[k]
    PROVE  IndexOK(j) /\ Complete(j, there) /\ HeldIn(j, S \ without)
  <1>1. DOMAIN j = DOMAIN i /\ DOMAIN i \subseteq Keys
    BY DEF IndexOK
  <1>2. ASSUME NEW k \in DOMAIN i
        PROVE  SlabOK(k, j[k]) /\ j[k].live = i[k].live /\ j[k].held \subseteq S \ without
    <2>1. SlabOK(k, i[k]) /\ i[k].live \cap without = {} /\ i[k].held \subseteq S /\ i[k].held \subseteq Indexed(k)
      BY <1>1, SlabFacts DEF IndexOK, Complete, LiveIn, HeldIn
    <2>2. CASE k \in K
      <3>1. j[k] = Swept(i[k], without)
        BY <2>2
      <3>2. /\ SlabOK(k, Swept(i[k], without)) /\ Swept(i[k], without).live = i[k].live \ without
            /\ Swept(i[k], without).held = i[k].held \ without
        BY <2>1, SweptOK
      <3> QED
        BY <2>1, <3>1, <3>2
    <2>3. CASE k \notin K
      <3>1. Indexed(k) \cap without = {}
        BY <2>3 DEF Indexed, Having
      <3> QED
        BY <2>1, <2>3, <3>1
    <2> QED
      BY <2>2, <2>3
  <1>3. IndexOK(j)
    BY <1>1, <1>2 DEF IndexOK
  <1>4. Complete(j, there)
    BY <1>1, <1>2 DEF Complete, LiveIn
  <1>5. HeldIn(j, S \ without)
    BY <1>1, <1>2 DEF HeldIn
  <1> QED
    BY <1>3, <1>4, <1>5

\* If nothing is to go, only the dead references do.
LEMMA SweepNone ==
    ASSUME NEW i, NEW there, IndexOK(i), Complete(i, there), NEW S, HeldIn(i, S), NEW K, NEW j,
           j = [k \in DOMAIN i |-> IF k \in K THEN Swept(i[k], {}) ELSE i[k]]
    PROVE  IndexOK(j) /\ Complete(j, there) /\ HeldIn(j, S)
  <1>1. PICK none : none = {}
    OBVIOUS
  <1>2. /\ there \cap none = {} /\ (\A e \in none : KeysOf(e) \subseteq K) /\ S \ none = S
        /\ DOMAIN j = DOMAIN i /\ \A k \in DOMAIN i : j[k] = IF k \in K THEN Swept(i[k], none) ELSE i[k]
    BY <1>1
  <1>3. IndexOK(j) /\ Complete(j, there) /\ HeldIn(j, S \ none)
    BY <1>2, SweepOK
  <1> QED
    BY <1>2, <1>3

\* The operations of GraphData keep it; what they do to what is known.
LEMMA GraphSame ==
    ASSUME GraphInv, UNCHANGED graph
    PROVE  GraphInv' /\ parsed' = parsed /\ cached' = cached /\ Known' = Known /\ lent' = lent
  BY DEF GraphInv, graph, Known

\* What each of the graph's operations does to what is known.
LEMMA GraphInsert ==
    ASSUME GraphInv, NEW t \in Tokens, insert(t), UNCHANGED <<parsed, index, lent>>
    PROVE  GraphInv' /\ parsed' = parsed /\ Known' = Known \cup {t}
  BY DEF GraphInv, insert, Known

\* A removal forgets the token, parsed or not.
LEMMA GraphRemove ==
    ASSUME GraphInv, NEW t \in Tokens, remove(t)
    PROVE  GraphInv' /\ parsed' = parsed \ {t} /\ Known' = Known \ {t} /\ lent' = lent
  <1>1. /\ cached' = cached \ {t} /\ parsed' = parsed \ {t} /\ index' = Reindexed({t}, {}) /\ lent' = lent
    BY DEF remove
  <1>2. PICK i : i = Reindexed({t}, {})
    OBVIOUS
  <1>3. IndexOK(i) /\ Complete(i, (parsed \ {t}) \cup {}) /\ HeldIn(i, lent)
    BY <1>2, ReindexedOK
  <1>4. IndexOK(index') /\ Complete(index', parsed') /\ HeldIn(index', lent')
    BY <1>1, <1>2, <1>3, (parsed \ {t}) \cup {} = parsed \ {t}
  <1>5. GraphInv'
    BY <1>1, <1>4 DEF GraphInv
  <1> QED
    BY <1>1, <1>5 DEF Known

\* A query parses what is waiting and drops what is no entity.
LEMMA GraphParse ==
    ASSUME GraphInv, NEW K, parse_and_retain(K)
    PROVE  /\ parsed' = Known \cap Entities /\ Known' = Known \cap Entities /\ cached' = {}
           /\ IndexOK(index') /\ Complete(index', parsed') /\ HeldIn(index', lent)
  <1>1. cached' = {} /\ parsed' = parsed \cup Unparsed
    BY DEF parse_and_retain
  <1>2. PICK i : i = Reindexed({}, Unparsed)
    OBVIOUS
  <1>3. Unparsed \subseteq Entities /\ Unparsed \cap (parsed \ {}) = {}
    BY DEF Unparsed
  <1>4. IndexOK(i) /\ Complete(i, (parsed \ {}) \cup Unparsed) /\ HeldIn(i, lent)
    BY <1>2, <1>3, ReindexedOK
  <1>5. index' = [j \in DOMAIN i |-> IF j \in K THEN Swept(i[j], {}) ELSE i[j]]
    BY <1>2 DEF parse_and_retain
  <1>6. IndexOK(index') /\ Complete(index', (parsed \ {}) \cup Unparsed) /\ HeldIn(index', lent)
    BY <1>4, <1>5, SweepNone
  <1>7. (parsed \ {}) \cup Unparsed = parsed'
    BY <1>1
  <1>8. parsed' = Known \cap Entities
    BY <1>1 DEF Unparsed, Known, GraphInv
  <1> QED
    BY <1>1, <1>6, <1>7, <1>8 DEF Known

\* And leaves alone what callers have.
LEMMA GraphVisit ==
    ASSUME GraphInv, NEW K, visit(K)
    PROVE  GraphInv' /\ parsed' = Known \cap Entities /\ Known' = Known \cap Entities /\ lent' = lent
  BY GraphParse DEF visit, GraphInv

\* A local entity is known without its token's round trip.
LEMMA GraphInsertLocal ==
    ASSUME GraphInv, NEW e \in Entities, insert_local(e)
    PROVE  GraphInv' /\ parsed' = parsed \cup {e} /\ Known' = Known \cup {e} /\ lent' = lent
  <1>1. /\ parsed' = parsed \cup {e} /\ index' = Reindexed({e}, {e}) /\ cached' = cached /\ lent' = lent
    BY DEF insert_local
  <1>2. PICK i : i = Reindexed({e}, {e})
    OBVIOUS
  <1>3. IndexOK(i) /\ Complete(i, (parsed \ {e}) \cup {e}) /\ HeldIn(i, lent)
    BY <1>2, ReindexedOK
  <1>4. IndexOK(index') /\ Complete(index', parsed') /\ HeldIn(index', lent')
    BY <1>1, <1>2, <1>3, (parsed \ {e}) \cup {e} = parsed \cup {e}
  <1>5. GraphInv'
    BY <1>1, <1>4 DEF GraphInv
  <1> QED
    BY <1>1, <1>5 DEF Known

\* And forgotten without it, whoever has its Arc.
LEMMA GraphRemoveLocal ==
    ASSUME GraphInv, NEW e \in Entities, remove_local(e)
    PROVE  GraphInv' /\ parsed' = parsed \ {e} /\ Known' = Known \ {e} /\ lent' = lent \ {e}
  <1>1. /\ cached' = cached \ {e} /\ parsed' = parsed \ {e} /\ lent' = lent \ {e}
    BY DEF remove_local
  <1>2. PICK i : i = Reindexed({e}, {})
    OBVIOUS
  <1>3. IndexOK(i) /\ Complete(i, (parsed \ {e}) \cup {}) /\ HeldIn(i, lent)
    BY <1>2, ReindexedOK
  <1>4. index' = [k \in DOMAIN i |-> IF k \in KeysOf(e) THEN Swept(i[k], {e}) ELSE i[k]]
    BY <1>2 DEF remove_local
  <1>5. PICK there : there = (parsed \ {e}) \cup {} /\ there = parsed'
    BY <1>1
  <1>6. there \cap {e} = {} /\ \A f \in {e} : KeysOf(f) \subseteq KeysOf(e)
    BY <1>5
  <1>7. IndexOK(index') /\ Complete(index', there) /\ HeldIn(index', lent \ {e})
    <2>1. IndexOK(i) /\ Complete(i, there) /\ HeldIn(i, lent)
      BY <1>3, <1>5
    <2>2. PICK K : K = KeysOf(e)
      OBVIOUS
    <2>3. PICK without : without = {e}
      OBVIOUS
    <2>4. /\ DOMAIN index' = DOMAIN i
          /\ \A k \in DOMAIN i : index'[k] = IF k \in K THEN Swept(i[k], without) ELSE i[k]
          /\ there \cap without = {} /\ \A f \in without : KeysOf(f) \subseteq K
      BY <1>4, <1>6, <2>2, <2>3
    <2>5. IndexOK(index') /\ Complete(index', there) /\ HeldIn(index', lent \ without)
      BY <2>1, <2>4, SweepOK
    <2> QED
      BY <2>3, <2>5
  <1>8. GraphInv'
    BY <1>1, <1>5, <1>7 DEF GraphInv
  <1> QED
    BY <1>1, <1>8 DEF Known

\* A caller drops its result.
LEMMA GraphGiveBack ==
    ASSUME GraphInv, give_back
    PROVE  GraphInv' /\ parsed' = parsed /\ Known' = Known /\ lent' = {}
  <1>1. lent' = {} /\ cached' = cached /\ parsed' = parsed /\ index' = [k \in DOMAIN index |-> Released(index[k])]
    BY DEF give_back
  <1>2. ASSUME NEW k \in DOMAIN index
        PROVE  SlabOK(k, index'[k]) /\ index'[k].live = index[k].live /\ index'[k].held = {}
    <2>1. SlabOK(k, index[k])
      BY DEF GraphInv, IndexOK
    <2> QED
      BY <1>1, <2>1, ReleasedOK
  <1>3. DOMAIN index' = DOMAIN index
    BY <1>1
  <1>4. IndexOK(index') /\ Complete(index', parsed') /\ HeldIn(index', lent')
    BY <1>1, <1>2, <1>3 DEF GraphInv, IndexOK, Complete, LiveIn, HeldIn
  <1>5. GraphInv'
    BY <1>1, <1>4 DEF GraphInv
  <1> QED
    BY <1>1, <1>5 DEF Known

-----------------------------------------------------------------------------
(* What a step leaves alone                                                *)

\* The order of the calls in a life.
LEMMA Positions ==
    ASSUME NEW e \in Local
    PROVE  /\ AddAt(e) \in 2..5 /\ DropAt(e) \in {4, 9} /\ RemoveAt(e) \in {5, 7} /\ EndAt(e) \in {7, 10}
           /\ AddAt(e) < DropAt(e) /\ AddAt(e) < RemoveAt(e) /\ DropAt(e) < EndAt(e)
           /\ AnnounceAt(e) = AddAt(e) + 1 /\ RemoveAt(e) # DropAt(e) /\ AnnounceAt(e) < DropAt(e)
           /\ RemoveAt(e) + 1 # DropAt(e)
           /\ e.kind = "Node" => e.kind \notin Matchable /\ AddAt(e) = 3 /\ DropAt(e) = 9 /\ RemoveAt(e) = 5
           /\ e.kind \in Matchable => e.kind # "Node" /\ AddAt(e) = 5 /\ DropAt(e) = 9 /\ RemoveAt(e) = 7
  <1>1. e.kind = "Node" \/ e.kind \in Matchable \/ e.kind \in Callable
    BY DEF Local
  <1> QED
    BY <1>1 DEF AddAt, AnnounceAt, RemoveAt, DropAt, EndAt, Matchable, Callable

\* A call moves its entity one step on.
LEMMA StepFacts ==
    ASSUME LifeInv, NEW e \in Local, NEW call, Step(e, call)
    PROVE  /\ At(e, call) /\ phase = "ready"
           /\ pc[e] \in 1..10 /\ pc[e] <= EndAt(e)
           /\ pc' \in [Local -> 1..10] /\ (\A f \in Local : pc'[f] <= EndAt(f))
           /\ pc'[e] = pc[e] + 1 /\ \A f \in Local : f # e => pc'[f] = pc[f]
  <1>1. /\ At(e, call) /\ phase = "ready" /\ pc' = [pc EXCEPT ![e] = @ + 1]
    BY DEF Step
  <1>2. pc[e] \in 1..10 /\ pc[e] <= EndAt(e)
    BY DEF LifeInv
  <1>3. pc[e] + 1 \in 1..10 /\ pc[e] + 1 <= EndAt(e)
    BY <1>1, <1>2, AtFacts
  <1>4. pc'[e] = pc[e] + 1 /\ \A f \in Local : f # e => pc'[f] = pc[f]
    BY <1>1 DEF LifeInv
  <1> QED
    BY <1>1, <1>2, <1>3, <1>4 DEF LifeInv

\* A step of an entity's life keeps it on its course.
LEMMA LifeStep ==
    ASSUME LifeInv, NEW e \in Local, NEW call, Step(e, call), UNCHANGED phase,
           existed' \in [Local -> BOOLEAN]
    PROVE  LifeInv'
  BY StepFacts DEF LifeInv

\* Every entity stays, or moves on from a call that is none of the given.
Stays(f) == pc'[f] = pc[f]
MovesFrom(f, calls) == Stays(f) \/ (pc'[f] = pc[f] + 1 /\ pc[f] \notin calls)

\* Only declaring and undeclaring matter to the tokens.
LEMMA TokenKeep ==
    ASSUME LifeInv, TokenInv, UNCHANGED <<declared, wire, replies, late>>,
           \A f \in Local : MovesFrom(f, {1, DropAt(f)})
    PROVE  TokenInv'
  <1>1. ASSUME NEW f \in Local
        PROVE  /\ f \in declared' <=> pc'[f] > 1 /\ pc'[f] <= DropAt(f)
               /\ f \in declared' => \A i \in 1..Len(wire'[f]) : wire'[f][i] = "put"
               /\ pc'[f] = 1 => wire'[f] = <<>>
    <2>1. pc[f] \in 1..10 /\ DropAt(f) \in {4, 9}
      BY Positions DEF LifeInv
    <2>2. /\ f \in declared <=> pc[f] > 1 /\ pc[f] <= DropAt(f)
          /\ f \in declared => \A i \in 1..Len(wire[f]) : wire[f][i] = "put"
          /\ pc[f] = 1 => wire[f] = <<>>
      BY DEF TokenInv
    <2>3. pc'[f] = pc[f] \/ (pc'[f] = pc[f] + 1 /\ pc[f] # 1 /\ pc[f] # DropAt(f))
      BY DEF MovesFrom, Stays
    <2> QED
      BY <2>1, <2>2, <2>3
  <1> QED
    BY <1>1 DEF TokenInv

\* Only what is known, and adding a local entity, matters to the reports.
LEMMA ReportKeep ==
    ASSUME LifeInv, ReportInv, UNCHANGED <<declared, wire, late>>,
           \A e \in Entities : e \in Known' <=> e \in Known,
           \A e \in Local : e \in parsed => e \in parsed',
           \A f \in Local : MovesFrom(f, {AddAt(f)})
    PROVE  ReportInv'
  <1>1. ASSUME NEW f \in Local, f \in declared, AddAt(f) < pc'[f], pc'[f] <= RemoveAt(f)
        PROVE  f \in parsed'
    <2>1. pc[f] \in 1..10 /\ AddAt(f) \in 2..5 /\ RemoveAt(f) \in {5, 7}
      BY Positions DEF LifeInv
    <2>2. pc'[f] = pc[f] \/ (pc'[f] = pc[f] + 1 /\ pc[f] # AddAt(f))
      BY DEF MovesFrom, Stays
    <2>3. AddAt(f) < pc[f] /\ pc[f] <= RemoveAt(f)
      BY <1>1, <2>1, <2>2
    <2> QED
      BY <1>1, <2>3 DEF ReportInv
  <1> QED
    BY <1>1 DEF ReportInv

\* Counts change, and a graph change finds no guard condition destroyed.
LEMMA EventCount ==
    ASSUME LifeInv, EventInv, UNCHANGED <<registered, guards, freed>>,
           incompatible' \in [Endpoints -> Nat],
           dangling' = dangling \/ dangling' = (dangling \/ guards \cap freed # {}),
           matched' \in [Endpoints -> Int],
           \A f \in Endpoints : MovesFrom(f, {2}),
           \A f \in LocalNodes : MovesFrom(f, {7})
    PROVE  EventInv'
  <1>0. Endpoints \subseteq Local /\ LocalNodes \subseteq Local
    BY DEF Endpoints, LocalNodes
  <1>1. ASSUME NEW e \in guards PROVE e \notin freed
    BY <1>0 DEF EventInv, LifeInv
  <1>2. ~dangling'
    BY <1>1 DEF EventInv
  <1>3. ASSUME NEW e \in Endpoints, pc'[e] > 2 PROVE e \in registered
    BY <1>0, <1>3 DEF EventInv, LifeInv, MovesFrom, Stays
  <1>4. ASSUME NEW e \in guards PROVE pc'[e] > 2 /\ pc'[e] <= 7
    BY <1>0 DEF EventInv, LifeInv, MovesFrom, Stays
  <1>5. ASSUME NEW e \in freed PROVE pc'[e] > 8
    BY <1>0 DEF EventInv, LifeInv, MovesFrom, Stays
  <1> QED
    BY <1>2, <1>3, <1>4, <1>5 DEF EventInv

\* Only registering and unregistering matters to the managers.
LEMMA EventKeep ==
    ASSUME LifeInv, EventInv, UNCHANGED <<registered, incompatible, guards, freed>>,
           dangling' = dangling \/ dangling' = (dangling \/ guards \cap freed # {}),
           matched' \in [Endpoints -> Int],
           \A f \in Endpoints : MovesFrom(f, {2}),
           \A f \in LocalNodes : MovesFrom(f, {7})
    PROVE  EventInv'
  <1>1. incompatible' \in [Endpoints -> Nat]
    BY DEF EventInv
  <1> QED
    BY <1>1, EventCount

\* Whoever stays where it is stays reported as it was.
LEMMA OnceKeep ==
    ASSUME LifeInv, OnceInv, UNCHANGED incompatible, \A f \in Local : MovesFrom(f, {})
    PROVE  OnceInv'
  <1>0. Endpoints \subseteq Local
    BY DEF Endpoints
  <1>1. SUFFICES ASSUME Serialised, NEW e \in Endpoints, NEW f \in Endpoints, Pair(e, f)
                 PROVE  /\ incompatible'[e] = incompatible'[f] /\ incompatible'[e] <= 1
                        /\ pc'[e] <= 4 \/ pc'[f] <= 4 => incompatible'[e] = 0
    BY DEF OnceInv, Pair, Incompatible
  <1>2. /\ incompatible[e] = incompatible[f] /\ incompatible[e] <= 1
        /\ pc[e] <= 4 \/ pc[f] <= 4 => incompatible[e] = 0
    BY <1>1 DEF OnceInv
  <1>3. (pc'[e] <= 4 => pc[e] <= 4) /\ (pc'[f] <= 4 => pc[f] <= 4)
    BY <1>0 DEF LifeInv, MovesFrom, Stays
  <1> QED
    BY <1>2, <1>3

\* A graph change counts, and triggers the guard conditions.
LEMMA TriggerFacts ==
    ASSUME EventInv, NEW e, NEW change \in Int, trigger_graph_change(e, change)
    PROVE  /\ UNCHANGED <<registered, incompatible, guards, freed>>
           /\ dangling' = (dangling \/ guards \cap freed # {})
           /\ matched' \in [Endpoints -> Int]
  BY DEF trigger_graph_change, EventInv

-----------------------------------------------------------------------------
(* Tokens and samples                                                      *)

\* A sample is added; an old one is handed out.
LEMMA WireAppend ==
    ASSUME NEW q \in Seq({"put", "delete"}), NEW x \in {"put", "delete"}
    PROVE  /\ Append(q, x) \in Seq({"put", "delete"}) /\ Append(q, x) # <<>>
           /\ Append(q, x)[Len(Append(q, x))] = x
           /\ q = <<>> /\ x = "put" => \A i \in 1..Len(Append(q, x)) : Append(q, x)[i] = "put"
  <1>1. Append(q, x) \in Seq({"put", "delete"})
    OBVIOUS
  <1>2. PICK a \in Seq({"put", "delete"}) : a = Append(q, x)
    BY <1>1
  <1>3. Len(q) \in Nat /\ Len(a) = Len(q) + 1 /\ a[Len(q) + 1] = x
    BY <1>2
  <1>4. q = <<>> => Len(q) = 0
    OBVIOUS
  <1>5. a # <<>> /\ (q = <<>> => \A i \in 1..Len(a) : i = Len(q) + 1)
    BY <1>3, <1>4
  <1> QED
    BY <1>2, <1>3, <1>5

\* Delivering the first sample of several leaves the last one.
LEMMA WireTail ==
    ASSUME NEW q \in Seq({"put", "delete"}), q # <<>>
    PROVE  /\ Tail(q) \in Seq({"put", "delete"}) /\ Head(q) \in {"put", "delete"}
           /\ Tail(q) # <<>> => Tail(q)[Len(Tail(q))] = q[Len(q)]
           /\ Tail(q) = <<>> => Head(q) = q[Len(q)]
           /\ (\A i \in 1..Len(q) : q[i] = "put") =>
                 Head(q) = "put" /\ \A i \in 1..Len(Tail(q)) : Tail(q)[i] = "put"
  <1>1. /\ Tail(q) \in Seq({"put", "delete"}) /\ Head(q) \in {"put", "delete"} /\ Head(q) = q[1]
        /\ Len(q) \in Nat /\ Len(q) > 0
    OBVIOUS
  <1>2. PICK t \in Seq({"put", "delete"}) : t = Tail(q)
    BY <1>1
  <1>3. Len(t) \in Nat /\ Len(t) = Len(q) - 1 /\ \A i \in 1..Len(t) : t[i] = q[i + 1]
    BY <1>1, <1>2
  <1>4. (t = <<>> => Len(t) = 0) /\ (t # <<>> => Len(t) > 0)
    OBVIOUS
  <1>5. t # <<>> => t[Len(t)] = q[Len(q)]
    <2>1. ASSUME t # <<>> PROVE t[Len(t)] = q[Len(q)]
      <3>1. Len(t) \in 1..Len(t) /\ Len(t) + 1 = Len(q)
        BY <1>1, <1>3, <1>4, <2>1
      <3> QED
        BY <1>3, <3>1
    <2> QED
      BY <2>1
  <1>6. t = <<>> => Head(q) = q[Len(q)]
    <2>1. ASSUME t = <<>> PROVE Len(q) = 1
      <3>1. Len(t) = 0
        BY <1>4, <2>1
      <3> QED
        BY <1>1, <1>3, <3>1
    <2> QED
      BY <1>1, <2>1
  <1>7. ASSUME \A i \in 1..Len(q) : q[i] = "put"
        PROVE  Head(q) = "put" /\ \A i \in 1..Len(t) : t[i] = "put"
    <2>1. 1 \in 1..Len(q) /\ \A i \in 1..Len(t) : i + 1 \in 1..Len(q)
      BY <1>1, <1>3
    <2> QED
      BY <1>1, <1>3, <1>7, <2>1
  <1> QED
    BY <1>1, <1>2, <1>5, <1>6, <1>7

\* The last sample on its way says whether the token is declared.
Last(t) ==
    wire[t] # <<>> => wire[t][Len(wire[t])] = IF t \in declared THEN "put" ELSE "delete"
OwnToken(e) ==
    /\ e \in declared <=> pc[e] > 1 /\ pc[e] <= DropAt(e)
    /\ e \in declared => \A i \in 1..Len(wire[e]) : wire[e][i] = "put"
    /\ pc[e] = 1 => wire[e] = <<>>

\* TokenInv by its parts, before and after a step.
LEMMA TokenParts ==
    /\ TokenInv <=> /\ declared \subseteq Tokens /\ replies \subseteq Remote /\ late \subseteq Remote
                    /\ wire \in [Tokens -> Seq({"put", "delete"})]
                    /\ \A t \in Tokens : Last(t)
                    /\ \A e \in Local : OwnToken(e)
    /\ TokenInv' <=> /\ declared' \subseteq Tokens /\ replies' \subseteq Remote /\ late' \subseteq Remote
                     /\ wire' \in [Tokens -> Seq({"put", "delete"})]
                     /\ \A t \in Tokens : Last(t)'
                     /\ \A e \in Local : OwnToken(e)'
  BY DEF TokenInv, Last, OwnToken

\* Another token does not matter to a token.
LEMMA TokenElse ==
    ASSUME NEW t, wire'[t] = wire[t], t \in declared' <=> t \in declared
    PROVE  /\ Last(t) => Last(t)'
           /\ OwnToken(t) /\ pc'[t] = pc[t] => OwnToken(t)'
  BY DEF Last, OwnToken

\* Local entities have tokens, and are nobody else's.
LEMMA LocalTokens == Local \subseteq Entities /\ Local \subseteq Tokens /\ Entities \subseteq Tokens
                     /\ Entities \ Local \subseteq Remote /\ Local \cap Remote = {}
  BY DEF Local, Tokens, Remote

\* Another session's token comes or goes.
LEMMA RemoteKeeps ==
    ASSUME IInv, RemoteChange
    PROVE  IInv'
  <1>1. GraphInv /\ LifeInv /\ TokenInv /\ ReportInv /\ EventInv /\ OnceInv
    BY DEF IInv
  <1>2. UNCHANGED <<graph, pc, existed, events, late>>
    BY DEF RemoteChange
  <1>3. PICK t \in Remote : \/ t \notin declared /\ Declare(t)
                            \/ t \in declared /\ Undeclare(t)
    BY DEF RemoteChange
  <1>4. PICK x \in {"put", "delete"} :
            /\ wire' = [wire EXCEPT ![t] = Append(@, x)]
            /\ declared' = IF x = "put" THEN declared \cup {t} ELSE declared \ {t}
            /\ UNCHANGED <<replies, phase>>
    <2>1. CASE Declare(t)
      BY <2>1 DEF Declare
    <2>2. CASE Undeclare(t)
      BY <2>2 DEF Undeclare
    <2> QED
      BY <1>3, <2>1, <2>2
  <1>5. t \in Tokens /\ t \notin Local /\ wire[t] \in Seq({"put", "delete"})
    BY <1>1 DEF Remote, TokenInv
  <1>6. /\ Append(wire[t], x) \in Seq({"put", "delete"}) /\ Append(wire[t], x) # <<>>
        /\ Append(wire[t], x)[Len(Append(wire[t], x))] = x
    BY <1>5, WireAppend
  <1>7. /\ wire'[t] = Append(wire[t], x) /\ wire' \in [Tokens -> Seq({"put", "delete"})]
        /\ \A u \in Tokens : u # t => wire'[u] = wire[u] /\ (u \in declared' <=> u \in declared)
        /\ declared' \subseteq Tokens /\ (t \in declared' <=> x = "put")
    BY <1>1, <1>4, <1>5, <1>6 DEF TokenInv
  <1>8. GraphInv' /\ Known' = Known /\ parsed' = parsed
    BY <1>1, <1>2, GraphSame
  <1>9. LifeInv'
    BY <1>1, <1>2, <1>4 DEF LifeInv
  <1>10. TokenInv'
    <2>1. \A u \in Tokens : Last(u)'
      <3>1. ASSUME NEW u \in Tokens, u # t PROVE Last(u)'
        BY <1>1, <1>7, <3>1, TokenElse, TokenParts
      <3>2. Last(t)'
        <4>1. wire'[t][Len(wire'[t])] = IF t \in declared' THEN "put" ELSE "delete"
          BY <1>6, <1>7
        <4> QED
          BY <4>1 DEF Last
      <3> QED
        BY <3>1, <3>2
    <2>2. ASSUME NEW e \in Local PROVE OwnToken(e)'
      <3>1. e \in Tokens /\ e # t
        BY <1>5, LocalTokens
      <3> QED
        BY <1>1, <1>2, <1>7, <3>1, TokenElse, TokenParts
    <2> QED
      BY <1>1, <1>2, <1>4, <1>7, <2>1, <2>2, TokenParts
  <1>11. ReportInv'
    <2>1. wire'[t] # <<>>
      BY <1>6, <1>7
    <2>2. \A e \in Entities : e # t => wire'[e] = wire[e] /\ (e \in declared' <=> e \in declared)
      BY <1>7, LocalTokens
    <2>3. \A e \in Local : e # t /\ e \in Entities
      BY <1>5, LocalTokens
    <2>4. \A e \in Entities \ late' : e \notin declared' /\ wire'[e] = <<>> => e \notin Known'
      BY <1>1, <1>2, <1>8, <2>1, <2>2 DEF ReportInv
    <2>5. \A e \in Entities \ Local : e \in declared' /\ wire'[e] = <<>> => e \in Known'
      BY <1>1, <1>8, <2>1, <2>2 DEF ReportInv
    <2>6. \A e \in Local : e \in declared' /\ AddAt(e) < pc'[e] /\ pc'[e] <= RemoveAt(e) => e \in parsed'
      BY <1>1, <1>2, <1>8, <2>2, <2>3 DEF ReportInv
    <2> QED
      BY <2>4, <2>5, <2>6 DEF ReportInv
  <1>12. \A f \in Local : \A calls : MovesFrom(f, calls)
    BY <1>2 DEF MovesFrom, Stays
  <1>13. EventInv'
    BY <1>1, <1>2 DEF EventInv, events
  <1>14. OnceInv'
    BY <1>1, <1>2, <1>12, OnceKeep DEF events
  <1> QED
    BY <1>8, <1>9, <1>10, <1>11, <1>13, <1>14 DEF IInv

\* A sample reaches the subscriber's callback.
LEMMA SampleKeeps ==
    ASSUME IInv, OnSample
    PROVE  IInv'
  <1>1. GraphInv /\ LifeInv /\ TokenInv /\ ReportInv /\ EventInv /\ OnceInv
    BY DEF IInv
  <1>2. PICK t \in Tokens :
        /\ wire[t] # <<>>
        /\ wire' = [wire EXCEPT ![t] = Tail(@)]
        /\ IF Head(wire[t]) = "put" THEN OnPut(t) ELSE OnDelete(t)
        /\ UNCHANGED <<declared, times, replies, phase, pc, existed, late>>
    BY DEF OnSample
  <1>3. PICK q \in Seq({"put", "delete"}) : q = wire[t]
    BY <1>1 DEF TokenInv
  <1>4. /\ Tail(q) \in Seq({"put", "delete"}) /\ Head(q) \in {"put", "delete"}
        /\ Tail(q) # <<>> => Tail(q)[Len(Tail(q))] = q[Len(q)]
        /\ Tail(q) = <<>> => Head(q) = q[Len(q)]
        /\ (\A i \in 1..Len(q) : q[i] = "put") =>
              Head(q) = "put" /\ \A i \in 1..Len(Tail(q)) : Tail(q)[i] = "put"
    BY <1>2, <1>3, WireTail
  <1>5. /\ wire'[t] = Tail(q) /\ wire' \in [Tokens -> Seq({"put", "delete"})]
        /\ \A u \in Tokens : u # t => wire'[u] = wire[u]
    BY <1>1, <1>2, <1>3, <1>4 DEF TokenInv
  <1>6. q[Len(q)] = IF t \in declared THEN "put" ELSE "delete"
    BY <1>1, <1>2, <1>3 DEF TokenInv
  <1>7. LifeInv'
    BY <1>1, <1>2 DEF LifeInv
  <1>8. TokenInv'
    <2>1. ASSUME NEW u \in Tokens PROVE Last(u)'
      <3>1. CASE u # t
        BY <1>1, <1>2, <1>5, <3>1, TokenElse, TokenParts
      <3>2. CASE u = t
        BY <1>2, <1>4, <1>5, <1>6, <3>2 DEF Last
      <3> QED
        BY <3>1, <3>2
    <2>2. ASSUME NEW e \in Local PROVE OwnToken(e)'
      <3>1. CASE e # t
        <4>1. wire'[e] = wire[e]
          BY <1>5, <3>1, LocalTokens
        <4> QED
          BY <1>1, <1>2, <4>1, TokenElse, TokenParts
      <3>2. CASE e = t
        <4>1. OwnToken(e)
          BY <1>1, TokenParts
        <4> QED
          BY <1>2, <1>3, <1>4, <1>5, <3>2, <4>1 DEF OwnToken
      <3> QED
        BY <3>1, <3>2
    <2> QED
      BY <1>1, <1>2, <1>5, <2>1, <2>2, TokenParts
  <1>9. \A e \in Entities : e # t => wire'[e] = wire[e]
    BY <1>5, LocalTokens
  <1>10. GraphInv' /\ ReportInv'
    <2>1. CASE Head(q) = "put"
      <3>1. OnPut(t)
        BY <1>2, <1>3, <2>1
      <3>2. GraphInv' /\ parsed' = parsed /\ Known' = Known \cup {t}
        BY <1>1, <3>1, GraphInsert DEF OnPut
      <3>3. \A e \in Entities \ late' : e \notin declared' /\ wire'[e] = <<>> => e \notin Known'
        BY <1>1, <1>2, <1>4, <1>5, <1>6, <1>9, <2>1, <3>2 DEF ReportInv
      <3>4. \A e \in Entities \ Local : e \in declared' /\ wire'[e] = <<>> => e \in Known'
        BY <1>1, <1>2, <1>9, <3>2 DEF ReportInv
      <3>5. \A e \in Local : e \in declared' /\ AddAt(e) < pc'[e] /\ pc'[e] <= RemoveAt(e) => e \in parsed'
        BY <1>1, <1>2, <3>2 DEF ReportInv
      <3> QED
        BY <3>2, <3>3, <3>4, <3>5 DEF ReportInv
    <2>2. CASE Head(q) # "put"
      <3>1. OnDelete(t)
        BY <1>2, <1>3, <2>2
      <3>2. GraphInv' /\ parsed' = parsed \ {t} /\ Known' = Known \ {t}
        BY <1>1, <3>1, GraphRemove DEF OnDelete
      <3>3. \A e \in Entities \ late' : e \notin declared' /\ wire'[e] = <<>> => e \notin Known'
        BY <1>1, <1>2, <1>9, <3>2 DEF ReportInv
      <3>4. \A e \in Entities \ Local : e \in declared' /\ wire'[e] = <<>> => e \in Known'
        BY <1>1, <1>2, <1>4, <1>5, <1>6, <1>9, <2>2, <3>2 DEF ReportInv
      <3>5. ASSUME NEW e \in Local, e \in declared PROVE e # t
        <4>1. \A i \in 1..Len(wire[e]) : wire[e][i] = "put"
          BY <1>1, <3>5 DEF TokenInv
        <4> QED
          BY <1>3, <1>4, <2>2, <4>1
      <3>6. \A e \in Local : e \in declared' /\ AddAt(e) < pc'[e] /\ pc'[e] <= RemoveAt(e) => e \in parsed'
        BY <1>1, <1>2, <3>2, <3>5 DEF ReportInv
      <3> QED
        BY <3>2, <3>3, <3>4, <3>6 DEF ReportInv
    <2> QED
      BY <2>1, <2>2
  <1>11. \A f \in Local : \A calls : MovesFrom(f, calls)
    BY <1>2 DEF MovesFrom, Stays
  <1>12. EventInv' /\ incompatible' = incompatible
    <2>1. \/ UNCHANGED events
          \/ \E change \in {1, -1} : trigger_graph_change(t, change)
      BY <1>2 DEF OnPut, OnDelete
    <2>2. CASE UNCHANGED events
      BY <1>1, <1>2, <2>2 DEF EventInv, events
    <2>3. ASSUME NEW change \in {1, -1}, trigger_graph_change(t, change)
          PROVE  EventInv' /\ incompatible' = incompatible
      <3>1. change \in Int
        OBVIOUS
      <3>2. Endpoints \subseteq Local /\ LocalNodes \subseteq Local
        BY DEF Endpoints, LocalNodes
      <3> QED
        BY <1>1, <1>11, <2>3, <3>1, <3>2, TriggerFacts, EventKeep
    <2> QED
      BY <2>1, <2>2, <2>3
  <1>13. OnceInv'
    BY <1>1, <1>11, <1>12, OnceKeep
  <1> QED
    BY <1>7, <1>8, <1>10, <1>12, <1>13 DEF IInv

\* The initial query of Graph::new.
LEMMA QueryKeeps ==
    ASSUME IInv, StartQuery \/ OnReply \/ QueryEnds
    PROVE  IInv'
  <1>1. GraphInv /\ LifeInv /\ TokenInv /\ ReportInv /\ EventInv /\ OnceInv
    BY DEF IInv
  <1>2. UNCHANGED <<declared, wire, pc, existed, events, parsed, index, lent>>
    BY DEF StartQuery, OnReply, QueryEnds, graph
  <1>3. \A f \in Local : \A calls : MovesFrom(f, calls)
    BY <1>2 DEF MovesFrom, Stays
  <1>4. EventInv' /\ OnceInv'
    BY <1>1, <1>2, <1>3, OnceKeep DEF EventInv, events
  <1>5. \A t \in Tokens : Last(t)'
    BY <1>1, <1>2, TokenElse, TokenParts
  <1>6. \A e \in Local : OwnToken(e)'
    BY <1>1, <1>2, TokenElse, TokenParts
  <1>7. CASE StartQuery \/ QueryEnds
    <2>1. UNCHANGED <<graph, late>> /\ replies' \subseteq Remote
      <3>1. CASE QueryEnds
        BY <3>1 DEF QueryEnds
      <3>2. CASE StartQuery
        <4>1. \A e \in Local : e \notin declared
          BY <1>1, <3>2 DEF StartQuery, LifeInv, TokenInv
        <4> QED
          BY <1>1, <3>2, <4>1 DEF StartQuery, TokenInv, Remote
      <3> QED
        BY <1>7, <3>1, <3>2
    <2>2. LifeInv'
      BY <1>1, <1>2, <1>7 DEF LifeInv, StartQuery, QueryEnds
    <2>3. GraphInv' /\ Known' = Known /\ parsed' = parsed
      BY <1>1, <2>1, GraphSame
    <2>4. TokenInv'
      BY <1>1, <1>2, <1>5, <1>6, <2>1, TokenParts
    <2>5. ReportInv'
      BY <1>1, <1>2, <1>3, <2>1, <2>3, ReportKeep
    <2> QED
      BY <1>4, <2>2, <2>3, <2>4, <2>5 DEF IInv
  <1>8. CASE OnReply
    <2>1. PICK t \in replies :
            /\ replies' = replies \ {t}
            /\ IF t \in Entities \ Local
               THEN /\ insert(t)
                    /\ late' = IF t \notin declared /\ wire[t] = <<>> THEN late \cup {t} ELSE late
               ELSE UNCHANGED <<cached, late>>
            /\ phase' = phase
      BY <1>8 DEF OnReply
    <2>2. LifeInv'
      BY <1>1, <1>2, <2>1 DEF LifeInv
    <2>3. t \in Remote /\ t \in Tokens
      BY <1>1 DEF TokenInv, Remote
    <2>4. TokenInv'
      BY <1>1, <1>2, <1>5, <1>6, <2>1, <2>3, TokenParts
    <2>5. CASE t \in Entities \ Local
      <3>1. GraphInv' /\ parsed' = parsed /\ Known' = Known \cup {t}
        BY <1>1, <1>2, <2>1, <2>3, <2>5, GraphInsert
      <3>2. \A e \in Entities \ late' : e \notin declared' /\ wire'[e] = <<>> => e \notin Known'
        BY <1>1, <1>2, <2>1, <2>5, <3>1 DEF ReportInv
      <3>3. \A e \in Entities \ Local : e \in declared' /\ wire'[e] = <<>> => e \in Known'
        BY <1>1, <1>2, <3>1 DEF ReportInv
      <3>4. \A e \in Local : e \in declared' /\ AddAt(e) < pc'[e] /\ pc'[e] <= RemoveAt(e) => e \in parsed'
        BY <1>1, <1>2, <3>1 DEF ReportInv
      <3>5. ReportInv'
        BY <3>2, <3>3, <3>4 DEF ReportInv
      <3> QED
        BY <1>4, <2>2, <2>4, <3>1, <3>5 DEF IInv
    <2>6. CASE t \notin Entities \ Local
      <3>1. UNCHANGED <<graph, late>>
        BY <1>2, <2>1, <2>6 DEF graph
      <3>2. GraphInv' /\ Known' = Known /\ parsed' = parsed
        BY <1>1, <3>1, GraphSame
      <3>3. ReportInv'
        BY <1>1, <1>2, <1>3, <3>1, <3>2, ReportKeep
      <3> QED
        BY <1>4, <2>2, <2>4, <3>2, <3>3 DEF IInv
    <2> QED
      BY <2>5, <2>6
  <1> QED
    BY <1>7, <1>8

-----------------------------------------------------------------------------
(* The session's own entities                                              *)

\* An entity that makes a call moves on from it, and the others stay.
LEMMA Moves ==
    ASSUME LifeInv, NEW e \in Local, NEW call, Step(e, call)
    PROVE  /\ \A f \in Local : MovesFrom(f, {})
           /\ call # "add" => \A f \in Local : MovesFrom(f, {AddAt(f)})
           /\ call \notin {"build", "drop"} => \A f \in Local : MovesFrom(f, {1, DropAt(f)})
           /\ call # "register" => \A f \in Endpoints : MovesFrom(f, {2})
           /\ call # "unguard" => \A f \in LocalNodes : MovesFrom(f, {7})
  <1>1. /\ At(e, call) /\ pc[e] \in 1..10 /\ pc[e] <= EndAt(e)
        /\ pc'[e] = pc[e] + 1 /\ \A f \in Local : f # e => pc'[f] = pc[f]
    BY StepFacts
  <1>2. \A other : At(e, other) => other = call
    BY <1>1 DEF At
  <1>3. /\ call # "add" => pc[e] # AddAt(e)
        /\ call # "build" => pc[e] # 1
        /\ call # "drop" => pc[e] # DropAt(e)
        /\ call # "register" /\ e \in Endpoints => pc[e] # 2
        /\ call # "unguard" /\ e \in LocalNodes => pc[e] # 7
    BY <1>1, <1>2, AtFacts DEF Endpoints, LocalNodes
  <1>4. Endpoints \subseteq Local /\ LocalNodes \subseteq Local
    BY DEF Endpoints, LocalNodes
  <1>5. \A f \in Local : MovesFrom(f, {})
    BY <1>1 DEF MovesFrom, Stays
  <1>6. call # "add" => \A f \in Local : MovesFrom(f, {AddAt(f)})
    BY <1>1, <1>3 DEF MovesFrom, Stays
  <1>7. call \notin {"build", "drop"} => \A f \in Local : MovesFrom(f, {1, DropAt(f)})
    BY <1>1, <1>3 DEF MovesFrom, Stays
  <1>8. call # "register" => \A f \in Endpoints : MovesFrom(f, {2})
    BY <1>1, <1>3, <1>4 DEF MovesFrom, Stays
  <1>9. call # "unguard" => \A f \in LocalNodes : MovesFrom(f, {7})
    BY <1>1, <1>3, <1>4 DEF MovesFrom, Stays
  <1> QED
    BY <1>5, <1>6, <1>7, <1>8, <1>9

\* A call that neither declares nor drops the token.
LEMMA QuietCall ==
    ASSUME IInv, NEW e \in Local, NEW call, Step(e, call), call \notin {"build", "drop"},
           UNCHANGED <<env, late>>, existed' \in [Local -> BOOLEAN]
    PROVE  LifeInv' /\ TokenInv'
  <1>1. LifeInv /\ TokenInv /\ UNCHANGED <<declared, wire, replies, late, phase>>
    BY DEF IInv, env
  <1>2. \A f \in Local : MovesFrom(f, {1, DropAt(f)})
    BY <1>1, Moves
  <1> QED
    BY <1>1, <1>2, LifeStep, TokenKeep

\* A guard condition is registered, unregistered, destroyed; callbacks are
\* registered; a change is announced.
LEMMA GuardKeeps ==
    ASSUME IInv, NEW e \in Local, Guard(e) \/ Unguard(e) \/ Free(e) \/ Register(e)
    PROVE  IInv'
  <1>1. GraphInv /\ LifeInv /\ TokenInv /\ ReportInv /\ EventInv /\ OnceInv
    BY DEF IInv
  <1>2. UNCHANGED <<graph, env, existed, matched, incompatible, dangling, late>>
    BY DEF Guard, Unguard, Free, Register
  <1>3. PICK call \in {"guard", "unguard", "free", "register"} :
            /\ Step(e, call)
            /\ guards' = IF call = "guard" THEN guards \cup {e} ELSE
                         IF call = "unguard" THEN guards \ {e} ELSE guards
            /\ freed' = IF call = "free" THEN freed \cup {e} ELSE freed
            /\ registered' = IF call = "register" THEN registered \cup {e} ELSE registered
    <2>1. CASE Guard(e)
      BY <2>1 DEF Guard
    <2>2. CASE Unguard(e)
      BY <2>2 DEF Unguard
    <2>3. CASE Free(e)
      BY <2>3 DEF Free
    <2>4. CASE Register(e)
      BY <2>4 DEF Register
    <2> QED
      BY <2>1, <2>2, <2>3, <2>4
  <1>4. existed' \in [Local -> BOOLEAN]
    BY <1>1, <1>2 DEF LifeInv
  <1>5. LifeInv' /\ TokenInv'
    BY <1>2, <1>3, <1>4, QuietCall
  <1>6. GraphInv' /\ parsed' = parsed /\ Known' = Known
    BY <1>1, <1>2, GraphSame
  <1>7. (\A f \in Local : MovesFrom(f, {AddAt(f)})) /\ \A f \in Local : MovesFrom(f, {})
    BY <1>1, <1>3, Moves
  <1>8. ReportInv'
    BY <1>1, <1>2, <1>6, <1>7, ReportKeep DEF env
  <1>9. OnceInv'
    BY <1>1, <1>2, <1>7, OnceKeep
  <1>10. /\ pc[e] \in 1..10 /\ pc'[e] = pc[e] + 1 /\ \A f \in Local : f # e => pc'[f] = pc[f]
         /\ At(e, call) /\ pc[e] <= EndAt(e)
    BY <1>1, <1>3, StepFacts
  <1>11. /\ call = "guard" => e.kind = "Node" /\ pc[e] = 2
         /\ call = "unguard" => e.kind = "Node" /\ pc[e] = 7
         /\ call = "free" => e.kind = "Node" /\ pc[e] = 8
         /\ call = "register" => e.kind \in Matchable /\ pc[e] = 2
    BY <1>10, AtFacts
  <1>12. /\ registered' \subseteq Endpoints /\ guards' \subseteq LocalNodes /\ freed' \subseteq LocalNodes
    BY <1>1, <1>3, <1>11 DEF EventInv, Endpoints, LocalNodes
  <1>13. Endpoints \subseteq Local /\ LocalNodes \subseteq Local /\ \A f \in LocalNodes : f \notin Endpoints
    BY DEF Endpoints, LocalNodes, Matchable
  <1>14. ASSUME NEW f \in Endpoints, pc'[f] > 2 PROVE f \in registered'
    <2>1. f \in Local /\ pc[f] \in 1..10 /\ (pc[f] > 2 => f \in registered)
      BY <1>1, <1>13 DEF EventInv, LifeInv
    <2>2. CASE f # e
      BY <1>3, <1>10, <1>14, <2>1, <2>2
    <2>3. CASE f = e
      <3>1. call = "register"
        BY <1>3, <1>11, <1>13, <2>3 DEF Endpoints, Matchable
      <3> QED
        BY <1>3, <2>3, <3>1
    <2> QED
      BY <2>2, <2>3
  <1>15. ASSUME NEW f \in guards' PROVE pc'[f] > 2 /\ pc'[f] <= 7
    <2>1. f \in Local /\ pc[f] \in 1..10 /\ (f \in guards => pc[f] > 2 /\ pc[f] <= 7)
          /\ (f \in freed => pc[f] > 8) /\ f \in LocalNodes
      BY <1>1, <1>12, <1>13 DEF EventInv, LifeInv
    <2>2. CASE f # e
      BY <1>3, <1>10, <1>15, <2>1, <2>2
    <2>3. CASE f = e
      <3>1. call # "unguard" /\ call # "register"
        BY <1>3, <1>11, <1>13, <1>15, <2>1, <2>3 DEF LocalNodes, Matchable
      <3>2. CASE call = "guard"
        BY <1>10, <1>11, <2>3, <3>2
      <3>3. CASE call = "free"
        BY <1>3, <1>11, <1>15, <2>1, <2>3, <3>3
      <3> QED
        BY <1>3, <3>1, <3>2, <3>3
    <2> QED
      BY <2>2, <2>3
  <1>16. ASSUME NEW f \in freed' PROVE pc'[f] > 8
    <2>1. f \in Local /\ pc[f] \in 1..10 /\ (f \in freed => pc[f] > 8)
      BY <1>1, <1>12, <1>13 DEF EventInv, LifeInv
    <2>2. CASE f # e
      BY <1>3, <1>10, <1>16, <2>1, <2>2
    <2>3. CASE f = e
      BY <1>3, <1>10, <1>11, <1>16, <2>1, <2>3
    <2> QED
      BY <2>2, <2>3
  <1>17. EventInv'
    BY <1>1, <1>2, <1>12, <1>14, <1>15, <1>16 DEF EventInv
  <1> QED
    BY <1>5, <1>6, <1>8, <1>9, <1>17 DEF IInv

\* A creation or a destruction is reported to the GraphEventManager.
LEMMA AnnounceKeeps ==
    ASSUME IInv, NEW e \in Local, Announce(e) \/ Renounce(e)
    PROVE  IInv'
  <1>1. GraphInv /\ LifeInv /\ TokenInv /\ ReportInv /\ EventInv /\ OnceInv
    BY DEF IInv
  <1>2. UNCHANGED <<graph, env, late>>
    BY DEF Announce, Renounce
  <1>3. PICK call \in {"announce", "renounce"} : Step(e, call)
    BY DEF Announce, Renounce
  <1>4. existed' \in [Local -> BOOLEAN]
    <2>1. existed \in [Local -> BOOLEAN]
      BY <1>1 DEF LifeInv
    <2>2. existed' = [existed EXCEPT ![e] = FALSE] \/ existed' = existed
      BY DEF Announce, Renounce
    <2> QED
      BY <2>1, <2>2
  <1>5. LifeInv' /\ TokenInv'
    BY <1>2, <1>3, <1>4, QuietCall
  <1>6. GraphInv' /\ parsed' = parsed /\ Known' = Known
    BY <1>1, <1>2, GraphSame
  <1>7. /\ \A f \in Local : MovesFrom(f, {AddAt(f)})
        /\ \A f \in Local : MovesFrom(f, {})
        /\ \A f \in Endpoints : MovesFrom(f, {2})
        /\ \A f \in LocalNodes : MovesFrom(f, {7})
    BY <1>1, <1>3, Moves
  <1>8. ReportInv'
    BY <1>1, <1>2, <1>6, <1>7, ReportKeep DEF env
  <1>9. EventInv' /\ incompatible' = incompatible
    <2>1. \/ UNCHANGED events
          \/ \E change \in {1, -1} : trigger_graph_change(e, change)
      BY DEF Announce, Renounce
    <2>2. CASE UNCHANGED events
      <3>1. UNCHANGED <<registered, incompatible, guards, freed>> /\ dangling' = dangling /\ matched' = matched
        BY <2>2 DEF events
      <3>2. matched' \in [Endpoints -> Int]
        BY <1>1, <3>1 DEF EventInv
      <3> QED
        BY <1>1, <1>7, <3>1, <3>2, EventKeep
    <2>3. ASSUME NEW change \in {1, -1}, trigger_graph_change(e, change)
          PROVE  EventInv' /\ incompatible' = incompatible
      <3>1. change \in Int
        OBVIOUS
      <3> QED
        BY <1>1, <1>7, <2>3, <3>1, TriggerFacts, EventKeep
    <2> QED
      BY <2>1, <2>2, <2>3
  <1>10. OnceInv'
    BY <1>1, <1>7, <1>9, OnceKeep
  <1> QED
    BY <1>5, <1>6, <1>8, <1>9, <1>10 DEF IInv

\* Events do not change.
LEMMA EventsSame ==
    ASSUME IInv, NEW e \in Local, NEW call, Step(e, call), call \notin {"register", "unguard"}, UNCHANGED events
    PROVE  EventInv' /\ OnceInv'
  <1>1. LifeInv /\ EventInv /\ OnceInv
    BY DEF IInv
  <1>2. UNCHANGED <<registered, incompatible, guards, freed>> /\ dangling' = dangling /\ matched' = matched
    BY DEF events
  <1>3. matched' \in [Endpoints -> Int]
    BY <1>1, <1>2 DEF EventInv
  <1>4. /\ \A f \in Local : MovesFrom(f, {})
        /\ \A f \in Endpoints : MovesFrom(f, {2})
        /\ \A f \in LocalNodes : MovesFrom(f, {7})
    BY <1>1, Moves
  <1> QED
    BY <1>1, <1>2, <1>3, <1>4, EventKeep, OnceKeep

\* The entity is put into the graph, where it stays until it is removed: no
\* sample on its way deletes it.
LEMMA AddKeeps ==
    ASSUME IInv, NEW e \in Local, Add(e)
    PROVE  IInv'
  <1>1. GraphInv /\ LifeInv /\ TokenInv /\ ReportInv /\ EventInv /\ OnceInv
    BY DEF IInv
  <1>2. /\ Step(e, "add") /\ insert_local(e) /\ existed' = [existed EXCEPT ![e] = e \in parsed]
        /\ UNCHANGED <<env, events, late>>
    BY DEF Add
  <1>3. existed' \in [Local -> BOOLEAN]
    <2>1. (e \in parsed) \in BOOLEAN
      OBVIOUS
    <2>2. PICK b \in BOOLEAN : b = (e \in parsed)
      BY <2>1, Zenon
    <2>3. existed' = [existed EXCEPT ![e] = b]
      BY <1>2, <2>2, Zenon
    <2>4. existed \in [Local -> BOOLEAN]
      BY <1>1 DEF LifeInv
    <2> QED
      BY <2>3, <2>4
  <1>4. LifeInv' /\ TokenInv'
    BY <1>2, <1>3, QuietCall
  <1>5. EventInv' /\ OnceInv'
    BY <1>2, EventsSame
  <1>6. e \in Entities
    BY LocalTokens
  <1>7. GraphInv' /\ parsed' = parsed \cup {e} /\ Known' = Known \cup {e}
    BY <1>1, <1>2, <1>6, GraphInsertLocal
  <1>8. /\ pc[e] \in 1..10 /\ pc'[e] = pc[e] + 1 /\ \A f \in Local : f # e => pc'[f] = pc[f]
        /\ At(e, "add") /\ pc[e] <= EndAt(e)
    BY <1>1, <1>2, StepFacts
  <1>9. pc[e] = AddAt(e)
    BY <1>8, AtFacts
  <1>10. e \in declared
    BY <1>1, <1>9, Positions DEF TokenInv
  <1>11. ReportInv'
    <2>1. declared' = declared /\ wire' = wire /\ late' = late
      BY <1>2 DEF env
    <2>2. \A f \in Entities \ late' : f \notin declared' /\ wire'[f] = <<>> => f \notin Known'
      BY <1>1, <1>7, <1>10, <2>1 DEF ReportInv
    <2>3. \A f \in Entities \ Local : f \in declared' /\ wire'[f] = <<>> => f \in Known'
      BY <1>1, <1>7, <2>1 DEF ReportInv
    <2>4. \A f \in Local : f \in declared' /\ AddAt(f) < pc'[f] /\ pc'[f] <= RemoveAt(f) => f \in parsed'
      BY <1>1, <1>7, <1>8, <2>1 DEF ReportInv
    <2> QED
      BY <2>2, <2>3, <2>4 DEF ReportInv
  <1> QED
    BY <1>4, <1>5, <1>7, <1>11 DEF IInv

\* The entity is taken out of the graph.
LEMMA RemoveKeeps ==
    ASSUME IInv, NEW e \in Local, Remove(e)
    PROVE  IInv'
  <1>1. GraphInv /\ LifeInv /\ TokenInv /\ ReportInv /\ EventInv /\ OnceInv
    BY DEF IInv
  <1>2. Step(e, "remove") /\ remove_local(e) /\ UNCHANGED <<env, existed, events, late>>
    BY DEF Remove
  <1>3. existed' \in [Local -> BOOLEAN]
    BY <1>1, <1>2 DEF LifeInv
  <1>4. LifeInv' /\ TokenInv'
    BY <1>2, <1>3, QuietCall
  <1>5. EventInv' /\ OnceInv'
    BY <1>2, EventsSame
  <1>6. e \in Entities
    BY LocalTokens
  <1>7. GraphInv' /\ parsed' = parsed \ {e} /\ Known' = Known \ {e}
    BY <1>1, <1>2, <1>6, GraphRemoveLocal
  <1>8. /\ pc[e] \in 1..10 /\ pc'[e] = pc[e] + 1 /\ \A f \in Local : f # e => pc'[f] = pc[f]
        /\ At(e, "remove") /\ pc[e] <= EndAt(e)
    BY <1>1, <1>2, StepFacts
  <1>9. pc[e] = RemoveAt(e)
    BY <1>8, AtFacts
  <1>10. ReportInv'
    <2>1. declared' = declared /\ wire' = wire /\ late' = late
      BY <1>2 DEF env
    <2>2. \A f \in Entities \ late' : f \notin declared' /\ wire'[f] = <<>> => f \notin Known'
      BY <1>1, <1>7, <2>1 DEF ReportInv
    <2>3. \A f \in Entities \ Local : f \in declared' /\ wire'[f] = <<>> => f \in Known'
      BY <1>1, <1>7, <2>1 DEF ReportInv
    <2>4. ~(pc'[e] <= RemoveAt(e))
      BY <1>8, <1>9
    <2>5. \A f \in Local : f \in declared' /\ AddAt(f) < pc'[f] /\ pc'[f] <= RemoveAt(f) => f \in parsed'
      BY <1>1, <1>7, <1>8, <2>1, <2>4 DEF ReportInv
    <2> QED
      BY <2>2, <2>3, <2>5 DEF ReportInv
  <1> QED
    BY <1>4, <1>5, <1>7, <1>10 DEF IInv

\* The token of an entity is declared, or dropped.
LEMMA BuildKeeps ==
    ASSUME IInv, NEW e \in Local, Build(e) \/ Drop(e)
    PROVE  IInv'
  <1>1. GraphInv /\ LifeInv /\ TokenInv /\ ReportInv /\ EventInv /\ OnceInv
    BY DEF IInv
  <1>2. PICK call \in {"build", "drop"} : Step(e, call) /\ (call = "build" <=> Build(e)) /\ (call = "drop" <=> Drop(e))
    BY DEF Build, Drop, Step, At
  <1>3. UNCHANGED <<graph, existed, events, late>>
    BY DEF Build, Drop
  <1>4. PICK x \in {"put", "delete"} :
            /\ x = "put" <=> call = "build"
            /\ wire' = [wire EXCEPT ![e] = Append(@, x)]
            /\ declared' = IF x = "put" THEN declared \cup {e} ELSE declared \ {e}
            /\ UNCHANGED <<replies, phase>>
    <2>1. CASE call = "build"
      BY <1>2, <2>1 DEF Build, Declare
    <2>2. CASE call = "drop"
      BY <1>2, <2>2 DEF Drop, Undeclare
    <2> QED
      BY <2>1, <2>2
  <1>5. existed' \in [Local -> BOOLEAN]
    BY <1>1, <1>3 DEF LifeInv
  <1>6. LifeInv'
    BY <1>1, <1>2, <1>4, <1>5, LifeStep
  <1>7. GraphInv' /\ parsed' = parsed /\ Known' = Known
    BY <1>1, <1>3, GraphSame
  <1>8. EventInv' /\ OnceInv'
    BY <1>2, <1>3, EventsSame
  <1>9. e \in Tokens /\ e \in Entities /\ e \notin Remote /\ wire[e] \in Seq({"put", "delete"})
    BY <1>1, LocalTokens DEF TokenInv
  <1>10. /\ pc[e] \in 1..10 /\ pc'[e] = pc[e] + 1 /\ \A f \in Local : f # e => pc'[f] = pc[f]
         /\ At(e, call) /\ pc[e] <= EndAt(e)
    BY <1>1, <1>2, StepFacts
  <1>11. (call = "build" => pc[e] = 1) /\ (call = "drop" => pc[e] = DropAt(e)) /\ DropAt(e) \in {4, 9}
    BY <1>10, AtFacts, Positions
  <1>12. OwnToken(e)
    BY <1>1, TokenParts
  <1>13. /\ Append(wire[e], x) \in Seq({"put", "delete"}) /\ Append(wire[e], x) # <<>>
         /\ Append(wire[e], x)[Len(Append(wire[e], x))] = x
         /\ wire[e] = <<>> /\ x = "put" => \A i \in 1..Len(Append(wire[e], x)) : Append(wire[e], x)[i] = "put"
    BY <1>9, WireAppend
  <1>14. /\ wire'[e] = Append(wire[e], x) /\ wire' \in [Tokens -> Seq({"put", "delete"})]
         /\ \A u \in Tokens : u # e => wire'[u] = wire[u] /\ (u \in declared' <=> u \in declared)
         /\ declared' \subseteq Tokens /\ (e \in declared' <=> x = "put")
    BY <1>1, <1>4, <1>9, <1>13 DEF TokenInv
  <1>15. TokenInv'
    <2>1. \A u \in Tokens : Last(u)'
      <3>1. ASSUME NEW u \in Tokens, u # e PROVE Last(u)'
        BY <1>1, <1>14, <3>1, TokenElse, TokenParts
      <3>2. Last(e)'
        <4>1. wire'[e][Len(wire'[e])] = IF e \in declared' THEN "put" ELSE "delete"
          BY <1>13, <1>14
        <4> QED
          BY <4>1 DEF Last
      <3> QED
        BY <3>1, <3>2
    <2>2. ASSUME NEW f \in Local, f # e PROVE OwnToken(f)'
      BY <1>1, <1>10, <1>14, <2>2, LocalTokens, TokenElse, TokenParts
    <2>3. OwnToken(e)'
      <3>1. e \in declared' <=> pc'[e] > 1 /\ pc'[e] <= DropAt(e)
        BY <1>4, <1>10, <1>11, <1>14
      <3>2. e \in declared' => \A i \in 1..Len(wire'[e]) : wire'[e][i] = "put"
        <4>1. e \in declared' => wire[e] = <<>>
          BY <1>4, <1>11, <1>12, <1>14 DEF OwnToken
        <4> QED
          BY <1>13, <1>14, <4>1
      <3>3. pc'[e] # 1
        BY <1>10
      <3> QED
        BY <3>1, <3>2, <3>3 DEF OwnToken
    <2> QED
      BY <1>1, <1>3, <1>4, <1>14, <2>1, <2>2, <2>3, TokenParts
  <1>16. ReportInv'
    <2>1. wire'[e] # <<>>
      BY <1>13, <1>14
    <2>2. \A f \in Entities : f # e => wire'[f] = wire[f] /\ (f \in declared' <=> f \in declared)
      BY <1>14, LocalTokens
    <2>3. \A f \in Entities \ late' : f \notin declared' /\ wire'[f] = <<>> => f \notin Known'
      BY <1>1, <1>3, <1>7, <2>1, <2>2 DEF ReportInv
    <2>4. \A f \in Entities \ Local : f \in declared' /\ wire'[f] = <<>> => f \in Known'
      BY <1>1, <1>7, <2>1, <2>2 DEF ReportInv
    <2>5. ~(e \in declared' /\ AddAt(e) < pc'[e])
      BY <1>4, <1>10, <1>11, <1>14, Positions
    <2>6. \A f \in Local : f \in declared' /\ AddAt(f) < pc'[f] /\ pc'[f] <= RemoveAt(f) => f \in parsed'
      BY <1>1, <1>7, <1>10, <2>2, <2>5, LocalTokens DEF ReportInv
    <2> QED
      BY <2>3, <2>4, <2>6 DEF ReportInv
  <1> QED
    BY <1>6, <1>7, <1>8, <1>15, <1>16 DEF IInv

-----------------------------------------------------------------------------
(* Queries                                                                 *)

\* The keys of an entity.
LEMMA KeyFacts ==
    ASSUME NEW e, NEW t
    PROVE  /\ <<"topic", t>> \in KeysOf(e) <=> e.kind \in Matchable /\ e.topic = t
           /\ <<"service", t>> \in KeysOf(e) <=> e.kind \in Callable /\ e.topic = t
           /\ <<"node", t>> \in KeysOf(e) <=> e.node = t
  BY DEF KeysOf

\* A query finds what is known, parsed or not, whatever died in the slab, and
\* besides it only what callers have.
LEMMA FoundKnown ==
    ASSUME GraphInv, NEW k
    PROVE  /\ Found(k) = {e \in Known \cap Entities : k \in KeysOf(e)}
           /\ Slab(k).held \subseteq lent /\ Slab(k).held \subseteq Entities
           /\ \A e \in Slab(k).held : k \in KeysOf(e) /\ e.kind # "Node"
  <1>1. Found(k) = Slab(k).live \cup Having(k, Unparsed)
    BY DEF Found
  <1>2. Slab(k).live = parsed \cap Indexed(k) /\ Slab(k).held \subseteq lent /\ Slab(k).held \subseteq Indexed(k)
    BY SlabThere
  <1>3. \A e : e \in Found(k) <=> e \in Known /\ e \in Entities /\ k \in KeysOf(e)
    BY <1>1, <1>2 DEF Unparsed, Indexed, Having, Known, GraphInv
  <1> QED
    BY <1>2, <1>3 DEF Indexed, Having, GraphInv

\* What it finds is finite.
LEMMA FoundFinite ==
    ASSUME GraphInv, NEW k, NEW S, S \subseteq Reached(k)
    PROVE  IsFiniteSet(S) /\ Cardinality(S) \in Nat
  <1>1. S \subseteq Entities
    BY FoundKnown DEF Reached
  <1> QED
    BY <1>1, FS_Subset, FS_CardinalityType

\* Of two endpoints alone on their topic each is the other's only conflict.
LEMMA PairAlone ==
    ASSUME NEW p \in Endpoints, NEW q \in Endpoints, Pair(p, q), NEW g \in Endpoints, g.topic = p.topic
    PROVE  g \in {p, q}
  <1>1. PICK S : S = {f \in Endpoints : f.topic = p.topic}
    OBVIOUS
  <1>2. S \subseteq Entities /\ {p, q} \subseteq S /\ g \in S /\ Cardinality(S) = 2 /\ p # q
    BY <1>1 DEF Pair, Endpoints, Local
  <1>3. IsFiniteSet(S)
    BY <1>2, FS_Subset
  <1>4. IsFiniteSet({p}) /\ Cardinality({p}) = 1
    BY FS_Singleton
  <1>5. Cardinality({p} \cup {q}) = 2
    <2>1. q \notin {p}
      BY <1>2
    <2>2. PICK T : T = {p}
      OBVIOUS
    <2>3. IsFiniteSet(T) /\ Cardinality(T) = 1 /\ q \notin T
      BY <1>4, <2>1, <2>2
    <2>4. Cardinality(T \cup {q}) = 2
      <3>1. Cardinality(T \cup {q}) = IF q \in T THEN Cardinality(T) ELSE Cardinality(T) + 1
        BY <2>3, FS_AddElement
      <3> QED
        BY <2>3, <3>1
    <2> QED
      BY <2>2, <2>4
  <1>6. {p} \cup {q} = {p, q}
    OBVIOUS
  <1> QED
    BY <1>2, <1>3, <1>5, <1>6, FS_Subset

\* Visiting slabs does not change what is known.
LEMMA VisitKeeps ==
    ASSUME IInv, NEW K, visit(K), UNCHANGED <<env, late>>, \A f \in Local : MovesFrom(f, {AddAt(f)})
    PROVE  GraphInv' /\ ReportInv'
  <1>1. GraphInv /\ LifeInv /\ ReportInv
    BY DEF IInv
  <1>2. GraphInv' /\ parsed' = Known \cap Entities /\ Known' = Known \cap Entities
    BY <1>1, GraphVisit
  <1>3. parsed \subseteq Known \cap Entities
    BY <1>1 DEF GraphInv, Known
  <1>4. (\A f \in Entities : f \in Known' <=> f \in Known) /\ \A f \in Local : f \in parsed => f \in parsed'
    BY <1>2, <1>3
  <1>5. UNCHANGED <<declared, wire, late>>
    BY DEF env
  <1> QED
    BY <1>1, <1>2, <1>4, <1>5, ReportKeep

\* Counting the matches of a new endpoint keeps the invariant.
LEMMA CountKeeps ==
    ASSUME IInv, NEW e \in Local, Count(e)
    PROVE  IInv'
  <1>1. GraphInv /\ LifeInv /\ TokenInv /\ ReportInv /\ EventInv /\ OnceInv
    BY DEF IInv
  <1>2. /\ Step(e, "count") /\ visit({Topic(e)})
        /\ matched' = [matched EXCEPT ![e] = @ + CountOf(Opposite(e), Topic(e))]
        /\ UNCHANGED <<env, existed, registered, incompatible, guards, freed, dangling, late>>
    BY DEF Count
  <1>3. existed' \in [Local -> BOOLEAN]
    BY <1>1, <1>2 DEF LifeInv
  <1>4. LifeInv' /\ TokenInv'
    BY <1>2, <1>3, QuietCall
  <1>5. /\ \A f \in Local : MovesFrom(f, {AddAt(f)})
        /\ \A f \in Local : MovesFrom(f, {})
        /\ \A f \in Endpoints : MovesFrom(f, {2})
        /\ \A f \in LocalNodes : MovesFrom(f, {7})
    BY <1>1, <1>2, Moves
  <1>6. GraphInv' /\ ReportInv'
    BY <1>2, <1>5, VisitKeeps
  <1>7. PICK n \in Nat : n = CountOf(Opposite(e), Topic(e))
    <2>1. /\ Cardinality({f \in Found(Topic(e)) : f.kind = Opposite(e)}) \in Nat
          /\ Cardinality({f \in Slab(Topic(e)).held : f.kind = Opposite(e)}) \in Nat
      BY <1>1, FoundFinite DEF Reached
    <2>2. PICK a \in Nat : a = Cardinality({f \in Found(Topic(e)) : f.kind = Opposite(e)})
      BY <2>1
    <2>3. PICK b \in Nat : b = Cardinality({f \in Slab(Topic(e)).held : f.kind = Opposite(e)})
      BY <2>1
    <2>4. CountOf(Opposite(e), Topic(e)) = a + b
      BY <2>2, <2>3 DEF CountOf
    <2> QED
      BY <2>4
  <1>8. matched' \in [Endpoints -> Int]
    <2>1. matched' = [matched EXCEPT ![e] = matched[e] + n] /\ matched \in [Endpoints -> Int]
      BY <1>1, <1>2, <1>7 DEF EventInv
    <2>2. At(e, "count") /\ pc[e] \in 1..10 /\ pc[e] <= EndAt(e)
      BY <1>1, <1>2, StepFacts
    <2>3. e \in Endpoints
      BY <2>2, AtFacts DEF Endpoints
    <2>4. matched[e] + n \in Int
      BY <1>7, <2>1, <2>3
    <2> QED
      BY <2>1, <2>3, <2>4
  <1>9. EventInv'
    BY <1>1, <1>2, <1>5, <1>8, EventKeep
  <1>10. OnceInv'
    BY <1>1, <1>2, <1>5, OnceKeep
  <1> QED
    BY <1>4, <1>6, <1>9, <1>10 DEF IInv

\* A query of the application.
LEMMA VisitsKeep ==
    ASSUME IInv, Query
    PROVE  IInv'
  <1>1. GraphInv /\ LifeInv /\ TokenInv /\ ReportInv /\ EventInv /\ OnceInv
    BY DEF IInv
  <1>2. PICK K : visit(K) /\ UNCHANGED <<env, pc, existed, events, late>>
    BY DEF Query
  <1>3. \A f \in Local : \A calls : MovesFrom(f, calls)
    BY <1>2 DEF MovesFrom, Stays
  <1>4. GraphInv' /\ ReportInv'
    BY <1>2, <1>3, VisitKeeps
  <1>5. LifeInv' /\ EventInv' /\ incompatible' = incompatible
    BY <1>1, <1>2 DEF LifeInv, EventInv, env, events
  <1>6. TokenInv'
    BY <1>1, <1>2, <1>3, TokenKeep DEF env
  <1>7. OnceInv'
    BY <1>1, <1>3, <1>5, OnceKeep
  <1> QED
    BY <1>4, <1>5, <1>6, <1>7 DEF IInv

\* A caller takes a result, and drops it.
LEMMA LendKeeps ==
    ASSUME IInv, Keep \/ GiveBack
    PROVE  IInv'
  <1>1. GraphInv /\ LifeInv /\ TokenInv /\ ReportInv /\ EventInv /\ OnceInv
    BY DEF IInv
  <1>2. UNCHANGED <<env, pc, existed, events, late>>
    BY DEF Keep, GiveBack
  <1>3. \A f \in Local : \A calls : MovesFrom(f, calls)
    BY <1>2 DEF MovesFrom, Stays
  <1>4. GraphInv' /\ (\A f \in Entities : f \in Known' <=> f \in Known) /\ \A f \in Local : f \in parsed => f \in parsed'
    <2>1. CASE Keep
      <3>1. PICK k, q : q \in Matchable \cup Callable /\ lend(q, k)
        BY <2>1 DEF Keep
      <3>2. /\ parsed' = Known \cap Entities /\ Known' = Known \cap Entities /\ cached' = {}
            /\ IndexOK(index') /\ Complete(index', parsed') /\ HeldIn(index', lent)
        BY <1>1, <3>1, GraphParse DEF lend
      <3>3. lent = {} /\ lent' = {e \in Reached(k) : e.kind = q}
        BY <3>1 DEF lend, OfKind
      <3>4. HeldIn(index', lent')
        BY <3>2, <3>3 DEF HeldIn
      <3>5. lent' \subseteq {e \in Entities : e.kind # "Node"}
        BY <1>1, <3>1, <3>3, FoundKnown DEF Reached, Matchable, Callable
      <3>6. GraphInv'
        BY <3>2, <3>4, <3>5 DEF GraphInv
      <3> QED
        BY <1>1, <3>2, <3>6 DEF GraphInv, Known
    <2>2. CASE GiveBack
      BY <1>1, <2>2, GraphGiveBack DEF GiveBack
    <2> QED
      BY <2>1, <2>2
  <1>5. ReportInv'
    BY <1>1, <1>2, <1>3, <1>4, ReportKeep DEF env
  <1>6. LifeInv' /\ EventInv' /\ incompatible' = incompatible
    BY <1>1, <1>2 DEF LifeInv, EventInv, env, events
  <1>7. TokenInv'
    BY <1>1, <1>2, <1>3, TokenKeep DEF env
  <1>8. OnceInv'
    BY <1>1, <1>3, <1>6, OnceKeep
  <1> QED
    BY <1>4, <1>5, <1>6, <1>7, <1>8 DEF IInv

\* A local entity that is known has been built.
LEMMA KnownBuilt ==
    ASSUME TokenInv, ReportInv, NEW o \in Local, o \in Known
    PROVE  pc[o] # 1
  <1>1. pc[o] = 1 => o \notin declared /\ wire[o] = <<>> /\ o \notin late
    BY DEF TokenInv, Remote
  <1> QED
    BY <1>1, LocalTokens DEF ReportInv

\* What Check does to an endpoint alone with one it conflicts with: if the other
\* is known it has been created, and both are counted.
LEMMA CheckPair ==
    ASSUME IInv, LentInv, NEW e \in Endpoints, Check(e), Serialised, NEW o \in Endpoints, e # o,
           o.kind = Opposite(e), o.topic = e.topic, o.kind # e.kind, Incompatible(e, o),
           \A g \in Endpoints : g.topic = e.topic => g \in {e, o},
           incompatible[e] = 0, incompatible[o] = 0
    PROVE  /\ incompatible'[e] = incompatible'[o] /\ incompatible'[e] <= 1
           /\ pc'[e] <= 4 \/ pc'[o] <= 4 => incompatible'[e] = 0
  <1>1. GraphInv /\ LifeInv /\ TokenInv /\ ReportInv /\ EventInv
    BY DEF IInv
  <1>2. e \in Local /\ o \in Local /\ o \in Entities /\ o.local /\ o.kind \in Matchable
    BY DEF Endpoints, Local
  <1>3. /\ Step(e, "check")
        /\ incompatible' = [f \in Endpoints |->
              incompatible[f] + IF f = e THEN Cardinality(Conflicts(e))
                                ELSE IF f \in Conflicts(e) \cap registered THEN 1 ELSE 0]
    BY DEF Check
  <1>4. Between(o)
    BY <1>2, <1>3 DEF Step
  <1>5. pc[o] \in 1..10 /\ pc[o] <= EndAt(o)
    BY <1>1, <1>2 DEF LifeInv
  <1>6. pc[o] \in {1, 7, 10}
    BY <1>2, <1>4, <1>5, AtFacts DEF AnnounceAt, EndAt, Matchable, Callable
  <1>7. \A f : f \in Conflicts(e) <=> f \in Reached(Topic(e)) /\ f \in Entities /\ Topic(e) \in KeysOf(f)
                                      /\ f.kind = Opposite(e) /\ f.local /\ Incompatible(e, f)
    <2>1. \A f \in Reached(Topic(e)) : f \in Entities /\ Topic(e) \in KeysOf(f)
      BY <1>1, FoundKnown DEF Reached
    <2> QED
      BY <2>1 DEF Conflicts, OfKind
  <1>8. \A f : Topic(e) \in KeysOf(f) <=> f.kind \in Matchable /\ f.topic = e.topic
    BY KeyFacts DEF Topic
  <1>9. ASSUME NEW f \in Conflicts(e) PROVE f = o
    <2>1. f \in Entities /\ f.local /\ f.kind \in Matchable /\ f.topic = e.topic /\ f.kind = Opposite(e)
      BY <1>7, <1>8
    <2>2. f \in Endpoints
      BY <2>1 DEF Endpoints, Local
    <2> QED
      BY <2>1, <2>2
  <1>10. o \in Conflicts(e) <=> o \in Reached(Topic(e))
    BY <1>2, <1>7, <1>8
  <1>11. pc'[o] = pc[o]
    BY <1>1, <1>2, <1>3, StepFacts
  <1>12. CASE o \in Reached(Topic(e))
    <2>1. pc[o] # 1
      <3>1. o \in Known \/ o \in lent
        BY <1>1, <1>12, FoundKnown DEF Reached
      <3> QED
        BY <1>1, <1>2, <3>1, KnownBuilt DEF LentInv
    <2>2. pc[o] > 4 /\ o \in registered
      BY <1>1, <1>6, <2>1 DEF EventInv
    <2>3. Conflicts(e) = {o}
      BY <1>9, <1>10, <1>12
    <2>4. Cardinality(Conflicts(e)) = 1
      BY <2>3, FS_Singleton
    <2>5. incompatible'[e] = 1 /\ incompatible'[o] = 1
      BY <1>3, <2>2, <2>3, <2>4
    <2>6. pc[e] \in 1..10 /\ At(e, "check") /\ pc[e] <= EndAt(e) /\ pc'[e] = pc[e] + 1
      BY <1>1, <1>2, <1>3, StepFacts
    <2>7. pc'[e] = 5
      BY <1>2, <2>6, AtFacts
    <2> QED
      BY <1>5, <1>11, <2>2, <2>5, <2>7
  <1>13. CASE o \notin Reached(Topic(e))
    <2>1. Conflicts(e) = {}
      BY <1>9, <1>10, <1>13
    <2>2. Cardinality(Conflicts(e)) = 0
      BY <2>1, FS_EmptySet
    <2> QED
      BY <1>3, <2>1, <2>2
  <1> QED
    BY <1>12, <1>13

\* So does checking its compatibility.
LEMMA CheckKeeps ==
    ASSUME IInv, LentInv, NEW e \in Local, Check(e)
    PROVE  IInv'
  <1>1. GraphInv /\ LifeInv /\ TokenInv /\ ReportInv /\ EventInv /\ OnceInv
    BY DEF IInv
  <1>2. /\ Step(e, "check") /\ visit({Topic(e)})
        /\ incompatible' = [f \in Endpoints |->
              incompatible[f] + IF f = e THEN Cardinality(Conflicts(e))
                                ELSE IF f \in Conflicts(e) \cap registered THEN 1 ELSE 0]
        /\ UNCHANGED <<env, existed, registered, matched, guards, freed, dangling, late>>
    BY DEF Check
  <1>3. existed' \in [Local -> BOOLEAN]
    BY <1>1, <1>2 DEF LifeInv
  <1>4. LifeInv' /\ TokenInv'
    BY <1>2, <1>3, QuietCall
  <1>5. /\ \A f \in Local : MovesFrom(f, {AddAt(f)})
        /\ \A f \in Endpoints : MovesFrom(f, {2})
        /\ \A f \in LocalNodes : MovesFrom(f, {7})
    BY <1>1, <1>2, Moves
  <1>6. GraphInv' /\ ReportInv'
    BY <1>2, <1>5, VisitKeeps
  <1>7. /\ pc[e] \in 1..10 /\ At(e, "check") /\ pc[e] <= EndAt(e) /\ pc'[e] = pc[e] + 1
        /\ \A f \in Local : f # e => pc'[f] = pc[f]
    BY <1>1, <1>2, StepFacts
  <1>8. e \in Endpoints /\ pc[e] = 4
    BY <1>7, AtFacts DEF Endpoints
  <1>9. PICK n \in Nat : n = Cardinality(Conflicts(e))
    BY <1>1, FoundFinite DEF Conflicts, OfKind
  <1>10. incompatible' \in [Endpoints -> Nat]
    BY <1>1, <1>2, <1>9 DEF EventInv
  <1>11. EventInv'
    BY <1>1, <1>2, <1>5, <1>10, EventCount DEF EventInv
  <1>12. OnceInv'
    <2>1. SUFFICES ASSUME Serialised, NEW p \in Endpoints, NEW q \in Endpoints, Pair(p, q)
                   PROVE  /\ incompatible'[p] = incompatible'[q] /\ incompatible'[p] <= 1
                          /\ pc'[p] <= 4 \/ pc'[q] <= 4 => incompatible'[p] = 0
      BY DEF OnceInv, Pair, Incompatible
    <2>2. /\ incompatible[p] = incompatible[q] /\ incompatible[p] <= 1
          /\ pc[p] <= 4 \/ pc[q] <= 4 => incompatible[p] = 0
      BY <1>1, <2>1 DEF OnceInv
    <2>3. \A g \in Endpoints : g.topic = p.topic => g \in {p, q}
      BY <2>1, PairAlone
    <2>4. p.kind = "Publisher" /\ q.kind = "Subscription" /\ p.topic = q.topic /\ Incompatible(p, q) /\ p # q
      BY <2>1 DEF Pair
    <2>5. CASE e = p
      <3>1. q.kind = Opposite(e) /\ incompatible[p] = 0 /\ incompatible[q] = 0
        BY <1>8, <2>2, <2>4, <2>5 DEF Opposite
      <3> QED
        BY <1>8, <2>1, <2>3, <2>4, <2>5, <3>1, CheckPair
    <2>6. CASE e = q
      <3>1. p.kind = Opposite(e) /\ incompatible[p] = 0 /\ incompatible[q] = 0 /\ Incompatible(q, p)
        BY <1>8, <2>2, <2>4, <2>6 DEF Opposite, Incompatible
      <3>2. \A g \in Endpoints : g.topic = q.topic => g \in {q, p}
        BY <2>3, <2>4
      <3>3. /\ incompatible'[q] = incompatible'[p] /\ incompatible'[q] <= 1
            /\ pc'[q] <= 4 \/ pc'[p] <= 4 => incompatible'[q] = 0
        BY <1>8, <2>1, <2>4, <2>6, <3>1, <3>2, CheckPair
      <3> QED
        BY <3>3
    <2>7. CASE e \notin {p, q}
      <3>1. e.topic # p.topic
        BY <1>8, <2>3, <2>7
      <3>2. \A f \in Conflicts(e) : f.topic = e.topic
        <4>1. \A f \in Reached(Topic(e)) : Topic(e) \in KeysOf(f)
          BY <1>1, FoundKnown DEF Reached
        <4>2. \A f : Topic(e) \in KeysOf(f) <=> f.kind \in Matchable /\ f.topic = e.topic
          BY KeyFacts DEF Topic
        <4> QED
          BY <4>1, <4>2 DEF Conflicts, OfKind
      <3>3. p \notin Conflicts(e) /\ q \notin Conflicts(e)
        BY <2>4, <3>1, <3>2
      <3>4. incompatible[p] \in Nat /\ incompatible[q] \in Nat
        BY <1>1 DEF EventInv
      <3>5. incompatible'[p] = incompatible[p] /\ incompatible'[q] = incompatible[q]
        BY <1>2, <2>7, <3>3, <3>4
      <3>6. pc'[p] = pc[p] /\ pc'[q] = pc[q]
        BY <1>7, <2>7 DEF Endpoints
      <3> QED
        BY <2>2, <3>5, <3>6
    <2> QED
      BY <2>5, <2>6, <2>7
  <1> QED
    BY <1>4, <1>6, <1>11, <1>12 DEF IInv

-----------------------------------------------------------------------------
(* The specification                                                       *)

\* The invariant holds initially.
LEMMA Start ==
    ASSUME Init
    PROVE  IInv /\ LentInv
  <1>1. GraphInv
    <2>1. cached = {} /\ parsed = {} /\ DOMAIN index = {} /\ lent = {}
      BY DEF Init, GraphInit
    <2> QED
      BY <2>1 DEF GraphInv, IndexOK, Complete, LiveIn, HeldIn
  <1>2. Known = {}
    BY DEF Init, GraphInit, Known
  <1>3. LifeInv
    <2>1. \A e \in Local : 1 <= EndAt(e)
      BY Positions
    <2> QED
      BY <2>1 DEF Init, LifeInv
  <1>4. /\ declared \subseteq Remote /\ replies = {} /\ late = {}
        /\ wire = [t \in Tokens |-> IF t \in declared THEN <<"put">> ELSE <<>>]
        /\ pc = [e \in Local |-> 1]
    BY DEF Init
  <1>5. <<"put">> \in Seq({"put", "delete"}) /\ Len(<<"put">>) = 1 /\ <<"put">>[1] = "put"
        /\ <<"put">> # <<>> /\ <<>> \in Seq({"put", "delete"})
    OBVIOUS
  <1>6. TokenInv
    <2>1. wire \in [Tokens -> Seq({"put", "delete"})]
      BY <1>4, <1>5
    <2>2. \A t \in Tokens : Last(t)
      BY <1>4, <1>5 DEF Last
    <2>3. \A e \in Local : OwnToken(e)
      BY <1>4, LocalTokens DEF OwnToken
    <2> QED
      BY <1>4, <2>1, <2>2, <2>3, TokenParts DEF Remote
  <1>7. ReportInv
    <2>1. \A e \in Entities : e \in declared => wire[e] # <<>>
      BY <1>4, <1>5, LocalTokens
    <2>2. \A e \in Local : e \notin declared
      BY <1>4, LocalTokens
    <2> QED
      BY <1>2, <2>1, <2>2 DEF ReportInv
  <1>8. EventInv
    <2>1. Endpoints \subseteq Local
      BY DEF Endpoints
    <2> QED
      BY <2>1 DEF Init, EventInv
  <1>9. OnceInv
    BY DEF Init, OnceInv
  <1>10. LentInv
    BY DEF Init, GraphInit, LentInv
  <1> QED
    BY <1>1, <1>3, <1>6, <1>7, <1>8, <1>9, <1>10 DEF IInv

\* What a caller has was built, at every step.
LEMMA LentKeeps ==
    ASSUME IInv, LentInv, [Next]_vars
    PROVE  LentInv'
  <1>1. GraphInv /\ LifeInv /\ TokenInv /\ ReportInv
    BY DEF IInv
  <1>2. CASE RemoteChange \/ OnSample \/ StartQuery \/ OnReply \/ QueryEnds \/ Query \/ GiveBack \/ UNCHANGED vars
    <2>1. pc' = pc
      BY <1>2 DEF RemoteChange, OnSample, StartQuery, OnReply, QueryEnds, Query, GiveBack, vars
    <2>2. lent' = lent \/ lent' = {}
      BY <1>2 DEF RemoteChange, OnSample, OnPut, OnDelete, remove, StartQuery, OnReply, QueryEnds, Query, visit,
                  GiveBack, give_back, vars, graph
    <2> QED
      BY <2>1, <2>2 DEF LentInv
  <1>3. ASSUME NEW e \in Local,
               \/ Build(e) \/ Guard(e) \/ Register(e) \/ Count(e) \/ Check(e) \/ Add(e)
               \/ Announce(e) \/ Remove(e) \/ Renounce(e) \/ Unguard(e) \/ Free(e) \/ Drop(e)
        PROVE  LentInv'
    <2>1. PICK call : Step(e, call)
      BY <1>3 DEF Build, Guard, Register, Count, Check, Add, Announce, Remove, Renounce, Unguard, Free, Drop
    <2>2. \A f \in Local : pc[f] \in Nat /\ (pc'[f] = pc[f] \/ pc'[f] = pc[f] + 1)
      BY <1>1, <2>1, StepFacts DEF LifeInv
    <2>3. lent' \subseteq lent
      BY <1>3 DEF Build, Guard, Register, Count, visit, Check, Add, insert_local, Announce, Remove, remove_local,
                  Renounce, Unguard, Free, Drop, graph
    <2> QED
      BY <2>2, <2>3 DEF LentInv
  <1>4. CASE Keep
    <2>1. PICK k, q : lend(q, k) /\ pc' = pc
      BY <1>4 DEF Keep
    <2>2. lent = {} /\ lent' = {e \in Reached(k) : e.kind = q}
      BY <2>1 DEF lend, OfKind
    <2>3. ASSUME NEW e \in Local \cap lent' PROVE pc[e] > 1
      <3>1. e \in Known
        BY <1>1, <2>2, FoundKnown DEF Reached
      <3> QED
        BY <1>1, <3>1, KnownBuilt DEF LifeInv
    <2> QED
      BY <2>1, <2>3 DEF LentInv
  <1> QED
    BY <1>2, <1>3, <1>4 DEF Next, Lives

\* Every step keeps it.
LEMMA StepKeeps ==
    ASSUME IInv, LentInv, [Next]_vars
    PROVE  IInv'
  <1>1. CASE RemoteChange
    BY <1>1, RemoteKeeps
  <1>2. CASE OnSample
    BY <1>2, SampleKeeps
  <1>3. CASE StartQuery \/ OnReply \/ QueryEnds
    BY <1>3, QueryKeeps
  <1>4. ASSUME NEW e \in Local,
               \/ Build(e) \/ Guard(e) \/ Register(e) \/ Count(e) \/ Check(e) \/ Add(e)
               \/ Announce(e) \/ Remove(e) \/ Renounce(e) \/ Unguard(e) \/ Free(e) \/ Drop(e)
        PROVE  IInv'
    BY <1>4, BuildKeeps, GuardKeeps, CountKeeps, CheckKeeps, AddKeeps, AnnounceKeeps, RemoveKeeps
  <1>5. CASE Query
    BY <1>5, VisitsKeep
  <1>7. CASE Keep \/ GiveBack
    BY <1>7, LendKeeps
  <1>6. CASE UNCHANGED vars
    <2>1. /\ UNCHANGED <<graph, declared, wire, replies, phase, pc, existed, late>>
          /\ UNCHANGED <<registered, matched, incompatible, guards, freed, dangling>>
      BY <1>6 DEF vars, env, events
    <2>2. GraphInv' /\ Known' = Known
      BY <2>1, GraphSame DEF IInv
    <2>3. LifeInv' /\ TokenInv' /\ ReportInv' /\ EventInv' /\ OnceInv'
      BY <2>1, <2>2 DEF IInv, LifeInv, TokenInv, ReportInv, EventInv, OnceInv, graph
    <2> QED
      BY <2>2, <2>3 DEF IInv
  <1> QED
    BY <1>1, <1>2, <1>3, <1>4, <1>5, <1>6, <1>7 DEF Next, Lives

\* The invariant of the graph holds always.
THEOREM GraphInvariant == Spec => [](IInv /\ LentInv)
  <1>1. Init => IInv /\ LentInv
    BY Start
  <1>2. IInv /\ LentInv /\ [Next]_vars => IInv' /\ LentInv'
    BY StepKeeps, LentKeeps
  <1> QED
    BY <1>1, <1>2, PTL DEF Spec

\* QueriesComplete: what is declared and settled is known, whether the
\* subscriber, the initial query or the creation reported it, and what is parsed
\* is in its slabs.
THEOREM QueriesCompleteCorrect == Spec => []QueriesComplete
  <1>1. IInv => IndexComplete
    <2>1. ASSUME IInv, NEW k \in Keys PROVE Slab(k).live = Having(k, parsed) /\ Slab(k).held \subseteq lent
      <3>1. GraphInv /\ parsed \subseteq Entities
        BY <2>1 DEF IInv, GraphInv
      <3> QED
        BY <3>1, SlabThere, HavingFacts
    <2> QED
      BY <2>1 DEF IndexComplete
  <1>2. IInv => NothingMissed
    <2>1. ASSUME IInv, NEW e \in Entities, e \in declared, Settled(e)
          PROVE  e \in Known
      <3>1. LifeInv /\ TokenInv /\ ReportInv /\ wire[e] = <<>>
        BY <2>1 DEF IInv, Settled
      <3>2. CASE e \notin Local
        BY <2>1, <3>1, <3>2 DEF ReportInv
      <3>3. CASE e \in Local
        <4>1. Between(e) /\ pc[e] \in 1..10 /\ pc[e] <= EndAt(e)
          BY <2>1, <3>1, <3>3 DEF Settled, LifeInv
        <4>2. pc[e] \in {1, AnnounceAt(e) + 1, EndAt(e)}
          BY <3>3, <4>1, AtFacts
        <4>3. pc[e] > 1 /\ pc[e] <= DropAt(e)
          BY <2>1, <3>1, <3>3 DEF TokenInv
        <4>4. AddAt(e) < pc[e] /\ pc[e] <= RemoveAt(e)
          BY <3>3, <4>2, <4>3, Positions DEF AnnounceAt, RemoveAt
        <4> QED
          BY <2>1, <3>1, <3>3, <4>4 DEF ReportInv, Known
      <3> QED
        BY <3>2, <3>3
    <2> QED
      BY <2>1 DEF NothingMissed
  <1> QED
    BY <1>1, <1>2, GraphInvariant, PTL DEF QueriesComplete

\* EventsAimed: no graph change triggers a guard condition that was destroyed,
\* and an incompatible pair of local endpoints is counted once.
THEOREM EventsAimedCorrect == Spec => []EventsAimed
  <1>1. IInv => NoDanglingTrigger
    BY DEF IInv, EventInv, NoDanglingTrigger
  <1>2. IInv => IncompatibleOnce
    BY DEF IInv, OnceInv, IncompatibleOnce, Pair
  <1> QED
    BY <1>1, <1>2, GraphInvariant, PTL DEF EventsAimed

-----------------------------------------------------------------------------
(* What the queries answer                                                 *)

\* The queries filter what they find by kind, and that is what is known of it.
LEMMA KindsKnown ==
    ASSUME GraphInv, NEW t
    PROVE  /\ \A q \in Matchable : /\ Answers(OfKind(q, <<"topic", t>>), OfKnown(q, t))
                                   /\ Counts(CountOf(q, <<"topic", t>>), OfKnown(q, t))
           /\ \A q \in Callable : /\ Answers(OfKind(q, <<"service", t>>), OfKnown(q, t))
                                  /\ Counts(CountOf(q, <<"service", t>>), OfKnown(q, t))
  <1>1. ASSUME NEW q, NEW k, \A e : k \in KeysOf(e) /\ e.kind = q <=> e.kind = q /\ e.topic = t
        PROVE  Answers(OfKind(q, k), OfKnown(q, t)) /\ Counts(CountOf(q, k), OfKnown(q, t))
    <2>1. PICK known : known = {e \in Found(k) : e.kind = q}
      OBVIOUS
    <2>2. PICK others : others = {e \in Slab(k).held : e.kind = q}
      OBVIOUS
    <2>3. known = OfKnown(q, t)
      BY <1>1, <2>1, FoundKnown DEF OfKnown
    <2>4. others \subseteq lent
      BY <2>2, FoundKnown
    <2>5. OfKind(q, k) = known \cup others
      BY <2>1, <2>2 DEF OfKind, Reached
    <2>6. CountOf(q, k) = Cardinality(known) + Cardinality(others)
      BY <2>1, <2>2 DEF CountOf
    <2>7. Cardinality(known) \in Nat /\ Cardinality(others) \in Nat
      BY <2>1, <2>2, FoundFinite DEF Reached
    <2>8. IsFiniteSet(lent)
      BY FS_Subset DEF GraphInv
    <2>9. Cardinality(others) <= Cardinality(lent) /\ Cardinality(lent) \in Nat
      BY <2>4, <2>8, FS_Subset, FS_CardinalityType
    <2>10. Answers(OfKind(q, k), OfKnown(q, t))
      BY <2>3, <2>4, <2>5 DEF Answers
    <2>11. Counts(CountOf(q, k), OfKnown(q, t))
      BY <2>3, <2>6, <2>7, <2>9 DEF Counts
    <2> QED
      BY <2>10, <2>11
  <1>2. ASSUME NEW q \in Matchable, NEW k, k = <<"topic", t>>
        PROVE  \A e : k \in KeysOf(e) /\ e.kind = q <=> e.kind = q /\ e.topic = t
    BY <1>2, KeyFacts
  <1>3. ASSUME NEW q \in Callable, NEW k, k = <<"service", t>>
        PROVE  \A e : k \in KeysOf(e) /\ e.kind = q <=> e.kind = q /\ e.topic = t
    BY <1>3, KeyFacts
  <1> QED
    BY <1>1, <1>2, <1>3

\* A key names its sort and what is indexed by it.
LEMMA KeyShape ==
    ASSUME NEW e, NEW k \in KeysOf(e)
    PROVE  /\ k[1] = "topic" => e.kind \in Matchable /\ k[2] = e.topic
           /\ k[1] = "service" => e.kind \in Callable /\ k[2] = e.topic
  BY DEF KeysOf

\* An entity with a type has its name listed.
LEMMA Named ==
    ASSUME NEW S, NEW n
    PROVE  n \in NamesOf(S) <=> \E e \in S : e.typed /\ e.topic = n
  BY DEF NamesOf

\* The topics of the graph are those of the known publishers and subscriptions.
LEMMA TopicNames ==
    ASSUME GraphInv, NEW S, S = {e \in Known \cap Entities : e.kind \in Matchable}
    PROVE  Lists(get_topic_names, S)
  <1>1. ASSUME NEW n \in get_topic_names PROVE n \in NamesOf(S \cup lent)
    <2>1. PICK k \in Keys : k[1] = "topic" /\ n \in NamesOf(Reached(k))
      BY <1>1 DEF get_topic_names
    <2>2. PICK e \in Reached(k) : e.typed /\ e.topic = n
      BY <2>1, Named
    <2>3. e \in lent \/ (e \in Known \cap Entities /\ k \in KeysOf(e))
      BY FoundKnown DEF Reached
    <2>4. e \in S \cup lent
      BY <2>1, <2>3, KeyShape
    <2> QED
      BY <2>2, <2>4, Named
  <1>2. ASSUME NEW n \in NamesOf(S) PROVE n \in get_topic_names
    <2>1. PICK e \in S : e.typed /\ e.topic = n
      BY <1>2, Named
    <2>2. PICK k : k = <<"topic", n>>
      OBVIOUS
    <2>3. k \in KeysOf(e) /\ e \in Known \cap Entities
      BY <2>1, <2>2, KeyFacts
    <2>4. k \in Keys /\ e \in Reached(k) /\ k[1] = "topic"
      BY <2>2, <2>3, FoundKnown DEF Keys, Reached
    <2>5. n \in NamesOf(Reached(k))
      BY <2>1, <2>4, Named
    <2> QED
      BY <2>4, <2>5 DEF get_topic_names
  <1> QED
    BY <1>1, <1>2 DEF Lists

\* The services are those of the known servers.
LEMMA ServiceNames ==
    ASSUME GraphInv, NEW S, S = {e \in Known \cap Entities : e.kind = "Service"}
    PROVE  Lists(get_service_names, S)
  <1>1. ASSUME NEW n \in get_service_names PROVE n \in NamesOf(S \cup lent)
    <2>1. PICK k \in Keys : k[1] = "service" /\ n \in NamesOf(OfKind("Service", k))
      BY <1>1 DEF get_service_names
    <2>2. PICK e \in Reached(k) : e.typed /\ e.topic = n /\ e.kind = "Service"
      BY <2>1, Named DEF OfKind
    <2>3. e \in lent \/ e \in Known \cap Entities
      BY FoundKnown DEF Reached
    <2>4. e \in S \cup lent
      BY <2>2, <2>3
    <2> QED
      BY <2>2, <2>4, Named
  <1>2. ASSUME NEW n \in NamesOf(S) PROVE n \in get_service_names
    <2>1. PICK e \in S : e.typed /\ e.topic = n
      BY <1>2, Named
    <2>2. PICK k : k = <<"service", n>>
      OBVIOUS
    <2>3. k \in KeysOf(e) /\ e \in Known \cap Entities /\ e.kind = "Service"
      BY <2>1, <2>2, KeyFacts DEF Callable
    <2>4. k \in Keys /\ e \in OfKind("Service", k) /\ k[1] = "service"
      BY <2>2, <2>3, FoundKnown DEF Keys, OfKind, Reached
    <2>5. n \in NamesOf(OfKind("Service", k))
      BY <2>1, <2>4, Named
    <2> QED
      BY <2>4, <2>5 DEF get_service_names
  <1> QED
    BY <1>1, <1>2 DEF Lists

\* The nodes are the known ones: their Arcs are in no result.
LEMMA NodeNames ==
    ASSUME GraphInv
    PROVE  get_node_names = {e \in Known \cap Entities : e.kind = "Node"}
  <1>1. ASSUME NEW e \in Entities, e.kind = "Node" PROVE e \in Reached(<<"node", e.node>>) <=> e \in Known
    <2>1. PICK k : k = <<"node", e.node>>
      OBVIOUS
    <2>2. k \in KeysOf(e)
      BY <2>1, KeyFacts
    <2>3. e \in Reached(k) <=> e \in Known
      BY <1>1, <2>2, FoundKnown DEF Reached
    <2> QED
      BY <2>1, <2>3
  <1> QED
    BY <1>1 DEF get_node_names

\* A node of which something is known exists.
LEMMA NodeExists ==
    ASSUME GraphInv, NEW n, NEW e \in Known \cap Entities, e.node = n
    PROVE  node_exists(n)
  <1>1. PICK k : k = <<"node", n>>
    OBVIOUS
  <1>2. k \in KeysOf(e) /\ k \in Keys /\ e \in Indexed(k)
    BY <1>1, KeyFacts DEF Keys, Indexed, Having
  <1>3. CASE e \in parsed
    <2>1. LiveIn(index, k) # {}
      BY <1>2, <1>3 DEF GraphInv, Complete
    <2>2. k \in DOMAIN index
      BY <2>1 DEF LiveIn
    <2> QED
      BY <1>1, <2>2 DEF node_exists
  <1>4. CASE e \notin parsed
    <2>1. e \in Unparsed
      BY <1>4 DEF Unparsed, Known
    <2> QED
      BY <1>1, <1>2, <2>1 DEF node_exists
  <1> QED
    BY <1>3, <1>4

\* A query by node answers for the entities of that node, if any is known.
LEMMA NodeAnswers ==
    ASSUME GraphInv, NEW n, NEW q, \E e \in Known \cap Entities : e.node = n,
           NEW S, S = {e \in Known \cap Entities : e.node = n /\ e.kind = q}
    PROVE  Lists(IfNode(n, get_names_by_node(q, n)), S)
  <1>1. IfNode(n, get_names_by_node(q, n)) = get_names_by_node(q, n)
    BY NodeExists DEF IfNode
  <1>2. PICK k : k = <<"node", n>>
    OBVIOUS
  <1>3. \A e : k \in KeysOf(e) <=> e.node = n
    BY <1>2, KeyFacts
  <1>4. OfKind(q, k) \subseteq S \cup lent /\ S \subseteq OfKind(q, k)
    BY <1>3, FoundKnown DEF OfKind, Reached
  <1>5. get_names_by_node(q, n) = NamesOf(OfKind(q, k))
    BY <1>2 DEF get_names_by_node
  <1>6. NamesOf(S) \subseteq NamesOf(OfKind(q, k)) /\ NamesOf(OfKind(q, k)) \subseteq NamesOf(S \cup lent)
    BY <1>4, Named
  <1> QED
    BY <1>1, <1>5, <1>6 DEF Lists

\* The answers of the rmw layer are what is known.
LEMMA Answered ==
    ASSUME GraphInv
    PROVE  AnswersKnown
  <1>1. ASSUME NEW t \in Topics
        PROVE  /\ Answers(rmw_get_publishers_info_by_topic(t), OfKnown("Publisher", t))
               /\ Answers(rmw_get_subscriptions_info_by_topic(t), OfKnown("Subscription", t))
               /\ Counts(rmw_count_publishers(t), OfKnown("Publisher", t))
               /\ Counts(rmw_count_subscribers(t), OfKnown("Subscription", t))
               /\ Counts(rmw_count_clients(t), OfKnown("Client", t))
               /\ Counts(rmw_count_services(t), OfKnown("Service", t))
    <2>1. "Publisher" \in Matchable /\ "Subscription" \in Matchable /\ "Client" \in Callable /\ "Service" \in Callable
      BY DEF Matchable, Callable
    <2> QED
      BY <2>1, KindsKnown DEF rmw_get_publishers_info_by_topic, rmw_get_subscriptions_info_by_topic,
            rmw_count_publishers, rmw_count_subscribers, rmw_count_clients, rmw_count_services
  <1>2. ASSUME NEW t \in Topics, OfKnown("Service", t) # {}
        PROVE  rmw_service_server_is_available(t)
    <2>1. PICK S : S = OfKnown("Service", t)
      OBVIOUS
    <2>2. S \subseteq Entities
      BY <2>1 DEF OfKnown
    <2>3. IsFiniteSet(S) /\ Cardinality(S) \in Nat /\ Cardinality(S) # 0
      BY <1>2, <2>1, <2>2, FS_Subset, FS_CardinalityType, FS_EmptySet
    <2>4. PICK n : n = rmw_count_services(t)
      OBVIOUS
    <2>5. n \in Nat
      <3>1. /\ Cardinality({e \in Found(<<"service", t>>) : e.kind = "Service"}) \in Nat
            /\ Cardinality({e \in Slab(<<"service", t>>).held : e.kind = "Service"}) \in Nat
        BY FoundFinite DEF Reached
      <3> QED
        BY <2>4, <3>1 DEF rmw_count_services, CountOf
    <2>6. Cardinality(S) <= n
      BY <1>1, <2>1, <2>4 DEF Counts
    <2> QED
      BY <2>3, <2>4, <2>5, <2>6 DEF rmw_service_server_is_available
  <1>3. /\ Lists(rmw_get_topic_names_and_types, {e \in Known \cap Entities : e.kind \in Matchable})
        /\ Lists(rmw_get_service_names_and_types, {e \in Known \cap Entities : e.kind = "Service"})
    BY TopicNames, ServiceNames DEF rmw_get_topic_names_and_types, rmw_get_service_names_and_types
  <1>4. rmw_get_node_names = {e \in Known \cap Entities : e.kind = "Node"}
    BY NodeNames DEF rmw_get_node_names
  <1>5. ASSUME NEW c \in snapshot.topics
        PROVE  Counts(c[2], OfKnown("Publisher", c[1])) /\ Counts(c[3], OfKnown("Subscription", c[1]))
    <2>1. PICK t : c = <<t, CountOf("Publisher", <<"topic", t>>), CountOf("Subscription", <<"topic", t>>)>>
      BY DEF snapshot
    <2>2. /\ Counts(CountOf("Publisher", <<"topic", t>>), OfKnown("Publisher", t))
          /\ Counts(CountOf("Subscription", <<"topic", t>>), OfKnown("Subscription", t))
      BY KindsKnown DEF Matchable
    <2> QED
      BY <2>1, <2>2
  <1>6. ASSUME NEW n \in Nodes, \E e \in Known \cap Entities : e.node = n
        PROVE  LET here(kind) == {e \in Known \cap Entities : e.node = n /\ e.kind = kind}
               IN  /\ Lists(rmw_get_publisher_names_and_types_by_node(n), here("Publisher"))
                   /\ Lists(rmw_get_subscriber_names_and_types_by_node(n), here("Subscription"))
                   /\ Lists(rmw_get_client_names_and_types_by_node(n), here("Client"))
                   /\ Lists(rmw_get_service_names_and_types_by_node(n), here("Service"))
    BY <1>6, NodeAnswers DEF rmw_get_publisher_names_and_types_by_node, rmw_get_subscriber_names_and_types_by_node,
          rmw_get_client_names_and_types_by_node, rmw_get_service_names_and_types_by_node
  <1> QED
    BY <1>1, <1>2, <1>3, <1>4, <1>5, <1>6 DEF AnswersKnown

\* QueriesSound: the queries answer all that is known, and besides it only what
\* is in a result that a caller still has; an entity that is not declared and
\* settled is known only after a late reply; and a slab grows only when the
\* references that upgrade need it.
THEOREM QueriesSoundCorrect == Spec => []QueriesSound
  <1>1. IInv => TypeOK
    <2>1. ASSUME IInv, NEW k \in DOMAIN index
          PROVE  /\ index[k].live \subseteq Indexed(k) /\ index[k].held \subseteq Indexed(k) /\ index[k].dead \in Nat
                 /\ Cardinality(index[k].live) + Cardinality(index[k].held) + index[k].dead <= index[k].cap
      BY <2>1 DEF IInv, GraphInv, IndexOK, SlabOK
    <2>2. IInv => DOMAIN index \subseteq Keys
      BY DEF IInv, GraphInv, IndexOK
    <2> QED
      BY <2>1, <2>2 DEF TypeOK, IInv, GraphInv, LifeInv, TokenInv, EventInv
  <1>2. IInv => AnswersKnown
    BY Answered DEF IInv
  <1>3. IInv => GhostExplained
    BY DEF IInv, ReportInv, GhostExplained, Settled
  <1>4. IInv => SlabsKeepCapacity
    BY DEF IInv, GraphInv, IndexOK, SlabOK, SlabsKeepCapacity
  <1> QED
    BY <1>1, <1>2, <1>3, <1>4, GraphInvariant, PTL DEF QueriesSound

=============================================================================
