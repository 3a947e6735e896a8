----------------------------- MODULE RmwContext -----------------------------
(***************************************************************************)
(* The options and the context of rmw (context.rs of rmw-zenoh-rs).  Every *)
(* function runs on structs the caller owns, one call after the other:     *)
(* each is one step.                                                       *)
(*                                                                         *)
(* Options own blocks of memory (0 is the null pointer): the security root *)
(* path, the static peers of the discovery options and the enclave.        *)
(***************************************************************************)
EXTENDS Integers

CONSTANTS
    Structs,     \* the options structs of the caller
    MaxBlocks,   \* bound on the blocks that are allocated
    MaxNodes     \* bound on the nodes that are created

ASSUME MaxBlocksAssumption == MaxBlocks \in Nat
ASSUME MaxNodesAssumption == MaxNodes \in Nat

VARIABLES
    allocator,   \* whether a struct has its allocator
    owned,       \* the block in each field of a struct
    blocks,      \* the blocks that are allocated and not freed
    allocated,   \* how many blocks were handed out
    twice,       \* whether a block was freed that was not allocated any more
    context

optionVars == <<allocator, owned, blocks, allocated, twice>>

\* The fields, in the order in which they are copied.
Nth == [security |-> 1, discovery |-> 2, enclave |-> 3]
Fields == {"security", "discovery", "enclave"}

\* Zero-initialised structs.
OptionInit ==
    /\ allocator = [o \in Structs |-> FALSE]
    /\ owned = [o \in Structs |-> [f \in Fields |-> 0]]
    /\ blocks = {} /\ allocated = 0 /\ twice = FALSE

\* A block that was never handed out, for each field.
NewBlock(f) == allocated + Nth[f]
Allocate(fs) ==
    /\ allocated + 3 <= MaxBlocks
    /\ allocated' = allocated + 3
    /\ blocks' = blocks \cup {NewBlock(f) : f \in fs}

Unused(o) == \A f \in Fields : owned[o][f] = 0

\* The domain and the identifier are set; no static peers.
rmw_init_options_init(o) ==
    /\ Unused(o)
    /\ allocator' = [allocator EXCEPT ![o] = TRUE]
    /\ owned' = [owned EXCEPT ![o]["discovery"] = 0]
    /\ UNCHANGED <<blocks, allocated, twice>>

\* What rcl puts into the options after it.
FilledIn(o, fs) ==
    /\ Unused(o) /\ allocator[o]
    /\ Allocate(fs)
    /\ owned' = [owned EXCEPT ![o] = [f \in Fields |-> IF f \in fs THEN NewBlock(f) ELSE 0]]
    /\ UNCHANGED <<allocator, twice>>

\* The fields that a copy gives blocks of their own; a null pointer stays null.
CopiedFields(src, fails) == {f \in Fields : owned[src][f] # 0 /\ Nth[f] < fails}

\* A mutant: the pointer to the enclave is copied.
rmw_init_options_copy_Shallow(src, dst, fails) ==
    /\ allocator[src]
    /\ Unused(dst)
    /\ fails = 3 => owned[src]["enclave"] # 0
    /\ Allocate(CopiedFields(src, fails))
    /\ allocator' = [allocator EXCEPT ![dst] = TRUE]
    /\ owned' = [owned EXCEPT ![dst] =
                    [f \in Fields |-> IF f = "enclave" THEN owned[src][f]
                                      ELSE IF f \in CopiedFields(src, fails) THEN NewBlock(f)
                                      ELSE IF Nth[f] < fails \/ (Nth[f] = fails /\ f # "enclave") THEN 0
                                      ELSE owned[dst][f]]]
    /\ UNCHANGED twice

\* Without an allocator nothing is done.  The test that dst is not initialised
\* looks at impl_, which is always null: Unused(dst) is up to the caller.  The
\* copy of the field number fails (1 to 3; 4 if none does) returns with what was
\* copied before it in place; security and discovery are zeroed first.
rmw_init_options_copy(src, dst, fails) ==
    /\ allocator[src]
    /\ Unused(dst)
    /\ fails = 3 => owned[src]["enclave"] # 0
    /\ Allocate(CopiedFields(src, fails))
    /\ allocator' = [allocator EXCEPT ![dst] = TRUE]
    /\ owned' = [owned EXCEPT ![dst] =
                    [f \in Fields |-> IF f \in CopiedFields(src, fails) THEN NewBlock(f)
                                      ELSE IF Nth[f] < fails \/ (Nth[f] = fails /\ f # "enclave") THEN 0
                                      ELSE owned[dst][f]]]
    /\ UNCHANGED twice

\* The enclave is freed if there is an allocator, the rest by rmw's own functions.
rmw_init_options_fini(o) ==
    LET freed == {f \in Fields : owned[o][f] # 0 /\ (f = "enclave" => allocator[o])} IN
    /\ blocks' = blocks \ {owned[o][f] : f \in freed}
    /\ owned' = [owned EXCEPT ![o] = [f \in Fields |-> IF f \in freed THEN 0 ELSE owned[o][f]]]
    /\ twice' = (twice \/ \E f \in freed : \/ owned[o][f] \notin blocks
                                           \/ \E g \in freed \ {f} : owned[o][f] = owned[o][g])
    /\ UNCHANGED <<allocator, allocated>>

OptionNext ==
    \/ \E o \in Structs :
          \/ rmw_init_options_init(o)
          \/ \E fs \in SUBSET Fields : FilledIn(o, fs)
          \/ rmw_init_options_fini(o)
    \/ \E src, dst \in Structs : \E fails \in 1..4 : src # dst /\ rmw_init_options_copy(src, dst, fails)

-----------------------------------------------------------------------------
(* The context: whether it has its implementation, was shut down, says which *)
(* implementation it belongs to, and the nodes that hold on to it.           *)
ZeroContext == [impl |-> FALSE, is_shutdown |-> FALSE, identifier |-> FALSE, nodes |-> {},
                live |-> {}, made |-> 0, ret |-> "OK"]
Returns(c, ret) == [c EXCEPT !.ret = ret]

\* Neither here nor elsewhere is implementation_identifier assigned.
rmw_init(c, opens) ==
    IF c.impl THEN Returns(c, "ALREADY_INIT")
    ELSE IF ~opens THEN Returns(c, "ERROR")
    ELSE [c EXCEPT !.impl = TRUE, !.is_shutdown = FALSE, !.nodes = {}, !.ret = "OK"]

\* The node points to the context; the map of nodes is left as it is, and a
\* context that was shut down still makes nodes.  If the node or its graph guard
\* condition cannot be made, the half-made node is dropped.
rmw_create_node(c, nodeBuilt, guardBuilt) ==
    IF ~c.impl \/ ~nodeBuilt \/ ~guardBuilt THEN Returns(c, "NULL")
    ELSE [c EXCEPT !.made = @ + 1, !.live = @ \cup {c.made + 1}, !.ret = "OK"]
rmw_destroy_node(c, n) == [c EXCEPT !.live = @ \ {n}, !.ret = "OK"]
rmw_shutdown(c) ==
    IF ~c.impl THEN Returns(c, "INVALID_ARGUMENT") ELSE [c EXCEPT !.is_shutdown = TRUE, !.ret = "OK"]
rmw_context_fini(c) ==
    IF ~c.impl \/ ~c.is_shutdown \/ c.nodes # {} \/ ~c.identifier
    THEN Returns(c, "INVALID_ARGUMENT")
    ELSE [c EXCEPT !.impl = FALSE, !.ret = "OK"]

ContextNext ==
    \/ \E opens \in BOOLEAN : context' = rmw_init(context, opens)
    \/ /\ context.made < MaxNodes
       /\ \E nodeBuilt, guardBuilt \in BOOLEAN : context' = rmw_create_node(context, nodeBuilt, guardBuilt)
    \/ \E n \in context.live : context' = rmw_destroy_node(context, n)
    \/ context' = rmw_shutdown(context)
    \/ context' = rmw_context_fini(context)

RmwInit == OptionInit /\ context = ZeroContext
RmwNext ==
    \/ OptionNext /\ UNCHANGED context
    \/ ContextNext /\ UNCHANGED optionVars
RmwSpec == RmwInit /\ [][RmwNext]_<<optionVars, context>>

-----------------------------------------------------------------------------

\* The options of rmw's callers give back what they took: as long as options
\* are copied into unused ones only, no block is freed twice or belongs to two,
\* and none is lost, a copy that failed halfway included.
OptionsFreed ==
    /\ ~twice
    /\ \A o, p \in Structs : \A f, g \in Fields :
          owned[o][f] # 0 /\ owned[o][f] = owned[p][g] => o = p /\ f = g
    /\ blocks = (UNION {{owned[o][f] : f \in Fields} : o \in Structs}) \ {0}
=============================================================================
