------------------------------- MODULE Codegen -------------------------------
(***************************************************************************)
(* The code generator of ros-z-codegen as a build script runs it: the      *)
(* parsed interface files are filtered, the messages are resolved by a     *)
(* loop over a queue (resolver.rs), then the services and the actions, and *)
(* the Rust code is generated.  The order of the queue is the order of the *)
(* directory, hence arbitrary.                                             *)
(*                                                                         *)
(* A message is [pkg, name, fields, dir] as in TypeHash, where dir says    *)
(* that its file lies in a directory "srv" or "msg".  A service has a      *)
(* request and a response (messages); an action a goal and, or not, a      *)
(* result and a feedback.                                                  *)
(***************************************************************************)
EXTENDS TypeHash

CONSTANTS MessageFiles, ServiceFiles, ActionFiles, \* sets of sets: the inputs explored
          StandardPackages,   \* what the crate ros_z_msgs provides
          StagnationLimit,    \* 100 in the code
          MAX_ITERATIONS      \* 10000 in the code

VARIABLES config, files,      \* [humble, external, local]; [messages, services, actions]
          stage, queue, iterations, last_queue_size, stagnant,
          type_descriptions,  \* of the resolver: key -> description
          resolved,           \* resolved messages: key -> hash and definition
          services, actions,  \* resolved: the file and its hashes
          generated           \* the types the code defines and the ones it names
genVars == <<config, files, stage, queue, iterations, last_queue_size, stagnant,
             type_descriptions, resolved, services, actions, generated>>

message_key(m) == <<m.pkg, m.name>>
Zero == [desc |-> [name |-> <<>>, fields |-> <<>>], refs |-> {}]   \* TypeHash::zero
FieldsOf(m) == {m.fields[i] : i \in 1..Len(m.fields)}
NestedFields(m) == {f \in FieldsOf(m) : ~is_primitive_type(f.base)}
Extended(map, k, v) == [x \in DOMAIN map \cup {k} |-> IF x = k THEN v ELSE map[x]]

-----------------------------------------------------------------------------
(* lib.rs *)

filter_messages(ms) ==
    {m \in ms : /\ m.pkg # "actionlib_msgs"
                /\ m.name[2] \notin {"_Request", "_Response"}
                /\ m.dir # "srv"
                /\ \A f \in FieldsOf(m) : f.base[1] # "wstring"}

ExternalPackages(c) == IF c.external THEN StandardPackages \ c.local ELSE {}

-----------------------------------------------------------------------------
(* resolver.rs: messages *)

is_type_resolved_in_context(f, pkg) ==
    \/ f.pkg # "none" /\ f.pkg \in ExternalPackages(config)
    \/ <<Package(f, pkg), f.base>> \in DOMAIN type_descriptions

\* A mutant: only the first field is looked at.
all_deps_resolved_First(m) ==
    m.fields = <<>> \/ is_primitive_type(m.fields[1].base)
        \/ is_type_resolved_in_context(m.fields[1], m.pkg)

all_deps_resolved(m) == \A f \in NestedFields(m) : is_type_resolved_in_context(f, m.pkg)

\* The text of a message is followed by the texts of the types it names with
\* their package; one of its own package, written without, is not included.
expand_definition(m, done) ==
    {message_key(m)} \cup
    UNION {done[k].definition : k \in {<<f.pkg, f.base>> : f \in FieldsOf(m)} \cap DOMAIN done}

resolve_message(m, known, done) ==
    [hash |-> calculate_type_hash(m, known), definition |-> expand_definition(m, done)]

\* What follows each attempt, with the queue it leaves.
Stagnation(rest) ==
    /\ last_queue_size' = Len(rest)
    /\ stagnant' = IF Len(rest) = last_queue_size THEN stagnant + 1 ELSE 0
    /\ stage' = IF stagnant' > StagnationLimit THEN "stalled" ELSE stage

\* One turn of the loop: the first message is resolved or queued again.
Attempt ==
    /\ stage = "messages" /\ queue # <<>> /\ iterations < MAX_ITERATIONS
    /\ iterations' = iterations + 1
    /\ LET m == Head(queue)
           ready == all_deps_resolved(m)
       IN  /\ queue' = IF ready THEN Tail(queue) ELSE Append(Tail(queue), m)
           /\ type_descriptions' = IF ready THEN Extended(type_descriptions, message_key(m), type_description(m))
                                   ELSE type_descriptions
           /\ resolved' = IF ready THEN Extended(resolved, message_key(m), resolve_message(m, type_descriptions, resolved))
                          ELSE resolved
    /\ Stagnation(queue')
    /\ UNCHANGED <<config, files, services, actions, generated>>

Exceeded ==
    /\ stage = "messages" /\ queue # <<>> /\ iterations >= MAX_ITERATIONS
    /\ stage' = "exceeded"
    /\ UNCHANGED <<config, files, queue, iterations, last_queue_size, stagnant,
                   type_descriptions, resolved, services, actions, generated>>

Advance(from, to) ==
    /\ stage = from /\ stage' = to
    /\ UNCHANGED <<config, files, queue, iterations, last_queue_size, stagnant,
                   type_descriptions, resolved, services, actions, generated>>

MessagesDone == queue = <<>> /\ Advance("messages", "services")

-----------------------------------------------------------------------------
(* resolver.rs: services *)

EventInfo == <<"service_msgs", Plain("ServiceEventInfo")>>
Time == <<"builtin_interfaces", Plain("Time")>>
UUID == <<"unique_identifier_msgs", Plain("UUID")>>
GoalInfo == <<"action_msgs", Plain("GoalInfo")>>
Known(keys, map) == {map[k] : k \in keys \cap DOMAIN map}

\* The full name "pkg/msg/Type" becomes the key "pkg/Type"; one with another
\* directory is looked up as it is, and not found.
NestedKeys(desc, map) ==
    {k \in DOMAIN map : \E n \in Nested(desc) : n[2] \in {"msg", "srv"} /\ k = <<n[1], n[3]>>}

collect_nested_deps(desc, map) ==
    LET RECURSIVE collect(_)
        collect(found) == LET more == found \cup UNION {NestedKeys(map[k], map) : k \in found}
                          IN  IF more = found THEN found ELSE collect(more)
    IN  {map[k] : k \in collect(NestedKeys(desc, map))}

resolve_service(s) ==
    LET known == Extended(Extended(type_descriptions, message_key(s.request), type_description(s.request)),
                          message_key(s.response), type_description(s.response))
        placeholder == config.humble \/ ExternalPackages(config) # {}
        failed == ~placeholder /\ EventInfo \notin DOMAIN known
        deps == Known({EventInfo, Time}, known)
                  \cup collect_nested_deps(type_description(s.request), known)
                  \cup collect_nested_deps(type_description(s.response), known)
        hash == IF placeholder \/ failed THEN Zero
                ELSE calculate_service_type_hash(s.pkg, s.name, type_description(s.request),
                                                 type_description(s.response), known[EventInfo], deps)
    IN  /\ type_descriptions' = known
        /\ stage' = IF failed THEN "no_event_info" ELSE stage
        /\ services' = IF failed THEN services ELSE services \cup {[file |-> s, hash |-> hash]}

resolve_services ==
    /\ stage = "services"
    /\ \E s \in {t \in files.services : t.pkg # "actionlib_msgs"} \ {r.file : r \in services} :
           resolve_service(s)
    /\ UNCHANGED <<config, files, queue, iterations, last_queue_size, stagnant, resolved,
                   actions, generated>>

ServicesDone ==
    /\ {r.file : r \in services} = {t \in files.services : t.pkg # "actionlib_msgs"}
    /\ Advance("services", "actions")

-----------------------------------------------------------------------------
(* resolver.rs: actions.  The hash of an action is its goal's. *)

Ref(name, key) == Field1(name, NESTED_TYPE, 0, <<key[1], "msg", key[2]>>)
Part(a, p) == <<a.pkg, "action", <<a.name[1], p>>>>

calculate_send_goal_hash(a, map) ==
    calculate_service_type_hash(a.pkg, <<a.name[1], "_SendGoal">>,
        [name |-> <<>>, fields |-> <<Ref("goal_id", UUID), Field1("goal", NESTED_TYPE, 0, Part(a, "_Goal"))>>],
        [name |-> <<>>, fields |-> <<Field1("accepted", 15, 0, NoName), Ref("stamp", Time)>>],
        map[EventInfo], Known({UUID, Time, EventInfo}, map) \cup {type_description(a.goal)})

calculate_get_result_hash(a, map) ==
    calculate_service_type_hash(a.pkg, <<a.name[1], "_GetResult">>,
        [name |-> <<>>, fields |-> <<Ref("goal_id", UUID)>>],
        [name |-> <<>>, fields |-> <<Field1("status", 2, 0, NoName),
                                     Field1("result", NESTED_TYPE, 0, Part(a, "_Result"))>>],
        map[EventInfo], Known({UUID, Time, EventInfo}, map) \cup {type_description(a.result)})

calculate_feedback_message_hash(a, map) ==
    calculate_hash(
      [desc |-> [name |-> Part(a, "_FeedbackMessage"),
                 fields |-> <<Ref("goal_id", UUID), Field1("feedback", NESTED_TYPE, 0, Part(a, "_Feedback"))>>],
       refs |-> Known({UUID}, map) \cup {type_description(a.feedback)}])

calculate_cancel_goal_hash(map) ==
    calculate_service_type_hash("action_msgs", Plain("CancelGoal"),
        [name |-> <<>>, fields |-> <<Ref("goal_info", GoalInfo)>>],
        [name |-> <<>>, fields |-> <<Field1("return_code", 2, 0, NoName)>>],
        map[EventInfo], Known({GoalInfo, Time, EventInfo}, map))

\* Everything but the time is written out by hand.
calculate_status_hash(map) ==
    LET GoalStatus == <<"action_msgs", "msg", Plain("GoalStatus")>>
    IN  calculate_hash(
          [desc |-> [name |-> <<"action_msgs", "msg", Plain("GoalStatusArray")>>,
                     fields |-> <<Field1("status_list", 145, 0, GoalStatus)>>],
           refs |-> Known({Time}, map) \cup
             {[name |-> <<"action_msgs", "msg", Plain("GoalInfo")>>,
               fields |-> <<Ref("goal_id", UUID), Ref("stamp", Time)>>],
              [name |-> GoalStatus,
               fields |-> <<Ref("goal_info", GoalInfo), Field1("status", 2, 0, NoName)>>],
              [name |-> <<UUID[1], "msg", UUID[2]>>, fields |-> <<Field1("uuid", 51, 16, NoName)>>]}])

\* "none" for a part the file does not have.
ActionParts(a) == {p \in {a.goal, a.result, a.feedback} : p.name # Plain("none")}
Has(p) == p.name # Plain("none")

resolve_action(a) ==
    LET parts == ActionParts(a)
        map == [k \in DOMAIN type_descriptions \cup {message_key(p) : p \in parts} |->
                  IF \E p \in parts : message_key(p) = k
                  THEN type_description(CHOOSE p \in parts : message_key(p) = k)
                  ELSE type_descriptions[k]]
        failed == ~config.humble /\ EventInfo \notin DOMAIN map
    IN  /\ type_descriptions' = map
        /\ stage' = IF failed THEN "no_event_info" ELSE stage
        /\ actions' = IF failed THEN actions
              ELSE actions \cup
                {[file |-> a, type |-> calculate_type_hash(a.goal, type_descriptions),
                  send_goal |-> IF config.humble THEN Zero ELSE calculate_send_goal_hash(a, map),
                  get_result |-> IF config.humble \/ ~Has(a.result) THEN Zero
                                 ELSE calculate_get_result_hash(a, map),
                  feedback |-> IF Has(a.feedback) THEN calculate_feedback_message_hash(a, map) ELSE Zero,
                  cancel |-> IF config.humble THEN Zero ELSE calculate_cancel_goal_hash(map),
                  status |-> calculate_status_hash(map)]}

resolve_actions ==
    /\ stage = "actions"
    /\ \E a \in files.actions \ {r.file : r \in actions} : resolve_action(a)
    /\ UNCHANGED <<config, files, queue, iterations, last_queue_size, stagnant, resolved,
                   services, generated>>

ActionsDone == {r.file : r \in actions} = files.actions /\ Advance("actions", "generate")

-----------------------------------------------------------------------------
(* lib.rs, generate_cdr_types and generator/rust.rs: the types that are    *)
(* defined and, for each, the paths of its fields.                         *)

Types == {m \in filter_messages(files.messages) : message_key(m) \in DOMAIN resolved}
            \cup UNION {{s.file.request, s.file.response} : s \in services}
            \cup UNION {ActionParts(a.file) : a \in actions}

is_local_package(pkg) == config.local = {} \/ pkg \in config.local

\* A path is the crate, the package and the type.
generate_base_type(f, pkg) ==
    LET p == Package(f, pkg)
    IN  <<IF config.external /\ ~is_local_package(p) THEN "ros_z_msgs" ELSE "super", p, f.base>>

generate_cdr_types ==
    /\ stage = "generate" /\ stage' = "done"
    /\ generated' = [defined |-> {message_key(m) : m \in Types},
                     named |-> {<<m, generate_base_type(f, m.pkg)>> : <<m, f>> \in
                                  UNION {{<<t, g>> : g \in NestedFields(t)} : t \in Types}}]
    /\ UNCHANGED <<config, files, queue, iterations, last_queue_size, stagnant,
                   type_descriptions, resolved, services, actions>>

\* generate_user_messages sets the external crate, and the packages found are
\* local; the build of ros_z_msgs itself sets neither.
GenInit ==
    /\ files \in [messages : MessageFiles, services : ServiceFiles, actions : ActionFiles]
    /\ \E humble, external \in BOOLEAN :
          config = [humble |-> humble, external |-> external,
                    local |-> IF external THEN {f.pkg : f \in files.messages \cup files.services \cup files.actions}
                              ELSE {}]
    /\ queue \in SetToSeqs(filter_messages(files.messages))
    /\ stage = "messages" /\ iterations = 0 /\ stagnant = 0 /\ last_queue_size = Len(queue)
    /\ type_descriptions = [k \in {} |-> Zero] /\ resolved = [k \in {} |-> Zero]
    /\ services = {} /\ actions = {} /\ generated = [defined |-> {}, named |-> {}]

GenNext == Attempt \/ Exceeded \/ MessagesDone \/ resolve_services \/ ServicesDone
             \/ resolve_actions \/ ActionsDone \/ generate_cdr_types

-----------------------------------------------------------------------------
(* Properties *)

\* The hash of a message (resolver.rs, resolve_messages) depends on the files
\* alone, not on the order in which the directory lists them: it is what one
\* gets when every dependency is known beforehand.  So is its definition: the
\* messages that can be reached along fields that name their package.
HashIgnoresOrder ==
    LET kept == filter_messages(files.messages)
        step(S) == S \cup {k \in kept : \E s \in S : \E f \in FieldsOf(s) : <<f.pkg, f.base>> = message_key(k)}
        Reach(m) == {message_key(k) : k \in step(step(step({m})))}
        all == [k \in {message_key(m) : m \in kept} |->
                  type_description(CHOOSE m \in kept : message_key(m) = k)]
    IN  \A m \in kept : message_key(m) \in DOMAIN resolved =>
            /\ resolved[message_key(m)].hash = calculate_type_hash(m, all)
            /\ resolved[message_key(m)].definition = Reach(m)

\* The loop gives up only after StagnationLimit + 1 attempts in a row that failed,
\* and each message tried then still waits for a type that is not there.  So a
\* queue that is no longer than that is stuck; of a longer one the messages in
\* front have not been tried again.
StallsAfterAttempts ==
    stage = "stalled" =>
        \A i \in 1..Len(queue) : i >= Len(queue) - StagnationLimit => ~all_deps_resolved(queue[i])

\* A service's hash describes every type its description names, however
\* deeply nested (types that look like parts of actions excepted).
ServiceHashClosed ==
    LET plain(n) == n[2] # "action"
        names(h) == UNION {Nested(d) : d \in {h.desc} \cup h.refs}
    IN  \A r \in services : r.hash # Zero /\
            (\A k \in DOMAIN type_descriptions : k[2][2] \notin DOMAIN ActionSuffix) =>
          \A n \in names(r.hash) : (\E d \in r.hash.refs : d.name = n) \/ ~plain(n)
              \/ <<n[1], n[3]>> \notin DOMAIN type_descriptions

\* Every path a generated message names is a generated type or one of the
\* packages ros_z_msgs provides (generator/rust.rs).  Only messages: nobody
\* checks the types that services and actions use.
PathsExist ==
    \A p \in generated.named :
        p[1] \in files.messages =>
            CASE p[2][1] = "super" -> <<p[2][2], p[2][3]>> \in generated.defined
              [] OTHER -> p[2][2] \in StandardPackages
=============================================================================
