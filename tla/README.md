# ros-z: TLA+ models and proofs

ros-z is a ROS 2 client library in Rust on top of the Zenoh transport. It has a
native API (`crates/ros-z`), an implementation of the C middleware interface
`rmw` (`crates/rmw-zenoh-rs`), Python bindings (`crates/ros-z-py`) and a code
generator for message types (`crates/ros-z-codegen`). This directory holds TLA+
models of these parts, the TLC configurations that check them, and proofs that
TLAPS checks. `PROJECT.json` maps every modelling definition to its source lines
and lists runs, mutants, findings, hazards and theorems.

Paths below are relative to `src/crates/`.

## 1. Inventory

### Components with an order of events

**Bounded queue** (`ros-z/src/queue.rs`). A `VecDeque` under a mutex, a
condition variable for blocking receivers, an `event_listener::Event` for async
ones. Operations: `push` (drops the oldest item when full), `recv`,
`recv_timeout`, `try_recv`, `recv_async`. Hard: lost wake-ups, futures dropped at
their await, races between receivers, overflow. Correct when no item is lost,
doubled or reordered except the oldest one that overflow drops, and when nobody
sleeps beside an item.

**Publish and subscribe** (`ros-z/src/{pubsub,common}.rs`,
`rmw-zenoh-rs/src/pubsub.rs`). A publisher has a sequence counter that threads
share; publishing serializes (to shared memory or heap), stamps and puts, with
other threads in between. A subscription has a queue or a callback. Hard:
interleaved stamps, best-effort loss, overflow during `rmw_take_sequence`,
payloads that do not deserialize. Correct when what is read is a message, once,
in its thread's order and among the newest, and when stamps are unique.

**Services** (`ros-z/src/service.rs`, `rmw-zenoh-rs/src/service.rs`,
`ros-z-py/src/service.rs`). The client's sequence counter (two of them under
rmw), its response channel, the server's request queue and its map of pending
queries; under Python also the mutexes around both. Hard: several clients use the
same numbers, both buffers overflow in opposite ways, sends fail after a number
was drawn, answers come after the timeout, two counters must agree, and a Python
worker holds the server's lock while it waits. Correct when a response answers
the request its taker made, at most once, and requests are answered.

**Action server** (`ros-z/src/action/{server,driver,state}.rs`). The goal manager
(goals, waiting result senders), goal handles with a cancel flag, three service
queues, the status topic, a result-only task and the driver loop. Hard: goals run
in tasks beside the driver, which awaits results inside its loop; the lock is
given up between read and publication; a goal can expire while it runs. Correct
when a goal goes through the states of `action/mod.rs`, every waiter that can be
answered is, and the server stops.

**Action client** (`ros-z/src/action/client.rs`). The goal board with a feedback
and a status channel per goal, and one response channel per service, shared by
all calls. Hard: concurrent calls take each other's responses; status lists
arrive in another order than they were made; futures are dropped. Correct when
each reply is taken once, the board has an entry for exactly the live goals, and
`result()` notices a final status.

**Wait sets and guard conditions** (`rmw-zenoh-rs/src/{wait_set,guard_condition,utils}.rs`).
Readiness of subscriptions, services, clients, events and guard conditions; one
mutex and condition variable (`Notifier`) for all wait sets of a context. Hard:
producers notify without the mutex, the wait sleeps before it looks, the arrays
are collected after the mutex was released. Correct when what becomes ready is
reported and no trigger is lost.

**On-new-data callbacks** (`rmw-zenoh-rs/src/{rmw,service}.rs`). Callback, user
data and unread counter, each under a mutex of its own. Hard: the setters take
the mutexes one after the other while items arrive. Correct when every item is
announced once and none is left unread beside a callback.

**Graph cache, rmw entities and event managers** (`ros-z/src/{graph,event}.rs`,
`rmw-zenoh-rs/src/{rmw,node}.rs`). Liveliness tokens not yet parsed, parsed
entities, weak indexes by topic, service and node; counters and callbacks of
events; the set of guard conditions. Hard: the initial query races with the
liveliness subscriber and with local creation; indexes are cleaned lazily;
entities are created and destroyed in several steps. Correct when queries answer
what is declared, and changes trigger only what exists.

**Code generator** (`ros-z-codegen`, `ros-z-msgs/build.rs`). A work list of
messages that are resolved once their dependencies are. Hard: files come in any
order, a stagnation limit ends the loop. Correct when the result does not depend
on the order and the loop gives up only where something is missing.

### Components that are algorithms on data

QoS profiles (four representations), topic names, key expressions and liveliness
tokens (two formats), remap rules, CDR and dynamic messages, type descriptions
and hashes (computed in three places), interface files, generated Python and
protobuf, the type description service and its client, configuration and
contexts, rmw's options and context. They are correct when encodings round-trip,
when two implementations of the same thing agree, and when what is promised in a
comment or an example holds for every input.

### How they interact

A transport callback of Zenoh pushes a sample or query into a *bounded queue*,
then runs `notify_callback` (*on-new-data callbacks*) and `notify_all` (*wait
sets*). Executor threads leave `rmw_wait`, take from the queue and, for a
*service*, answer through the pending map. An *action* is three services and two
topics: its server reads their queues in manual mode or in the driver loop, its
client shares one response channel per service. The *graph cache* is fed by
liveliness callbacks and by local creation; it triggers guard conditions and
events that wake wait sets. Type *hashes* are part of the key expressions on
which publishers and subscriptions meet, so the code generator, the dynamic
schemas and the Python registry must compute the same ones.

## 2. Modules

| module | models | state and actions |
|---|---|---|
| `BoundedQueue` | `queue.rs` | items are numbered by `pushed`; `pc` is where each receiver is; `notified` holds the listeners the event has notified. One action per critical section. |
| `PubSub` | `pubsub.rs` of both crates, `common.rs`, parts of `shm.rs` | `step` is where each publishing thread is; `net` is the transport's order per publisher and subscription; `queue`, `arrived`, `taken` per subscription. |
| `Service` | `service.rs` of both crates | `place` follows each query, `map` is the set of pending entries, `told` and `wire` are the two numbers of a request, `crossed` the requests whose sends through one client overlapped; `NativeClients` and `NativeServer` say who uses ros-z itself and who rmw's functions. |
| `PyService` | `ros-z-py/src/service.rs` | extends `Service` with the calls of Python threads and the server's lock. |
| `GoalLifecycle` | the table of `action/mod.rs` and what `GoalHandle::canceled` adds | abstract specification: status of each goal, statuses reported for it. |
| `ActionServer` | `action/{server,driver,state}.rs` | `handle` is the goal handle's type state, `goals` the stored record, `flag` the shared AtomicBool, `result_futures` the waiting senders; each closure given to `SafeGoalManager` and each reply or publication outside the lock is a step; the `discard` steps are the early returns for requests that do not deserialize. |
| `ActionClient` | `action/client.rs` | `call` is where each goal's task is, `board` the goal board, `status` the watch channel, `rx` the shared channels; the server is the environment. |
| `WaitSet` | `wait_set.rs`, `guard_condition.rs`, `utils.rs` | `pc` is where a thread is in `rmw_wait`; both scans are one step per waitable, in any order. |
| `NewDataCallback` | the setters of `rmw.rs` and `notify_callback` | `setter` is where the executor's setter is; `kind` tells the subscription's setter from that of services and clients; `calls` and `successive` record who was called with whose data and which setting followed which. |
| `GraphCache` | `GraphData` of `graph.rs` | operations under the graph's mutex: `cached`, `parsed`, the slabs of `index` with live, held and dead references, and `lent`, the Arcs that a caller of `get_entities_by_topic` or `get_entities_by_service` still has. |
| `RmwGraph` | `graph.rs`, and creation, destruction and queries of `rmw.rs` and `node.rs` | extends `GraphCache`; `pc` is where the creation or destruction of a local entity is, `wire` what liveliness has still to deliver, `replies` the answers to the initial query. |
| `Codegen` | `resolver.rs`, `generator/`, `lib.rs` of the generator | `stage` of the generator and the resolver's `queue`. Functions of `TypeHash` compute hashes. |
| `Events` | `event.rs` and the event functions of `rmw.rs` | `manager` is one event's status and callback; one action per operation under the manager's mutex, with histories of what appeared, was announced, taken and lost. |
| `RmwContext` | `context.rs` of rmw, creation of nodes | `owned` is the block in each field of each options struct, `blocks` what is allocated; `context` from init to fini. A copy may fail at any of its fields, a node at its builder or at its guard condition. |
| `Qos`, `Names`, `Cdr`, `TypeHash`, `Parser`, `Bindings`, `Build`, `TypeDiscovery`, `Config` | the algorithms on data | operators only; operations on a locked or caller-owned struct are functions from its state to its state. |
| `MC*` | | instances: symmetry, functions for constants, and for the data modules the inputs and properties. `MCData` puts them together: a state is one input of one part (`part` and `x` of `MCInput`), or a state of the code generator, an event manager, rmw's options and context or a callback's setters. |
| `*Proofs` | | theorems. |

Definitions whose comment calls them a mutant are faulty variants of the
definition that follows them. No specification uses them; `PROJECT.json` says
which property finds each of them when it takes the place of the original.

What the models abstract: message contents (a request deserializes or it does
not; the bytes of a message are modelled in `Cdr`), time (a timeout may expire at
any moment while it is running), logging. Text is a sequence of tokens rather
than characters. SHA-256 is an injective function of what it is applied to.
External code is modelled from its use: `parking_lot::Condvar` (a notified waiter
reacquires the lock later, no spurious wake-ups), `event_listener::Event`
(`notify(1)` does nothing while a notified listener has not consumed its
notification; a dropped listener passes its notification on), Zenoh (queries and
replies arrive in any order; a reply after the querier's timeout is discarded;
samples of one publisher keep their order; liveliness reports a token's changes
in order), and rmw's callers (`rclcpp` does not use a handle it destroyed).

## 3. Runs

| run | instance | what it checks |
|---|---|---|
| `queue_receivers` | capacity 2, two threads, one task, 4 pushes | items, order, wake-ups, service of waiting receivers |
| `pubsub` | two threads on an rmw publisher, a third on a best-effort native one, shared memory, one subscription of every kind that comes and goes, depth 2 | stamps, faithfulness of what is read, delivery |
| `service_rmw` | an rmw client whose sends may overlap and a native one, an rmw server, four requests, server queue 2, channels 1, timeouts and failing sends | correlation, single answers |
| `service_python` | two clients, two workers, four requests of which one is malformed, calls that give up | pairing in Python, answers unless a worker is held up |
| `action_server` | one goal, two result requests, one cancel request, queue depth 1, goal timeout, handles may be dropped, requests may not deserialize | safety, refinement of `GoalLifecycle` |
| `action_server_hang` (violation) | one goal, one result and one cancel request | `ShutdownCompletes`: fails |
| `action_client` | two goals, one of which is cancelled, channels of depth 1, two status lists | replies, goal board, end of `result()` |
| `wait_set_spin` | two executors with wait sets of their own, zero and finite timeouts | triggers, readiness, end of waits |
| `wait_set_lost` (violation) | the same with infinite timeouts | `RecheckNotified`: fails |
| `graph` | a local node, service, publisher and an incompatible subscription, of which two are created, and a remote publisher without a type; slabs of two; a caller that keeps a query's result | queries complete and sound, events aimed |
| `data` | all inputs of the domains in `MCData` and its parts; four sets of interface files in every order; two callbacks set, replaced and cleared | the algorithms, and the steps of the code generator, an event manager, rmw's options and context, and the callback setters |
| `type_hash_nested` (violation) | the parsed messages of the data run | `AllReferencesHashed`: fails |

### What the properties say

Several are conjunctions, so that a run lists one property for one promise; the
parts have comments of their own.

*Queue.* `ItemsAccounted`: the queue holds the most recent items in order
(`KeepsMostRecent`), and every item is queued, dropped or obtained by one
receiver, also when a future is cancelled (`ExactlyOnce`). `QueueOrder`: only
overflow drops, and only the oldest; items leave in push order across receivers.
`WaitersNotified`: while a thread sleeps, queued items do not outnumber threads
already woken, and a sole task beside an item has been notified.
`ReceiversServed`: whoever waits beside an item is served or loses it to another.

*Publish and subscribe.* `StampsUnique`; `ReadsFaithful` (`OnceInOrder`,
`KeepsNewest`, `OnlyMessages`); `SamplesReachUser`: what is on its way is handed
to the user, or pushed out of the queue by as many newer samples as it holds,
unless the subscription goes away.

*Services.* `Correlated`: a response comes out at the client that asked, with the
number its own call was told; only if two sends through one rmw client overlapped
may it be the number of the other. `AnswerableOnce`: a key the application holds stands for its
request until that is answered, at most once. `AnswersPaired`: a Python call
returns the answer to its own request unless an earlier one of that client gave
up. `AnsweredUnlessHeldUp`: a request is answered unless its worker waits for the
lock of one that waits for the next request.

*Action server.* `RecordFaithful`: stored record, handle, cancel flag and
published list tell the same story, although goals expire while they run and
lists overtake each other. `NoOrphanedWaiter`: a request the driver waits for is
registered with a goal that has not terminated, or its answer is there.
`SilenceExplained`: a result request stays unanswered only if its goal has
expired or is between acceptance and insertion. `ImplementsLifecycle`: refinement
of `GoalLifecycle`, with the flag standing for "canceling": accepted, executing and
terminal in this order and once, with the extra edge from executing to canceled that
a handler may take unasked. `ShutdownCompletes` (violated): once the last handle is
dropped everything stops.

*Action client.* `RepliesPaired`: a reply is taken once, and by the call that
asked unless calls of that service overlapped or one was given up.
`BoardTracksGoals`; `ResultStopsWaiting`: `result()` does not outwait a status
that stays terminal.

*Wait sets, callbacks.* `TriggersReported`: a trigger is not lost to another
wait's reset, and success is reported with an entry. `ReadyReported`, `WaitEnds`:
liveness with finite timeouts. `NothingForgotten`: every item is announced or
counted once, and a subscription leaves none counted beside a callback.
`DataCurrent`: a callback is called with its own user data or that of the
neighbouring setting, never with older data.

*Graph.* `QueriesComplete`: what is declared and settled is known, and the
indexes hold what is known. `QueriesSound`: every query of rmw answers what is
known, and besides it at most what a caller still holds (names only of endpoints
with a type, and of a node only while something of it is known); what is known is
declared, except what a late reply of the initial query brought back; dead
references do not make slabs grow. `EventsAimed`: no destroyed guard condition is
triggered, an incompatible pair is counted once. Of the matched counts nothing is
claimed: a change reaches the endpoints of every topic (`event.rs:270`), and a
local pair is reported twice.

*Data.* `QosFaithful`, `NamesFaithful`, `WireAgrees`,
`TypesAgree`, `SourcesRead`, `BindingsAgree`, `GeneratorSound`,
`DiscoverySound`, `ContextsSound`: see the parts they name at the end of `MCData`
and `MCQos`; each part's comment says which inputs it makes no claim about.
`EventsSound`: every event that appeared is announced, reported by a
take, unread or lost to a cleared callback, the changes that takes report add up,
and a conflict's policy and count arrive. `OptionsFreed`: no block of any
options is freed twice, shared or lost. `AllReferencesHashed` (violated): what a
message is hashed from describes every resolved type it names, directly or through
another.

### Where the code disagrees with its own text

Three runs end in a violation and are recorded as findings:

- `wait_set_lost`: `notify_all` without the mutex can fall between check and
  sleep, and an infinite wait misses it (`utils.rs:46`);
- `action_server_hang`: the driver awaits a result inside its loop, so neither the
  cancel request that would end the goal nor the shutdown token is read, and
  `abort_all`, which is to kill what hangs (`driver.rs:101`), is never reached;
- `type_hash_nested`: the generator looks references up under another key than the
  resolver files them (`hashing.rs:238`, `resolver.rs:414-416`), so from the second
  level of nesting on referenced types are not part of its hash ("Recursively
  collect all referenced types", `hashing.rs:229`), and it differs from the hash of
  the dynamic schema, which does collect them.

The other disagreements met while modelling are in the models, and no property
asserts them or depends on them: a property is about the inputs and schedules
outside them, as its comment says, and says nothing about those inside. The hazard
list names the main ones.

- two tasks in `recv_async` and two pushes in a row: `notify(1)` is not additive,
  and the second task sleeps beside an item (`queue.rs:98`; with two tasks
  `ReceiversServed` is false); `recv_timeout` returns `None` early if another
  receiver takes its item (`queue.rs:68`);
- `GoalHandle::canceled` ends a goal nobody asked to cancel, an edge that
  `transition_goal_state` calls invalid (`mod.rs:351-356`,
  `goal_state_machine.rs:62-64`); `accept` replies before it stores the goal, so a
  result request in between gets no reply; the zero UUID cancels nothing
  (`messages.rs:12`); an accepted cancellation is answered with return code 1
  (`driver.rs:194`);
- concurrent `send_goal`, `get_result` or `cancel_goal` calls of one action client
  take each other's replies; an error after sending, or a dropped future, leaves the
  goal on the board; a status list published late overwrites a terminal status;
- the rmw client's two counters are advanced by separate operations, so sends that
  overlap can be told each other's number (`rmw-zenoh-rs/src/service.rs:21-22`); a
  Python response that comes late is taken for the next call's, and two workers of a
  Python server can hold each other up (`ros-z-py/src/service.rs:280`);
- an infinite `rmw_wait` sleeps although something is ready already, and every
  notification for another wait set starts a finite one anew;
- the setters of services and clients announce unread items before they store the
  callback, under different locks, and an item in between stays unread
  (`rmw.rs:2174`); a subscription's old callback can be called with the new user data;
- rmw presents an empty or malformed payload as a message; the shared-memory size
  of a message with strings or sequences is estimated from its struct
  (`msg.rs:161`), and publishing it panics; the generated estimate, too, falls short
  of values with much padding (`rust.rs:488-491`);
- a late reply of the initial query brings a deleted entity back; `node_exists` is
  true of a node that is gone until its slab's key goes, which it never does
  (`graph.rs:859-861`); a matched count includes a local endpoint twice and may
  become negative (`graph.rs:573-574`), and a change is reported to endpoints of
  every topic (`event.rs:270`); a count may include an entity twice while a caller
  holds the `Arc` it had before it came back;
- every endpoint of a topic counts as matched: the check behind the counts
  (`rmw_qos_profile_check_compatible`, `qos.rs:244-284`) answers OK or a warning,
  never an error, also where the events report an incompatible policy; the actual
  profile reports `i32::MAX` seconds for an infinite deadline or lease, which is
  shorter than `Duration::INFINITE`;
- an absolute name that holds `%` or ends in two slashes comes back from its token
  as another; remap rules apply to action names only; a relative topic is never
  discovered (`node.rs:492-495`), and discovery may take longer than its timeout
  (`type_description_client.rs:229`, `node.rs:481`); a dynamic publisher's schema
  whose hash cannot be computed is published under the zero hash (`node.rs:451-457`),
  which no schema the model has meets;
- hashes of `byte` fields, bounded strings and empty messages differ between the
  generator and dynamic schemas, and so do those of all messages nested two or more
  levels deep; a bounded sequence of bytes is read but not written again;
- a default value with `#` or `=` loses its field or panics; a field with a bound
  (`string<=5 a`, `int8[<=3] a`) in an action is taken for a constant and lost
  (`action.rs:115-117`, against `action.rs:60`); a `---` with a blank after it, at
  the start, after another or at the end does not split an action (`action.rs:10`);
- every Python type whose name contains Time or Duration defaults to a dict, with
  which a message of such a field cannot be sent; services whose name ends in Request
  or Response lead to another type (`ros-z-py/src/node.rs:61-64`); packages that refer
  to each other give `.proto` files that import each other;
- the stagnation limit counts attempts rather than passes (`resolver.rs:102`);
  user packages with actions must bring `ServiceEventInfo`; the system is no
  fallback for packages the bundle lacks (`build.rs:174`);
- `with_shm_threshold` before shared memory is enabled is dropped,
  `ShmConfig::from_env` is never called, an override that holds `;` is cut;
- `rmw_context_fini` refuses every context (`context.rs:389-390`), since it looks at an
  identifier that `rmw_init` does not set, and the map of nodes it looks at is never
  filled; no property is about contexts.

### Bounds

Two receivers of a kind are the least that can race for one item; capacity two
and four pushes allow overflow while both wait. Two threads on one publisher are
the least that can interleave their stamps, and three messages overflow a depth of
two. One goal with two result requests and a cancel request reaches every pair of
racing operations on a goal: goals share only the queues, the status list and the
driver, and the driver handles one request at a time. Two goals let the action
client's calls overlap, and depth one overflows its channels; with `MaxLists = 2`
an older list can be published after one that is terminal. Two clients with two requests each use equal
sequence numbers, and three pending requests overflow the queue of two. Two
workers are the least that can hold each other up. Two executors share the
notifier, which is what makes notifications meant for the other. Two items
(`MaxItems`) are one for each of the two stores of a setter, or one before and one
inside it; settings are not bounded.
In the graph run two of four local entities are ever created, which gives every
pair; the remote publisher is declared once (`MaxDeclared = 1`) and may go again,
which a late reply of the initial query needs; one result of a query is held at a
time; slabs of two are full when an entity and a reference that died are in them. The
run's VIEW leaves out `matched`, which no other variable and no property but the type
invariant depends on. The domains of the data run hold
two- and three-field messages over every kind of type, names of up to three
tokens with every character the code treats specially, and sequences of up to
five calls. An event manager takes six operations (`MaxEventOps`), with the least
and the largest count a conflict can have; two options structs are allocated three
times three blocks (`MaxBlocks`), enough for a copy of a copy, and three nodes are
created (`MaxNodes`). `Infinite` stands for `Duration::INFINITE`, C's `size_t` is
cut to 26 bits, `MaxSeconds` stands for `i32::MAX` seconds. The generator's limits are
cut to 2 attempts and 9 iterations: with five messages in the largest set the first is
reached by queues that could be resolved as well as by those that could not.
`MaxPush`, `MaxMsgs`, `MaxItems`, `MaxNotifying`, `MaxLists`, `MaxLocal`,
`MaxDeclared`, `MaxEvents`, `MaxEventOps`, `MaxBlocks`, `MaxNodes` and the finite sets of requests and inputs are the only bounds.
Deadlock is not checked where the finite supply lets the system come to rest.

### Fairness

*Queue*: each receiver's own steps are weakly fair (threads and tasks are
scheduled), and a running timeout expires; pushing, calling and cancelling are
not. *Publish and subscribe*: the transport delivers and readers read. *Action
server*: tasks, the driver and the result-only task keep running (tokio polls
ready tasks; `select!` picks ready branches at random), and a handler that sees its
cancel flag ends; no handler has to end otherwise. This is the fairness under which
`ShutdownCompletes` fails. *Action
client*: tasks are polled. *Service*: transport, application and clients keep
going; nobody has to send. *Python*: workers are scheduled and take again after
answering. *Wait set*: producers notify after making something ready, executors
spin, timeouts expire; the mutex is `parking_lot`'s, which is eventually fair,
hence strong fairness of taking it. *Code generator*: the loop runs.

## 4. Proofs

All theorems hold for every value of the constants under the assumptions the
modules declare: positive capacities and depths; names that stand for "nothing"
(`NONE`, `"none"`, `"lost"`) are no requests, workers or goals; the entities of a
graph are finitely many, each of one of the five kinds, and no token is both an
entity and unparsable; the policies of an event are below 2^15 and its counts below
2^16, as `event.rs:217` requires, and the events counted fit `size_t`; an infinite
duration is a positive number. Each invariant behind a theorem was checked by TLC on the
instance of the component's run before it was proved. Every safety invariant the
passing runs check outside the data run is a theorem, and so are `QosFaithful`,
`EventsSound`, `OptionsFreed`, `NothingForgotten` and `DataCurrent` of the data run, parts of its `NamesFaithful`,
the action properties `QueueOrder` and `SilenceExplained` and the refinement of
`GoalLifecycle`.

**`BoundedQueueProofs`.** `TypeCorrect` first. `KeepsMostRecent` is inductive
with it: the queue is the window of the last `Len(data)` numbers. `ExactlyOnce`
needs that window, since it is what tells a popped item from the others; together
they give `ItemsAccountedCorrect`. `QueueOrderCorrect` combines two action
properties that follow from the window step by step. `WaitersNotifiedCorrect`
rests on a count (each push adds one item and moves one sleeper to the woken
threads, and a woken thread that finds an item takes one) and on the listener
that is registered before the check.

**`ServiceProofs`.** `HeldAnswerable` rests on `Numbered` (sent requests of one
client have different numbers, all below its counter) and `Filed` (every query is
where `place` says, and the map's entries carry their own key). `Carried` adds
that a response in flight, in a channel or taken names the request whose key it
carries, `Single` that it is in one of these places and that its query never
returns to the map: with the cardinalities of sets of at most one element they
give `AnswerableOnceCorrect`. For the two counters of an rmw client `ToldInv` adds
`Ahead` (the counter is ahead of `sn` by the calls under way), `ToldApart` (no two
callers of a client are told one number) and `Crossing` (a request that no other
send of its client crossed is told the number it is sent with, and an rmw client has
told each number that its counter has passed). That
gives `CorrelatedCorrect` with no assumption on who calls when, and
`CallersApartCorrect`: no two callers are told one number, the counters agree again
once no call is under way, and a response reaches the client that asked, with the
number its request was sent with. For Python `PyStepOfService` shows that every step of the bindings is a
step of `Service` or leaves it alone: `PyImplementsService`. So the invariants above
hold there, and `Lone` is added: until a call of a client times out, every query
under way and every response in the channel belongs to the call it is making.
With `Carried` that is `AnswersPairedCorrect`.

**`WaitSetProofs`.** `TypeCorrect` includes the ownership of the notifier's mutex
and needs `Timed`: only calls with a timeout get to the places between lock and
wake-up. `TriggerKept` is then inductive by itself: only the array update resets
a guard condition, in the step that reports it. For `OkHasEntry` the invariant is
`Within` (a thread's arrays and scans stay inside its wait set and are complete
until something was found ready) with `Collected` (the arrays being collected
name an entry that was kept or is still ready); only the thread itself takes from
a wait set that is not shared. Both give `TriggersReportedCorrect`, for executors
that share guard conditions and for infinite timeouts, which the run does not
have.

**`RmwApiProofs`.** *Callbacks.* `AnnouncedOnce` is inductive with the types;
`SubscriptionNothingUnread` needs `OwnSteps` (a subscription's setter is never at
a point of a service's setter): `NothingForgottenCorrect`. `DataCurrentCorrect`
needs `Stored` (what a setter has stored at each of its points, against the setting
before and the one under way).

*Events.* `EventInv` says what the manager's counts are (`Counted`), where every
event that appeared is (`SharedOut`: unread, reported, handed to a callback or
lost) and what the callback heard (`HeardInv`, with the largest `size_t` for each
event that went). With the arithmetic of the 16-bit halves (`PolicyDecoded`) it
gives `EventsSoundCorrect`, for any number of operations.

*Options and contexts.* `OptionInv`: what is owned was handed out (`Handed`), has
one owner (`OneOwner`), and everything allocated has one (`AllOwned`); a copy that
fails at any field keeps it because the fields after it still hold what the unused
destination had. `OptionsFreedCorrect` follows, for any number of structs.

*QoS.* `QosFaithfulCorrect` is the invariant of the data run for all profiles of
ros-z and rmw rather than the ones of `MCQos` (`AnyQos`, `AnyRmwQos`: any depth and
duration; `InputsCovered` shows that the run's are among them). It rests on lemmas
about the code tables and about what each field of a token or dictionary is read
back as.

*Names.* `RootNamespaceAlike` and `QualifiedIsStable` are `QualifyStable` for all
texts, with the hypothesis that the name is not reduced to a slash in place of
zenoh's test for empty chunks. `RemapLatest` and `ActionListedOnce` generalise
`RemapDirect` and `ActionsListed`. `TokenFieldsCarried` is `TokenRoundTrip` up to the
text: the chunks that are joined give every field back, and no chunk has a slash;
that splitting a text at its slashes gives the chunks it was joined from is an
induction over the text, which TLC checks.

**`ActionServerProofs`.** The invariant follows three things. A goal:
`RecordMatchesHandle` needs `LeavesByExpiry` (what was stored leaves by expiry
only) and `GoalsQueued` (a goal is in the queue once, with its handle queued), and
`ListsReached` says that a status list shows stages the handle has reached, also
while the list is between snapshot and publication. A result request: it is in the
queue once and untreated (`ResultsQueued`), was sent after the acceptance
(`ResultsAddressed`), and if registered it is the one the driver waits on
(`Registered`). The driver: `DriverWaits` says what it waits on, which is
`NoOrphanedWaiter` made inductive. `RecordFaithfulCorrect` and
`NoOrphanedWaiterCorrect` follow at once, `SilenceExplainedCorrect` from
`LeavesByExpiry` step by step. `LifecycleImplemented` adds `RepliesFinal` (a reply
carries the status its goal ended with): each action moves at most one handle,
along an edge of `transition_goal_state` or from executing to canceled, or sends at
most one reply.

**`ActionClientProofs`.** `OnePlace` (a request is open, or its reply is in the
channel once, or it was taken) needs `Unsent` (a task that may still send on a
service has nothing there). `Alone` says that on a service where no calls
overlapped and none was given up everything under way is for the one call that
waits. Together: `RepliesPairedCorrect`. `BoardTracksGoalsCorrect` is inductive
with the types.

**`PubSubProofs`.** `Dated` bounds the numbers of all samples under way, queued or
read by the counters of their thread and publisher, and `InHand` those of a
message a thread has serialized or stamped and not yet put: a new stamp is larger
than any other (`StampsUniqueCorrect`). `SubOrder` carries a thread's order from the
network through the queue to the user, and `Suffix` says that a queue is the end
of what arrived, whatever overflowed and was taken: `ReadsFaithfulCorrect`, for any
depths, subscriptions that come and go and takes of a sequence.

**`RmwGraphProofs`.** `GraphInv` is about the data behind the mutex and is kept by
each operation of `GraphData`, by lemmas about one slab (references die, are
swept, are filled in, are released): live references are just what is parsed, held
ones are of entities that were lent, they fit, and a slab grows only if what is alive
needs it. `LentInv` says which local entities can be lent. `LifeInv` numbers the calls of an
entity's life. `TokenInv`: the last sample on its way says whether the token is
declared, and none on its way deletes a local token that is declared. `ReportInv`:
a token with no sample on its way is known if and only if it is declared, but for
late replies, and a local entity is parsed from its addition to its removal.
These give `QueriesCompleteCorrect`, and with `FoundKnown` (a query finds just what
is known, and what is held besides) `QueriesSoundCorrect`, for endpoints with and
without a type. `EventInv` places registered and destroyed guard
conditions at disjoint parts of a node's life, `OnceInv` says that an incompatible
pair is counted when the second of the two is checked: `EventsAimedCorrect`. The
theorems hold for any number of tokens declared again and again, creations in
parallel (`Serialised` false) and any slab capacity; the run has a single thread
and slabs of two.

Only model-checked:
- the liveness properties (`ReceiversServed`, `SamplesReachUser`,
  `AnsweredUnlessHeldUp`, `ResultStopsWaiting`, `ReadyReported`, `WaitEnds`):
  fairness and ENABLED are outside the prover's reach;
- `WireAgrees`, `TypesAgree`, `SourcesRead`, `BindingsAgree`, `GeneratorSound`,
  `DiscoverySound` and `ContextsSound`: the encoders, the hashes, the parser, the
  generated bindings and the tables of configuration are recursive operators or use
  them, which the prover's SMT backend does not accept in any module that reaches
  them, and what a recursion computes needs induction over data, which the
  installed provers cannot instantiate;
- the parts of `NamesFaithful` that split or join a text (`Split` and `Join` are
  folds over it): `TokenRoundTrip` and `DdsTokenRoundTrip` as a whole, and
  `KeysSeparate`.

## 5. Plan

1. The steps of the code generator apart from the recursive operators it calls: with
   the resolver's operators as parameters of the module, `GeneratorSound` could be
   stated about the work list alone.
2. `TypeDiscovery` over abstract schemas and hashes, for the same reason: its loop
   needs nothing of `TypeHash` but that hashes are injective.
3. The console's polling of the graph, if it gets state of its own.

## 6. Not modelled

The console, a terminal interface that shows what graph queries answer; the
declarations generated for the C API, which have no behaviour and make up a fifth
of the implementation's lines; examples, the router binary and test programs;
`PyZContext`, the buffer protocol of `payload_view` and error classes of the
Python bindings, which wrap what is modelled; token streams and formatting of
generated code; validation of C pointers and allocation; Zenoh itself; SHA-256
and JSON text. On `RMW_RET_TIMEOUT` `rmw_wait` leaves the caller's arrays as they
were, which the model keeps and no property is about. The `triggered` flag of a
guard condition is a plain byte shared without a lock; its reads and writes are
modelled as atomic steps in any order. The static buffer of rmw's error string,
which threads write without a lock, is text that nothing depends on.
