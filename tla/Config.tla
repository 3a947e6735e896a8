------------------------------- MODULE Config -------------------------------
(***************************************************************************)
(* Where a session's configuration comes from: the tables and builders     *)
(* of config.rs, and ZContextBuilder of context.rs.                        *)
(*                                                                         *)
(* A key is the sequence of its parts, a value a text of tokens.           *)
(* A configuration says which keys differ from zenoh's defaults.           *)
(***************************************************************************)
EXTENDS Parser

ConfigOverride(key, value) == [key |-> key, value |-> value]
ConfigFailure == [failed |-> TRUE]

\* The settings that routers and sessions share; values by name.
common_overrides ==
    <<ConfigOverride(<<"scouting", "multicast", "enabled">>, <<"false">>),
      ConfigOverride(<<"scouting", "gossip", "target">>, <<"to router">>),
      ConfigOverride(<<"timestamping", "enabled">>, <<"all">>),
      ConfigOverride(<<"transport", "unicast", "open_timeout">>, <<"60000">>),
      ConfigOverride(<<"transport", "unicast", "accept_timeout">>, <<"60000">>),
      ConfigOverride(<<"transport", "unicast", "accept_pending">>, <<"10000">>),
      ConfigOverride(<<"transport", "unicast", "max_sessions">>, <<"10000">>),
      ConfigOverride(<<"transport", "link", "tx", "lease">>, <<"60000">>),
      ConfigOverride(<<"transport", "link", "tx", "keep_alive">>, <<"2">>),
      ConfigOverride(<<"transport", "shared_memory", "enabled">>, <<"false">>)>>
WaitBeforeClose == <<"transport", "link", "tx", "queue", "congestion_control", "block", "wait_before_close">>
ConnectKey == <<"connect", "endpoints">>
ListenKey == <<"listen", "endpoints">>
router_specific_overrides ==
    <<ConfigOverride(<<"mode">>, <<"router">>),
      ConfigOverride(ListenKey, <<"any:7447">>),
      ConfigOverride(ConnectKey, <<"nothing">>),
      ConfigOverride(<<"routing", "router", "peers_failover_brokering">>, <<"false">>),
      ConfigOverride(WaitBeforeClose, <<"5000000">>)>>
session_specific_overrides ==
    <<ConfigOverride(<<"mode">>, <<"peer">>),
      ConfigOverride(ConnectKey, <<"localhost:7447">>),
      ConfigOverride(ListenKey, <<"localhost:0">>),
      ConfigOverride(<<"scouting", "gossip", "autoconnect_strategy">>, <<"greater-zid">>),
      ConfigOverride(<<"queries_default_timeout">>, <<"60000">>),
      ConfigOverride(WaitBeforeClose, <<"60000000">>)>>
router_overrides == router_specific_overrides \o common_overrides
session_overrides == session_specific_overrides \o common_overrides

\* zenoh::Config::insert_json5: the keys zenoh has.
Configured(map) == [failed |-> FALSE, map |-> map]
DefaultConfig == Configured([k \in {} |-> <<>>])
KnownKeys == {o.key : o \in Range(router_overrides \o session_overrides)}
insert_json5(config, o) ==
    IF config.failed \/ o.key \notin KnownKeys THEN ConfigFailure
    ELSE Configured([k \in DOMAIN config.map \cup {o.key} |->
                       IF k = o.key THEN o.value ELSE config.map[k]])
build_config(overrides) == FoldLeft(insert_json5, DefaultConfig, overrides)
router_config == build_config(router_overrides)
session_config == build_config(session_overrides)

\* RouterConfigBuilder and SessionConfigBuilder: the first entry of a key changes.
with_override(overrides, key, value) ==
    IF \E i \in DOMAIN overrides : overrides[i].key = key
    THEN [overrides EXCEPT ![CHOOSE i \in DOMAIN overrides :
                               overrides[i].key = key /\ \A j \in 1..i - 1 : overrides[j].key # key]
                               = ConfigOverride(key, value)]
    ELSE Append(overrides, ConfigOverride(key, value))
with_listen_port(overrides, port) ==
    [i \in DOMAIN overrides |->
       IF overrides[i].key = ListenKey THEN ConfigOverride(ListenKey, <<"any:" , port>>) ELSE overrides[i]]
with_listen_endpoint(overrides, endpoint) ==
    [i \in DOMAIN overrides |->
       IF overrides[i].key = ListenKey THEN ConfigOverride(ListenKey, endpoint) ELSE overrides[i]]
with_router_endpoint(overrides, endpoint) ==
    [i \in DOMAIN overrides |->
       IF overrides[i].key = ConnectKey THEN ConfigOverride(ConnectKey, endpoint) ELSE overrides[i]]

-----------------------------------------------------------------------------
(* The file written by generate_json5: an object is a map, a value a leaf.  *)
Scalar(value) == [leaf |-> TRUE, value |-> value]
Entries(map) == [leaf |-> FALSE, map |-> map]
NoEntries == Entries([n \in {} |-> Scalar(<<>>)])
Put(map, name, v) == [n \in DOMAIN map \cup {name} |-> IF n = name THEN v ELSE map[n]]

RECURSIVE Nest(_, _, _)
Nest(at, path, value) ==
    IF at.leaf THEN at
    ELSE IF Len(path) = 1 THEN Entries(Put(at.map, path[1], Scalar(value)))
    ELSE LET next == IF path[1] \in DOMAIN at.map THEN at.map[path[1]] ELSE NoEntries
         IN  Entries(Put(at.map, path[1], Nest(next, Tail(path), value)))
generate_json5(overrides) == FoldLeft(LAMBDA at, o : Nest(at, o.key, o.value), NoEntries, overrides)

\* zenoh::Config::from_file reads what is at a key; an unwritten key is default.
RECURSIVE ReadAt(_, _)
ReadAt(tree, path) ==
    IF path = <<>> THEN <<tree>>
    ELSE IF tree.leaf \/ path[1] \notin DOMAIN tree.map THEN <<>>
    ELSE ReadAt(tree.map[path[1]], Tail(path))
from_file(tree) ==
    Configured([k \in {k \in KnownKeys : ReadAt(tree, k) # <<>>} |-> ReadAt(tree, k)[1].value])

-----------------------------------------------------------------------------
(* ZContextBuilder *)

ZContextBuilder == [failed |-> FALSE, zenoh_config |-> <<>>, config_file |-> <<>>, config_overrides |-> <<>>, shm |-> <<>>]
with_json(b, key, value) == [b EXCEPT !.config_overrides = Append(@, ConfigOverride(key, value))]
with_connect_endpoints(b, endpoint) == with_json(b, ConnectKey, endpoint)
with_mode(b, mode) == with_json(b, <<"mode">>, mode)
disable_multicast_scouting(b) == with_json(b, <<"scouting", "multicast", "enabled">>, <<"false">>)
with_zenoh_config(b, config) == [b EXCEPT !.zenoh_config = <<config>>]

ctx_with_router_endpoint(b, endpoint) ==
    with_zenoh_config(b, build_config(with_router_endpoint(session_overrides, endpoint)))
with_config_file(b, file) == [b EXCEPT !.config_file = <<file>>]

DEFAULT_SHM_THRESHOLD == 512
DEFAULT_SHM_POOL_SIZE == 10 * 1024 * 1024
with_shm_pool_size(b, size) == [b EXCEPT !.shm = <<[pool |-> size, threshold |-> DEFAULT_SHM_THRESHOLD]>>]
with_shm_enabled(b) == with_shm_pool_size(b, DEFAULT_SHM_POOL_SIZE)
with_shm_threshold(b, n) == IF b.shm = <<>> THEN b ELSE [b EXCEPT !.shm[1].threshold = n]

\* json5::from_str: a token, or a string between quotes that holds none.
IsJson5(s) ==
    \/ Len(s) = 1 /\ s[1] \notin Quotes \cup {"=", ";", " "}
    \/ Len(s) >= 2 /\ s[1] \in Quotes /\ s[Len(s)] = s[1] /\ Count(s, s[1]) = 2

\* The variable ROSZ_CONFIG_OVERRIDE (set is <<text>>, unset is <<>>).
EnvOverride(pair) ==
    LET i == Find(pair, "=")
        key == Trimmed(Before(pair, i))
        value == Trimmed(After(pair, i))
    IN  IF i = 0 \/ ~IsJson5(value) THEN ConfigFailure
        ELSE [failed |-> FALSE, key |-> key, value |-> value]
EnvPairs(text) ==
    LET pieces == Pieces(text, ";")
    IN  SelectSeq([i \in DOMAIN pieces |-> Trimmed(pieces[i])], LAMBDA p : p # <<>>)
apply_env_overrides(b, env) ==
    IF env = <<>> THEN b
    ELSE LET pairs == EnvPairs(env[1])
             read == [i \in DOMAIN pairs |-> EnvOverride(pairs[i])]
         IN  IF ConfigFailure \in Range(read) THEN ConfigFailure
             ELSE [b EXCEPT !.config_overrides =
                     @ \o [i \in DOMAIN read |-> ConfigOverride(read[i].key, read[i].value)]]

\* A mutant: the file of the environment comes before the one that was given.
base_config_Env(b, envFile) ==
    IF b.zenoh_config # <<>> THEN b.zenoh_config[1]
    ELSE IF envFile # <<>> THEN envFile[1]
    ELSE IF b.config_file # <<>> THEN b.config_file[1]
    ELSE session_config

base_config(b, envFile) ==
    IF b.zenoh_config # <<>> THEN b.zenoh_config[1]
    ELSE IF b.config_file # <<>> THEN b.config_file[1]
    ELSE IF envFile # <<>> THEN envFile[1]
    ELSE session_config
build_context(b, env, envFile) ==
    LET full == apply_env_overrides(b, env)
        config == FoldLeft(insert_json5, base_config(b, envFile), full.config_overrides)
    IN  IF full.failed \/ config.failed THEN ConfigFailure
        ELSE [failed |-> FALSE, config |-> config.map, shm |-> b.shm]
=============================================================================
