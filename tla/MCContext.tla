----------------------------- MODULE MCContext -----------------------------
(***************************************************************************)
(* Inputs and properties of Config: sequences of calls of the builders,    *)
(* with what the environment says.                                         *)
(***************************************************************************)
EXTENDS MCMessages, Config

SeqsUpTo(S, n) == UNION {[1..k -> S] : k \in 0..n}

-----------------------------------------------------------------------------
(* Contexts: x is the setters called, the variable ROSZ_CONFIG_OVERRIDE (a  *)
(* list of overrides, written out) and the file of ROSZ_CONFIG_FILE         *)

Setters == {"client", "connect 1", "connect 2", "no multicast", "unknown", "router", "custom", "file",
            "shm", "pool", "threshold"}
Custom == Configured((ConnectKey :> <<"custom">>))
File == Configured((ConnectKey :> <<"file">>))
EnvFile == Configured((ListenKey :> <<"env">>))
CallSetter(b, s) ==
    CASE s = "client" -> with_mode(b, <<"client">>)
      [] s = "connect 1" -> with_connect_endpoints(b, <<"e1">>)
      [] s = "connect 2" -> with_connect_endpoints(b, <<"e2">>)
      [] s = "no multicast" -> disable_multicast_scouting(b)
      [] s = "unknown" -> with_json(b, <<"unknown">>, <<"e1">>)
      [] s = "router" -> ctx_with_router_endpoint(b, <<"e3">>)
      [] s = "custom" -> with_zenoh_config(b, Custom)
      [] s = "file" -> with_config_file(b, File)
      [] s = "shm" -> with_shm_enabled(b)
      [] s = "pool" -> with_shm_pool_size(b, 7)
      [] s = "threshold" -> with_shm_threshold(b, 9)
BuilderAfter(calls) == FoldLeft(CallSetter, ZContextBuilder, calls)

EnvOverrides ==
    {ConfigOverride(k, v) : k \in {ConnectKey, <<"mode">>},
                            v \in {<<"7">>, <<"'", "e4", "=", "e5", "'">>, <<"'", "e4", " ", ";", "'">>}}
WrittenOut(os) ==
    FoldLeft(LAMBDA s, o : s \o <<" ">> \o o.key \o <<" ", "=">> \o o.value \o <<";">>, <<>>, os)
EnvLists == {<<>>, <<ConfigOverride(ConnectKey, <<"e6">>)>>} \cup {<<o>> : o \in EnvOverrides}
ContextInputs ==
    [calls : SeqsUpTo(Setters, 2), env : EnvLists \cup {<<o, p>> : o, p \in EnvOverrides},
     envFile : {<<>>, <<EnvFile>>}]
    \cup [calls : [1..3 -> Setters], env : {<<ConfigOverride(ConnectKey, <<"e6">>)>>}, envFile : {<<EnvFile>>}]
Built(calls, y) == build_context(BuilderAfter(calls), <<WrittenOut(y.env)>>, y.envFile)

\* The overrides that the calls made, and the call that decided the base.
Overrides(calls) == BuilderAfter(SelectSeq(calls, LAMBDA s : s \notin {"router"})).config_overrides
LastOf(calls, S) == SelectLastInSeq(calls, LAMBDA s : s \in S)

\* A key has the value it was given last: the environment's before that of any
\* call, a call's before that of any configuration as a whole, and among these
\* the one of the program, a file it named, a file the environment names, the
\* session's defaults (comment of ZContextBuilder::build).  An override that is
\* not understood, as one that holds a semicolon, is refused and not misread.
ConfigPriority ==
    part = "contexts" =>
       LET built == Built(x.calls, x)
           all == Overrides(x.calls) \o x.env
           whole == LastOf(x.calls, {"router", "custom"})
           base == IF whole # 0 THEN (IF x.calls[whole] = "custom" THEN Custom
                                      ELSE insert_json5(session_config,
                                                        ConfigOverride(ConnectKey, <<"e3">>)))
                   ELSE IF LastOf(x.calls, {"file"}) # 0 THEN File
                   ELSE IF x.envFile # <<>> THEN EnvFile ELSE session_config
           bad == \E o \in Range(all) : o.key = <<"unknown">> \/ ";" \in Range(o.value)
       IN  /\ built.failed <=> bad
           /\ ~bad => \A k \in KnownKeys :
                 LET i == SelectLastInSeq(all, LAMBDA o : o.key = k)
                 IN  IF i # 0 THEN built.config[k] = all[i].value
                     ELSE IF k \in DOMAIN base.map THEN built.config[k] = base.map[k]
                     ELSE k \notin DOMAIN built.config

\* The order in which different settings are made is of no consequence; only the
\* threshold of shared memory is lost unless shared memory was enabled before.
Setting(s) ==
    CASE s \in {"connect 1", "connect 2"} -> "connect"
      [] s \in {"router", "custom"} -> "base"
      [] s \in {"shm", "pool", "threshold"} -> "shm"
      [] OTHER -> s
SettersCommute ==
    part = "contexts" =>
       /\ \A i \in 1..Len(x.calls) - 1 :
             Setting(x.calls[i]) # Setting(x.calls[i + 1]) =>
                Built([x.calls EXCEPT ![i] = x.calls[i + 1], ![i + 1] = x.calls[i]], x) = Built(x.calls, x)
       /\ LET on == LastOf(x.calls, {"shm", "pool"})
              set == LastOf(x.calls, {"threshold"})
              built == Built(x.calls, x)
          IN  ~built.failed =>
                 built.shm = IF on = 0 THEN <<>>
                             ELSE <<[pool |-> IF x.calls[on] = "pool" THEN 7 ELSE DEFAULT_SHM_POOL_SIZE,
                                     threshold |-> IF set > on THEN 9 ELSE DEFAULT_SHM_THRESHOLD]>>

-----------------------------------------------------------------------------
(* Configurations: x is the calls of a builder of config.rs *)

Sessions == <<"queries_default_timeout">>
BuilderCalls == {"port", "listen", "endpoint", "sessions", "timeout"}
ConfigInputs == [of : {"router", "session"}, calls : SeqsUpTo(BuilderCalls, 4)]
CallBuilder(os, c) ==
    CASE c = "port" -> with_listen_port(os, "7448")
      [] c = "listen" -> with_listen_endpoint(os, <<"e1">>)
      [] c = "endpoint" -> with_router_endpoint(os, <<"e2">>)
      [] c = "sessions" -> with_override(os, <<"transport", "unicast", "max_sessions">>, <<"20000">>)
      [] c = "timeout" -> with_override(os, Sessions, <<"1">>)
Table(y) == IF y.of = "router" THEN router_overrides ELSE session_overrides

\* The file that is generated for a builder configures what the builder does,
\* nested objects included, and both have each setting as it was made last and
\* the tables' values otherwise: no key is there twice.
BuilderFaithful ==
    part = "configs" =>
       LET os == FoldLeft(CallBuilder, Table(x), x.calls)
           config == build_config(os)
           listen == LastOf(x.calls, {"port", "listen"})
           called(c) == c \in Range(x.calls)
       IN  /\ ~config.failed /\ from_file(generate_json5(os)) = config
           /\ \A i, j \in DOMAIN os : i # j => os[i].key # os[j].key
           /\ called("timeout") => config.map[Sessions] = <<"1">>
           /\ ListenKey \in DOMAIN config.map /\ listen # 0 =>
                 (config.map[ListenKey] = <<"e1">> <=> x.calls[listen] = "listen")
           /\ x.calls = <<>> => /\ config = IF x.of = "router" THEN router_config ELSE session_config
                              /\ \A o \in Range(Table(x)) : config.map[o.key] = o.value
=============================================================================
