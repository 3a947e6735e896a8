-------------------------------- MODULE Build --------------------------------
(***************************************************************************)
(* The build script of ros-z-msgs: which ROS release is built for, which   *)
(* packages are asked for, and where they are looked for.                  *)
(*                                                                         *)
(* An environment is [humble, features, ament, cmake, opt, bundle]: the    *)
(* feature flag, the packages asked for by features, and the packages that *)
(* each place holds.  ament and cmake are variables that are set or not,   *)
(* to a sequence of prefixes; a prefix, like an install under /opt/ros, is *)
(* [pkgs, headers].                                                        *)
(***************************************************************************)
EXTENDS Integers, Sequences, FiniteSets, SequencesExt

Unset == [set |-> FALSE, prefixes |-> <<>>]

\* Jazzy has headers that Humble lacks.
detect_ros_version(env) ==
    \/ env.humble
    \/ env.ament.set /\ \A i \in DOMAIN env.ament.prefixes : ~env.ament.prefixes[i].headers

get_all_packages(env, is_humble) ==
    {"builtin_interfaces", "action_msgs", "unique_identifier_msgs"}
    \cup (IF is_humble THEN {} ELSE {"service_msgs", "type_description_interfaces"})
    \cup env.features

\* Only a place with none of the packages makes the script look at the next.
discover_system_packages(env, names) ==
    LET all(var) == UNION {var.prefixes[i].pkgs \cap names : i \in DOMAIN var.prefixes}
        hits == {i \in DOMAIN env.opt : env.opt[i].pkgs \cap names # {}}
    IN  IF all(env.ament) # {} THEN all(env.ament)
        ELSE IF all(env.cmake) # {} THEN all(env.cmake)
        ELSE IF hits = {} THEN {}
        ELSE env.opt[CHOOSE i \in hits : \A j \in hits : i <= j].pkgs \cap names

discover_local_assets(env, names) == env.bundle \cap names

discover_ros_packages(env, is_humble) ==
    LET names == get_all_packages(env, is_humble)
        local == discover_local_assets(env, names)
    IN  [from |-> IF local # {} THEN "bundle" ELSE "system",
         pkgs |-> IF local # {} THEN local ELSE discover_system_packages(env, names)]

=============================================================================
