----------------------------- MODULE MCCodegen -----------------------------
(* Small sets of interface files for Codegen. *)
EXTENDS Codegen

Fld(name, pkg, base, array) == [name |-> name, pkg |-> pkg, base |-> base, array |-> array, bound |-> NoBound]
One(base) == Fld("f", "none", Plain(base), <<"Single", 0>>)
Of(pkg, base, array) == Fld("g", pkg, Plain(base), array)
Msg(pkg, name, fields) == [pkg |-> pkg, name |-> Plain(name), fields |-> fields, dir |-> "msg"]
Single == <<"Single", 0>>

TimeMsg == Msg("builtin_interfaces", "Time", <<One("int32")>>)
InfoMsg == Msg("service_msgs", "ServiceEventInfo", <<One("uint8"), Of("builtin_interfaces", "Time", Single)>>)

\* A chain within a package, a diamond across two, and a message nobody can resolve.
Leaf == Msg("geo", "Point", <<One("float64")>>)
Mid == Msg("geo", "Pose", <<One("string"), Of("none", "Point", Single)>>)
Top == Msg("nav", "Path", <<Of("geo", "Pose", <<"Unbounded", 0>>), Of("geo", "Point", <<"Fixed", 3>>)>>)
Lost == Msg("nav", "Lost", <<One("bool"), Of("nav", "Missing", Single)>>)
Wide == Msg("geo", "Wide", <<One("wstring")>>)
Old == [Msg("nav", "Get", <<>>) EXCEPT !.name = <<"Get", "_Request">>]
\* A user's package with the name of a standard one.
Twin == Msg("nav", "Twin", <<Of("geo", "Missing", Single)>>)
Stamped == Msg("nav", "Stamped", <<Of("builtin_interfaces", "Time", Single)>>)

MCMessages == {{TimeMsg, InfoMsg, Leaf, Mid, Top}, {Leaf, Mid, Lost, Wide, Old},
               {Twin, Leaf}, {Stamped, Mid, Leaf, Top}}

Part3(name, suffix, fields) == [pkg |-> "nav", name |-> <<name, suffix>>, fields |-> fields, dir |-> "msg"]
GetPath == [pkg |-> "nav", name |-> Plain("GetPath"),
            request |-> [Part3("GetPath", "Request", <<Of("nav", "Path", Single)>>) EXCEPT !.dir = "srv"],
            response |-> [Part3("GetPath", "Response", <<>>) EXCEPT !.dir = "srv"]]
Go == [pkg |-> "nav", name |-> Plain("Go"),
       goal |-> Part3("Go", "Goal", <<Of("geo", "Point", Single)>>),
       result |-> Part3("Go", "Result", <<One("bool")>>),
       feedback |-> Part3("none", "", <<>>)]
MCServices == {{}, {GetPath}}
MCActions == {{}, {Go}}
MCStandard == {"builtin_interfaces", "service_msgs", "unique_identifier_msgs", "action_msgs", "geo"}
=============================================================================
