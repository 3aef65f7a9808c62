--------------------------- MODULE MCLocalAdvance ---------------------------
(***************************************************************************)
(* Small instances of LocalAdvance for TLC: a tracked file, a file and a   *)
(* directory of one name, an ignored file and the control file.            *)
(***************************************************************************)
EXTENDS LocalAdvance, TLC

MCPaths == {"a", "n", "n/sub", "log", "ctl"}
MCWithin == {<<"n", "n/sub">>}
MCValues == {"v1", "v2", "mine", "c1", "c1crlf", "moved"}
MCSmudged == "c1" :> "c1crlf"
MCStart == [p \in MCPaths |-> CASE p = "a" -> "v1" [] p = "ctl" -> "v1" [] OTHER -> "-"]
MCImports == {<<"a", "v2">>, <<"n", "v2">>, <<"log", "v2">>, <<"ctl", "c1">>, <<"ctl", "c1crlf">>}
MCElsewhere == {<<"a", "moved">>}
AnyEdit == {<<p, "mine">> : p \in MCPaths}
PlainEdit == {<<p, "mine">> : p \in {"a", "n", "n/sub"}}
ControlEdit == {<<"ctl", "mine">>}
=============================================================================
