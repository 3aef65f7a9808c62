--------------------------- MODULE MCBoundedIndex ---------------------------
(***************************************************************************)
(* A configured branch and two others that share its history, with limits  *)
(* from "cuts nearly everything" to "cuts nothing".                        *)
(***************************************************************************)
EXTENDS BoundedIndex

MCBranches == {"copy", "feat", "main"}
MCOrder == <<"copy", "feat", "main">>
MCConfigured == <<"main">>
MCPaths == {"a", "ctl"}
MCExcluded == {"ctl"}
MCValues == {"v1", "v2", "secret", "pinned"}
MCDev == {<<"a", "v1">>, <<"a", "v2">>}
MCCustomer == {}
=============================================================================
