------------------------------- MODULE MCSync -------------------------------
(***************************************************************************)
(* Small instances of Sync for TLC: a configured and a mirror-only branch, *)
(* two mirrored paths, an excluded path and the control file.              *)
(***************************************************************************)
EXTENDS SyncProperties, TLC

MCBranches == {"main", "feat"}
MCOrder == <<"feat", "main">>
MCConfigured == <<"main">>
MCPaths == {"a", "b", "x", "ctl"}
MCExcluded == {"x", "ctl"}
MCValues == {"v1", "v2", "secret", "pinned", "other"}
ClonePermutations == Permutations(Clones)

(* What developers and customers commit, by instance. *)
NoEdits == {}
OneDev == {<<"a", "v1">>}
PublicDev == {<<"a", "v1">>, <<"a", "v2">>}
MixedDev == PublicDev \cup {<<"x", "secret">>}
ControlDev == OneDev \cup {<<"ctl", "other">>}
CustomerA == {<<"a", "v2">>}
=============================================================================
