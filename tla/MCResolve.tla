----------------------------- MODULE MCResolve -----------------------------
(***************************************************************************)
(* Small instances of Resolve for TLC: a configured and a mirror-only      *)
(* branch, a mirrored path both sides edit, another, and an excluded one.  *)
(***************************************************************************)
EXTENDS Resolve, TLC

MCBranches == {"main", "feat"}
MCOrder == <<"feat", "main">>
MCConfigured == <<"main">>
MCPaths == {"a", "b", "x", "ctl"}
MCExcluded == {"x", "ctl"}
MCValues == {"v1", "v2", "secret", "pinned", "other"}

DevA == {<<"a", "v1">>}
CustomerFlip == {<<"a", "v2">>, <<"a", "-">>}
Smuggle == {<<"x", "secret">>}   \* what an operator may stage in a worktree

(* What each instance may spend: imports resolved on a long history, two    *)
(* conflicts on one file, kills between a command's steps, an operator who  *)
(* edits the worktree, and one who edits the checkout while a command runs. *)
MCBudgets ==
    {[runs |-> 1, dev |-> 3, customer |-> 1, resolves |-> 4, operator |-> 0, kills |-> 0,
      edits |-> FALSE],
     [runs |-> 1, dev |-> 1, customer |-> 2, resolves |-> 2, operator |-> 2, kills |-> 0,
      edits |-> FALSE],
     [runs |-> 0, dev |-> 1, customer |-> 2, resolves |-> 5, operator |-> 0, kills |-> 1,
      edits |-> FALSE],
     [runs |-> 0, dev |-> 2, customer |-> 1, resolves |-> 4, operator |-> 0, kills |-> 1,
      edits |-> FALSE],
     [runs |-> 0, dev |-> 2, customer |-> 1, resolves |-> 2, operator |-> 2, kills |-> 1,
      edits |-> FALSE],
     [runs |-> 1, dev |-> 2, customer |-> 1, resolves |-> 3, operator |-> 0, kills |-> 0,
      edits |-> TRUE]}
=============================================================================
