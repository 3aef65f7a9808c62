-------------------------- MODULE SetupTransaction --------------------------
(***************************************************************************)
(* What `gitprism setup` promises: one step that either grafts every       *)
(* configured branch and checks the first one out, or changes nothing.     *)
(* Only a run that says so, because its own recovery failed or because it  *)
(* was killed, may leave anything else behind.  Nothing is promised once   *)
(* somebody else works in the same repository.                             *)
(***************************************************************************)
CONSTANT Grafted(_, _)   \* Grafted(r, s): s is r after a successful setup

VARIABLES repo, outcome

Init == outcome = "none"

Succeed == outcome' = "done" /\ Grafted(repo, repo')
Refuse == outcome' = "failed" /\ UNCHANGED repo
Break == outcome' \in {"recovery_failed", "killed", "interfered"}
Again == outcome # "none" /\ outcome' = "none" /\ UNCHANGED repo

Next == Succeed \/ Refuse \/ Break \/ Again
Spec == Init /\ [][Next]_<<repo, outcome>>
=============================================================================
