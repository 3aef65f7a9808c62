------------------------------ MODULE MCSetup ------------------------------
(* Small instances of Setup for TLC: two configured branches and another. *)
EXTENDS Setup

MCConfigured == <<"main", "feat">>
MCFiles == <<"toml", "ignore">>
MCHeads == {"main", "feat", "topic"}
MCExisting == {<<>>, <<"dest">>, <<"dest", "own">>, <<"alien">>}
=============================================================================
