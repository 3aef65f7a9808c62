----------------------------- MODULE MCHistory -----------------------------
(***************************************************************************)
(* The small instances of MCSync, for SyncHistory.                         *)
(***************************************************************************)
EXTENDS SyncHistory, MCSync
=============================================================================
