---------------------------- MODULE MCSubprocess ----------------------------
(* Small instances of Subprocess for TLC. *)
EXTENDS Subprocess, TLC

MCStreamLimit == "stdout" :> 2 @@ "stderr" :> 1
=============================================================================
