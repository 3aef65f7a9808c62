----------------------------- MODULE SyncHistory -----------------------------
(***************************************************************************)
(* Sync with a history variable that lets a property speak of two          *)
(* consecutive runs of a clone.                                            *)
(***************************************************************************)
EXTENDS SyncProperties

VARIABLE history  \* per clone: how much the environment had done when its
                  \* latest run began, and when its latest good run began

Disturbances == spent.dev + spent.customer + spent.crashes

Began(c) == pc[c] = "idle" /\ pc'[c] = "fetch_heads"
EndedWell(c) == pc[c] # "idle" /\ pc'[c] = "idle" /\ result'[c].kind = "ok"

HInit == Init /\ history = [c \in Clones |-> [began |-> 0, settled |-> -1]]
HNext ==
    /\ Next
    /\ history' = [c \in Clones |->
         IF Began(c) THEN [history[c] EXCEPT !.began = Disturbances]
         ELSE IF EndedWell(c) THEN [history[c] EXCEPT !.settled = history[c].began]
         ELSE history[c]]
HSpec == HInit /\ [][HNext]_<<vars, history>>

(* A run that ended well leaves nothing to do: while nobody else acts, the *)
(* next run changes no ref and writes no commit.  The markers a run leaves *)
(* behind are all it needs to recognise its own work.                      *)
SyncSettles ==
    [][\A c \in Clones :
        pc[c] # "idle" /\ history[c].settled = Disturbances /\ Disturbances' = Disturbances
            => UNCHANGED <<remotes, local, odb>>]_<<vars, history>>
=============================================================================
