--------------------------- MODULE ResolveProofs ---------------------------
(***************************************************************************)
(* Theorems about Resolve, for every set of clones, branches, paths,       *)
(* values and edits, every policy and every budget: an operator, sync,     *)
(* developers and customers all act as they like.                          *)
(***************************************************************************)
EXTENDS Resolve, SyncProofs

(***************************************************************************)
(* What a command keeps between its steps.  Nothing but the operation lock *)
(* protects it: refs, checkout and worktree may change under it.  H is     *)
(* what the clone has and C the clean commits (SyncInvariants): what an    *)
(* operator resolves came from dest or goes there, so a commit to import   *)
(* and a base to resolve on are clean, and a resolution has the base's     *)
(* content at excluded paths.                                              *)
(***************************************************************************)
Known(H) == H \cup {NoOid}
Places == {"idle", "pick", "continue", "read_head", "swap", "push_import", "reuse", "replay",
           "open", "finish", "finish_now", "push_resolution", "cleanup"}

Picks(H) == [commit : Known(H), index : Trees, unresolved : SUBSET Paths]
Operations(H) ==
    [kind : {"none", "open", "lost"}, active : BOOLEAN, tip : Known(H), base : Known(H),
     commit : Known(H), index : Trees, unresolved : SUBSET Paths]
Commands(H) ==
    [at : Places, branch : Branches \cup {"none"}, commit : Known(H), made : Known(H),
     head : Known(H), tip : Known(H), seen : Known(H), boundary : Known(H), chain : Known(H),
     pending : Seq(H)]

(* An operation was opened for a commit of its source tip, on a dest commit. *)
OperationInv(db, C, H, o) ==
    /\ o \in Operations(H)
    /\ o.kind # "none" => /\ {o.commit, o.tip, o.base} \subseteq H
                          /\ o.base \in C /\ o.commit \in db[o.tip].anc

(* What finish will put in the place of the commit it read. *)
Replaces(db, k) ==
    /\ db[k.head].parents # <<>> /\ db[k.chain].parents = <<db[k.head].parents[1]>>
    /\ db[k.chain].tree = db[k.head].tree

(* What continue has built from operation o. *)
Resolution(db, k, o) ==
    /\ o.kind # "none"
    /\ db[k.made].marker = Marker("SourceToDest", k.branch, o.commit)
    /\ db[k.made].line # <<>> /\ db[k.made].line[1] = k.made

CommandInv(db, C, H, k, operations) ==
    /\ k \in Commands(H)
    /\ k.at # "idle" => k.branch \in Branches
    /\ k.at \in {"pick", "continue", "read_head"} => k.commit \in C \cap H
    /\ k.at = "swap" => {k.head, k.chain} \subseteq H /\ Replaces(db, k)
    /\ k.at = "push_import" => k.chain \in H
    /\ k.at \in {"reuse", "replay", "open"} => {k.tip, k.chain} \subseteq H /\ k.chain \in C
    /\ k.at \in {"reuse", "replay"} => k.pending \in Seq(db[k.tip].anc)
    /\ k.at \in {"reuse", "replay"} => k.commit \in db[k.tip].anc \cup {NoOid}
    /\ k.at = "open" => k.commit \in db[k.tip].anc
    /\ k.at = "push_resolution" => /\ k.made \in C \cap H
                                   /\ Resolution(db, k, operations[k.branch])
    /\ k.at = "cleanup" => operations[k.branch].kind # "none"

Desk(db, C, here, H, b, p, operations, k) ==
    /\ b \in Branches /\ here[b] # NoOid
    /\ p \in Picks(H)
    /\ DOMAIN operations = Branches
    /\ \A x \in Branches : OperationInv(db, C, H, operations[x])
    /\ CommandInv(db, C, H, k, operations)

DeskInv ==
    /\ Table(on) /\ Table(pick) /\ Table(op) /\ Table(cmd)
    /\ \A c \in Clones :
          Desk(odb, CleanOids(odb), local[c], have[c], on[c], pick[c], op[c], cmd[c])

RInv == SyncInv /\ LeakInv /\ DeskInv

(***************************************************************************)
(* Steps.                                                                  *)
(***************************************************************************)
LEMMA DeskKept ==
    ASSUME NEW db, NEW C, NEW here, NEW H, NEW b, NEW p, NEW operations, NEW k,
           Closed(db, H), Desk(db, C, here, H, b, p, operations, k),
           NEW larger, Extends(db, larger), NEW D, C \subseteq D, NEW G, H \subseteq G,
           NEW there, here[b] # NoOid => there[b] # NoOid
    PROVE  Desk(larger, D, there, G, b, p, operations, k)
<1>1. Known(H) \subseteq Known(G) /\ \A s : s \in Seq(H) => s \in Seq(G)
  BY SeqMonotonic DEF Known
<1>2. \A o \in H : larger[o] = db[o]
  BY DEF Closed, Extends
<1>3. p \in Picks(G)
  BY <1>1 DEF Desk, Picks
<1>4. ASSUME NEW x \in Branches PROVE OperationInv(larger, D, G, operations[x])
  BY <1>1, <1>2 DEF Desk, OperationInv, Operations
<1>5. CommandInv(larger, D, G, k, operations)
  <2>1. CommandInv(db, C, H, k, operations)
    BY DEF Desk
  <2>2. k \in Commands(G)
    BY <1>1, <2>1 DEF CommandInv, Commands
  <2>3. k.at = "swap" => Replaces(larger, k)
    BY <1>2, <2>1 DEF CommandInv, Replaces
  <2>4. k.at = "push_resolution" => Resolution(larger, k, operations[k.branch])
    BY <1>2, <2>1 DEF CommandInv, Resolution
  <2>5. k.at \in {"reuse", "replay", "open"} => larger[k.tip] = db[k.tip]
    BY <1>2, <2>1 DEF CommandInv
  <2>6. QED
    BY <1>1, <2>1, <2>2, <2>3, <2>4, <2>5 DEF CommandInv
<1>6. QED
  BY <1>3, <1>4, <1>5 DEF Desk

(* A step that changes nothing on any desk. *)
LEMMA DesksKept ==
    ASSUME SyncInv, DeskInv, Extends(odb, odb'), UNCHANGED <<on, pick, op, cmd>>,
           CleanOids(odb) \subseteq CleanOids(odb'),
           \A c \in Clones : have[c] \subseteq have'[c],
           \A c \in Clones : \A x \in Branches : local[c][x] # NoOid => local'[c][x] # NoOid
    PROVE  DeskInv'
<1>1. ASSUME NEW c \in Clones
      PROVE  Desk(odb', CleanOids(odb'), local'[c], have'[c], on[c], pick[c], op[c], cmd[c])
  <2>1. /\ Closed(odb, have[c])
        /\ Desk(odb, CleanOids(odb), local[c], have[c], on[c], pick[c], op[c], cmd[c])
        /\ on[c] \in Branches
    BY Untouched DEF DeskInv, Desk
  <2>2. QED
    BY <2>1, DeskKept
<1>2. QED
  BY <1>1 DEF DeskInv, Table

(* A command's, an operator's or git's step in clone c. *)
LEMMA DeskStep ==
    ASSUME RInv, NEW c \in Clones,
           ObjectDatabase(odb'), Extends(odb, odb'), CleanMarkers(odb'),
           src' \in [Branches -> Oid0'], dst' \in [Branches -> CleanOids(odb') \cup {NoOid}],
           local' = [local EXCEPT ![c] = local'[c]], have' = [have EXCEPT ![c] = have'[c]],
           have[c] \subseteq have'[c], Closed(odb', have'[c]),
           local'[c] \in [Branches -> have'[c] \cup {NoOid}],
           \A x \in Branches : local[c][x] # NoOid => local'[c][x] # NoOid,
           UNCHANGED <<pc, run, job>>,
           on' = [on EXCEPT ![c] = on'[c]], pick' = [pick EXCEPT ![c] = pick'[c]],
           op' = [op EXCEPT ![c] = op'[c]], cmd' = [cmd EXCEPT ![c] = cmd'[c]],
           Desk(odb', CleanOids(odb'), local'[c], have'[c], on'[c], pick'[c], op'[c], cmd'[c])
    PROVE  RInv'
<1>1. /\ SyncInv /\ LeakInv /\ DeskInv /\ ObjectDatabase(odb) /\ Len(odb) \in Nat
      /\ CleanOids(odb) \subseteq CleanOids(odb')
  BY CleanExtends DEF RInv, SyncInv, ObjectDatabase
<1>2. SyncInv'
  <2>1. dst' \in [Branches -> Oid0']
    BY DEF CleanOids, Oid0, NoOid, ObjectDatabase
  <2>2. CloneInv(odb', local'[c], have'[c], pc[c], run[c], job[c])
    BY <1>1, Untouched, CloneKept
  <2>3. CloneInv(odb', local'[c], have'[c], pc'[c], run'[c], job'[c])
    BY <2>2
  <2>4. /\ pc' = [pc EXCEPT ![c] = pc'[c]] /\ run' = [run EXCEPT ![c] = run'[c]]
        /\ job' = [job EXCEPT ![c] = job'[c]]
    BY <1>1, Untouched
  <2>5. QED
    BY <1>1, <2>1, <2>3, <2>4, CloneStep
<1>3. LeakInv'
  BY <1>1, LeakEnvironmentStep
<1>4. DeskInv'
  <2>1. ASSUME NEW d \in Clones
        PROVE  Desk(odb', CleanOids(odb'), local'[d], have'[d], on'[d], pick'[d], op'[d], cmd'[d])
    <3>1. CASE d = c
      BY <3>1
    <3>2. CASE d # c
      <4>1. /\ local'[d] = local[d] /\ have'[d] = have[d]
            /\ on'[d] = on[d] /\ pick'[d] = pick[d] /\ op'[d] = op[d] /\ cmd'[d] = cmd[d]
        BY <1>1, <3>2 DEF SyncInv, DeskInv, Table
      <4>2. /\ Closed(odb, have[d])
            /\ Desk(odb, CleanOids(odb), local[d], have[d], on[d], pick[d], op[d], cmd[d])
        BY <1>1, Untouched DEF DeskInv
      <4>3. QED
        BY <1>1, <4>1, <4>2, DeskKept
    <3>3. QED
      BY <3>1, <3>2
  <2>2. Table(on') /\ Table(pick') /\ Table(op') /\ Table(cmd')
    BY <1>1 DEF DeskInv, Table
  <2>3. QED
    BY <2>1, <2>2 DEF DeskInv
<1>5. QED
  BY <1>2, <1>3, <1>4 DEF RInv

(***************************************************************************)
(* The steps of sync, developers and customers.                            *)
(***************************************************************************)
Grows ==
    /\ \A c \in Clones : have[c] \subseteq have'[c]
    /\ \A c \in Clones : \A x \in Branches : local[c][x] # NoOid => local'[c][x] # NoOid

LEMMA GrowsAt ==
    ASSUME SyncInv, NEW c \in Clones,
           have' = have \/ \E new : have' = [have EXCEPT ![c] = have[c] \cup new],
           \/ local' = local
           \/ \E b, o : local' = [local EXCEPT ![c][b] = o] /\ o # NoOid
    PROVE  Grows
BY DEF Grows, SyncInv

LEMMA RunGrows ==
    ASSUME SyncInv, NEW c \in Clones, StartRun(c) \/ Sync(c) \/ Crash(c)
    PROVE  Extends(odb, odb') /\ Grows
<1>1. Extends(odb, odb')
  <2>1. ObjectDatabase(odb) /\ Extends(odb, odb)
    BY DEF SyncInv, Extends, ObjectDatabase
  <2>2. CASE odb' = odb
    BY <2>1, <2>2
  <2>3. CASE \E parents, tree, marker : Write(parents, tree, marker)
    BY <2>1, <2>3, WriteAppends
  <2>4. QED
    BY <2>2, <2>3, RunWrites
<1>2. have' = have \/ \E new : have' = [have EXCEPT ![c] = have[c] \cup new]
  <2>1. CASE StartRun(c) \/ Crash(c) \/ FetchHeads(c) \/ SkipImport(c) \/ Finish(c)
    BY <2>1 DEF StartRun, Crash, FetchHeads, SkipImport, Finish, clone
  <2>2. CASE BeginImport(c) \/ RefetchSource(c) \/ ReplayToSource(c)
    BY <2>2 DEF BeginImport, RefetchSource, ReplayToSource, clone
  <2>3. CASE NothingToPush(c) \/ PushToSource(c) \/ AdvanceLocalSourceBranch(c)
    BY <2>3 DEF NothingToPush, PushToSource, AdvanceLocalSourceBranch, clone
  <2>4. CASE ReconstructMappingIndex(c) \/ SelectNextBranch(c) \/ FetchDest(c)
    BY <2>4 DEF ReconstructMappingIndex, SelectNextBranch, FetchDest, clone
  <2>5. CASE PlanBranch(c) \/ ReplayToDest(c)
    <3>1. CASE PlanBranch(c)
      <4>1. PICK v, plan : have' = have \/ PlanBuild(c, v, plan.reuse)
        BY <3>1 DEF PlanBranch
      <4>2. QED
        BY <4>1 DEF PlanBuild
    <3>2. CASE ReplayToDest(c)
      BY <3>2 DEF ReplayToDest, clone
    <3>3. QED
      BY <2>5, <3>1, <3>2
  <2>6. CASE SealToDest(c) \/ PushToDest(c) \/ PushRejected(c)
    BY <2>6 DEF SealToDest, PushToDest, PushRejected, clone
  <2>7. QED
    BY <2>1, <2>2, <2>3, <2>4, <2>5, <2>6 DEF Sync
<1>3. \/ local' = local
      \/ \E b, o : local' = [local EXCEPT ![c][b] = o] /\ o # NoOid
  <2>1. CASE BeginImport(c)
    <3> DEFINE b == Head(run[c].imports)
               tip == IF local[c][b] # NoOid THEN local[c][b] ELSE src[b]
    <3>1. \/ tip = NoOid /\ local' = local
          \/ tip # NoOid /\ local' = [local EXCEPT ![c][b] = tip]
      BY <2>1 DEF BeginImport, clone
    <3> HIDE DEF b, tip
    <3>2. QED
      BY <3>1
  <2>2. CASE AdvanceLocalSourceBranch(c)
    <3>1. pc[c] = "import_advance" => job[c].chain # NoOid
      BY Untouched DEF CloneInv, JobRefs, Oids, NoOid
    <3>2. QED
      BY <2>2, <3>1 DEF AdvanceLocalSourceBranch
  <2>3. QED
    BY <2>1, <2>2 DEF StartRun, Crash, Sync, FetchHeads, SkipImport, RefetchSource,
       ReplayToSource, NothingToPush, PushToSource,
       ReconstructMappingIndex, SelectNextBranch, FetchDest, PlanBranch, ReplayToDest,
       SealToDest, PushToDest, PushRejected, Finish, clone
<1>4. QED
  BY <1>1, <1>2, <1>3, GrowsAt

LEMMA EnvironmentGrows ==
    ASSUME SyncInv, Environment
    PROVE  Extends(odb, odb') /\ Grows
<1>1. Extends(odb, odb')
  <2>1. ObjectDatabase(odb) /\ Extends(odb, odb)
    BY DEF SyncInv, Extends, ObjectDatabase
  <2>2. CASE odb' = odb
    BY <2>1, <2>2
  <2>3. CASE \E parents, tree : Write(parents, tree, NoMarker)
    BY <2>1, <2>3, WriteAppends
  <2>4. QED
    BY <2>2, <2>3, EnvironmentWrites
<1>2. NextOid # NoOid
  BY DEF NextOid, NoOid, SyncInv, ObjectDatabase
<1>3. ASSUME NEW c \in Clones, NEW b \in Branches,
             DevCommit(c, b) \/ DevAmend(c, b) \/ DevPush(c, b) \/ DevPull(c, b)
      PROVE  Grows
  <2>1. have' = have \/ \E new : have' = [have EXCEPT ![c] = have[c] \cup new]
    BY <1>3 DEF DevCommit, DevAmend, DevPush, DevPull, clone
  <2>2. local' = local \/ \E o : local' = [local EXCEPT ![c][b] = o] /\ o # NoOid
    BY <1>2, <1>3 DEF DevCommit, DevAmend, DevPush, DevPull, clone
  <2>3. QED
    BY <2>1, <2>2, GrowsAt
<1>4. ASSUME NEW c \in Clones, NEW b \in Branches, NEW from \in Branches,
             DevBranch(c, b, from) \/ DevMerge(c, b, from)
      PROVE  Grows
  <2>1. have' = have \/ \E new : have' = [have EXCEPT ![c] = have[c] \cup new]
    BY <1>4 DEF DevBranch, DevMerge
  <2>2. local' = local \/ \E o : local' = [local EXCEPT ![c][b] = o] /\ o # NoOid
    BY <1>2, <1>4 DEF DevBranch, DevMerge
  <2>3. QED
    BY <2>1, <2>2, GrowsAt
<1>5. ASSUME NEW b \in Branches, CustomerCommit(b) \/ CustomerDelete(b)
      PROVE  Grows
  BY <1>5 DEF CustomerCommit, CustomerDelete, clone, Grows
<1>6. ASSUME NEW b \in Branches, NEW from \in Branches,
             CustomerFastForward(b, from) \/ CustomerMerge(b, from)
      PROVE  Grows
  BY <1>6 DEF CustomerFastForward, CustomerMerge, clone, Grows
<1>7. QED
  BY <1>1, <1>3, <1>4, <1>5, <1>6 DEF Environment

LEMMA NextKeepsRInv ==
    ASSUME RInv, [Next]_vars, UNCHANGED <<on, pick, op, cmd>>
    PROVE  RInv'
<1>1. SyncInv /\ LeakInv /\ DeskInv /\ ObjectDatabase(odb)
  BY DEF RInv, SyncInv
<1>2. SyncInv' /\ LeakInv'
  BY <1>1, NextSyncInv, LeakNext
<1>3. Extends(odb, odb') /\ Grows
  <2>1. CASE \E c \in Clones : StartRun(c) \/ Sync(c) \/ Crash(c)
    BY <1>1, <2>1, RunGrows
  <2>2. CASE Environment
    BY <1>1, <2>2, EnvironmentGrows
  <2>3. CASE UNCHANGED vars
    BY <1>1, <2>3 DEF vars, clone, Extends, Grows, ObjectDatabase
  <2>4. QED
    BY <2>1, <2>2, <2>3 DEF Next
<1>4. CleanOids(odb) \subseteq CleanOids(odb')
  BY <1>1, <1>3, CleanExtends
<1>5. DeskInv'
  BY <1>1, <1>3, <1>4, DesksKept DEF Grows
<1>6. QED
  BY <1>2, <1>5 DEF RInv

LEMMA SyncCommandStep ==
    ASSUME RInv, NEW c \in Clones, SyncCommand(c), UNCHANGED <<on, pick, op, cmd>>
    PROVE  RInv'
<1>1. CASE StartRun(c) \/ Sync(c) \/ Crash(c)
  BY <1>1, NextKeepsRInv DEF Next
<1>2. CASE Abort(c, "preflight") /\ UNCHANGED <<odb, remotes, clone, spent>>
  <2>1. /\ SyncInv /\ LeakInv /\ DeskInv /\ ObjectDatabase(odb)
        /\ odb' = odb /\ src' = src /\ dst' = dst /\ local' = local /\ have' = have
    BY <1>2 DEF RInv, SyncInv, remotes, clone
  <2>2. SyncInv'
    <3>1. src' \in [Branches -> Oid0] /\ dst' \in [Branches -> Oid0]
      BY <2>1 DEF SyncInv
    <3>2. QED
      BY <1>2, <2>1, <3>1, Untouched, AbortStep
  <2>3. LeakInv'
    BY <1>2, <2>1, LeakAbort DEF LeakInv
  <2>4. DeskInv'
    BY <2>1, DesksKept, NothingWritten
  <2>5. QED
    BY <2>2, <2>3, <2>4 DEF RInv
<1>3. QED
  BY <1>1, <1>2 DEF SyncCommand

(***************************************************************************)
(* What every step of resolve knows, and the two kinds of step: those that *)
(* at most fetch, and those that commit.                                   *)
(***************************************************************************)
LEMMA DeskOf ==
    ASSUME RInv, NEW c \in Clones
    PROVE  /\ SyncInv /\ LeakInv /\ DeskInv /\ ObjectDatabase(odb) /\ CleanMarkers(odb)
           /\ src \in [Branches -> Oid0]
           /\ dst \in [Branches -> CleanOids(odb) \cup {NoOid}]
           /\ Closed(odb, have[c]) /\ have[c] \subseteq Oids
           /\ local[c] \in [Branches -> have[c] \cup {NoOid}]
           /\ have = [have EXCEPT ![c] = have[c]] /\ local = [local EXCEPT ![c] = local[c]]
           /\ on = [on EXCEPT ![c] = on[c]] /\ pick = [pick EXCEPT ![c] = pick[c]]
           /\ op = [op EXCEPT ![c] = op[c]] /\ cmd = [cmd EXCEPT ![c] = cmd[c]]
           /\ on[c] \in Branches /\ HeadOf(c) \in have[c]
           /\ pick[c] \in Picks(have[c]) /\ DOMAIN op[c] = Branches
           /\ \A x \in Branches : OperationInv(odb, CleanOids(odb), have[c], op[c][x])
           /\ CommandInv(odb, CleanOids(odb), have[c], cmd[c], op[c])
<1>1. SyncInv /\ LeakInv /\ DeskInv /\ ObjectDatabase(odb) /\ CleanMarkers(odb)
  BY DEF RInv, SyncInv, LeakInv
<1>2. /\ src \in [Branches -> Oid0] /\ dst \in [Branches -> CleanOids(odb) \cup {NoOid}]
      /\ DOMAIN on = Clones /\ DOMAIN pick = Clones /\ DOMAIN op = Clones /\ DOMAIN cmd = Clones
  BY <1>1 DEF SyncInv, LeakInv, DeskInv, Table
<1>3. /\ Closed(odb, have[c]) /\ have[c] \subseteq Oids
      /\ local[c] \in [Branches -> have[c] \cup {NoOid}]
      /\ have = [have EXCEPT ![c] = have[c]] /\ local = [local EXCEPT ![c] = local[c]]
  BY <1>1, Untouched
<1>4. Desk(odb, CleanOids(odb), local[c], have[c], on[c], pick[c], op[c], cmd[c])
  BY <1>1 DEF DeskInv
<1>5. /\ on = [on EXCEPT ![c] = on[c]] /\ pick = [pick EXCEPT ![c] = pick[c]]
      /\ op = [op EXCEPT ![c] = op[c]] /\ cmd = [cmd EXCEPT ![c] = cmd[c]]
  BY <1>1 DEF DeskInv, Table
<1>6. QED
  BY <1>1, <1>2, <1>3, <1>4, <1>5 DEF Desk, HeadOf

LEMMA DeskUpdated ==
    ASSUME DeskInv, NEW c \in Clones, NEW b, NEW p, NEW operations, NEW k,
           on' = [on EXCEPT ![c] = b], pick' = [pick EXCEPT ![c] = p],
           op' = [op EXCEPT ![c] = operations], cmd' = [cmd EXCEPT ![c] = k]
    PROVE  /\ on'[c] = b /\ pick'[c] = p /\ op'[c] = operations /\ cmd'[c] = k
           /\ on' = [on EXCEPT ![c] = on'[c]] /\ pick' = [pick EXCEPT ![c] = pick'[c]]
           /\ op' = [op EXCEPT ![c] = op'[c]] /\ cmd' = [cmd EXCEPT ![c] = cmd'[c]]
BY DEF DeskInv, Table

LEMMA QuietStep ==
    ASSUME RInv, NEW c \in Clones, UNCHANGED <<odb, pc, run, job>>,
           src' \in [Branches -> Oid0], dst' \in [Branches -> CleanOids(odb) \cup {NoOid}],
           NEW there \in [Branches -> have[c] \cup {NoOid}], local' = [local EXCEPT ![c] = there],
           \A x \in Branches : local[c][x] # NoOid => there[x] # NoOid,
           NEW tips \in SUBSET Oids,
           have' = have \/ have' = [have EXCEPT ![c] = have[c] \cup Fetched(tips)],
           NEW b, NEW p, NEW operations, NEW k,
           on' = [on EXCEPT ![c] = b], pick' = [pick EXCEPT ![c] = p],
           op' = [op EXCEPT ![c] = operations], cmd' = [cmd EXCEPT ![c] = k],
           Desk(odb, CleanOids(odb), there, have'[c], b, p, operations, k)
    PROVE  RInv'
<1>1. /\ SyncInv /\ LeakInv /\ DeskInv /\ ObjectDatabase(odb)
      /\ Closed(odb, have[c]) /\ have = [have EXCEPT ![c] = have[c]]
  BY DeskOf
<1>2. /\ have' = [have EXCEPT ![c] = have'[c]] /\ Closed(odb, have'[c]) /\ have[c] \subseteq have'[c]
  <2>1. CASE have' = have
    BY <1>1, <2>1
  <2>2. CASE have' = [have EXCEPT ![c] = have[c] \cup Fetched(tips)]
    BY <1>1, <2>2, AfterFetch
  <2>3. QED
    BY <2>1, <2>2
<1>3. local'[c] = there /\ local' = [local EXCEPT ![c] = local'[c]]
  BY <1>1 DEF SyncInv
<1>4. Extends(odb, odb') /\ CleanMarkers(odb') /\ CleanOids(odb') = CleanOids(odb)
  BY <1>1, NothingWritten
<1>5. /\ ObjectDatabase(odb') /\ Closed(odb', have'[c])
      /\ src' \in [Branches -> Oid0'] /\ dst' \in [Branches -> CleanOids(odb') \cup {NoOid}]
  BY <1>1, <1>2 DEF Oid0
<1>6. /\ on'[c] = b /\ pick'[c] = p /\ op'[c] = operations /\ cmd'[c] = k
      /\ on' = [on EXCEPT ![c] = on'[c]] /\ pick' = [pick EXCEPT ![c] = pick'[c]]
      /\ op' = [op EXCEPT ![c] = op'[c]] /\ cmd' = [cmd EXCEPT ![c] = cmd'[c]]
  BY <1>1, DeskUpdated
<1>7. Desk(odb', CleanOids(odb'), local'[c], have'[c], on'[c], pick'[c], op'[c], cmd'[c])
  BY <1>3, <1>6
<1>8. /\ local'[c] \in [Branches -> have'[c] \cup {NoOid}]
      /\ \A x \in Branches : local[c][x] # NoOid => local'[c][x] # NoOid
  BY <1>2, <1>3
<1>9. QED
  BY <1>2, <1>3, <1>4, <1>5, <1>6, <1>7, <1>8, DeskStep

(* A step that changes neither refs nor checkout, and at most fetches. *)
LEMMA CommandStep ==
    ASSUME RInv, NEW c \in Clones, UNCHANGED <<odb, local, pc, run, job, on, pick, op>>,
           src' \in [Branches -> Oid0], dst' \in [Branches -> CleanOids(odb) \cup {NoOid}],
           NEW tips \in SUBSET Oids,
           have' = have \/ have' = [have EXCEPT ![c] = have[c] \cup Fetched(tips)],
           NEW k, cmd' = [cmd EXCEPT ![c] = k],
           CommandInv(odb, CleanOids(odb), have'[c], k, op[c])
    PROVE  RInv'
<1>1. /\ SyncInv /\ DeskInv /\ ObjectDatabase(odb) /\ Closed(odb, have[c])
      /\ local[c] \in [Branches -> have[c] \cup {NoOid}] /\ local = [local EXCEPT ![c] = local[c]]
      /\ on = [on EXCEPT ![c] = on[c]] /\ pick = [pick EXCEPT ![c] = pick[c]]
      /\ op = [op EXCEPT ![c] = op[c]]
  BY DeskOf
<1>2. have[c] \subseteq have'[c]
  <2>1. CASE have' = [have EXCEPT ![c] = have[c] \cup Fetched(tips)]
    BY <1>1, <2>1, AfterFetch
  <2>2. QED
    BY <2>1
<1>3. Desk(odb, CleanOids(odb), local[c], have'[c], on[c], pick[c], op[c], cmd[c])
  <2>1. Desk(odb, CleanOids(odb), local[c], have[c], on[c], pick[c], op[c], cmd[c])
    BY <1>1 DEF DeskInv
  <2>2. Extends(odb, odb)
    BY <1>1 DEF Extends, ObjectDatabase
  <2>3. QED
    BY <1>1, <1>2, <2>1, <2>2, DeskKept
<1>4. Desk(odb, CleanOids(odb), local[c], have'[c], on[c], pick[c], op[c], k)
  BY <1>3 DEF Desk
<1> DEFINE here == local[c]
           branch == on[c]
           picked == pick[c]
           operations == op[c]
<1>5. /\ local' = [local EXCEPT ![c] = here] /\ on' = [on EXCEPT ![c] = branch]
      /\ pick' = [pick EXCEPT ![c] = picked] /\ op' = [op EXCEPT ![c] = operations]
      /\ here \in [Branches -> have[c] \cup {NoOid}]
      /\ Desk(odb, CleanOids(odb), here, have'[c], branch, picked, operations, k)
  BY <1>1, <1>4
<1>6. UNCHANGED <<odb, pc, run, job>>
  OBVIOUS
<1>7. \A x \in Branches : local[c][x] # NoOid => here[x] # NoOid
  OBVIOUS
<1> HIDE DEF here, branch, picked, operations
<1>8. QED
  BY <1>5, <1>6, <1>7, QuietStep, ZenonT(150)

(* A commit on one of the clone's own. *)
LEMMA Committed ==
    ASSUME RInv, NEW c \in Clones, NEW G, have[c] \subseteq G, Closed(odb, G),
           NEW parent \in G, NEW tree \in Trees, NEW marker \in Markers(Known(G)),
           Write(<<parent>>, tree, marker),
           marker.dir = "SourceToDest" => parent \in CleanOids(odb) /\ CleanTree(tree),
           marker.dir \in {"Setup", "DestToSource"} => marker.counterpart \in CleanOids(odb)
    PROVE  /\ ObjectDatabase(odb') /\ Extends(odb, odb') /\ CleanMarkers(odb')
           /\ Closed(odb', G \cup {NextOid}) /\ Len(odb') = NextOid
           /\ CleanOids(odb) \subseteq CleanOids(odb')
           /\ marker.dir = "SourceToDest" => NextOid \in CleanOids(odb')
           /\ odb'[NextOid].parents = <<parent>> /\ odb'[NextOid].tree = tree
           /\ odb'[NextOid].marker = marker
           /\ odb'[NextOid].line # <<>> /\ odb'[NextOid].line[1] = NextOid
<1>1. ObjectDatabase(odb) /\ CleanMarkers(odb) /\ parent \in Oids
  BY DeskOf DEF Closed, Oids
<1>2. <<parent>> \in Seq(G) /\ <<parent>> \in Seq(Oids)
  BY <1>1, SingletonSeq
<1>3. /\ ObjectDatabase(odb') /\ Extends(odb, odb') /\ Closed(odb', G \cup {NextOid})
      /\ Len(odb') = NextOid /\ odb'[NextOid].tree = tree /\ odb'[NextOid].marker = marker
  BY <1>1, <1>2, WriteKeepsClosed DEF Known
<1>4. CleanOids(odb) \subseteq CleanOids(odb')
  BY <1>1, <1>3, CleanExtends
<1>5. marker.dir = "SourceToDest" => NextOid \in CleanOids(odb')
  <2>1. SUFFICES ASSUME marker.dir = "SourceToDest" PROVE NextOid \in CleanOids(odb')
    OBVIOUS
  <2>2. <<parent>> \in Seq(CleanOids(odb))
    BY <2>1, SingletonSeq
  <2>3. QED
    BY <1>1, <2>1, <2>2, CleanWrite DEF CleanTree
<1>6. CleanMarkers(odb')
  BY <1>1, <1>5, CleanMarkersWrite
<1>7. /\ odb'[NextOid].parents = <<parent>>
      /\ odb'[NextOid].line # <<>> /\ odb'[NextOid].line[1] = NextOid
  <2>1. odb'[NextOid] = NewCommit(<<parent>>, tree, marker)
    BY <1>1 DEF Write, NextOid, ObjectDatabase
  <2>2. Line(parent) \in Seq(Nat) /\ <<NextOid>> \in Seq(Nat)
    <3>1. odb[parent] \in Commits /\ NextOid \in Nat
      BY <1>1 DEF ObjectDatabase, Oids, NextOid
    <3>2. QED
      BY <3>1, SingletonSeq DEF Line, Commits
  <2>3. <<NextOid>> \o Line(parent) # <<>> /\ (<<NextOid>> \o Line(parent))[1] = NextOid
    BY <2>2
  <2>4. QED
    BY <2>1, <2>3 DEF NewCommit
<1>8. QED
  BY <1>3, <1>4, <1>5, <1>6, <1>7

LEMMA CommitStep ==
    ASSUME RInv, NEW c \in Clones, NEW G, have[c] \subseteq G, Closed(odb, G),
           NEW parent \in G, NEW tree \in Trees, NEW marker \in Markers(Known(G)),
           Write(<<parent>>, tree, marker),
           marker.dir = "SourceToDest" => parent \in CleanOids(odb) /\ CleanTree(tree),
           marker.dir \in {"Setup", "DestToSource"} => marker.counterpart \in CleanOids(odb),
           have' = [have EXCEPT ![c] = G \cup {NextOid}],
           UNCHANGED <<src, dst, pc, run, job, on, op>>,
           NEW there \in [Branches -> G \cup {NextOid, NoOid}],
           local' = [local EXCEPT ![c] = there],
           \A x \in Branches : local[c][x] # NoOid => there[x] # NoOid,
           NEW p \in Picks(G \cup {NextOid}), pick' = [pick EXCEPT ![c] = p],
           NEW k, cmd' = [cmd EXCEPT ![c] = k],
           CommandInv(odb', CleanOids(odb'), G \cup {NextOid}, cmd[c], op[c]) =>
               CommandInv(odb', CleanOids(odb'), G \cup {NextOid}, k, op[c])
    PROVE  RInv'
<1> DEFINE H == G \cup {NextOid}
<1>1. /\ SyncInv /\ DeskInv /\ ObjectDatabase(odb) /\ Closed(odb, have[c])
      /\ on = [on EXCEPT ![c] = on[c]] /\ op = [op EXCEPT ![c] = op[c]]
      /\ src \in [Branches -> Oid0] /\ dst \in [Branches -> CleanOids(odb) \cup {NoOid}]
  BY DeskOf
<1>2. /\ ObjectDatabase(odb') /\ Extends(odb, odb') /\ CleanMarkers(odb')
      /\ Closed(odb', H) /\ Len(odb') = NextOid /\ CleanOids(odb) \subseteq CleanOids(odb')
  BY Committed
<1>3. local'[c] = there /\ local' = [local EXCEPT ![c] = local'[c]]
  BY <1>1 DEF SyncInv
<1>4. have'[c] = H /\ have' = [have EXCEPT ![c] = have'[c]]
  BY <1>1 DEF SyncInv
<1>5. Desk(odb', CleanOids(odb'), there, H, on[c], pick[c], op[c], cmd[c])
  <2>1. Desk(odb, CleanOids(odb), local[c], have[c], on[c], pick[c], op[c], cmd[c])
    BY <1>1 DEF DeskInv
  <2>2. local[c][on[c]] # NoOid => there[on[c]] # NoOid
    BY <2>1 DEF Desk
  <2> HIDE DEF H
  <2>3. have[c] \subseteq H
    BY DEF H
  <2>4. QED
    BY <1>1, <1>2, <2>1, <2>2, <2>3, DeskKept
<1>6. Desk(odb', CleanOids(odb'), there, H, on[c], p, op[c], k)
  BY <1>5 DEF Desk
<1>7. on' = [on EXCEPT ![c] = on[c]] /\ op' = [op EXCEPT ![c] = op[c]]
  BY <1>1
<1>8. /\ on'[c] = on[c] /\ pick'[c] = p /\ op'[c] = op[c] /\ cmd'[c] = k
      /\ on' = [on EXCEPT ![c] = on'[c]] /\ pick' = [pick EXCEPT ![c] = pick'[c]]
      /\ op' = [op EXCEPT ![c] = op'[c]] /\ cmd' = [cmd EXCEPT ![c] = cmd'[c]]
  <2>1. DOMAIN on = Clones /\ DOMAIN pick = Clones /\ DOMAIN op = Clones /\ DOMAIN cmd = Clones
    BY <1>1 DEF DeskInv, Table
  <2>2. on'[c] = on[c] /\ op'[c] = op[c] /\ on' = [on EXCEPT ![c] = on'[c]]
        /\ op' = [op EXCEPT ![c] = op'[c]]
    BY <1>7, <2>1
  <2>3. pick'[c] = p /\ pick' = [pick EXCEPT ![c] = pick'[c]]
    BY <2>1
  <2>4. cmd'[c] = k /\ cmd' = [cmd EXCEPT ![c] = cmd'[c]]
    BY <2>1
  <2>5. QED
    BY <2>2, <2>3, <2>4
<1>9. Desk(odb', CleanOids(odb'), local'[c], have'[c], on'[c], pick'[c], op'[c], cmd'[c])
  BY <1>3, <1>4, <1>6, <1>8
<1>10. /\ src' \in [Branches -> Oid0'] /\ dst' \in [Branches -> CleanOids(odb') \cup {NoOid}]
  BY <1>1, <1>2 DEF Oid0, ObjectDatabase, NextOid
<1>11. /\ have[c] \subseteq have'[c] /\ Closed(odb', have'[c])
       /\ local'[c] \in [Branches -> have'[c] \cup {NoOid}]
       /\ \A x \in Branches : local[c][x] # NoOid => local'[c][x] # NoOid
  BY <1>2, <1>3, <1>4
<1>12. UNCHANGED <<pc, run, job>>
  OBVIOUS
<1>13. QED
  BY <1>2, <1>3, <1>4, <1>8, <1>9, <1>10, <1>11, <1>12, DeskStep, ZenonT(60)

LEMMA IdleCommand ==
    ASSUME NEW db, NEW C, NEW H, NEW operations
    PROVE  CommandInv(db, C, H, NoCommand, operations)
<1>1. NoCommand \in Commands(H)
  <2>1. <<>> \in Seq(H)
    OBVIOUS
  <2>2. QED
    BY <2>1 DEF NoCommand, Commands, Known, Places
<1>2. QED
  BY <1>1 DEF CommandInv, NoCommand

(* A command ends: it gives up, or it has done what it was there for. *)
LEMMA DoneStep ==
    ASSUME RInv, NEW c \in Clones, Done(c), UNCHANGED <<odb, local, pc, run, job, on, pick, op>>,
           src' \in [Branches -> Oid0], dst' \in [Branches -> CleanOids(odb) \cup {NoOid}],
           NEW tips \in SUBSET Oids,
           have' = have \/ have' = [have EXCEPT ![c] = have[c] \cup Fetched(tips)]
    PROVE  RInv'
<1>1. CommandInv(odb, CleanOids(odb), have'[c], NoCommand, op[c])
  BY IdleCommand
<1>2. UNCHANGED <<odb, local, pc, run, job, on, pick, op>>
  OBVIOUS
<1>3. QED
  BY <1>1, <1>2, CommandStep, ZenonT(60) DEF Done

LEMMA PendingDestOfHead ==
    ASSUME ObjectDatabase(odb), NEW H, NEW tip, NEW head \in Oids, NEW b
    PROVE  PendingDest(H, tip, head, b) \subseteq Anc(head)
<1> DEFINE boundary == DestToSourceBoundary(H, tip, head, b)
<1>1. PendingCommits(boundary, head) \in Seq(Anc(head))
  BY PendingCommitsOfTip
<1>2. ToSet(PendingCommits(boundary, head)) \subseteq Anc(head)
  <2> HIDE DEF boundary
  <2>1. QED
    BY <1>1 DEF ToSet
<1>3. QED
  BY <1>2 DEF PendingDest

(* What fetching dest's branch b brings in. *)
LEMMA DestFetched ==
    ASSUME RInv, NEW c \in Clones, NEW b \in Branches, dst[b] # NoOid,
           have' = [have EXCEPT ![c] = @ \cup Fetched({dst[b]})]
    PROVE  /\ dst[b] \in CleanOids(odb) /\ {dst[b]} \in SUBSET Oids
           /\ have' = [have EXCEPT ![c] = have[c] \cup Fetched({dst[b]})]
           /\ have[c] \subseteq have'[c] /\ Closed(odb, have'[c])
           /\ dst[b] \in have'[c] /\ Anc(dst[b]) \subseteq have'[c] \cap CleanOids(odb)
<1>1. /\ SyncInv /\ ObjectDatabase(odb) /\ dst \in [Branches -> CleanOids(odb) \cup {NoOid}]
  BY DeskOf
<1>2. /\ dst[b] \in CleanOids(odb) /\ dst[b] \in Oids /\ Anc(dst[b]) \subseteq CleanOids(odb)
  BY <1>1, CleanAncestors
<1>3. have' = [have EXCEPT ![c] = have[c] \cup Fetched({dst[b]})]
  BY <1>1 DEF SyncInv
<1>4. {dst[b]} \in SUBSET Oids
  BY <1>2
<1>5. have[c] \subseteq have'[c] /\ Closed(odb, have'[c]) /\ {dst[b]} \subseteq have'[c]
  BY <1>1, <1>3, <1>4, AfterFetch
<1>6. QED
  BY <1>2, <1>3, <1>4, <1>5 DEF Closed, Anc

LEMMA ResolveStartStep ==
    ASSUME RInv, NEW c \in Clones, NEW b \in Branches, ResolveStart(c, b) PROVE RInv'
<1>1. /\ dst[b] # NoOid /\ have' = [have EXCEPT ![c] = @ \cup Fetched({dst[b]})]
      /\ UNCHANGED <<odb, src, dst, local, pc, run, job, on, pick, op>>
  BY DEF ResolveStart, sync
<1>2. PICK o \in PendingDest(have'[c], local[c][b], dst[b], b) :
         cmd' = [cmd EXCEPT ![c] = [NoCommand EXCEPT !.at = "pick", !.branch = b, !.commit = o]]
  BY DEF ResolveStart
<1>3. /\ dst[b] \in CleanOids(odb) /\ {dst[b]} \in SUBSET Oids
      /\ have' = [have EXCEPT ![c] = have[c] \cup Fetched({dst[b]})]
      /\ Anc(dst[b]) \subseteq have'[c] \cap CleanOids(odb)
  BY <1>1, DestFetched
<1>4. o \in have'[c] \cap CleanOids(odb)
  <2>1. ObjectDatabase(odb) /\ dst[b] \in Oids
    BY <1>3, DeskOf
  <2>2. QED
    BY <1>2, <1>3, <2>1, PendingDestOfHead
<1> DEFINE k == [NoCommand EXCEPT !.at = "pick", !.branch = b, !.commit = o]
<1>5. CommandInv(odb, CleanOids(odb), have'[c], k, op[c])
  <2>1. CommandInv(odb, CleanOids(odb), have'[c], NoCommand, op[c])
    BY IdleCommand
  <2>2. QED
    BY <1>4, <2>1 DEF CommandInv, Commands, NoCommand, Places, Known
<1>6. src' \in [Branches -> Oid0] /\ dst' \in [Branches -> CleanOids(odb) \cup {NoOid}]
  BY <1>1, DeskOf
<1>7. UNCHANGED <<odb, local, pc, run, job, on, pick, op>>
  BY <1>1
<1> HIDE DEF k
<1>8. cmd' = [cmd EXCEPT ![c] = k]
  BY <1>2 DEF k
<1>9. QED
  BY <1>3, <1>5, <1>6, <1>7, <1>8, CommandStep, ZenonT(60)

(***************************************************************************)
(* dest -> source.                                                         *)
(***************************************************************************)
LEMMA NoPickKnown == ASSUME NEW H PROVE NoPick \in Picks(H)
BY TreesClosed DEF NoPick, Picks, Known

LEMMA PicksGrow == ASSUME NEW H, NEW G, H \subseteq G PROVE Picks(H) \subseteq Picks(G)
BY DEF Picks, Known

LEMMA CherryPickKnown ==
    ASSUME RInv, NEW c \in Clones, NEW o \in have[c]
    PROVE  LET ours == TreeOf(HeadOf(c))
           IN  /\ CherryTree(o, ours) \in Trees
               /\ [commit |-> o, index |-> CherryTree(o, ours),
                   unresolved |-> CherryClashes(o, ours)] \in Picks(have[c])
<1> DEFINE ours == TreeOf(HeadOf(c))
<1>1. ObjectDatabase(odb) /\ o \in Oids /\ HeadOf(c) \in Oids
  BY DeskOf
<1>2. ours \in Trees /\ TreeOf(o) \in Trees
  BY <1>1, TreeOfType
<1>3. TreeOf(FirstParent(o)) \in Trees
  <2>1. FirstParent(o) \in Oids \cup {NoOid}
    BY <1>1, CommitFacts
  <2>2. QED
    BY <1>1, <2>1, TreeOfType
<1>4. CherryTree(o, ours) \in Trees
  BY <1>2, <1>3, TreesClosed DEF CherryTree
<1>5. CherryClashes(o, ours) \in SUBSET Paths
  BY DEF CherryClashes, Clashes
<1> HIDE DEF ours
<1>6. QED
  BY <1>4, <1>5 DEF ours, Picks, Known

(* git commits in the checkout. *)
LEMMA HeadCommitStep ==
    ASSUME RInv, NEW c \in Clones, NEW tree \in Trees, CommitOnHead(c, tree),
           UNCHANGED <<src, dst, pc, run, job, on, op>>,
           NEW p \in {pick[c], NoPick}, pick' = [pick EXCEPT ![c] = p],
           NEW k, cmd' = [cmd EXCEPT ![c] = k],
           k = cmd[c] \/ (cmd[c].at \in {"pick", "continue"} /\ k = [cmd[c] EXCEPT !.at = "read_head"])
    PROVE  RInv'
<1> DEFINE there == [local[c] EXCEPT ![on[c]] = NextOid]
<1>1. /\ SyncInv /\ ObjectDatabase(odb) /\ Closed(odb, have[c]) /\ HeadOf(c) \in have[c]
      /\ pick[c] \in Picks(have[c]) /\ on[c] \in Branches
      /\ local[c] \in [Branches -> have[c] \cup {NoOid}]
  BY DeskOf
<1>2. /\ Write(<<HeadOf(c)>>, tree, NoMarker)
      /\ have' = [have EXCEPT ![c] = have[c] \cup {NextOid}]
      /\ local' = [local EXCEPT ![c] = there]
  BY <1>1 DEF CommitOnHead, SyncInv
<1>3. /\ there \in [Branches -> have[c] \cup {NextOid, NoOid}]
      /\ \A x \in Branches : local[c][x] # NoOid => there[x] # NoOid
  BY <1>1 DEF NextOid, NoOid, ObjectDatabase
<1>4. p \in Picks(have[c] \cup {NextOid})
  BY <1>1, NoPickKnown, PicksGrow
<1>5. NoMarker \in Markers(Known(have[c])) /\ NoMarker.dir = "None"
  BY DEF NoMarker, Markers, Known
<1>6. ASSUME NEW db, NEW C, NEW H, CommandInv(db, C, H, cmd[c], op[c])
      PROVE  CommandInv(db, C, H, k, op[c])
  <2>1. CASE k = cmd[c]
    BY <1>6, <2>1
  <2>2. CASE cmd[c].at \in {"pick", "continue"} /\ k = [cmd[c] EXCEPT !.at = "read_head"]
    BY <1>6, <2>2 DEF CommandInv, Commands, Places
  <2>3. QED
    BY <2>1, <2>2
<1>7. /\ NoMarker.dir = "SourceToDest" => HeadOf(c) \in CleanOids(odb) /\ CleanTree(tree)
      /\ NoMarker.dir \in {"Setup", "DestToSource"} => NoMarker.counterpart \in CleanOids(odb)
  BY <1>5
<1>8. UNCHANGED <<src, dst, pc, run, job, on, op>>
  OBVIOUS
<1> HIDE DEF there
<1>9. QED
  BY <1>1, <1>2, <1>3, <1>4, <1>5, <1>6, <1>7, <1>8, CommitStep, ZenonT(120)

(* A pick is started, edited or given up; the command, if any, ends. *)
LEMMA PickStep ==
    ASSUME RInv, NEW c \in Clones,
           UNCHANGED <<odb, src, dst, local, have, pc, run, job, on, op>>,
           NEW p \in Picks(have[c]), pick' = [pick EXCEPT ![c] = p],
           NEW k \in {cmd[c], NoCommand}, cmd' = [cmd EXCEPT ![c] = k]
    PROVE  RInv'
<1>1. /\ SyncInv /\ DeskInv /\ ObjectDatabase(odb) /\ on = [on EXCEPT ![c] = on[c]]
      /\ op = [op EXCEPT ![c] = op[c]] /\ local = [local EXCEPT ![c] = local[c]]
      /\ local[c] \in [Branches -> have[c] \cup {NoOid}]
      /\ src \in [Branches -> Oid0] /\ dst \in [Branches -> CleanOids(odb) \cup {NoOid}]
  BY DeskOf
<1>2. Desk(odb, CleanOids(odb), local[c], have[c], on[c], pick[c], op[c], cmd[c])
  BY <1>1 DEF DeskInv
<1>3. CommandInv(odb, CleanOids(odb), have[c], k, op[c])
  BY <1>2, IdleCommand DEF Desk
<1>4. Desk(odb, CleanOids(odb), local[c], have'[c], on[c], p, op[c], k)
  BY <1>2, <1>3 DEF Desk
<1>5. /\ UNCHANGED <<odb, pc, run, job>> /\ have' = have
      /\ src' \in [Branches -> Oid0] /\ dst' \in [Branches -> CleanOids(odb) \cup {NoOid}]
      /\ local' = [local EXCEPT ![c] = local[c]] /\ on' = [on EXCEPT ![c] = on[c]]
      /\ op' = [op EXCEPT ![c] = op[c]]
      /\ \A x \in Branches : local[c][x] # NoOid => local[c][x] # NoOid
  BY <1>1
<1>6. {} \in SUBSET Oids
  OBVIOUS
<1>7. QED
  BY <1>1, <1>4, <1>5, <1>6, QuietStep, ZenonT(60)

LEMMA CherryPickStep == ASSUME RInv, NEW c \in Clones, CherryPick(c) PROVE RInv'
<1> DEFINE o == cmd[c].commit
           ours == TreeOf(HeadOf(c))
<1>1. /\ cmd[c].at = "pick" /\ UNCHANGED <<src, dst, pc, run, job, on, op, tries>>
      /\ pick = [pick EXCEPT ![c] = pick[c]]
  BY DeskOf DEF CherryPick, sync
<1>2. o \in have[c] /\ pick[c] \in Picks(have[c])
  BY <1>1, DeskOf DEF CommandInv
<1>3. /\ CherryTree(o, ours) \in Trees
      /\ [commit |-> o, index |-> CherryTree(o, ours),
          unresolved |-> CherryClashes(o, ours)] \in Picks(have[c])
  BY <1>2, CherryPickKnown
<1>4. CASE pick[c] # NoPick /\ Done(c) /\ UNCHANGED <<odb, local, have, pick>>
  BY <1>1, <1>2, <1>4, PickStep DEF Done
<1>5. CASE /\ pick' = [pick EXCEPT ![c] = [commit |-> o, index |-> CherryTree(o, ours),
                                           unresolved |-> CherryClashes(o, ours)]]
           /\ Done(c) /\ UNCHANGED <<odb, local, have>>
  BY <1>1, <1>3, <1>5, PickStep DEF Done
<1>6. CASE CommitOnHead(c, CherryTree(o, ours)) /\ At(c, "read_head") /\ UNCHANGED pick
  <2>1. cmd' = [cmd EXCEPT ![c] = [cmd[c] EXCEPT !.at = "read_head"]]
    BY <1>6 DEF At
  <2>2. pick' = [pick EXCEPT ![c] = pick[c]] /\ pick[c] \in {pick[c], NoPick}
    BY <1>1, <1>6
  <2>3. UNCHANGED <<src, dst, pc, run, job, on, op>>
    BY <1>1
  <2> HIDE DEF o, ours
  <2>4. QED
    BY <1>1, <1>3, <1>6, <2>1, <2>2, <2>3, HeadCommitStep, ZenonT(60)
<1>7. QED
  BY <1>4, <1>5, <1>6 DEF CherryPick

LEMMA ResolveContinueStep ==
    ASSUME RInv, NEW c \in Clones, NEW b \in Branches, ResolveContinue(c, b) PROVE RInv'
<1> DEFINE k == [NoCommand EXCEPT !.at = "continue", !.branch = b, !.commit = pick[c].commit]
<1>1. /\ dst[b] # NoOid /\ have' = [have EXCEPT ![c] = @ \cup Fetched({dst[b]})]
      /\ UNCHANGED <<odb, src, dst, local, pc, run, job, on, pick, op>>
      /\ pick[c].commit \in PendingDest(have'[c], local[c][b], dst[b], b)
      /\ cmd' = [cmd EXCEPT ![c] = k]
  BY DEF ResolveContinue, sync, NextPending
<1>2. /\ dst[b] \in CleanOids(odb) /\ {dst[b]} \in SUBSET Oids
      /\ have' = [have EXCEPT ![c] = have[c] \cup Fetched({dst[b]})]
      /\ Anc(dst[b]) \subseteq have'[c] \cap CleanOids(odb)
  BY <1>1, DestFetched
<1>3. pick[c].commit \in have'[c] \cap CleanOids(odb)
  <2>1. ObjectDatabase(odb) /\ dst[b] \in Oids
    BY <1>2, DeskOf
  <2>2. QED
    BY <1>1, <1>2, <2>1, PendingDestOfHead
<1>4. CommandInv(odb, CleanOids(odb), have'[c], k, op[c])
  <2>1. CommandInv(odb, CleanOids(odb), have'[c], NoCommand, op[c])
    BY IdleCommand
  <2>2. QED
    BY <1>3, <2>1 DEF CommandInv, Commands, NoCommand, Places, Known
<1>5. src' \in [Branches -> Oid0] /\ dst' \in [Branches -> CleanOids(odb) \cup {NoOid}]
  BY <1>1, DeskOf
<1>6. UNCHANGED <<odb, local, pc, run, job, on, pick, op>>
  BY <1>1
<1> HIDE DEF k
<1>7. QED
  BY <1>1, <1>2, <1>4, <1>5, <1>6, CommandStep, ZenonT(60)

LEMMA CherryPickContinueStep ==
    ASSUME RInv, NEW c \in Clones, CherryPickContinue(c) PROVE RInv'
<1>1. /\ cmd[c].at = "continue" /\ UNCHANGED <<src, dst, pc, run, job, on, op>>
      /\ pick[c] \in Picks(have[c]) /\ pick = [pick EXCEPT ![c] = pick[c]]
  BY DeskOf DEF CherryPickContinue, sync
<1>2. CASE Done(c) /\ UNCHANGED <<odb, local, have, pick>>
  BY <1>1, <1>2, PickStep DEF Done
<1>3. CASE CommitOnHead(c, pick[c].index) /\ pick' = [pick EXCEPT ![c] = NoPick] /\ At(c, "read_head")
  <2>1. cmd' = [cmd EXCEPT ![c] = [cmd[c] EXCEPT !.at = "read_head"]]
    BY <1>3 DEF At
  <2>2. pick[c].index \in Trees /\ NoPick \in {pick[c], NoPick}
    BY <1>1 DEF Picks
  <2>3. UNCHANGED <<src, dst, pc, run, job, on, op>>
    BY <1>1
  <2>4. QED
    BY <1>1, <1>3, <2>1, <2>2, <2>3, HeadCommitStep, ZenonT(60)
<1>4. QED
  BY <1>2, <1>3 DEF CherryPickContinue

LEMMA RebuildStep == ASSUME RInv, NEW c \in Clones, Rebuild(c) PROVE RInv'
<1> DEFINE head == HeadOf(c)
           marker == Marker("DestToSource", cmd[c].branch, cmd[c].commit)
           k == [cmd[c] EXCEPT !.at = "swap", !.head = head, !.chain = NextOid]
           H == have[c] \cup {NextOid}
<1>1. /\ cmd[c].at = "read_head" /\ UNCHANGED <<src, dst, local, pc, run, job, on, pick, op>>
      /\ ObjectDatabase(odb) /\ SyncInv /\ Closed(odb, have[c]) /\ head \in have[c] /\ head \in Oids
      /\ CommandInv(odb, CleanOids(odb), have[c], cmd[c], op[c])
      /\ src \in [Branches -> Oid0] /\ dst \in [Branches -> CleanOids(odb) \cup {NoOid}]
  BY DeskOf DEF Rebuild, sync
<1>2. CASE Done(c) /\ UNCHANGED <<odb, have>>
  <2>1. {} \in SUBSET Oids
    OBVIOUS
  <2>2. QED
    BY <1>1, <1>2, <2>1, DoneStep, ZenonT(60)
<1>3. CASE /\ odb[head].parents # <<>> /\ Write(<<FirstParent(head)>>, TreeOf(head), marker)
           /\ have' = [have EXCEPT ![c] = @ \cup {NextOid}]
           /\ cmd' = [cmd EXCEPT ![c].at = "swap", ![c].head = HeadOf(c), ![c].chain = NextOid]
  <2>1. FirstParent(head) \in have[c] /\ FirstParent(head) = odb[head].parents[1]
    <3>1. odb[head].parents \in Seq(Anc(head) \ {head})
      BY <1>1, CommitFacts
    <3>2. odb[head].parents[1] \in Anc(head)
      BY <1>3, <3>1
    <3>3. QED
      BY <1>1, <1>3, <3>2 DEF FirstParent, Closed, Anc
  <2>2. TreeOf(head) \in Trees /\ TreeOf(head) = odb[head].tree
    <3>1. TreeOf(head) \in Trees
      BY <1>1, CommitFacts
    <3>2. head # NoOid
      BY <1>1 DEF Oids, NoOid
    <3>3. QED
      BY <3>1, <3>2 DEF TreeOf
  <2>3. /\ cmd[c].commit \in CleanOids(odb) \cap have[c] /\ cmd[c].branch \in Branches
        /\ cmd[c] \in Commands(have[c])
    BY <1>1 DEF CommandInv
  <2>4. /\ marker \in Markers(Known(have[c])) /\ marker.dir = "DestToSource"
        /\ marker.counterpart \in CleanOids(odb)
    BY <2>3 DEF Marker, Markers, Known, Directions
  <2>5. cmd' = [cmd EXCEPT ![c] = k]
    BY <1>3
  <2>6. have' = [have EXCEPT ![c] = H]
    BY <1>1, <1>3 DEF SyncInv
  <2>7. marker.dir # "SourceToDest"
    BY <2>4
  <2> HIDE DEF marker
  <2>8. /\ Extends(odb, odb') /\ odb'[NextOid].parents = <<FirstParent(head)>>
        /\ odb'[NextOid].tree = TreeOf(head)
    BY <1>1, <1>3, <2>1, <2>2, <2>4, <2>7, Committed, ZenonT(60)
  <2>9. odb'[head] = odb[head]
    BY <1>1, <2>8 DEF Extends, Oids
  <2>10. ASSUME CommandInv(odb', CleanOids(odb'), H, cmd[c], op[c])
         PROVE  CommandInv(odb', CleanOids(odb'), H, k, op[c])
    <3>1. k \in Commands(H)
      BY <1>1, <2>10 DEF CommandInv, Commands, Places, Known
    <3>2. k.at = "swap" /\ k.head = head /\ k.chain = NextOid /\ k.branch = cmd[c].branch
      BY <2>3 DEF Commands
    <3> HIDE DEF k
    <3>3. Replaces(odb', k)
      BY <1>3, <2>1, <2>2, <2>8, <2>9, <3>2 DEF Replaces
    <3>4. QED
      BY <1>1, <2>3, <3>1, <3>2, <3>3 DEF CommandInv
  <2>11. /\ local' = [local EXCEPT ![c] = local[c]] /\ local[c] \in [Branches -> have[c] \cup {NextOid, NoOid}]
         /\ \A x \in Branches : local[c][x] # NoOid => local[c][x] # NoOid
         /\ pick' = [pick EXCEPT ![c] = pick[c]] /\ pick[c] \in Picks(H)
    <3>1. /\ local = [local EXCEPT ![c] = local[c]] /\ pick = [pick EXCEPT ![c] = pick[c]]
          /\ local[c] \in [Branches -> have[c] \cup {NoOid}] /\ pick[c] \in Picks(have[c])
      BY DeskOf
    <3>2. QED
      BY <1>1, <3>1, PicksGrow
  <2>12. UNCHANGED <<src, dst, pc, run, job, on, op>>
    BY <1>1
  <2>13. marker.dir = "SourceToDest" => FirstParent(head) \in CleanOids(odb) /\ CleanTree(TreeOf(head))
    BY <2>7
  <2> HIDE DEF k
  <2>14. QED
    BY <1>1, <1>3, <2>1, <2>2, <2>4, <2>5, <2>6, <2>10, <2>11, <2>12, <2>13, CommitStep, ZenonT(120)
<1>4. QED
  BY <1>2, <1>3 DEF Rebuild

LEMMA SwapStep == ASSUME RInv, NEW c \in Clones, Swap(c) PROVE RInv'
<1> DEFINE there == [local[c] EXCEPT ![cmd[c].branch] = cmd[c].chain]
           k == [cmd[c] EXCEPT !.at = "push_import"]
<1>1. /\ cmd[c].at = "swap" /\ UNCHANGED <<odb, src, dst, have, pc, run, job, pick, op>>
      /\ SyncInv /\ DeskInv /\ CommandInv(odb, CleanOids(odb), have[c], cmd[c], op[c])
      /\ src \in [Branches -> Oid0] /\ dst \in [Branches -> CleanOids(odb) \cup {NoOid}]
      /\ local[c] \in [Branches -> have[c] \cup {NoOid}] /\ have[c] \subseteq Oids
      /\ pick = [pick EXCEPT ![c] = pick[c]] /\ op = [op EXCEPT ![c] = op[c]]
  BY DeskOf DEF Swap, sync
<1>2. {} \in SUBSET Oids
  OBVIOUS
<1>3. CASE Done(c) /\ UNCHANGED <<local, on>>
  BY <1>1, <1>2, <1>3, DoneStep, ZenonT(60)
<1>4. CASE /\ local' = [local EXCEPT ![c][cmd[c].branch] = cmd[c].chain]
           /\ on' = [on EXCEPT ![c] = cmd[c].branch] /\ At(c, "push_import")
  <2>1. cmd[c].chain \in have[c] /\ cmd[c].chain # NoOid /\ cmd[c].branch \in Branches
    BY <1>1 DEF CommandInv, Oids, NoOid
  <2>2. /\ there \in [Branches -> have[c] \cup {NoOid}] /\ local' = [local EXCEPT ![c] = there]
        /\ \A x \in Branches : local[c][x] # NoOid => there[x] # NoOid
        /\ there[cmd[c].branch] # NoOid
    BY <1>1, <1>4, <2>1 DEF SyncInv
  <2>3. cmd' = [cmd EXCEPT ![c] = k]
    BY <1>4 DEF At
  <2>4. CommandInv(odb, CleanOids(odb), have[c], k, op[c])
    BY <1>1 DEF CommandInv, Commands, Places
  <2>5. Desk(odb, CleanOids(odb), local[c], have[c], on[c], pick[c], op[c], cmd[c])
    BY <1>1 DEF DeskInv
  <2> HIDE DEF there, k
  <2>6. Desk(odb, CleanOids(odb), there, have'[c], cmd[c].branch, pick[c], op[c], k)
    BY <1>1, <2>1, <2>2, <2>4, <2>5 DEF Desk
  <2>7. /\ UNCHANGED <<odb, pc, run, job>> /\ have' = have
        /\ src' \in [Branches -> Oid0] /\ dst' \in [Branches -> CleanOids(odb) \cup {NoOid}]
        /\ pick' = [pick EXCEPT ![c] = pick[c]] /\ op' = [op EXCEPT ![c] = op[c]]
    BY <1>1
  <2>8. QED
    BY <1>2, <1>4, <2>2, <2>3, <2>6, <2>7, QuietStep, ZenonT(60)
<1>5. QED
  BY <1>3, <1>4 DEF Swap

LEMMA PushImportStep == ASSUME RInv, NEW c \in Clones, PushImport(c) PROVE RInv'
<1>1. /\ cmd[c].at = "push_import" /\ Done(c)
      /\ UNCHANGED <<odb, dst, local, have, pc, run, job, on, pick, op>>
      /\ src' \in {src, [src EXCEPT ![cmd[c].branch] = cmd[c].chain]}
      /\ src \in [Branches -> Oid0] /\ dst \in [Branches -> CleanOids(odb) \cup {NoOid}]
  BY DeskOf DEF PushImport
<1>2. cmd[c].chain \in Oids
  BY <1>1, DeskOf DEF CommandInv
<1>3. src' \in [Branches -> Oid0] /\ dst' \in [Branches -> CleanOids(odb) \cup {NoOid}]
  BY <1>1, <1>2 DEF Oid0, Oids
<1>4. {} \in SUBSET Oids
  OBVIOUS
<1>5. QED
  BY <1>1, <1>3, <1>4, DoneStep, ZenonT(60)

(***************************************************************************)
(* source -> dest.                                                         *)
(***************************************************************************)
LEMMA ResolveToDestStartStep ==
    ASSUME RInv, NEW c \in Clones, NEW b \in Branches, ResolveToDestStart(c, b) PROVE RInv'
<1> DEFINE tip == local[c][b]
           point == DestResumePoint(have'[c], tip, dst[b], b)
           k == [NoCommand EXCEPT !.at = "reuse", !.branch = b, !.tip = tip, !.seen = dst[b],
                     !.chain = dst[b], !.boundary = point.at,
                     !.pending = PendingCommits(point.at, tip)]
<1>1. /\ on[c] = b /\ dst[b] # NoOid /\ have' = [have EXCEPT ![c] = @ \cup Fetched({dst[b]})]
      /\ UNCHANGED <<odb, src, dst, local, pc, run, job, on, pick, op>>
      /\ point.kind = "Ok" /\ cmd' = [cmd EXCEPT ![c] = k]
  BY DEF ResolveToDestStart, sync
<1>2. /\ dst[b] \in CleanOids(odb) /\ {dst[b]} \in SUBSET Oids
      /\ have' = [have EXCEPT ![c] = have[c] \cup Fetched({dst[b]})]
      /\ have[c] \subseteq have'[c] /\ Closed(odb, have'[c]) /\ dst[b] \in have'[c]
  BY <1>1, DestFetched
<1>3. tip \in have'[c] /\ tip \in Oids /\ dst[b] \in Oids /\ ObjectDatabase(odb)
  BY <1>1, <1>2, DeskOf DEF HeadOf
<1>4. Anc(tip) \subseteq have'[c]
  BY <1>2, <1>3 DEF Closed, Anc
<1>5. point.at \in have'[c]
  BY <1>1, <1>3, <1>4, ResumePointKnown
<1>6. PendingCommits(point.at, tip) \in Seq(Anc(tip)) /\ PendingCommits(point.at, tip) \in Seq(have'[c])
  <2> HIDE DEF point, tip
  <2>1. PendingCommits(point.at, tip) \in Seq(Anc(tip))
    BY <1>3, PendingCommitsOfTip
  <2>2. QED
    BY <1>4, <2>1, SeqMonotonic
<1>7. CommandInv(odb, CleanOids(odb), have'[c], k, op[c])
  <2>1. NoCommand \in Commands(have'[c])
    BY IdleCommand DEF CommandInv
  <2> HIDE DEF point, tip
  <2>2. k \in Commands(have'[c])
    BY <1>2, <1>3, <1>5, <1>6, <2>1 DEF Commands, Places, Known
  <2>3. /\ k.at = "reuse" /\ k.branch = b /\ k.tip = tip /\ k.chain = dst[b] /\ k.commit = NoOid
        /\ k.pending = PendingCommits(point.at, tip)
    BY DEF NoCommand
  <2> HIDE DEF k
  <2>4. k.pending \in Seq(odb[k.tip].anc) /\ k.commit \in odb[k.tip].anc \cup {NoOid}
    BY <1>6, <2>3 DEF Anc
  <2>5. QED
    BY <1>2, <1>3, <2>2, <2>3, <2>4 DEF CommandInv
<1>8. src' \in [Branches -> Oid0] /\ dst' \in [Branches -> CleanOids(odb) \cup {NoOid}]
  BY <1>1, DeskOf
<1>9. UNCHANGED <<odb, local, pc, run, job, on, pick, op>>
  BY <1>1
<1> HIDE DEF k
<1>10. QED
  BY <1>1, <1>2, <1>7, <1>8, <1>9, CommandStep, ZenonT(60)

LEMMA AllFetched ==
    ASSUME RInv, NEW c \in Clones
    PROVE  /\ {dst[b] : b \in {x \in Branches : dst[x] # NoOid}} \in SUBSET Oids
           /\ have[c] \subseteq HaveAll(c) /\ Closed(odb, HaveAll(c)) /\ HaveAll(c) \subseteq Oids
<1> DEFINE tips == {dst[b] : b \in {x \in Branches : dst[x] # NoOid}}
<1>1. ObjectDatabase(odb) /\ Closed(odb, have[c]) /\ dst \in [Branches -> CleanOids(odb) \cup {NoOid}]
  BY DeskOf
<1>2. tips \in SUBSET Oids
  BY <1>1 DEF CleanOids, Oids
<1> HIDE DEF tips
<1>3. Closed(odb, have[c] \cup UNION {Anc(o) : o \in tips})
  BY <1>1, <1>2, FetchedClosed
<1>4. HaveAll(c) = have[c] \cup UNION {Anc(o) : o \in tips}
  BY DEF HaveAll, Fetched, tips
<1>5. QED
  BY <1>2, <1>3, <1>4 DEF tips, Closed, Oids

(* A command over some commits is one over more. *)
LEMMA CommandsGrow ==
    ASSUME NEW H, NEW G, H \subseteq G, NEW k \in Commands(H)
    PROVE  k \in Commands(G)
<1>1. k.pending \in Seq(G)
  BY SeqMonotonic DEF Commands
<1>2. QED
  BY <1>1 DEF Commands, Known

LEMMA CheckReuseStep == ASSUME RInv, NEW c \in Clones, CheckReuse(c) PROVE RInv'
<1> DEFINE tips == {dst[b] : b \in {x \in Branches : dst[x] # NoOid}}
           k == [cmd[c] EXCEPT !.at = "replay"]
<1>1. /\ cmd[c].at = "reuse" /\ UNCHANGED <<odb, src, dst, local, pc, run, job, on, pick, op>>
      /\ have' = [have EXCEPT ![c] = HaveAll(c)]
      /\ cmd' = [cmd EXCEPT ![c] = k] \/ Done(c)
      /\ SyncInv /\ ObjectDatabase(odb) /\ Closed(odb, have[c])
      /\ CommandInv(odb, CleanOids(odb), have[c], cmd[c], op[c])
      /\ src \in [Branches -> Oid0] /\ dst \in [Branches -> CleanOids(odb) \cup {NoOid}]
  BY DeskOf DEF CheckReuse, sync, At
<1>2. tips \in SUBSET Oids /\ have' = [have EXCEPT ![c] = have[c] \cup Fetched(tips)]
  BY <1>1, AllFetched DEF HaveAll
<1>3. have[c] \subseteq have'[c]
  BY <1>1, <1>2, AfterFetch
<1> HIDE DEF tips
<1>4. UNCHANGED <<odb, local, pc, run, job, on, pick, op>>
  BY <1>1
<1>5. src' \in [Branches -> Oid0] /\ dst' \in [Branches -> CleanOids(odb) \cup {NoOid}]
  BY <1>1
<1>6. CASE Done(c)
  BY <1>2, <1>4, <1>5, <1>6, DoneStep, ZenonT(60)
<1>7. CASE cmd' = [cmd EXCEPT ![c] = k]
  <2>1. cmd[c] \in Commands(have'[c])
    BY <1>1, <1>3, CommandsGrow DEF CommandInv
  <2>2. k \in Commands(have'[c])
    BY <2>1 DEF Commands, Places
  <2>3. CommandInv(odb, CleanOids(odb), have'[c], k, op[c])
    BY <1>1, <1>3, <2>2 DEF CommandInv, Commands
  <2> HIDE DEF k
  <2>4. QED
    BY <1>2, <1>4, <1>5, <1>7, <2>3, CommandStep, ZenonT(60)
<1>8. QED
  BY <1>1, <1>6, <1>7

LEMMA TailKept == ASSUME NEW S, NEW s \in Seq(S), s # <<>> PROVE Head(s) \in S /\ Tail(s) \in Seq(S)
BY HeadTailProperties

LEMMA ReplayPrefixStep == ASSUME RInv, NEW c \in Clones, ReplayPrefix(c) PROVE RInv'
<1> DEFINE o == Head(cmd[c].pending)
           rest == Tail(cmd[c].pending)
           chain == cmd[c].chain
           merged == MergeTree(FilterTree(TreeOf(ReplayParent(o))), TreeOf(chain),
                               FilterTree(TreeOf(o)))
           marker == Marker("SourceToDest", cmd[c].branch, o)
           skipped == [cmd[c] EXCEPT !.pending = rest]
           stuck == [cmd[c] EXCEPT !.pending = <<>>, !.commit = o]
           built == [cmd[c] EXCEPT !.pending = rest, !.chain = NextOid]
           H == have[c] \cup {NextOid}
<1>1. /\ cmd[c].at = "replay" /\ cmd[c].pending # <<>>
      /\ UNCHANGED <<src, dst, local, pc, run, job, on, pick, op>>
      /\ ObjectDatabase(odb) /\ SyncInv /\ Closed(odb, have[c]) /\ have[c] \subseteq Oids
      /\ CommandInv(odb, CleanOids(odb), have[c], cmd[c], op[c])
      /\ src \in [Branches -> Oid0] /\ dst \in [Branches -> CleanOids(odb) \cup {NoOid}]
  BY DeskOf DEF ReplayPrefix, sync
<1>2. /\ o \in Anc(cmd[c].tip) /\ rest \in Seq(Anc(cmd[c].tip)) /\ o \in have[c]
      /\ rest \in Seq(have[c]) /\ chain \in have[c] /\ chain \in CleanOids(odb)
      /\ cmd[c].branch \in Branches
  <2>1. cmd[c].pending \in Seq(Anc(cmd[c].tip)) /\ cmd[c].pending \in Seq(have[c])
    BY <1>1 DEF CommandInv, Commands, Anc
  <2>2. QED
    BY <1>1, <2>1, TailKept DEF CommandInv
<1>3. \/ cmd' = [cmd EXCEPT ![c] = skipped] /\ UNCHANGED <<odb, have>>
      \/ cmd' = [cmd EXCEPT ![c] = stuck] /\ UNCHANGED <<odb, have>>
      \/ /\ Write(<<chain>>, merged, marker)
         /\ have' = [have EXCEPT ![c] = @ \cup {NextOid}]
         /\ cmd' = [cmd EXCEPT ![c] = built]
  BY DEF ReplayPrefix
<1>4. UNCHANGED <<local, pc, run, job, on, pick, op>>
  BY <1>1
<1>5. src' \in [Branches -> Oid0] /\ dst' \in [Branches -> CleanOids(odb) \cup {NoOid}]
  BY <1>1
<1>6. {} \in SUBSET Oids
  OBVIOUS
<1>7. CASE cmd' = [cmd EXCEPT ![c] = skipped] /\ UNCHANGED <<odb, have>>
  <2> HIDE DEF o, rest, chain, merged, marker
  <2>1. skipped \in Commands(have[c])
    BY <1>1, <1>2 DEF CommandInv, Commands
  <2>2. CommandInv(odb, CleanOids(odb), have'[c], skipped, op[c])
    BY <1>1, <1>2, <1>7, <2>1 DEF CommandInv, Commands, Anc
  <2> HIDE DEF skipped
  <2>3. QED
    BY <1>4, <1>5, <1>6, <1>7, <2>2, CommandStep, ZenonT(60)
<1>8. CASE cmd' = [cmd EXCEPT ![c] = stuck] /\ UNCHANGED <<odb, have>>
  <2> HIDE DEF o, rest, chain, merged, marker
  <2>1. stuck \in Commands(have[c]) /\ <<>> \in Seq(Anc(cmd[c].tip))
    <3>1. <<>> \in Seq(have[c]) /\ <<>> \in Seq(Anc(cmd[c].tip))
      OBVIOUS
    <3>2. cmd[c] \in Commands(have[c])
      BY <1>1 DEF CommandInv
    <3>3. stuck \in Commands(have[c])
      BY <1>2, <3>1, <3>2 DEF Commands, Known
    <3>4. QED
      BY <3>1, <3>3
  <2>2. CommandInv(odb, CleanOids(odb), have'[c], stuck, op[c])
    BY <1>1, <1>2, <1>8, <2>1 DEF CommandInv, Commands, Anc
  <2> HIDE DEF stuck
  <2>3. QED
    BY <1>4, <1>5, <1>6, <1>8, <2>2, CommandStep, ZenonT(60)
<1>9. CASE /\ Write(<<chain>>, merged, marker)
           /\ have' = [have EXCEPT ![c] = @ \cup {NextOid}]
           /\ cmd' = [cmd EXCEPT ![c] = built]
  <2>1. merged \in Trees /\ CleanTree(merged)
    <3>1. TreeOf(chain) \in Trees /\ TreeOf(o) \in Trees /\ CleanTree(TreeOf(chain))
      BY <1>1, <1>2, TreeOfType, TreeOfClean
    <3>2. TreeOf(ReplayParent(o)) \in Trees
      <4>1. FirstParent(o) \in Oids \cup {NoOid}
        BY <1>1, <1>2, CommitFacts
      <4>2. QED
        BY <1>1, <4>1, TreeOfType DEF ReplayParent
    <3> HIDE DEF o, chain
    <3>3. QED
      BY <3>1, <3>2, TreesClosed, ReplayClean
  <2>2. /\ marker \in Markers(Known(have[c])) /\ marker.dir = "SourceToDest"
    BY <1>2 DEF Marker, Markers, Known, Directions
  <2>3. have' = [have EXCEPT ![c] = H]
    BY <1>1, <1>9 DEF SyncInv
  <2>4. marker.dir \in {"Setup", "DestToSource"} => marker.counterpart \in CleanOids(odb)
    BY <2>2
  <2> HIDE DEF o, rest, chain, merged, marker
  <2>5. /\ Extends(odb, odb') /\ CleanOids(odb) \subseteq CleanOids(odb')
        /\ NextOid \in CleanOids(odb')
    BY <1>1, <1>2, <1>9, <2>1, <2>2, <2>4, Committed, ZenonT(60)
  <2>6. ASSUME CommandInv(odb', CleanOids(odb'), H, cmd[c], op[c])
        PROVE  CommandInv(odb', CleanOids(odb'), H, built, op[c])
    <3>1. rest \in Seq(H)
      BY <1>2, SeqMonotonic
    <3>2. built \in Commands(H)
      <4>1. cmd[c] \in Commands(H) /\ NextOid \in Known(H)
        BY <2>6 DEF CommandInv, Known
      <4> HIDE DEF H
      <4>2. QED
        BY <3>1, <4>1 DEF Commands
    <3>3. odb'[cmd[c].tip].anc = Anc(cmd[c].tip)
      BY <1>1, <2>5 DEF Extends, Anc, Oids, CommandInv
    <3>4. QED
      BY <1>1, <1>2, <2>5, <2>6, <3>2, <3>3 DEF CommandInv, Commands
  <2>7. /\ local' = [local EXCEPT ![c] = local[c]] /\ local[c] \in [Branches -> have[c] \cup {NextOid, NoOid}]
        /\ \A x \in Branches : local[c][x] # NoOid => local[c][x] # NoOid
        /\ pick' = [pick EXCEPT ![c] = pick[c]] /\ pick[c] \in Picks(H)
    <3>1. /\ local = [local EXCEPT ![c] = local[c]] /\ pick = [pick EXCEPT ![c] = pick[c]]
          /\ local[c] \in [Branches -> have[c] \cup {NoOid}] /\ pick[c] \in Picks(have[c])
      BY DeskOf
    <3>2. QED
      BY <1>1, <3>1, PicksGrow
  <2>8. UNCHANGED <<src, dst, pc, run, job, on, op>>
    BY <1>1
  <2> HIDE DEF built
  <2>9. QED
    BY <1>1, <1>2, <1>9, <2>1, <2>2, <2>3, <2>4, <2>6, <2>7, <2>8, CommitStep, ZenonT(120)
<1>10. QED
  BY <1>3, <1>7, <1>8, <1>9

LEMMA PushPrefixStep == ASSUME RInv, NEW c \in Clones, PushPrefix(c) PROVE RInv'
<1> DEFINE k == [cmd[c] EXCEPT !.at = "open"]
<1>1. /\ cmd[c].at = "replay" /\ cmd[c].pending = <<>>
      /\ UNCHANGED <<odb, src, local, have, pc, run, job, on, pick, op>>
      /\ dst' \in {dst, [dst EXCEPT ![cmd[c].branch] = cmd[c].chain]}
      /\ \/ Done(c)
         \/ cmd[c].commit # NoOid /\ cmd' = [cmd EXCEPT ![c] = k]
      /\ CommandInv(odb, CleanOids(odb), have[c], cmd[c], op[c])
      /\ src \in [Branches -> Oid0] /\ dst \in [Branches -> CleanOids(odb) \cup {NoOid}]
  BY DeskOf DEF PushPrefix, At
<1>2. UNCHANGED <<odb, local, pc, run, job, on, pick, op>> /\ have' = have
  BY <1>1
<1>3. src' \in [Branches -> Oid0] /\ dst' \in [Branches -> CleanOids(odb) \cup {NoOid}]
  BY <1>1 DEF CommandInv
<1>4. {} \in SUBSET Oids
  OBVIOUS
<1>5. CASE Done(c)
  BY <1>2, <1>3, <1>4, <1>5, DoneStep, ZenonT(60)
<1>6. CASE cmd[c].commit # NoOid /\ cmd' = [cmd EXCEPT ![c] = k]
  <2>1. CommandInv(odb, CleanOids(odb), have'[c], k, op[c])
    BY <1>1, <1>2, <1>6 DEF CommandInv, Commands, Places
  <2> HIDE DEF k
  <2>2. QED
    BY <1>2, <1>3, <1>4, <1>6, <2>1, CommandStep, ZenonT(60)
<1>7. QED
  BY <1>1, <1>5, <1>6

(* An operation of clone c on branch b changes and the command goes on as k. *)
LEMMA OperationsStep ==
    ASSUME RInv, NEW c \in Clones,
           UNCHANGED <<odb, src, dst, local, have, pc, run, job, on, pick>>,
           NEW operations, op' = [op EXCEPT ![c] = operations], DOMAIN operations = Branches,
           \A x \in Branches : OperationInv(odb, CleanOids(odb), have[c], operations[x]),
           NEW k, cmd' = [cmd EXCEPT ![c] = k],
           CommandInv(odb, CleanOids(odb), have[c], k, operations)
    PROVE  RInv'
<1>1. /\ SyncInv /\ DeskInv /\ ObjectDatabase(odb) /\ on = [on EXCEPT ![c] = on[c]]
      /\ pick = [pick EXCEPT ![c] = pick[c]] /\ local = [local EXCEPT ![c] = local[c]]
      /\ local[c] \in [Branches -> have[c] \cup {NoOid}]
      /\ src \in [Branches -> Oid0] /\ dst \in [Branches -> CleanOids(odb) \cup {NoOid}]
  BY DeskOf
<1>2. Desk(odb, CleanOids(odb), local[c], have[c], on[c], pick[c], op[c], cmd[c])
  BY <1>1 DEF DeskInv
<1>3. Desk(odb, CleanOids(odb), local[c], have'[c], on[c], pick[c], operations, k)
  BY <1>2 DEF Desk
<1>4. /\ UNCHANGED <<odb, pc, run, job>> /\ have' = have
      /\ src' \in [Branches -> Oid0] /\ dst' \in [Branches -> CleanOids(odb) \cup {NoOid}]
      /\ local' = [local EXCEPT ![c] = local[c]] /\ on' = [on EXCEPT ![c] = on[c]]
      /\ pick' = [pick EXCEPT ![c] = pick[c]]
      /\ \A x \in Branches : local[c][x] # NoOid => local[c][x] # NoOid
  BY <1>1
<1>5. {} \in SUBSET Oids
  OBVIOUS
<1>6. QED
  BY <1>1, <1>3, <1>4, <1>5, QuietStep, ZenonT(60)

LEMMA OperationStep ==
    ASSUME RInv, NEW c \in Clones, NEW b \in Branches,
           UNCHANGED <<odb, src, dst, local, have, pc, run, job, on, pick>>,
           NEW o, op' = [op EXCEPT ![c][b] = o], OperationInv(odb, CleanOids(odb), have[c], o),
           NEW k, cmd' = [cmd EXCEPT ![c] = k],
           CommandInv(odb, CleanOids(odb), have[c], k, [op[c] EXCEPT ![b] = o])
    PROVE  RInv'
<1> DEFINE operations == [op[c] EXCEPT ![b] = o]
<1>1. /\ DOMAIN operations = Branches
      /\ \A x \in Branches : OperationInv(odb, CleanOids(odb), have[c], operations[x])
  BY DeskOf
<1>2. op' = [op EXCEPT ![c] = operations]
  OBVIOUS
<1>3. QED
  BY <1>1, <1>2, OperationsStep

LEMMA NoOperationKnown == ASSUME NEW db, NEW C, NEW H PROVE OperationInv(db, C, H, NoOperation)
BY TreesClosed DEF OperationInv, NoOperation, Operations, Known

LEMMA OperationKnown ==
    ASSUME RInv, NEW c \in Clones, cmd[c].at = "open", NEW active \in BOOLEAN,
           NEW index \in Trees, NEW unresolved \in SUBSET Paths, NEW kind \in {"open", "lost"}
    PROVE  OperationInv(odb, CleanOids(odb), have[c],
                        [Operation(c, active, index, unresolved) EXCEPT !.kind = kind])
<1>1. CommandInv(odb, CleanOids(odb), have[c], cmd[c], op[c]) /\ Closed(odb, have[c])
  BY DeskOf
<1>2. /\ cmd[c].tip \in have[c] /\ cmd[c].chain \in have[c] \cap CleanOids(odb)
      /\ cmd[c].commit \in odb[cmd[c].tip].anc /\ cmd[c].commit \in have[c]
  BY <1>1 DEF CommandInv, Closed
<1>3. QED
  BY <1>2 DEF OperationInv, Operation, Operations, Known

LEMMA OpenWorktreeStep == ASSUME RInv, NEW c \in Clones, OpenWorktree(c) PROVE RInv'
<1> DEFINE b == cmd[c].branch
           base == FilterTree(TreeOf(ReplayParent(cmd[c].commit)))
           ours == TreeOf(cmd[c].chain)
           theirs == FilterTree(TreeOf(cmd[c].commit))
           merged == MergeTree(base, ours, theirs)
           clash == Clashes(base, ours, theirs)
           now == [cmd[c] EXCEPT !.at = "finish_now"]
           Inv(o) == OperationInv(odb, CleanOids(odb), have[c], o)
           Put(o) == op' = [op EXCEPT ![c][b] = o]
<1>1. /\ cmd[c].at = "open" /\ UNCHANGED <<odb, src, dst, local, have, pc, run, job, on, pick>>
      /\ ObjectDatabase(odb) /\ Closed(odb, have[c]) /\ have[c] \subseteq Oids
      /\ CommandInv(odb, CleanOids(odb), have[c], cmd[c], op[c])
  BY DeskOf DEF OpenWorktree, sync
<1>2. cmd[c].chain \in Oids /\ cmd[c].commit \in Oids /\ b \in Branches
  BY <1>1 DEF CommandInv, Closed
<1>3. ours \in Trees /\ TreeOf(cmd[c].commit) \in Trees /\ TreeOf(ReplayParent(cmd[c].commit)) \in Trees
  <2>1. FirstParent(cmd[c].commit) \in Oids \cup {NoOid}
    BY <1>1, <1>2, CommitFacts
  <2>2. QED
    BY <1>1, <1>2, <2>1, TreeOfType DEF ReplayParent
<1>4. merged \in Trees /\ clash \in SUBSET Paths
  BY <1>3, TreesClosed DEF Clashes
<1>5. \/ Put(Operation(c, TRUE, merged, clash)) /\ Done(c)
      \/ Put(Operation(c, FALSE, merged, {})) /\ cmd' = [cmd EXCEPT ![c] = now]
      \/ Put(Operation(c, FALSE, ours, {})) /\ Done(c)
      \/ Put(NoOperation) /\ Done(c)
      \/ Put([Operation(c, FALSE, ours, {}) EXCEPT !.kind = "lost"]) /\ Done(c)
  BY DEF OpenWorktree, At
<1> HIDE DEF base, ours, theirs, merged, clash
<1>6. \A active, index, unresolved :
        Operation(c, active, index, unresolved) =
            [Operation(c, active, index, unresolved) EXCEPT !.kind = "open"]
  BY DEF Operation
<1>7. /\ Inv(Operation(c, TRUE, merged, clash)) /\ Inv(Operation(c, FALSE, merged, {}))
      /\ Inv(Operation(c, FALSE, ours, {})) /\ Inv(NoOperation)
      /\ Inv([Operation(c, FALSE, ours, {}) EXCEPT !.kind = "lost"])
  <2>1. TRUE \in BOOLEAN /\ FALSE \in BOOLEAN /\ {} \in SUBSET Paths
    OBVIOUS
  <2>2. Inv(NoOperation)
    BY NoOperationKnown
  <2>3. \A active \in BOOLEAN, index \in Trees, unresolved \in SUBSET Paths, kind \in {"open", "lost"} :
           Inv([Operation(c, active, index, unresolved) EXCEPT !.kind = kind])
    BY <1>1, OperationKnown
  <2> HIDE DEF Inv
  <2>4. \A active \in BOOLEAN, index \in Trees, unresolved \in SUBSET Paths :
           Inv(Operation(c, active, index, unresolved))
    <3> SUFFICES ASSUME NEW active \in BOOLEAN, NEW index \in Trees, NEW unresolved \in SUBSET Paths
                 PROVE  Inv(Operation(c, active, index, unresolved))
      OBVIOUS
    <3>1. Inv([Operation(c, active, index, unresolved) EXCEPT !.kind = "open"])
      BY <2>3
    <3>2. QED
      BY <1>6, <3>1
  <2>5. QED
    BY <1>3, <1>4, <2>1, <2>2, <2>3, <2>4
<1>8. ASSUME NEW operations PROVE /\ CommandInv(odb, CleanOids(odb), have[c], NoCommand, operations)
                                  /\ CommandInv(odb, CleanOids(odb), have[c], now, operations)
  <2>1. now \in Commands(have[c])
    BY <1>1 DEF CommandInv, Commands, Places
  <2>2. QED
    BY <1>1, <2>1, IdleCommand DEF CommandInv, Commands
<1>9. UNCHANGED <<odb, src, dst, local, have, pc, run, job, on, pick>>
  BY <1>1
<1>10. ASSUME NEW o, Put(o), Inv(o), Done(c) \/ cmd' = [cmd EXCEPT ![c] = now] PROVE RInv'
  <2>1. PICK k : /\ cmd' = [cmd EXCEPT ![c] = k]
                 /\ CommandInv(odb, CleanOids(odb), have[c], k, [op[c] EXCEPT ![b] = o])
    BY <1>8, <1>10 DEF Done
  <2>2. QED
    BY <1>2, <1>9, <1>10, <2>1, OperationStep
<1>11. QED
  <2> HIDE DEF Put, Inv, now
  <2>1. QED
    BY <1>5, <1>7, <1>10

LEMMA ResolveToDestContinueStep ==
    ASSUME RInv, NEW c \in Clones, NEW b \in Branches, ResolveToDestContinue(c, b) PROVE RInv'
<1> DEFINE k == [NoCommand EXCEPT !.at = "finish", !.branch = b]
<1>1. /\ UNCHANGED <<odb, src, dst, local, have, pc, run, job, on, pick, op>>
      /\ cmd' = [cmd EXCEPT ![c] = k]
      /\ src \in [Branches -> Oid0] /\ dst \in [Branches -> CleanOids(odb) \cup {NoOid}]
  BY DeskOf DEF ResolveToDestContinue, sync
<1>2. CommandInv(odb, CleanOids(odb), have'[c], k, op[c])
  <2>1. CommandInv(odb, CleanOids(odb), have'[c], NoCommand, op[c])
    BY IdleCommand
  <2>2. QED
    BY <2>1 DEF CommandInv, Commands, NoCommand, Places
<1>3. {} \in SUBSET Oids
  OBVIOUS
<1>4. /\ UNCHANGED <<odb, local, pc, run, job, on, pick, op>> /\ have' = have
      /\ src' \in [Branches -> Oid0] /\ dst' \in [Branches -> CleanOids(odb) \cup {NoOid}]
  BY <1>1
<1> HIDE DEF k
<1>5. QED
  BY <1>1, <1>2, <1>3, <1>4, CommandStep, ZenonT(60)

LEMMA FinishToDestStep == ASSUME RInv, NEW c \in Clones, FinishToDest(c) PROVE RInv'
<1> DEFINE b == cmd[c].branch
           o == op[c][b]
           G == HaveAll(c)
           H == G \cup {NextOid}
           tips == {dst[x] : x \in {y \in Branches : dst[y] # NoOid}}
           marker == Marker("SourceToDest", b, o.commit)
           k == [cmd[c] EXCEPT !.at = "push_resolution", !.made = NextOid]
<1>1. /\ cmd[c].at \in {"finish", "finish_now"}
      /\ UNCHANGED <<src, dst, local, pc, run, job, on, pick, op>>
      /\ SyncInv /\ ObjectDatabase(odb) /\ Closed(odb, have[c]) /\ have[c] \subseteq Oids
      /\ CommandInv(odb, CleanOids(odb), have[c], cmd[c], op[c])
      /\ src \in [Branches -> Oid0] /\ dst \in [Branches -> CleanOids(odb) \cup {NoOid}]
      /\ \A x \in Branches : OperationInv(odb, CleanOids(odb), have[c], op[c][x])
  BY DeskOf DEF FinishToDest, sync
<1>2. b \in Branches /\ OperationInv(odb, CleanOids(odb), have[c], o)
  BY <1>1 DEF CommandInv
<1>3. tips \in SUBSET Oids /\ have[c] \subseteq G /\ Closed(odb, G) /\ G = have[c] \cup Fetched(tips)
  BY AllFetched DEF HaveAll
<1>4. \/ Done(c) /\ UNCHANGED <<odb, have>>
      \/ Done(c) /\ odb' = odb /\ have' = [have EXCEPT ![c] = have[c] \cup Fetched(tips)]
      \/ /\ Finishable(c, o) /\ Write(<<o.base>>, o.index, marker)
         /\ have' = [have EXCEPT ![c] = H] /\ cmd' = [cmd EXCEPT ![c] = k]
  BY <1>3 DEF FinishToDest
<1>5. CASE \/ Done(c) /\ UNCHANGED <<odb, have>>
           \/ Done(c) /\ odb' = odb /\ have' = [have EXCEPT ![c] = have[c] \cup Fetched(tips)]
  <2>1. Done(c) /\ UNCHANGED <<odb, local, pc, run, job, on, pick, op>>
    BY <1>1, <1>5
  <2>2. have' = have \/ have' = [have EXCEPT ![c] = have[c] \cup Fetched(tips)]
    BY <1>5
  <2>3. src' \in [Branches -> Oid0] /\ dst' \in [Branches -> CleanOids(odb) \cup {NoOid}]
    BY <1>1
  <2> HIDE DEF tips
  <2>4. QED
    BY <1>3, <2>1, <2>2, <2>3, DoneStep, ZenonT(60)
<1>6. CASE /\ Finishable(c, o) /\ Write(<<o.base>>, o.index, marker)
           /\ have' = [have EXCEPT ![c] = H] /\ cmd' = [cmd EXCEPT ![c] = k]
  <2>1. /\ o.kind # "none" /\ o.base \in CleanOids(odb) \cap have[c] /\ o.commit \in have[c]
        /\ o.index \in Trees
    BY <1>2, <1>6 DEF Finishable, OperationInv, Operations
  <2>2. CleanTree(o.index)
    <3>1. CleanTree(TreeOf(o.base))
      BY <1>1, <2>1, TreeOfClean
    <3>2. \A p \in Excluded : o.index[p] = TreeOf(o.base)[p]
      BY <1>6 DEF Finishable, ExcludedEdits
    <3>3. QED
      BY <3>1, <3>2 DEF CleanTree
  <2>3. /\ marker \in Markers(Known(G)) /\ marker.dir = "SourceToDest" /\ o.base \in G
    BY <1>2, <1>3, <2>1 DEF Marker, Markers, Known, Directions
  <2>4. marker.dir \in {"Setup", "DestToSource"} => marker.counterpart \in CleanOids(odb)
    BY <2>3
  <2>5. marker.dir = "SourceToDest" => o.base \in CleanOids(odb) /\ CleanTree(o.index)
    BY <2>1, <2>2
  <2>6. /\ marker = Marker("SourceToDest", cmd[c].branch, o.commit) /\ o = op[c][cmd[c].branch]
        /\ Write(<<o.base>>, o.index, marker)
    BY <1>6
  <2> HIDE DEF marker, G, o, tips
  <2>7. /\ NextOid \in CleanOids(odb') /\ odb'[NextOid].marker = marker
        /\ odb'[NextOid].line # <<>> /\ odb'[NextOid].line[1] = NextOid
    <3>1. have[c] \subseteq G /\ Closed(odb, G)
      BY <1>3
    <3>2. o.base \in G /\ o.index \in Trees /\ marker \in Markers(Known(G))
      BY <2>1, <2>3
    <3>3. NextOid \in CleanOids(odb')
      BY <2>3, <2>4, <2>5, <2>6, <3>1, <3>2, Committed, ZenonT(60)
    <3>4. /\ odb'[NextOid].marker = marker
          /\ odb'[NextOid].line # <<>> /\ odb'[NextOid].line[1] = NextOid
      BY <2>3, <2>4, <2>5, <2>6, <3>1, <3>2, Committed, ZenonT(60)
    <3>5. QED
      BY <3>3, <3>4
  <2>8. ASSUME CommandInv(odb', CleanOids(odb'), H, cmd[c], op[c])
        PROVE  CommandInv(odb', CleanOids(odb'), H, k, op[c])
    <3>1. k \in Commands(H)
      <4>1. cmd[c] \in Commands(H)
        BY <2>8 DEF CommandInv
      <4>2. NextOid \in Known(H) /\ "push_resolution" \in Places
        BY DEF Known, Places
      <4>3. QED
        BY <4>1, <4>2 DEF Commands
    <3>2. k.at = "push_resolution" /\ k.made = NextOid /\ k.branch = cmd[c].branch
      BY <1>1 DEF CommandInv, Commands
    <3> HIDE DEF k
    <3>3. Resolution(odb', k, op[c][k.branch])
      BY <2>1, <2>6, <2>7, <3>2 DEF Resolution
    <3>4. QED
      BY <1>2, <2>7, <3>1, <3>2, <3>3 DEF CommandInv
  <2>9. /\ local' = [local EXCEPT ![c] = local[c]] /\ local[c] \in [Branches -> G \cup {NextOid, NoOid}]
        /\ \A x \in Branches : local[c][x] # NoOid => local[c][x] # NoOid
        /\ pick' = [pick EXCEPT ![c] = pick[c]] /\ pick[c] \in Picks(H)
    <3>1. /\ local = [local EXCEPT ![c] = local[c]] /\ pick = [pick EXCEPT ![c] = pick[c]]
          /\ local[c] \in [Branches -> have[c] \cup {NoOid}] /\ pick[c] \in Picks(have[c])
      BY DeskOf
    <3>2. pick[c] \in Picks(H)
      BY <1>3, <3>1, PicksGrow
    <3>3. QED
      BY <1>1, <1>3, <3>1, <3>2
  <2>10. UNCHANGED <<src, dst, pc, run, job, on, op>>
    BY <1>1
  <2> HIDE DEF k
  <2>11. QED
    BY <1>3, <1>6, <2>1, <2>3, <2>4, <2>5, <2>8, <2>9, <2>10, CommitStep, ZenonT(120)
<1>7. QED
  BY <1>4, <1>5, <1>6

LEMMA PushResolutionStep == ASSUME RInv, NEW c \in Clones, PushResolution(c) PROVE RInv'
<1> DEFINE k == [cmd[c] EXCEPT !.at = "cleanup"]
<1>1. /\ cmd[c].at = "push_resolution"
      /\ UNCHANGED <<odb, src, local, have, pc, run, job, on, pick, op>>
      /\ dst' \in {dst, [dst EXCEPT ![cmd[c].branch] = cmd[c].made]}
      /\ Done(c) \/ cmd' = [cmd EXCEPT ![c] = k]
      /\ CommandInv(odb, CleanOids(odb), have[c], cmd[c], op[c])
      /\ src \in [Branches -> Oid0] /\ dst \in [Branches -> CleanOids(odb) \cup {NoOid}]
  BY DeskOf DEF PushResolution, At
<1>2. UNCHANGED <<odb, local, pc, run, job, on, pick, op>> /\ have' = have
  BY <1>1
<1>3. src' \in [Branches -> Oid0] /\ dst' \in [Branches -> CleanOids(odb) \cup {NoOid}]
  BY <1>1 DEF CommandInv
<1>4. {} \in SUBSET Oids
  OBVIOUS
<1>5. CASE Done(c)
  BY <1>2, <1>3, <1>4, <1>5, DoneStep, ZenonT(60)
<1>6. CASE cmd' = [cmd EXCEPT ![c] = k]
  <2>1. CommandInv(odb, CleanOids(odb), have'[c], k, op[c])
    BY <1>1, <1>2, <1>6 DEF CommandInv, Commands, Places, Resolution
  <2> HIDE DEF k
  <2>2. QED
    BY <1>2, <1>3, <1>4, <1>6, <2>1, CommandStep, ZenonT(60)
<1>7. QED
  BY <1>1, <1>5, <1>6

LEMMA CleanUpStep == ASSUME RInv, NEW c \in Clones, CleanUp(c) PROVE RInv'
<1> DEFINE b == cmd[c].branch
<1>1. /\ cmd[c].at = "cleanup" /\ cmd' = [cmd EXCEPT ![c] = NoCommand]
      /\ UNCHANGED <<odb, src, dst, local, have, pc, run, job, on, pick>>
      /\ op' \in {op, [op EXCEPT ![c][b] = NoOperation], [op EXCEPT ![c][b].kind = "lost"]}
      /\ CommandInv(odb, CleanOids(odb), have[c], cmd[c], op[c])
      /\ op = [op EXCEPT ![c] = op[c]] /\ DOMAIN op[c] = Branches
      /\ \A x \in Branches : OperationInv(odb, CleanOids(odb), have[c], op[c][x])
  BY DeskOf DEF CleanUp, Done, sync
<1>2. b \in Branches
  BY <1>1 DEF CommandInv
<1>3. \A operations : CommandInv(odb, CleanOids(odb), have[c], NoCommand, operations)
  BY IdleCommand
<1>4. UNCHANGED <<odb, src, dst, local, have, pc, run, job, on, pick>>
  BY <1>1
<1> HIDE DEF b
<1>5. CASE op' = op
  <2>1. op' = [op EXCEPT ![c] = op[c]]
    BY <1>1, <1>5
  <2>2. QED
    BY <1>1, <1>3, <1>4, <2>1, OperationsStep
<1>6. CASE op' = [op EXCEPT ![c][b] = NoOperation]
  <2>1. OperationInv(odb, CleanOids(odb), have[c], NoOperation)
    BY NoOperationKnown
  <2>2. QED
    BY <1>1, <1>2, <1>3, <1>4, <1>6, <2>1, OperationStep
<1>7. CASE op' = [op EXCEPT ![c][b].kind = "lost"]
  <2> DEFINE o == [op[c][b] EXCEPT !.kind = "lost"]
  <2>1. op[c][b].kind # "none"
    BY <1>1 DEF CommandInv, b
  <2>2. OperationInv(odb, CleanOids(odb), have[c], o)
    BY <1>1, <1>2, <2>1 DEF OperationInv, Operations
  <2>3. op' = [op EXCEPT ![c][b] = o]
    BY <1>7
  <2> HIDE DEF o
  <2>4. QED
    BY <1>1, <1>2, <1>3, <1>4, <2>2, <2>3, OperationStep
<1>8. QED
  BY <1>1, <1>5, <1>6, <1>7

LEMMA KillStep == ASSUME RInv, NEW c \in Clones, Kill(c) PROVE RInv'
<1>1. /\ Done(c) /\ UNCHANGED <<odb, src, dst, local, have, pc, run, job, on, pick, op>>
      /\ src \in [Branches -> Oid0] /\ dst \in [Branches -> CleanOids(odb) \cup {NoOid}]
  BY DeskOf DEF Kill, sync
<1>2. {} \in SUBSET Oids
  OBVIOUS
<1>3. QED
  BY <1>1, <1>2, DoneStep, ZenonT(60)

(***************************************************************************)
(* The operator.                                                           *)
(***************************************************************************)
LEMMA SettledTrees ==
    ASSUME NEW index \in Trees, NEW unresolved, NEW ours \in Trees,
           NEW t \in With(Settled(index, unresolved, ours))
    PROVE  t \in Trees
<1>1. Settled(index, unresolved, ours) \subseteq Trees
  BY DEF Settled, Trees
<1>2. CASE t \in Settled(index, unresolved, ours)
  BY <1>1, <1>2
<1>3. CASE \E s \in Settled(index, unresolved, ours), e \in OperatorEdits : t = [s EXCEPT ![e[1]] = e[2]]
  <2>1. PICK s \in Settled(index, unresolved, ours), e \in OperatorEdits : t = [s EXCEPT ![e[1]] = e[2]]
    BY <1>3
  <2>2. s \in Trees /\ e[1] \in Paths /\ e[2] \in Values \cup {Absent}
    BY <1>1, ResolveAssumption
  <2>3. QED
    BY <2>1, <2>2 DEF Trees
<1>4. QED
  BY <1>2, <1>3 DEF With

LEMMA SettlePickStep == ASSUME RInv, NEW c \in Clones, SettlePick(c) PROVE RInv'
<1>1. PICK t \in With(Settled(pick[c].index, pick[c].unresolved, TreeOf(HeadOf(c)))) :
         pick' = [pick EXCEPT ![c].index = t, ![c].unresolved = {}]
  BY DEF SettlePick
<1>2. /\ UNCHANGED <<odb, src, dst, local, have, pc, run, job, on, op, cmd>>
      /\ ObjectDatabase(odb) /\ HeadOf(c) \in Oids /\ pick[c] \in Picks(have[c])
      /\ cmd = [cmd EXCEPT ![c] = cmd[c]]
  BY DeskOf DEF SettlePick, sync
<1>3. t \in Trees
  <2>1. TreeOf(HeadOf(c)) \in Trees /\ pick[c].index \in Trees
    BY <1>2, TreeOfType DEF Picks
  <2>2. QED
    BY <1>1, <2>1, SettledTrees
<1> DEFINE p == [pick[c] EXCEPT !.index = t, !.unresolved = {}]
<1>4. p \in Picks(have[c]) /\ pick' = [pick EXCEPT ![c] = p]
  BY <1>1, <1>2, <1>3 DEF Picks
<1>5. cmd' = [cmd EXCEPT ![c] = cmd[c]] /\ cmd[c] \in {cmd[c], NoCommand}
  BY <1>2
<1>6. UNCHANGED <<odb, src, dst, local, have, pc, run, job, on, op>>
  BY <1>2
<1> HIDE DEF p
<1>7. QED
  BY <1>4, <1>5, <1>6, PickStep

(* The operator changes an operation, but not what it is an operation on. *)
LEMMA OperationChangedStep ==
    ASSUME RInv, NEW c \in Clones, NEW b \in Branches, op[c][b].kind # "none",
           UNCHANGED <<odb, src, dst, local, have, pc, run, job, on, pick, cmd>>,
           NEW kind \in {"open", "lost"}, NEW index \in Trees, NEW unresolved \in SUBSET Paths,
           op' = [op EXCEPT ![c][b] =
                     [op[c][b] EXCEPT !.kind = kind, !.index = index, !.unresolved = unresolved]]
    PROVE  RInv'
<1> DEFINE o == [op[c][b] EXCEPT !.kind = kind, !.index = index, !.unresolved = unresolved]
<1>1. /\ OperationInv(odb, CleanOids(odb), have[c], op[c][b]) /\ DOMAIN op[c] = Branches
      /\ CommandInv(odb, CleanOids(odb), have[c], cmd[c], op[c])
      /\ cmd = [cmd EXCEPT ![c] = cmd[c]]
  BY DeskOf
<1>2. /\ OperationInv(odb, CleanOids(odb), have[c], o) /\ o.kind # "none"
      /\ o.commit = op[c][b].commit
  BY <1>1 DEF OperationInv, Operations
<1>3. op' = [op EXCEPT ![c][b] = o] /\ cmd' = [cmd EXCEPT ![c] = cmd[c]]
  BY <1>1
<1> HIDE DEF o
<1>4. CommandInv(odb, CleanOids(odb), have[c], cmd[c], [op[c] EXCEPT ![b] = o])
  <2> DEFINE operations == [op[c] EXCEPT ![b] = o]
  <2>1. \A x \in Branches : operations[x] = IF x = b THEN o ELSE op[c][x]
    BY <1>1
  <2> HIDE DEF operations
  <2>2. cmd[c].at \in {"push_resolution", "cleanup"} =>
           /\ cmd[c].branch \in Branches
           /\ op[c][cmd[c].branch].kind # "none" => operations[cmd[c].branch].kind # "none"
           /\ operations[cmd[c].branch].commit = op[c][cmd[c].branch].commit
    BY <1>1, <1>2, <2>1 DEF CommandInv
  <2>3. CommandInv(odb, CleanOids(odb), have[c], cmd[c], operations)
    BY <1>1, <2>2 DEF CommandInv, Resolution
  <2>4. QED
    BY <2>3 DEF operations
<1>5. UNCHANGED <<odb, src, dst, local, have, pc, run, job, on, pick>>
  OBVIOUS
<1>6. QED
  BY <1>2, <1>3, <1>4, <1>5, OperationStep

LEMMA SettleWorktreeStep ==
    ASSUME RInv, NEW c \in Clones, NEW b \in Branches, SettleWorktree(c, b) PROVE RInv'
<1>1. PICK t \in With(Settled(op[c][b].index, op[c][b].unresolved, TreeOf(op[c][b].base))) :
         op' = [op EXCEPT ![c][b].index = t, ![c][b].unresolved = {}]
  BY DEF SettleWorktree
<1>2. /\ op[c][b].kind = "open" /\ ObjectDatabase(odb) /\ have[c] \subseteq Oids
      /\ UNCHANGED <<odb, src, dst, local, have, pc, run, job, on, pick, cmd>>
      /\ OperationInv(odb, CleanOids(odb), have[c], op[c][b])
  BY DeskOf DEF SettleWorktree, sync
<1>3. t \in Trees
  <2>1. TreeOf(op[c][b].base) \in Trees /\ op[c][b].index \in Trees
    BY <1>2, TreeOfType DEF OperationInv, Operations
  <2>2. QED
    BY <1>1, <2>1, SettledTrees
<1>4. op' = [op EXCEPT ![c][b] =
                [op[c][b] EXCEPT !.kind = "open", !.index = t, !.unresolved = {}]]
  <2> DEFINE was == op[c][b]
             settled == [was EXCEPT !.index = t, !.unresolved = {}]
             opened == [was EXCEPT !.kind = "open", !.index = t, !.unresolved = {}]
  <2>1. op' = [op EXCEPT ![c] = [op[c] EXCEPT ![b] = settled]]
    BY <1>1
  <2>2. opened = settled
    BY <1>2 DEF OperationInv, Operations
  <2> HIDE DEF settled
  <2>3. op' = [op EXCEPT ![c] = [op[c] EXCEPT ![b] = opened]]
    BY <2>1, <2>2
  <2>4. QED
    BY <2>3
<1>5. /\ op[c][b].kind # "none" /\ "open" \in {"open", "lost"} /\ {} \in SUBSET Paths
      /\ UNCHANGED <<odb, src, dst, local, have, pc, run, job, on, pick, cmd>>
  BY <1>2
<1>6. QED
  BY <1>3, <1>4, <1>5, OperationChangedStep, ZenonT(60)

LEMMA RemoveWorktreeStep ==
    ASSUME RInv, NEW c \in Clones, NEW b \in Branches, RemoveWorktree(c, b) PROVE RInv'
<1>1. /\ op[c][b].kind = "open" /\ op' = [op EXCEPT ![c][b].kind = "lost"]
      /\ UNCHANGED <<odb, src, dst, local, have, pc, run, job, on, pick, cmd>>
      /\ OperationInv(odb, CleanOids(odb), have[c], op[c][b])
  BY DeskOf DEF RemoveWorktree, Operator, sync
<1> DEFINE index == op[c][b].index
           unresolved == op[c][b].unresolved
<1>2. index \in Trees /\ unresolved \in SUBSET Paths
  BY <1>1 DEF OperationInv, Operations
<1>3. op' = [op EXCEPT ![c][b] =
                [op[c][b] EXCEPT !.kind = "lost", !.index = index, !.unresolved = unresolved]]
  <2>1. [op[c][b] EXCEPT !.kind = "lost"] =
           [op[c][b] EXCEPT !.kind = "lost", !.index = index, !.unresolved = unresolved]
    BY <1>1 DEF OperationInv, Operations
  <2>2. op' = [op EXCEPT ![c][b] = [op[c][b] EXCEPT !.kind = "lost"]]
    BY <1>1
  <2>3. QED
    BY <2>1, <2>2
<1>4. /\ op[c][b].kind # "none" /\ "lost" \in {"open", "lost"}
      /\ UNCHANGED <<odb, src, dst, local, have, pc, run, job, on, pick, cmd>>
  BY <1>1
<1> HIDE DEF index, unresolved
<1>5. QED
  BY <1>2, <1>3, <1>4, OperationChangedStep, ZenonT(60)

LEMMA PickByHandStep ==
    ASSUME RInv, NEW c \in Clones, PickByHand(c) \/ AbortPick(c) \/ ConcludePick(c) PROVE RInv'
<1>1. /\ UNCHANGED <<src, dst, pc, run, job, on, op>> /\ pick[c] \in Picks(have[c])
      /\ cmd' = [cmd EXCEPT ![c] = cmd[c]] /\ cmd[c] \in {cmd[c], NoCommand}
  BY DeskOf DEF PickByHand, AbortPick, ConcludePick, Operator, sync
<1>2. CASE ConcludePick(c)
  <2>1. pick[c].index \in Trees /\ CommitOnHead(c, pick[c].index)
    BY <1>1, <1>2 DEF ConcludePick, Picks
  <2>2. pick' = [pick EXCEPT ![c] = NoPick] /\ NoPick \in {pick[c], NoPick}
    BY <1>2 DEF ConcludePick
  <2>3. UNCHANGED <<src, dst, pc, run, job, on, op>>
    BY <1>1
  <2>4. QED
    BY <1>1, <2>1, <2>2, <2>3, HeadCommitStep, ZenonT(60)
<1>3. CASE PickByHand(c) \/ AbortPick(c)
  <2>1. PICK p \in Picks(have[c]) : pick' = [pick EXCEPT ![c] = p]
    BY <1>3, CherryPickKnown, NoPickKnown DEF PickByHand, AbortPick
  <2>2. UNCHANGED <<odb, src, dst, local, have, pc, run, job, on, op>>
    BY <1>1, <1>3 DEF PickByHand, AbortPick
  <2>3. QED
    BY <1>1, <2>1, <2>2, PickStep
<1>4. QED
  BY <1>2, <1>3

LEMMA CheckOutStep ==
    ASSUME RInv, NEW c \in Clones, NEW b \in Branches, CheckOut(c, b) PROVE RInv'
<1>1. /\ SyncInv /\ DeskInv /\ ObjectDatabase(odb) /\ local = [local EXCEPT ![c] = local[c]]
      /\ pick = [pick EXCEPT ![c] = pick[c]] /\ op = [op EXCEPT ![c] = op[c]]
      /\ cmd = [cmd EXCEPT ![c] = cmd[c]]
      /\ local[c] \in [Branches -> have[c] \cup {NoOid}]
      /\ src \in [Branches -> Oid0] /\ dst \in [Branches -> CleanOids(odb) \cup {NoOid}]
  BY DeskOf
<1>2. /\ local[c][b] # NoOid /\ on' = [on EXCEPT ![c] = b]
      /\ UNCHANGED <<odb, src, dst, local, have, pc, run, job, pick, op, cmd>>
  BY DEF CheckOut, Operator, sync
<1>3. Desk(odb, CleanOids(odb), local[c], have[c], on[c], pick[c], op[c], cmd[c])
  BY <1>1 DEF DeskInv
<1>4. Desk(odb, CleanOids(odb), local[c], have'[c], b, pick[c], op[c], cmd[c])
  BY <1>2, <1>3 DEF Desk
<1>5. /\ UNCHANGED <<odb, pc, run, job>> /\ have' = have
      /\ src' \in [Branches -> Oid0] /\ dst' \in [Branches -> CleanOids(odb) \cup {NoOid}]
      /\ local' = [local EXCEPT ![c] = local[c]] /\ pick' = [pick EXCEPT ![c] = pick[c]]
      /\ op' = [op EXCEPT ![c] = op[c]] /\ cmd' = [cmd EXCEPT ![c] = cmd[c]]
      /\ \A x \in Branches : local[c][x] # NoOid => local[c][x] # NoOid
      /\ on' = [on EXCEPT ![c] = b] /\ local[c] \in [Branches -> have[c] \cup {NoOid}]
  BY <1>1, <1>2
<1>6. {} \in SUBSET Oids
  OBVIOUS
<1>7. QED
  BY <1>4, <1>5, <1>6, QuietStep, ZenonT(60)

(***************************************************************************)
(* The invariant, and what it says at once.                                *)
(***************************************************************************)
LEMMA CommandsKeepRInv ==
    ASSUME RInv, NEW c \in Clones, ResolveCommand(c) \/ Kill(c) PROVE RInv'
<1>1. ASSUME NEW b \in Branches, \/ ResolveStart(c, b) \/ ResolveContinue(c, b)
                                 \/ ResolveToDestStart(c, b) \/ ResolveToDestContinue(c, b)
      PROVE  RInv'
  BY <1>1, ResolveStartStep, ResolveContinueStep, ResolveToDestStartStep, ResolveToDestContinueStep
<1>2. QED
  BY <1>1, CherryPickStep, CherryPickContinueStep, RebuildStep, SwapStep, PushImportStep,
     CheckReuseStep, ReplayPrefixStep, PushPrefixStep, OpenWorktreeStep, FinishToDestStep,
     PushResolutionStep, CleanUpStep, KillStep DEF ResolveCommand

LEMMA OperatorKeepsRInv == ASSUME RInv, NEW c \in Clones, OperatorStep(c) PROVE RInv'
BY SettlePickStep, PickByHandStep, SettleWorktreeStep, RemoveWorktreeStep, CheckOutStep
   DEF OperatorStep

LEMMA RNextKeepsRInv == RInv /\ [RNext]_rvars => RInv'
<1> SUFFICES ASSUME RInv, [RNext]_rvars PROVE RInv'
  OBVIOUS
<1>1. CASE \E c \in Clones : ResolveCommand(c) \/ Kill(c) \/ OperatorStep(c)
  BY <1>1, CommandsKeepRInv, OperatorKeepsRInv
<1>2. CASE (\E c \in Clones : SyncCommand(c)) /\ UNCHANGED <<on, pick, op, cmd, tries>>
  BY <1>2, SyncCommandStep
<1>3. CASE Others /\ UNCHANGED <<on, pick, op, cmd>>
  BY <1>3, NextKeepsRInv DEF Others, Next
<1>4. CASE UNCHANGED rvars
  BY <1>4, NextKeepsRInv DEF rvars
<1>5. QED
  BY <1>1, <1>2, <1>3, <1>4 DEF RNext

LEMMA RInitRInv == RInit => RInv
<1> SUFFICES ASSUME RInit PROVE RInv
  OBVIOUS
<1>1. Init /\ SyncInv /\ LeakInv
  BY InitSyncInv, LeakInit DEF RInit
<1>2. /\ on \in [Clones -> {b \in Branches : \A c \in Clones : local[c][b] # NoOid}]
      /\ pick = [c \in Clones |-> NoPick] /\ cmd = [c \in Clones |-> NoCommand]
      /\ op = [c \in Clones |-> [b \in Branches |-> NoOperation]]
  BY DEF RInit
<1>3. ASSUME NEW c \in Clones
      PROVE  Desk(odb, CleanOids(odb), local[c], have[c], on[c], pick[c], op[c], cmd[c])
  BY <1>2, NoPickKnown, NoOperationKnown, IdleCommand DEF Desk
<1>4. Table(on) /\ Table(pick) /\ Table(op) /\ Table(cmd)
  BY <1>2 DEF Table
<1>5. QED
  BY <1>1, <1>3, <1>4 DEF RInv, DeskInv

LEMMA RInvariant == RSpec => []RInv
<1>1. RInit => RInv
  BY RInitRInv
<1>2. RInv /\ [RNext]_rvars => RInv'
  BY RNextKeepsRInv
<1>3. QED
  BY <1>1, <1>2, PTL DEF RSpec

(* Resolutions name commits of the clone, and what can still be continued  *)
(* is built on a dest commit the clone has: RTypeOK.                       *)
THEOREM RTypeOKHolds == RSpec => []RTypeOK
<1>1. RInv => RTypeOK
  <2> SUFFICES ASSUME RInv PROVE RTypeOK
    OBVIOUS
  <2>1. TypeOK
    BY SyncInvTypeOK DEF RInv
  <2>2. on \in [Clones -> Branches]
    BY DEF RInv, DeskInv, Desk, Table
  <2>3. ASSUME NEW c \in Clones
        PROVE  /\ pick[c].commit \in have[c] \cup {NoOid}
               /\ <<pick[c].index, pick[c].unresolved>> \in Indexes
    BY DeskOf DEF Picks, Known, Indexes
  <2>4. ASSUME NEW c \in Clones
        PROVE  {cmd[c].commit, cmd[c].made, cmd[c].head, cmd[c].chain} \subseteq have[c] \cup {NoOid}
    BY DeskOf DEF CommandInv, Commands, Known
  <2>5. ASSUME NEW c \in Clones, NEW b \in Branches
        PROVE  /\ {op[c][b].base, op[c][b].commit} \subseteq have[c] \cup {NoOid}
               /\ <<op[c][b].index, op[c][b].unresolved>> \in Indexes
    BY DeskOf DEF OperationInv, Operations, Known, Indexes
  <2>6. QED
    BY <2>1, <2>2, <2>3, <2>4, <2>5 DEF RTypeOK
<1>2. QED
  BY <1>1, RInvariant, PTL

(* Whatever an operator stages, commits or picks by hand, sync and resolve *)
(* together put nothing private at an excluded path of any dest commit.    *)
THEOREM ResolveNoLeakHolds == RSpec => []NoLeak
<1>1. RInv => NoLeak
  BY LeakInvNoLeak DEF RInv
<1>2. QED
  BY <1>1, RInvariant, PTL

(***************************************************************************)
(* What the steps of a command may do to others' refs.                     *)
(***************************************************************************)
LEMMA OwnCommand ==
    ASSUME DeskInv, [RNext]_rvars, NEW c \in Clones, cmd'[c] # cmd[c]
    PROVE  ResolveCommand(c) \/ Kill(c)
<1>1. DOMAIN cmd = Clones
  BY DEF DeskInv, Table
<1>2. PICK d \in Clones : ResolveCommand(d) \/ Kill(d)
  BY DEF RNext, OperatorStep, SettlePick, PickByHand, AbortPick, ConcludePick, SettleWorktree,
     RemoveWorktree, CheckOut, Operator, rvars
<1>3. cmd' = cmd \/ \E k : cmd' = [cmd EXCEPT ![d] = k]
  <2>1. ASSUME NEW b \in Branches,
               \/ ResolveStart(d, b) \/ ResolveContinue(d, b)
               \/ ResolveToDestStart(d, b) \/ ResolveToDestContinue(d, b)
        PROVE  \E k : cmd' = [cmd EXCEPT ![d] = k]
    BY <2>1 DEF ResolveStart, ResolveContinue, ResolveToDestStart, ResolveToDestContinue
  <2>2. CASE CherryPick(d) \/ CherryPickContinue(d) \/ Rebuild(d) \/ Swap(d) \/ PushImport(d)
    BY <2>2 DEF CherryPick, CherryPickContinue, Rebuild, Swap, PushImport, Done, At
  <2>3. CASE CheckReuse(d) \/ ReplayPrefix(d) \/ PushPrefix(d) \/ OpenWorktree(d)
    BY <2>3 DEF CheckReuse, ReplayPrefix, PushPrefix, OpenWorktree, Done, At
  <2>4. CASE FinishToDest(d) \/ PushResolution(d) \/ CleanUp(d) \/ Kill(d)
    BY <2>4 DEF FinishToDest, PushResolution, CleanUp, Kill, Done, At
  <2>5. QED
    BY <1>2, <2>1, <2>2, <2>3, <2>4 DEF ResolveCommand
<1>4. d = c
  BY <1>1, <1>3
<1>5. QED
  BY <1>2, <1>4

(* A command under way takes one of these steps. *)
LEMMA CommandUnderWay ==
    ASSUME DeskInv, [RNext]_rvars, NEW c \in Clones, cmd'[c] # cmd[c], cmd[c].at # "idle"
    PROVE  \/ CherryPick(c) \/ CherryPickContinue(c) \/ Rebuild(c) \/ Swap(c) \/ PushImport(c)
           \/ CheckReuse(c) \/ ReplayPrefix(c) \/ PushPrefix(c) \/ OpenWorktree(c)
           \/ FinishToDest(c) \/ PushResolution(c) \/ CleanUp(c) \/ Kill(c)
<1>1. \A b : /\ ~ResolveStart(c, b) /\ ~ResolveContinue(c, b)
             /\ ~ResolveToDestStart(c, b) /\ ~ResolveToDestContinue(c, b)
  BY DEF ResolveStart, ResolveContinue, ResolveToDestStart, ResolveToDestContinue, Command, LockFree
<1>2. QED
  BY <1>1, OwnCommand DEF ResolveCommand

(* Finishing an import drops nothing a developer commits in the meantime:  *)
(* the branch moves only while it still names the commit that was rebuilt. *)
THEOREM FinishKeepsContentHolds == RSpec => FinishKeepsContent
<1> DEFINE Kept ==
      \A c \in Clones :
        Finishes(c) =>
            LET old == local[c][cmd[c].branch]
                new == local'[c][cmd[c].branch]
            IN  TreeOf(old) = TreeOf(new) /\ FirstParent(old) = FirstParent(new)
<1>1. ASSUME RInv, [RNext]_rvars PROVE Kept
  <2> SUFFICES ASSUME NEW c \in Clones, Finishes(c)
               PROVE  LET old == local[c][cmd[c].branch]
                          new == local'[c][cmd[c].branch]
                      IN  TreeOf(old) = TreeOf(new) /\ FirstParent(old) = FirstParent(new)
    OBVIOUS
  <2>1. /\ SyncInv /\ DeskInv /\ cmd[c].at = "swap" /\ cmd'[c].at = "push_import"
        /\ cmd'[c] # cmd[c] /\ DOMAIN cmd = Clones /\ have[c] \subseteq Oids
        /\ CommandInv(odb, CleanOids(odb), have[c], cmd[c], op[c])
    BY <1>1, DeskOf DEF Finishes, DeskInv, Table
  <2>2. Swap(c) \/ Kill(c)
    BY <1>1, <2>1, CommandUnderWay DEF CherryPick, CherryPickContinue, Rebuild, PushImport,
       CheckReuse, ReplayPrefix, PushPrefix, OpenWorktree, FinishToDest, PushResolution, CleanUp
  <2>3. ~Done(c)
    BY <2>1 DEF Done, NoCommand
  <2>4. StillAt(c) /\ local' = [local EXCEPT ![c][cmd[c].branch] = cmd[c].chain]
    BY <2>2, <2>3 DEF Swap, Kill
  <2>5. /\ cmd[c].branch \in Branches /\ {cmd[c].head, cmd[c].chain} \subseteq Oids
        /\ Replaces(odb, cmd[c])
    BY <2>1 DEF CommandInv
  <2>6. local[c][cmd[c].branch] = cmd[c].head /\ local'[c][cmd[c].branch] = cmd[c].chain
    BY <2>1, <2>4, <2>5 DEF StillAt, SyncInv
  <2>7. TreeOf(cmd[c].head) = TreeOf(cmd[c].chain)
    BY <2>5 DEF Replaces, TreeOf, Oids, NoOid
  <2>8. FirstParent(cmd[c].head) = FirstParent(cmd[c].chain)
    BY <2>5 DEF Replaces, FirstParent
  <2>9. QED
    BY <2>6, <2>7, <2>8
<1>2. RInv /\ [RNext]_rvars => [Kept]_rvars
  BY <1>1
<1>3. QED
  BY <1>2, RInvariant, PTL DEF FinishKeepsContent, RSpec

(* No command of resolve takes a commit off a branch of a remote: what it  *)
(* pushes, the remote takes only as a fast-forward.                        *)
THEOREM ResolveDiscardsNothingHolds == RSpec => ResolveDiscardsNothing
<1> DEFINE Kept ==
      \A b \in Branches : (\E c \in Clones : cmd[c].at # "idle" /\ cmd'[c] # cmd[c]) =>
        /\ dst[b] # NoOid => IsAncestor(dst[b], dst'[b])
        /\ src[b] # NoOid => IsAncestor(src[b], src'[b])
<1>1. ASSUME RInv, [RNext]_rvars PROVE Kept
  <2> SUFFICES ASSUME NEW b \in Branches, NEW c \in Clones, cmd[c].at # "idle", cmd'[c] # cmd[c]
               PROVE  /\ dst[b] # NoOid => IsAncestor(dst[b], dst'[b])
                      /\ src[b] # NoOid => IsAncestor(src[b], src'[b])
    OBVIOUS
  <2>1. /\ DeskInv /\ src \in [Branches -> Oid0] /\ ObjectDatabase(odb)
        /\ dst \in [Branches -> CleanOids(odb) \cup {NoOid}]
    BY <1>1, DeskOf
  <2>2. /\ dst[b] # NoOid => IsAncestor(dst[b], dst[b])
        /\ src[b] # NoOid => IsAncestor(src[b], src[b])
    <3>1. \A o \in Oids : IsAncestor(o, o)
      BY <2>1, CommitFacts DEF IsAncestor
    <3>2. src[b] \in Oids \cup {NoOid} /\ dst[b] \in Oids \cup {NoOid}
      BY <2>1 DEF CleanOids, Oids, Oid0, NoOid, ObjectDatabase
    <3>3. QED
      BY <3>1, <3>2
  <2>3. CASE src' = src /\ dst' = dst
    BY <2>2, <2>3
  <2>4. CASE PushImport(c)
    BY <2>1, <2>2, <2>4 DEF PushImport, SourceAccepts
  <2>5. CASE PushPrefix(c)
    BY <2>1, <2>2, <2>5 DEF PushPrefix, PushAccepted
  <2>6. CASE PushResolution(c)
    BY <2>1, <2>2, <2>6 DEF PushResolution, ResolutionAccepted, PushAccepted
  <2>7. QED
    BY <1>1, <2>1, <2>3, <2>4, <2>5, <2>6, CommandUnderWay DEF CherryPick, CherryPickContinue,
       Rebuild, Swap, CheckReuse, ReplayPrefix, OpenWorktree, FinishToDest, CleanUp, Kill, sync
<1>2. RInv /\ [RNext]_rvars => [Kept]_rvars
  BY <1>1
<1>3. QED
  BY <1>2, RInvariant, PTL DEF ResolveDiscardsNothing, RSpec

(***************************************************************************)
(* One lock keeps a clone's commands apart, and while a resolution waits to *)
(* be pushed, the branch is where it was when the operation began, unless  *)
(* somebody worked in the checkout.                                        *)
Unmoved(k, here, operations) ==
    k.at = "push_resolution" => here[k.branch] = operations[k.branch].tip

LockInv ==
    /\ Table(pc) /\ Table(local)
    /\ DOMAIN tries = {"budget", "resolves", "operator", "kills", "meddled"}
    /\ tries.meddled \in BOOLEAN
    /\ \A c \in Clones :
         /\ pc[c] = "idle" \/ cmd[c].at = "idle"
         /\ tries.meddled = FALSE => Unmoved(cmd[c], local[c], op[c])

LEMMA RowChanged ==
    ASSUME NEW x, NEW y, Table(x), NEW c \in Clones, y = x \/ \E v : y = [x EXCEPT ![c] = v]
    PROVE  Table(y) /\ \A d \in Clones \ {c} : y[d] = x[d]
BY DEF Table

LEMMA LockStep ==
    ASSUME LockInv, DeskInv, NEW c \in Clones,
           pc' = pc \/ \E v : pc' = [pc EXCEPT ![c] = v],
           local' = local \/ \E v : local' = [local EXCEPT ![c] = v],
           op' = op \/ \E v : op' = [op EXCEPT ![c] = v],
           cmd' = cmd \/ \E v : cmd' = [cmd EXCEPT ![c] = v],
           DOMAIN tries' = DOMAIN tries, tries'.meddled \in BOOLEAN,
           tries'.meddled = FALSE => tries.meddled = FALSE,
           pc'[c] = "idle" \/ cmd'[c].at = "idle",
           tries'.meddled = FALSE => Unmoved(cmd'[c], local'[c], op'[c])
    PROVE  LockInv'
<1>1. Table(pc) /\ Table(local) /\ Table(op) /\ Table(cmd)
  BY DEF LockInv, DeskInv
<1>2. Table(pc') /\ \A d \in Clones \ {c} : pc'[d] = pc[d]
  BY <1>1, RowChanged
<1>3. Table(local') /\ \A d \in Clones \ {c} : local'[d] = local[d]
  BY <1>1, RowChanged
<1>4. \A d \in Clones \ {c} : op'[d] = op[d]
  BY <1>1, RowChanged
<1>5. \A d \in Clones \ {c} : cmd'[d] = cmd[d]
  BY <1>1, RowChanged
<1>6. ASSUME NEW d \in Clones
      PROVE  /\ pc'[d] = "idle" \/ cmd'[d].at = "idle"
             /\ tries'.meddled = FALSE => Unmoved(cmd'[d], local'[d], op'[d])
  BY <1>2, <1>3, <1>4, <1>5 DEF LockInv
<1>7. QED
  BY <1>2, <1>3, <1>6 DEF LockInv

LEMMA LockRun ==
    ASSUME RInv, LockInv, NEW c \in Clones, SyncCommand(c), UNCHANGED <<on, pick, op, cmd, tries>>
    PROVE  LockInv'
<1>1. (StartRun(c) /\ LockFree(c)) \/ pc[c] # "idle"
  BY DEF SyncCommand, Blocked, Sync, Crash, FetchHeads, SkipImport, BeginImport, RefetchSource,
     ReplayToSource, NothingToPush, PushToSource, AdvanceLocalSourceBranch,
     ReconstructMappingIndex, SelectNextBranch, FetchDest, PlanBranch, ReplayToDest, SealToDest,
     PushToDest, PushRejected, Finish
<1>2. cmd[c].at = "idle"
  BY <1>1 DEF LockFree, LockInv
<1>3. pc' = pc \/ \E v : pc' = [pc EXCEPT ![c] = v]
  <2>1. CASE StartRun(c) \/ Crash(c) \/ Abort(c, "preflight")
    BY <2>1 DEF StartRun, Crash, Abort
  <2>2. CASE FetchHeads(c) \/ SkipImport(c) \/ BeginImport(c) \/ RefetchSource(c)
    BY <2>2 DEF FetchHeads, SkipImport, BeginImport, RefetchSource, PrepareImport, Abort, NextImport
  <2>3. CASE ReplayToSource(c) \/ NothingToPush(c) \/ PushToSource(c)
    BY <2>3 DEF ReplayToSource, NothingToPush, PushToSource, Abort, NextImport
  <2>4. CASE AdvanceLocalSourceBranch(c) \/ ReconstructMappingIndex(c) \/ SelectNextBranch(c)
    BY <2>4 DEF AdvanceLocalSourceBranch, ReconstructMappingIndex, SelectNextBranch, Abort,
       NextImport, NextBranch
  <2>5. CASE FetchDest(c) \/ Finish(c)
    BY <2>5 DEF FetchDest, Finish, Abort, NextBranch
  <2>8. CASE PlanBranch(c)
    BY <2>8 DEF PlanBranch, PlanBuild, Abort, NextBranch
  <2>6. CASE ReplayToDest(c) \/ SealToDest(c) \/ PushToDest(c) \/ PushRejected(c)
    BY <2>6 DEF ReplayToDest, SealToDest, PushToDest, PushRejected, Abort, NextBranch
  <2>7. QED
    BY <2>1, <2>2, <2>3, <2>4, <2>5, <2>6, <2>8 DEF SyncCommand, Sync
<1>4. local' = local \/ \E v : local' = [local EXCEPT ![c] = v]
  BY DEF SyncCommand, Sync, Crash, Abort, StartRun, FetchHeads, SkipImport, BeginImport,
     RefetchSource, ReplayToSource, NothingToPush, PushToSource, AdvanceLocalSourceBranch,
     ReconstructMappingIndex, SelectNextBranch, FetchDest, PlanBranch, PlanBuild, ReplayToDest,
     SealToDest, PushToDest, PushRejected, Finish, clone
<1>5. QED
  BY <1>2, <1>3, <1>4, LockStep DEF LockInv, RInv, Unmoved

LEMMA LockOthers ==
    ASSUME RInv, LockInv, Others, UNCHANGED <<on, pick, op, cmd>>
    PROVE  LockInv'
<1>1. Table(pc) /\ Table(local)
  BY DEF LockInv
<1>2. pc' = pc /\ Table(local')
  <2>1. ASSUME NEW c \in Clones, NEW b \in Branches,
               DevCommit(c, b) \/ DevAmend(c, b) \/ DevPush(c, b) \/ DevPull(c, b)
        PROVE  pc' = pc /\ (local' = local \/ \E v : local' = [local EXCEPT ![c] = v])
    BY <2>1 DEF DevCommit, DevAmend, DevPush, DevPull, clone
  <2>2. ASSUME NEW c \in Clones, NEW b \in Branches, NEW from \in Branches,
               DevBranch(c, b, from) \/ DevMerge(c, b, from)
        PROVE  pc' = pc /\ (local' = local \/ \E v : local' = [local EXCEPT ![c] = v])
    BY <2>2 DEF DevBranch, DevMerge
  <2>3. ASSUME NEW b \in Branches, NEW from \in Branches,
               \/ CustomerCommit(b) \/ CustomerDelete(b)
               \/ CustomerFastForward(b, from) \/ CustomerMerge(b, from)
        PROVE  pc' = pc /\ local' = local
    BY <2>3 DEF CustomerCommit, CustomerDelete, CustomerFastForward, CustomerMerge, clone
  <2>4. Environment
    BY DEF Others
  <2>5. pc' = pc /\ (local' = local \/ \E c \in Clones : \E v : local' = [local EXCEPT ![c] = v])
    BY <2>1, <2>2, <2>3, <2>4 DEF Environment
  <2>6. QED
    BY <1>1, <2>5, RowChanged
<1> DEFINE moved == \E c \in Clones : local'[c] # local[c] /\ cmd[c].at # "idle"
<1>3. tries' = [tries EXCEPT !.meddled = tries.meddled \/ moved]
  BY DEF Others
<1>4. DOMAIN tries' = DOMAIN tries /\ tries'.meddled = (tries.meddled \/ moved)
  <2> HIDE DEF moved
  <2>1. QED
    BY <1>3 DEF LockInv
<1>5. tries'.meddled \in BOOLEAN /\ (tries'.meddled = FALSE => tries.meddled = FALSE /\ ~moved)
  BY <1>4 DEF LockInv
<1>6. ASSUME NEW c \in Clones, tries'.meddled = FALSE PROVE Unmoved(cmd[c], local'[c], op[c])
  BY <1>5, <1>6 DEF LockInv, Unmoved
<1>7. QED
  BY <1>1, <1>2, <1>4, <1>5, <1>6 DEF LockInv

LEMMA LockCommand ==
    ASSUME RInv, LockInv, NEW c \in Clones, pc' = pc, pc[c] = "idle",
           local' = local \/ \E v : local' = [local EXCEPT ![c] = v],
           op' = op \/ \E v : op' = [op EXCEPT ![c] = v],
           NEW k, cmd' = [cmd EXCEPT ![c] = k], k.at # "push_resolution",
           \/ tries' = tries
           \/ \E n : tries' = [tries EXCEPT !.resolves = n] \/ tries' = [tries EXCEPT !.kills = n]
    PROVE  LockInv'
<1>1. /\ DOMAIN tries' = DOMAIN tries /\ tries'.meddled \in BOOLEAN
      /\ tries'.meddled = FALSE => tries.meddled = FALSE
  BY DEF LockInv
<1>2. cmd'[c] = k
  BY DEF RInv, DeskInv, Table
<1>3. QED
  BY <1>1, <1>2, LockStep DEF RInv, Unmoved

LEMMA CommandsKeepLock ==
    ASSUME RInv, LockInv, NEW c \in Clones, ResolveCommand(c) \/ Kill(c) PROVE LockInv'
<1> DEFINE quiet(k) == cmd' = [cmd EXCEPT ![c] = k] /\ k.at # "push_resolution"
           still == pc' = pc /\ pc[c] = "idle"
           row == local' = local \/ \E v : local' = [local EXCEPT ![c] = v]
           desk == op' = op \/ \E v : op' = [op EXCEPT ![c] = v]
           spend == \/ tries' = tries
                    \/ \E n : \/ tries' = [tries EXCEPT !.resolves = n]
                              \/ tries' = [tries EXCEPT !.kills = n]
<1>1. cmd[c].at # "idle" => pc[c] = "idle"
  BY DEF LockInv
<1>2. "at" \in DOMAIN cmd[c]
  BY DeskOf DEF CommandInv, Commands
<1>3. NoCommand.at # "push_resolution"
  BY DEF NoCommand
<1>4. ASSUME NEW where, where # "push_resolution" PROVE [cmd[c] EXCEPT !.at = where].at # "push_resolution"
  BY <1>2, <1>4
<1>5. still /\ row /\ desk /\ spend /\ (\E k : quiet(k)) => LockInv'
  BY LockCommand
<1>6. Done(c) => \E k : quiet(k)
  BY <1>3 DEF Done
<1>7. ASSUME NEW where, where # "push_resolution", At(c, where) PROVE \E k : quiet(k)
  BY <1>4, <1>7 DEF At
<1>8. ASSUME NEW b \in Branches,
             \/ ResolveStart(c, b) \/ ResolveContinue(c, b)
             \/ ResolveToDestStart(c, b) \/ ResolveToDestContinue(c, b)
      PROVE  LockInv'
  <2>1. still /\ row /\ desk /\ spend
    BY <1>8 DEF ResolveStart, ResolveContinue, ResolveToDestStart, ResolveToDestContinue, Command,
       LockFree, sync
  <2>2. \E k : quiet(k)
    <3>1. ASSUME NEW o
          PROVE  /\ [NoCommand EXCEPT !.at = "pick", !.branch = b, !.commit = o].at = "pick"
                 /\ [NoCommand EXCEPT !.at = "continue", !.branch = b, !.commit = o].at = "continue"
                 /\ [NoCommand EXCEPT !.at = "finish", !.branch = b].at = "finish"
      BY DEF NoCommand
    <3>2. CASE ResolveStart(c, b)
      <4>1. PICK o : cmd' = [cmd EXCEPT ![c] = [NoCommand EXCEPT
                                  !.at = "pick", !.branch = b, !.commit = o]]
        BY <3>2 DEF ResolveStart
      <4>2. QED
        BY <3>1, <4>1
    <3>3. CASE ResolveContinue(c, b) \/ ResolveToDestContinue(c, b)
      BY <3>1, <3>3 DEF ResolveContinue, ResolveToDestContinue
    <3>4. CASE ResolveToDestStart(c, b)
      <4>1. PICK point : cmd' = [cmd EXCEPT ![c] = [NoCommand EXCEPT
                !.at = "reuse", !.branch = b, !.tip = local[c][b], !.seen = dst[b],
                !.chain = dst[b], !.boundary = point.at,
                !.pending = PendingCommits(point.at, local[c][b])]]
        BY <3>4 DEF ResolveToDestStart
      <4> DEFINE k == [NoCommand EXCEPT
                !.at = "reuse", !.branch = b, !.tip = local[c][b], !.seen = dst[b],
                !.chain = dst[b], !.boundary = point.at,
                !.pending = PendingCommits(point.at, local[c][b])]
      <4>2. k.at = "reuse"
        BY DEF NoCommand
      <4>3. cmd' = [cmd EXCEPT ![c] = k]
        BY <4>1
      <4> HIDE DEF k
      <4>4. QED
        BY <4>2, <4>3
    <3>5. QED
      BY <1>8, <3>2, <3>3, <3>4
  <2>3. QED
    BY <1>5, <2>1, <2>2
<1>9. CASE CherryPick(c) \/ CherryPickContinue(c)
  <2>1. still /\ row /\ desk /\ spend
    BY <1>1, <1>9 DEF CherryPick, CherryPickContinue, CommitOnHead, sync
  <2>2. \E k : quiet(k)
    BY <1>6, <1>7, <1>9 DEF CherryPick, CherryPickContinue
  <2>3. QED
    BY <1>5, <2>1, <2>2
<1>10. CASE Rebuild(c)
  <2>1. still /\ row /\ desk /\ spend
    BY <1>1, <1>10 DEF Rebuild, sync
  <2>2. \E k : quiet(k)
    <3>1. CASE cmd' = [cmd EXCEPT ![c].at = "swap", ![c].head = HeadOf(c), ![c].chain = NextOid]
      <4> DEFINE k == [cmd[c] EXCEPT !.at = "swap", !.head = HeadOf(c), !.chain = NextOid]
      <4>1. cmd' = [cmd EXCEPT ![c] = k]
        BY <3>1, RInv DEF RInv, DeskInv, Table
      <4>2. k.at = "swap"
        BY <1>2
      <4>3. QED
        BY <4>1, <4>2
    <3>2. QED
      BY <1>6, <1>10, <3>1 DEF Rebuild
  <2>3. QED
    BY <1>5, <2>1, <2>2
<1>11. CASE Swap(c) \/ PushImport(c) \/ CheckReuse(c) \/ PushPrefix(c)
  <2>1. still /\ row /\ desk /\ spend
    BY <1>1, <1>11 DEF Swap, PushImport, CheckReuse, PushPrefix, sync
  <2>2. \E k : quiet(k)
    BY <1>6, <1>7, <1>11 DEF Swap, PushImport, CheckReuse, PushPrefix
  <2>3. QED
    BY <1>5, <2>1, <2>2
<1>12. CASE ReplayPrefix(c)
  <2>1. still /\ row /\ desk /\ spend
    BY <1>1, <1>12 DEF ReplayPrefix, sync
  <2>2. cmd[c].at = "replay"
    BY <1>12 DEF ReplayPrefix
  <2>3. \E k : cmd' = [cmd EXCEPT ![c] = k] /\ k.at = cmd[c].at
    <3>1. \/ \E p : cmd' = [cmd EXCEPT ![c].pending = p]
          \/ \E p, o : cmd' = [cmd EXCEPT ![c].pending = p, ![c].commit = o]
          \/ \E p, o : cmd' = [cmd EXCEPT ![c].pending = p, ![c].chain = o]
      BY <1>12 DEF ReplayPrefix
    <3>2. DOMAIN cmd = Clones
      BY DEF RInv, DeskInv, Table
    <3>3. ASSUME NEW p, NEW o
          PROVE  /\ [cmd[c] EXCEPT !.pending = p].at = cmd[c].at
                 /\ [cmd[c] EXCEPT !.pending = p, !.commit = o].at = cmd[c].at
                 /\ [cmd[c] EXCEPT !.pending = p, !.chain = o].at = cmd[c].at
      BY <1>2
    <3>4. ASSUME NEW p, cmd' = [cmd EXCEPT ![c].pending = p]
          PROVE  \E k : cmd' = [cmd EXCEPT ![c] = k] /\ k.at = cmd[c].at
      BY <3>2, <3>3, <3>4
    <3>5. ASSUME NEW p, NEW o, \/ cmd' = [cmd EXCEPT ![c].pending = p, ![c].commit = o]
                               \/ cmd' = [cmd EXCEPT ![c].pending = p, ![c].chain = o]
          PROVE  \E k : cmd' = [cmd EXCEPT ![c] = k] /\ k.at = cmd[c].at
      <4>1. CASE cmd' = [cmd EXCEPT ![c].pending = p, ![c].commit = o]
        <5> DEFINE k == [cmd[c] EXCEPT !.pending = p, !.commit = o]
        <5>1. cmd' = [cmd EXCEPT ![c] = k]
          BY <3>2, <4>1
        <5>2. k.at = cmd[c].at
          BY <3>3
        <5> HIDE DEF k
        <5>3. QED
          BY <5>1, <5>2
      <4>2. CASE cmd' = [cmd EXCEPT ![c].pending = p, ![c].chain = o]
        <5> DEFINE k == [cmd[c] EXCEPT !.pending = p, !.chain = o]
        <5>1. cmd' = [cmd EXCEPT ![c] = k]
          BY <3>2, <4>2
        <5>2. k.at = cmd[c].at
          BY <3>3
        <5> HIDE DEF k
        <5>3. QED
          BY <5>1, <5>2
      <4>3. QED
        BY <3>5, <4>1, <4>2
    <3>6. QED
      BY <3>1, <3>4, <3>5
  <2>4. QED
    BY <1>5, <2>1, <2>2, <2>3
<1>13. CASE OpenWorktree(c)
  <2>1. still /\ row /\ desk /\ spend
    BY <1>1, <1>13 DEF OpenWorktree, sync
  <2>2. \E k : quiet(k)
    BY <1>6, <1>7, <1>13 DEF OpenWorktree
  <2>3. QED
    BY <1>5, <2>1, <2>2
<1>14. CASE FinishToDest(c)
  <2>1. still /\ local' = local /\ op' = op /\ tries' = tries
    BY <1>1, <1>14 DEF FinishToDest, sync
  <2>2. CASE Done(c)
    BY <1>5, <1>6, <2>1, <2>2
  <2>3. CASE /\ Finishable(c, op[c][cmd[c].branch])
             /\ cmd' = [cmd EXCEPT ![c].at = "push_resolution", ![c].made = NextOid]
    <3> DEFINE k == [cmd[c] EXCEPT !.at = "push_resolution", !.made = NextOid]
    <3>1. DOMAIN cmd = Clones
      BY DEF RInv, DeskInv, Table
    <3>2. cmd' = [cmd EXCEPT ![c] = k] /\ cmd'[c] = k
      BY <2>3, <3>1
    <3>3. k.branch = cmd[c].branch
      BY <1>2
    <3>4. local[c][cmd[c].branch] = op[c][cmd[c].branch].tip
      BY <2>3 DEF Finishable, SourceMoved
    <3>5. Unmoved(k, local[c], op[c])
      BY <3>3, <3>4 DEF Unmoved
    <3>6. tries'.meddled \in BOOLEAN /\ DOMAIN tries' = DOMAIN tries
      BY <2>1 DEF LockInv
    <3>7. QED
      BY <2>1, <3>2, <3>5, <3>6, LockStep DEF RInv
  <2>4. QED
    BY <1>14, <2>2, <2>3 DEF FinishToDest
<1>15. CASE PushResolution(c) \/ CleanUp(c) \/ Kill(c)
  <2>1. still /\ row /\ desk /\ spend
    BY <1>1, <1>15 DEF PushResolution, CleanUp, Kill, sync
  <2>2. \E k : quiet(k)
    BY <1>6, <1>7, <1>15 DEF PushResolution, CleanUp, Kill
  <2>3. QED
    BY <1>5, <2>1, <2>2
<1>16. QED
  BY <1>8, <1>9, <1>10, <1>11, <1>12, <1>13, <1>14, <1>15 DEF ResolveCommand

(* An operator settles paths in an operation, or loses its worktree; what  *)
(* the operation is about stays.                                           *)
LEMMA LockOperation ==
    ASSUME RInv, LockInv, NEW c \in Clones, NEW b \in Branches,
           UNCHANGED <<pc, local, cmd>>,
           NEW o, o.tip = op[c][b].tip, op' = [op EXCEPT ![c][b] = o],
           DOMAIN tries' = DOMAIN tries, tries'.meddled \in BOOLEAN,
           tries'.meddled = FALSE => tries.meddled = FALSE
    PROVE  LockInv'
<1>1. DOMAIN op = Clones /\ DOMAIN op[c] = Branches
  BY DeskOf DEF RInv, DeskInv, Table
<1>2. op' = [op EXCEPT ![c] = op'[c]] /\ \A x \in Branches : op'[c][x].tip = op[c][x].tip
  BY <1>1
<1>3. cmd[c].at = "push_resolution" => cmd[c].branch \in Branches
  BY DeskOf DEF CommandInv
<1>4. tries'.meddled = FALSE => Unmoved(cmd'[c], local'[c], op'[c])
  BY <1>2, <1>3 DEF LockInv, Unmoved
<1>5. pc'[c] = "idle" \/ cmd'[c].at = "idle"
  BY DEF LockInv
<1>6. QED
  BY <1>2, <1>4, <1>5, LockStep DEF RInv

LEMMA OperatorKeepsLock ==
    ASSUME RInv, LockInv, NEW c \in Clones, OperatorStep(c) PROVE LockInv'
<1>1. /\ Meddled(c) \in BOOLEAN
      /\ Meddled(c) = FALSE => tries.meddled = FALSE /\ cmd[c].at = "idle"
  BY DEF Meddled, LockInv
<1>2. pc[c] = "idle" \/ cmd[c].at = "idle"
  BY DEF LockInv
<1>3. tries.meddled = FALSE => Unmoved(cmd[c], local[c], op[c])
  BY DEF LockInv
<1>4. ASSUME Operator(c) \/ tries' = [tries EXCEPT !.meddled = Meddled(c)]
      PROVE  DOMAIN tries' = DOMAIN tries /\ tries'.meddled = Meddled(c)
  <2>1. \/ tries' = [tries EXCEPT !.meddled = Meddled(c)]
        \/ \E n : tries' = [tries EXCEPT !.operator = n, !.meddled = Meddled(c)]
    BY <1>4 DEF Operator
  <2>2. QED
    BY <2>1 DEF LockInv
<1>5. CASE SettlePick(c) \/ PickByHand(c) \/ AbortPick(c)
  <2>1. UNCHANGED <<pc, local, op, cmd>> /\ DOMAIN tries' = DOMAIN tries /\ tries'.meddled = Meddled(c)
    BY <1>4, <1>5 DEF SettlePick, PickByHand, AbortPick, Operator, sync
  <2>2. QED
    BY <1>1, <1>2, <1>3, <2>1, LockStep DEF RInv
<1>6. CASE ConcludePick(c)
  <2>1. UNCHANGED <<pc, op, cmd>> /\ DOMAIN tries' = DOMAIN tries /\ tries'.meddled = Meddled(c)
    BY <1>4, <1>6 DEF ConcludePick, Operator, sync
  <2>2. \E v : local' = [local EXCEPT ![c] = v]
    BY <1>6 DEF ConcludePick, CommitOnHead
  <2>3. tries'.meddled = FALSE => Unmoved(cmd'[c], local'[c], op'[c])
    BY <1>1, <2>1 DEF Unmoved
  <2>4. QED
    BY <1>1, <1>2, <2>1, <2>2, <2>3, LockStep DEF RInv
<1>7. CASE \E b \in Branches : CheckOut(c, b)
  <2>1. UNCHANGED <<pc, local, op, cmd>> /\ DOMAIN tries' = DOMAIN tries /\ tries'.meddled = Meddled(c)
    BY <1>4, <1>7 DEF CheckOut, Operator, sync
  <2>2. QED
    BY <1>1, <1>2, <1>3, <2>1, LockStep DEF RInv
<1>8. ASSUME NEW b \in Branches, SettleWorktree(c, b) PROVE LockInv'
  <2>1. PICK t : op' = [op EXCEPT ![c][b].index = t, ![c][b].unresolved = {}]
    BY <1>8 DEF SettleWorktree
  <2> DEFINE o == [op[c][b] EXCEPT !.index = t, !.unresolved = {}]
  <2>2. DOMAIN op = Clones /\ DOMAIN op[c] = Branches /\ "tip" \in DOMAIN op[c][b]
    <3>1. op[c][b] \in Operations(have[c])
      BY DeskOf DEF OperationInv
    <3>2. QED
      BY <3>1, DeskOf DEF RInv, DeskInv, Table, Operations
  <2>3. op' = [op EXCEPT ![c][b] = o] /\ o.tip = op[c][b].tip
    BY <2>1, <2>2
  <2>4. UNCHANGED <<pc, local, cmd, tries>>
    BY <1>8 DEF SettleWorktree, sync
  <2> HIDE DEF o
  <2>5. QED
    BY <2>3, <2>4, LockOperation DEF LockInv
<1>9. ASSUME NEW b \in Branches, RemoveWorktree(c, b) PROVE LockInv'
  <2> DEFINE o == [op[c][b] EXCEPT !.kind = "lost"]
  <2>1. op' = [op EXCEPT ![c][b].kind = "lost"]
    BY <1>9 DEF RemoveWorktree
  <2>2. DOMAIN op = Clones /\ DOMAIN op[c] = Branches /\ "tip" \in DOMAIN op[c][b]
    <3>1. op[c][b] \in Operations(have[c])
      BY DeskOf DEF OperationInv
    <3>2. QED
      BY <3>1, DeskOf DEF RInv, DeskInv, Table, Operations
  <2>3. op' = [op EXCEPT ![c][b] = o] /\ o.tip = op[c][b].tip
    BY <2>1, <2>2
  <2>4. UNCHANGED <<pc, local, cmd>> /\ DOMAIN tries' = DOMAIN tries /\ tries'.meddled = Meddled(c)
    BY <1>4, <1>9 DEF RemoveWorktree, Operator, sync
  <2> HIDE DEF o
  <2>5. QED
    BY <1>1, <2>3, <2>4, LockOperation
<1>10. QED
  BY <1>5, <1>6, <1>7, <1>8, <1>9 DEF OperatorStep

LEMMA RNextKeepsLock == RInv /\ LockInv /\ [RNext]_rvars => LockInv'
<1> SUFFICES ASSUME RInv, LockInv, [RNext]_rvars PROVE LockInv'
  OBVIOUS
<1>1. CASE \E c \in Clones : ResolveCommand(c) \/ Kill(c)
  BY <1>1, CommandsKeepLock
<1>2. CASE \E c \in Clones : OperatorStep(c)
  BY <1>2, OperatorKeepsLock
<1>3. CASE (\E c \in Clones : SyncCommand(c)) /\ UNCHANGED <<on, pick, op, cmd, tries>>
  BY <1>3, LockRun
<1>4. CASE Others /\ UNCHANGED <<on, pick, op, cmd>>
  BY <1>4, LockOthers
<1>5. CASE UNCHANGED rvars
  BY <1>5 DEF rvars, vars, clone, LockInv, Table, Unmoved
<1>6. QED
  BY <1>1, <1>2, <1>3, <1>4, <1>5 DEF RNext

LEMMA RInitLock == RInit => LockInv
<1> SUFFICES ASSUME RInit PROVE LockInv
  OBVIOUS
<1>1. Table(pc) /\ Table(local) /\ \A c \in Clones : pc[c] = "idle"
  BY RInitRInv DEF RInit, Init, RInv, SyncInv, Table
<1>2. DOMAIN tries = {"budget", "resolves", "operator", "kills", "meddled"} /\ tries.meddled = FALSE
  BY DEF RInit
<1>3. \A c \in Clones : cmd[c].at = "idle"
  BY DEF RInit, NoCommand
<1>4. QED
  BY <1>1, <1>2, <1>3 DEF LockInv, Unmoved

LEMMA LockInvariant == RSpec => [](RInv /\ LockInv)
BY RInitLock, RInitRInv, RNextKeepsLock, RNextKeepsRInv, PTL DEF RSpec

(* A resolution that dest accepts settles the conflict: the next run       *)
(* resumes right behind the commit that was resolved, wherever the branch  *)
(* went in the meantime.                                                   *)
THEOREM ResolutionUnblocksHolds == RSpec => ResolutionUnblocks
<1> DEFINE Unblocks ==
      \A c \in Clones :
        ~tries.meddled /\ cmd[c].at = "push_resolution" /\ cmd'[c].at = "cleanup" =>
            LET b == cmd[c].branch
                point == DestResumePoint(have[c], local[c][b], dst'[b], b)
            IN  point.kind = "Ok" /\ point.at = op[c][b].commit
<1>1. ASSUME RInv, LockInv, [RNext]_rvars PROVE Unblocks
  <2> SUFFICES ASSUME NEW c \in Clones, ~tries.meddled, cmd[c].at = "push_resolution",
                      cmd'[c].at = "cleanup"
               PROVE  LET b == cmd[c].branch
                          point == DestResumePoint(have[c], local[c][b], dst'[b], b)
                      IN  point.kind = "Ok" /\ point.at = op[c][b].commit
    OBVIOUS
  <2> DEFINE b == cmd[c].branch
             o == op[c][b]
             made == cmd[c].made
  <2>1. /\ DeskInv /\ ObjectDatabase(odb) /\ dst \in [Branches -> CleanOids(odb) \cup {NoOid}]
        /\ Closed(odb, have[c]) /\ have[c] \subseteq Oids /\ b \in Branches /\ made \in have[c]
        /\ Resolution(odb, cmd[c], o)
        /\ OperationInv(odb, CleanOids(odb), have[c], o)
    BY <1>1, DeskOf DEF CommandInv
  <2>2. PushResolution(c) \/ Kill(c)
    BY <1>1, <2>1, CommandUnderWay DEF CherryPick, CherryPickContinue, Rebuild, Swap, PushImport,
       CheckReuse, ReplayPrefix, PushPrefix, OpenWorktree, FinishToDest, CleanUp
  <2>3. ~Done(c)
    BY <2>1 DEF Done, NoCommand, DeskInv, Table
  <2>4. dst'[b] = made
    BY <2>1, <2>2, <2>3 DEF PushResolution, Kill
  <2>5. local[c][b] = o.tip
    BY <1>1 DEF LockInv, Unmoved
  <2>6. /\ o.commit \in have[c] /\ o.commit \in Anc(o.tip)
        /\ odb[made].marker = Marker("SourceToDest", b, o.commit) /\ Line(made)[1] = made
    BY <2>1 DEF Resolution, OperationInv, Anc, Line
  <2>7. o.commit # NoOid /\ made \in Oids
    BY <2>1, <2>6 DEF Oids, NoOid
  <2> HIDE DEF b, o, made
  <2>8. LET point == DestResumePoint(have[c], o.tip, made, b)
        IN  point.kind = "Ok" /\ point.at = o.commit
    BY <2>1, <2>6, <2>7, ResumesBehindOwnTip
  <2>9. QED
    BY <2>4, <2>5, <2>8 DEF b, o
<1>2. RInv /\ LockInv /\ [RNext]_rvars => [Unblocks]_rvars
  BY <1>1
<1>3. QED
  BY <1>2, LockInvariant, PTL DEF ResolutionUnblocks, RSpec

(***************************************************************************)
(* Imports leave no gap, whoever makes them.                               *)
(***************************************************************************)

(* What a command of resolve is about to do leaves none: the commit that   *)
(* it picks is the next one to import into the branch that is checked out, *)
(* and the commit that it rebuilds was picked on top of a history for      *)
(* which it is the next one.                                               *)
Placed(db, k, head) ==
    /\ k.at \in {"pick", "continue"} => Fits(db, k.commit, head, k.branch, {k.commit})
    /\ k.at = "read_head" => /\ db[head].parents # <<>>
                             /\ Fits(db, k.commit, db[head].parents[1], k.branch, {k.commit})

(* As long as nobody has worked in a checkout in the middle of a command.  *)
GapInv ==
    tries.meddled = FALSE =>
        ImportInv /\ \A c \in Clones : Placed(odb, cmd[c], local[c][on[c]])

LEMMA PlacedKept ==
    ASSUME RInv, ImportInv, NEW c \in Clones, Placed(odb, cmd[c], local[c][on[c]]),
           Extends(odb, odb')
    PROVE  Placed(odb', cmd[c], local[c][on[c]])
<1> DEFINE head == local[c][on[c]]
           k == cmd[c]
<1>1. ObjectDatabase(odb) /\ ImportLog(odb) /\ have[c] \subseteq Oids /\ head \in have[c]
  BY DeskOf DEF HeadOf, ImportInv
<1>2. k.at \in {"pick", "continue", "read_head"} => k.commit \in Oids
  BY <1>1, DeskOf DEF CommandInv
<1>3. head \in Oids
  BY <1>1
<1>4. odb'[head] = odb[head]
  BY <1>3 DEF Extends, Oids
<1> HIDE DEF head, k
<1>5. odb[head].parents # <<>> => odb[head].parents[1] \in Oids
  <2>1. odb[head].parents \in Seq(Anc(head) \ {head}) /\ Anc(head) \subseteq Oids
    BY <1>1, <1>3, CommitFacts
  <2>2. QED
    BY <2>1
<1>6. \A o, t \in Oids : \A b, S : Fits(odb, o, t, b, S) => Fits(odb', o, t, b, S)
  BY <1>1, LogKept DEF Oids
<1>7. Placed(odb, k, head)
  BY DEF k, head
<1>8. k.at \in {"pick", "continue"} => Fits(odb', k.commit, head, k.branch, {k.commit})
  BY <1>2, <1>3, <1>6, <1>7 DEF Placed
<1>9. k.at = "read_head" => /\ odb'[head].parents # <<>>
                            /\ Fits(odb', k.commit, odb'[head].parents[1], k.branch, {k.commit})
  BY <1>2, <1>4, <1>5, <1>6, <1>7 DEF Placed
<1>10. Placed(odb', k, head)
  BY <1>8, <1>9 DEF Placed
<1>11. QED
  BY <1>10 DEF k, head

LEMMA GapStep ==
    ASSUME RInv, LockInv, GapInv, NEW c \in Clones, pc' = pc, job' = job,
           local' = local \/ \E v : local' = [local EXCEPT ![c] = v],
           on' = on \/ \E v : on' = [on EXCEPT ![c] = v],
           cmd' = cmd \/ \E v : cmd' = [cmd EXCEPT ![c] = v],
           tries'.meddled = FALSE =>
               /\ tries.meddled = FALSE /\ Extends(odb, odb') /\ ImportLog(odb')
               /\ Placed(odb', cmd'[c], local'[c][on'[c]])
    PROVE  GapInv'
<1> SUFFICES ASSUME tries'.meddled = FALSE
             PROVE  ImportInv' /\ \A d \in Clones : Placed(odb', cmd'[d], local'[d][on'[d]])
  BY DEF GapInv
<1>1. ImportInv /\ Extends(odb, odb') /\ ImportLog(odb')
  BY DEF GapInv
<1>2. ImportInv'
  BY <1>1, RunsKeepImports DEF RInv
<1>3. /\ \A d \in Clones \ {c} : local'[d] = local[d]
      /\ \A d \in Clones \ {c} : on'[d] = on[d]
      /\ \A d \in Clones \ {c} : cmd'[d] = cmd[d]
  <2>1. Table(local) /\ Table(on) /\ Table(cmd)
    BY DEF LockInv, RInv, DeskInv
  <2>2. \A d \in Clones \ {c} : local'[d] = local[d]
    BY <2>1, RowChanged
  <2>3. \A d \in Clones \ {c} : on'[d] = on[d]
    BY <2>1, RowChanged
  <2>4. \A d \in Clones \ {c} : cmd'[d] = cmd[d]
    BY <2>1, RowChanged
  <2>5. QED
    BY <2>2, <2>3, <2>4
<1>4. ASSUME NEW d \in Clones PROVE Placed(odb', cmd'[d], local'[d][on'[d]])
  <2>1. CASE d = c
    BY <2>1
  <2>2. CASE d # c
    <3>1. Placed(odb, cmd[d], local[d][on[d]])
      BY DEF GapInv
    <3>2. Placed(odb', cmd[d], local[d][on[d]])
      BY <1>1, <3>1, PlacedKept
    <3>3. QED
      BY <1>3, <2>2, <3>2
  <2>3. QED
    BY <2>1, <2>2
<1>5. QED
  BY <1>2, <1>4

(* What a command writes in the tables is its own clone's row. *)
LEMMA CommandRows ==
    ASSUME RInv, LockInv, NEW c \in Clones, ResolveCommand(c) \/ Kill(c)
    PROVE  /\ pc' = pc /\ job' = job /\ tries'.meddled = tries.meddled
           /\ local' = local \/ \E v : local' = [local EXCEPT ![c] = v]
           /\ on' = on \/ \E v : on' = [on EXCEPT ![c] = v]
           /\ cmd' = cmd \/ \E v : cmd' = [cmd EXCEPT ![c] = v]
<1> DEFINE row(x, y) == y = x \/ \E v : y = [x EXCEPT ![c] = v]
           rows == pc' = pc /\ job' = job /\ row(local, local') /\ row(on, on') /\ row(cmd, cmd')
           spend == \/ tries' = tries
                    \/ \E n : \/ tries' = [tries EXCEPT !.resolves = n]
                              \/ tries' = [tries EXCEPT !.kills = n]
<1>1. spend => tries'.meddled = tries.meddled
  BY DEF LockInv
<1>2. ASSUME NEW b \in Branches, ResolveStart(c, b) \/ ResolveContinue(c, b)
      PROVE  rows /\ spend
  BY <1>2 DEF ResolveStart, ResolveContinue, Command, sync
<1>3. ASSUME NEW b \in Branches, ResolveToDestStart(c, b) \/ ResolveToDestContinue(c, b)
      PROVE  rows /\ spend
  BY <1>3 DEF ResolveToDestStart, ResolveToDestContinue, Command, sync
<1>4. ASSUME CherryPick(c) \/ CherryPickContinue(c) \/ Rebuild(c) \/ Swap(c) \/ PushImport(c)
      PROVE  rows /\ spend
  BY <1>4 DEF CherryPick, CherryPickContinue, CommitOnHead, Rebuild, Swap, PushImport, Done, At, sync
<1>5. ASSUME CheckReuse(c) \/ ReplayPrefix(c) \/ PushPrefix(c) \/ OpenWorktree(c)
      PROVE  rows /\ spend
  BY <1>5 DEF CheckReuse, ReplayPrefix, PushPrefix, OpenWorktree, Done, At, sync
<1>6. ASSUME FinishToDest(c) \/ PushResolution(c) \/ CleanUp(c) \/ Kill(c)
      PROVE  rows /\ spend
  BY <1>6 DEF FinishToDest, PushResolution, CleanUp, Kill, Done, At, sync
<1>7. QED
  BY <1>1, <1>2, <1>3, <1>4, <1>5, <1>6 DEF ResolveCommand

(* The oldest dest commit that is pending fits on the tip that was asked   *)
(* about: the pending ones before it are the branch's own projections.     *)
LEMMA NextPendingFits ==
    ASSUME ObjectDatabase(odb), ImportLog(odb), NEW H, NEW tip \in Oids, NEW head \in Oids, NEW b,
           NEW o, NextPending(o, PendingDest(H, tip, head, b))
    PROVE  o \in Oids /\ Fits(odb, o, tip, b, {o})
<1> DEFINE boundary == DestToSourceBoundary(H, tip, head, b)
           pending == PendingCommits(boundary, head)
           j == [pending |-> pending, chain |-> tip, branch |-> b]
           own == {x \in ToSet(pending) : ~OwnMirror(x, b)}
<1>1. boundary # NoOid /\ PendingDest(H, tip, head, b) = own
  BY DEF NextPending, PendingDest
<1>2. o \in own /\ \A x \in own : o <= x
  BY <1>1 DEF NextPending
<1>3. j.pending = pending /\ j.chain = tip /\ j.branch = b
  OBVIOUS
<1> HIDE DEF j
<1>4. Due(odb, "import_build", j)
  BY <1>1, <1>3, PendingDue
<1>5. Fits(odb, o, tip, b, {x \in ToSet(pending) : x <= o})
  BY <1>2, <1>3, <1>4 DEF Due
<1>6. o \in Oids
  BY <1>1, <1>2, PendingDestOfHead, CommitFacts
<1>7. ASSUME NEW x \in ToSet(pending), x <= o, odb[x].marker = NoMarker PROVE x = o
  <2>1. ~OwnMirror(x, b)
    BY <1>7 DEF OwnMirror, Verify, NoMarker
  <2>2. o <= x /\ x \in Nat
    <3>1. x \in own
      BY <2>1
    <3>2. x \in Oids
      BY <1>1, <3>1, PendingDestOfHead, CommitFacts
    <3>3. QED
      BY <1>2, <3>1, <3>2 DEF Oids
  <2>3. QED
    BY <1>6, <1>7, <2>2 DEF Oids
<1>8. Missing(odb, o, tip) \subseteq Taken(odb, tip) \cup {o}
  BY <1>5, <1>7 DEF Fits, Missing
<1>9. QED
  BY <1>5, <1>6, <1>8 DEF Fits

(* A commit that no command is to import writes no import. *)
LEMMA PlainOnto ==
    ASSUME NEW parent \in Oids, NEW tree, NEW marker, Write(<<parent>>, tree, marker),
           marker.dir \notin {"Setup", "DestToSource"}
    PROVE  PlainWrite
<1>1. <<parent>> \in Seq(Oids)
  OBVIOUS
<1>2. QED
  BY <1>1 DEF PlainWrite

(* The pick goes onto the branch as the commit that Rebuild then replaces. *)
LEMMA PickPlaced ==
    ASSUME RInv, LockInv, GapInv, tries.meddled = FALSE, NEW c \in Clones,
           cmd[c].at \in {"pick", "continue"}, NEW tree, CommitOnHead(c, tree), UNCHANGED on,
           At(c, "read_head")
    PROVE  /\ Extends(odb, odb') /\ ImportLog(odb')
           /\ Placed(odb', cmd'[c], local'[c][on'[c]])
<1> DEFINE head == HeadOf(c)
           k == cmd[c]
<1>1. /\ ImportInv /\ ObjectDatabase(odb) /\ ImportLog(odb)
      /\ Fits(odb, k.commit, head, k.branch, {k.commit})
  BY DEF GapInv, Placed, ImportInv, RInv, SyncInv, HeadOf
<1>2. /\ head \in Oids /\ k.commit \in Oids /\ on[c] \in Branches
      /\ local[c] \in [Branches -> have[c] \cup {NoOid}]
  BY DeskOf DEF CommandInv
<1>3. Write(<<head>>, tree, NoMarker) /\ local' = [local EXCEPT ![c][on[c]] = NextOid]
  BY DEF CommitOnHead
<1>4. NoMarker.dir \notin {"Setup", "DestToSource"}
  BY DEF NoMarker
<1> HIDE DEF head
<1>5. ImportLog(odb') /\ Extends(odb, odb')
  BY <1>1, <1>2, <1>3, <1>4, PlainOnto, LogStep
<1>6. odb'[NextOid].parents = <<head>>
  BY <1>1, <1>3 DEF Write, NewCommit, NextOid, ObjectDatabase
<1>7. local'[c][on'[c]] = NextOid
  BY <1>2, <1>3 DEF LockInv, Table
<1>8. cmd'[c] = [k EXCEPT !.at = "read_head"]
  BY DEF At, RInv, DeskInv, Table
<1>9. {"at", "commit", "branch"} \subseteq DOMAIN k
  BY DeskOf DEF CommandInv, Commands
<1>10. cmd'[c].at = "read_head" /\ cmd'[c].commit = k.commit /\ cmd'[c].branch = k.branch
  BY <1>8, <1>9
<1>11. Fits(odb', k.commit, head, k.branch, {k.commit})
  BY <1>1, <1>2, <1>5, LogKept DEF Oids
<1>12. Placed(odb', cmd'[c], NextOid)
  BY <1>6, <1>10, <1>11 DEF Placed
<1>13. QED
  BY <1>5, <1>7, <1>12

(* What is rebuilt is the next import on the commit under the pick. *)
LEMMA RebuildPlaced ==
    ASSUME RInv, GapInv, tries.meddled = FALSE, NEW c \in Clones, Rebuild(c)
    PROVE  /\ Extends(odb, odb') /\ ImportLog(odb')
           /\ cmd'[c].at \notin {"pick", "continue", "read_head"}
<1> DEFINE head == HeadOf(c)
           k == cmd[c]
           under == odb[head].parents[1]
<1>1. /\ ImportInv /\ ObjectDatabase(odb) /\ ImportLog(odb)
      /\ odb[head].parents # <<>> /\ Fits(odb, k.commit, under, k.branch, {k.commit})
  BY DEF GapInv, Placed, ImportInv, RInv, SyncInv, HeadOf, Rebuild
<1>2. head \in Oids /\ k.commit \in Oids
  BY DeskOf DEF CommandInv, Rebuild
<1>3. FirstParent(head) = under
  BY <1>1 DEF FirstParent
<1>4. under \in Oids
  <2> HIDE DEF head
  <2>1. odb[head].parents \in Seq(Anc(head) \ {head}) /\ Anc(head) \subseteq Oids
    BY <1>1, <1>2, CommitFacts
  <2>2. QED
    BY <1>1, <2>1
<1>5. Write(<<under>>, TreeOf(head), Marker("DestToSource", k.branch, k.commit))
  BY <1>1, <1>3 DEF Rebuild
<1> HIDE DEF under, head
<1>6. ImportLog(odb') /\ Extends(odb, odb')
  BY <1>1, <1>2, <1>4, <1>5, LogImportWrite
<1>7. cmd'[c].at = "swap"
  <2>1. cmd' = [cmd EXCEPT ![c].at = "swap", ![c].head = HeadOf(c), ![c].chain = NextOid]
    BY <1>1 DEF Rebuild, head
  <2>2. cmd'[c] = [k EXCEPT !.at = "swap", !.head = HeadOf(c), !.chain = NextOid]
    BY <2>1 DEF RInv, DeskInv, Table
  <2>3. "at" \in DOMAIN k
    BY DeskOf DEF CommandInv, Commands
  <2>4. QED
    BY <2>2, <2>3
<1>8. QED
  BY <1>6, <1>7

LEMMA CommandsKeepGap ==
    ASSUME RInv, LockInv, GapInv, NEW c \in Clones, ResolveCommand(c) \/ Kill(c) PROVE GapInv'
<1> DEFINE placed == /\ Extends(odb, odb') /\ ImportLog(odb')
                     /\ Placed(odb', cmd'[c], local'[c][on'[c]])
           apart == cmd'[c].at \notin {"pick", "continue", "read_head"}
           goal == tries.meddled = FALSE => placed
<1>1. goal => GapInv'
  BY CommandRows, GapStep
<1>2. SUFFICES ASSUME tries.meddled = FALSE PROVE placed
  BY <1>1
<1>3. ImportInv /\ ObjectDatabase(odb) /\ ImportLog(odb)
  BY <1>2 DEF GapInv, ImportInv, RInv, SyncInv
<1>4. PlainWrite /\ apart => placed
  BY <1>3, LogStep DEF Placed
<1>5. odb' = odb => PlainWrite
  BY DEF PlainWrite
<1>6. "at" \in DOMAIN cmd[c] /\ Table(cmd) /\ have[c] \subseteq Oids
  BY DeskOf DEF CommandInv, Commands, DeskInv
<1>7. Done(c) => apart
  BY <1>6 DEF Done, NoCommand, Table
<1>8. ASSUME NEW where, where \notin {"pick", "continue", "read_head"}, At(c, where) PROVE apart
  BY <1>6, <1>8 DEF At, Table
<1>9. ASSUME NEW b \in Branches, ResolveStart(c, b) \/ ResolveContinue(c, b) PROVE placed
  <2>1. /\ UNCHANGED <<odb, local, on>> /\ on[c] = b /\ dst[b] # NoOid
        /\ \E o : /\ NextPending(o, PendingDest(have'[c], local[c][b], dst[b], b))
                  /\ \/ cmd' = [cmd EXCEPT ![c] = [NoCommand EXCEPT
                                    !.at = "pick", !.branch = b, !.commit = o]]
                     \/ cmd' = [cmd EXCEPT ![c] = [NoCommand EXCEPT
                                    !.at = "continue", !.branch = b, !.commit = o]]
    BY <1>9 DEF ResolveStart, ResolveContinue
  <2>2. PICK o : /\ NextPending(o, PendingDest(have'[c], local[c][b], dst[b], b))
                 /\ \/ cmd' = [cmd EXCEPT ![c] = [NoCommand EXCEPT
                                   !.at = "pick", !.branch = b, !.commit = o]]
                    \/ cmd' = [cmd EXCEPT ![c] = [NoCommand EXCEPT
                                   !.at = "continue", !.branch = b, !.commit = o]]
    BY <2>1
  <2>3. local[c][b] \in Oids
    BY <1>6, <2>1, DeskOf DEF HeadOf
  <2>4. dst[b] \in Oids
    <3>1. dst[b] \in CleanOids(odb)
      BY <2>1, DeskOf
    <3>2. QED
      BY <3>1 DEF CleanOids, Oids
  <2>5. Fits(odb, o, local[c][b], b, {o})
    BY <1>3, <2>2, <2>3, <2>4, NextPendingFits
  <2>6. cmd'[c].commit = o /\ cmd'[c].branch = b /\ cmd'[c].at # "read_head"
    BY <1>6, <2>2 DEF NoCommand, Table
  <2>7. Placed(odb', cmd'[c], local'[c][on'[c]])
    BY <2>1, <2>5, <2>6 DEF Placed
  <2>8. QED
    BY <1>3, <1>5, <2>1, <2>7, LogStep
<1>10. ASSUME NEW b \in Branches, ResolveToDestStart(c, b) \/ ResolveToDestContinue(c, b)
       PROVE  placed
  <2>1. CASE ResolveToDestStart(c, b)
    <3>1. PICK point : cmd' = [cmd EXCEPT ![c] = [NoCommand EXCEPT
              !.at = "reuse", !.branch = b, !.tip = local[c][b], !.seen = dst[b],
              !.chain = dst[b], !.boundary = point.at,
              !.pending = PendingCommits(point.at, local[c][b])]]
      BY <2>1 DEF ResolveToDestStart
    <3>2. cmd'[c].at = "reuse"
      BY <1>6, <3>1 DEF NoCommand, Table
    <3>3. QED
      BY <1>4, <1>5, <2>1, <3>2 DEF ResolveToDestStart
  <2>2. CASE ResolveToDestContinue(c, b)
    <3>1. cmd'[c].at = "finish"
      BY <1>6, <2>2 DEF ResolveToDestContinue, NoCommand, Table
    <3>2. QED
      BY <1>4, <1>5, <2>2, <3>1 DEF ResolveToDestContinue
  <2>3. QED
    BY <1>10, <2>1, <2>2
<1>11. CASE CherryPick(c) \/ CherryPickContinue(c)
  <2>1. \/ Done(c) /\ odb' = odb
        \/ /\ cmd[c].at \in {"pick", "continue"} /\ on' = on /\ At(c, "read_head")
           /\ \E tree : CommitOnHead(c, tree)
    BY <1>11 DEF CherryPick, CherryPickContinue
  <2>2. QED
    BY <1>2, <1>4, <1>5, <1>7, <2>1, PickPlaced
<1>12. CASE Rebuild(c)
  BY <1>2, <1>12, RebuildPlaced DEF Placed
<1>13. CASE Swap(c) \/ PushImport(c) \/ CheckReuse(c) \/ PushPrefix(c) \/ OpenWorktree(c)
  <2>1. odb' = odb
    BY <1>13 DEF Swap, PushImport, CheckReuse, PushPrefix, OpenWorktree
  <2>2. apart
    BY <1>7, <1>8, <1>13 DEF Swap, PushImport, CheckReuse, PushPrefix, OpenWorktree
  <2>3. QED
    BY <1>4, <1>5, <2>1, <2>2
<1>14. CASE ReplayPrefix(c)
  <2>1. cmd[c].at = "replay" /\ cmd[c].chain \in Oids
    BY <1>6, <1>14, DeskOf DEF ReplayPrefix, CommandInv
  <2>2. cmd'[c].at = cmd[c].at
    <3>1. \/ \E p : cmd' = [cmd EXCEPT ![c].pending = p]
          \/ \E p, o : cmd' = [cmd EXCEPT ![c].pending = p, ![c].commit = o]
          \/ \E p, o : cmd' = [cmd EXCEPT ![c].pending = p, ![c].chain = o]
      BY <1>14 DEF ReplayPrefix
    <3>2. QED
      BY <1>6, <3>1 DEF Table
  <2>3. PlainWrite
    <3>1. \/ odb' = odb
          \/ \E tree, o : Write(<<cmd[c].chain>>, tree, Marker("SourceToDest", cmd[c].branch, o))
      BY <1>14 DEF ReplayPrefix
    <3>2. \A b, o : Marker("SourceToDest", b, o).dir \notin {"Setup", "DestToSource"}
      BY DEF Marker
    <3>3. QED
      BY <1>5, <2>1, <3>1, <3>2, PlainOnto
  <2>4. QED
    BY <1>4, <2>1, <2>2, <2>3
<1>15. CASE FinishToDest(c)
  <2> DEFINE b == cmd[c].branch
             o == op[c][b]
  <2>1. b \in Branches /\ OperationInv(odb, CleanOids(odb), have[c], o)
    BY <1>15, DeskOf DEF FinishToDest, CommandInv
  <2>2. \/ Done(c) /\ odb' = odb
        \/ /\ o.kind = "open" /\ Write(<<o.base>>, o.index, Marker("SourceToDest", b, o.commit))
           /\ cmd' = [cmd EXCEPT ![c].at = "push_resolution", ![c].made = NextOid]
    BY <1>15 DEF FinishToDest, Finishable
  <2> HIDE DEF o, b
  <2>3. CASE Done(c) /\ odb' = odb
    BY <1>4, <1>5, <1>7, <2>3
  <2>4. CASE /\ o.kind = "open" /\ Write(<<o.base>>, o.index, Marker("SourceToDest", b, o.commit))
             /\ cmd' = [cmd EXCEPT ![c].at = "push_resolution", ![c].made = NextOid]
    <3>1. o.base \in Oids
      BY <1>6, <2>1, <2>4 DEF OperationInv
    <3>2. Marker("SourceToDest", b, o.commit).dir \notin {"Setup", "DestToSource"}
      BY DEF Marker
    <3>3. PlainWrite
      BY <2>4, <3>1, <3>2, PlainOnto
    <3>4. cmd'[c].at = "push_resolution"
      BY <1>6, <2>4 DEF Table
    <3>5. QED
      BY <1>4, <3>3, <3>4
  <2>5. QED
    BY <2>2, <2>3, <2>4
<1>16. CASE PushResolution(c) \/ CleanUp(c) \/ Kill(c)
  <2>1. odb' = odb
    BY <1>16 DEF PushResolution, CleanUp, Kill
  <2>2. apart
    BY <1>7, <1>8, <1>16 DEF PushResolution, CleanUp, Kill
  <2>3. QED
    BY <1>4, <1>5, <2>1, <2>2
<1>17. QED
  BY <1>9, <1>10, <1>11, <1>12, <1>13, <1>14, <1>15, <1>16 DEF ResolveCommand

(* A run imports as Sync does; the lock keeps its clone's commands away. *)
LEMMA RunsKeepGap ==
    ASSUME RInv, LockInv, GapInv, NEW c \in Clones, SyncCommand(c),
           UNCHANGED <<on, pick, op, cmd, tries>>
    PROVE  GapInv'
<1> SUFFICES ASSUME tries.meddled = FALSE
             PROVE  ImportInv' /\ \A d \in Clones : Placed(odb', cmd[d], local'[d][on[d]])
  BY DEF GapInv
<1>1. SyncInv /\ ImportInv /\ ObjectDatabase(odb) /\ Table(local)
  BY DEF GapInv, ImportInv, RInv, SyncInv, LockInv
<1>2. ImportInv' /\ Extends(odb, odb')
  <2>1. CASE StartRun(c) \/ Sync(c) \/ Crash(c)
    BY <1>1, <2>1, RunKeepsImports
  <2>2. CASE Abort(c, "preflight") /\ UNCHANGED odb
    <3>1. Extends(odb, odb') /\ ImportLog(odb')
      BY <1>1, <2>2 DEF Extends, ImportInv, ObjectDatabase
    <3>2. \A d \in Clones \ {c} : pc'[d] = pc[d] /\ job'[d] = job[d]
      BY <2>2, RowChanged DEF Abort, RInv, SyncInv
    <3>3. pc'[c] # "import_build"
      BY <2>2 DEF Abort, RInv, SyncInv, Table
    <3>4. QED
      BY <1>1, <3>1, <3>2, <3>3, ImportStep DEF Due
  <2>3. QED
    BY <2>1, <2>2 DEF SyncCommand
<1>3. (StartRun(c) /\ LockFree(c)) \/ pc[c] # "idle"
  BY DEF SyncCommand, Blocked, Sync, Crash, FetchHeads, SkipImport, BeginImport, RefetchSource,
     ReplayToSource, NothingToPush, PushToSource, AdvanceLocalSourceBranch,
     ReconstructMappingIndex, SelectNextBranch, FetchDest, PlanBranch, ReplayToDest, SealToDest,
     PushToDest, PushRejected, Finish
<1>4. cmd[c].at = "idle"
  BY <1>3 DEF LockFree, LockInv
<1>5. local' = local \/ \E v : local' = [local EXCEPT ![c] = v]
  BY DEF SyncCommand, Sync, Crash, Abort, StartRun, FetchHeads, SkipImport, BeginImport,
     RefetchSource, ReplayToSource, NothingToPush, PushToSource, AdvanceLocalSourceBranch,
     ReconstructMappingIndex, SelectNextBranch, FetchDest, PlanBranch, PlanBuild, ReplayToDest,
     SealToDest, PushToDest, PushRejected, Finish, clone
<1>6. \A d \in Clones \ {c} : local'[d] = local[d]
  BY <1>1, <1>5, RowChanged
<1>7. ASSUME NEW d \in Clones PROVE Placed(odb', cmd[d], local'[d][on[d]])
  <2>1. CASE d = c
    BY <1>4, <2>1 DEF Placed
  <2>2. CASE d # c
    <3>1. Placed(odb, cmd[d], local[d][on[d]])
      BY DEF GapInv
    <3>2. QED
      BY <1>1, <1>2, <1>6, <2>2, <3>1, PlacedKept
  <2>3. QED
    BY <2>1, <2>2
<1>8. QED
  BY <1>2, <1>7

(* Developers move the branches of a clone, and then its command, if one   *)
(* is under way, has been meddled with.                                    *)
LEMMA OthersKeepGap ==
    ASSUME RInv, LockInv, GapInv, Others, UNCHANGED <<on, pick, op, cmd>>
    PROVE  GapInv'
<1> DEFINE moved == \E c \in Clones : local'[c] # local[c] /\ cmd[c].at # "idle"
<1>1. tries'.meddled = FALSE => tries.meddled = FALSE /\ ~moved
  <2>1. tries' = [tries EXCEPT !.meddled = tries.meddled \/ moved]
    BY DEF Others
  <2> HIDE DEF moved
  <2>2. tries'.meddled = (tries.meddled \/ moved)
    BY <2>1 DEF LockInv
  <2>3. QED
    BY <2>2 DEF LockInv
<1> SUFFICES ASSUME tries.meddled = FALSE, ~moved
             PROVE  ImportInv' /\ \A d \in Clones : Placed(odb', cmd[d], local'[d][on[d]])
  BY <1>1 DEF GapInv
<1>2. SyncInv /\ ImportInv
  BY DEF GapInv, RInv
<1>3. ImportLog(odb') /\ Extends(odb, odb') /\ pc' = pc /\ job' = job
  BY <1>2, EnvironmentIsPlain, EnvironmentKeepsRuns, LogStep DEF SyncInv, ImportInv, Others
<1>4. ImportInv'
  BY <1>2, <1>3, RunsKeepImports
<1>5. ASSUME NEW d \in Clones PROVE Placed(odb', cmd[d], local'[d][on[d]])
  <2>1. CASE cmd[d].at = "idle"
    BY <2>1 DEF Placed
  <2>2. CASE cmd[d].at # "idle"
    <3>1. local'[d] = local[d] /\ Placed(odb, cmd[d], local[d][on[d]])
      BY <2>2 DEF GapInv
    <3>2. QED
      BY <1>2, <1>3, <3>1, PlacedKept
  <2>3. QED
    BY <2>1, <2>2
<1>6. QED
  BY <1>4, <1>5

(* So has a command in whose checkout an operator works. *)
LEMMA OperatorKeepsGap ==
    ASSUME RInv, LockInv, GapInv, NEW c \in Clones, OperatorStep(c) PROVE GapInv'
<1>1. Meddled(c) = FALSE => tries.meddled = FALSE /\ cmd[c].at = "idle"
  BY DEF Meddled, LockInv
<1>2. ASSUME Operator(c) \/ tries' = [tries EXCEPT !.meddled = Meddled(c)]
      PROVE  tries'.meddled = Meddled(c)
  <2>1. \/ tries' = [tries EXCEPT !.meddled = Meddled(c)]
        \/ \E n : tries' = [tries EXCEPT !.operator = n, !.meddled = Meddled(c)]
    BY <1>2 DEF Operator
  <2>2. QED
    BY <2>1 DEF LockInv
<1>3. ASSUME NEW b \in Branches, SettleWorktree(c, b) PROVE GapInv'
  <2>1. UNCHANGED <<odb, pc, job, local, on, cmd, tries>>
    BY <1>3 DEF SettleWorktree, sync
  <2>2. QED
    BY <2>1 DEF GapInv, ImportInv
<1>4. ASSUME tries'.meddled = Meddled(c), UNCHANGED <<pc, job, cmd>>, PlainWrite,
             local' = local \/ \E v : local' = [local EXCEPT ![c] = v],
             on' = on \/ \E v : on' = [on EXCEPT ![c] = v]
      PROVE  GapInv'
  <2>1. ASSUME Meddled(c) = FALSE
        PROVE  /\ tries.meddled = FALSE /\ Extends(odb, odb') /\ ImportLog(odb')
               /\ Placed(odb', cmd'[c], local'[c][on'[c]])
    <3>1. tries.meddled = FALSE /\ cmd'[c].at = "idle"
      BY <1>1, <1>4, <2>1
    <3>2. ImportLog(odb') /\ Extends(odb, odb')
      BY <1>4, <3>1, LogStep DEF GapInv, ImportInv, RInv, SyncInv
    <3>3. QED
      BY <3>1, <3>2 DEF Placed
  <2>2. QED
    BY <1>4, <2>1, GapStep
<1>5. odb' = odb => PlainWrite
  BY DEF PlainWrite
<1>6. CASE SettlePick(c) \/ PickByHand(c) \/ AbortPick(c)
  <2>1. UNCHANGED <<odb, pc, job, local, on, cmd>> /\ tries'.meddled = Meddled(c)
    BY <1>2, <1>6 DEF SettlePick, PickByHand, AbortPick, Operator, sync
  <2>2. QED
    BY <1>4, <1>5, <2>1
<1>7. CASE ConcludePick(c)
  <2>1. UNCHANGED <<pc, job, on, cmd>> /\ tries'.meddled = Meddled(c)
    BY <1>2, <1>7 DEF ConcludePick, Operator, sync
  <2>2. /\ Write(<<HeadOf(c)>>, pick[c].index, NoMarker)
        /\ local' = [local EXCEPT ![c][on[c]] = NextOid]
    BY <1>7 DEF ConcludePick, CommitOnHead
  <2>3. HeadOf(c) \in Oids /\ NoMarker.dir \notin {"Setup", "DestToSource"}
    BY DeskOf DEF NoMarker
  <2>4. PlainWrite
    BY <2>2, <2>3, PlainOnto
  <2>5. QED
    BY <1>4, <2>1, <2>2, <2>4
<1>8. ASSUME NEW b \in Branches, RemoveWorktree(c, b) \/ CheckOut(c, b) PROVE GapInv'
  <2>1. UNCHANGED <<odb, pc, job, local, cmd>> /\ tries'.meddled = Meddled(c)
    BY <1>2, <1>8 DEF RemoveWorktree, CheckOut, Operator, sync
  <2>2. on' = on \/ \E v : on' = [on EXCEPT ![c] = v]
    BY <1>8 DEF RemoveWorktree, CheckOut
  <2>3. QED
    BY <1>4, <1>5, <2>1, <2>2
<1>9. QED
  BY <1>3, <1>6, <1>7, <1>8 DEF OperatorStep

LEMMA RNextKeepsGap == RInv /\ LockInv /\ GapInv /\ [RNext]_rvars => GapInv'
<1> SUFFICES ASSUME RInv, LockInv, GapInv, [RNext]_rvars PROVE GapInv'
  OBVIOUS
<1>1. CASE \E c \in Clones : ResolveCommand(c) \/ Kill(c)
  BY <1>1, CommandsKeepGap
<1>2. CASE \E c \in Clones : OperatorStep(c)
  BY <1>2, OperatorKeepsGap
<1>3. CASE (\E c \in Clones : SyncCommand(c)) /\ UNCHANGED <<on, pick, op, cmd, tries>>
  BY <1>3, RunsKeepGap
<1>4. CASE Others /\ UNCHANGED <<on, pick, op, cmd>>
  BY <1>4, OthersKeepGap
<1>5. CASE UNCHANGED rvars
  BY <1>5 DEF rvars, vars, clone, GapInv, ImportInv
<1>6. QED
  BY <1>1, <1>2, <1>3, <1>4, <1>5 DEF RNext

LEMMA RInitGap == RInit => GapInv
<1> SUFFICES ASSUME RInit PROVE GapInv
  OBVIOUS
<1>1. ImportInv
  BY ImportInit DEF RInit
<1>2. \A c \in Clones : cmd[c].at = "idle"
  BY DEF RInit, NoCommand
<1>3. QED
  BY <1>1, <1>2 DEF GapInv, Placed

LEMMA GapInvariant == RSpec => [](RInv /\ LockInv /\ GapInv)
BY RInitGap, RInitLock, RInitRInv, RNextKeepsGap, RNextKeepsLock, RNextKeepsRInv, PTL DEF RSpec

(* What the source branch says it has imported stands on its line with     *)
(* all that customers committed before it.                                 *)
LEMMA LogHasNoGaps ==
    ASSUME SyncInv, ImportInv, NEW m \in Oids, VerifySelf(m, {"DestToSource"}),
           NEW o \in Unmarked(Counterpart(m), m)
    PROVE  ImportedBy(o, m)
<1>1. ObjectDatabase(odb) /\ Straight(odb, m) /\ InOrder(odb, m)
  BY DEF SyncInv, ImportInv, ImportLog, Oids
<1>2. Looped(odb, m)
  BY DEF Looped, VerifySelf
<1>3. o \in Missing(odb, Counterpart(m), m)
  BY DEF Unmarked, Missing, OnLine, Line, Trail, Anc, ToSet
<1>4. o \in Taken(odb, m)
  BY <1>1, <1>2, <1>3 DEF InOrder, Counterpart
<1>5. PICK x \in Trail(odb, m) : odb[x].marker.dir = "DestToSource" /\ odb[x].marker.counterpart = o
  BY <1>4 DEF Taken
<1>6. x \in Anc(m)
  BY <1>1, TrailInHistory DEF Oids, Anc
<1>7. QED
  BY <1>5, <1>6 DEF ImportedBy, OnLine, Line, Trail, ToSet, VerifySelf, Counterpart

(***************************************************************************)
(* A source branch that says it has imported a dest commit has imported    *)
(* every customer commit before it too, and none of them twice: through    *)
(* runs, resolutions and what operators conclude by hand, wherever each is *)
(* cut off, as long as nobody works in a checkout in the middle of a       *)
(* command.  A later run starts behind the newest import and never looks   *)
(* back (resolve.rs 1349-1361).                                            *)
(***************************************************************************)
THEOREM ImportsAreGaplessHolds == RSpec => []ImportsAreGapless
<1>1. ASSUME RInv, LockInv, GapInv PROVE ImportsAreGapless
  <2> SUFFICES ASSUME ~tries.meddled PROVE ImportsAreGapless
    BY DEF ImportsAreGapless
  <2>1. SyncInv /\ ImportInv
    BY <1>1 DEF GapInv, LockInv, RInv
  <2>2. ImportedOnce
    BY <2>1, LogImportsOnce
  <2>3. ASSUME NEW b \in ToSet(Configured),
               NEW tip \in ({src[b]} \cup {local[c][b] : c \in Clones}) \ {NoOid},
               NEW m \in {x \in Anc(tip) : OnLine(x, tip) /\ Verify(x, b, {"DestToSource"})},
               NEW o \in Unmarked(Counterpart(m), m)
        PROVE  ImportedBy(o, m)
    <3>1. b \in Branches
      BY SyncAssumption DEF ToSet
    <3>2. src[b] \in Oids \cup {NoOid}
      BY <2>1, <3>1 DEF SyncInv, Oid0, Oids, NoOid
    <3>3. ASSUME NEW c \in Clones PROVE local[c][b] \in Oids \cup {NoOid}
      BY <1>1, <3>1, DeskOf
    <3>4. tip \in Oids
      BY <3>2, <3>3
    <3>5. m \in Oids /\ VerifySelf(m, {"DestToSource"})
      BY <2>1, <3>4, CommitFacts DEF SyncInv, Verify, VerifySelf
    <3>6. QED
      BY <2>1, <3>5, LogHasNoGaps
  <2>4. QED
    BY <2>2, <2>3 DEF ImportsAreGapless
<1>2. QED
  BY <1>1, GapInvariant, PTL
=============================================================================
