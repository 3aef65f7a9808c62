--------------------------- MODULE SyncInvariants ---------------------------
(***************************************************************************)
(* Sync's first two theorems, for every value of the constants: its type   *)
(* invariant, and that nothing private ever reaches dest.                  *)
(***************************************************************************)
EXTENDS SyncProperties, GitLemmas

(***************************************************************************)
(* TypeOK is not inductive: what a run writes to a ref or a commit comes   *)
(* from its run and its job.  H is what the run's clone has and here its   *)
(* local branches: every oid a run or a job holds is of a commit its clone *)
(* has, or NoOid only where the step that reads it can deal with NoOid.    *)
(***************************************************************************)
RunRefs(here, H, p, r) ==
    /\ DOMAIN NoRun \subseteq DOMAIN r
    /\ r.names \subseteq Branches /\ r.sources \subseteq Branches
    /\ r.remaining \subseteq r.sources
    /\ \A b \in r.sources : here[b] # NoOid
    /\ r.imports \in Seq(Branches)
    /\ r.heads \in [Branches -> H \cup {NoOid}]
    /\ p \notin {"idle", "fetch_heads"} => \A b \in r.names : r.heads[b] # NoOid

Importing == {"import_build", "import_refetch", "import_advance"}
Mirroring == {"fetch_dest", "plan", "build", "push_dest"}

JobRefs(H, p, r, j) ==
    /\ DOMAIN NoJob \subseteq DOMAIN j
    /\ p \in Importing => j.branch \in r.names /\ r.imports # <<>>
    /\ p \in Mirroring => j.branch \in Branches /\ j.tip \in H
    /\ p \in Mirroring \ {"fetch_dest"} => j.seen \in H \cup {NoOid}
    /\ p \in {"import_build", "import_advance", "build", "push_dest"} => j.chain \in H
    /\ p \in {"import_build", "build"} => j.pending \in Seq(H)
    /\ p = "build" => {j.boundary, j.shared} \subseteq H \cup {NoOid}

CloneInv(db, here, H, p, r, j) ==
    /\ Closed(db, H)
    /\ here \in [Branches -> H \cup {NoOid}]
    /\ RunRefs(here, H, p, r)
    /\ JobRefs(H, p, r, j)

(* One entry per clone. *)
Table(f) == f = [c \in Clones |-> f[c]]

SyncInv ==
    /\ ObjectDatabase(odb)
    /\ src \in [Branches -> Oid0] /\ dst \in [Branches -> Oid0]
    /\ local \in [Clones -> [Branches -> Nat]] /\ have \in [Clones -> SUBSET Nat]
    /\ Table(pc) /\ Table(run) /\ Table(job)
    /\ \A c \in Clones : CloneInv(odb, local[c], have[c], pc[c], run[c], job[c])

LEMMA SyncInvTypeOK == SyncInv => TypeOK
<1> SUFFICES ASSUME SyncInv PROVE TypeOK
  OBVIOUS
<1>1. \A o \in Oids : CommitType(o)
  <2> SUFFICES ASSUME NEW o \in Oids PROVE CommitType(o)
    OBVIOUS
  <2>1. WellFormed(odb, o)
    BY DEF SyncInv, ObjectDatabase, Oids
  <2>2. QED
    BY <2>1 DEF WellFormed, CommitType, Markers
<1>2. ASSUME NEW c \in Clones
      PROVE  /\ have[c] \subseteq Oids
             /\ \A o \in have[c] : Anc(o) \subseteq have[c]
             /\ local[c] \in [Branches -> have[c] \cup {NoOid}]
             /\ have[c] \cup {NoOid} \subseteq Oid0
  <2>1. CloneInv(odb, local[c], have[c], pc[c], run[c], job[c]) /\ Len(odb) \in Nat
    BY DEF SyncInv, ObjectDatabase
  <2>2. QED
    BY <2>1 DEF CloneInv, Closed, Anc, Oids, Oid0, NoOid
<1>3. local \in [Clones -> [Branches -> Oid0]]
  BY <1>2 DEF SyncInv
<1>4. have \in [Clones -> SUBSET Oids]
  BY <1>2 DEF SyncInv
<1>5. QED
  BY <1>1, <1>2, <1>3, <1>4 DEF TypeOK, SyncInv

(***************************************************************************)
(* What a step keeps of a clone it does not touch, or to which it only     *)
(* adds commits and branches.                                              *)
(***************************************************************************)
LEMMA CloneKept ==
    ASSUME NEW db, NEW here, NEW H, NEW p, NEW r, NEW j, CloneInv(db, here, H, p, r, j),
           NEW larger, NEW there, NEW G, H \subseteq G, Closed(larger, G),
           there \in [Branches -> G \cup {NoOid}],
           \A b \in Branches : here[b] # NoOid => there[b] # NoOid
    PROVE  CloneInv(larger, there, G, p, r, j)
<1>1. RunRefs(there, G, p, r)
  <2>1. r.heads \in [Branches -> G \cup {NoOid}]
    BY DEF CloneInv, RunRefs
  <2>2. \A b \in r.sources : there[b] # NoOid
    BY DEF CloneInv, RunRefs
  <2>3. QED
    BY <2>1, <2>2 DEF CloneInv, RunRefs
<1>2. JobRefs(G, p, r, j)
  <2>1. \A s : s \in Seq(H) => s \in Seq(G)
    BY SeqMonotonic
  <2>2. QED
    BY <2>1 DEF CloneInv, JobRefs
<1>3. QED
  BY <1>1, <1>2 DEF CloneInv

LEMMA IdleClone ==
    ASSUME NEW db, NEW here, NEW H, Closed(db, H), here \in [Branches -> H \cup {NoOid}]
    PROVE  CloneInv(db, here, H, "idle", NoRun, NoJob)
<1>1. RunRefs(here, H, "idle", NoRun)
  BY DEF RunRefs, NoRun
<1>2. JobRefs(H, "idle", NoRun, NoJob)
  BY DEF JobRefs, Importing, Mirroring
<1>3. QED
  BY <1>1, <1>2 DEF CloneInv

(* A step of clone c: the other clones keep what they have. *)
LEMMA CloneStep ==
    ASSUME SyncInv, NEW c \in Clones,
           ObjectDatabase(odb'), Extends(odb, odb'),
           src' \in [Branches -> Oid0'], dst' \in [Branches -> Oid0'],
           local' = [local EXCEPT ![c] = local'[c]], have' = [have EXCEPT ![c] = have'[c]],
           pc' = [pc EXCEPT ![c] = pc'[c]], run' = [run EXCEPT ![c] = run'[c]],
           job' = [job EXCEPT ![c] = job'[c]],
           CloneInv(odb', local'[c], have'[c], pc'[c], run'[c], job'[c])
    PROVE  SyncInv'
<1>1. ASSUME NEW d \in Clones
      PROVE  CloneInv(odb', local'[d], have'[d], pc'[d], run'[d], job'[d])
  <2>1. CASE d = c
    BY <2>1
  <2>2. CASE d # c
    <3>1. /\ local'[d] = local[d] /\ have'[d] = have[d] /\ pc'[d] = pc[d]
          /\ run'[d] = run[d] /\ job'[d] = job[d]
      BY <2>2 DEF SyncInv, Table
    <3>2. CloneInv(odb, local[d], have[d], pc[d], run[d], job[d])
      BY DEF SyncInv
    <3>3. Closed(odb', have[d])
      <4>1. Len(odb) \in Nat /\ Len(odb') \in Nat
        BY DEF SyncInv, ObjectDatabase
      <4>2. Closed(odb, have[d])
        BY <3>2 DEF CloneInv
      <4>3. QED
        BY <4>1, <4>2, ClosedExtends
    <3>4. local[d] \in [Branches -> have[d] \cup {NoOid}]
      BY <3>2 DEF CloneInv
    <3>5. QED
      BY <3>1, <3>2, <3>3, <3>4, CloneKept
  <2>3. QED
    BY <2>1, <2>2
<1>2. local'[c] \in [Branches -> Nat] /\ have'[c] \in SUBSET Nat
  <2>1. have'[c] \cup {NoOid} \subseteq Nat
    BY DEF CloneInv, Closed, ObjectDatabase, NoOid
  <2>2. QED
    BY <2>1 DEF CloneInv
<1>3. local' \in [Clones -> [Branches -> Nat]] /\ have' \in [Clones -> SUBSET Nat]
  BY <1>2 DEF SyncInv
<1>4. Table(pc') /\ Table(run') /\ Table(job')
  BY DEF SyncInv, Table
<1>5. QED
  BY <1>1, <1>3, <1>4 DEF SyncInv

(* A step that writes no commit and moves no remote ref. *)
LEMMA RunStep ==
    ASSUME SyncInv, NEW c \in Clones, odb' = odb,
           src' \in [Branches -> Oid0], dst' \in [Branches -> Oid0],
           local' = [local EXCEPT ![c] = local'[c]], have' = [have EXCEPT ![c] = have'[c]],
           pc' = [pc EXCEPT ![c] = pc'[c]], run' = [run EXCEPT ![c] = run'[c]],
           job' = [job EXCEPT ![c] = job'[c]],
           CloneInv(odb, local'[c], have'[c], pc'[c], run'[c], job'[c])
    PROVE  SyncInv'
<1>1. ObjectDatabase(odb') /\ Extends(odb, odb') /\ Oid0' = Oid0
  BY DEF SyncInv, ObjectDatabase, Extends, Oid0
<1>2. CloneInv(odb', local'[c], have'[c], pc'[c], run'[c], job'[c])
  OBVIOUS
<1>3. QED
  BY <1>1, <1>2, CloneStep

(* An aborted run leaves nothing behind. *)
LEMMA AbortStep ==
    ASSUME SyncInv, NEW c \in Clones, NEW why, Abort(c, why),
           odb' = odb, src' \in [Branches -> Oid0], dst' \in [Branches -> Oid0],
           local' = [local EXCEPT ![c] = local'[c]], have' = [have EXCEPT ![c] = have'[c]],
           Closed(odb, have'[c]), local'[c] \in [Branches -> have'[c] \cup {NoOid}]
    PROVE  SyncInv'
<1>1. /\ pc' = [pc EXCEPT ![c] = "idle"] /\ run' = [run EXCEPT ![c] = NoRun]
      /\ job' = [job EXCEPT ![c] = NoJob]
  BY DEF Abort
<1>2. pc'[c] = "idle" /\ run'[c] = NoRun /\ job'[c] = NoJob
  BY <1>1 DEF SyncInv, Table
<1>3. CloneInv(odb, local'[c], have'[c], pc'[c], run'[c], job'[c])
  BY <1>2, IdleClone
<1>4. QED
  BY <1>1, <1>2, <1>3, RunStep

(* A branch's turn that ends leaves only the halted branches behind. *)
LEMMA NextBranchStep ==
    ASSUME SyncInv, NEW c \in Clones, NEW halts, NextBranch(c, halts), pc[c] # "idle",
           pc[c] # "fetch_heads",
           odb' = odb, src' \in [Branches -> Oid0], dst' \in [Branches -> Oid0],
           local' = local, have' = have
    PROVE  SyncInv'
<1>1. /\ pc' = [pc EXCEPT ![c] = "select"] /\ job' = [job EXCEPT ![c] = NoJob]
      /\ run' = [run EXCEPT ![c] = [run[c] EXCEPT !.halted = run[c].halted \cup halts]]
  BY DEF NextBranch
<1>2. /\ pc'[c] = "select" /\ job'[c] = NoJob
      /\ run'[c] = [run[c] EXCEPT !.halted = run[c].halted \cup halts]
  BY <1>1 DEF SyncInv, Table
<1>3. CloneInv(odb, local[c], have[c], pc[c], run[c], job[c])
  BY DEF SyncInv
<1>4. RunRefs(local[c], have[c], "select", run'[c])
  BY <1>2, <1>3 DEF CloneInv, RunRefs
<1>5. JobRefs(have[c], "select", run'[c], NoJob)
  BY DEF JobRefs, Importing, Mirroring
<1>6. CloneInv(odb, local'[c], have'[c], pc'[c], run'[c], job'[c])
  BY <1>2, <1>3, <1>4, <1>5 DEF CloneInv
<1>7. local' = [local EXCEPT ![c] = local'[c]] /\ have' = [have EXCEPT ![c] = have'[c]]
  BY DEF SyncInv
<1>8. QED
  BY <1>1, <1>2, <1>6, <1>7, RunStep

(* An import that ends leaves one branch less to import. *)
LEMMA NextImportStep ==
    ASSUME SyncInv, NEW c \in Clones, NEW halts, NextImport(c, halts), pc[c] # "idle",
           pc[c] # "fetch_heads", run[c].imports # <<>>,
           odb' = odb, src' \in [Branches -> Oid0], dst' \in [Branches -> Oid0],
           local' = [local EXCEPT ![c] = local'[c]], have' = have,
           local'[c] \in [Branches -> have[c] \cup {NoOid}],
           \A b \in Branches : local[c][b] # NoOid => local'[c][b] # NoOid
    PROVE  SyncInv'
<1>1. /\ pc' = [pc EXCEPT ![c] = "import"] /\ job' = [job EXCEPT ![c] = NoJob]
      /\ run' = [run EXCEPT ![c] = [run[c] EXCEPT !.imports = Tail(run[c].imports),
                                                  !.halted = run[c].halted \cup halts]]
  BY DEF NextImport
<1>2. /\ pc'[c] = "import" /\ job'[c] = NoJob
      /\ run'[c] = [run[c] EXCEPT !.imports = Tail(run[c].imports),
                                  !.halted = run[c].halted \cup halts]
  BY <1>1 DEF SyncInv, Table
<1>3. CloneInv(odb, local[c], have[c], pc[c], run[c], job[c])
  BY DEF SyncInv
<1>4. RunRefs(local'[c], have[c], "import", run'[c])
  <2>1. Tail(run[c].imports) \in Seq(Branches)
    BY <1>3 DEF CloneInv, RunRefs
  <2>2. /\ run'[c].imports = Tail(run[c].imports)
        /\ run'[c].names = run[c].names /\ run'[c].sources = run[c].sources
        /\ run'[c].remaining = run[c].remaining /\ run'[c].heads = run[c].heads
        /\ DOMAIN run'[c] = DOMAIN run[c]
    BY <1>2, <1>3 DEF CloneInv, RunRefs, NoRun
  <2>3. QED
    BY <1>3, <2>1, <2>2 DEF CloneInv, RunRefs
<1>5. JobRefs(have[c], "import", run'[c], NoJob)
  BY DEF JobRefs, Importing, Mirroring
<1>6. CloneInv(odb, local'[c], have'[c], pc'[c], run'[c], job'[c])
  BY <1>2, <1>3, <1>4, <1>5 DEF CloneInv
<1>7. have' = [have EXCEPT ![c] = have'[c]]
  BY DEF SyncInv
<1>8. QED
  BY <1>1, <1>2, <1>6, <1>7, RunStep

LEMMA Untouched ==
    ASSUME SyncInv, NEW c \in Clones
    PROVE  /\ local = [local EXCEPT ![c] = local[c]] /\ have = [have EXCEPT ![c] = have[c]]
           /\ pc = [pc EXCEPT ![c] = pc[c]] /\ job = [job EXCEPT ![c] = job[c]]
           /\ run = [run EXCEPT ![c] = run[c]]
           /\ CloneInv(odb, local[c], have[c], pc[c], run[c], job[c])
           /\ Closed(odb, have[c]) /\ local[c] \in [Branches -> have[c] \cup {NoOid}]
           /\ have[c] \subseteq Oids
<1>1. pc = [pc EXCEPT ![c] = pc[c]] /\ job = [job EXCEPT ![c] = job[c]]
      /\ run = [run EXCEPT ![c] = run[c]]
  BY DEF SyncInv, Table
<1>2. CloneInv(odb, local[c], have[c], pc[c], run[c], job[c])
  BY DEF SyncInv
<1>3. Closed(odb, have[c]) /\ local[c] \in [Branches -> have[c] \cup {NoOid}]
      /\ have[c] \subseteq Oids
  BY <1>2 DEF CloneInv, Closed, Oids
<1>4. QED
  BY <1>1, <1>2, <1>3 DEF SyncInv

(***************************************************************************)
(* The steps of a run, up to the imports.                                  *)
(***************************************************************************)
LEMMA StartRunStep == ASSUME SyncInv, NEW c \in Clones, StartRun(c) PROVE SyncInv'
<1>1. PICK recreate \in SUBSET {b \in Recreatable : local[c][b] # NoOid} :
        run' = [run EXCEPT ![c] =
                  [NoRun EXCEPT !.names = {b \in Branches : dst[b] # NoOid},
                                !.sources = {b \in Branches : local[c][b] # NoOid},
                                !.recreate = recreate, !.imports = Configured]]
  BY DEF StartRun
<1>2. /\ pc' = [pc EXCEPT ![c] = "fetch_heads"] /\ odb' = odb /\ src' = src /\ dst' = dst
      /\ local' = local /\ have' = have /\ job' = job
  BY DEF StartRun, remotes, clone
<1>3. /\ run'[c].names = {b \in Branches : dst[b] # NoOid}
      /\ run'[c].sources = {b \in Branches : local[c][b] # NoOid}
      /\ run'[c].imports = Configured /\ run'[c].remaining = {}
      /\ run'[c].heads = [b \in Branches |-> NoOid] /\ DOMAIN NoRun \subseteq DOMAIN run'[c]
  BY <1>1 DEF SyncInv, Table, NoRun
<1>4. RunRefs(local[c], have[c], "fetch_heads", run'[c])
  BY <1>3, SyncAssumption DEF RunRefs
<1>5. JobRefs(have[c], "fetch_heads", run'[c], job[c])
  BY Untouched DEF CloneInv, JobRefs, Importing, Mirroring
<1>6. pc'[c] = "fetch_heads" /\ pc' = [pc EXCEPT ![c] = pc'[c]] /\ run' = [run EXCEPT ![c] = run'[c]]
  BY <1>1, <1>2 DEF SyncInv, Table
<1>7. CloneInv(odb, local'[c], have'[c], pc'[c], run'[c], job'[c])
  BY <1>2, <1>4, <1>5, <1>6, Untouched DEF CloneInv
<1>8. src' \in [Branches -> Oid0] /\ dst' \in [Branches -> Oid0]
  BY <1>2 DEF SyncInv
<1>9. QED
  BY <1>2, <1>6, <1>7, <1>8, Untouched, RunStep

(* After a fetch a clone still has whole histories. *)
LEMMA AfterFetch ==
    ASSUME SyncInv, NEW c \in Clones, NEW tips \in SUBSET Oids,
           have' = [have EXCEPT ![c] = have[c] \cup Fetched(tips)]
    PROVE  /\ have'[c] = have[c] \cup Fetched(tips) /\ have' = [have EXCEPT ![c] = have'[c]]
           /\ Closed(odb, have'[c]) /\ have[c] \subseteq have'[c] /\ tips \subseteq have'[c]
           /\ local[c] \in [Branches -> have'[c] \cup {NoOid}]
<1>1. have'[c] = have[c] \cup Fetched(tips) /\ have' = [have EXCEPT ![c] = have'[c]]
  BY DEF SyncInv
<1>2. Closed(odb, have'[c]) /\ tips \subseteq have'[c]
  BY <1>1, Untouched, FetchedClosed DEF Fetched, SyncInv
<1>3. QED
  BY <1>1, <1>2, Untouched

LEMMA FetchHeadsStep == ASSUME SyncInv, NEW c \in Clones, FetchHeads(c) PROVE SyncInv'
<1>1. /\ odb' = odb /\ src' = src /\ dst' = dst /\ local' = local /\ pc[c] = "fetch_heads"
      /\ local' = [local EXCEPT ![c] = local'[c]]
  BY Untouched DEF FetchHeads, remotes
<1>2. src' \in [Branches -> Oid0] /\ dst' \in [Branches -> Oid0]
  BY <1>1 DEF SyncInv
<1>3. CASE Abort(c, "fetch") /\ UNCHANGED have
  BY <1>1, <1>2, <1>3, Untouched, AbortStep
<1>4. CASE ~ (\E b \in run[c].names : dst[b] = NoOid)
  <2> DEFINE tips == {dst[b] : b \in run[c].names}
             heads == [b \in Branches |-> IF b \in run[c].names THEN dst[b] ELSE NoOid]
  <2>1. /\ run' = [run EXCEPT ![c] = [run[c] EXCEPT !.heads = heads]]
        /\ have' = [have EXCEPT ![c] = have[c] \cup Fetched(tips)]
        /\ pc' = [pc EXCEPT ![c] = "import"] /\ job' = job
    BY <1>4 DEF FetchHeads
  <2>2. tips \in SUBSET Oids
    <3>1. run[c].names \subseteq Branches
      BY Untouched DEF CloneInv, RunRefs
    <3>2. QED
      BY <3>1, <1>4 DEF SyncInv, Oid0, Oids, NoOid, ObjectDatabase
  <2>3. /\ have' = [have EXCEPT ![c] = have'[c]] /\ Closed(odb, have'[c])
        /\ have[c] \subseteq have'[c] /\ tips \subseteq have'[c]
        /\ local[c] \in [Branches -> have'[c] \cup {NoOid}]
    <3> HIDE DEF tips
    <3>1. QED
      BY <2>1, <2>2, AfterFetch
  <2>4. CloneInv(odb, local[c], have'[c], pc[c], run[c], job[c])
    BY <2>3, Untouched, CloneKept
  <2>5. /\ run'[c].heads = heads
        /\ run'[c].names = run[c].names /\ run'[c].sources = run[c].sources
        /\ run'[c].remaining = run[c].remaining /\ run'[c].imports = run[c].imports
        /\ DOMAIN run'[c] = DOMAIN run[c]
    BY <2>1, <2>4 DEF CloneInv, RunRefs, NoRun, SyncInv, Table
  <2>6. heads \in [Branches -> have'[c] \cup {NoOid}]
    BY <2>3
  <2>7. \A b \in run[c].names : heads[b] # NoOid
    BY <1>4, <2>4 DEF CloneInv, RunRefs
  <2> HIDE DEF heads
  <2>8. RunRefs(local[c], have'[c], "import", run'[c])
    BY <2>4, <2>5, <2>6, <2>7 DEF CloneInv, RunRefs
  <2>9. JobRefs(have'[c], "import", run'[c], job[c])
    BY <2>4 DEF CloneInv, JobRefs, Importing, Mirroring
  <2>10. /\ pc'[c] = "import" /\ job'[c] = job[c] /\ local'[c] = local[c]
         /\ pc' = [pc EXCEPT ![c] = pc'[c]] /\ run' = [run EXCEPT ![c] = run'[c]]
         /\ job' = [job EXCEPT ![c] = job'[c]]
    BY <1>1, <2>1, Untouched DEF SyncInv, Table
  <2>11. CloneInv(odb, local'[c], have'[c], pc'[c], run'[c], job'[c])
    BY <2>3, <2>8, <2>9, <2>10 DEF CloneInv
  <2>12. QED
    BY <1>1, <1>2, <2>3, <2>10, <2>11, RunStep
<1>5. QED
  BY <1>3, <1>4 DEF FetchHeads

LEMMA SkipImportStep == ASSUME SyncInv, NEW c \in Clones, SkipImport(c) PROVE SyncInv'
<1>1. /\ odb' = odb /\ src' = src /\ dst' = dst /\ local' = local /\ have' = have
      /\ pc[c] = "import" /\ run[c].imports # <<>> /\ \E halts : NextImport(c, halts)
  BY DEF SkipImport, remotes, clone
<1>2. src' \in [Branches -> Oid0] /\ dst' \in [Branches -> Oid0]
  BY <1>1 DEF SyncInv
<1>3. QED
  BY <1>1, <1>2, Untouched, NextImportStep

LEMMA PrepareImportStep ==
    ASSUME SyncInv, NEW c \in Clones, NEW b, NEW tip, NEW attempt,
           b \in run[c].names, run[c].imports # <<>>, pc[c] # "idle", pc[c] # "fetch_heads",
           odb' = odb, src' \in [Branches -> Oid0], dst' \in [Branches -> Oid0],
           local' = [local EXCEPT ![c] = local'[c]], have' = [have EXCEPT ![c] = have'[c]],
           have[c] \subseteq have'[c], Closed(odb, have'[c]), tip \in have'[c],
           local'[c] \in [Branches -> have'[c] \cup {NoOid}],
           \A x \in Branches : local[c][x] # NoOid => local'[c][x] # NoOid,
           PrepareImport(c, b, tip, attempt)
    PROVE  SyncInv'
<1> DEFINE head == run[c].heads[b]
<1>1. CASE Abort(c, "boundary")
  BY <1>1, AbortStep
<1>2. CASE ~ Abort(c, "boundary")
  <2>1. PICK boundary :
          /\ job' = [job EXCEPT ![c] =
                [NoJob EXCEPT !.branch = b, !.attempt = attempt, !.tip = tip,
                              !.seen = head, !.boundary = boundary, !.chain = tip,
                              !.pending = PendingCommits(boundary, head)]]
          /\ pc' = [pc EXCEPT ![c] = "import_build"] /\ run' = run
    BY <1>2 DEF PrepareImport
  <2>2. CloneInv(odb, local'[c], have'[c], pc[c], run[c], job[c])
    BY Untouched, CloneKept
  <2>3. head \in have'[c] /\ head \in Oids
    <3>1. head # NoOid /\ head \in have[c] \cup {NoOid}
      BY Untouched DEF CloneInv, RunRefs
    <3>2. QED
      BY <3>1, Untouched
  <2>4. PendingCommits(boundary, head) \in Seq(have'[c])
    <3>1. PendingCommits(boundary, head) \in Seq(Anc(head))
      BY <2>3, PendingCommitsOfTip DEF SyncInv
    <3>2. Anc(head) \subseteq have'[c]
      BY <2>3 DEF Closed, Anc
    <3>3. QED
      BY <3>1, <3>2, SeqMonotonic
  <2>5. /\ pc'[c] = "import_build" /\ run'[c] = run[c] /\ job'[c].branch = b
        /\ job'[c].chain = tip /\ job'[c].pending = PendingCommits(boundary, head)
        /\ DOMAIN job'[c] = DOMAIN NoJob
        /\ pc' = [pc EXCEPT ![c] = pc'[c]] /\ run' = [run EXCEPT ![c] = run'[c]]
        /\ job' = [job EXCEPT ![c] = job'[c]]
    BY <2>1, Untouched DEF SyncInv, Table, NoJob
  <2>6. RunRefs(local'[c], have'[c], "import_build", run[c])
    BY <2>2 DEF CloneInv, RunRefs
  <2>7. JobRefs(have'[c], "import_build", run[c], job'[c])
    BY <2>4, <2>5 DEF JobRefs, Importing, Mirroring
  <2>8. CloneInv(odb, local'[c], have'[c], pc'[c], run'[c], job'[c])
    BY <2>5, <2>6, <2>7 DEF CloneInv
  <2>9. QED
    BY <2>5, <2>8, RunStep
<1>3. QED
  BY <1>1, <1>2

LEMMA BeginImportStep == ASSUME SyncInv, NEW c \in Clones, BeginImport(c) PROVE SyncInv'
<1> DEFINE b == Head(run[c].imports)
           tip == IF local[c][b] # NoOid THEN local[c][b] ELSE src[b]
<1>1. /\ odb' = odb /\ src' = src /\ dst' = dst
      /\ pc[c] = "import" /\ run[c].imports # <<>> /\ b \in run[c].names
  BY DEF BeginImport, remotes
<1>2. src' \in [Branches -> Oid0] /\ dst' \in [Branches -> Oid0]
  BY <1>1 DEF SyncInv
<1>3. b \in Branches
  BY <1>1, Untouched DEF CloneInv, RunRefs
<1>4. CASE Abort(c, "fetch") /\ UNCHANGED clone
  <2>1. local' = local /\ have' = have
    BY <1>4 DEF clone
  <2>2. QED
    BY <1>1, <1>2, <1>4, <2>1, Untouched, AbortStep
<1>5. CASE tip # NoOid
  <2>1. /\ local' = [local EXCEPT ![c] = [local[c] EXCEPT ![b] = tip]]
        /\ have' = [have EXCEPT ![c] = have[c] \cup Fetched({tip})]
        /\ PrepareImport(c, b, tip, 0)
    BY <1>5 DEF BeginImport
  <2>2. {tip} \in SUBSET Oids
    <3>1. local[c][b] \in Oid0 /\ src[b] \in Oid0
      BY <1>3, Untouched DEF SyncInv, Oids, Oid0, NoOid
    <3>2. QED
      BY <1>5, <3>1 DEF Oids, Oid0, NoOid, SyncInv, ObjectDatabase
  <2>3. /\ have' = [have EXCEPT ![c] = have'[c]] /\ Closed(odb, have'[c])
        /\ have[c] \subseteq have'[c] /\ tip \in have'[c]
        /\ local[c] \in [Branches -> have'[c] \cup {NoOid}]
    <3> DEFINE tips == {tip}
    <3>1. tips \in SUBSET Oids /\ have' = [have EXCEPT ![c] = have[c] \cup Fetched(tips)]
      BY <2>1, <2>2
    <3>2. tip \in tips
      OBVIOUS
    <3> HIDE DEF tips, tip, b
    <3>3. QED
      BY <3>1, <3>2, AfterFetch
  <2>4. local'[c] = [local[c] EXCEPT ![b] = tip] /\ local' = [local EXCEPT ![c] = local'[c]]
    BY <2>1 DEF SyncInv
  <2> HIDE DEF tip, b
  <2>5. /\ local'[c] \in [Branches -> have'[c] \cup {NoOid}]
        /\ \A x \in Branches : local[c][x] # NoOid => local'[c][x] # NoOid
    BY <1>5, <2>3, <2>4
  <2>6. QED
    BY <1>1, <1>2, <2>1, <2>3, <2>4, <2>5, PrepareImportStep
<1>6. QED
  BY <1>4, <1>5 DEF BeginImport

LEMMA RefetchSourceStep == ASSUME SyncInv, NEW c \in Clones, RefetchSource(c) PROVE SyncInv'
<1> DEFINE b == job[c].branch
<1>1. /\ odb' = odb /\ src' = src /\ dst' = dst /\ local' = local
      /\ pc[c] = "import_refetch" /\ local' = [local EXCEPT ![c] = local'[c]]
  BY Untouched DEF RefetchSource, remotes
<1>2. src' \in [Branches -> Oid0] /\ dst' \in [Branches -> Oid0]
  BY <1>1 DEF SyncInv
<1>3. b \in run[c].names /\ b \in Branches /\ run[c].imports # <<>>
  BY <1>1, Untouched DEF CloneInv, RunRefs, JobRefs, Importing
<1>4. CASE Abort(c, "fetch") /\ UNCHANGED have
  BY <1>1, <1>2, <1>4, Untouched, AbortStep
<1>5. CASE src[b] # NoOid
  <2>1. /\ have' = [have EXCEPT ![c] = have[c] \cup Fetched({src[b]})]
        /\ PrepareImport(c, b, src[b], job[c].attempt)
    BY <1>5 DEF RefetchSource
  <2>2. {src[b]} \in SUBSET Oids
    BY <1>3, <1>5 DEF SyncInv, Oid0, Oids, NoOid, ObjectDatabase
  <2>3. /\ have' = [have EXCEPT ![c] = have'[c]] /\ Closed(odb, have'[c])
        /\ have[c] \subseteq have'[c] /\ src[b] \in have'[c]
        /\ local[c] \in [Branches -> have'[c] \cup {NoOid}]
    <3> DEFINE tips == {src[b]}
    <3>1. tips \in SUBSET Oids /\ have' = [have EXCEPT ![c] = have[c] \cup Fetched(tips)]
      BY <2>1, <2>2
    <3>2. src[b] \in tips
      OBVIOUS
    <3> HIDE DEF tips
    <3>3. QED
      BY <3>1, <3>2, AfterFetch
  <2>4. QED
    BY <1>1, <1>2, <1>3, <2>1, <2>3, PrepareImportStep
<1>6. QED
  BY <1>4, <1>5 DEF RefetchSource

(* A step that only rewrites c's job, and perhaps where c is. *)
LEMMA JobStep ==
    ASSUME SyncInv, NEW c \in Clones,
           odb' = odb, src' \in [Branches -> Oid0], dst' \in [Branches -> Oid0],
           local' = local, have' = have, run' = run,
           pc' = [pc EXCEPT ![c] = pc'[c]], job' = [job EXCEPT ![c] = job'[c]],
           pc[c] \notin {"idle", "fetch_heads"},
           JobRefs(have[c], pc'[c], run[c], job'[c])
    PROVE  SyncInv'
<1>1. RunRefs(local[c], have[c], pc'[c], run[c])
  BY Untouched DEF CloneInv, RunRefs
<1>2. CloneInv(odb, local'[c], have'[c], pc'[c], run'[c], job'[c])
  BY <1>1, Untouched DEF CloneInv
<1>3. QED
  BY <1>2, Untouched, RunStep

(* A step that adds to c's object database the one commit it wrote. *)
LEMMA WriteStep ==
    ASSUME SyncInv, NEW c \in Clones, NEW parents \in Seq(have[c]), NEW tree \in Trees,
           NEW marker \in Markers(have[c] \cup {NoOid}), Write(parents, tree, marker),
           src' = src, dst' = dst, have' = [have EXCEPT ![c] = have[c] \cup {NextOid}],
           local' = [local EXCEPT ![c] = local'[c]],
           local'[c] \in [Branches -> have'[c] \cup {NoOid}],
           \A x \in Branches : local[c][x] # NoOid => local'[c][x] # NoOid,
           run' = run, pc' = [pc EXCEPT ![c] = pc'[c]], job' = [job EXCEPT ![c] = job'[c]],
           pc[c] \in {"idle", "fetch_heads"} => pc'[c] = pc[c],
           JobRefs(have'[c], pc'[c], run[c], job'[c])
    PROVE  SyncInv'
<1>1. /\ ObjectDatabase(odb') /\ Extends(odb, odb') /\ Len(odb') = NextOid
      /\ Closed(odb', have[c] \cup {NextOid})
  BY Untouched, WriteKeepsClosed DEF SyncInv
<1>2. have'[c] = have[c] \cup {NextOid} /\ have' = [have EXCEPT ![c] = have'[c]]
  BY DEF SyncInv
<1>3. CloneInv(odb', local'[c], have'[c], pc[c], run[c], job[c])
  <2>1. have[c] \subseteq have'[c] /\ Closed(odb', have'[c])
    BY <1>1, <1>2
  <2>2. CloneInv(odb, local[c], have[c], pc[c], run[c], job[c])
    BY Untouched
  <2>3. QED
    BY <2>1, <2>2, CloneKept
<1>4. RunRefs(local'[c], have'[c], pc'[c], run[c])
  BY <1>3 DEF CloneInv, RunRefs
<1>5. CloneInv(odb', local'[c], have'[c], pc'[c], run'[c], job'[c])
  BY <1>3, <1>4 DEF CloneInv
<1>6. src' \in [Branches -> Oid0'] /\ dst' \in [Branches -> Oid0']
  <2>1. Oid0 \subseteq Oid0'
    BY <1>1 DEF Oid0, Extends, ObjectDatabase, SyncInv
  <2>2. QED
    BY <2>1 DEF SyncInv
<1>7. QED
  BY <1>1, <1>2, <1>5, <1>6, Untouched, CloneStep

LEMMA ReplayToSourceStep == ASSUME SyncInv, NEW c \in Clones, ReplayToSource(c) PROVE SyncInv'
<1> DEFINE o == Head(job[c].pending)
           b == job[c].branch
           base == TreeOf(FirstParent(o))
           ours == TreeOf(job[c].chain)
           theirs == TreeOf(o)
<1>1. /\ src' = src /\ dst' = dst /\ local' = local /\ run' = run /\ pc' = pc
      /\ pc[c] = "import_build" /\ job[c].pending # <<>> /\ pc' = [pc EXCEPT ![c] = pc'[c]]
      /\ local' = [local EXCEPT ![c] = local'[c]]
  BY Untouched DEF ReplayToSource, remotes
<1>2. src' \in [Branches -> Oid0] /\ dst' \in [Branches -> Oid0]
  BY <1>1 DEF SyncInv
<1>3. /\ JobRefs(have[c], "import_build", run[c], job[c])
      /\ job[c].pending \in Seq(have[c]) /\ job[c].chain \in have[c]
      /\ b \in run[c].names /\ b \in Branches /\ DOMAIN NoJob \subseteq DOMAIN job[c]
  BY <1>1, Untouched DEF CloneInv, RunRefs, JobRefs, Importing
<1>4. o \in have[c] /\ Tail(job[c].pending) \in Seq(have[c])
  BY <1>1, <1>3, HeadTailProperties
<1>5. CASE job' = [job EXCEPT ![c] = [job[c] EXCEPT !.pending = Tail(job[c].pending)]]
           /\ UNCHANGED <<odb, have>>
  <2>1. /\ job'[c].pending = Tail(job[c].pending) /\ job'[c].branch = b
        /\ job'[c].chain = job[c].chain /\ DOMAIN job'[c] = DOMAIN job[c]
        /\ job' = [job EXCEPT ![c] = job'[c]]
    BY <1>5, <1>3 DEF NoJob, SyncInv, Table
  <2>2. JobRefs(have[c], "import_build", run[c], job'[c])
    BY <1>3, <1>4, <2>1 DEF JobRefs, Importing, Mirroring
  <2>3. QED
    BY <1>1, <1>2, <1>5, <2>1, <2>2, JobStep
<1>6. CASE job' = [job EXCEPT ![c] = [job[c] EXCEPT !.pending = <<>>, !.conflict = o]]
           /\ UNCHANGED <<odb, have>>
  <2>1. /\ job'[c].pending = <<>> /\ job'[c].branch = b
        /\ job'[c].chain = job[c].chain /\ DOMAIN job'[c] = DOMAIN job[c]
        /\ job' = [job EXCEPT ![c] = job'[c]]
    BY <1>6, <1>3 DEF NoJob, SyncInv, Table
  <2>2. JobRefs(have[c], "import_build", run[c], job'[c])
    BY <1>3, <2>1 DEF JobRefs, Importing, Mirroring
  <2>3. QED
    BY <1>1, <1>2, <1>6, <2>1, <2>2, JobStep
<1>7. CASE /\ Write(<<job[c].chain>>, MergeTree(base, ours, theirs), Marker("DestToSource", b, o))
           /\ have' = [have EXCEPT ![c] = have[c] \cup {NextOid}]
           /\ job' = [job EXCEPT ![c] = [job[c] EXCEPT !.pending = Tail(job[c].pending),
                                                       !.chain = NextOid]]
  <2>1. MergeTree(base, ours, theirs) \in Trees
    <3>1. o \in Oids /\ job[c].chain \in Oids /\ FirstParent(o) \in Oids \cup {NoOid}
      BY <1>3, <1>4, Untouched, CommitFacts DEF SyncInv
    <3>2. base \in Trees /\ ours \in Trees /\ theirs \in Trees
      BY <3>1, TreeOfType DEF SyncInv
    <3>3. QED
      BY <3>2, TreesClosed
  <2>2. Marker("DestToSource", b, o) \in Markers(have[c] \cup {NoOid})
    BY <1>3, <1>4 DEF Marker, Markers, Directions
  <2>3. <<job[c].chain>> \in Seq(have[c])
    BY <1>3, SingletonSeq
  <2>4. have'[c] = have[c] \cup {NextOid}
    BY <1>7 DEF SyncInv
  <2>5. /\ job'[c].pending = Tail(job[c].pending) /\ job'[c].branch = b
        /\ job'[c].chain = NextOid /\ DOMAIN job'[c] = DOMAIN job[c]
        /\ job' = [job EXCEPT ![c] = job'[c]]
    BY <1>7, <1>3 DEF NoJob, SyncInv, Table
  <2>6. Tail(job[c].pending) \in Seq(have'[c])
    BY <1>4, <2>4, SeqMonotonic
  <2>7. JobRefs(have'[c], "import_build", run[c], job'[c])
    BY <1>3, <2>4, <2>5, <2>6 DEF JobRefs, Importing, Mirroring
  <2>8. local'[c] \in [Branches -> have'[c] \cup {NoOid}]
    BY <1>1, <2>4, Untouched
  <2>9. QED
    BY <1>1, <1>7, <2>1, <2>2, <2>3, <2>5, <2>7, <2>8, WriteStep
<1>8. QED
  BY <1>5, <1>6, <1>7 DEF ReplayToSource

LEMMA NothingToPushStep == ASSUME SyncInv, NEW c \in Clones, NothingToPush(c) PROVE SyncInv'
<1>1. /\ odb' = odb /\ src' = src /\ dst' = dst /\ local' = local /\ have' = have
      /\ pc[c] = "import_build"
  BY DEF NothingToPush, remotes, clone
<1>2. src' \in [Branches -> Oid0] /\ dst' \in [Branches -> Oid0]
  BY <1>1 DEF SyncInv
<1>3. run[c].imports # <<>>
  BY <1>1, Untouched DEF CloneInv, JobRefs, Importing
<1>4. CASE Abort(c, "conflict")
  BY <1>1, <1>2, <1>4, Untouched, AbortStep
<1>5. CASE NextImport(c, {})
  BY <1>1, <1>2, <1>3, <1>5, Untouched, NextImportStep
<1>6. QED
  BY <1>4, <1>5 DEF NothingToPush

LEMMA PushToSourceStep == ASSUME SyncInv, NEW c \in Clones, PushToSource(c) PROVE SyncInv'
<1> DEFINE b == job[c].branch
<1>1. /\ odb' = odb /\ dst' = dst /\ local' = local /\ have' = have
      /\ pc[c] = "import_build" /\ dst' \in [Branches -> Oid0]
  BY DEF PushToSource, clone, SyncInv
<1>2. /\ JobRefs(have[c], "import_build", run[c], job[c])
      /\ job[c].chain \in have[c] /\ DOMAIN NoJob \subseteq DOMAIN job[c]
      /\ b \in run[c].names /\ b \in Branches /\ run[c].imports # <<>>
  BY <1>1, Untouched DEF CloneInv, RunRefs, JobRefs, Importing
<1>3. job[c].chain \in Oid0
  BY <1>2, Untouched DEF Oids, Oid0, SyncInv, ObjectDatabase
<1>4. CASE (\E why : Abort(c, why)) /\ UNCHANGED src
  BY <1>1, <1>4, Untouched, AbortStep DEF SyncInv
<1>5. CASE /\ src' = [src EXCEPT ![b] = job[c].chain]
           /\ job' = [job EXCEPT ![c] = [job[c] EXCEPT !.expected = local[c][b]]]
           /\ pc' = [pc EXCEPT ![c] = "import_advance"] /\ run' = run
  <2>1. src' \in [Branches -> Oid0]
    BY <1>2, <1>3, <1>5 DEF SyncInv
  <2>2. /\ job'[c].chain = job[c].chain /\ job'[c].branch = b
        /\ DOMAIN job'[c] = DOMAIN job[c] /\ job' = [job EXCEPT ![c] = job'[c]]
        /\ pc'[c] = "import_advance" /\ pc' = [pc EXCEPT ![c] = pc'[c]]
    BY <1>2, <1>5 DEF NoJob, SyncInv, Table
  <2>3. JobRefs(have[c], "import_advance", run[c], job'[c])
    BY <1>2, <2>2 DEF JobRefs, Importing, Mirroring
  <2>4. QED
    BY <1>1, <1>5, <2>1, <2>2, <2>3, JobStep
<1>6. CASE /\ job' = [job EXCEPT ![c] = [job[c] EXCEPT !.attempt = job[c].attempt + 1]]
           /\ pc' = [pc EXCEPT ![c] = "import_refetch"] /\ src' = src /\ run' = run
  <2>1. src' \in [Branches -> Oid0]
    BY <1>6 DEF SyncInv
  <2>2. /\ job'[c].branch = b /\ DOMAIN job'[c] = DOMAIN job[c]
        /\ job' = [job EXCEPT ![c] = job'[c]]
        /\ pc'[c] = "import_refetch" /\ pc' = [pc EXCEPT ![c] = pc'[c]]
    BY <1>2, <1>6 DEF NoJob, SyncInv, Table
  <2>3. JobRefs(have[c], "import_refetch", run[c], job'[c])
    BY <1>2, <2>2 DEF JobRefs, Importing, Mirroring
  <2>4. QED
    BY <1>1, <1>6, <2>1, <2>2, <2>3, JobStep
<1>7. QED
  BY <1>4, <1>5, <1>6 DEF PushToSource

LEMMA AdvanceStep == ASSUME SyncInv, NEW c \in Clones, AdvanceLocalSourceBranch(c) PROVE SyncInv'
<1> DEFINE b == job[c].branch
<1>1. /\ odb' = odb /\ src' = src /\ dst' = dst /\ have' = have /\ pc[c] = "import_advance"
  BY DEF AdvanceLocalSourceBranch, remotes
<1>2. src' \in [Branches -> Oid0] /\ dst' \in [Branches -> Oid0]
  BY <1>1 DEF SyncInv
<1>3. /\ job[c].chain \in have[c] /\ job[c].chain # NoOid
      /\ b \in Branches /\ run[c].imports # <<>>
  BY <1>1, Untouched DEF CloneInv, RunRefs, JobRefs, Importing, Oids, NoOid
<1>4. CASE Abort(c, "moved") /\ UNCHANGED local
  BY <1>1, <1>2, <1>4, Untouched, AbortStep
<1>5. CASE /\ local' = [local EXCEPT ![c] = [local[c] EXCEPT ![b] = job[c].chain]]
           /\ Abort(c, "conflict") \/ NextImport(c, {})
  <2>1. local'[c] = [local[c] EXCEPT ![b] = job[c].chain] /\ local' = [local EXCEPT ![c] = local'[c]]
    BY <1>5 DEF SyncInv
  <2>2. /\ local'[c] \in [Branches -> have[c] \cup {NoOid}]
        /\ \A x \in Branches : local[c][x] # NoOid => local'[c][x] # NoOid
    BY <1>3, <2>1, Untouched
  <2>3. CASE Abort(c, "conflict")
    BY <1>1, <1>2, <2>1, <2>2, <2>3, Untouched, AbortStep
  <2>4. CASE NextImport(c, {})
    BY <1>1, <1>2, <1>3, <2>1, <2>2, <2>4, Untouched, NextImportStep
  <2>5. QED
    BY <1>5, <2>3, <2>4
<1>6. QED
  BY <1>4, <1>5 DEF AdvanceLocalSourceBranch

(***************************************************************************)
(* The steps of a run between its phases and up to the plan.               *)
(***************************************************************************)
LEMMA ReconstructStep ==
    ASSUME SyncInv, NEW c \in Clones, ReconstructMappingIndex(c) PROVE SyncInv'
<1>1. /\ odb' = odb /\ src' = src /\ dst' = dst /\ local' = local /\ have' = have /\ job' = job
      /\ pc[c] = "import" /\ pc' = [pc EXCEPT ![c] = "select"]
  BY DEF ReconstructMappingIndex, remotes, clone
<1>2. src' \in [Branches -> Oid0] /\ dst' \in [Branches -> Oid0]
  BY <1>1 DEF SyncInv
<1>3. RunRefs(local[c], have[c], "import", run[c]) /\ DOMAIN NoJob \subseteq DOMAIN job[c]
  BY <1>1, Untouched DEF CloneInv, JobRefs
<1>4. /\ run'[c].names = run[c].names /\ run'[c].sources = run[c].sources
      /\ run'[c].imports = run[c].imports /\ run'[c].heads = run[c].heads
      /\ run'[c].remaining = run[c].sources \ run[c].halted
      /\ DOMAIN run'[c] = DOMAIN run[c] /\ run' = [run EXCEPT ![c] = run'[c]]
  BY <1>3 DEF ReconstructMappingIndex, RunRefs, NoRun, SyncInv, Table
<1>5. RunRefs(local[c], have[c], "select", run'[c])
  BY <1>3, <1>4 DEF RunRefs
<1>6. JobRefs(have[c], "select", run'[c], job[c])
  BY <1>3 DEF JobRefs, Importing, Mirroring
<1>7. /\ pc'[c] = "select" /\ pc' = [pc EXCEPT ![c] = pc'[c]] /\ job' = [job EXCEPT ![c] = job'[c]]
      /\ job'[c] = job[c]
  BY <1>1, Untouched DEF SyncInv, Table
<1>8. CloneInv(odb, local'[c], have'[c], pc'[c], run'[c], job'[c])
  BY <1>1, <1>5, <1>6, <1>7, Untouched DEF CloneInv
<1>9. QED
  BY <1>1, <1>2, <1>4, <1>7, <1>8, Untouched, RunStep

LEMMA SelectStep == ASSUME SyncInv, NEW c \in Clones, SelectNextBranch(c) PROVE SyncInv'
<1>1. PICK b \in run[c].remaining :
        /\ run' = [run EXCEPT ![c].remaining = @ \ {b},
              ![c].noMapping = @ \cup {a \in run[c].remaining : Distance(c, a) = 0}]
        /\ job' = [job EXCEPT ![c] = [NoJob EXCEPT !.branch = b, !.tip = local[c][b]]]
  BY DEF SelectNextBranch
<1>2. /\ odb' = odb /\ src' = src /\ dst' = dst /\ local' = local /\ have' = have
      /\ pc[c] = "select" /\ pc' = [pc EXCEPT ![c] = "fetch_dest"]
  BY DEF SelectNextBranch, remotes, clone
<1>3. src' \in [Branches -> Oid0] /\ dst' \in [Branches -> Oid0]
  BY <1>2 DEF SyncInv
<1>4. RunRefs(local[c], have[c], "select", run[c])
  BY <1>2, Untouched DEF CloneInv
<1>5. /\ run'[c].names = run[c].names /\ run'[c].sources = run[c].sources
      /\ run'[c].imports = run[c].imports /\ run'[c].heads = run[c].heads
      /\ run'[c].remaining = run[c].remaining \ {b}
      /\ DOMAIN run'[c] = DOMAIN run[c] /\ run' = [run EXCEPT ![c] = run'[c]]
  BY <1>1, <1>4 DEF RunRefs, NoRun, SyncInv, Table
<1>6. RunRefs(local[c], have[c], "fetch_dest", run'[c])
  BY <1>4, <1>5 DEF RunRefs
<1>7. /\ job'[c].branch = b /\ job'[c].tip = local[c][b] /\ DOMAIN job'[c] = DOMAIN NoJob
      /\ job' = [job EXCEPT ![c] = job'[c]]
  BY <1>1 DEF NoJob, SyncInv, Table
<1>8. b \in Branches /\ local[c][b] \in have[c]
  <2>1. b \in Branches /\ local[c][b] # NoOid
    BY <1>4 DEF RunRefs
  <2>2. QED
    BY <2>1, Untouched
<1>9. JobRefs(have[c], "fetch_dest", run'[c], job'[c])
  BY <1>7, <1>8 DEF JobRefs, Importing, Mirroring
<1>10. pc'[c] = "fetch_dest" /\ pc' = [pc EXCEPT ![c] = pc'[c]]
  BY <1>2 DEF SyncInv, Table
<1>11. CloneInv(odb, local'[c], have'[c], pc'[c], run'[c], job'[c])
  BY <1>2, <1>6, <1>9, <1>10, Untouched DEF CloneInv
<1>12. QED
  BY <1>2, <1>3, <1>5, <1>7, <1>10, <1>11, Untouched, RunStep

LEMMA FinishStep == ASSUME SyncInv, NEW c \in Clones, Finish(c) PROVE SyncInv'
<1>1. /\ odb' = odb /\ src' = src /\ dst' = dst /\ local' = local /\ have' = have /\ job' = job
      /\ pc' = [pc EXCEPT ![c] = "idle"] /\ run' = [run EXCEPT ![c] = NoRun]
  BY DEF Finish, remotes, clone
<1>2. src' \in [Branches -> Oid0] /\ dst' \in [Branches -> Oid0]
  BY <1>1 DEF SyncInv
<1>3. /\ pc'[c] = "idle" /\ pc' = [pc EXCEPT ![c] = pc'[c]] /\ run'[c] = NoRun
      /\ run' = [run EXCEPT ![c] = run'[c]]
  BY <1>1 DEF SyncInv, Table
<1>4. RunRefs(local[c], have[c], "idle", NoRun)
  BY Untouched, IdleClone DEF CloneInv
<1>5. JobRefs(have[c], "idle", NoRun, job[c])
  BY Untouched DEF CloneInv, JobRefs, Importing, Mirroring
<1>6. CloneInv(odb, local'[c], have'[c], pc'[c], run'[c], job'[c])
  BY <1>1, <1>3, <1>4, <1>5, Untouched DEF CloneInv
<1>7. QED
  BY <1>1, <1>2, <1>3, <1>6, Untouched, RunStep

LEMMA FetchDestStep == ASSUME SyncInv, NEW c \in Clones, FetchDest(c) PROVE SyncInv'
<1> DEFINE b == job[c].branch
           exists == run[c].exists[b] = "yes" \/ (run[c].exists[b] = "ask" /\ dst[b] # NoOid)
           recreate == b \in run[c].recreate
           known == [run[c].exists EXCEPT ![b] = IF exists THEN "yes" ELSE "no"]
           seen == IF exists THEN dst[b] ELSE NoOid
           mode == IF recreate THEN "CreateOnly" ELSE "FastForwardOnly"
<1>1. /\ odb' = odb /\ src' = src /\ dst' = dst /\ local' = local /\ pc[c] = "fetch_dest"
      /\ local' = [local EXCEPT ![c] = local'[c]]
  BY Untouched DEF FetchDest, remotes
<1>2. src' \in [Branches -> Oid0] /\ dst' \in [Branches -> Oid0]
  BY <1>1 DEF SyncInv
<1>3. /\ b \in Branches /\ job[c].tip \in have[c] /\ DOMAIN NoJob \subseteq DOMAIN job[c]
      /\ RunRefs(local[c], have[c], "fetch_dest", run[c])
  BY <1>1, Untouched DEF CloneInv, JobRefs, Mirroring
<1>4. CASE NextBranch(c, {b}) /\ UNCHANGED have
  BY <1>1, <1>2, <1>4, NextBranchStep
<1>5. CASE Abort(c, "fetch") /\ UNCHANGED have
  BY <1>1, <1>2, <1>5, Untouched, AbortStep
<1>6. CASE /\ ~ (exists /\ dst[b] = NoOid)
           /\ run' = [run EXCEPT ![c] = [run[c] EXCEPT !.exists = known]]
           /\ have' = IF exists THEN [have EXCEPT ![c] = have[c] \cup Fetched({dst[b]})] ELSE have
           /\ job' = [job EXCEPT ![c] = [job[c] EXCEPT !.seen = seen, !.mode = mode]]
           /\ pc' = [pc EXCEPT ![c] = "plan"]
  <2> HIDE DEF known, mode, recreate
  <2>1. /\ have' = [have EXCEPT ![c] = have'[c]] /\ Closed(odb, have'[c])
        /\ have[c] \subseteq have'[c] /\ seen \in have'[c] \cup {NoOid}
        /\ local[c] \in [Branches -> have'[c] \cup {NoOid}]
    <3>1. CASE exists
      <4> DEFINE tips == {dst[b]}
      <4>1. dst[b] \in Oids
        BY <1>3, <1>6, <3>1 DEF SyncInv, Oid0, Oids, NoOid, ObjectDatabase
      <4>2. tips \in SUBSET Oids /\ have' = [have EXCEPT ![c] = have[c] \cup Fetched(tips)]
        BY <1>6, <3>1, <4>1
      <4>3. dst[b] \in tips /\ seen = dst[b]
        BY <3>1
      <4> HIDE DEF tips, seen, exists
      <4>4. QED
        BY <4>2, <4>3, AfterFetch
    <3>2. CASE ~ exists
      <4>1. have' = have /\ seen = NoOid
        BY <1>6, <3>2
      <4>2. QED
        BY <4>1, Untouched
    <3>3. QED
      BY <3>1, <3>2
  <2> HIDE DEF seen, exists
  <2>2. CloneInv(odb, local[c], have'[c], pc[c], run[c], job[c])
    BY <2>1, Untouched, CloneKept
  <2>3. /\ run'[c].names = run[c].names /\ run'[c].sources = run[c].sources
        /\ run'[c].imports = run[c].imports /\ run'[c].heads = run[c].heads
        /\ run'[c].remaining = run[c].remaining
        /\ DOMAIN run'[c] = DOMAIN run[c] /\ run' = [run EXCEPT ![c] = run'[c]]
    BY <1>3, <1>6 DEF RunRefs, NoRun, SyncInv, Table
  <2>4. RunRefs(local[c], have'[c], "plan", run'[c])
    BY <1>1, <2>2, <2>3 DEF CloneInv, RunRefs
  <2>5. /\ job'[c].branch = b /\ job'[c].tip = job[c].tip /\ job'[c].seen = seen
        /\ DOMAIN job'[c] = DOMAIN job[c] /\ job' = [job EXCEPT ![c] = job'[c]]
    BY <1>3, <1>6 DEF NoJob, SyncInv, Table
  <2>6. JobRefs(have'[c], "plan", run'[c], job'[c])
    BY <1>3, <2>1, <2>5 DEF JobRefs, Importing, Mirroring
  <2>7. pc'[c] = "plan" /\ pc' = [pc EXCEPT ![c] = pc'[c]]
    BY <1>6 DEF SyncInv, Table
  <2>8. CloneInv(odb, local'[c], have'[c], pc'[c], run'[c], job'[c])
    BY <1>1, <2>1, <2>4, <2>6, <2>7 DEF CloneInv
  <2>9. QED
    BY <1>1, <1>2, <2>1, <2>3, <2>5, <2>7, <2>8, RunStep
<1>7. QED
  BY <1>4, <1>5, <1>6 DEF FetchDest

(***************************************************************************)
(* The steps of a run that mirrors a branch.                               *)
(***************************************************************************)
LEMMA ResumeKnown ==
    ASSUME SyncInv, NEW c \in Clones, pc[c] = "plan", Resume(c).do = "build"
    PROVE  /\ Resume(c).boundary \in have[c] /\ Resume(c).base \in have[c]
           /\ Resume(c).boundary \in Anc(job[c].tip)
           /\ \/ Resume(c).base = job[c].seen
              \/ Resume(c).base \in Canonicals(run[c].index)
<1> DEFINE H == have[c]
           tip == job[c].tip
           seen == job[c].seen
           branch == job[c].branch
           point == DestResumePoint(H, tip, seen, branch)
           anchor == DestAnchor(H, run[c].index, tip, branch)
           v == Resume(c)
<1>1. tip \in H /\ seen \in H \cup {NoOid} /\ H \subseteq Oids /\ Closed(odb, H) /\ ObjectDatabase(odb)
  BY Untouched DEF CloneInv, JobRefs, Mirroring, SyncInv
<1>2. Anc(tip) \subseteq H
  BY <1>1 DEF Closed, Anc
<1>3. seen # NoOid /\ point.kind = "Ok" => point.at \in H /\ point.at \in Anc(tip)
  <2>1. SUFFICES ASSUME seen # NoOid, point.kind = "Ok" PROVE point.at \in H /\ point.at \in Anc(tip)
    OBVIOUS
  <2>2. tip \in Oids /\ seen \in Oids
    BY <1>1, <2>1
  <2>3. point.at \in Anc(tip)
    BY <1>1, <2>1, <2>2, ResumePointKnown
  <2>4. QED
    BY <1>2, <2>3
<1>4. /\ anchor.kind \in {"None", "Contradictory", "Resolved"}
      /\ anchor.kind = "Resolved" =>
            /\ anchor.source \in H /\ anchor.source \in Anc(tip)
            /\ anchor.dest \in H /\ anchor.dest \in Canonicals(run[c].index)
  <2>1. tip \in Oids
    BY <1>1
  <2>2. /\ anchor.kind \in {"None", "Contradictory", "Resolved"}
        /\ anchor.kind = "Resolved" =>
              anchor.source \in Anc(tip) /\ anchor.dest \in H \cap Canonicals(run[c].index)
    BY <1>1, <2>1, AnchorOfTip
  <2>3. QED
    BY <1>2, <2>2
<1>5. \/ /\ seen # NoOid /\ point.kind = "Ok"
         /\ v.boundary = point.at /\ v.base = seen
      \/ /\ anchor.kind = "Resolved"
         /\ v.boundary = anchor.source /\ v.base = anchor.dest
  <2> HIDE DEF point, anchor
  <2>1. v.do = "build"
    OBVIOUS
  <2>2. v = IF seen # NoOid THEN
                IF point.kind = "Ok" THEN Verdict("build", point.at, seen, job[c].mode)
                ELSE IF point.kind = "NoMarker" THEN Stop
                ELSE IF MirrorOnly(branch) /\ MirrorOnlyRewriteDetected(H, tip, seen, branch) THEN
                    IF StaleCheckout(c) \/ anchor.kind = "Contradictory" THEN Halt
                    ELSE IF anchor.kind = "None" THEN Stop
                    ELSE Verdict("build", anchor.source, anchor.dest, "ForceMirrorOnly")
                ELSE IF point.kind = "Unsafe" /\ RoundTripped(branch) THEN Stop
                ELSE Halt
            ELSE IF anchor.kind = "Resolved"
                 THEN Verdict("build", anchor.source, anchor.dest, job[c].mode)
            ELSE IF anchor.kind = "Contradictory" \/ job[c].mode = "CreateOnly" THEN Halt ELSE Skip
    BY DEF Resume, point, anchor
  <2>3. Stop.do # "build" /\ Halt.do # "build" /\ Skip.do # "build"
    BY DEF Stop, Halt, Skip, Verdict
  <2>4. \A boundary, base, mode :
          /\ Verdict("build", boundary, base, mode).boundary = boundary
          /\ Verdict("build", boundary, base, mode).base = base
    BY DEF Verdict
  <2> HIDE DEF v
  <2>5. QED
    BY <1>4, <2>1, <2>2, <2>3, <2>4
<1>6. QED
  <2> HIDE DEF point, anchor, v
  <2>1. /\ v.boundary \in have[c] /\ v.base \in have[c] /\ v.boundary \in Anc(tip)
        /\ v.base = seen \/ v.base \in Canonicals(run[c].index)
    BY <1>1, <1>3, <1>4, <1>5
  <2>2. QED
    BY <2>1 DEF v

(* What a plan builds on: the shared commit and its projection are commits *)
(* the clone has.                                                          *)
LEMMA PlanKnown ==
    ASSUME SyncInv, NEW c \in Clones, pc[c] = "plan", NEW v, NEW pending, NEW newest, NEW plan,
           pending = (IF v.do = "build" THEN PendingCommits(v.boundary, job[c].tip) ELSE <<>>),
           newest = NewestShared(have[c], run[c].index, pending, v.base),
           plan = Plan(c, v, pending, newest), plan.do = "build"
    PROVE  /\ v.do = "build" /\ plan.reuse.shared \in have[c] \cup {NoOid}
           /\ \/ plan.reuse.kind = "Replay" /\ plan.reuse.shared = NoOid
              \/ plan.reuse.kind \in {"FastForward", "Bridge"}
           /\ plan.reuse.kind \in {"FastForward", "Bridge"} =>
                /\ plan.reuse.shared \in have[c] /\ plan.reuse.shared \in Anc(job[c].tip)
                /\ plan.reuse.projection \in have[c] \cap Canonicals(run[c].index)
<1> DEFINE reuse == PlanProjectionReuse(newest, pending, v.boundary, v.base, job[c].branch)
           replay == [kind |-> "Replay", shared |-> NoOid, projection |-> NoOid]
<1>1. /\ v.do = "build"
      /\ plan.reuse = replay \/ (plan.reuse = reuse /\ reuse.kind # "Halt")
  <2> HIDE DEF reuse
  <2>1. QED
    BY DEF Plan, reuse
<1>2. pending \in Seq(have[c]) /\ pending \in Seq(Anc(job[c].tip))
  <2>1. job[c].tip \in have[c] /\ job[c].tip \in Oids
    BY Untouched DEF CloneInv, JobRefs, Mirroring
  <2>2. pending \in Seq(Anc(job[c].tip))
    BY <1>1, <2>1, PendingCommitsOfTip DEF SyncInv
  <2>3. Anc(job[c].tip) \subseteq have[c]
    BY <2>1, Untouched DEF Closed, Anc
  <2>4. QED
    BY <2>2, <2>3, SeqMonotonic
<1>3. \/ newest.at = 0
      \/ /\ newest.at \in DOMAIN pending
         /\ newest.kind # "Contradictory" => newest.dest \in have[c] \cap Canonicals(run[c].index)
  BY <1>2, NewestSharedResolved
<1>4. \/ reuse.kind = "Replay" /\ reuse.shared = NoOid
      \/ reuse.kind = "Halt"
      \/ /\ reuse.kind \in {"FastForward", "Bridge"}
         /\ newest.at # 0 /\ newest.kind # "Contradictory"
         /\ reuse.shared = pending[newest.at] /\ reuse.projection = newest.dest
  BY ReusePlan
<1> HIDE DEF reuse
<1>5. newest.at \in DOMAIN pending =>
          pending[newest.at] \in have[c] /\ pending[newest.at] \in Anc(job[c].tip)
  <2>1. \A S : pending \in Seq(S) /\ newest.at \in DOMAIN pending => pending[newest.at] \in S
    OBVIOUS
  <2>2. QED
    BY <1>2, <2>1
<1>6. CASE plan.reuse = replay
  BY <1>1, <1>6
<1>7. CASE plan.reuse = reuse /\ reuse.kind # "Halt"
  BY <1>1, <1>3, <1>4, <1>5, <1>7
<1>8. QED
  BY <1>1, <1>6, <1>7

LEMMA PlanBuildStep ==
    ASSUME SyncInv, NEW c \in Clones, pc[c] = "plan", NEW v, NEW reuse,
           v.boundary \in have[c], v.base \in have[c],
           reuse.shared \in have[c] \cup {NoOid},
           reuse.kind \in {"FastForward", "Bridge"} =>
                reuse.shared \in have[c] /\ reuse.projection \in have[c],
           PlanBuild(c, v, reuse), src' = src, dst' = dst, local' = local
    PROVE  SyncInv'
<1> DEFINE b == job[c].branch
           chain == IF reuse.kind = "Bridge" THEN NextOid
                    ELSE IF reuse.kind = "FastForward" THEN reuse.projection ELSE v.base
           boundary == IF reuse.kind = "Replay" THEN v.boundary ELSE reuse.shared
           pending == PendingCommits(boundary, job[c].tip)
<1>1. /\ b \in Branches /\ job[c].tip \in have[c] /\ job[c].seen \in have[c] \cup {NoOid}
      /\ DOMAIN NoJob \subseteq DOMAIN job[c] /\ job[c].tip \in Oids
  BY Untouched DEF CloneInv, JobRefs, Mirroring
<1>2. pending \in Seq(have[c])
  <2>1. pending \in Seq(Anc(job[c].tip))
    BY <1>1, PendingCommitsOfTip DEF SyncInv
  <2>2. Anc(job[c].tip) \subseteq have[c]
    BY <1>1, Untouched DEF Closed, Anc
  <2>3. QED
    BY <2>1, <2>2, SeqMonotonic
<1> HIDE DEF pending
<1>3. /\ job'[c].boundary = v.boundary /\ job'[c].shared = reuse.shared
      /\ job'[c].chain = chain /\ job'[c].pending = pending
      /\ job'[c].branch = b /\ job'[c].tip = job[c].tip /\ job'[c].seen = job[c].seen
      /\ DOMAIN job'[c] = DOMAIN job[c] /\ job' = [job EXCEPT ![c] = job'[c]]
  BY <1>1 DEF PlanBuild, pending, NoJob, SyncInv, Table
<1>4. /\ pc' = [pc EXCEPT ![c] = "build"] /\ run' = run
      /\ pc'[c] = "build" /\ pc' = [pc EXCEPT ![c] = pc'[c]]
  BY DEF PlanBuild, SyncInv, Table
<1>5. CASE reuse.kind = "Bridge"
  <2> DEFINE marker == Marker("SourceToDest", b, reuse.shared)
  <2>1. /\ Write(<<v.base, reuse.projection>>, TreeOf(reuse.projection), marker)
        /\ have' = [have EXCEPT ![c] = have[c] \cup {NextOid}]
    BY <1>5 DEF PlanBuild
  <2>2. reuse.projection \in have[c] /\ reuse.shared \in have[c]
    BY <1>5
  <2>3. <<v.base, reuse.projection>> \in Seq(have[c])
    BY <2>2, PairSeq
  <2>4. TreeOf(reuse.projection) \in Trees
    BY <2>2, Untouched, TreeOfType DEF SyncInv
  <2>5. marker \in Markers(have[c] \cup {NoOid})
    BY <1>1, <2>2 DEF Marker, Markers, Directions
  <2>6. have'[c] = have[c] \cup {NextOid}
    BY <2>1 DEF SyncInv
  <2>7. pending \in Seq(have'[c])
    BY <1>2, <2>6, SeqMonotonic
  <2>8. chain = NextOid
    BY <1>5
  <2> HIDE DEF marker, chain
  <2>9. JobRefs(have'[c], "build", run[c], job'[c])
    BY <1>1, <1>3, <2>6, <2>7, <2>8 DEF JobRefs, Importing, Mirroring
  <2>10. local'[c] \in [Branches -> have'[c] \cup {NoOid}] /\ local' = [local EXCEPT ![c] = local'[c]]
    BY <2>6, Untouched
  <2>11. QED
    BY <1>3, <1>4, <2>1, <2>3, <2>4, <2>5, <2>9, <2>10, WriteStep
<1>6. CASE reuse.kind # "Bridge"
  <2>1. odb' = odb /\ have' = have
    BY <1>6 DEF PlanBuild
  <2>2. chain \in have[c]
    BY <1>6
  <2> HIDE DEF chain
  <2>3. JobRefs(have[c], "build", run[c], job'[c])
    BY <1>1, <1>2, <1>3, <2>2 DEF JobRefs, Importing, Mirroring
  <2>4. QED
    BY <1>3, <1>4, <2>1, <2>3, JobStep DEF SyncInv
<1>7. QED
  BY <1>5, <1>6

LEMMA PlanBranchStep == ASSUME SyncInv, NEW c \in Clones, PlanBranch(c) PROVE SyncInv'
<1>1. /\ pc[c] = "plan" /\ src' = src /\ dst' = dst /\ local' = local
      /\ src' \in [Branches -> Oid0] /\ dst' \in [Branches -> Oid0]
  BY DEF PlanBranch, remotes, SyncInv
<1>2. PICK v, pending, newest, plan :
        /\ v = Resume(c)
        /\ pending = (IF v.do = "build" THEN PendingCommits(v.boundary, job[c].tip) ELSE <<>>)
        /\ newest = NewestShared(have[c], run[c].index, pending, v.base)
        /\ plan = Plan(c, v, pending, newest)
        /\ \/ plan.do = "abort" /\ Abort(c, "resume") /\ UNCHANGED <<odb, have>>
           \/ plan.do = "halt" /\ NextBranch(c, {job[c].branch}) /\ UNCHANGED <<odb, have>>
           \/ plan.do = "skip" /\ NextBranch(c, {}) /\ UNCHANGED <<odb, have>>
           \/ plan.do = "build" /\ PlanBuild(c, v, plan.reuse)
  BY DEF PlanBranch
<1>3. CASE Abort(c, "resume") /\ UNCHANGED <<odb, have>>
  BY <1>1, <1>3, Untouched, AbortStep
<1>4. CASE (\E halts : NextBranch(c, halts)) /\ UNCHANGED <<odb, have>>
  BY <1>1, <1>4, NextBranchStep
<1>5. CASE plan.do = "build" /\ PlanBuild(c, v, plan.reuse)
  <2>0. /\ pc[c] = "plan" /\ plan.do = "build"
        /\ pending = (IF v.do = "build" THEN PendingCommits(v.boundary, job[c].tip) ELSE <<>>)
        /\ newest = NewestShared(have[c], run[c].index, pending, v.base)
        /\ plan = Plan(c, v, pending, newest)
    BY <1>1, <1>2, <1>5
  <2>1. /\ v.do = "build" /\ plan.reuse.shared \in have[c] \cup {NoOid}
        /\ plan.reuse.kind \in {"FastForward", "Bridge"} =>
              plan.reuse.shared \in have[c] /\ plan.reuse.projection \in have[c]
    BY <2>0, PlanKnown
  <2>2. v.boundary \in have[c] /\ v.base \in have[c]
    BY <1>1, <1>2, <2>1, ResumeKnown
  <2>3. QED
    BY <1>1, <1>5, <2>1, <2>2, PlanBuildStep
<1>6. QED
  BY <1>2, <1>3, <1>4, <1>5

LEMMA ReplayToDestStep == ASSUME SyncInv, NEW c \in Clones, ReplayToDest(c) PROVE SyncInv'
<1> DEFINE o == Head(job[c].pending)
           base == FilterTree(TreeOf(ReplayParent(o)))
           ours == TreeOf(job[c].chain)
           theirs == FilterTree(TreeOf(o))
           marker == Marker("SourceToDest", job[c].branch, o)
<1>1. /\ src' = src /\ dst' = dst /\ local' = local /\ run' = run /\ pc' = pc
      /\ pc[c] = "build" /\ job[c].pending # <<>> /\ pc' = [pc EXCEPT ![c] = pc'[c]]
      /\ local' = [local EXCEPT ![c] = local'[c]] /\ pc'[c] = "build"
  BY Untouched DEF ReplayToDest, remotes
<1>2. src' \in [Branches -> Oid0] /\ dst' \in [Branches -> Oid0]
  BY <1>1 DEF SyncInv
<1>3. /\ JobRefs(have[c], "build", run[c], job[c]) /\ job[c].branch \in Branches
      /\ job[c].pending \in Seq(have[c]) /\ job[c].chain \in have[c]
      /\ DOMAIN NoJob \subseteq DOMAIN job[c]
  BY <1>1, Untouched DEF CloneInv, JobRefs, Mirroring
<1>4. o \in have[c] /\ Tail(job[c].pending) \in Seq(have[c])
  BY <1>1, <1>3, HeadTailProperties
<1>5. CASE job' = [job EXCEPT ![c] = [job[c] EXCEPT !.pending = Tail(job[c].pending)]]
           /\ UNCHANGED <<odb, have>>
  <2>1. /\ job'[c].pending = Tail(job[c].pending) /\ job'[c].branch = job[c].branch
        /\ job'[c].tip = job[c].tip /\ job'[c].seen = job[c].seen
        /\ job'[c].boundary = job[c].boundary /\ job'[c].shared = job[c].shared
        /\ job'[c].chain = job[c].chain /\ DOMAIN job'[c] = DOMAIN job[c]
        /\ job' = [job EXCEPT ![c] = job'[c]]
    BY <1>5, <1>3 DEF NoJob, SyncInv, Table
  <2>2. JobRefs(have[c], "build", run[c], job'[c])
    BY <1>3, <1>4, <2>1 DEF JobRefs, Importing, Mirroring
  <2>3. QED
    BY <1>1, <1>2, <1>5, <2>1, <2>2, JobStep
<1>6. CASE job' = [job EXCEPT ![c] = [job[c] EXCEPT !.pending = <<>>, !.conflict = o]]
           /\ UNCHANGED <<odb, have>>
  <2>1. /\ job'[c].pending = <<>> /\ job'[c].branch = job[c].branch
        /\ job'[c].tip = job[c].tip /\ job'[c].seen = job[c].seen
        /\ job'[c].boundary = job[c].boundary /\ job'[c].shared = job[c].shared
        /\ job'[c].chain = job[c].chain /\ DOMAIN job'[c] = DOMAIN job[c]
        /\ job' = [job EXCEPT ![c] = job'[c]]
    BY <1>6, <1>3 DEF NoJob, SyncInv, Table
  <2>2. JobRefs(have[c], "build", run[c], job'[c])
    BY <1>3, <2>1 DEF JobRefs, Importing, Mirroring
  <2>3. QED
    BY <1>1, <1>2, <1>6, <2>1, <2>2, JobStep
<1>7. CASE /\ Write(<<job[c].chain>>, MergeTree(base, ours, theirs), marker)
           /\ have' = [have EXCEPT ![c] = have[c] \cup {NextOid}]
           /\ job' = [job EXCEPT ![c] = [job[c] EXCEPT
                        !.pending = Tail(job[c].pending), !.chain = NextOid,
                        !.built = job[c].built \cup {<<o, NextOid>>}]]
  <2>1. MergeTree(base, ours, theirs) \in Trees
    <3>1. o \in Oids /\ job[c].chain \in Oids /\ ReplayParent(o) \in Oids \cup {NoOid}
      BY <1>3, <1>4, Untouched, CommitFacts DEF SyncInv, ReplayParent
    <3>2. base \in Trees /\ ours \in Trees /\ theirs \in Trees
      BY <3>1, TreeOfType, TreesClosed DEF SyncInv
    <3>3. QED
      BY <3>2, TreesClosed
  <2>2. marker \in Markers(have[c] \cup {NoOid})
    BY <1>3, <1>4 DEF Marker, Markers, Directions
  <2>3. <<job[c].chain>> \in Seq(have[c])
    BY <1>3, SingletonSeq
  <2>4. have'[c] = have[c] \cup {NextOid}
    BY <1>7 DEF SyncInv
  <2>5. /\ job'[c].pending = Tail(job[c].pending) /\ job'[c].branch = job[c].branch
        /\ job'[c].tip = job[c].tip /\ job'[c].seen = job[c].seen
        /\ job'[c].boundary = job[c].boundary /\ job'[c].shared = job[c].shared
        /\ job'[c].chain = NextOid /\ DOMAIN job'[c] = DOMAIN job[c]
        /\ job' = [job EXCEPT ![c] = job'[c]]
    BY <1>7, <1>3 DEF NoJob, SyncInv, Table
  <2>6. Tail(job[c].pending) \in Seq(have'[c])
    BY <1>4, <2>4, SeqMonotonic
  <2>7. JobRefs(have'[c], "build", run[c], job'[c])
    BY <1>3, <2>4, <2>5, <2>6 DEF JobRefs, Importing, Mirroring
  <2>8. local'[c] \in [Branches -> have'[c] \cup {NoOid}]
    BY <1>1, <2>4, Untouched
  <2>9. QED
    BY <1>1, <1>7, <2>1, <2>2, <2>3, <2>5, <2>7, <2>8, WriteStep
<1>8. QED
  BY <1>5, <1>6, <1>7 DEF ReplayToDest

LEMMA SealToDestStep == ASSUME SyncInv, NEW c \in Clones, SealToDest(c) PROVE SyncInv'
<1> DEFINE seal == SealCommit(c)
           marker == Marker("SourceToDest", job[c].branch, seal.source)
<1>1. /\ src' = src /\ dst' = dst /\ local' = local /\ pc[c] = "build"
      /\ local' = [local EXCEPT ![c] = local'[c]]
  BY Untouched DEF SealToDest, remotes
<1>2. src' \in [Branches -> Oid0] /\ dst' \in [Branches -> Oid0]
  BY <1>1 DEF SyncInv
<1>3. /\ JobRefs(have[c], "build", run[c], job[c]) /\ job[c].branch \in Branches
      /\ job[c].tip \in have[c] /\ {job[c].boundary, job[c].shared} \subseteq have[c] \cup {NoOid}
      /\ job[c].chain \in have[c] /\ DOMAIN NoJob \subseteq DOMAIN job[c]
  BY <1>1, Untouched DEF CloneInv, JobRefs, Mirroring
<1>4. CASE (\E why : Abort(c, why)) /\ UNCHANGED <<odb, have>>
  BY <1>1, <1>2, <1>4, Untouched, AbortStep
<1>5. CASE NextBranch(c, {}) /\ UNCHANGED <<odb, have>>
  BY <1>1, <1>2, <1>5, NextBranchStep
<1>6. CASE pc' = [pc EXCEPT ![c] = "push_dest"] /\ UNCHANGED <<odb, have, run, job, result>>
  <2>1. /\ pc'[c] = "push_dest" /\ pc' = [pc EXCEPT ![c] = pc'[c]]
        /\ job' = [job EXCEPT ![c] = job'[c]] /\ job'[c] = job[c]
    BY <1>6, Untouched DEF SyncInv, Table
  <2>2. JobRefs(have[c], "push_dest", run[c], job'[c])
    BY <1>3, <2>1 DEF JobRefs, Importing, Mirroring
  <2>3. QED
    BY <1>1, <1>2, <1>6, <2>1, <2>2, JobStep
<1>7. CASE /\ Write(<<job[c].chain>>, TreeOf(job[c].chain), marker)
           /\ have' = [have EXCEPT ![c] = have[c] \cup {NextOid}]
           /\ job' = [job EXCEPT ![c] = [job[c] EXCEPT !.chain = NextOid]]
           /\ pc' = [pc EXCEPT ![c] = "push_dest"] /\ run' = run
  <2>1. TreeOf(job[c].chain) \in Trees
    BY <1>3, Untouched, TreeOfType DEF SyncInv
  <2>2. marker \in Markers(have[c] \cup {NoOid})
    <3>1. seal.source \in have[c] \cup {NoOid}
      BY <1>3 DEF SealCommit
    <3> HIDE DEF seal
    <3>2. QED
      BY <1>3, <3>1 DEF Marker, Markers, Directions
  <2>3. <<job[c].chain>> \in Seq(have[c])
    BY <1>3, SingletonSeq
  <2>4. have'[c] = have[c] \cup {NextOid}
    BY <1>7 DEF SyncInv
  <2>5. /\ job'[c].branch = job[c].branch
        /\ job'[c].tip = job[c].tip /\ job'[c].seen = job[c].seen
        /\ job'[c].chain = NextOid /\ DOMAIN job'[c] = DOMAIN job[c]
        /\ job' = [job EXCEPT ![c] = job'[c]]
        /\ pc'[c] = "push_dest" /\ pc' = [pc EXCEPT ![c] = pc'[c]]
    BY <1>7, <1>3 DEF NoJob, SyncInv, Table
  <2>6. JobRefs(have'[c], "push_dest", run[c], job'[c])
    BY <1>3, <2>4, <2>5 DEF JobRefs, Importing, Mirroring
  <2>7. local'[c] \in [Branches -> have'[c] \cup {NoOid}]
    BY <1>1, <2>4, Untouched
  <2> HIDE DEF marker
  <2>8. QED
    BY <1>1, <1>7, <2>1, <2>2, <2>3, <2>5, <2>6, <2>7, WriteStep
<1>8. QED
  BY <1>4, <1>5, <1>6, <1>7 DEF SealToDest

LEMMA PushToDestStep == ASSUME SyncInv, NEW c \in Clones, PushToDest(c) PROVE SyncInv'
<1> DEFINE b == job[c].branch
<1>1. /\ odb' = odb /\ src' = src /\ local' = local /\ have' = have /\ pc[c] = "push_dest"
      /\ src' \in [Branches -> Oid0]
  BY DEF PushToDest, clone, SyncInv
<1>2. /\ b \in Branches /\ job[c].chain \in have[c]
      /\ RunRefs(local[c], have[c], "push_dest", run[c])
  BY <1>1, Untouched DEF CloneInv, JobRefs, Mirroring
<1>3. dst' \in [Branches -> Oid0]
  <2>1. dst' = [dst EXCEPT ![b] = job[c].chain]
    BY DEF PushToDest
  <2>2. job[c].chain \in Oid0
    BY <1>2, Untouched DEF Oids, Oid0, SyncInv, ObjectDatabase
  <2>3. QED
    BY <1>2, <2>1, <2>2 DEF SyncInv
<1>4. CASE Abort(c, "conflict")
  BY <1>1, <1>3, <1>4, Untouched, AbortStep
<1>5. CASE /\ pc' = [pc EXCEPT ![c] = "select"]
           /\ run' = [run EXCEPT ![c].index = IndexAfterPush(c), ![c].exists[b] = "yes"]
           /\ job' = [job EXCEPT ![c] = NoJob]
  <2>1. /\ pc'[c] = "select" /\ pc' = [pc EXCEPT ![c] = pc'[c]]
        /\ job'[c] = NoJob /\ job' = [job EXCEPT ![c] = job'[c]]
    BY <1>5 DEF SyncInv, Table
  <2>2. /\ run'[c].names = run[c].names /\ run'[c].sources = run[c].sources
        /\ run'[c].imports = run[c].imports /\ run'[c].heads = run[c].heads
        /\ run'[c].remaining = run[c].remaining
        /\ DOMAIN run'[c] = DOMAIN run[c] /\ run' = [run EXCEPT ![c] = run'[c]]
    BY <1>2, <1>5 DEF RunRefs, NoRun, SyncInv, Table
  <2>3. RunRefs(local[c], have[c], "select", run'[c])
    BY <1>2, <2>2 DEF RunRefs
  <2>4. JobRefs(have[c], "select", run'[c], NoJob)
    BY DEF JobRefs, Importing, Mirroring
  <2>5. CloneInv(odb, local'[c], have'[c], pc'[c], run'[c], job'[c])
    BY <1>1, <2>1, <2>3, <2>4, Untouched DEF CloneInv
  <2>6. QED
    BY <1>1, <1>3, <2>1, <2>2, <2>5, Untouched, RunStep
<1>6. QED
  BY <1>4, <1>5 DEF PushToDest

LEMMA PushRejectedStep == ASSUME SyncInv, NEW c \in Clones, PushRejected(c) PROVE SyncInv'
<1> DEFINE b == job[c].branch
<1>1. /\ odb' = odb /\ src' = src /\ dst' = dst /\ local' = local /\ have' = have
      /\ pc[c] = "push_dest"
  BY DEF PushRejected, clone, remotes
<1>2. src' \in [Branches -> Oid0] /\ dst' \in [Branches -> Oid0]
  BY <1>1 DEF SyncInv
<1>3. /\ b \in Branches /\ job[c].tip \in have[c]
      /\ RunRefs(local[c], have[c], "push_dest", run[c])
  BY <1>1, Untouched DEF CloneInv, JobRefs, Mirroring
<1>4. CASE NextBranch(c, {b})
  BY <1>1, <1>2, <1>4, NextBranchStep
<1>5. CASE Abort(c, "race")
  BY <1>1, <1>2, <1>5, Untouched, AbortStep
<1>6. CASE /\ run' = [run EXCEPT ![c].exists[b] = "ask"]
           /\ job' = [job EXCEPT ![c] = [NoJob EXCEPT !.branch = b, !.tip = job[c].tip,
                                                      !.attempt = job[c].attempt + 1]]
           /\ pc' = [pc EXCEPT ![c] = "fetch_dest"]
  <2>1. /\ pc'[c] = "fetch_dest" /\ pc' = [pc EXCEPT ![c] = pc'[c]]
        /\ job'[c].branch = b /\ job'[c].tip = job[c].tip /\ DOMAIN job'[c] = DOMAIN NoJob
        /\ job' = [job EXCEPT ![c] = job'[c]]
    BY <1>6 DEF NoJob, SyncInv, Table
  <2>2. /\ run'[c].names = run[c].names /\ run'[c].sources = run[c].sources
        /\ run'[c].imports = run[c].imports /\ run'[c].heads = run[c].heads
        /\ run'[c].remaining = run[c].remaining
        /\ DOMAIN run'[c] = DOMAIN run[c] /\ run' = [run EXCEPT ![c] = run'[c]]
    BY <1>3, <1>6 DEF RunRefs, NoRun, SyncInv, Table
  <2>3. RunRefs(local[c], have[c], "fetch_dest", run'[c])
    BY <1>3, <2>2 DEF RunRefs
  <2>4. JobRefs(have[c], "fetch_dest", run'[c], job'[c])
    BY <1>3, <2>1 DEF JobRefs, Importing, Mirroring
  <2>5. CloneInv(odb, local'[c], have'[c], pc'[c], run'[c], job'[c])
    BY <1>1, <2>1, <2>3, <2>4, Untouched DEF CloneInv
  <2>6. QED
    BY <1>1, <1>2, <2>1, <2>2, <2>5, Untouched, RunStep
<1>7. QED
  BY <1>4, <1>5, <1>6 DEF PushRejected

LEMMA CrashStep == ASSUME SyncInv, NEW c \in Clones, Crash(c) PROVE SyncInv'
<1>1. /\ odb' = odb /\ src' = src /\ dst' = dst /\ local' = local /\ have' = have
      /\ Abort(c, "crash")
  BY DEF Crash, clone, remotes
<1>2. src' \in [Branches -> Oid0] /\ dst' \in [Branches -> Oid0]
  BY <1>1 DEF SyncInv
<1>3. QED
  BY <1>1, <1>2, Untouched, AbortStep

LEMMA SyncStep == ASSUME SyncInv, NEW c \in Clones, StartRun(c) \/ Sync(c) \/ Crash(c) PROVE SyncInv'
BY StartRunStep, CrashStep, FetchHeadsStep, SkipImportStep, BeginImportStep, RefetchSourceStep,
   ReplayToSourceStep, NothingToPushStep, PushToSourceStep, AdvanceStep, ReconstructStep,
   SelectStep, FetchDestStep, PlanBranchStep, ReplayToDestStep, SealToDestStep, PushToDestStep,
   PushRejectedStep, FinishStep DEF Sync

(***************************************************************************)
(* The environment's steps.                                                *)
(***************************************************************************)
LEMMA RemoteStep ==
    ASSUME SyncInv, ObjectDatabase(odb'), Extends(odb, odb'),
           src' \in [Branches -> Oid0'], dst' \in [Branches -> Oid0'],
           UNCHANGED <<local, have, pc, run, job>>
    PROVE  SyncInv'
<1>1. ASSUME NEW d \in Clones
      PROVE  CloneInv(odb', local[d], have[d], pc[d], run[d], job[d])
  <2>1. Len(odb) \in Nat /\ Len(odb') \in Nat
    BY DEF SyncInv, ObjectDatabase
  <2>2. Closed(odb', have[d])
    BY <2>1, Untouched, ClosedExtends
  <2>3. QED
    BY <2>2, Untouched, CloneKept
<1>2. QED
  BY <1>1 DEF SyncInv, Table

LEMMA EditType ==
    ASSUME SyncInv, NEW o \in Oids, NEW e \in Paths \X (Values \cup {Absent})
    PROVE  Edit(o, e) \in Trees
<1>1. TreeOf(o) \in Trees
  BY TreeOfType DEF SyncInv
<1>2. QED
  BY <1>1 DEF Edit, Trees

(* A developer's step in a clone that writes no commit. *)
LEMMA DevRefStep ==
    ASSUME SyncInv, NEW c \in Clones, odb' = odb,
           src' \in [Branches -> Oid0], dst' \in [Branches -> Oid0],
           local' = [local EXCEPT ![c] = local'[c]], have' = [have EXCEPT ![c] = have'[c]],
           have[c] \subseteq have'[c], Closed(odb, have'[c]),
           local'[c] \in [Branches -> have'[c] \cup {NoOid}],
           \A x \in Branches : local[c][x] # NoOid => local'[c][x] # NoOid,
           UNCHANGED <<pc, run, job>>
    PROVE  SyncInv'
<1>1. CloneInv(odb, local'[c], have'[c], pc[c], run[c], job[c])
  BY Untouched, CloneKept
<1>2. CloneInv(odb, local'[c], have'[c], pc'[c], run'[c], job'[c])
  BY <1>1
<1>3. /\ pc' = [pc EXCEPT ![c] = pc'[c]] /\ run' = [run EXCEPT ![c] = run'[c]]
      /\ job' = [job EXCEPT ![c] = job'[c]]
  BY Untouched
<1>4. QED
  BY <1>2, <1>3, RunStep

(* A developer's commit. *)
LEMMA DevWriteStep ==
    ASSUME SyncInv, NEW c \in Clones, NEW b \in Branches, NEW parents \in Seq(have[c]),
           NEW tree \in Trees, Write(parents, tree, NoMarker), src' = src, dst' = dst,
           local' = [local EXCEPT ![c] = [local[c] EXCEPT ![b] = NextOid]],
           have' = [have EXCEPT ![c] = have[c] \cup {NextOid}], UNCHANGED <<pc, run, job>>
    PROVE  SyncInv'
<1>1. NoMarker \in Markers(have[c] \cup {NoOid})
  BY DEF NoMarker, Markers
<1>2. have'[c] = have[c] \cup {NextOid} /\ NextOid # NoOid
  BY DEF SyncInv, ObjectDatabase, NextOid, NoOid
<1>3. /\ local'[c] = [local[c] EXCEPT ![b] = NextOid]
      /\ local' = [local EXCEPT ![c] = local'[c]]
  BY DEF SyncInv
<1>4. /\ local'[c] \in [Branches -> have'[c] \cup {NoOid}]
      /\ \A x \in Branches : local[c][x] # NoOid => local'[c][x] # NoOid
  BY <1>2, <1>3, Untouched
<1>5. Closed(odb', have'[c])
  BY <1>1, <1>2, Untouched, WriteKeepsClosed DEF SyncInv
<1>6. JobRefs(have'[c], pc[c], run[c], job[c])
  <2>1. have[c] \subseteq have'[c] /\ CloneInv(odb, local[c], have[c], pc[c], run[c], job[c])
    BY <1>2, Untouched
  <2>2. CloneInv(odb', local'[c], have'[c], pc[c], run[c], job[c])
    BY <1>4, <1>5, <2>1, CloneKept
  <2>3. QED
    BY <2>2 DEF CloneInv
<1>7. pc' = [pc EXCEPT ![c] = pc'[c]] /\ job' = [job EXCEPT ![c] = job'[c]]
  BY Untouched
<1>8. QED
  BY <1>1, <1>3, <1>4, <1>6, <1>7, WriteStep

LEMMA DeveloperStep ==
    ASSUME SyncInv, NEW c \in Clones, NEW b \in Branches, NEW from \in Branches,
           \/ DevCommit(c, b) \/ DevAmend(c, b) \/ DevPush(c, b) \/ DevPull(c, b)
           \/ DevBranch(c, b, from) \/ DevMerge(c, b, from)
    PROVE  SyncInv'
<1> DEFINE tip == local[c][b]
           other == local[c][from]
<1>1. /\ tip \in have[c] \cup {NoOid} /\ other \in have[c] \cup {NoOid}
      /\ have[c] \subseteq Oids /\ ObjectDatabase(odb) /\ Closed(odb, have[c])
      /\ src[b] \in Oid0 /\ src \in [Branches -> Oid0] /\ dst \in [Branches -> Oid0]
      /\ Oids \subseteq Oid0 /\ Oid0 = Oids \cup {NoOid}
  BY Untouched DEF SyncInv, Oid0, Oids, NoOid, ObjectDatabase
<1>2. CASE DevCommit(c, b)
  <2>1. PICK e \in DevEdits : Write(<<tip>>, Edit(tip, e), NoMarker)
    BY <1>2 DEF DevCommit
  <2>2. tip \in have[c] /\ tip \in Oids
    BY <1>1, <1>2 DEF DevCommit
  <2>3. Edit(tip, e) \in Trees /\ <<tip>> \in Seq(have[c])
    BY <2>2, SyncAssumption, EditType, SingletonSeq
  <2>4. /\ local' = [local EXCEPT ![c] = [local[c] EXCEPT ![b] = NextOid]]
        /\ have' = [have EXCEPT ![c] = have[c] \cup {NextOid}]
        /\ UNCHANGED <<pc, run, job>> /\ src' = src /\ dst' = dst
    BY <1>2 DEF DevCommit, remotes
  <2>5. QED
    BY <2>1, <2>3, <2>4, DevWriteStep
<1>3. CASE DevAmend(c, b)
  <2>1. PICK e \in DevEdits : Write(odb[tip].parents, Edit(tip, e), NoMarker)
    BY <1>3 DEF DevAmend
  <2>2. tip \in have[c] /\ tip \in Oids
    BY <1>1, <1>3 DEF DevAmend
  <2>3. Edit(tip, e) \in Trees
    BY <2>2, SyncAssumption, EditType
  <2>4. odb[tip].parents \in Seq(have[c])
    <3>1. odb[tip].parents \in Seq(Anc(tip) \ {tip})
      BY <1>1, <2>2, CommitFacts
    <3>2. Anc(tip) \ {tip} \subseteq have[c]
      BY <1>1, <2>2 DEF Closed, Anc
    <3>3. QED
      BY <3>1, <3>2, SeqMonotonic
  <2>5. /\ local' = [local EXCEPT ![c] = [local[c] EXCEPT ![b] = NextOid]]
        /\ have' = [have EXCEPT ![c] = have[c] \cup {NextOid}]
        /\ UNCHANGED <<pc, run, job>> /\ src' = src /\ dst' = dst
    BY <1>3 DEF DevAmend, remotes
  <2>6. QED
    BY <2>1, <2>3, <2>4, <2>5, DevWriteStep
<1>4. CASE DevPush(c, b)
  <2>1. /\ src' = [src EXCEPT ![b] = tip] /\ tip # NoOid /\ dst' = dst
        /\ UNCHANGED <<odb, local, have, pc, run, job>>
    BY <1>4 DEF DevPush, clone
  <2>2. src' \in [Branches -> Oid0] /\ dst' \in [Branches -> Oid0]
    BY <1>1, <2>1
  <2>3. QED
    BY <2>1, <2>2, Untouched, DevRefStep
<1>5. CASE DevPull(c, b)
  <2> DEFINE tips == {src[b]}
  <2>1. /\ have' = [have EXCEPT ![c] = have[c] \cup Fetched(tips)]
        /\ src[b] # NoOid /\ src' = src /\ dst' = dst
        /\ local' = [local EXCEPT ![c] = [local[c] EXCEPT ![b] = src[b]]] \/ local' = local
        /\ UNCHANGED <<odb, pc, run, job>>
    BY <1>5 DEF DevPull, remotes
  <2>2. tips \in SUBSET Oids /\ src[b] \in tips
    BY <1>1, <2>1
  <2> HIDE DEF tips
  <2>3. /\ have' = [have EXCEPT ![c] = have'[c]] /\ Closed(odb, have'[c])
        /\ have[c] \subseteq have'[c] /\ src[b] \in have'[c]
        /\ local[c] \in [Branches -> have'[c] \cup {NoOid}]
    BY <2>1, <2>2, AfterFetch
  <2>4. /\ local' = [local EXCEPT ![c] = local'[c]]
        /\ local'[c] = [local[c] EXCEPT ![b] = src[b]] \/ local'[c] = local[c]
    BY <2>1, Untouched DEF SyncInv
  <2>5. /\ local'[c] \in [Branches -> have'[c] \cup {NoOid}]
        /\ \A x \in Branches : local[c][x] # NoOid => local'[c][x] # NoOid
    BY <2>1, <2>3, <2>4
  <2>6. QED
    BY <1>1, <2>1, <2>3, <2>4, <2>5, DevRefStep
<1>6. CASE DevBranch(c, b, from)
  <2>1. /\ local' = [local EXCEPT ![c] = [local[c] EXCEPT ![b] = other]] /\ other # NoOid
        /\ src' = src /\ dst' = dst /\ have' = have /\ UNCHANGED <<odb, pc, run, job>>
    BY <1>6 DEF DevBranch, remotes
  <2>2. /\ local' = [local EXCEPT ![c] = local'[c]]
        /\ local'[c] = [local[c] EXCEPT ![b] = other]
    BY <2>1 DEF SyncInv
  <2>3. /\ local'[c] \in [Branches -> have[c] \cup {NoOid}]
        /\ \A x \in Branches : local[c][x] # NoOid => local'[c][x] # NoOid
    BY <1>1, <2>1, <2>2, Untouched
  <2>4. QED
    BY <1>1, <2>1, <2>2, <2>3, Untouched, DevRefStep
<1>7. CASE DevMerge(c, b, from)
  <2> DEFINE base == TreeOf(MergeBase(tip, other))
             tree == MergeTree(base, TreeOf(tip), TreeOf(other))
  <2>1. /\ Write(<<tip, other>>, tree, NoMarker) /\ tip # NoOid /\ other # NoOid
        /\ local' = [local EXCEPT ![c] = [local[c] EXCEPT ![b] = NextOid]]
        /\ have' = [have EXCEPT ![c] = have[c] \cup {NextOid}]
        /\ UNCHANGED <<pc, run, job>> /\ src' = src /\ dst' = dst
    BY <1>7 DEF DevMerge, remotes
  <2>2. tip \in have[c] /\ other \in have[c] /\ tip \in Oids /\ other \in Oids
    BY <1>1, <2>1
  <2>3. MergeBase(tip, other) \in Oids \cup {NoOid}
    BY <1>1, <2>2, MergeBaseCommon, CommitFacts
  <2>4. tree \in Trees
    BY <1>1, <2>2, <2>3, TreeOfType, TreesClosed
  <2>5. <<tip, other>> \in Seq(have[c])
    BY <2>2, PairSeq
  <2> HIDE DEF tree
  <2>6. QED
    BY <2>1, <2>4, <2>5, DevWriteStep
<1>8. QED
  BY <1>2, <1>3, <1>4, <1>5, <1>6, <1>7

(* A customer's commit on dest. *)
LEMMA CustomerWriteStep ==
    ASSUME SyncInv, NEW b \in Branches, NEW parents \in Seq(Oids), NEW tree \in Trees,
           Write(parents, tree, NoMarker), src' = src, dst' = [dst EXCEPT ![b] = NextOid],
           UNCHANGED <<local, have, pc, run, job>>
    PROVE  SyncInv'
<1>1. NoMarker \in Markers(0 .. Len(odb)) /\ Len(odb) \in Nat
  BY DEF NoMarker, Markers, NoOid, SyncInv, ObjectDatabase
<1>2. ObjectDatabase(odb') /\ Extends(odb, odb') /\ Len(odb') = NextOid
  BY <1>1, WriteExtends DEF SyncInv
<1>3. Oid0 \subseteq Oid0' /\ NextOid \in Oid0'
  BY <1>1, <1>2 DEF Oid0, NextOid
<1>4. src' \in [Branches -> Oid0'] /\ dst' \in [Branches -> Oid0']
  BY <1>3 DEF SyncInv
<1>5. QED
  BY <1>2, <1>4, RemoteStep

LEMMA CustomerStep ==
    ASSUME SyncInv, NEW b \in Branches, NEW from \in Branches,
           \/ CustomerCommit(b) \/ CustomerDelete(b)
           \/ CustomerFastForward(b, from) \/ CustomerMerge(b, from)
    PROVE  SyncInv'
<1>1. /\ dst[b] \in Oids \cup {NoOid} /\ dst[from] \in Oids \cup {NoOid} /\ ObjectDatabase(odb)
      /\ dst \in [Branches -> Oid0] /\ src \in [Branches -> Oid0] /\ NoOid \in Oid0
      /\ Extends(odb, odb)
  BY DEF SyncInv, Oid0, Oids, NoOid, ObjectDatabase, Extends
<1>2. CASE CustomerCommit(b)
  <2>1. PICK e \in CustomerEdits : Write(<<dst[b]>>, Edit(dst[b], e), NoMarker)
    BY <1>2 DEF CustomerCommit
  <2>2. dst[b] \in Oids
    BY <1>1, <1>2 DEF CustomerCommit
  <2>3. Edit(dst[b], e) \in Trees /\ <<dst[b]>> \in Seq(Oids)
    <3>1. e \in Paths \X (Values \cup {Absent})
      BY SyncAssumption
    <3>2. QED
      BY <2>2, <3>1, EditType, SingletonSeq
  <2>4. /\ src' = src /\ dst' = [dst EXCEPT ![b] = NextOid]
        /\ UNCHANGED <<local, have, pc, run, job>>
    BY <1>2 DEF CustomerCommit, clone
  <2>5. QED
    BY <2>1, <2>3, <2>4, CustomerWriteStep
<1>3. CASE CustomerDelete(b) \/ CustomerFastForward(b, from)
  <2>1. /\ src' = src /\ odb' = odb
        /\ dst' = [dst EXCEPT ![b] = NoOid] \/ dst' = [dst EXCEPT ![b] = dst[from]]
        /\ UNCHANGED <<local, have, pc, run, job>>
    BY <1>3 DEF CustomerDelete, CustomerFastForward, clone
  <2>2. src' \in [Branches -> Oid0'] /\ dst' \in [Branches -> Oid0']
    BY <1>1, <2>1 DEF Oid0
  <2>3. ObjectDatabase(odb') /\ Extends(odb, odb')
    BY <1>1, <2>1
  <2>4. QED
    BY <2>1, <2>2, <2>3, RemoteStep
<1>4. CASE CustomerMerge(b, from)
  <2> DEFINE base == TreeOf(MergeBase(dst[b], dst[from]))
             tree == MergeTree(base, TreeOf(dst[b]), TreeOf(dst[from]))
  <2>1. /\ Write(<<dst[b], dst[from]>>, tree, NoMarker) /\ dst[b] # NoOid /\ dst[from] # NoOid
        /\ src' = src /\ dst' = [dst EXCEPT ![b] = NextOid]
        /\ UNCHANGED <<local, have, pc, run, job>>
    BY <1>4 DEF CustomerMerge, clone
  <2>2. dst[b] \in Oids /\ dst[from] \in Oids
    BY <1>1, <2>1
  <2>3. MergeBase(dst[b], dst[from]) \in Oids \cup {NoOid}
    BY <1>1, <2>2, MergeBaseCommon, CommitFacts
  <2>4. tree \in Trees
    BY <1>1, <2>2, <2>3, TreeOfType, TreesClosed
  <2>5. <<dst[b], dst[from]>> \in Seq(Oids)
    BY <2>2, PairSeq
  <2> HIDE DEF tree
  <2>6. QED
    BY <2>1, <2>4, <2>5, CustomerWriteStep
<1>5. QED
  BY <1>2, <1>3, <1>4

LEMMA NextSyncInv == SyncInv /\ [Next]_vars => SyncInv'
<1> SUFFICES ASSUME SyncInv, [Next]_vars PROVE SyncInv'
  OBVIOUS
<1>1. CASE \E c \in Clones : StartRun(c) \/ Sync(c) \/ Crash(c)
  BY <1>1, SyncStep
<1>2. CASE Environment
  BY <1>2, DeveloperStep, CustomerStep DEF Environment
<1>3. CASE UNCHANGED vars
  <2>1. UNCHANGED <<odb, src, dst, local, have, pc, run, job>>
    BY <1>3 DEF vars
  <2>2. QED
    BY <2>1 DEF SyncInv, Table, Oid0
<1>4. QED
  BY <1>1, <1>2, <1>3 DEF Next

(***************************************************************************)
(* The initial histories.                                                  *)
(***************************************************************************)
LEMMA InitialTrees ==
    /\ Trees # {} /\ EmptyTree \in Trees /\ OwnTree \in Trees
    /\ \A t \in Trees : Managed(t) \in Trees
<1>1. (CHOOSE v \in Values \ Private : v # Pinned) \in Values
  BY HistoryAssumption
<1>2. EmptyTree \in Trees
  BY TreesClosed
<1>3. OwnTree \in Trees
  BY <1>1, <1>2 DEF OwnTree, Trees
<1>4. \A t \in Trees : Managed(t) \in Trees
  BY TreeAssumption DEF Managed, Trees
<1>5. QED
  BY <1>2, <1>3, <1>4

LEMMA InitialMarkers ==
    /\ Main \in Branches /\ Other \in Branches /\ Other # Main
    /\ NoMarker \in Markers({0})
    /\ SetupMarker \in Markers(0 .. 1) /\ SetupMarker \in Markers(0 .. 2)
<1>1. Main \in Branches
  BY SyncAssumption, HistoryAssumption DEF Main
<1>2. Other \in Branches /\ Other # Main
  BY HistoryAssumption DEF Other
<1>3. QED
  BY <1>1, <1>2 DEF NoMarker, SetupMarker, Marker, Markers, NoOid, Directions

(* A well-formed commit with oid i, but for the ancestry of its ancestors. *)
Sound(x, i) ==
    /\ x \in Commits
    /\ x.parents \in Seq(1 .. i - 1) /\ x.marker \in Markers(0 .. i - 1)
    /\ x.line \in Seq(1 .. i) /\ x.line # <<>>
    /\ i \in x.anc /\ x.anc \subseteq 1 .. i
    /\ \A k \in DOMAIN x.line : x.line[k] \in x.anc
    /\ \A k \in DOMAIN x.parents : x.parents[k] \in x.anc

LEMMA SoundHistory ==
    ASSUME NEW db \in Seq(Commits),
           \A o \in 1 .. Len(db) :
              Sound(db[o], o) /\ \A a \in db[o].anc : db[a].anc \subseteq db[o].anc
    PROVE  ObjectDatabase(db)
<1>1. \A o \in 1 .. Len(db) : db[o] \in Commits
  BY ElementOfSeq
<1>2. \A o \in 1 .. Len(db) : db[o].tree \in Trees
  BY <1>1 DEF Commits
<1>3. QED
  BY <1>2 DEF ObjectDatabase, WellFormed, Sound

LEMMA SoundRecord ==
    ASSUME NEW i \in Nat \ {0}, NEW parents \in Seq(1 .. i - 1), NEW tree \in Trees,
           NEW marker \in Markers(0 .. i - 1), NEW line \in Seq(1 .. i), line # <<>>,
           NEW anc \in SUBSET (1 .. i), i \in anc,
           \A k \in DOMAIN line : line[k] \in anc,
           \A k \in DOMAIN parents : parents[k] \in anc
    PROVE  Sound([parents |-> parents, tree |-> tree, marker |-> marker,
                  line |-> line, anc |-> anc], i)
<1>1. parents \in Seq(Nat) /\ line \in Seq(Nat)
  BY SeqMonotonic
<1>2. marker \in Markers(Nat)
  BY DEF Markers
<1>3. anc \in SUBSET Nat
  OBVIOUS
<1>4. QED
  BY <1>1, <1>2, <1>3 DEF Commits, Sound

LEMMA SoundRoot ==
    ASSUME NEW i \in Nat \ {0}, NEW tree \in Trees
    PROVE  Sound(Root(i, tree), i) /\ Root(i, tree).anc = {i}
<1>1. NoMarker \in Markers(0 .. i - 1)
  BY DEF NoMarker, Markers, NoOid
<1>2. /\ i \in 1 .. i /\ <<i>> \in Seq(1 .. i) /\ <<i>> # <<>> /\ <<>> \in Seq(1 .. i - 1)
      /\ {i} \in SUBSET (1 .. i) /\ i \in {i}
  OBVIOUS
<1>3. \A k \in DOMAIN <<i>> : <<i>>[k] \in {i}
  OBVIOUS
<1>4. \A k \in DOMAIN <<>> : <<>>[k] \in {i}
  OBVIOUS
<1> DEFINE parents == <<>>
           line == <<i>>
           anc == {i}
<1>5. /\ parents \in Seq(1 .. i - 1) /\ line \in Seq(1 .. i) /\ line # <<>>
      /\ anc \in SUBSET (1 .. i) /\ i \in anc /\ \A k \in DOMAIN line : line[k] \in anc
      /\ \A k \in DOMAIN parents : parents[k] \in anc
  BY <1>2, <1>3, <1>4
<1>6. Root(i, tree) = [parents |-> parents, tree |-> tree, marker |-> NoMarker,
                       line |-> line, anc |-> anc]
  BY DEF Root
<1>7. anc = {i}
  OBVIOUS
<1> HIDE DEF parents, line, anc
<1>8. Sound([parents |-> parents, tree |-> tree, marker |-> NoMarker,
              line |-> line, anc |-> anc], i)
  BY <1>1, <1>5, SoundRecord
<1>9. QED
  BY <1>6, <1>7, <1>8

(* What a child with oid i may be made of. *)
ChildParts(i, parents, tree, marker, line) ==
    /\ i \in Nat \ {0}
    /\ parents \in Seq(1 .. i - 1)
    /\ tree \in Trees
    /\ marker \in Markers(0 .. i - 1)
    /\ line \in Seq(1 .. i) /\ line # <<>>

LEMMA SoundChild ==
    ASSUME NEW i, NEW parents, NEW tree, NEW marker, NEW line,
           ChildParts(i, parents, tree, marker, line)
    PROVE  /\ Sound(Child(i, parents, tree, marker, line), i)
           /\ Child(i, parents, tree, marker, line).anc = 1 .. i
<1>1. /\ i \in Nat \ {0} /\ parents \in Seq(1 .. i - 1) /\ tree \in Trees
      /\ marker \in Markers(0 .. i - 1) /\ line \in Seq(1 .. i) /\ line # <<>>
  BY DEF ChildParts
<1>2. /\ i \in 1 .. i /\ \A k \in DOMAIN line : line[k] \in 1 .. i
      /\ \A k \in DOMAIN parents : parents[k] \in 1 .. i
  BY <1>1
<1>3. QED
  BY <1>1, <1>2, SoundRecord DEF Child

(* The commits the histories are made of. *)
LEMMA SecondCommits ==
    \A tree \in Trees : \A marker \in {NoMarker, SetupMarker} :
        LET x == Child(2, <<1>>, tree, marker, <<2, 1>>)
        IN  Sound(x, 2) /\ x.anc = 1 .. 2
<1> SUFFICES ASSUME NEW tree \in Trees, NEW marker \in {NoMarker, SetupMarker}
             PROVE  /\ Sound(Child(2, <<1>>, tree, marker, <<2, 1>>), 2)
                    /\ Child(2, <<1>>, tree, marker, <<2, 1>>).anc = 1 .. 2
  OBVIOUS
<1>1. <<1>> \in Seq(1 .. 1) /\ <<2, 1>> \in Seq(1 .. 2) /\ <<2, 1>> # <<>>
  BY SingletonSeq, PairSeq
<1>2. marker \in Markers(0 .. 1)
  BY InitialMarkers DEF Markers, NoMarker, NoOid
<1>3. ChildParts(2, <<1>>, tree, marker, <<2, 1>>)
  BY <1>1, <1>2 DEF ChildParts
<1>4. QED
  BY <1>3, SoundChild

ThirdParents == {<<2>>, <<2, 1>>}

LEMMA ThirdCommits ==
    \A tree \in Trees : \A marker \in {NoMarker, SetupMarker} :
    \A parents \in ThirdParents :
        LET x == Child(3, parents, tree, marker, <<3, 2, 1>>)
        IN  Sound(x, 3) /\ x.anc = 1 .. 3
<1> SUFFICES ASSUME NEW tree \in Trees, NEW marker \in {NoMarker, SetupMarker},
                    NEW parents \in ThirdParents
             PROVE  /\ Sound(Child(3, parents, tree, marker, <<3, 2, 1>>), 3)
                    /\ Child(3, parents, tree, marker, <<3, 2, 1>>).anc = 1 .. 3
  OBVIOUS
<1>1. parents \in Seq(1 .. 2) /\ <<3, 2, 1>> \in Seq(1 .. 3) /\ <<3, 2, 1>> # <<>>
  <2>1. <<2>> \in Seq(1 .. 2) /\ <<2, 1>> \in Seq(1 .. 2)
    BY SingletonSeq, PairSeq
  <2>2. <<3, 2, 1>> \in Seq(1 .. 3) /\ <<3, 2, 1>> # <<>>
    OBVIOUS
  <2>3. QED
    BY <2>1, <2>2 DEF ThirdParents
<1>2. marker \in Markers(0 .. 2)
  BY InitialMarkers DEF Markers, NoMarker, NoOid
<1>3. ChildParts(3, parents, tree, marker, <<3, 2, 1>>)
  BY <1>1, <1>2 DEF ChildParts
<1>4. QED
  BY <1>3, SoundChild

LEMMA GraftHistory ==
    /\ ObjectDatabase(Histories.graft) /\ Len(Histories.graft) = 2
    /\ Histories.graft[1].anc = {1} /\ Histories.graft[2].anc = 1 .. 2
<1> DEFINE one == Root(1, EmptyTree)
           two == Child(2, <<1>>, Managed(EmptyTree), SetupMarker, <<2, 1>>)
           db == <<one, two>>
<1>1. Histories.graft = db
  BY DEF Histories
<1>2. Sound(one, 1) /\ one.anc = {1}
  BY InitialTrees, SoundRoot
<1>3. Sound(two, 2) /\ two.anc = 1 .. 2
  BY InitialTrees, SecondCommits
<1> HIDE DEF one, two
<1>4. one \in Commits /\ two \in Commits
  BY <1>2, <1>3 DEF Sound
<1>5. db \in Seq(Commits) /\ Len(db) = 2 /\ db[1] = one /\ db[2] = two /\ 1 .. 2 = {1, 2}
  BY <1>4
<1> HIDE DEF db
<1>6. ObjectDatabase(db)
  BY <1>2, <1>3, <1>5, SoundHistory
<1>7. QED
  BY <1>1, <1>2, <1>3, <1>5, <1>6

LEMMA MergeHistory ==
    /\ ObjectDatabase(Histories.merge) /\ Len(Histories.merge) = 3
    /\ \A o \in 1 .. 3 : Histories.merge[o].anc = 1 .. o
<1> DEFINE one == Root(1, EmptyTree)
           two == Child(2, <<1>>, OwnTree, NoMarker, <<2, 1>>)
           three == Child(3, <<2, 1>>, Managed(OwnTree), SetupMarker, <<3, 2, 1>>)
           db == <<one, two, three>>
<1>1. Histories.merge = db
  BY DEF Histories
<1>2. Sound(one, 1) /\ one.anc = {1}
  BY InitialTrees, SoundRoot
<1>3. Sound(two, 2) /\ two.anc = 1 .. 2
  BY InitialTrees, SecondCommits
<1>4. Sound(three, 3) /\ three.anc = 1 .. 3
  BY InitialTrees, ThirdCommits DEF ThirdParents
<1> HIDE DEF one, two, three
<1>5. one \in Commits /\ two \in Commits /\ three \in Commits
  BY <1>2, <1>3, <1>4 DEF Sound
<1>6. /\ db \in Seq(Commits) /\ Len(db) = 3
      /\ db[1] = one /\ db[2] = two /\ db[3] = three
      /\ 1 .. 3 = {1, 2, 3} /\ 1 .. 2 = {1, 2} /\ 1 .. 1 = {1}
  BY <1>5
<1> HIDE DEF db
<1>7. ObjectDatabase(db)
  BY <1>2, <1>3, <1>4, <1>6, SoundHistory
<1>8. QED
  BY <1>1, <1>2, <1>3, <1>4, <1>6, <1>7

LEMMA OrphanHistory ==
    /\ ObjectDatabase(Histories.orphan) /\ Len(Histories.orphan) = 4
    /\ Histories.orphan[1].anc = {1} /\ Histories.orphan[2].anc = 1 .. 2
    /\ Histories.orphan[3].anc = {3} /\ Histories.orphan[4].anc = {4}
<1> DEFINE one == Root(1, EmptyTree)
           two == Child(2, <<1>>, Managed(EmptyTree), SetupMarker, <<2, 1>>)
           three == Root(3, EmptyTree)
           four == Root(4, EmptyTree)
           db == <<one, two, three, four>>
<1>1. Histories.orphan = db
  BY DEF Histories
<1>2. /\ Sound(one, 1) /\ one.anc = {1}
      /\ Sound(three, 3) /\ three.anc = {3}
      /\ Sound(four, 4) /\ four.anc = {4}
  BY InitialTrees, SoundRoot
<1>3. Sound(two, 2) /\ two.anc = 1 .. 2
  BY InitialTrees, SecondCommits
<1> HIDE DEF one, two, three, four
<1>5. one \in Commits /\ two \in Commits /\ three \in Commits /\ four \in Commits
  BY <1>2, <1>3 DEF Sound
<1>6. /\ db \in Seq(Commits) /\ Len(db) = 4
      /\ db[1] = one /\ db[2] = two /\ db[3] = three /\ db[4] = four
      /\ 1 .. 4 = {1, 2, 3, 4} /\ 1 .. 2 = {1, 2}
  BY <1>5
<1> HIDE DEF db
<1>7. ObjectDatabase(db)
  BY <1>2, <1>3, <1>6, SoundHistory
<1>8. QED
  BY <1>1, <1>2, <1>3, <1>6, <1>7

LEMMA MirroredHistory ==
    /\ ObjectDatabase(Histories.mirrored) /\ Len(Histories.mirrored) = 4
    /\ \A o \in 1 .. 3 : Histories.mirrored[o].anc = 1 .. o
    /\ Histories.mirrored[4].anc = {1, 4}
<1> DEFINE one == Root(1, EmptyTree)
           two == Child(2, <<1>>, Managed(EmptyTree), SetupMarker, <<2, 1>>)
           three == Child(3, <<2>>, Managed(OwnTree), NoMarker, <<3, 2, 1>>)
           marker == Marker("SourceToDest", Other, 3)
           parents == <<1>>
           line == <<4, 1>>
           anc == {1, 4}
           four == [parents |-> parents, tree |-> OwnTree, marker |-> marker,
                    line |-> line, anc |-> anc]
           db == <<one, two, three, four>>
<1>1. Histories.mirrored = db
  BY DEF Histories
<1>2. Sound(one, 1) /\ one.anc = {1}
  BY InitialTrees, SoundRoot
<1>3. Sound(two, 2) /\ two.anc = 1 .. 2
  BY InitialTrees, SecondCommits
<1>4. Sound(three, 3) /\ three.anc = 1 .. 3
  BY InitialTrees, ThirdCommits DEF ThirdParents
<1>5. Sound(four, 4) /\ four.anc = {1, 4}
  <2>1. parents \in Seq(1 .. 3) /\ line \in Seq(1 .. 4) /\ line # <<>>
    BY SingletonSeq, PairSeq
  <2>2. marker \in Markers(0 .. 3)
    BY InitialMarkers DEF Marker, Markers, Directions
  <2>3. /\ anc \in SUBSET (1 .. 4) /\ 4 \in anc
        /\ \A k \in DOMAIN line : line[k] \in anc
        /\ \A k \in DOMAIN parents : parents[k] \in anc
    OBVIOUS
  <2>4. four = [parents |-> parents, tree |-> OwnTree, marker |-> marker,
                line |-> line, anc |-> anc] /\ four.anc = anc /\ anc = {1, 4}
    OBVIOUS
  <2>5. 4 \in Nat \ {0} /\ 4 - 1 = 3 /\ OwnTree \in Trees
    BY InitialTrees
  <2> HIDE DEF parents, line, marker, anc, four
  <2>6. QED
    BY <2>1, <2>2, <2>3, <2>4, <2>5, SoundRecord
<1> HIDE DEF one, two, three, four
<1>6. one \in Commits /\ two \in Commits /\ three \in Commits /\ four \in Commits
  BY <1>2, <1>3, <1>4, <1>5 DEF Sound
<1>7. /\ db \in Seq(Commits) /\ Len(db) = 4
      /\ db[1] = one /\ db[2] = two /\ db[3] = three /\ db[4] = four
      /\ 1 .. 4 = {1, 2, 3, 4} /\ 1 .. 3 = {1, 2, 3} /\ 1 .. 2 = {1, 2} /\ 1 .. 1 = {1}
  BY <1>6
<1> HIDE DEF db
<1>8. ObjectDatabase(db)
  BY <1>2, <1>3, <1>4, <1>5, <1>7, SoundHistory
<1>9. QED
  BY <1>1, <1>2, <1>3, <1>4, <1>5, <1>7, <1>8

(***************************************************************************)
(* Initially every commit a ref names is in odb with all of its history,   *)
(* and a clone has just what its branches name.                            *)
(***************************************************************************)
Reach(db, tips) == UNION {db[o].anc : o \in tips}

LEMMA ReachClosed ==
    ASSUME NEW db, ObjectDatabase(db), NEW tips \in SUBSET (1 .. Len(db))
    PROVE  Closed(db, Reach(db, tips)) /\ tips \subseteq Reach(db, tips)
<1>1. \A o \in 1 .. Len(db) : /\ db[o].anc \subseteq 1 .. o /\ o \in db[o].anc
                              /\ \A a \in db[o].anc : db[a].anc \subseteq db[o].anc
  BY DEF ObjectDatabase, WellFormed
<1>2. Len(db) \in Nat
  BY DEF ObjectDatabase
<1>3. \A o \in 1 .. Len(db) : db[o].anc \subseteq 1 .. Len(db)
  BY <1>1, <1>2
<1>4. ASSUME NEW a \in Reach(db, tips)
      PROVE  a \in 1 .. Len(db) /\ db[a].anc \subseteq Reach(db, tips)
  <2>1. PICK o \in tips : a \in db[o].anc
    BY DEF Reach
  <2>2. db[a].anc \subseteq db[o].anc
    BY <1>1, <2>1
  <2>3. QED
    BY <1>3, <2>1, <2>2 DEF Reach
<1>5. tips \subseteq Reach(db, tips)
  BY <1>1 DEF Reach
<1>6. QED
  BY <1>4, <1>5 DEF Closed

LEMMA InitialRefs ==
    ASSUME NEW origin \in Origins
    PROVE  /\ ObjectDatabase(Histories[origin])
           /\ SourceRefs(origin) \in [Branches -> 0 .. Len(Histories[origin])]
           /\ DestRefs(origin) \in [Branches -> 0 .. Len(Histories[origin])]
<1>1. origin \in {"graft", "merge", "orphan", "mirrored"}
  BY HistoryAssumption DEF Histories
<1>2. CASE origin = "graft"
  BY <1>2, GraftHistory DEF SourceRefs, DestRefs, NoOid
<1>3. CASE origin = "merge"
  BY <1>3, MergeHistory DEF SourceRefs, DestRefs, NoOid
<1>4. CASE origin = "orphan"
  BY <1>4, OrphanHistory DEF SourceRefs, DestRefs, NoOid
<1>5. CASE origin = "mirrored"
  BY <1>5, MirroredHistory DEF SourceRefs, DestRefs, NoOid
<1>6. QED
  BY <1>1, <1>2, <1>3, <1>4, <1>5

LEMMA InitSyncInv == Init => SyncInv
<1> SUFFICES ASSUME Init PROVE SyncInv
  OBVIOUS
<1>1. PICK origin \in Origins :
        /\ odb = Histories[origin]
        /\ src = SourceRefs(origin)
        /\ dst = DestRefs(origin)
        /\ local = [c \in Clones |-> SourceRefs(origin)]
        /\ have = [c \in Clones |-> UNION {Anc(SourceRefs(origin)[b]) :
                                  b \in {x \in Branches : SourceRefs(origin)[x] # NoOid}}]
        /\ pc = [c \in Clones |-> "idle"]
        /\ run = [c \in Clones |-> NoRun]
        /\ job = [c \in Clones |-> NoJob]
  BY DEF Init
<1> DEFINE tips == {src[b] : b \in {x \in Branches : src[x] # NoOid}}
<1>2. /\ ObjectDatabase(odb) /\ src \in [Branches -> Oid0] /\ dst \in [Branches -> Oid0]
      /\ Oid0 = 0 .. Len(odb) /\ Len(odb) \in Nat
  <2>1. Len(odb) \in Nat /\ Oid0 = 0 .. Len(odb)
    BY <1>1, InitialRefs DEF ObjectDatabase, Oid0, Oids, NoOid
  <2>2. QED
    BY <1>1, <2>1, InitialRefs
<1>3. tips \in SUBSET (1 .. Len(odb))
  BY <1>2 DEF NoOid
<1>4. UNION {Anc(src[b]) : b \in {x \in Branches : src[x] # NoOid}} = Reach(odb, tips)
  BY DEF Reach, Anc
<1>5. Closed(odb, Reach(odb, tips)) /\ tips \subseteq Reach(odb, tips)
  BY <1>2, <1>3, ReachClosed
<1>6. src \in [Branches -> Reach(odb, tips) \cup {NoOid}]
  BY <1>2, <1>5
<1> HIDE DEF tips
<1>7. ASSUME NEW c \in Clones
      PROVE  /\ local[c] = src /\ have[c] = Reach(odb, tips)
             /\ pc[c] = "idle" /\ run[c] = NoRun /\ job[c] = NoJob
  BY <1>1, <1>4
<1>8. ASSUME NEW c \in Clones
      PROVE  CloneInv(odb, local[c], have[c], pc[c], run[c], job[c])
  <2>1. CloneInv(odb, src, Reach(odb, tips), "idle", NoRun, NoJob)
    BY <1>5, <1>6, IdleClone
  <2>2. QED
    BY <1>7, <2>1
<1>9. Reach(odb, tips) \in SUBSET Nat /\ src \in [Branches -> Nat]
  BY <1>2, <1>5 DEF Closed
<1>10. /\ local \in [Clones -> [Branches -> Nat]] /\ have \in [Clones -> SUBSET Nat]
       /\ Table(pc) /\ Table(run) /\ Table(job)
  BY <1>1, <1>4, <1>9 DEF Table
<1>11. QED
  BY <1>2, <1>8, <1>10 DEF SyncInv

(***************************************************************************)
(* In every reachable state, whatever clones, branches, trees and bounds:  *)
(* every ref, every local branch and every object a clone has is of a      *)
(* well-formed commit, and a clone that has a commit has all of its        *)
(* history, through fetches, rewrites, reuse, lost races and crashes.      *)
(***************************************************************************)
THEOREM TypeOKHolds == Spec => []TypeOK
<1>1. SyncInv => TypeOK
  BY SyncInvTypeOK
<1>2. Init => SyncInv
  BY InitSyncInv
<1>3. SyncInv /\ [Next]_vars => SyncInv'
  BY NextSyncInv
<1>4. QED
  BY <1>1, <1>2, <1>3, PTL DEF Spec

(***************************************************************************)
(* NoLeak is not inductive: a run pushes what it built several steps       *)
(* before, on what it read from dest, from markers and from the index.     *)
(* CleanOids are the commits with nothing private at an excluded path in   *)
(* all of their history.  Every dest commit a run holds is one of them,    *)
(* and a marker only ever speaks of clean dest commits: a projection is    *)
(* clean, and so is what an import or a graft names as its counterpart.    *)
(***************************************************************************)
CleanOids(db) ==
    {o \in 1 .. Len(db) : \A a \in db[o].anc : \A p \in Excluded : db[a].tree[p] \notin Private}

CleanMarkers(db) ==
    \A o \in 1 .. Len(db) :
        /\ db[o].marker.dir = "SourceToDest" => o \in CleanOids(db)
        /\ db[o].marker.dir \in {"Setup", "DestToSource"} =>
              db[o].marker.counterpart \in CleanOids(db)

CleanRun(C, r) ==
    /\ r.heads \in [Branches -> C \cup {NoOid}]
    /\ Canonicals(r.index) \subseteq C

CleanJob(C, p, j) ==
    /\ {j.seen, j.bridge} \subseteq C \cup {NoOid}
    /\ p = "import_build" => j.pending \in Seq(C)
    /\ p \in {"build", "push_dest"} => j.chain \in C
    /\ \A m \in j.built : m[2] \in C

LeakInv ==
    /\ CleanMarkers(odb)
    /\ dst \in [Branches -> CleanOids(odb) \cup {NoOid}]
    /\ \A c \in Clones : CleanRun(CleanOids(odb), run[c]) /\ CleanJob(CleanOids(odb), pc[c], job[c])

LEMMA LeakInvNoLeak == LeakInv => NoLeak
BY DEF LeakInv, NoLeak, Clean, CleanOids, Anc

(***************************************************************************)
(* Clean commits.                                                          *)
(***************************************************************************)
LEMMA CleanAncestors ==
    ASSUME ObjectDatabase(odb), NEW o \in CleanOids(odb)
    PROVE  o \in Oids /\ Anc(o) \subseteq CleanOids(odb)
<1>1. o \in Oids
  BY DEF CleanOids, Oids
<1>2. ASSUME NEW a \in Anc(o) PROVE a \in CleanOids(odb)
  <2>1. a \in Oids /\ Anc(a) \subseteq Anc(o)
    BY <1>1, CommitFacts
  <2>2. QED
    BY <2>1 DEF CleanOids, Anc, Oids
<1>3. QED
  BY <1>1, <1>2

LEMMA CleanExtends ==
    ASSUME ObjectDatabase(odb), Extends(odb, odb')
    PROVE  CleanOids(odb) \subseteq CleanOids(odb')
<1>1. ASSUME NEW o \in CleanOids(odb) PROVE o \in CleanOids(odb')
  <2>1. o \in Oids /\ Anc(o) \subseteq Oids
    BY CleanAncestors, CommitFacts
  <2>2. odb'[o] = odb[o] /\ \A a \in odb[o].anc : odb'[a] = odb[a]
    BY <2>1 DEF Extends, Oids, Anc
  <2>3. o \in 1 .. Len(odb')
    BY <2>1 DEF Extends, Oids, ObjectDatabase
  <2>4. QED
    BY <2>2, <2>3 DEF CleanOids
<1>2. QED
  BY <1>1

(* A commit on top of clean ones, with nothing private at an excluded path *)
(* of its own tree, is clean.                                              *)
LEMMA CleanWrite ==
    ASSUME ObjectDatabase(odb), NEW parents \in Seq(CleanOids(odb)), NEW tree, NEW marker,
           Write(parents, tree, marker), \A p \in Excluded : tree[p] \notin Private
    PROVE  NextOid \in CleanOids(odb')
<1>1. /\ Extends(odb, odb') /\ NextOid \in 1 .. Len(odb') /\ odb'[NextOid].tree = tree
      /\ odb'[NextOid].anc = {NextOid} \cup UNION {Anc(parents[i]) : i \in DOMAIN parents}
  BY WriteAppends
<1>2. \A i \in DOMAIN parents : Anc(parents[i]) \subseteq CleanOids(odb)
  BY CleanAncestors
<1>3. CleanOids(odb) \subseteq CleanOids(odb')
  BY <1>1, CleanExtends
<1>4. ASSUME NEW a \in CleanOids(odb) PROVE \A p \in Excluded : odb'[a].tree[p] \notin Private
  <2>1. a \in Anc(a) /\ odb'[a] = odb[a]
    BY <1>1, CleanAncestors, CommitFacts DEF Extends, Oids
  <2>2. QED
    BY <2>1 DEF CleanOids, Anc
<1>5. \A a \in odb'[NextOid].anc : \A p \in Excluded : odb'[a].tree[p] \notin Private
  BY <1>1, <1>2, <1>4
<1>6. QED
  BY <1>1, <1>5 DEF CleanOids

LEMMA CleanMarkersWrite ==
    ASSUME ObjectDatabase(odb), CleanMarkers(odb), NEW parents, NEW tree, NEW marker,
           Write(parents, tree, marker),
           marker.dir = "SourceToDest" => NextOid \in CleanOids(odb'),
           marker.dir \in {"Setup", "DestToSource"} => marker.counterpart \in CleanOids(odb)
    PROVE  CleanMarkers(odb')
<1>1. /\ Extends(odb, odb') /\ Len(odb') = NextOid /\ NextOid = Len(odb) + 1
      /\ Len(odb) \in Nat /\ odb'[NextOid].marker = marker
  BY WriteAppends DEF NextOid, ObjectDatabase
<1>2. CleanOids(odb) \subseteq CleanOids(odb')
  BY <1>1, CleanExtends
<1>3. ASSUME NEW o \in 1 .. Len(odb')
      PROVE  /\ odb'[o].marker.dir = "SourceToDest" => o \in CleanOids(odb')
             /\ odb'[o].marker.dir \in {"Setup", "DestToSource"} =>
                   odb'[o].marker.counterpart \in CleanOids(odb')
  <2>1. CASE o \in 1 .. Len(odb)
    <3>1. odb'[o] = odb[o]
      BY <1>1, <2>1 DEF Extends
    <3>2. QED
      BY <1>2, <2>1, <3>1 DEF CleanMarkers
  <2>2. CASE o = NextOid
    BY <1>1, <1>2, <2>2
  <2>3. QED
    BY <1>1, <2>1, <2>2
<1>4. QED
  BY <1>3 DEF CleanMarkers

(***************************************************************************)
(* What a marker of a mapping record speaks of.                            *)
(***************************************************************************)
LEMMA CleanProjection ==
    ASSUME ObjectDatabase(odb), CleanMarkers(odb), NEW o \in Oids,
           VerifySelf(o, {"SourceToDest"})
    PROVE  DestCommitMapping(o).canonical \in CleanOids(odb)
<1>1. o \in CleanOids(odb)
  BY DEF CleanMarkers, VerifySelf, Oids
<1>2. SourceToDestAlias(o) => odb[o].parents[1] \in Anc(o)
  <2>1. odb[o].parents \in Seq(Anc(o) \ {o})
    BY CommitFacts
  <2>2. QED
    BY <2>1 DEF SourceToDestAlias
<1>3. QED
  BY <1>1, <1>2, CleanAncestors DEF DestCommitMapping, Mapping

LEMMA CleanIndex ==
    ASSUME ObjectDatabase(odb), CleanMarkers(odb),
           NEW sourceHeads \in SUBSET Oids, NEW destHeads \in SUBSET Oids
    PROVE  Canonicals(Reconstruct(sourceHeads, destHeads)) \subseteq CleanOids(odb)
<1> DEFINE Lines(heads) == UNION {ToSet(Line(h)) : h \in heads}
<1>1. ASSUME NEW h \in Oids PROVE ToSet(Line(h)) \subseteq Oids
  <2>1. Line(h) \in Seq(Oids)
    BY CommitFacts, SeqMonotonic
  <2>2. QED
    BY <2>1 DEF ToSet
<1>2. Lines(sourceHeads) \subseteq Oids /\ Lines(destHeads) \subseteq Oids
  BY <1>1
<1>3. Reconstruct(sourceHeads, destHeads) =
        {SourceCommitMapping(o) : o \in {x \in Lines(sourceHeads) : LoopPrevented(x)}}
        \cup {DestCommitMapping(o) :
                o \in {x \in Lines(destHeads) : VerifySelf(x, {"SourceToDest"})}}
  BY DEF Reconstruct
<1> HIDE DEF Lines
<1>4. ASSUME NEW o \in Lines(sourceHeads), LoopPrevented(o)
      PROVE  SourceCommitMapping(o).canonical \in CleanOids(odb)
  <2>1. odb[o].marker.dir \in {"Setup", "DestToSource"} /\ o \in 1 .. Len(odb)
    BY <1>2, <1>4 DEF LoopPrevented, VerifySelf, Oids
  <2>2. odb[o].marker.counterpart \in CleanOids(odb)
    BY <2>1 DEF CleanMarkers
  <2>3. QED
    BY <2>2 DEF SourceCommitMapping, Mapping, Counterpart
<1>5. ASSUME NEW o \in Lines(destHeads), VerifySelf(o, {"SourceToDest"})
      PROVE  DestCommitMapping(o).canonical \in CleanOids(odb)
  BY <1>2, <1>5, CleanProjection
<1>6. QED
  BY <1>3, <1>4, <1>5 DEF Canonicals

(***************************************************************************)
(* Trees: what a replay or a customer writes at excluded paths.            *)
(***************************************************************************)
CleanTree(t) == \A p \in Excluded : t[p] \notin Private

LEMMA TreeOfClean ==
    ASSUME ObjectDatabase(odb), NEW o \in CleanOids(odb) PROVE CleanTree(TreeOf(o))
<1>1. o \in Oids /\ o \in Anc(o)
  BY CleanAncestors, CommitFacts
<1>2. o # NoOid
  BY <1>1 DEF Oids, NoOid
<1>3. QED
  BY <1>1, <1>2 DEF CleanTree, CleanOids, TreeOf, Anc

(* A replay leaves excluded paths as they are on dest. *)
LEMMA ReplayClean ==
    ASSUME NEW before, NEW ours, NEW after, CleanTree(ours)
    PROVE  CleanTree(MergeTree(FilterTree(before), ours, FilterTree(after)))
BY TreeAssumption DEF CleanTree, MergeTree, FilterTree

LEMMA MergeClean ==
    ASSUME NEW base, NEW ours, NEW theirs, CleanTree(ours), CleanTree(theirs)
    PROVE  CleanTree(MergeTree(base, ours, theirs))
BY TreeAssumption DEF CleanTree, MergeTree

LEMMA CustomerEditClean ==
    ASSUME ObjectDatabase(odb), NEW o \in CleanOids(odb), NEW e \in CustomerEdits
    PROVE  CleanTree(Edit(o, e))
<1>1. e[2] \notin Private /\ CleanTree(TreeOf(o)) /\ TreeOf(o) \in Trees
  BY SyncAssumption, TreeOfClean, TreeOfType, CleanAncestors
<1>2. QED
  BY <1>1, TreeAssumption DEF Edit, CleanTree, Trees

(***************************************************************************)
(* Steps.                                                                  *)
(***************************************************************************)
LEMMA CleanRunGrows ==
    ASSUME NEW C, NEW D, C \subseteq D, NEW p, NEW r, NEW j
    PROVE  /\ CleanRun(C, r) => CleanRun(D, r)
           /\ CleanJob(C, p, j) => CleanJob(D, p, j)
<1>1. j.pending \in Seq(C) => j.pending \in Seq(D)
  BY SeqMonotonic
<1>2. QED
  BY <1>1 DEF CleanRun, CleanJob

LEMMA CleanIdle == ASSUME NEW C PROVE CleanRun(C, NoRun) /\ CleanJob(C, "idle", NoJob)
BY DEF CleanRun, CleanJob, NoRun, NoJob, Canonicals

(* What the two invariants say of clone c. *)
LEMMA CleanClone ==
    ASSUME SyncInv, LeakInv, NEW c \in Clones
    PROVE  /\ ObjectDatabase(odb) /\ CleanMarkers(odb)
           /\ dst \in [Branches -> CleanOids(odb) \cup {NoOid}]
           /\ CleanRun(CleanOids(odb), run[c]) /\ CleanJob(CleanOids(odb), pc[c], job[c])
           /\ DOMAIN NoRun \subseteq DOMAIN run[c] /\ DOMAIN NoJob \subseteq DOMAIN job[c]
BY Untouched DEF SyncInv, LeakInv, CloneInv, RunRefs, JobRefs

LEMMA LeakStep ==
    ASSUME SyncInv, LeakInv, NEW c \in Clones, Extends(odb, odb'), CleanMarkers(odb'),
           dst' \in [Branches -> CleanOids(odb') \cup {NoOid}],
           pc' = [pc EXCEPT ![c] = pc'[c]], run' = [run EXCEPT ![c] = run'[c]],
           job' = [job EXCEPT ![c] = job'[c]],
           CleanRun(CleanOids(odb'), run'[c]), CleanJob(CleanOids(odb'), pc'[c], job'[c])
    PROVE  LeakInv'
<1>1. CleanOids(odb) \subseteq CleanOids(odb')
  BY CleanExtends DEF SyncInv
<1>2. ASSUME NEW d \in Clones
      PROVE  CleanRun(CleanOids(odb'), run'[d]) /\ CleanJob(CleanOids(odb'), pc'[d], job'[d])
  <2>1. CASE d = c
    BY <2>1
  <2>2. CASE d # c
    <3>1. run'[d] = run[d] /\ pc'[d] = pc[d] /\ job'[d] = job[d]
      BY <2>2 DEF SyncInv, Table
    <3>2. CleanRun(CleanOids(odb), run[d]) /\ CleanJob(CleanOids(odb), pc[d], job[d])
      BY DEF LeakInv
    <3>3. QED
      BY <1>1, <3>1, <3>2, CleanRunGrows
  <2>3. QED
    BY <2>1, <2>2
<1>3. QED
  BY <1>2 DEF LeakInv

(* A step that writes no commit. *)
LEMMA LeakRunStep ==
    ASSUME SyncInv, LeakInv, NEW c \in Clones, odb' = odb,
           dst' \in [Branches -> CleanOids(odb) \cup {NoOid}],
           pc' = [pc EXCEPT ![c] = pc'[c]], run' = [run EXCEPT ![c] = run'[c]],
           job' = [job EXCEPT ![c] = job'[c]],
           CleanRun(CleanOids(odb), run'[c]), CleanJob(CleanOids(odb), pc'[c], job'[c])
    PROVE  LeakInv'
<1>1. Extends(odb, odb') /\ CleanMarkers(odb') /\ CleanOids(odb') = CleanOids(odb)
  BY DEF LeakInv, Extends, SyncInv, ObjectDatabase
<1>2. QED
  BY <1>1, LeakStep

LEMMA LeakAbort ==
    ASSUME SyncInv, LeakInv, NEW c \in Clones, odb' = odb,
           dst' \in [Branches -> CleanOids(odb) \cup {NoOid}], NEW why, Abort(c, why)
    PROVE  LeakInv'
<1>1. /\ pc' = [pc EXCEPT ![c] = "idle"] /\ run' = [run EXCEPT ![c] = NoRun]
      /\ job' = [job EXCEPT ![c] = NoJob]
  BY DEF Abort
<1>2. pc'[c] = "idle" /\ run'[c] = NoRun /\ job'[c] = NoJob
  BY <1>1 DEF SyncInv, Table
<1>3. QED
  BY <1>1, <1>2, CleanIdle, LeakRunStep

LEMMA LeakNextBranch ==
    ASSUME SyncInv, LeakInv, NEW c \in Clones, odb' = odb, dst' = dst,
           NEW halts, NextBranch(c, halts)
    PROVE  LeakInv'
<1>1. /\ pc' = [pc EXCEPT ![c] = "select"] /\ job' = [job EXCEPT ![c] = NoJob]
      /\ run' = [run EXCEPT ![c] = [run[c] EXCEPT !.halted = run[c].halted \cup halts]]
  BY DEF NextBranch
<1>2. /\ pc'[c] = "select" /\ job'[c] = NoJob
      /\ run'[c] = [run[c] EXCEPT !.halted = run[c].halted \cup halts]
  BY <1>1 DEF SyncInv, Table
<1>3. run'[c].heads = run[c].heads /\ run'[c].index = run[c].index
  BY <1>2, CleanClone DEF NoRun
<1>4. CleanRun(CleanOids(odb), run'[c])
  BY <1>3, CleanClone DEF CleanRun
<1>5. CleanJob(CleanOids(odb), pc'[c], job'[c])
  BY <1>2 DEF CleanJob, NoJob
<1>6. QED
  BY <1>1, <1>2, <1>4, <1>5, CleanClone, LeakRunStep

LEMMA LeakNextImport ==
    ASSUME SyncInv, LeakInv, NEW c \in Clones, odb' = odb, dst' = dst,
           NEW halts, NextImport(c, halts)
    PROVE  LeakInv'
<1>1. /\ pc' = [pc EXCEPT ![c] = "import"] /\ job' = [job EXCEPT ![c] = NoJob]
      /\ run' = [run EXCEPT ![c] = [run[c] EXCEPT !.imports = Tail(run[c].imports),
                                                  !.halted = run[c].halted \cup halts]]
  BY DEF NextImport
<1>2. /\ pc'[c] = "import" /\ job'[c] = NoJob
      /\ run'[c] = [run[c] EXCEPT !.imports = Tail(run[c].imports),
                                  !.halted = run[c].halted \cup halts]
  BY <1>1 DEF SyncInv, Table
<1>3. run'[c].heads = run[c].heads /\ run'[c].index = run[c].index
  BY <1>2, CleanClone DEF NoRun
<1>4. CleanRun(CleanOids(odb), run'[c])
  BY <1>3, CleanClone DEF CleanRun
<1>5. CleanJob(CleanOids(odb), pc'[c], job'[c])
  BY <1>2 DEF CleanJob, NoJob
<1>6. QED
  BY <1>1, <1>2, <1>4, <1>5, CleanClone, LeakRunStep

(* A step that leaves c's run alone, and perhaps writes a commit. *)
LEMMA LeakJobStep ==
    ASSUME SyncInv, LeakInv, NEW c \in Clones, Extends(odb, odb'), CleanMarkers(odb'),
           dst' = dst, run' = run,
           pc' = [pc EXCEPT ![c] = pc'[c]], job' = [job EXCEPT ![c] = job'[c]],
           CleanJob(CleanOids(odb'), pc'[c], job'[c])
    PROVE  LeakInv'
<1>1. CleanOids(odb) \subseteq CleanOids(odb')
  BY CleanExtends DEF SyncInv
<1>2. dst' \in [Branches -> CleanOids(odb') \cup {NoOid}]
  BY <1>1 DEF LeakInv
<1>3. CleanRun(CleanOids(odb'), run'[c]) /\ run' = [run EXCEPT ![c] = run'[c]]
  BY <1>1, CleanClone, CleanRunGrows, Untouched
<1>4. QED
  BY <1>2, <1>3, LeakStep

(* A step of the environment. *)
LEMMA LeakEnvironmentStep ==
    ASSUME SyncInv, LeakInv, Extends(odb, odb'), CleanMarkers(odb'),
           dst' \in [Branches -> CleanOids(odb') \cup {NoOid}], UNCHANGED <<pc, run, job>>
    PROVE  LeakInv'
<1>1. CleanOids(odb) \subseteq CleanOids(odb')
  BY CleanExtends DEF SyncInv
<1>2. QED
  BY <1>1, CleanRunGrows DEF LeakInv

LEMMA NothingWritten ==
    ASSUME SyncInv, LeakInv, odb' = odb
    PROVE  Extends(odb, odb') /\ CleanMarkers(odb') /\ CleanOids(odb') = CleanOids(odb)
BY DEF LeakInv, Extends, SyncInv, ObjectDatabase

(***************************************************************************)
(* The steps of a run, up to the plan.                                     *)
(***************************************************************************)
LEMMA LeakStartRun == ASSUME SyncInv, LeakInv, NEW c \in Clones, StartRun(c) PROVE LeakInv'
<1>1. PICK recreate \in SUBSET {b \in Recreatable : local[c][b] # NoOid} :
        run' = [run EXCEPT ![c] =
                  [NoRun EXCEPT !.names = {b \in Branches : dst[b] # NoOid},
                                !.sources = {b \in Branches : local[c][b] # NoOid},
                                !.recreate = recreate, !.imports = Configured]]
  BY DEF StartRun
<1>2. /\ pc[c] = "idle" /\ pc' = [pc EXCEPT ![c] = "fetch_heads"]
      /\ odb' = odb /\ dst' = dst /\ job' = job
  BY DEF StartRun, remotes
<1>3. /\ run'[c].heads = [b \in Branches |-> NoOid] /\ run'[c].index = {}
      /\ run' = [run EXCEPT ![c] = run'[c]]
      /\ pc'[c] = "fetch_heads" /\ pc' = [pc EXCEPT ![c] = pc'[c]]
  BY <1>1, <1>2 DEF SyncInv, Table, NoRun
<1>4. CleanRun(CleanOids(odb), run'[c])
  BY <1>3 DEF CleanRun, Canonicals
<1>5. CleanJob(CleanOids(odb), pc'[c], job'[c])
  BY <1>2, <1>3, CleanClone DEF CleanJob
<1>6. QED
  BY <1>2, <1>3, <1>4, <1>5, CleanClone, Untouched, LeakRunStep

LEMMA LeakFetchHeads == ASSUME SyncInv, LeakInv, NEW c \in Clones, FetchHeads(c) PROVE LeakInv'
<1>1. odb' = odb /\ dst' = dst /\ pc[c] = "fetch_heads"
  BY DEF FetchHeads, remotes
<1>2. CASE Abort(c, "fetch")
  BY <1>1, <1>2, CleanClone, LeakAbort
<1>3. CASE ~ Abort(c, "fetch")
  <2> DEFINE heads == [b \in Branches |-> IF b \in run[c].names THEN dst[b] ELSE NoOid]
  <2>1. /\ run' = [run EXCEPT ![c] = [run[c] EXCEPT !.heads = heads]]
        /\ pc' = [pc EXCEPT ![c] = "import"] /\ job' = job
    BY <1>3 DEF FetchHeads
  <2>2. heads \in [Branches -> CleanOids(odb) \cup {NoOid}]
    BY CleanClone
  <2> HIDE DEF heads
  <2>3. /\ run'[c].heads = heads /\ run'[c].index = run[c].index
        /\ run' = [run EXCEPT ![c] = run'[c]]
        /\ pc'[c] = "import" /\ pc' = [pc EXCEPT ![c] = pc'[c]]
    BY <2>1, CleanClone DEF SyncInv, Table, NoRun
  <2>4. CleanRun(CleanOids(odb), run'[c])
    BY <2>2, <2>3, CleanClone DEF CleanRun
  <2>5. CleanJob(CleanOids(odb), pc'[c], job'[c])
    BY <1>1, <2>1, <2>3, CleanClone DEF CleanJob
  <2>6. QED
    BY <1>1, <2>1, <2>3, <2>4, <2>5, CleanClone, Untouched, LeakRunStep
<1>4. QED
  BY <1>2, <1>3

LEMMA LeakPrepareImport ==
    ASSUME SyncInv, LeakInv, NEW c \in Clones, NEW b \in run[c].names, NEW tip, NEW attempt,
           pc[c] \notin {"idle", "fetch_heads"}, odb' = odb, dst' = dst,
           PrepareImport(c, b, tip, attempt)
    PROVE  LeakInv'
<1> DEFINE head == run[c].heads[b]
<1>1. CASE Abort(c, "boundary")
  BY <1>1, CleanClone, LeakAbort
<1>2. CASE ~ Abort(c, "boundary")
  <2>1. PICK boundary :
          /\ job' = [job EXCEPT ![c] =
                [NoJob EXCEPT !.branch = b, !.attempt = attempt, !.tip = tip,
                              !.seen = head, !.boundary = boundary, !.chain = tip,
                              !.pending = PendingCommits(boundary, head)]]
          /\ pc' = [pc EXCEPT ![c] = "import_build"] /\ run' = run
    BY <1>2 DEF PrepareImport
  <2>2. head \in CleanOids(odb)
    <3>1. head # NoOid /\ b \in Branches
      BY Untouched DEF CloneInv, RunRefs
    <3>2. QED
      BY <3>1, CleanClone DEF CleanRun
  <2> HIDE DEF head
  <2>3. PendingCommits(boundary, head) \in Seq(CleanOids(odb))
    <3>1. PendingCommits(boundary, head) \in Seq(Anc(head))
      BY <2>2, CleanClone, CleanAncestors, PendingCommitsOfTip
    <3>2. QED
      BY <2>2, <3>1, CleanClone, CleanAncestors, SeqMonotonic
  <2>4. /\ job'[c].seen = head /\ job'[c].pending = PendingCommits(boundary, head)
        /\ job'[c].bridge = NoOid /\ job'[c].built = {}
        /\ job' = [job EXCEPT ![c] = job'[c]]
        /\ pc'[c] = "import_build" /\ pc' = [pc EXCEPT ![c] = pc'[c]]
    BY <2>1 DEF SyncInv, Table, NoJob
  <2>5. CleanJob(CleanOids(odb), pc'[c], job'[c])
    BY <2>2, <2>3, <2>4 DEF CleanJob
  <2>6. QED
    BY <2>1, <2>4, <2>5, NothingWritten, LeakJobStep
<1>3. QED
  BY <1>1, <1>2

LEMMA LeakImports ==
    ASSUME SyncInv, LeakInv, NEW c \in Clones,
           SkipImport(c) \/ BeginImport(c) \/ RefetchSource(c) \/ NothingToPush(c)
    PROVE  LeakInv'
<1>1. odb' = odb /\ dst' = dst
  BY DEF SkipImport, BeginImport, RefetchSource, NothingToPush, remotes
<1>2. CASE \E why : Abort(c, why)
  BY <1>1, <1>2, CleanClone, LeakAbort
<1>3. CASE \E halts : NextImport(c, halts)
  BY <1>1, <1>3, LeakNextImport
<1>4. CASE BeginImport(c) /\ ~ Abort(c, "fetch")
  <2>1. /\ pc[c] = "import" /\ Head(run[c].imports) \in run[c].names
        /\ \E tip : PrepareImport(c, Head(run[c].imports), tip, 0)
    BY <1>4 DEF BeginImport
  <2>2. QED
    BY <1>1, <2>1, LeakPrepareImport
<1>5. CASE RefetchSource(c) /\ ~ Abort(c, "fetch")
  <2>1. /\ pc[c] = "import_refetch"
        /\ PrepareImport(c, job[c].branch, src[job[c].branch], job[c].attempt)
    BY <1>5 DEF RefetchSource
  <2>2. job[c].branch \in run[c].names
    BY <2>1, Untouched DEF CloneInv, JobRefs, Importing
  <2>3. QED
    BY <1>1, <2>1, <2>2, LeakPrepareImport
<1>6. QED
  BY <1>2, <1>3, <1>4, <1>5 DEF SkipImport, NothingToPush

LEMMA LeakReplayToSource ==
    ASSUME SyncInv, LeakInv, NEW c \in Clones, ReplayToSource(c) PROVE LeakInv'
<1> DEFINE o == Head(job[c].pending)
           tree == MergeTree(TreeOf(FirstParent(o)), TreeOf(job[c].chain), TreeOf(o))
           marker == Marker("DestToSource", job[c].branch, o)
<1>1. /\ dst' = dst /\ run' = run /\ pc' = pc /\ pc[c] = "import_build"
      /\ pc' = [pc EXCEPT ![c] = pc'[c]] /\ job[c].pending # <<>>
  BY Untouched DEF ReplayToSource, remotes
<1>2. /\ CleanJob(CleanOids(odb), "import_build", job[c])
      /\ job[c].pending \in Seq(CleanOids(odb))
  BY <1>1, CleanClone DEF CleanJob
<1>3. o \in CleanOids(odb) /\ Tail(job[c].pending) \in Seq(CleanOids(odb))
  BY <1>1, <1>2, HeadTailProperties
<1> HIDE DEF o
<1>4. CASE job' = [job EXCEPT ![c] = [job[c] EXCEPT !.pending = Tail(job[c].pending)]]
           /\ odb' = odb
  <2>1. /\ job'[c].pending = Tail(job[c].pending) /\ job'[c].seen = job[c].seen
        /\ job'[c].bridge = job[c].bridge /\ job'[c].built = job[c].built
        /\ job' = [job EXCEPT ![c] = job'[c]]
    BY <1>4, CleanClone DEF SyncInv, Table, NoJob
  <2>2. CleanJob(CleanOids(odb), "import_build", job'[c])
    BY <1>2, <1>3, <2>1 DEF CleanJob
  <2>3. QED
    BY <1>1, <1>4, <2>1, <2>2, NothingWritten, LeakJobStep
<1>5. CASE job' = [job EXCEPT ![c] = [job[c] EXCEPT !.pending = <<>>, !.conflict = o]]
           /\ odb' = odb
  <2>1. /\ job'[c].pending = <<>> /\ job'[c].seen = job[c].seen
        /\ job'[c].bridge = job[c].bridge /\ job'[c].built = job[c].built
        /\ job' = [job EXCEPT ![c] = job'[c]]
    BY <1>5, CleanClone DEF SyncInv, Table, NoJob
  <2>2. CleanJob(CleanOids(odb), "import_build", job'[c])
    BY <1>2, <2>1 DEF CleanJob
  <2>3. QED
    BY <1>1, <1>5, <2>1, <2>2, NothingWritten, LeakJobStep
<1>6. CASE /\ Write(<<job[c].chain>>, tree, marker)
           /\ job' = [job EXCEPT ![c] = [job[c] EXCEPT !.pending = Tail(job[c].pending),
                                                       !.chain = NextOid]]
  <2>1. marker.dir = "DestToSource" /\ marker.counterpart = o
    BY DEF Marker
  <2> HIDE DEF tree, marker
  <2>2. Extends(odb, odb') /\ CleanMarkers(odb') /\ CleanOids(odb) \subseteq CleanOids(odb')
    BY <1>3, <1>6, <2>1, CleanClone, WriteAppends, CleanMarkersWrite, CleanExtends
  <2>3. /\ job'[c].pending = Tail(job[c].pending) /\ job'[c].seen = job[c].seen
        /\ job'[c].bridge = job[c].bridge /\ job'[c].built = job[c].built
        /\ job' = [job EXCEPT ![c] = job'[c]]
    BY <1>6, CleanClone DEF SyncInv, Table, NoJob
  <2>4. CleanJob(CleanOids(odb), "import_build", job'[c])
    BY <1>2, <1>3, <2>3 DEF CleanJob
  <2>5. CleanJob(CleanOids(odb'), "import_build", job'[c])
    BY <2>2, <2>4, CleanRunGrows
  <2>6. QED
    BY <1>1, <2>2, <2>3, <2>5, LeakJobStep
<1>7. QED
  BY <1>4, <1>5, <1>6 DEF ReplayToSource, o

LEMMA LeakPushToSource ==
    ASSUME SyncInv, LeakInv, NEW c \in Clones,
           PushToSource(c) \/ AdvanceLocalSourceBranch(c)
    PROVE  LeakInv'
<1>1. odb' = odb /\ dst' = dst
  BY DEF PushToSource, AdvanceLocalSourceBranch, remotes
<1>2. CASE \E why : Abort(c, why)
  BY <1>1, <1>2, CleanClone, LeakAbort
<1>3. CASE NextImport(c, {})
  BY <1>1, <1>3, LeakNextImport
<1>4. CASE /\ run' = run /\ \E p \in {"import_advance", "import_refetch"} : pc' = [pc EXCEPT ![c] = p]
           /\ \/ job' = [job EXCEPT ![c] = [job[c] EXCEPT !.expected = local[c][job[c].branch]]]
              \/ job' = [job EXCEPT ![c] = [job[c] EXCEPT !.attempt = job[c].attempt + 1]]
  <2>1. /\ job'[c].seen = job[c].seen
        /\ job'[c].bridge = job[c].bridge /\ job'[c].built = job[c].built
        /\ job' = [job EXCEPT ![c] = job'[c]]
        /\ pc'[c] \in {"import_advance", "import_refetch"} /\ pc' = [pc EXCEPT ![c] = pc'[c]]
    BY <1>4, CleanClone DEF SyncInv, Table, NoJob
  <2>2. CleanJob(CleanOids(odb), pc'[c], job'[c])
    BY <2>1, CleanClone DEF CleanJob
  <2>3. QED
    BY <1>1, <1>4, <2>1, <2>2, NothingWritten, LeakJobStep
<1>5. QED
  BY <1>2, <1>3, <1>4 DEF PushToSource, AdvanceLocalSourceBranch

LEMMA LeakReconstruct ==
    ASSUME SyncInv, LeakInv, NEW c \in Clones, ReconstructMappingIndex(c) PROVE LeakInv'
<1> DEFINE sourceHeads == {local[c][b] : b \in run[c].sources}
           destHeads == {run[c].heads[b] : b \in run[c].names}
           index == Reconstruct(sourceHeads, destHeads)
<1>1. /\ odb' = odb /\ dst' = dst /\ job' = job
      /\ pc[c] = "import" /\ pc' = [pc EXCEPT ![c] = "select"]
  BY DEF ReconstructMappingIndex, remotes
<1>2. sourceHeads \in SUBSET Oids /\ destHeads \in SUBSET Oids
  <2>1. RunRefs(local[c], have[c], "import", run[c])
    BY <1>1, Untouched DEF CloneInv
  <2>2. \A b \in run[c].sources : local[c][b] \in have[c]
    BY <2>1, Untouched DEF RunRefs
  <2>3. \A b \in run[c].names : run[c].heads[b] \in have[c]
    BY <2>1 DEF RunRefs
  <2>4. QED
    BY <2>2, <2>3, Untouched
<1> HIDE DEF sourceHeads, destHeads
<1>3. Canonicals(index) \subseteq CleanOids(odb)
  BY <1>2, CleanClone, CleanIndex
<1>4. /\ run'[c].heads = run[c].heads /\ run'[c].index = index
      /\ run' = [run EXCEPT ![c] = run'[c]]
  BY CleanClone DEF ReconstructMappingIndex, NoRun, SyncInv, Table, sourceHeads, destHeads
<1> HIDE DEF index
<1>5. CleanRun(CleanOids(odb), run'[c])
  BY <1>3, <1>4, CleanClone DEF CleanRun
<1>6. /\ pc'[c] = "select" /\ pc' = [pc EXCEPT ![c] = pc'[c]]
      /\ job' = [job EXCEPT ![c] = job'[c]] /\ job'[c] = job[c]
  BY <1>1, Untouched DEF SyncInv, Table
<1>7. CleanJob(CleanOids(odb), pc'[c], job'[c])
  BY <1>1, <1>6, CleanClone DEF CleanJob
<1>8. QED
  BY <1>1, <1>4, <1>5, <1>6, <1>7, CleanClone, LeakRunStep

LEMMA LeakSelect == ASSUME SyncInv, LeakInv, NEW c \in Clones, SelectNextBranch(c) PROVE LeakInv'
<1>1. PICK b \in run[c].remaining :
        /\ run' = [run EXCEPT ![c].remaining = @ \ {b},
              ![c].noMapping = @ \cup {a \in run[c].remaining : Distance(c, a) = 0}]
        /\ job' = [job EXCEPT ![c] = [NoJob EXCEPT !.branch = b, !.tip = local[c][b]]]
  BY DEF SelectNextBranch
<1>2. odb' = odb /\ dst' = dst /\ pc' = [pc EXCEPT ![c] = "fetch_dest"]
  BY DEF SelectNextBranch, remotes
<1>3. /\ run'[c].heads = run[c].heads /\ run'[c].index = run[c].index
      /\ run' = [run EXCEPT ![c] = run'[c]]
  BY <1>1, CleanClone DEF NoRun, SyncInv, Table
<1>4. /\ job'[c].seen = NoOid /\ job'[c].bridge = NoOid /\ job'[c].built = {}
      /\ job' = [job EXCEPT ![c] = job'[c]]
      /\ pc'[c] = "fetch_dest" /\ pc' = [pc EXCEPT ![c] = pc'[c]]
  BY <1>1, <1>2 DEF NoJob, SyncInv, Table
<1>5. CleanRun(CleanOids(odb), run'[c])
  BY <1>3, CleanClone DEF CleanRun
<1>6. CleanJob(CleanOids(odb), pc'[c], job'[c])
  BY <1>4 DEF CleanJob
<1>7. QED
  BY <1>2, <1>3, <1>4, <1>5, <1>6, CleanClone, LeakRunStep

LEMMA LeakFinish == ASSUME SyncInv, LeakInv, NEW c \in Clones, Finish(c) PROVE LeakInv'
<1>1. /\ odb' = odb /\ dst' = dst /\ job' = job
      /\ pc[c] = "select" /\ pc' = [pc EXCEPT ![c] = "idle"] /\ run' = [run EXCEPT ![c] = NoRun]
  BY DEF Finish, remotes
<1>2. /\ pc'[c] = "idle" /\ pc' = [pc EXCEPT ![c] = pc'[c]]
      /\ run'[c] = NoRun /\ run' = [run EXCEPT ![c] = run'[c]]
      /\ job'[c] = job[c] /\ job' = [job EXCEPT ![c] = job'[c]]
  BY <1>1, Untouched DEF SyncInv, Table
<1>3. CleanJob(CleanOids(odb), pc'[c], job'[c])
  BY <1>1, <1>2, CleanClone DEF CleanJob
<1>4. CleanRun(CleanOids(odb), run'[c])
  BY <1>2, CleanIdle
<1>5. QED
  BY <1>1, <1>2, <1>3, <1>4, CleanClone, LeakRunStep

LEMMA LeakFetchDest == ASSUME SyncInv, LeakInv, NEW c \in Clones, FetchDest(c) PROVE LeakInv'
<1> DEFINE b == job[c].branch
           exists == run[c].exists[b] = "yes" \/ (run[c].exists[b] = "ask" /\ dst[b] # NoOid)
           known == [run[c].exists EXCEPT ![b] = IF exists THEN "yes" ELSE "no"]
           seen == IF exists THEN dst[b] ELSE NoOid
           mode == IF b \in run[c].recreate THEN "CreateOnly" ELSE "FastForwardOnly"
<1>1. odb' = odb /\ dst' = dst /\ pc[c] = "fetch_dest"
  BY DEF FetchDest, remotes
<1>2. CASE NextBranch(c, {b})
  BY <1>1, <1>2, LeakNextBranch
<1>3. CASE Abort(c, "fetch")
  BY <1>1, <1>3, CleanClone, LeakAbort
<1>4. CASE /\ run' = [run EXCEPT ![c] = [run[c] EXCEPT !.exists = known]]
           /\ job' = [job EXCEPT ![c] = [job[c] EXCEPT !.seen = seen, !.mode = mode]]
           /\ pc' = [pc EXCEPT ![c] = "plan"]
  <2>1. seen \in CleanOids(odb) \cup {NoOid}
    <3>1. b \in Branches
      BY <1>1, Untouched DEF CloneInv, JobRefs, Mirroring
    <3>2. QED
      BY <3>1, CleanClone
  <2> HIDE DEF seen, known, mode
  <2>2. /\ run'[c].heads = run[c].heads /\ run'[c].index = run[c].index
        /\ run' = [run EXCEPT ![c] = run'[c]]
    BY <1>4, CleanClone DEF NoRun, SyncInv, Table
  <2>3. /\ job'[c].seen = seen /\ job'[c].bridge = job[c].bridge
        /\ job'[c].built = job[c].built /\ job' = [job EXCEPT ![c] = job'[c]]
        /\ pc'[c] = "plan" /\ pc' = [pc EXCEPT ![c] = pc'[c]]
    BY <1>4, CleanClone DEF NoJob, SyncInv, Table
  <2>4. CleanRun(CleanOids(odb), run'[c])
    BY <2>2, CleanClone DEF CleanRun
  <2>5. CleanJob(CleanOids(odb), pc'[c], job'[c])
    BY <2>1, <2>3, CleanClone DEF CleanJob
  <2>6. QED
    BY <1>1, <2>2, <2>3, <2>4, <2>5, CleanClone, LeakRunStep
<1>5. QED
  BY <1>2, <1>3, <1>4 DEF FetchDest

(***************************************************************************)
(* The steps of a run that mirrors a branch.                               *)
(***************************************************************************)
LEMMA LeakPlanBuild ==
    ASSUME SyncInv, LeakInv, NEW c \in Clones, pc[c] = "plan", NEW v, NEW reuse,
           v.base \in CleanOids(odb),
           reuse.kind \in {"FastForward", "Bridge"} => reuse.projection \in CleanOids(odb),
           PlanBuild(c, v, reuse), dst' = dst
    PROVE  LeakInv'
<1> DEFINE chain == IF reuse.kind = "Bridge" THEN NextOid
                    ELSE IF reuse.kind = "FastForward" THEN reuse.projection ELSE v.base
           bridge == IF reuse.kind = "Bridge" THEN NextOid ELSE NoOid
<1>1. /\ job'[c].chain = chain /\ job'[c].bridge = bridge /\ job'[c].seen = job[c].seen
      /\ job'[c].built = job[c].built /\ job' = [job EXCEPT ![c] = job'[c]]
  BY CleanClone DEF PlanBuild, NoJob, SyncInv, Table
<1>2. /\ run' = run /\ pc'[c] = "build" /\ pc' = [pc EXCEPT ![c] = pc'[c]]
  BY DEF PlanBuild, SyncInv, Table
<1>3. /\ job[c].seen \in CleanOids(odb) \cup {NoOid}
      /\ \A m \in job[c].built : m[2] \in CleanOids(odb)
  BY CleanClone DEF CleanJob
<1>4. CASE reuse.kind = "Bridge"
  <2> DEFINE marker == Marker("SourceToDest", job[c].branch, reuse.shared)
             parents == <<v.base, reuse.projection>>
             tree == TreeOf(reuse.projection)
  <2>1. Write(parents, tree, marker)
    BY <1>4 DEF PlanBuild
  <2>2. parents \in Seq(CleanOids(odb))
    BY <1>4, PairSeq
  <2>3. CleanTree(tree)
    BY <1>4, CleanClone, TreeOfClean
  <2>4. marker.dir = "SourceToDest"
    BY DEF Marker
  <2>5. chain = NextOid /\ bridge = NextOid
    BY <1>4
  <2> HIDE DEF parents, tree, marker, chain, bridge
  <2>6. NextOid \in CleanOids(odb')
    BY <2>1, <2>2, <2>3, CleanClone, CleanWrite DEF CleanTree
  <2>7. Extends(odb, odb') /\ CleanMarkers(odb') /\ CleanOids(odb) \subseteq CleanOids(odb')
    BY <2>1, <2>4, <2>6, CleanClone, WriteAppends, CleanMarkersWrite, CleanExtends
  <2>8. CleanJob(CleanOids(odb'), pc'[c], job'[c])
    BY <1>1, <1>2, <1>3, <2>5, <2>6, <2>7 DEF CleanJob
  <2>9. QED
    BY <1>1, <1>2, <2>7, <2>8, LeakJobStep
<1>5. CASE reuse.kind # "Bridge"
  <2>1. odb' = odb
    BY <1>5 DEF PlanBuild
  <2>2. chain \in CleanOids(odb) /\ bridge = NoOid
    BY <1>5
  <2> HIDE DEF chain, bridge
  <2>3. CleanJob(CleanOids(odb), pc'[c], job'[c])
    BY <1>1, <1>2, <1>3, <2>2 DEF CleanJob
  <2>4. QED
    BY <1>1, <1>2, <2>1, <2>3, NothingWritten, LeakJobStep
<1>6. QED
  BY <1>4, <1>5

LEMMA LeakPlanBranch == ASSUME SyncInv, LeakInv, NEW c \in Clones, PlanBranch(c) PROVE LeakInv'
<1>1. pc[c] = "plan" /\ dst' = dst
  BY DEF PlanBranch, remotes
<1>2. PICK v, pending, newest, plan :
        /\ v = Resume(c)
        /\ pending = (IF v.do = "build" THEN PendingCommits(v.boundary, job[c].tip) ELSE <<>>)
        /\ newest = NewestShared(have[c], run[c].index, pending, v.base)
        /\ plan = Plan(c, v, pending, newest)
        /\ \/ plan.do = "abort" /\ Abort(c, "resume") /\ UNCHANGED <<odb, have>>
           \/ plan.do = "halt" /\ NextBranch(c, {job[c].branch}) /\ UNCHANGED <<odb, have>>
           \/ plan.do = "skip" /\ NextBranch(c, {}) /\ UNCHANGED <<odb, have>>
           \/ plan.do = "build" /\ PlanBuild(c, v, plan.reuse)
  BY DEF PlanBranch
<1>3. CASE Abort(c, "resume") /\ odb' = odb
  BY <1>1, <1>3, CleanClone, LeakAbort
<1>4. CASE (\E halts : NextBranch(c, halts)) /\ odb' = odb
  BY <1>1, <1>4, LeakNextBranch
<1>5. CASE plan.do = "build" /\ PlanBuild(c, v, plan.reuse)
  <2>1. Canonicals(run[c].index) \subseteq CleanOids(odb) /\ job[c].seen \in CleanOids(odb) \cup {NoOid}
    BY CleanClone DEF CleanRun, CleanJob
  <2>0. /\ pc[c] = "plan" /\ plan.do = "build"
        /\ pending = (IF v.do = "build" THEN PendingCommits(v.boundary, job[c].tip) ELSE <<>>)
        /\ newest = NewestShared(have[c], run[c].index, pending, v.base)
        /\ plan = Plan(c, v, pending, newest)
    BY <1>1, <1>2, <1>5
  <2>2. /\ v.do = "build"
        /\ plan.reuse.kind \in {"FastForward", "Bridge"} =>
              plan.reuse.projection \in have[c] \cap Canonicals(run[c].index)
    BY <2>0, PlanKnown
  <2>3. v.base \in have[c] /\ (v.base = job[c].seen \/ v.base \in Canonicals(run[c].index))
    BY <1>1, <1>2, <2>2, ResumeKnown
  <2>4. v.base # NoOid
    BY <2>3, Untouched DEF Oids, NoOid
  <2>5. QED
    BY <1>1, <1>5, <2>1, <2>2, <2>3, <2>4, LeakPlanBuild
<1>6. QED
  BY <1>2, <1>3, <1>4, <1>5

LEMMA LeakReplayToDest ==
    ASSUME SyncInv, LeakInv, NEW c \in Clones, ReplayToDest(c) PROVE LeakInv'
<1> DEFINE o == Head(job[c].pending)
           before == TreeOf(ReplayParent(o))
           ours == TreeOf(job[c].chain)
           tree == MergeTree(FilterTree(before), ours, FilterTree(TreeOf(o)))
           marker == Marker("SourceToDest", job[c].branch, o)
           parents == <<job[c].chain>>
<1>1. /\ dst' = dst /\ run' = run /\ pc' = pc /\ pc[c] = "build"
      /\ pc' = [pc EXCEPT ![c] = pc'[c]] /\ pc'[c] = "build"
  BY Untouched DEF ReplayToDest, remotes
<1>2. /\ CleanJob(CleanOids(odb), "build", job[c]) /\ job[c].chain \in CleanOids(odb)
      /\ {job[c].seen, job[c].bridge} \subseteq CleanOids(odb) \cup {NoOid}
      /\ \A m \in job[c].built : m[2] \in CleanOids(odb)
  BY <1>1, CleanClone DEF CleanJob
<1>3. CASE /\ odb' = odb
           /\ \/ job' = [job EXCEPT ![c] = [job[c] EXCEPT !.pending = Tail(job[c].pending)]]
              \/ job' = [job EXCEPT ![c] = [job[c] EXCEPT !.pending = <<>>, !.conflict = o]]
  <2> HIDE DEF o
  <2>1. /\ job'[c].chain = job[c].chain /\ job'[c].seen = job[c].seen
        /\ job'[c].bridge = job[c].bridge /\ job'[c].built = job[c].built
        /\ job' = [job EXCEPT ![c] = job'[c]]
    <3>1. /\ DOMAIN NoJob \subseteq DOMAIN job[c]
          /\ \A j : [job EXCEPT ![c] = j][c] = j
      BY CleanClone DEF SyncInv, Table
    <3>2. CASE job' = [job EXCEPT ![c] = [job[c] EXCEPT !.pending = Tail(job[c].pending)]]
      BY <3>1, <3>2 DEF NoJob
    <3>3. CASE job' = [job EXCEPT ![c] = [job[c] EXCEPT !.pending = <<>>, !.conflict = o]]
      BY <3>1, <3>3 DEF NoJob
    <3>4. QED
      BY <1>3, <3>2, <3>3
  <2>2. CleanJob(CleanOids(odb), "build", job'[c])
    BY <1>2, <2>1 DEF CleanJob
  <2>3. QED
    BY <1>1, <1>3, <2>1, <2>2, NothingWritten, LeakJobStep
<1>4. CASE /\ Write(parents, tree, marker)
           /\ job' = [job EXCEPT ![c] = [job[c] EXCEPT
                        !.pending = Tail(job[c].pending), !.chain = NextOid,
                        !.built = job[c].built \cup {<<o, NextOid>>}]]
  <2>1. CleanTree(tree)
    BY <1>2, CleanClone, TreeOfClean, ReplayClean
  <2>2. parents \in Seq(CleanOids(odb)) /\ marker.dir = "SourceToDest"
    BY <1>2, SingletonSeq DEF Marker
  <2> HIDE DEF o, tree, marker, parents
  <2>3. NextOid \in CleanOids(odb')
    BY <1>4, <2>1, <2>2, CleanClone, CleanWrite DEF CleanTree
  <2>4. Extends(odb, odb') /\ CleanMarkers(odb') /\ CleanOids(odb) \subseteq CleanOids(odb')
    BY <1>4, <2>2, <2>3, CleanClone, WriteAppends, CleanMarkersWrite, CleanExtends
  <2>5. /\ job'[c].chain = NextOid /\ job'[c].seen = job[c].seen
        /\ job'[c].bridge = job[c].bridge
        /\ job'[c].built = job[c].built \cup {<<o, NextOid>>}
        /\ job' = [job EXCEPT ![c] = job'[c]]
    BY <1>4, CleanClone DEF SyncInv, Table, NoJob
  <2>6. CleanJob(CleanOids(odb'), "build", job'[c])
    BY <1>2, <2>3, <2>4, <2>5 DEF CleanJob
  <2>7. QED
    BY <1>1, <2>4, <2>5, <2>6, LeakJobStep
<1>5. QED
  BY <1>3, <1>4 DEF ReplayToDest

LEMMA LeakSealToDest == ASSUME SyncInv, LeakInv, NEW c \in Clones, SealToDest(c) PROVE LeakInv'
<1> DEFINE seal == SealCommit(c)
           marker == Marker("SourceToDest", job[c].branch, seal.source)
           parents == <<job[c].chain>>
           tree == TreeOf(job[c].chain)
<1>1. dst' = dst /\ pc[c] = "build"
  BY DEF SealToDest, remotes
<1>2. /\ job[c].chain \in CleanOids(odb) /\ CleanJob(CleanOids(odb), "build", job[c])
      /\ {job[c].seen, job[c].bridge} \subseteq CleanOids(odb) \cup {NoOid}
      /\ \A m \in job[c].built : m[2] \in CleanOids(odb)
  BY <1>1, CleanClone DEF CleanJob
<1>3. CASE (\E why : Abort(c, why)) /\ odb' = odb
  BY <1>1, <1>3, CleanClone, LeakAbort
<1>4. CASE NextBranch(c, {}) /\ odb' = odb
  BY <1>1, <1>4, LeakNextBranch
<1>5. CASE pc' = [pc EXCEPT ![c] = "push_dest"] /\ UNCHANGED <<odb, run, job>>
  <2>1. /\ pc'[c] = "push_dest" /\ pc' = [pc EXCEPT ![c] = pc'[c]]
        /\ job' = [job EXCEPT ![c] = job'[c]] /\ job'[c] = job[c]
    BY <1>5, Untouched DEF SyncInv, Table
  <2>2. CleanJob(CleanOids(odb), pc'[c], job'[c])
    BY <1>2, <2>1 DEF CleanJob
  <2>3. QED
    BY <1>1, <1>5, <2>1, <2>2, NothingWritten, LeakJobStep
<1>6. CASE /\ Write(parents, tree, marker)
           /\ job' = [job EXCEPT ![c] = [job[c] EXCEPT !.chain = NextOid]]
           /\ pc' = [pc EXCEPT ![c] = "push_dest"] /\ run' = run
  <2>1. CleanTree(tree)
    BY <1>2, CleanClone, TreeOfClean
  <2>2. parents \in Seq(CleanOids(odb)) /\ marker.dir = "SourceToDest"
    BY <1>2, SingletonSeq DEF Marker
  <2> HIDE DEF seal, tree, marker, parents
  <2>3. NextOid \in CleanOids(odb')
    BY <1>6, <2>1, <2>2, CleanClone, CleanWrite DEF CleanTree
  <2>4. Extends(odb, odb') /\ CleanMarkers(odb') /\ CleanOids(odb) \subseteq CleanOids(odb')
    BY <1>6, <2>2, <2>3, CleanClone, WriteAppends, CleanMarkersWrite, CleanExtends
  <2>5. /\ job'[c].chain = NextOid /\ job'[c].seen = job[c].seen
        /\ job'[c].bridge = job[c].bridge /\ job'[c].built = job[c].built
        /\ job' = [job EXCEPT ![c] = job'[c]]
        /\ pc'[c] = "push_dest" /\ pc' = [pc EXCEPT ![c] = pc'[c]]
    BY <1>6, CleanClone DEF SyncInv, Table, NoJob
  <2>6. CleanJob(CleanOids(odb'), pc'[c], job'[c])
    BY <1>2, <2>3, <2>4, <2>5 DEF CleanJob
  <2>7. QED
    BY <1>1, <1>6, <2>4, <2>5, <2>6, LeakJobStep
<1>7. QED
  BY <1>3, <1>4, <1>5, <1>6 DEF SealToDest

LEMMA CleanIndexAfterPush ==
    ASSUME SyncInv, LeakInv, NEW c \in Clones, pc[c] = "push_dest"
    PROVE  Canonicals(IndexAfterPush(c)) \subseteq CleanOids(odb)
<1> DEFINE j == job[c]
           index == run[c].index
           kept == IF j.mode = "ForceMirrorOnly"
                   THEN index \ ReplacedChain(index, j.branch, Anc(j.chain)) ELSE index
           pushed == IF j.built = {} THEN {j.chain}
                     ELSE IF j.bridge # NoOid THEN {j.bridge} ELSE {}
           projections == {x \in pushed : VerifySelf(x, {"SourceToDest"})}
<1>1. IndexAfterPush(c) = kept \cup {BuiltMapping(j.branch, m[1], m[2]) : m \in j.built}
                               \cup {DestCommitMapping(o) : o \in projections}
  BY DEF IndexAfterPush
<1>2. /\ Canonicals(index) \subseteq CleanOids(odb) /\ j.chain \in CleanOids(odb)
      /\ j.bridge \in CleanOids(odb) \cup {NoOid}
      /\ \A m \in j.built : m[2] \in CleanOids(odb)
  BY CleanClone DEF CleanRun, CleanJob
<1>3. Canonicals(kept) \subseteq CleanOids(odb)
  BY <1>2 DEF Canonicals
<1>4. \A m \in j.built : BuiltMapping(j.branch, m[1], m[2]).canonical \in CleanOids(odb)
  BY <1>2 DEF BuiltMapping, Mapping
<1>5. pushed \subseteq Oids
  BY <1>2 DEF CleanOids, Oids
<1>6. \A o \in projections : DestCommitMapping(o).canonical \in CleanOids(odb)
  BY <1>5, CleanClone, CleanProjection
<1> HIDE DEF kept, pushed, projections, index, j
<1>7. QED
  BY <1>1, <1>3, <1>4, <1>6 DEF Canonicals

LEMMA LeakPushToDest == ASSUME SyncInv, LeakInv, NEW c \in Clones, PushToDest(c) PROVE LeakInv'
<1> DEFINE b == job[c].branch
<1>1. odb' = odb /\ pc[c] = "push_dest" /\ dst' = [dst EXCEPT ![b] = job[c].chain]
  BY DEF PushToDest
<1>2. dst' \in [Branches -> CleanOids(odb) \cup {NoOid}]
  <2>1. b \in Branches /\ job[c].chain \in CleanOids(odb)
    BY <1>1, Untouched, CleanClone DEF CloneInv, JobRefs, Mirroring, CleanJob
  <2>2. QED
    BY <1>1, <2>1, CleanClone
<1>3. CASE Abort(c, "conflict")
  BY <1>1, <1>2, <1>3, LeakAbort
<1>4. CASE /\ pc' = [pc EXCEPT ![c] = "select"]
           /\ run' = [run EXCEPT ![c].index = IndexAfterPush(c), ![c].exists[b] = "yes"]
           /\ job' = [job EXCEPT ![c] = NoJob]
  <2> DEFINE index == IndexAfterPush(c)
  <2>1. /\ pc'[c] = "select" /\ pc' = [pc EXCEPT ![c] = pc'[c]]
        /\ job'[c] = NoJob /\ job' = [job EXCEPT ![c] = job'[c]]
    BY <1>4 DEF SyncInv, Table
  <2>2. Canonicals(index) \subseteq CleanOids(odb)
    BY <1>1, CleanIndexAfterPush
  <2> HIDE DEF index
  <2>3. /\ run'[c].heads = run[c].heads /\ run'[c].index = index
        /\ run' = [run EXCEPT ![c] = run'[c]]
    BY <1>4, CleanClone DEF NoRun, SyncInv, Table, index
  <2>4. CleanRun(CleanOids(odb), run'[c])
    BY <2>2, <2>3, CleanClone DEF CleanRun
  <2>5. CleanJob(CleanOids(odb), pc'[c], job'[c])
    BY <2>1 DEF CleanJob, NoJob
  <2>6. QED
    BY <1>1, <1>2, <2>1, <2>3, <2>4, <2>5, LeakRunStep
<1>5. QED
  BY <1>3, <1>4 DEF PushToDest

LEMMA LeakPushRejected == ASSUME SyncInv, LeakInv, NEW c \in Clones, PushRejected(c) PROVE LeakInv'
<1> DEFINE b == job[c].branch
<1>1. odb' = odb /\ dst' = dst
  BY DEF PushRejected, remotes
<1>2. CASE NextBranch(c, {b})
  BY <1>1, <1>2, LeakNextBranch
<1>3. CASE Abort(c, "race")
  BY <1>1, <1>3, CleanClone, LeakAbort
<1>4. CASE /\ run' = [run EXCEPT ![c].exists[b] = "ask"]
           /\ job' = [job EXCEPT ![c] = [NoJob EXCEPT !.branch = b, !.tip = job[c].tip,
                                                      !.attempt = job[c].attempt + 1]]
           /\ pc' = [pc EXCEPT ![c] = "fetch_dest"]
  <2>1. /\ pc'[c] = "fetch_dest" /\ pc' = [pc EXCEPT ![c] = pc'[c]]
        /\ job'[c].seen = NoOid /\ job'[c].bridge = NoOid /\ job'[c].built = {}
        /\ job' = [job EXCEPT ![c] = job'[c]]
    BY <1>4 DEF NoJob, SyncInv, Table
  <2>2. /\ run'[c].heads = run[c].heads /\ run'[c].index = run[c].index
        /\ run' = [run EXCEPT ![c] = run'[c]]
    BY <1>4, CleanClone DEF NoRun, SyncInv, Table
  <2>3. CleanRun(CleanOids(odb), run'[c])
    BY <2>2, CleanClone DEF CleanRun
  <2>4. CleanJob(CleanOids(odb), pc'[c], job'[c])
    BY <2>1 DEF CleanJob
  <2>5. QED
    BY <1>1, <2>1, <2>2, <2>3, <2>4, CleanClone, LeakRunStep
<1>5. QED
  BY <1>2, <1>3, <1>4 DEF PushRejected

LEMMA LeakCrash == ASSUME SyncInv, LeakInv, NEW c \in Clones, Crash(c) PROVE LeakInv'
<1>1. odb' = odb /\ dst' = dst /\ Abort(c, "crash")
  BY DEF Crash, remotes
<1>2. QED
  BY <1>1, CleanClone, LeakAbort

LEMMA LeakSync ==
    ASSUME SyncInv, LeakInv, NEW c \in Clones, StartRun(c) \/ Sync(c) \/ Crash(c) PROVE LeakInv'
BY LeakStartRun, LeakCrash, LeakFetchHeads, LeakImports, LeakReplayToSource, LeakPushToSource,
   LeakReconstruct, LeakSelect, LeakFetchDest, LeakPlanBranch, LeakReplayToDest, LeakSealToDest,
   LeakPushToDest, LeakPushRejected, LeakFinish DEF Sync

(***************************************************************************)
(* The environment's steps.                                                *)
(***************************************************************************)
LEMMA LeakDeveloper ==
    ASSUME SyncInv, LeakInv, NEW c \in Clones, NEW b \in Branches, NEW from \in Branches,
           \/ DevCommit(c, b) \/ DevAmend(c, b) \/ DevPush(c, b) \/ DevPull(c, b)
           \/ DevBranch(c, b, from) \/ DevMerge(c, b, from)
    PROVE  LeakInv'
<1>1. dst' = dst /\ UNCHANGED <<pc, run, job>>
  BY DEF DevCommit, DevAmend, DevPush, DevPull, DevBranch, DevMerge, remotes
<1>2. odb' = odb \/ \E parents, tree : Write(parents, tree, NoMarker)
  BY DEF DevCommit, DevAmend, DevPush, DevPull, DevBranch, DevMerge
<1>3. Extends(odb, odb') /\ CleanMarkers(odb')
  <2>1. CASE odb' = odb
    BY <2>1, NothingWritten
  <2>2. CASE \E parents, tree : Write(parents, tree, NoMarker)
    <3>1. PICK parents, tree : Write(parents, tree, NoMarker)
      BY <2>2
    <3>2. NoMarker.dir = "None"
      BY DEF NoMarker
    <3>3. ObjectDatabase(odb) /\ CleanMarkers(odb)
      BY DEF SyncInv, LeakInv
    <3>4. QED
      BY <3>1, <3>2, <3>3, WriteAppends, CleanMarkersWrite
  <2>3. QED
    BY <1>2, <2>1, <2>2
<1>4. dst' \in [Branches -> CleanOids(odb') \cup {NoOid}]
  <2>1. CleanOids(odb) \subseteq CleanOids(odb')
    BY <1>3, CleanExtends DEF SyncInv
  <2>2. QED
    BY <1>1, <2>1 DEF LeakInv
<1>5. QED
  BY <1>1, <1>3, <1>4, LeakEnvironmentStep

(* A customer's commit on dest. *)
LEMMA LeakCustomerWrite ==
    ASSUME SyncInv, LeakInv, NEW b \in Branches, NEW parents \in Seq(CleanOids(odb)),
           NEW tree, CleanTree(tree), Write(parents, tree, NoMarker),
           dst' = [dst EXCEPT ![b] = NextOid], UNCHANGED <<pc, run, job>>
    PROVE  LeakInv'
<1>1. ObjectDatabase(odb) /\ CleanMarkers(odb) /\ NoMarker.dir = "None"
  BY DEF SyncInv, LeakInv, NoMarker
<1>2. NextOid \in CleanOids(odb')
  BY <1>1, CleanWrite DEF CleanTree
<1>3. Extends(odb, odb') /\ CleanMarkers(odb') /\ CleanOids(odb) \subseteq CleanOids(odb')
  BY <1>1, WriteAppends, CleanMarkersWrite, CleanExtends
<1>4. dst' \in [Branches -> CleanOids(odb') \cup {NoOid}]
  BY <1>2, <1>3 DEF LeakInv
<1>5. QED
  BY <1>3, <1>4, LeakEnvironmentStep

LEMMA LeakCustomer ==
    ASSUME SyncInv, LeakInv, NEW b \in Branches, NEW from \in Branches,
           \/ CustomerCommit(b) \/ CustomerDelete(b)
           \/ CustomerFastForward(b, from) \/ CustomerMerge(b, from)
    PROVE  LeakInv'
<1> DEFINE mine == dst[b]
           other == dst[from]
<1>1. /\ mine \in CleanOids(odb) \cup {NoOid} /\ other \in CleanOids(odb) \cup {NoOid}
      /\ dst \in [Branches -> CleanOids(odb) \cup {NoOid}] /\ ObjectDatabase(odb)
  BY DEF SyncInv, LeakInv
<1>2. CASE CustomerCommit(b)
  <2>1. PICK e \in CustomerEdits : Write(<<mine>>, Edit(mine, e), NoMarker)
    BY <1>2 DEF CustomerCommit
  <2>2. /\ mine \in CleanOids(odb) /\ dst' = [dst EXCEPT ![b] = NextOid]
        /\ UNCHANGED <<pc, run, job>>
    BY <1>1, <1>2 DEF CustomerCommit
  <2>3. CleanTree(Edit(mine, e)) /\ <<mine>> \in Seq(CleanOids(odb))
    BY <1>1, <2>2, CustomerEditClean, SingletonSeq
  <2>4. QED
    BY <2>1, <2>2, <2>3, LeakCustomerWrite
<1>3. CASE CustomerDelete(b) \/ CustomerFastForward(b, from)
  <2>1. /\ odb' = odb /\ UNCHANGED <<pc, run, job>>
        /\ dst' = [dst EXCEPT ![b] = NoOid] \/ dst' = [dst EXCEPT ![b] = other]
    BY <1>3 DEF CustomerDelete, CustomerFastForward
  <2>2. Extends(odb, odb') /\ CleanMarkers(odb') /\ CleanOids(odb') = CleanOids(odb)
    BY <2>1, NothingWritten
  <2>3. dst' \in [Branches -> CleanOids(odb') \cup {NoOid}]
    BY <1>1, <2>1, <2>2
  <2>4. QED
    BY <2>1, <2>2, <2>3, LeakEnvironmentStep
<1>4. CASE CustomerMerge(b, from)
  <2> DEFINE base == TreeOf(MergeBase(mine, other))
             tree == MergeTree(base, TreeOf(mine), TreeOf(other))
             parents == <<mine, other>>
  <2>1. /\ Write(parents, tree, NoMarker) /\ mine \in CleanOids(odb) /\ other \in CleanOids(odb)
        /\ dst' = [dst EXCEPT ![b] = NextOid] /\ UNCHANGED <<pc, run, job>>
    BY <1>1, <1>4 DEF CustomerMerge
  <2>2. CleanTree(tree)
    <3>1. CleanTree(TreeOf(mine)) /\ CleanTree(TreeOf(other))
      BY <1>1, <2>1, TreeOfClean
    <3>2. QED
      BY <3>1, MergeClean
  <2>3. parents \in Seq(CleanOids(odb))
    BY <2>1, PairSeq
  <2> HIDE DEF tree, parents
  <2>4. QED
    BY <2>1, <2>2, <2>3, LeakCustomerWrite
<1>5. QED
  BY <1>2, <1>3, <1>4

LEMMA LeakNext == SyncInv /\ LeakInv /\ [Next]_vars => LeakInv'
<1> SUFFICES ASSUME SyncInv, LeakInv, [Next]_vars PROVE LeakInv'
  OBVIOUS
<1>1. CASE \E c \in Clones : StartRun(c) \/ Sync(c) \/ Crash(c)
  BY <1>1, LeakSync
<1>2. CASE Environment
  BY <1>2, LeakDeveloper, LeakCustomer DEF Environment
<1>3. CASE UNCHANGED vars
  <2>1. UNCHANGED <<odb, dst, pc, run, job>>
    BY <1>3 DEF vars
  <2>2. QED
    BY <2>1, NothingWritten DEF LeakInv
<1>4. QED
  BY <1>1, <1>2, <1>3 DEF Next

(***************************************************************************)
(* The initial histories.                                                  *)
(***************************************************************************)
LEMMA InitialTreesClean == CleanTree(EmptyTree) /\ CleanTree(OwnTree)
<1> DEFINE own == CHOOSE v \in Values \ Private : v # Pinned
<1>1. own \notin Private
  BY HistoryAssumption
<1>2. CleanTree(EmptyTree)
  BY TreeAssumption DEF CleanTree, EmptyTree
<1> HIDE DEF own
<1>3. OwnTree = [EmptyTree EXCEPT ![CHOOSE p \in Paths \ Excluded : TRUE] = own]
  BY DEF OwnTree, own
<1>4. CleanTree(OwnTree)
  BY <1>1, <1>2, <1>3, TreeAssumption DEF CleanTree, EmptyTree
<1>5. QED
  BY <1>2, <1>4

(* Every history starts with dest's first commit, which setup names. *)
CleanHistory(db) == 1 \in CleanOids(db) /\ CleanMarkers(db)

LEMMA HistoriesClean ==
    /\ CleanHistory(Histories.graft) /\ CleanHistory(Histories.merge)
    /\ CleanHistory(Histories.orphan) /\ 4 \in CleanOids(Histories.orphan)
    /\ CleanHistory(Histories.mirrored) /\ 4 \in CleanOids(Histories.mirrored)
<1>1. SetupMarker.dir = "Setup" /\ SetupMarker.counterpart = 1 /\ NoMarker.dir = "None"
  BY DEF SetupMarker, Marker, NoMarker
<1>2. \A i, tree : /\ Root(i, tree).tree = tree /\ Root(i, tree).marker = NoMarker
                   /\ Root(i, tree).anc = {i}
  BY DEF Root
<1>3. \A i, parents, tree, marker, line : Child(i, parents, tree, marker, line).marker = marker
  BY DEF Child
<1>4. CleanHistory(Histories.graft)
  <2> DEFINE db == Histories.graft
  <2>1. /\ Len(db) = 2 /\ 1 .. Len(db) = {1, 2}
        /\ db[1] = Root(1, EmptyTree)
        /\ db[2].marker = SetupMarker
    BY <1>3 DEF Histories
  <2> HIDE DEF db
  <2>2. 1 \in CleanOids(db)
    BY <1>2, <2>1, InitialTreesClean DEF CleanOids, CleanTree
  <2>3. CleanMarkers(db)
    BY <1>1, <1>2, <2>1, <2>2 DEF CleanMarkers
  <2>4. QED
    BY <2>2, <2>3 DEF CleanHistory, db
<1>5. CleanHistory(Histories.merge)
  <2> DEFINE db == Histories.merge
  <2>1. /\ Len(db) = 3 /\ 1 .. Len(db) = {1, 2, 3}
        /\ db[1] = Root(1, EmptyTree)
        /\ db[2].marker = NoMarker /\ db[3].marker = SetupMarker
    BY <1>3 DEF Histories
  <2> HIDE DEF db
  <2>2. 1 \in CleanOids(db)
    BY <1>2, <2>1, InitialTreesClean DEF CleanOids, CleanTree
  <2>3. CleanMarkers(db)
    BY <1>1, <1>2, <2>1, <2>2 DEF CleanMarkers
  <2>4. QED
    BY <2>2, <2>3 DEF CleanHistory, db
<1>6. CleanHistory(Histories.orphan) /\ 4 \in CleanOids(Histories.orphan)
  <2> DEFINE db == Histories.orphan
  <2>1. /\ Len(db) = 4 /\ 1 .. Len(db) = {1, 2, 3, 4}
        /\ db[1] = Root(1, EmptyTree) /\ db[2].marker = SetupMarker
        /\ db[3] = Root(3, EmptyTree) /\ db[4] = Root(4, EmptyTree)
    BY <1>3 DEF Histories
  <2> HIDE DEF db
  <2>2. {1, 4} \subseteq CleanOids(db)
    BY <1>2, <2>1, InitialTreesClean DEF CleanOids, CleanTree
  <2>3. CleanMarkers(db)
    BY <1>1, <1>2, <2>1, <2>2 DEF CleanMarkers
  <2>4. QED
    BY <2>2, <2>3 DEF CleanHistory, db
<1>7. CleanHistory(Histories.mirrored) /\ 4 \in CleanOids(Histories.mirrored)
  <2> DEFINE db == Histories.mirrored
             marker == Marker("SourceToDest", Other, 3)
  <2>1. /\ Len(db) = 4 /\ 1 .. Len(db) = {1, 2, 3, 4}
        /\ db[1] = Root(1, EmptyTree) /\ db[2].marker = SetupMarker
        /\ db[3].marker = NoMarker
        /\ db[4].tree = OwnTree /\ db[4].marker = marker /\ db[4].anc = {1, 4}
    BY <1>3 DEF Histories
  <2>2. marker.dir = "SourceToDest"
    BY DEF Marker
  <2> HIDE DEF db, marker
  <2>3. {1, 4} \subseteq CleanOids(db)
    BY <1>2, <2>1, InitialTreesClean DEF CleanOids, CleanTree
  <2>4. CleanMarkers(db)
    BY <1>1, <1>2, <2>1, <2>2, <2>3 DEF CleanMarkers
  <2>5. QED
    BY <2>3, <2>4 DEF CleanHistory, db
<1>8. QED
  BY <1>4, <1>5, <1>6, <1>7

LEMMA LeakInit == Init => LeakInv
<1> SUFFICES ASSUME Init PROVE LeakInv
  OBVIOUS
<1>1. PICK origin \in Origins :
        /\ odb = Histories[origin]
        /\ dst = DestRefs(origin)
        /\ pc = [c \in Clones |-> "idle"]
        /\ run = [c \in Clones |-> NoRun]
        /\ job = [c \in Clones |-> NoJob]
  BY DEF Init
<1>2. origin \in {"graft", "merge", "orphan", "mirrored"}
  BY HistoryAssumption DEF Histories
<1>3. /\ CleanHistory(odb)
      /\ origin \in {"orphan", "mirrored"} => 4 \in CleanOids(odb)
  BY <1>1, <1>2, HistoriesClean
<1>4. dst \in [Branches -> CleanOids(odb) \cup {NoOid}]
  BY <1>1, <1>3 DEF DestRefs, CleanHistory
<1>5. \A c \in Clones : CleanRun(CleanOids(odb), run[c]) /\ CleanJob(CleanOids(odb), pc[c], job[c])
  BY <1>1, CleanIdle
<1>6. QED
  BY <1>3, <1>4, <1>5 DEF LeakInv, CleanHistory

(***************************************************************************)
(* In every reachable state, whatever clones, branches, policy, edits and  *)
(* bounds: no commit in the history of any dest ref has, at a path the     *)
(* pinned .gitprismignore excludes, content only developers write.  No     *)
(* chain of replays, imports, bridges, reused projections, forced rebuilds,*)
(* lost races, crashes and customers' own commits and merges puts it there.*)
(***************************************************************************)
THEOREM NoLeakHolds == Spec => []NoLeak
<1>1. Init => SyncInv /\ LeakInv
  BY InitSyncInv, LeakInit
<1>2. SyncInv /\ LeakInv /\ [Next]_vars => (SyncInv /\ LeakInv)'
  BY NextSyncInv, LeakNext
<1>3. SyncInv /\ LeakInv => NoLeak
  BY LeakInvNoLeak
<1>4. QED
  BY <1>1, <1>2, <1>3, PTL DEF Spec
=============================================================================
