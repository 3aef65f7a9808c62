--------------------------- MODULE SyncProperties ---------------------------
(***************************************************************************)
(* What `gitprism sync` promises, stated over module Sync.                 *)
(***************************************************************************)
EXTENDS Sync

(* Every variable has its type: refs name commits that were written,       *)
(* parents and counterparts are older than the commit that names them, and *)
(* a clone has the whole history of every commit it has, in particular of  *)
(* its own branches (what git.rs's fetches and commits keep up).           *)
Oid0 == 0 .. Len(odb)
CommitType(o) ==
    /\ odb[o].parents \in Seq(1 .. o - 1)
    /\ odb[o].tree \in Trees
    /\ odb[o].marker \in [dir : Directions \cup {"None"}, branch : Branches \cup {"none"},
                          counterpart : 0 .. o - 1]
    /\ odb[o].line \in Seq(1 .. o) /\ odb[o].line # <<>>
    /\ odb[o].anc \subseteq 1 .. o
TypeOK ==
    /\ \A o \in Oids : CommitType(o)
    /\ src \in [Branches -> Oid0]
    /\ dst \in [Branches -> Oid0]
    /\ local \in [Clones -> [Branches -> Oid0]]
    /\ have \in [Clones -> SUBSET Oids]
    /\ \A c \in Clones : \A o \in have[c] : Anc(o) \subseteq have[c]
    /\ \A c \in Clones, b \in Branches : local[c][b] \in have[c] \cup {NoOid}

(***************************************************************************)
(* Dest: what sync pushes there.                                           *)
(***************************************************************************)

(* No content that only developers write reaches dest at a path the policy *)
(* excludes, in any commit of any dest ref's history, whatever chain of    *)
(* replays, imports, bridges, reuses and forced rebuilds put it there.     *)
Clean(o) == \A a \in Anc(o) : \A p \in Excluded : odb[a].tree[p] \notin Private
NoLeak == \A b \in Branches : dst[b] # NoOid => Clean(dst[b])

(* This step is c's push of a new tip to dest's branch b. *)
DestPush(c, b) ==
    /\ pc[c] = "push_dest" /\ pc'[c] # "push_dest"
    /\ job[c].branch = b /\ dst'[b] # dst[b]

(* A push never takes a commit out of a configured branch on dest: even    *)
(* after a developer rewrites such a branch, and whatever moves dest while *)
(* a run is under way, the old tip stays in the new one's history.         *)
RoundTrippedFastForwards ==
    [][\A c \in Clones, b \in Branches :
        DestPush(c, b) /\ RoundTripped(b) /\ dst[b] # NoOid
            => IsAncestor(dst[b], dst'[b])]_vars

(* A push never loses a customer's commit.  What a forced rebuild takes    *)
(* out of a branch gitprism made itself, or source has it: the graft or an *)
(* import on a branch of the source remote stands for a dest commit with   *)
(* it in its history.  (Unless developers may rewrite that branch, and may *)
(* have dropped the import there.)  A customer who commits between the     *)
(* fetch and the forced push is what the lease is for.                     *)
HeldBySource(i) ==
    LET b == odb[i].marker.branch
    IN  b \in Forcible \/ (src[b] # NoOid /\ IsAncestor(i, src[b]))
InSource(o) ==
    \E i \in Oids : LoopPrevented(i) /\ HeldBySource(i) /\ IsAncestor(o, Counterpart(i))
NoCustomerWorkDiscarded ==
    [][\A c \in Clones, b \in Branches :
        DestPush(c, b) /\ dst[b] # NoOid =>
            \A o \in Anc(dst[b]) \ Anc(dst'[b]) :
                VerifySelf(o, {"SourceToDest"}) \/ InSource(o)]_vars

(* A run never publishes a rival of a copy it knows of: whenever it writes *)
(* a projection of a source commit that its index maps, what it builds on  *)
(* has one of the mapped commits in its history already.  Between the      *)
(* index and this step lie the anchor, the resume point, the reuse of      *)
(* other branches' projections, forced pushes and lost races (reuse.rs:    *)
(* "instead of building a second copy").                                   *)
NoRivalCopies ==
    [][\A c \in Clones : \A m \in job'[c].built \ job[c].built :
        LET known == {r \in run[c].index : r.source = m[1]}
        IN  known # {} => \E r \in known : IsAncestor(r.canonical, job[c].chain)]_vars

(* What a run pushes, the next run can resume from: a tip that gitprism    *)
(* leaves on dest is one that its own scan accepts for the source tip it   *)
(* stands for, so that no push can make a later run halt on this branch.   *)
(* The exception is a dest commit that the creation or the rebuild of a    *)
(* ref puts back as it was, and only one that was the branch's already:    *)
(* its own projection, or what a graft or an import of it stands for.      *)
AlreadyOf(b, o, tip) ==
    \/ Verify(o, b, {"SourceToDest"})
    \/ \E m \in Anc(tip) : Verify(m, b, {"Setup", "DestToSource"}) /\ Counterpart(m) = o
PutBack(c, b) ==
    /\ job[c].chain = job[c].base /\ CreatesOrRebuilds(c)
    /\ ~IsAncestor(job[c].base, job[c].tip)
    /\ AlreadyOf(b, job[c].base, job[c].tip)
PushedTipIsResumable ==
    [][\A c \in Clones, b \in Branches :
        DestPush(c, b) /\ ~PutBack(c, b) =>
            DestResumePoint(have'[c], job[c].tip, dst'[b], b).kind = "Ok"]_vars

(* A commit leaves a dest branch only after a rewrite at source: the dest  *)
(* tip that a push replaces names, through its newest marker, a source     *)
(* commit that the source remote's own tip no longer had in its history    *)
(* when the run asked for it.  However stale the clone that pushes, and    *)
(* whoever moves either ref meanwhile.                                     *)
ForcedRebuildFollowsRewrite ==
    [][\A c \in Clones, b \in Branches :
        DestPush(c, b) /\ dst[b] # NoOid /\ ~IsAncestor(dst[b], dst'[b]) =>
            LET lost == NewestSourceMarker(dst[b], b)
            IN  /\ lost # NoOid /\ job[c].advertised # NoOid
                /\ ~IsAncestor(lost, job[c].advertised)]_vars

(* A conflict-free push leaves dest's branch with exactly the content of   *)
(* the source tip, less what the policy excludes ("source -> dest mirrors  *)
(* every branch").  The program cannot promise that where the two sides    *)
(* have diverged: see InStep for where it does.                            *)
MirrorsWhatItPushes ==
    [][\A c \in Clones, b \in Branches :
        DestPush(c, b) /\ job[c].conflict = NoOid
            => TreeOf(dst'[b]) = FilterTree(TreeOf(job[c].tip))]_vars

(* The two sides are in step: dest's tip, or the anchor, has the content   *)
(* of the source commit it stands for, that commit is on source's line,    *)
(* nothing above it was imported from dest, and no projection is reused.   *)
InStep(j) ==
    /\ j.shared = NoOid
    /\ TreeOf(j.base) = FilterTree(TreeOf(j.boundary))
    /\ OnLine(j.boundary, j.tip)
    /\ \A o \in ToSet(Line(j.tip)) \ Anc(j.boundary) : ~LoopPrevented(o)

(* Replaying commit by commit adds up: if source and dest are in step when *)
(* a branch is planned, no replay conflicts, merges, no-ops and filtered   *)
(* commits notwithstanding, and the push leaves on dest exactly the        *)
(* filtered tree of the source tip.                                        *)
StaysInStep ==
    [][\A c \in Clones, b \in Branches :
        DestPush(c, b) /\ InStep(job[c]) =>
            /\ job[c].conflict = NoOid
            /\ TreeOf(dst'[b]) = FilterTree(TreeOf(job[c].tip))]_vars

(* Reusing another branch's projection yields the tree that replaying the  *)
(* same commits onto dest's tip would have: what the proof in reuse.rs     *)
(* sets out to establish without replaying.  An import in between counts   *)
(* as the dest commit it stands for if the projection is built on that.    *)
Changed(tree, o, View(_)) ==
    MergeTree(View(TreeOf(FirstParent(o))), tree, View(TreeOf(o)))
Replayed(base, pending, projection) ==
    LET Replay(tree, o) ==
            IF ~LoopPrevented(o) THEN Changed(tree, o, FilterTree)
            ELSE IF /\ VerifySelf(o, {"DestToSource"})
                    /\ IsAncestor(Counterpart(o), projection)
            THEN Changed(tree, Counterpart(o), LAMBDA t : t)
            ELSE tree
    IN  FoldLeft(Replay, TreeOf(base), pending)
ReuseMatchesReplay ==
    [][\A c \in Clones :
        pc[c] = "plan" /\ pc'[c] = "build" /\ job'[c].shared # NoOid =>
            LET j == job'[c]
            IN  odb'[j.chain].tree =
                   Replayed(j.base, PendingCommits(j.boundary, j.shared), j.chain)]_vars

(* A configured branch that was missing from dest when the run listed it   *)
(* comes back only on request: "neither recreated implicitly"              *)
(* (decisions/0053), though two modules apart decide what is held back and *)
(* what is pushed.                                                         *)
NeverRecreatedImplicitly ==
    [][\A c \in Clones, b \in Branches :
        DestPush(c, b) /\ RoundTripped(b) /\ dst[b] = NoOid /\ b \notin run[c].names
            => b \in run[c].recreate]_vars

(***************************************************************************)
(* Source: what sync imports there.                                        *)
(***************************************************************************)

(* No source branch imports one dest commit twice for one dest branch,     *)
(* whatever races a run lost and wherever it was cut off between its push  *)
(* and its local update.                                                   *)
ImportedOnce ==
    \A b \in Branches : src[b] # NoOid =>
        \A o, x \in {y \in Anc(src[b]) : OnLine(y, src[b]) /\ VerifySelf(y, {"DestToSource"})} :
            odb[o].marker = odb[x].marker => o = x

(* A branch's own projections never come back to it as imports. *)
OwnMirrorNeverImported ==
    \A o \in Oids : VerifySelf(o, {"DestToSource"}) =>
        ~ Verify(Counterpart(o), odb[o].marker.branch, {"SourceToDest"})

(* Importing never loses a developer's commit: neither the source remote's *)
(* branches nor the clone's own lose a commit, though developers move both *)
(* between a run's reads and its writes.                                   *)
Imports(c) == pc[c] \in {"import", "import_build", "import_advance"} /\ pc'[c] # pc[c]
ImportKeepsDeveloperWork ==
    [][\A c \in Clones, b \in Branches :
        Imports(c) =>
            /\ src[b] # NoOid => IsAncestor(src[b], src'[b])
            /\ local[c][b] # NoOid => IsAncestor(local[c][b], local'[c][b])]_vars

(***************************************************************************)
(* Runs.                                                                   *)
(***************************************************************************)

(* Every run ends: lost races, retries and halts never keep it going. *)
RunTerminates == \A c \in Clones : pc[c] # "idle" ~> pc[c] = "idle"

(* What a run still has before it, in the order in which it counts: its    *)
(* phase, the branches left in it, whether one of them is in hand, the     *)
(* retries left for that one, the step it is at, the commits to replay.    *)
Phase(p) ==
    IF p = "idle" THEN 0
    ELSE IF p \in {"select", "fetch_dest", "plan", "build", "push_dest"} THEN 1
    ELSE IF p = "fetch_heads" THEN 3 ELSE 2
Stage(p) ==
    IF p = "fetch_dest" THEN 3
    ELSE IF p \in {"plan", "import_refetch"} THEN 2
    ELSE IF p \in {"build", "import_build"} THEN 1 ELSE 0
Waiting(p, r) == IF Phase(p) = 1 THEN Cardinality(r.remaining) ELSE Len(r.imports)
Turn(p) ==
    IF p \in {"select", "import_build", "import_refetch", "import_advance"} THEN 0 ELSE 1
Outlook(p, r, j) ==
    <<Phase(p), Waiting(p, r), Turn(p), MaxRaceRetries - j.attempt, Stage(p), Len(j.pending)>>

(* x comes before y: at the first place where they differ it is less. *)
Less(x, y) ==
    \E i \in DOMAIN x : x[i] < y[i] /\ \A k \in 1 .. i - 1 : x[k] = y[k]

(* Why every run ends, whoever moves what meanwhile: each step of a run    *)
(* leaves it with less to do, and nobody else changes what it has to do.   *)
(* A lost race starts the branch over, a conflict cuts its commits short,  *)
(* a halt skips it: whatever grows is below something that shrinks.        *)
RunDescends ==
    [][\A c \in Clones : pc[c] # "idle" =>
        LET now == Outlook(pc[c], run[c], job[c])
        IN  /\ \A i \in DOMAIN now : now[i] \in Nat
            /\ \/ Less(Outlook(pc'[c], run'[c], job'[c]), now)
               \/ UNCHANGED <<pc[c], run[c], job[c]>>]_vars

(* The refusal of a discovered branch's resume point never stops the run   *)
(* for the others (decisions/0045).                                        *)
DiscoveredRefusalIsLocal ==
    \A c \in Clones : ~(/\ result[c].kind = "aborted" /\ result[c].why = "resume"
                        /\ ~RoundTripped(result[c].branch))
=============================================================================
