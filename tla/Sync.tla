-------------------------------- MODULE Sync --------------------------------
(***************************************************************************)
(* `gitprism sync`: clones of the source repository that each run it       *)
(* against one shared source remote and one shared dest remote, while      *)
(* developers and customers keep working.  A run imports what customers    *)
(* added on dest (dest->source, configured branches only), then mirrors    *)
(* every local branch (source->dest).  gitprism keeps no state file: what  *)
(* it knows is what it reads back from the markers of earlier runs.        *)
(*                                                                         *)
(* A step ends where a run reads or writes something others can change: a  *)
(* remote ref or a local branch.  What lies between is local to the run.   *)
(***************************************************************************)
EXTENDS Reuse

CONSTANTS
    Clones,          \* checkouts of source, each running at most one sync
    NameOrder,       \* the branches in the order their names sort
    Configured,      \* config.branches, in order: the round-tripped branches
    Recreatable,     \* the branches operators pass to --recreate-dest
    Origins,         \* the histories a clone may start from
    DevEdits,        \* the <<path, content>> edits developers commit
    CustomerEdits,   \* the <<path, content>> edits customers commit
    Forcible,        \* branches whose source ref developers may rewrite
    MaxRaceRetries,  \* lost push races before a branch gives up
    MaxRuns, MaxCrashes, MaxDev, MaxCustomer   \* bounds of the model

ASSUME SyncAssumption ==
    /\ NameOrder \in Seq(Branches) /\ ToSet(NameOrder) = Branches
    /\ Configured \in Seq(Branches)
    /\ Recreatable \subseteq ToSet(Configured)
    /\ DevEdits \subseteq Paths \X (Values \cup {Absent})
    /\ CustomerEdits \subseteq Paths \X ((Values \cup {Absent}) \ Private)
    /\ Forcible \subseteq Branches
    /\ MaxRaceRetries \in Nat

VARIABLES
    src,     \* source remote: branch -> tip, NoOid if there is no such ref
    dst,     \* dest remote
    local,   \* each clone's local branches
    have,    \* the commits in each clone's object database
    pc,      \* what each clone's run does next
    run,     \* run-wide state of each clone's run
    job,     \* state of the branch a run is working on
    result,  \* how each clone's latest run ended
    spent    \* how often the environment acted, for the bounds

remotes == <<src, dst>>
clone == <<local, have>>
vars == <<odb, src, dst, local, have, pc, run, job, result, spent>>

RoundTripped(b) == \E i \in DOMAIN Configured : Configured[i] = b
Rank(b) == SelectInSeq(NameOrder, LAMBDA x : x = b)

PushModes == {"FastForwardOnly", "ForceMirrorOnly", "CreateOnly"}

NoRun ==
    [names     |-> {},                        \* dest's listing at the start
     heads     |-> [b \in Branches |-> NoOid],  \* the dest tips then fetched
     sources   |-> {},                        \* local branches at the start
     recreate  |-> {},                        \* --recreate-dest
     imports   |-> <<>>,                      \* configured branches to import
     halted    |-> {},                        \* branches halted so far
     remaining |-> {},                        \* branches left to mirror
     exists    |-> [b \in Branches |-> "ask"],  \* the dest_ref_exists cache
     noMapping |-> {},                        \* branches_with_no_mapping
     index     |-> {}]                        \* the mapping index

NoJob ==
    [branch |-> "none", attempt |-> 0,
     tip      |-> NoOid,   \* the source tip of this attempt
     seen     |-> NoOid,   \* the dest tip of this attempt
     boundary |-> NoOid,   \* where the pending range starts
     base     |-> NoOid,   \* the dest commit to build from, before reuse
     chain    |-> NoOid,   \* the last commit of the chain being built
     pending  |-> <<>>,    \* the commits still to replay
     built    |-> {},      \* <<source, dest>> of the commits built
     conflict |-> NoOid,   \* the commit whose replay conflicted
     mode     |-> "FastForwardOnly",
     shared   |-> NoOid,   \* the source commit of a reused projection
     bridge   |-> NoOid,   \* the bridge to it
     advertised |-> NoOid, \* source's remote tip, read before a rebuild
     expected |-> NoOid]   \* the local tip that the push replaced

(***************************************************************************)
(* Initial states: what `gitprism setup` leaves, published and cloned.     *)
(* "graft": main starts as a graft onto dest's tip.  "merge": main had a   *)
(* commit of its own, which setup merged with dest's tip, and an unmanaged *)
(* branch still points at it.  "orphan": next to a grafted main, source    *)
(* and dest each have a branch of one name with nothing in common.         *)
(* "mirrored": an earlier run has mirrored a branch with one commit.       *)
(***************************************************************************)
OwnTree == [EmptyTree EXCEPT ![CHOOSE p \in Paths \ Excluded : TRUE] =
                                CHOOSE v \in Values \ Private : v # Pinned]
Managed(t) == [t EXCEPT ![ControlFile] = Pinned]
Root(i, tree) == [parents |-> <<>>, tree |-> tree, marker |-> NoMarker,
                  line |-> <<i>>, anc |-> {i}]
Child(i, parents, tree, marker, line) ==
    [parents |-> parents, tree |-> tree, marker |-> marker, line |-> line, anc |-> 1 .. i]

Main == Configured[1]
Other == CHOOSE b \in Branches : b # Main
SetupMarker == Marker("Setup", Main, 1)

Histories ==
    [graft |-> <<Root(1, EmptyTree),
                 Child(2, <<1>>, Managed(EmptyTree), SetupMarker, <<2, 1>>)>>,
     merge |-> <<Root(1, EmptyTree),
                 Child(2, <<1>>, OwnTree, NoMarker, <<2, 1>>),
                 Child(3, <<2, 1>>, Managed(OwnTree), SetupMarker, <<3, 2, 1>>)>>,
     orphan |-> <<Root(1, EmptyTree),
                  Child(2, <<1>>, Managed(EmptyTree), SetupMarker, <<2, 1>>),
                  Root(3, EmptyTree), Root(4, EmptyTree)>>,
     mirrored |-> <<Root(1, EmptyTree),
                    Child(2, <<1>>, Managed(EmptyTree), SetupMarker, <<2, 1>>),
                    Child(3, <<2>>, Managed(OwnTree), NoMarker, <<3, 2, 1>>),
                    [parents |-> <<1>>, tree |-> OwnTree,
                     marker |-> Marker("SourceToDest", Other, 3),
                     line |-> <<4, 1>>, anc |-> {1, 4}]>>]

SourceRefs(origin) ==
    [b \in Branches |->
        IF b = Main THEN IF origin = "merge" THEN 3 ELSE 2
        ELSE IF b = Other /\ origin = "merge" THEN 2
        ELSE IF b = Other /\ origin \in {"orphan", "mirrored"} THEN 3
        ELSE NoOid]
DestRefs(origin) ==
    [b \in Branches |-> IF b = Main THEN 1
                        ELSE IF b = Other /\ origin \in {"orphan", "mirrored"} THEN 4
                        ELSE NoOid]

(* The histories above name a configured branch, another branch and a      *)
(* content that is neither private nor the pinned control file.            *)
ASSUME HistoryAssumption ==
    /\ Origins \subseteq DOMAIN Histories
    /\ Configured # <<>>
    /\ \E b \in Branches : b # Main
    /\ \E v \in Values \ Private : v # Pinned

Init ==
    \E origin \in Origins :
        /\ odb = Histories[origin]
        /\ src = SourceRefs(origin)
        /\ dst = DestRefs(origin)
        /\ local = [c \in Clones |-> SourceRefs(origin)]
        /\ have = [c \in Clones |-> UNION {Anc(SourceRefs(origin)[b]) :
                                  b \in {x \in Branches : SourceRefs(origin)[x] # NoOid}}]
        /\ pc = [c \in Clones |-> "idle"]
        /\ run = [c \in Clones |-> NoRun]
        /\ job = [c \in Clones |-> NoJob]
        /\ result = [c \in Clones |-> [kind |-> "none", branch |-> "none", why |-> "none"]]
        /\ spent = [dev |-> 0, customer |-> 0, runs |-> 0, crashes |-> 0]

(***************************************************************************)
(* How a run ends, and how a branch's turn ends.                           *)
(***************************************************************************)
Ended(kind, branch, why) == [kind |-> kind, branch |-> branch, why |-> why]
Running == Ended("running", "none", "none")

(* The whole run stops: an error no branch-level handling catches. *)
Abort(c, why) ==
    /\ pc' = [pc EXCEPT ![c] = "idle"]
    /\ run' = [run EXCEPT ![c] = NoRun]
    /\ job' = [job EXCEPT ![c] = NoJob]
    /\ result' = [result EXCEPT ![c] = Ended("aborted", job[c].branch, why)]

(* Mutant of NextBranch: a halted branch goes back to the waiting ones. *)
NextBranchRequeues(c, halts) ==
    /\ pc' = [pc EXCEPT ![c] = "select"]
    /\ run' = [run EXCEPT ![c].halted = @ \cup halts, ![c].remaining = @ \cup halts]
    /\ job' = [job EXCEPT ![c] = NoJob]
    /\ UNCHANGED result

(* This branch is done with, and the run goes on to the next one. *)
NextBranch(c, halts) ==
    /\ pc' = [pc EXCEPT ![c] = "select"]
    /\ run' = [run EXCEPT ![c].halted = @ \cup halts]
    /\ job' = [job EXCEPT ![c] = NoJob]
    /\ UNCHANGED result

(* Mutant of NextImport: a branch held back is not kept out of mirroring.  *)
NextImportUnhalted(c, halts) ==
    /\ pc' = [pc EXCEPT ![c] = "import"]
    /\ run' = [run EXCEPT ![c].imports = Tail(@)]
    /\ job' = [job EXCEPT ![c] = NoJob]
    /\ UNCHANGED result

(* The same, for the import of the next configured branch. *)
NextImport(c, halts) ==
    /\ pc' = [pc EXCEPT ![c] = "import"]
    /\ run' = [run EXCEPT ![c].imports = Tail(@), ![c].halted = @ \cup halts]
    /\ job' = [job EXCEPT ![c] = NoJob]
    /\ UNCHANGED result

(***************************************************************************)
(* Starting a run.  The operation lock admits one run per clone.           *)
(***************************************************************************)
StartRun(c) ==
    /\ pc[c] = "idle"
    /\ spent.runs < MaxRuns
    /\ \E recreate \in SUBSET {b \in Recreatable : local[c][b] # NoOid} :
         run' = [run EXCEPT ![c] =
                    [NoRun EXCEPT !.names = {b \in Branches : dst[b] # NoOid},
                                  !.sources = {b \in Branches : local[c][b] # NoOid},
                                  !.recreate = recreate,
                                  !.imports = Configured]]
    /\ pc' = [pc EXCEPT ![c] = "fetch_heads"]
    /\ result' = [result EXCEPT ![c] = Running]
    /\ spent' = [spent EXCEPT !.runs = @ + 1]
    /\ UNCHANGED <<odb, remotes, clone, job>>

(* Mutant of Fetched: a shallow fetch. *)
FetchedShallow(tips) == tips

(* A fetch brings a tip with all of its history. *)
Fetched(tips) == UNION {Anc(o) : o \in tips}

(* One bulk fetch of every listed dest branch; one that is gone by now     *)
(* fails it.                                                               *)
FetchHeads(c) ==
    /\ pc[c] = "fetch_heads"
    /\ IF \E b \in run[c].names : dst[b] = NoOid
       THEN Abort(c, "fetch") /\ UNCHANGED have
       ELSE /\ run' = [run EXCEPT ![c].heads =
                        [b \in Branches |-> IF b \in run[c].names THEN dst[b] ELSE NoOid]]
            /\ have' = [have EXCEPT ![c] = @ \cup Fetched({dst[b] : b \in run[c].names})]
            /\ pc' = [pc EXCEPT ![c] = "import"]
            /\ UNCHANGED <<job, result>>
    /\ UNCHANGED <<odb, remotes, local, spent>>

(***************************************************************************)
(* dest -> source, one configured branch after another.                    *)
(***************************************************************************)

(* A missing dest ref holds the branch back, unless its recreation was     *)
(* asked for; asking to recreate a ref that exists holds it back too.      *)
SkipImport(c) ==
    /\ pc[c] = "import"
    /\ run[c].imports # <<>>
    /\ LET b == Head(run[c].imports)
           listed == b \in run[c].names
           recreate == b \in run[c].recreate
       IN  /\ listed = recreate \/ ~listed
           /\ NextImport(c, IF listed = recreate THEN {b} ELSE {})
    /\ UNCHANGED <<odb, remotes, clone, spent>>

(* The pending dest commits of branch b on top of source tip. *)
PrepareImport(c, b, tip, attempt) ==
    LET head == run[c].heads[b]
    IN  \E boundary \in {DestToSourceBoundary(have'[c], tip, head, b)} :
          IF boundary = NoOid
          THEN Abort(c, "boundary")
          ELSE /\ job' = [job EXCEPT ![c] =
                     [NoJob EXCEPT !.branch = b, !.attempt = attempt, !.tip = tip,
                                   !.seen = head, !.boundary = boundary, !.chain = tip,
                                   !.pending = PendingCommits(boundary, head)]]
               /\ pc' = [pc EXCEPT ![c] = "import_build"]
               /\ UNCHANGED <<run, result>>

(* The first attempt builds on this clone's branch, fetching it from the   *)
(* source remote if the checkout lacks it.                                 *)
BeginImport(c) ==
    /\ pc[c] = "import"
    /\ run[c].imports # <<>>
    /\ LET b == Head(run[c].imports)
           tip == IF local[c][b] # NoOid THEN local[c][b] ELSE src[b]
       IN  /\ b \in run[c].names /\ b \notin run[c].recreate
           /\ IF tip = NoOid
              THEN Abort(c, "fetch") /\ UNCHANGED clone
              ELSE /\ local' = [local EXCEPT ![c][b] = tip]
                   /\ have' = [have EXCEPT ![c] = @ \cup Fetched({tip})]
                   /\ PrepareImport(c, b, tip, 0)
    /\ UNCHANGED <<odb, remotes, spent>>

(* After a lost race the source remote's own tip is the base. *)
RefetchSource(c) ==
    /\ pc[c] = "import_refetch"
    /\ LET b == job[c].branch
       IN  IF src[b] = NoOid
           THEN Abort(c, "fetch") /\ UNCHANGED have
           ELSE /\ have' = [have EXCEPT ![c] = @ \cup Fetched({src[b]})]
                /\ PrepareImport(c, b, src[b], job[c].attempt)
    /\ UNCHANGED <<odb, remotes, local, spent>>

(* Mutant of OwnMirror: a projection is imported like any dest commit. *)
OwnMirrorImported(o, b) == FALSE

OwnMirror(o, b) == Verify(o, b, {"SourceToDest"})

(* One pending dest commit: this branch's own projections are skipped, a   *)
(* clean merge always gets a commit, a conflict ends the chain.            *)
ReplayToSource(c) ==
    /\ pc[c] = "import_build"
    /\ job[c].pending # <<>>
    /\ LET o == Head(job[c].pending)
           b == job[c].branch
           base == TreeOf(FirstParent(o))
           ours == TreeOf(job[c].chain)
           theirs == TreeOf(o)
       IN  IF OwnMirror(o, b)
           THEN /\ job' = [job EXCEPT ![c].pending = Tail(@)]
                /\ UNCHANGED <<odb, have>>
           ELSE IF Clashes(base, ours, theirs) # {}
           THEN /\ job' = [job EXCEPT ![c].pending = <<>>, ![c].conflict = o]
                /\ UNCHANGED <<odb, have>>
           ELSE /\ Write(<<job[c].chain>>, MergeTree(base, ours, theirs),
                         Marker("DestToSource", b, o))
                /\ have' = [have EXCEPT ![c] = @ \cup {NextOid}]
                /\ job' = [job EXCEPT ![c].pending = Tail(@), ![c].chain = NextOid]
    /\ UNCHANGED <<remotes, local, pc, run, result, spent>>

NothingToPush(c) ==
    /\ pc[c] = "import_build"
    /\ job[c].pending = <<>> /\ job[c].chain = job[c].tip
    /\ IF job[c].conflict # NoOid THEN Abort(c, "conflict") ELSE NextImport(c, {})
    /\ UNCHANGED <<odb, remotes, clone, spent>>

(* A push is refused up front if it would strand local commits.  A remote  *)
(* takes a fast-forward, or a ref it does not have.                        *)
Strands(c) == ~IsAncestor(local[c][job[c].branch], job[c].chain)
SourceAccepts(current, new) == current = NoOid \/ IsAncestor(current, new)
PushToSource(c) ==
    /\ pc[c] = "import_build"
    /\ job[c].pending = <<>> /\ job[c].chain # job[c].tip
    /\ LET b == job[c].branch
           new == job[c].chain
       IN  IF Strands(c)
           THEN Abort(c, "preflight") /\ UNCHANGED src
           ELSE IF SourceAccepts(src[b], new)
           THEN /\ src' = [src EXCEPT ![b] = new]
                /\ job' = [job EXCEPT ![c].expected = local[c][b]]
                /\ pc' = [pc EXCEPT ![c] = "import_advance"]
                /\ UNCHANGED <<run, result>>
           ELSE IF job[c].attempt < MaxRaceRetries
           THEN /\ job' = [job EXCEPT ![c].attempt = @ + 1]
                /\ pc' = [pc EXCEPT ![c] = "import_refetch"]
                /\ UNCHANGED <<src, run, result>>
           ELSE Abort(c, "race") /\ UNCHANGED src
    /\ UNCHANGED <<odb, dst, clone, spent>>

(* Mutant of MovedSincePreflight: the local ref is set unconditionally. *)
MovedUnnoticed(c) == FALSE

MovedSincePreflight(c) == local[c][job[c].branch] # job[c].expected

(* The local branch follows only if nobody moved it since the preflight;   *)
(* a conflict behind the pushed prefix then stops the run.                 *)
AdvanceLocalSourceBranch(c) ==
    /\ pc[c] = "import_advance"
    /\ LET b == job[c].branch
       IN  IF MovedSincePreflight(c)
           THEN Abort(c, "moved") /\ UNCHANGED local
           ELSE /\ local' = [local EXCEPT ![c][b] = job[c].chain]
                /\ IF job[c].conflict # NoOid THEN Abort(c, "conflict") ELSE NextImport(c, {})
    /\ UNCHANGED <<odb, remotes, have, spent>>

(***************************************************************************)
(* Between the phases: the mapping index and the ref-existence cache.      *)
(***************************************************************************)
ReconstructMappingIndex(c) ==
    /\ pc[c] = "import"
    /\ run[c].imports = <<>>
    /\ LET r == run[c]
       IN  run' = [run EXCEPT ![c] = [r EXCEPT
                !.index = Reconstruct({local[c][b] : b \in r.sources},
                                      {r.heads[b] : b \in r.names}),
                !.exists = [b \in Branches |-> IF b \in r.names THEN "yes"
                                               ELSE IF b \in r.sources THEN "no" ELSE "ask"],
                !.remaining = r.sources \ r.halted]]
    /\ pc' = [pc EXCEPT ![c] = "select"]
    /\ UNCHANGED <<odb, remotes, clone, job, result, spent>>

(***************************************************************************)
(* source -> dest, nearest mapping first.                                  *)
(***************************************************************************)
NoMapping(c, b) == NearestMapped(run[c].index, local[c][b]) = 0

(* How far a branch's line goes before a mapped commit; 0 for never.  A    *)
(* branch once found to have no mapping is not measured again: noMapping   *)
(* is a memo that the scheduling trusts for the rest of the run.           *)
Distance(c, b) ==
    IF b \in run[c].noMapping THEN 0 ELSE NearestMapped(run[c].index, local[c][b])

Before(c, a, b) ==
    LET m == Distance(c, a)
        n == Distance(c, b)
    IN  IF m = n THEN Rank(a) < Rank(b) ELSE n = 0 \/ (m # 0 /\ m < n)

SelectNextBranch(c) ==
    LET remaining == run[c].remaining
    IN  /\ pc[c] = "select"
        /\ \E b \in remaining :
             /\ \A a \in remaining \ {b} : Before(c, b, a)
             /\ run' = [run EXCEPT ![c].remaining = @ \ {b},
                            ![c].noMapping = @ \cup {a \in remaining : Distance(c, a) = 0}]
             /\ job' = [job EXCEPT ![c] =
                            [NoJob EXCEPT !.branch = b, !.tip = local[c][b]]]
        /\ pc' = [pc EXCEPT ![c] = "fetch_dest"]
        /\ UNCHANGED <<odb, remotes, clone, result, spent>>

Finish(c) ==
    /\ pc[c] = "select"
    /\ run[c].remaining = {}
    /\ pc' = [pc EXCEPT ![c] = "idle"]
    /\ result' = [result EXCEPT ![c] =
                    Ended(IF run[c].halted # {} THEN "halted" ELSE "ok", "none", "none")]
    /\ run' = [run EXCEPT ![c] = NoRun]
    /\ UNCHANGED <<odb, remotes, clone, job, spent>>

(* Whether the ref exists comes from the cache, its tip from the remote.   *)
(* A requested recreation only ever creates.                               *)
FetchDest(c) ==
    LET b == job[c].branch
        cached == run[c].exists[b]
        exists == cached = "yes" \/ (cached = "ask" /\ dst[b] # NoOid)
        recreate == b \in run[c].recreate
    IN  /\ pc[c] = "fetch_dest"
        /\ IF exists /\ recreate
           THEN NextBranch(c, {b}) /\ UNCHANGED have
           ELSE IF exists /\ dst[b] = NoOid
           THEN Abort(c, "fetch") /\ UNCHANGED have
           ELSE /\ run' = [run EXCEPT ![c].exists[b] = IF exists THEN "yes" ELSE "no"]
                /\ have' = IF exists THEN [have EXCEPT ![c] = @ \cup Fetched({dst[b]})] ELSE have
                /\ job' = [job EXCEPT ![c].seen = IF exists THEN dst[b] ELSE NoOid,
                                      ![c].mode = IF recreate THEN "CreateOnly"
                                                  ELSE "FastForwardOnly"]
                /\ pc' = [pc EXCEPT ![c] = "plan"]
                /\ UNCHANGED result
        /\ UNCHANGED <<odb, remotes, local, spent>>

(* Where to resume, from the history alone.  A rewritten mirror-only       *)
(* branch is rebuilt by force, and only if this clone's tip is what the    *)
(* source remote advertises at this very moment.                           *)
Verdict(do, boundary, base, mode) ==
    [do |-> do, boundary |-> boundary, base |-> base, mode |-> mode]
Halt == Verdict("halt", NoOid, NoOid, "none")
Skip == Verdict("skip", NoOid, NoOid, "none")
Stop == Verdict("abort", NoOid, NoOid, "none")

(* Mutant of MirrorOnly: every branch may be rebuilt by force. *)
MirrorOnlyAny(b) == TRUE

MirrorOnly(b) == ~RoundTripped(b)

(* Mutant of StaleCheckout: any clone may rebuild by force. *)
StaleCheckoutUnchecked(c) == FALSE

StaleCheckout(c) == src[job[c].branch] # job[c].tip

Resume(c) ==
    LET j == job[c]
        H == have[c]
        point == DestResumePoint(H, j.tip, j.seen, j.branch)
        anchor == DestAnchor(H, run[c].index, j.tip, j.branch)
        rewritten == MirrorOnlyRewriteDetected(H, j.tip, j.seen, j.branch)
    IN  IF j.seen # NoOid THEN
            IF point.kind = "Ok" THEN Verdict("build", point.at, j.seen, j.mode)
            ELSE IF point.kind = "NoMarker" THEN Stop
            ELSE IF MirrorOnly(j.branch) /\ rewritten THEN
                IF StaleCheckout(c) \/ anchor.kind = "Contradictory" THEN Halt
                ELSE IF anchor.kind = "None" THEN Stop
                ELSE Verdict("build", anchor.source, anchor.dest, "ForceMirrorOnly")
            ELSE IF point.kind = "Unsafe" /\ RoundTripped(j.branch) THEN Stop
            ELSE Halt
        ELSE IF anchor.kind = "Resolved"
             THEN Verdict("build", anchor.source, anchor.dest, j.mode)
        ELSE IF anchor.kind = "Contradictory" \/ j.mode = "CreateOnly" THEN Halt ELSE Skip

(* A pending commit whose .gitprismignore is not the pinned one. *)
ControlFileMismatch(pending) ==
    \E i \in DOMAIN pending :
        /\ ~LoopPrevented(pending[i])
        /\ TreeOf(pending[i])[ControlFile] \notin {Absent, Pinned}

(* All dest would ever see of the branch is in a configured branch already. *)
AlreadyMerged(c, tip) ==
    \E b \in ToSet(Configured) :
        LET landing == local[c][b]
            base == MergeBase(tip, landing)
            Filtered(o) == FilterTree(TreeOf(o))
        IN  /\ landing # NoOid
            /\ base # NoOid /\ base # tip
            /\ Clashes(Filtered(base), Filtered(landing), Filtered(tip)) = {}
            /\ MergeTree(Filtered(base), Filtered(landing), Filtered(tip)) = Filtered(landing)

(* The policy check, the already-merged skip and the reuse of another      *)
(* branch's projection, in this order.  Reuse is for an existing ref that  *)
(* is not being rebuilt.                                                   *)
Plan(c, v, pending, newest) ==
    LET j == job[c]
        replay == [kind |-> "Replay", shared |-> NoOid, projection |-> NoOid]
        reuse == PlanProjectionReuse(newest, pending, v.boundary, v.base, j.branch)
        Planned(do, r) == [do |-> do, reuse |-> r]
    IN  IF v.do # "build" THEN Planned(v.do, replay)
        ELSE IF ControlFileMismatch(pending) THEN Planned("halt", replay)
        ELSE IF j.seen = NoOid /\ MirrorOnly(j.branch) /\ AlreadyMerged(c, j.tip)
             THEN Planned("skip", replay)
        ELSE IF j.seen = NoOid \/ v.mode # "FastForwardOnly" THEN Planned("build", replay)
        ELSE Planned(IF reuse.kind = "Halt" THEN "halt" ELSE "build", reuse)

(* Build on dest's tip, on the anchor, on a reused projection, or on a     *)
(* bridge that joins dest's tip and a reused projection.                   *)
PlanBuild(c, v, reuse) ==
    LET b == job[c].branch
        bridged == reuse.kind = "Bridge"
    IN  /\ IF bridged
           THEN /\ Write(<<v.base, reuse.projection>>, TreeOf(reuse.projection),
                         Marker("SourceToDest", b, reuse.shared))
                /\ have' = [have EXCEPT ![c] = @ \cup {NextOid}]
           ELSE UNCHANGED <<odb, have>>
        /\ job' = [job EXCEPT ![c] = [@ EXCEPT
                !.boundary = v.boundary, !.base = v.base, !.mode = v.mode,
                !.chain = IF bridged THEN NextOid
                          ELSE IF reuse.kind = "FastForward" THEN reuse.projection
                          ELSE v.base,
                !.pending = PendingCommits(IF reuse.kind = "Replay" THEN v.boundary
                                           ELSE reuse.shared, job[c].tip),
                !.shared = reuse.shared,
                !.advertised = IF v.mode = "ForceMirrorOnly" THEN src[b] ELSE NoOid,
                !.bridge = IF bridged THEN NextOid ELSE NoOid]]
        /\ pc' = [pc EXCEPT ![c] = "build"]
        /\ UNCHANGED <<run, result>>

PlanBranch(c) ==
    /\ pc[c] = "plan"
    /\ \E v \in {Resume(c)} :
       \E pending \in {IF v.do = "build" THEN PendingCommits(v.boundary, job[c].tip)
                       ELSE <<>>} :
       \E newest \in {NewestShared(have[c], run[c].index, pending, v.base)} :
       \E plan \in {Plan(c, v, pending, newest)} :
         \/ plan.do = "abort" /\ Abort(c, "resume") /\ UNCHANGED <<odb, have>>
         \/ plan.do = "halt" /\ NextBranch(c, {job[c].branch}) /\ UNCHANGED <<odb, have>>
         \/ plan.do = "skip" /\ NextBranch(c, {}) /\ UNCHANGED <<odb, have>>
         \/ plan.do = "build" /\ PlanBuild(c, v, plan.reuse)
    /\ UNCHANGED <<remotes, local, spent>>

(* A merge counts as what it changed on its first-parent line. *)
ReplayParent(o) == FirstParent(o)

(* One pending source commit: grafts and imports are skipped, so is a      *)
(* commit that changes nothing dest sees; a conflict ends the chain.       *)
ReplayToDest(c) ==
    /\ pc[c] = "build"
    /\ job[c].pending # <<>>
    /\ LET o == Head(job[c].pending)
           base == FilterTree(TreeOf(ReplayParent(o)))
           ours == TreeOf(job[c].chain)
           theirs == FilterTree(TreeOf(o))
           merged == MergeTree(base, ours, theirs)
           clash == Clashes(base, ours, theirs) # {}
       IN  IF LoopPrevented(o) \/ (~clash /\ merged = ours)
           THEN /\ job' = [job EXCEPT ![c].pending = Tail(@)]
                /\ UNCHANGED <<odb, have>>
           ELSE IF clash
           THEN /\ job' = [job EXCEPT ![c].pending = <<>>, ![c].conflict = o]
                /\ UNCHANGED <<odb, have>>
           ELSE /\ Write(<<job[c].chain>>, merged, Marker("SourceToDest", job[c].branch, o))
                /\ have' = [have EXCEPT ![c] = @ \cup {NextOid}]
                /\ job' = [job EXCEPT ![c].pending = Tail(@), ![c].chain = NextOid,
                                      ![c].built = @ \cup {<<o, NextOid>>}]
    /\ UNCHANGED <<remotes, local, pc, run, result, spent>>

CreatesOrRebuilds(c) == job[c].seen = NoOid \/ job[c].mode = "ForceMirrorOnly"

(* Mutant of BranchScoped: another branch's commit is published as it is. *)
BranchScopedAlways(accounted) == TRUE

BranchScoped(accounted) == accounted # "No"

(* When nothing was built the tip to push, if any, may still need a commit *)
(* that only says how far branch has come: on a reused projection it names *)
(* the shared commit; on the base of a created or rebuilt ref it names the *)
(* source tip, or the boundary if a conflict cut the replay short.         *)
SealCommit(c) ==
    LET j == job[c]
        reused == j.shared # NoOid
        source == IF reused THEN j.shared ELSE IF j.conflict # NoOid THEN j.boundary ELSE j.tip
        accounted == DestTipAccountedFor(source, j.base, j.branch)
    IN  [source |-> source,
         kind |-> IF j.built # {} \/ j.bridge # NoOid THEN "chain"
                  ELSE IF reused THEN "commit"
                  ELSE IF ~CreatesOrRebuilds(c) THEN "none"
                  ELSE IF accounted = "NoMarker" THEN "abort"
                  ELSE IF BranchScoped(accounted) THEN "chain" ELSE "commit"]

SealToDest(c) ==
    /\ pc[c] = "build"
    /\ job[c].pending = <<>>
    /\ \E seal \in {SealCommit(c)} :
       LET j == job[c]
       IN  \/ /\ seal.kind = "none"
              /\ IF j.conflict # NoOid THEN Abort(c, "conflict") ELSE NextBranch(c, {})
              /\ UNCHANGED <<odb, have>>
           \/ /\ seal.kind = "abort"
              /\ Abort(c, "resume")
              /\ UNCHANGED <<odb, have>>
           \/ /\ seal.kind = "chain"
              /\ pc' = [pc EXCEPT ![c] = "push_dest"]
              /\ UNCHANGED <<odb, have, run, job, result>>
           \/ /\ seal.kind = "commit"
              /\ Write(<<j.chain>>, TreeOf(j.chain),
                       Marker("SourceToDest", j.branch, seal.source))
              /\ have' = [have EXCEPT ![c] = @ \cup {NextOid}]
              /\ job' = [job EXCEPT ![c].chain = NextOid]
              /\ pc' = [pc EXCEPT ![c] = "push_dest"]
              /\ UNCHANGED <<run, result>>
    /\ UNCHANGED <<remotes, local, spent>>

(* Mutant of PushAccepted: a forced push without a lease. *)
PushAcceptedWithoutLease(current, new, mode, expected) ==
    \/ current = NoOid /\ mode # "ForceMirrorOnly"
    \/ mode = "FastForwardOnly" /\ IsAncestor(current, new)
    \/ mode = "ForceMirrorOnly"

(* What the remote does with a push of new over its ref's current tip. *)
PushAccepted(current, new, mode, expected) ==
    \/ current = NoOid /\ mode # "ForceMirrorOnly"
    \/ mode = "FastForwardOnly" /\ IsAncestor(current, new)
    \/ mode = "ForceMirrorOnly" /\ current \in {expected, new}

(* The mapping index after an accepted push. *)
IndexAfterPush(c) ==
    LET j == job[c]
        index == run[c].index
        kept == IF j.mode = "ForceMirrorOnly"
                THEN index \ ReplacedChain(index, j.branch, Anc(j.chain)) ELSE index
        pushed == IF j.built = {} THEN {j.chain}
                  ELSE IF j.bridge # NoOid THEN {j.bridge} ELSE {}
    IN  kept \cup {BuiltMapping(j.branch, m[1], m[2]) : m \in j.built}
             \cup {DestCommitMapping(o) : o \in {x \in pushed : VerifySelf(x, {"SourceToDest"})}}

PushToDest(c) ==
    LET j == job[c]
        b == j.branch
    IN  /\ pc[c] = "push_dest"
        /\ PushAccepted(dst[b], j.chain, j.mode, j.seen)
        /\ dst' = [dst EXCEPT ![b] = j.chain]
        /\ IF j.conflict # NoOid THEN Abort(c, "conflict")
           ELSE /\ pc' = [pc EXCEPT ![c] = "select"]
                /\ run' = [run EXCEPT ![c].index = IndexAfterPush(c), ![c].exists[b] = "yes"]
                /\ job' = [job EXCEPT ![c] = NoJob]
                /\ UNCHANGED result
        /\ UNCHANGED <<odb, src, clone, spent>>

(* A rejected creation ends the branch's turn.  Any other rejection means  *)
(* the ref moved: what the cache says of it is dropped, and the branch     *)
(* starts over from the dest it finds then.                                *)
PushRejected(c) ==
    LET j == job[c]
        b == j.branch
    IN  /\ pc[c] = "push_dest"
        /\ ~PushAccepted(dst[b], j.chain, j.mode, j.seen)
        /\ IF j.mode = "CreateOnly" THEN NextBranch(c, {b})
           ELSE IF j.attempt < MaxRaceRetries
           THEN /\ run' = [run EXCEPT ![c].exists[b] = "ask"]
                /\ job' = [job EXCEPT ![c] =
                    [NoJob EXCEPT !.branch = b, !.tip = j.tip, !.attempt = j.attempt + 1]]
                /\ pc' = [pc EXCEPT ![c] = "fetch_dest"]
                /\ UNCHANGED result
           ELSE Abort(c, "race")
        /\ UNCHANGED <<odb, remotes, clone, spent>>

(* A kill, a timeout, a failing remote: the run ends where it is.  What it *)
(* pushed stays pushed, what it remembered is gone.                        *)
Crash(c) ==
    /\ pc[c] # "idle"
    /\ spent.crashes < MaxCrashes
    /\ Abort(c, "crash")
    /\ spent' = [spent EXCEPT !.crashes = @ + 1]
    /\ UNCHANGED <<odb, remotes, clone>>

(***************************************************************************)
(* The environment: developers in a clone, customers on the dest remote.   *)
(***************************************************************************)
Edit(o, e) == [TreeOf(o) EXCEPT ![e[1]] = e[2]]

Developer == spent.dev < MaxDev /\ spent' = [spent EXCEPT !.dev = @ + 1]
Customer == spent.customer < MaxCustomer /\ spent' = [spent EXCEPT !.customer = @ + 1]

DevCommit(c, b) ==
    /\ Developer
    /\ local[c][b] # NoOid
    /\ \E e \in DevEdits :
         /\ Edit(local[c][b], e) # TreeOf(local[c][b])
         /\ Write(<<local[c][b]>>, Edit(local[c][b], e), NoMarker)
    /\ local' = [local EXCEPT ![c][b] = NextOid]
    /\ have' = [have EXCEPT ![c] = @ \cup {NextOid}]
    /\ UNCHANGED <<remotes, pc, run, job, result>>

(* Replace the tip: git commit --amend. *)
DevAmend(c, b) ==
    /\ Developer
    /\ b \in Forcible
    /\ local[c][b] # NoOid /\ odb[local[c][b]].parents # <<>>
    /\ \E e \in DevEdits :
         /\ Edit(local[c][b], e) # TreeOf(local[c][b])
         /\ Write(odb[local[c][b]].parents, Edit(local[c][b], e), NoMarker)
    /\ local' = [local EXCEPT ![c][b] = NextOid]
    /\ have' = [have EXCEPT ![c] = @ \cup {NextOid}]
    /\ UNCHANGED <<remotes, pc, run, job, result>>

(* Create b at from's tip, or fast-forward b to it. *)
DevBranch(c, b, from) ==
    /\ Developer
    /\ local[c][from] # NoOid /\ local[c][b] # local[c][from]
    /\ local[c][b] # NoOid => IsAncestor(local[c][b], local[c][from])
    /\ local' = [local EXCEPT ![c][b] = local[c][from]]
    /\ UNCHANGED <<odb, remotes, have, pc, run, job, result>>

DevMerge(c, b, from) ==
    LET ours == local[c][b]
        theirs == local[c][from]
        base == TreeOf(MergeBase(ours, theirs))
    IN  /\ Developer
        /\ ours # NoOid /\ theirs # NoOid
        /\ ~IsAncestor(theirs, ours)
        /\ Clashes(base, TreeOf(ours), TreeOf(theirs)) = {}
        /\ Write(<<ours, theirs>>, MergeTree(base, TreeOf(ours), TreeOf(theirs)), NoMarker)
        /\ local' = [local EXCEPT ![c][b] = NextOid]
        /\ have' = [have EXCEPT ![c] = @ \cup {NextOid}]
        /\ UNCHANGED <<remotes, pc, run, job, result>>

DevPush(c, b) ==
    /\ Developer
    /\ local[c][b] # NoOid /\ local[c][b] # src[b]
    /\ src[b] = NoOid \/ b \in Forcible \/ IsAncestor(src[b], local[c][b])
    /\ src' = [src EXCEPT ![b] = local[c][b]]
    /\ UNCHANGED <<odb, dst, clone, pc, run, job, result>>

(* Fetch, and pull or reset to what the remote has, or leave the branch.   *)
DevPull(c, b) ==
    /\ Developer
    /\ src[b] # NoOid /\ local[c][b] # src[b]
    /\ \/ local' = [local EXCEPT ![c][b] = src[b]]
       \/ src[b] \notin have[c] /\ UNCHANGED local
    /\ have' = [have EXCEPT ![c] = @ \cup Fetched({src[b]})]
    /\ UNCHANGED <<odb, remotes, pc, run, job, result>>

CustomerCommit(b) ==
    /\ Customer
    /\ dst[b] # NoOid
    /\ \E e \in CustomerEdits :
         /\ Edit(dst[b], e) # TreeOf(dst[b])
         /\ Write(<<dst[b]>>, Edit(dst[b], e), NoMarker)
    /\ dst' = [dst EXCEPT ![b] = NextOid]
    /\ UNCHANGED <<src, clone, pc, run, job, result>>

(* Create b at from's tip, or fast-forward b to it. *)
CustomerFastForward(b, from) ==
    /\ Customer
    /\ dst[from] # NoOid /\ dst[b] # dst[from]
    /\ dst[b] # NoOid => IsAncestor(dst[b], dst[from])
    /\ dst' = [dst EXCEPT ![b] = dst[from]]
    /\ UNCHANGED <<odb, src, clone, pc, run, job, result>>

(* Merge from into b: an accepted pull request. *)
CustomerMerge(b, from) ==
    LET base == TreeOf(MergeBase(dst[b], dst[from]))
        ours == TreeOf(dst[b])
        theirs == TreeOf(dst[from])
    IN  /\ Customer
        /\ dst[b] # NoOid /\ dst[from] # NoOid
        /\ ~IsAncestor(dst[from], dst[b])
        /\ Clashes(base, ours, theirs) = {}
        /\ Write(<<dst[b], dst[from]>>, MergeTree(base, ours, theirs), NoMarker)
        /\ dst' = [dst EXCEPT ![b] = NextOid]
        /\ UNCHANGED <<src, clone, pc, run, job, result>>

CustomerDelete(b) ==
    /\ Customer
    /\ dst[b] # NoOid
    /\ dst' = [dst EXCEPT ![b] = NoOid]
    /\ UNCHANGED <<odb, src, clone, pc, run, job, result>>

(***************************************************************************)
(* The specification.                                                      *)
(***************************************************************************)
Sync(c) ==
    \/ FetchHeads(c) \/ SkipImport(c) \/ BeginImport(c) \/ RefetchSource(c)
    \/ ReplayToSource(c) \/ NothingToPush(c) \/ PushToSource(c)
    \/ AdvanceLocalSourceBranch(c) \/ ReconstructMappingIndex(c)
    \/ SelectNextBranch(c) \/ FetchDest(c)
    \/ PlanBranch(c)
    \/ ReplayToDest(c) \/ SealToDest(c) \/ PushToDest(c) \/ PushRejected(c)
    \/ Finish(c)

Environment ==
    \/ \E c \in Clones, b \in Branches :
         \/ DevCommit(c, b) \/ DevAmend(c, b) \/ DevPush(c, b) \/ DevPull(c, b)
         \/ \E from \in Branches : DevBranch(c, b, from) \/ DevMerge(c, b, from)
    \/ \E b \in Branches :
         \/ CustomerCommit(b) \/ CustomerDelete(b)
         \/ \E from \in Branches : CustomerFastForward(b, from) \/ CustomerMerge(b, from)

Next ==
    \/ \E c \in Clones : StartRun(c) \/ Sync(c) \/ Crash(c)
    \/ Environment

Spec == Init /\ [][Next]_vars
FairSpec == Spec /\ \A c \in Clones : WF_vars(Sync(c))
=============================================================================
