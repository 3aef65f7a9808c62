------------------------------- MODULE Resolve -------------------------------
(***************************************************************************)
(* `gitprism resolve`: an operator settles by hand the conflict that       *)
(* stopped a run of Sync.  dest->source, in the checkout itself, with a    *)
(* real cherry-pick of the oldest pending dest commit.  source->dest, in a *)
(* linked worktree, whose authenticated state a ref of the clone keeps     *)
(* between `resolve` and `resolve --continue`.                             *)
(*                                                                         *)
(* Sync, developers and customers act as in module Sync; the operation     *)
(* lock keeps the commands of one clone apart, and nothing else.  A step   *)
(* ends where a command reads or writes what others can change: a ref, the *)
(* checkout, the worktree.                                                 *)
(***************************************************************************)
EXTENDS SyncProperties

CONSTANTS
    OperatorEdits,   \* the <<path, content>> an operator may put in a resolution
    Budgets          \* bounds: a behaviour has one of these

ASSUME ResolveAssumption ==
    /\ OperatorEdits \subseteq Paths \X (Values \cup {Absent})
    /\ Budgets \subseteq [runs : Nat, dev : Nat, customer : Nat,
                           resolves : Nat, operator : Nat, kills : Nat, edits : BOOLEAN]

VARIABLES
    on,     \* the branch each clone has checked out
    pick,   \* the cherry-pick in progress in each clone's checkout
    op,     \* each clone's source->dest operation on each branch
    cmd,    \* what each clone's resolve command does next
    tries   \* how often operators acted, for the bounds, and whether anybody
            \* worked in a checkout while a resolve command ran in it

rvars == <<vars, on, pick, op, cmd, tries>>
sync == <<src, dst, pc, run, job, result, spent>>

NoPick == [commit |-> NoOid, index |-> EmptyTree, unresolved |-> {}]

(* "none", "open", or "lost": the state ref is there, its worktree is not. *)
NoOperation ==
    [kind |-> "none", active |-> FALSE,   \* CHERRY_PICK_HEAD is in place
     tip |-> NoOid, base |-> NoOid, commit |-> NoOid,
     index |-> EmptyTree, unresolved |-> {}]

NoCommand ==
    [at |-> "idle", branch |-> "none",
     commit  |-> NoOid,   \* the commit to resolve
     made    |-> NoOid,   \* the resolution to push
     head    |-> NoOid,   \* HEAD as finish read it
     tip     |-> NoOid, seen |-> NoOid, boundary |-> NoOid,
     chain   |-> NoOid, pending |-> <<>>]

RInit ==
    /\ Init
    /\ on \in [Clones -> {b \in Branches : \A c \in Clones : local[c][b] # NoOid}]
    /\ pick = [c \in Clones |-> NoPick]
    /\ op = [c \in Clones |-> [b \in Branches |-> NoOperation]]
    /\ cmd = [c \in Clones |-> NoCommand]
    /\ \E b \in Budgets :
         tries = [budget |-> b, resolves |-> 0, operator |-> 0, kills |-> 0, meddled |-> FALSE]

Done(c) == cmd' = [cmd EXCEPT ![c] = NoCommand]
At(c, where) == cmd' = [cmd EXCEPT ![c].at = where]
HeadOf(c) == local[c][on[c]]

(* One lock per clone, tried once and held to the end of the command. *)
LockFree(c) == pc[c] = "idle" /\ cmd[c].at = "idle"

Command(c) ==
    /\ LockFree(c)
    /\ tries.resolves < tries.budget.resolves
    /\ tries' = [tries EXCEPT !.resolves = @ + 1]

(***************************************************************************)
(* dest -> source, in the checkout.                                        *)
(***************************************************************************)
PendingDest(H, tip, head, b) ==
    LET boundary == DestToSourceBoundary(H, tip, head, b)
    IN  IF boundary = NoOid THEN {}
        ELSE {o \in ToSet(PendingCommits(boundary, head)) : ~OwnMirror(o, b)}

(* Mutant of NextPending: any pending commit will do. *)
NextPendingAny(o, pending) == o \in pending

(* The oldest one: oids grow along a line. *)
NextPending(o, pending) == o \in pending /\ \A x \in pending : o <= x

CherryTree(o, ours) == MergeTree(TreeOf(FirstParent(o)), ours, TreeOf(o))
CherryClashes(o, ours) == Clashes(TreeOf(FirstParent(o)), ours, TreeOf(o))

ResolveStart(c, b) ==
    /\ Command(c)
    /\ RoundTripped(b) /\ on[c] = b /\ pick[c] = NoPick
    /\ dst[b] # NoOid
    /\ have' = [have EXCEPT ![c] = @ \cup Fetched({dst[b]})]
    /\ \E pending \in {PendingDest(have'[c], local[c][b], dst[b], b)} :
       \E o \in pending :
         /\ NextPending(o, pending)
         /\ cmd' = [cmd EXCEPT ![c] = [NoCommand EXCEPT
                        !.at = "pick", !.branch = b, !.commit = o]]
    /\ UNCHANGED <<odb, local, sync, on, pick, op>>

(* git cherry-pick --empty=keep of o onto HEAD: it commits, or leaves the
   conflict in the checkout, or refuses since a pick is in progress. *)
CommitOnHead(c, tree) ==
    /\ Write(<<HeadOf(c)>>, tree, NoMarker)
    /\ have' = [have EXCEPT ![c] = @ \cup {NextOid}]
    /\ local' = [local EXCEPT ![c][on[c]] = NextOid]

CherryPick(c) ==
    LET o == cmd[c].commit
        ours == TreeOf(HeadOf(c))
    IN  /\ cmd[c].at = "pick"
        /\ \/ /\ pick[c] # NoPick
              /\ Done(c) /\ UNCHANGED <<odb, local, have, pick>>
           \/ /\ pick[c] = NoPick /\ CherryClashes(o, ours) # {}
              /\ pick' = [pick EXCEPT ![c] = [commit |-> o, index |-> CherryTree(o, ours),
                                              unresolved |-> CherryClashes(o, ours)]]
              /\ Done(c) /\ UNCHANGED <<odb, local, have>>
           \/ /\ pick[c] = NoPick /\ CherryClashes(o, ours) = {}
              /\ CommitOnHead(c, CherryTree(o, ours))
              /\ At(c, "read_head") /\ UNCHANGED pick
        /\ UNCHANGED <<sync, on, op, tries>>

(* CHERRY_PICK_HEAD must name the oldest dest commit that is pending now;
   a pick somebody started by hand is not taken over. *)
ResolveContinue(c, b) ==
    /\ Command(c)
    /\ RoundTripped(b) /\ on[c] = b /\ pick[c] # NoPick
    /\ dst[b] # NoOid
    /\ have' = [have EXCEPT ![c] = @ \cup Fetched({dst[b]})]
    /\ NextPending(pick[c].commit, PendingDest(have'[c], local[c][b], dst[b], b))
    /\ pick[c].unresolved = {}
    /\ cmd' = [cmd EXCEPT ![c] = [NoCommand EXCEPT
                   !.at = "continue", !.branch = b, !.commit = pick[c].commit]]
    /\ UNCHANGED <<odb, local, sync, on, pick, op>>

(* git cherry-pick --continue, or git commit --allow-empty. *)
CherryPickContinue(c) ==
    /\ cmd[c].at = "continue"
    /\ IF pick[c] = NoPick \/ pick[c].unresolved # {}
       THEN Done(c) /\ UNCHANGED <<odb, local, have, pick>>
       ELSE /\ CommitOnHead(c, pick[c].index)
            /\ pick' = [pick EXCEPT ![c] = NoPick]
            /\ At(c, "read_head")
    /\ UNCHANGED <<sync, on, op, tries>>

(* finish: rebuild the commit HEAD names with gitprism's identity and marker,
   and put it in that commit's place if the branch still names it. *)
Rebuild(c) ==
    /\ cmd[c].at = "read_head"
    /\ IF odb[HeadOf(c)].parents = <<>>
       THEN Done(c) /\ UNCHANGED <<odb, have>>
       ELSE /\ Write(<<FirstParent(HeadOf(c))>>, TreeOf(HeadOf(c)),
                     Marker("DestToSource", cmd[c].branch, cmd[c].commit))
            /\ have' = [have EXCEPT ![c] = @ \cup {NextOid}]
            /\ cmd' = [cmd EXCEPT ![c].at = "swap", ![c].head = HeadOf(c),
                                  ![c].chain = NextOid]
    /\ UNCHANGED <<local, sync, on, pick, op, tries>>

(* Mutant of StillAt: the branch is moved by force. *)
StillAtUnchecked(c) == TRUE

StillAt(c) == local[c][cmd[c].branch] = cmd[c].head

Swap(c) ==
    /\ cmd[c].at = "swap"
    /\ IF StillAt(c)
       THEN /\ local' = [local EXCEPT ![c][cmd[c].branch] = cmd[c].chain]
            /\ on' = [on EXCEPT ![c] = cmd[c].branch]
            /\ At(c, "push_import")
       ELSE Done(c) /\ UNCHANGED <<local, on>>
    /\ UNCHANGED <<odb, have, sync, pick, op, tries>>

PushImport(c) ==
    /\ cmd[c].at = "push_import"
    /\ src' = IF SourceAccepts(src[cmd[c].branch], cmd[c].chain)
              THEN [src EXCEPT ![cmd[c].branch] = cmd[c].chain] ELSE src
    /\ Done(c)
    /\ UNCHANGED <<odb, dst, local, have, pc, run, job, result, spent, on, pick, op, tries>>

(***************************************************************************)
(* source -> dest, in a linked worktree.                                   *)
(***************************************************************************)
ResolveToDestStart(c, b) ==
    /\ Command(c)
    /\ on[c] = b /\ op[c][b].kind # "open"
    /\ dst[b] # NoOid
    /\ have' = [have EXCEPT ![c] = @ \cup Fetched({dst[b]})]
    /\ \E point \in {DestResumePoint(have'[c], local[c][b], dst[b], b)} :
         /\ point.kind = "Ok"
         /\ ~ControlFileMismatch(PendingCommits(point.at, local[c][b]))
         /\ cmd' = [cmd EXCEPT ![c] = [NoCommand EXCEPT
                !.at = "reuse", !.branch = b, !.tip = local[c][b], !.seen = dst[b],
                !.chain = dst[b], !.boundary = point.at,
                !.pending = PendingCommits(point.at, local[c][b])]]
    /\ UNCHANGED <<odb, local, sync, on, pick, op>>

(* The index a sync run would build, read afresh. *)
FreshIndex(c) == Reconstruct({local[c][b] : b \in {x \in Branches : local[c][x] # NoOid}},
                             {dst[b] : b \in {x \in Branches : dst[x] # NoOid}})
HaveAll(c) == have[c] \cup Fetched({dst[b] : b \in {x \in Branches : dst[x] # NoOid}})

(* What another branch has projected is left to sync, which reuses it. *)
CheckReuse(c) ==
    LET k == cmd[c]
        plan == PlanProjectionReuse(NewestShared(HaveAll(c), FreshIndex(c), k.pending, k.seen),
                                    k.pending, k.boundary, k.seen, k.branch)
    IN  /\ k.at = "reuse"
        /\ have' = [have EXCEPT ![c] = HaveAll(c)]
        /\ IF plan.kind = "Replay" THEN At(c, "replay") ELSE Done(c)
        /\ UNCHANGED <<odb, local, sync, on, pick, op, tries>>

(* build_pending_dest_tip, as in Sync: the clean prefix and the conflict. *)
ReplayPrefix(c) ==
    /\ cmd[c].at = "replay" /\ cmd[c].pending # <<>>
    /\ LET o == Head(cmd[c].pending)
           base == FilterTree(TreeOf(ReplayParent(o)))
           ours == TreeOf(cmd[c].chain)
           theirs == FilterTree(TreeOf(o))
           merged == MergeTree(base, ours, theirs)
           clash == Clashes(base, ours, theirs) # {}
       IN  IF LoopPrevented(o) \/ (~clash /\ merged = ours)
           THEN cmd' = [cmd EXCEPT ![c].pending = Tail(@)] /\ UNCHANGED <<odb, have>>
           ELSE IF clash
           THEN /\ cmd' = [cmd EXCEPT ![c].pending = <<>>, ![c].commit = o]
                /\ UNCHANGED <<odb, have>>
           ELSE /\ Write(<<cmd[c].chain>>, merged, Marker("SourceToDest", cmd[c].branch, o))
                /\ have' = [have EXCEPT ![c] = @ \cup {NextOid}]
                /\ cmd' = [cmd EXCEPT ![c].pending = Tail(@), ![c].chain = NextOid]
    /\ UNCHANGED <<local, sync, on, pick, op, tries>>

(* Without a conflict there is nothing to resolve; before it, the clean
   prefix is pushed. *)
PushPrefix(c) ==
    LET k == cmd[c]
        accepted == PushAccepted(dst[k.branch], k.chain, "FastForwardOnly", k.seen)
    IN  /\ k.at = "replay" /\ k.pending = <<>>
        /\ IF k.commit = NoOid THEN Done(c) /\ UNCHANGED dst
           ELSE IF k.chain = k.seen THEN At(c, "open") /\ UNCHANGED dst
           ELSE IF accepted THEN At(c, "open") /\ dst' = [dst EXCEPT ![k.branch] = k.chain]
           ELSE Done(c) /\ UNCHANGED dst
        /\ UNCHANGED <<odb, src, local, have, pc, run, job, result, spent, on, pick, op, tries>>

(* Mutant of Operation: on the dest tip of now, not on the one fetched. *)
OperationOnLiveTip(c, active, index, unresolved) ==
    [kind |-> "open", active |-> active, tip |-> cmd[c].tip, base |-> dst[cmd[c].branch],
     commit |-> cmd[c].commit, index |-> index, unresolved |-> unresolved]

(* The state ref, then the worktree, then git cherry-pick --no-commit of the
   filtered patch; each may fail, and so may the cleanup of a failure. *)
Operation(c, active, index, unresolved) ==
    [kind |-> "open", active |-> active, tip |-> cmd[c].tip, base |-> cmd[c].chain,
     commit |-> cmd[c].commit, index |-> index, unresolved |-> unresolved]

OpenWorktree(c) ==
    LET k == cmd[c]
        base == FilterTree(TreeOf(ReplayParent(k.commit)))
        ours == TreeOf(k.chain)
        theirs == FilterTree(TreeOf(k.commit))
        Put(o) == op' = [op EXCEPT ![c][k.branch] = o]
    IN  /\ k.at = "open"
        /\ \/ /\ Put(Operation(c, TRUE, MergeTree(base, ours, theirs),
                               Clashes(base, ours, theirs)))
              /\ Done(c)
           \/ \* a merge driver of the worktree's attributes settles it
              /\ Put(Operation(c, FALSE, MergeTree(base, ours, theirs), {}))
              /\ At(c, "finish_now")
           \/ \* the cherry-pick fails; the worktree is kept
              /\ Put(Operation(c, FALSE, ours, {})) /\ Done(c)
           \/ \* no worktree; the cleanup deletes the ref or fails to
              /\ Put(NoOperation) \/ Put([Operation(c, FALSE, ours, {}) EXCEPT !.kind = "lost"])
              /\ Done(c)
        /\ UNCHANGED <<odb, local, have, sync, on, pick, tries>>

ResolveToDestContinue(c, b) ==
    /\ Command(c)
    /\ on[c] = b /\ op[c][b].kind = "open"
    /\ cmd' = [cmd EXCEPT ![c] = [NoCommand EXCEPT !.at = "finish", !.branch = b]]
    /\ UNCHANGED <<odb, local, have, sync, on, pick, op>>

(* Mutant of ExcludedEdits: what the operator staged is not looked at. *)
ExcludedEditsUnseen(o) == {}

ExcludedEdits(o) == {p \in Excluded : o.index[p] # TreeOf(o.base)[p]}

ProjectedMeanwhile(H, index, o) ==
    SharedMapping(H, index, o.commit, o.base).kind \in {"Contradictory", "NotContained"}

(* Mutant of SourceMoved: the resolution is pushed for an old source tip. *)
SourceMovedUnseen(c, b) == FALSE

SourceMoved(c, b) == local[c][b] # op[c][b].tip

Finishable(c, o) ==
    /\ o.kind = "open"
    /\ cmd[c].at = "finish" => o.active
    /\ o.unresolved = {}
    /\ ~SourceMoved(c, cmd[c].branch)
    /\ ExcludedEdits(o) = {}
    /\ ~ControlFileMismatch(<<o.commit>>)

FinishToDest(c) ==
    LET b == cmd[c].branch
        o == op[c][b]
    IN  /\ cmd[c].at \in {"finish", "finish_now"}
        /\ \/ /\ ~Finishable(c, o)
              /\ Done(c) /\ UNCHANGED <<odb, have>>
           \/ /\ Finishable(c, o) /\ ProjectedMeanwhile(HaveAll(c), FreshIndex(c), o)
              /\ have' = [have EXCEPT ![c] = HaveAll(c)]
              /\ Done(c) /\ UNCHANGED odb
           \/ /\ Finishable(c, o) /\ ~ProjectedMeanwhile(HaveAll(c), FreshIndex(c), o)
              /\ Write(<<o.base>>, o.index, Marker("SourceToDest", b, o.commit))
              /\ have' = [have EXCEPT ![c] = HaveAll(c) \cup {NextOid}]
              /\ cmd' = [cmd EXCEPT ![c].at = "push_resolution", ![c].made = NextOid]
        /\ UNCHANGED <<local, sync, on, pick, op, tries>>

(* Mutant of ResolutionAccepted: the resolution is pushed by force. *)
ResolutionAcceptedAlways(current, new) == TRUE

ResolutionAccepted(current, new) == PushAccepted(current, new, "FastForwardOnly", NoOid)

(* A rejected resolution stays in its worktree, for the operator to save. *)
PushResolution(c) ==
    LET b == cmd[c].branch
    IN  /\ cmd[c].at = "push_resolution"
        /\ IF ResolutionAccepted(dst[b], cmd[c].made)
           THEN dst' = [dst EXCEPT ![b] = cmd[c].made] /\ At(c, "cleanup")
           ELSE UNCHANGED dst /\ Done(c)
        /\ UNCHANGED <<odb, src, local, have, pc, run, job, result, spent, on, pick, op, tries>>

(* Removing the worktree or the state ref may fail: the operation stays. *)
CleanUp(c) ==
    LET b == cmd[c].branch
    IN  /\ cmd[c].at = "cleanup"
        /\ op' \in {op, [op EXCEPT ![c][b] = NoOperation], [op EXCEPT ![c][b].kind = "lost"]}
        /\ Done(c)
        /\ UNCHANGED <<odb, local, have, sync, on, pick, tries>>

(* A kill or an error: git's state and refs stay as they are. *)
Kill(c) ==
    /\ cmd[c].at # "idle" /\ tries.kills < tries.budget.kills
    /\ tries' = [tries EXCEPT !.kills = @ + 1]
    /\ Done(c)
    /\ UNCHANGED <<odb, local, have, sync, on, pick, op>>

(***************************************************************************)
(* The operator, with plain git.                                           *)
(***************************************************************************)
(* Take one side of each conflicting path, or put something else there. *)
Settled(index, unresolved, ours) ==
    {[p \in Paths |-> IF p \in keep THEN ours[p] ELSE index[p]] : keep \in SUBSET unresolved}
With(trees) ==
    trees \cup {[t EXCEPT ![e[1]] = e[2]] :
                   t \in trees, e \in IF tries.budget.edits THEN OperatorEdits ELSE {}}

Meddled(c) == tries.meddled \/ cmd[c].at # "idle"

SettlePick(c) ==
    /\ pick[c].unresolved # {}
    /\ \E t \in With(Settled(pick[c].index, pick[c].unresolved, TreeOf(HeadOf(c)))) :
         pick' = [pick EXCEPT ![c].index = t, ![c].unresolved = {}]
    /\ tries' = [tries EXCEPT !.meddled = Meddled(c)]
    /\ UNCHANGED <<odb, local, have, sync, on, op, cmd>>

SettleWorktree(c, b) ==
    /\ op[c][b].kind = "open" /\ op[c][b].unresolved # {}
    /\ \E t \in With(Settled(op[c][b].index, op[c][b].unresolved, TreeOf(op[c][b].base))) :
         op' = [op EXCEPT ![c][b].index = t, ![c][b].unresolved = {}]
    /\ UNCHANGED <<odb, local, have, sync, on, pick, cmd, tries>>

Operator(c) ==
    /\ tries.operator < tries.budget.operator
    /\ tries' = [tries EXCEPT !.operator = @ + 1, !.meddled = Meddled(c)]
    /\ UNCHANGED <<sync, cmd>>

(* Start a cherry-pick of one's own, give it up, or conclude it. *)
PickByHand(c) ==
    /\ Operator(c)
    /\ pick[c] = NoPick
    /\ \E o \in have[c] :
         /\ CherryClashes(o, TreeOf(HeadOf(c))) # {}
         /\ pick' = [pick EXCEPT ![c] =
                [commit |-> o, index |-> CherryTree(o, TreeOf(HeadOf(c))),
                 unresolved |-> CherryClashes(o, TreeOf(HeadOf(c)))]]
    /\ UNCHANGED <<odb, local, have, on, op>>

AbortPick(c) ==
    /\ Operator(c)
    /\ pick[c] # NoPick
    /\ pick' = [pick EXCEPT ![c] = NoPick]
    /\ UNCHANGED <<odb, local, have, on, op>>

ConcludePick(c) ==
    /\ Operator(c)
    /\ pick[c] # NoPick /\ pick[c].unresolved = {}
    /\ CommitOnHead(c, pick[c].index)
    /\ pick' = [pick EXCEPT ![c] = NoPick]
    /\ UNCHANGED <<on, op>>

(* git worktree remove --force, as the messages advise. *)
RemoveWorktree(c, b) ==
    /\ Operator(c)
    /\ op[c][b].kind = "open"
    /\ op' = [op EXCEPT ![c][b].kind = "lost"]
    /\ UNCHANGED <<odb, local, have, on, pick>>

CheckOut(c, b) ==
    /\ Operator(c)
    /\ pick[c] = NoPick
    /\ b # on[c] /\ local[c][b] # NoOid
    /\ on' = [on EXCEPT ![c] = b]
    /\ UNCHANGED <<odb, local, have, pick, op>>

(***************************************************************************)
(* Sync next to resolve.  Its clean-tree guards stop an import into the    *)
(* checked-out branch while a pick has changed the checkout.               *)
(***************************************************************************)
Dirty(c) == /\ pick[c] # NoPick
            /\ pick[c].unresolved # {} \/ pick[c].index # TreeOf(HeadOf(c))

Blocked(c) ==
    /\ Dirty(c) /\ job[c].branch = on[c]
    /\ \/ pc[c] = "import_advance"
       \/ pc[c] = "import_build" /\ job[c].pending = <<>> /\ job[c].chain # job[c].tip

SyncCommand(c) ==
    \/ LockFree(c) /\ spent.runs < tries.budget.runs /\ StartRun(c)
    \/ Blocked(c) /\ Abort(c, "preflight") /\ UNCHANGED <<odb, remotes, clone, spent>>
    \/ ~Blocked(c) /\ Sync(c)
    \/ Crash(c)

(* git moves no branch under a pick in progress. *)
Others ==
    /\ Environment
    /\ spent'.dev <= tries.budget.dev /\ spent'.customer <= tries.budget.customer
    /\ \A c \in Clones : pick[c] # NoPick => local'[c][on[c]] = HeadOf(c)
    /\ tries' = [tries EXCEPT !.meddled =
           @ \/ \E c \in Clones : local'[c] # local[c] /\ cmd[c].at # "idle"]

ResolveCommand(c) ==
    \/ \E b \in Branches : \/ ResolveStart(c, b) \/ ResolveContinue(c, b)
                           \/ ResolveToDestStart(c, b) \/ ResolveToDestContinue(c, b)
    \/ CherryPick(c) \/ CherryPickContinue(c) \/ Rebuild(c) \/ Swap(c) \/ PushImport(c)
    \/ CheckReuse(c) \/ ReplayPrefix(c) \/ PushPrefix(c) \/ OpenWorktree(c)
    \/ FinishToDest(c) \/ PushResolution(c) \/ CleanUp(c)

OperatorStep(c) ==
    \/ SettlePick(c) \/ PickByHand(c) \/ AbortPick(c) \/ ConcludePick(c)
    \/ \E b \in Branches : SettleWorktree(c, b) \/ RemoveWorktree(c, b) \/ CheckOut(c, b)

RNext ==
    \/ \E c \in Clones : ResolveCommand(c) \/ Kill(c) \/ OperatorStep(c)
    \/ (\E c \in Clones : SyncCommand(c)) /\ UNCHANGED <<on, pick, op, cmd, tries>>
    \/ Others /\ UNCHANGED <<on, pick, op, cmd>>

RSpec == RInit /\ [][RNext]_rvars

-----------------------------------------------------------------------------
(* Resolutions name commits of the clone, and an operation that can still be
   continued is built on a dest commit the clone has. *)
Indexes == Trees \X SUBSET Paths
RTypeOK ==
    /\ TypeOK
    /\ on \in [Clones -> Branches]
    /\ \A c \in Clones :
         /\ pick[c].commit \in have[c] \cup {NoOid}
         /\ <<pick[c].index, pick[c].unresolved>> \in Indexes
         /\ {cmd[c].commit, cmd[c].made, cmd[c].head, cmd[c].chain} \subseteq have[c] \cup {NoOid}
         /\ \A b \in Branches :
              /\ {op[c][b].base, op[c][b].commit} \subseteq have[c] \cup {NoOid}
              /\ <<op[c][b].index, op[c][b].unresolved>> \in Indexes

(* Imports leave no gap: when a source branch says it has imported a dest
   commit, it has imported every customer commit before that one too, through
   sync or by hand, and none of them twice.  A later run starts behind the
   newest import and never looks back (resolve.rs 1349-1361).  Who commits to
   the checkout in the middle of a command can break this. *)
ImportedBy(o, tip) ==
    \E m \in Anc(tip) : OnLine(m, tip) /\ VerifySelf(m, {"DestToSource"}) /\ Counterpart(m) = o
Unmarked(dest, tip) ==
    {o \in Anc(dest) \ Anc(tip) : OnLine(o, dest) /\ odb[o].marker = NoMarker}
ImportsAreGapless ==
    ~tries.meddled =>
        /\ ImportedOnce
        /\ \A b \in ToSet(Configured) :
             \A tip \in ({src[b]} \cup {local[c][b] : c \in Clones}) \ {NoOid} :
                 \A m \in {x \in Anc(tip) : OnLine(x, tip) /\ Verify(x, b, {"DestToSource"})} :
                     \A o \in Unmarked(Counterpart(m), m) : ImportedBy(o, m)

(* Finishing an import never drops content a developer commits to the branch
   in the meantime: the commit that is replaced has the tree and the parent
   of its replacement (resolve.rs 1466-1483). *)
Finishes(c) == cmd[c].at = "swap" /\ cmd'[c].at = "push_import"
FinishKeepsContent ==
    [][\A c \in Clones :
        Finishes(c) =>
            LET old == local[c][cmd[c].branch]
                new == local'[c][cmd[c].branch]
            IN  TreeOf(old) = TreeOf(new) /\ FirstParent(old) = FirstParent(new)]_rvars

(* No command of resolve takes a commit off a branch of dest or of the source
   remote, whatever moved them while the operator was thinking. *)
ResolveDiscardsNothing ==
    [][\A b \in Branches : (\E c \in Clones : cmd[c].at # "idle" /\ cmd'[c] # cmd[c]) =>
        /\ dst[b] # NoOid => IsAncestor(dst[b], dst'[b])
        /\ src[b] # NoOid => IsAncestor(src[b], src'[b])]_rvars

(* A resolution that dest accepts settles the conflict: the next run resumes
   behind the resolved commit, so it replays neither that commit nor one
   before it again, wherever the branch went while the operator was thinking. *)
ResolutionUnblocks ==
    [][\A c \in Clones :
        ~tries.meddled /\ cmd[c].at = "push_resolution" /\ cmd'[c].at = "cleanup" =>
            LET b == cmd[c].branch
                point == DestResumePoint(have[c], local[c][b], dst'[b], b)
            IN  point.kind = "Ok" /\ point.at = op[c][b].commit]_rvars
=============================================================================
