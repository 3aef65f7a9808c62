# Verification of gitprism

gitprism keeps two git remotes in step: *source*, where developers work, and
*dest*, which customers see and may contribute to. `gitprism sync` runs in a
clone of source. It imports what customers committed on dest (dest → source, for
the branches listed in the configuration) and mirrors every local branch to dest
without the paths a pinned `.gitprismignore` excludes (source → dest). It keeps
no state file: each commit it builds carries an authenticated marker that names
the commit it stands for, and each run reads from the history of both sides what
earlier runs have done.

That makes `sync` a distributed protocol. Any number of clones run it against
the same two remotes, with no coordination but the compare-and-swap of a git
push, while developers and customers commit, merge, rewrite, delete and
fast-forward branches at any moment. `gitprism resolve` lets an operator settle a
conflict by hand in between, `gitprism setup` joins the two histories in the first
place, and all of it is done by running `git` as a child process in a checkout
that a developer works in. The modules here model the protocol and these parts,
TLC checks them on small instances, and TLAPS proves some of it for all instances.

Source lines are given as in the repository, below `src/`.

## Inventory

| part | code | state | operations | modelled |
|---|---|---|---|---|
| run loop | `commands/sync/mod.rs` 302–575 | dest listing, halted branches, remaining branches, memo | start, fetch heads, schedule, finish | `Sync` |
| dest → source | `commands/sync/mod.rs` 2015–2500 | attempt, base, chain, conflict | base selection, replay, push, advance | `Sync` |
| source → dest | `commands/sync/mod.rs` 667–1395, 1584–2003 | attempt, resume point, push mode, chain, conflict | resume, rebuild, plan, replay, seal, push, retry | `Sync` |
| marker scans | `commands/sync/marker_scan.rs`, `anchor.rs` | none: questions asked of history | newest markers, boundary, resume point, refusals | `MarkerScan` |
| mapping index | `commands/sync/mapping_index.rs` | the records of one run, a taint | reconstruct, resolve, nearest, invalidate, record; truncation | `MappingIndex`, `BoundedIndex` |
| reuse | `commands/sync/reuse.rs` | none | prove and plan the reuse of a projection | `Reuse` |
| trees, markers, git | `filter.rs`, `marker.rs`, `git.rs` | the object database | filter, merge, sign, verify, walk | `GitObjects` |
| listings | `git.rs` 868–998 | completeness of a listing | list, establish absence | `Sync`, `BoundedIndex` |
| policy check | `commands/sync/policy_check.rs` | none | control file of pending commits | `Sync` |
| local advance | `commands/sync/local_advance.rs`, `policy.rs` 117–266 | local ref, HEAD, index, working tree | preflight, checkout, exact control files, compare-and-swap | `LocalAdvance`; in `Sync` the ref only |
| setup | `commands/setup.rs` | plans, touched branches, saved files and HEAD | plan, commit, clear, check out, recover | `Setup`, `SetupTransaction`; `Sync`: `Init` |
| resolve | `commands/resolve.rs` | cherry-pick in the checkout; linked worktree and state ref | start, continue, finish, clean up, both directions | `Resolve` |
| operation lock | `lock.rs` | one lock file per clone | acquire once, release or die | `Sync`, `Resolve` |
| subprocess runner | `git.rs` 290–566 | child, two pipes, threads, channel, deadline, grace | spawn, feed, capture, poll, kill | `Subprocess` |
| configuration, policy pin, exclude list | `config.rs`, `policy.rs`, `exclude.rs` | | parsing, matching, hashing | no: the models start from a verified policy |
| progress, command line | `progress.rs`, `cli.rs`, `main.rs` | | display, parsing | no |

How they interact: the run loop calls the import for each configured branch,
reconstructs the index, then calls the mirroring for one branch at a time. Both
directions call the scans; the mirroring also calls the index and the reuse
plan. Everything else goes through the remotes. Shared state is: the two
remotes' refs (every clone, developers, customers), a clone's local branches and
object database (the run and its developers), and within a run the index and the
cache of ref existence, which live longer than what they were computed from.
`resolve` and `setup` share with `sync` the operation lock of the clone and
nothing else: what they find is what markers and refs say. The checkout, its
index and its control files are shared with whoever works there, and no lock
protects them. Every call of `git` goes through the subprocess runner.

What is hard about it, and therefore what the properties are for:

* a customer or a developer moves a ref between a run's read and its write;
* a clone is stale and takes for rewritten what it has not fetched yet;
* a run is cut off between two pushes, or between a push and the local update;
* markers of one branch turn up on another, by fast-forwards, merges and new
  branches on either side;
* commits are replayed one at a time onto a tip that has part of their content;
* a reused projection must be what the replay would have produced;
* run-wide caches outlive forced pushes, rejected pushes and deleted refs;
* a limit cuts off a listing, a scan or the index, and absence proves nothing;
* the checkout, index and ref of a branch are three writes, and a developer or an
  operator acts between any two of them;
* setup changes several branches, HEAD and files, and each step may fail, those
  of the recovery too;
* an operator thinks for a day about a conflict while both remotes move;
* a git that exits leaves a helper with its pipes open.

`PROJECT.json` lists each hazard at its line, with the properties that cover it.

## Modules

```
GitObjects        commits, markers, ancestry, trees, filter, three-way merge
  MarkerScan      questions asked of history
    MappingIndex  exact mappings of a run
      Reuse       reuse of another branch's projection
        Sync      the protocol: clones, remotes, runs, environment
          SyncProperties   what sync promises
            SyncInvariants theorems: type correctness, nothing private on dest
              SyncProofs     theorems: what pushes and imports may do to a ref, what they lose
            SyncHistory    history variable: two consecutive runs
            Resolve        resolve next to Sync, operators, kills
              ResolveProofs  theorems on resolve (with SyncProofs)
            BoundedIndex   the index and the listing under their limits
              BoundedIndexProofs   theorems: what a cut cannot do (with SyncProofs)
            MCSync, MCHistory, MCResolve, MCBoundedIndex   instances for TLC
        GitLemmas          lemmas on histories, scans, index and reuse (for the proofs)

LocalAdvance      one checkout: preflight, push, checkout, control files, ref
  LocalAdvanceProofs, MCLocalAdvance
SetupTransaction  what setup promises: all or nothing
Setup             one repository: plan, commit, check out, recover; implements it
  SetupProofs, MCSetup
Subprocess        one git child: pipes, threads, channel, deadline, grace
  SubprocessProofs, MCSubprocess
```

The last three stand apart from `Sync` on purpose: they refine steps that `Sync`
takes as one. `Sync`'s `AdvanceLocalSourceBranch` is `LocalAdvance` seen from the
refs, its `Init` is what a `Setup` that ended with "done" leaves, and its `Crash`
is any outcome of `Subprocess` but "ok".

**GitObjects.** `odb` is the sequence of all commits ever written, an oid is an
index in it, and 0 stands for "none". A tree is a function from paths to
contents. A commit caches its first-parent line and its ancestry, so that walks
are set comprehensions and no definition is recursive. A marker is a record;
that it verifies is modelled by the fact that only actions of gitprism write
one, because the HMAC binds a marker to its commit's parents, tree, authors and
message. `MergeTree` works path by path: git's merge within a file is coarser
here, as two edits of one file clash unless they are equal.

**MarkerScan, MappingIndex, Reuse.** Pure operators over `odb`, each named after
the function it translates. `H` is the set of commits in the asking clone's
object database: the code asks `find_commit(..).is_ok()` before it trusts an oid
taken from a marker, and so do the operators.

**Sync.** Per clone: `local` branches, `have` (its objects), `pc`, `run` (the
state of `run_with_options` and `RunCache`), `job` (the locals of the branch in
hand) and `result`. Shared: `src`, `dst`. One action covers the code between two
accesses to something others can change, so every interleaving that matters is
one of actions:

| action | code |
|---|---|
| `StartRun` | lock, branch listing, dest listing |
| `FetchHeads` | bulk fetch of the listed dest branches |
| `SkipImport`, `BeginImport`, `RefetchSource` | the start of an import attempt, with the pending dest commits |
| `ReplayToSource` | one pending dest commit |
| `NothingToPush`, `PushToSource`, `AdvanceLocalSourceBranch` | the end of an import |
| `ReconstructMappingIndex` | between the phases |
| `SelectNextBranch`, `Finish` | the scheduling loop |
| `FetchDest` | cache, fetch, recreation guard |
| `PlanBranch` | resume point or rebuild or anchor, policy check, already-merged skip, reuse plan, bridge |
| `ReplayToDest`, `SealToDest` | one pending source commit; the tip to push |
| `PushToDest`, `PushRejected` | the push in its three modes, index upkeep, retries |
| `Crash` | a kill, a timeout, a failing subprocess |

An error that no branch-level handling catches is `Abort`, a branch that is
skipped or halted is `NextBranch`. Developers commit, amend, merge, branch, push
(by force where `Forcible` allows) and pull; customers commit, merge,
fast-forward, create and delete. `Init` is what `gitprism setup` leaves:
a graft, a merge of earlier source history with dest's tip, a dest branch with
nothing in common with its namesake on source, or a pair with one branch already
mirrored.

**Resolve.** Adds to `Sync` what each clone has checked out (`on`), its cherry-pick
in progress (`pick`), its worktree operations (`op`) and the command under way
(`cmd`). A step ends where a command reads or writes what others can change.

| action | code (`commands/resolve.rs`) |
|---|---|
| `ResolveStart`, `CherryPick` | `resolve_start`: the oldest pending dest commit is cherry-picked |
| `ResolveContinue`, `CherryPickContinue` | `resolve_continue`: only the pick of that commit is taken over |
| `Rebuild`, `Swap`, `PushImport` | `finish`: read HEAD, rebuild with the marker, compare-and-swap, push |
| `ResolveToDestStart`, `CheckReuse`, `ReplayPrefix`, `PushPrefix`, `OpenWorktree` | `resolve_source_to_dest`, `start_source_to_dest` |
| `ResolveToDestContinue`, `FinishToDest`, `PushResolution`, `CleanUp` | `finish_source_to_dest` and the checks before it |
| `Kill` | a kill between any two of these |

The operator settles conflicts in any way, stages what the policy excludes,
starts, aborts or concludes cherry-picks with plain git, removes worktrees and
checks out other branches. An operation's state, which the code encodes and
authenticates in a state commit, is its content here. `tries.meddled` remembers
that somebody worked in a checkout while a resolve command ran in it, since two
of the properties cannot be promised then (see below).

**BoundedIndex.** Says of every state in which a run of `Sync` builds its index what
that index, and lookups in it, would be under smaller limits and with branch
names on dest that are not text or not valid. There is no action of its own: the
invariants quantify over the limits.

**LocalAdvance.** A commit is the sequence of trees that leads to it, so that a
fast-forward is a longer sequence; working tree, index and HEAD are explicit, and
a checkout's filters (`core.autocrlf`) are a function from stored to written
contents. git's `checkout_tree` is modelled from how the code calls it: what it
writes, what it refuses, and that it takes ignored files for expendable.

**Setup, SetupTransaction.** A commit is the sequence of who made each of its
first-parent ancestors; a graft is written as the branch its marker names. Each
action is one step of `run_with_remove_file`, of the
checkout or of the recovery; each of them may fail, and a failing step of the
recovery is noted and passed over, as in `with_recovery_failures`.
`SetupTransaction` is the abstract specification: a run either grafts every
branch and checks the first one out, or changes nothing; only a run that says
that its recovery failed, that was killed, or that somebody worked next to in
the same repository may leave anything else. The refinement maps the repository
to what it was at the start of the run until the run has ended.

**Subprocess.** One action per thing a thread or process can do on its own. A byte
is its position in its stream, so lost, repeated and reordered output would show.

## Runs

`main` is configured, `feat` is mirror-only; names sort `feat` before `main`.
Paths: `a` and `b` are mirrored, `x` is excluded, `ctl` is the control file. Each
run takes the histories, edits and bounds under which its properties can fail.

| run | bounds | shows |
|---|---|---|
| `settles` | grafted and mirrored histories; 1 clone, 2 runs, 2 developer steps (private content among them), 1 customer step, both branches may be rewritten | `TypeOK`, `NoLeak`, `OwnMirrorNeverImported`, `RoundTrippedFastForwards`, `NoCustomerWorkDiscarded`, `SyncSettles` |
| `crash` | grafted, orphan and merged histories; 3 runs, 1 crash, 2 developer steps (the control file among them), 1 customer step, recreation allowed | `ImportedOnce`, `NoRivalCopies`, `PushedTipIsResumable`, `NeverRecreatedImplicitly` |
| `clones` | 2 clones (symmetric), 2 runs, 3 developer steps | `ForcedRebuildFollowsRewrite`, `ImportKeepsDeveloperWork`, `StaysInStep`, `ReuseMatchesReplay` |
| `terminates` | 1 run, 1 crash, 1 developer step, 2 customer steps | `RunTerminates`, `RunDescends` |
| `resolve` | 1 clone; one of six budgets per behaviour (`MCBudgets`): up to 1 run, 3 developer and 2 customer steps, 5 resolve commands, 2 operator actions, 1 kill | `RTypeOK`, `NoLeak`, `ImportsAreGapless`, `FinishKeepsContent`, `ResolveDiscardsNothing`, `ResolutionUnblocks` |
| `limits` | 3 branches, 2 developer and 2 customer steps; limits from "cuts nearly everything" to "cuts nothing" | `AnchorIsExactOrRefused`, `SharedIsExactOrUnobserved`, `AbsenceIsReal` |
| `advance` | 2 imports, 2 developer steps; five paths: tracked, untracked, ignored, a file in the way of a directory, a filtered control file | `AdvanceInv`, `PreflightIsSound`, `AdvanceIsExact`, `NoEditLost`, `NoCommitLost` |
| `setup` | 2 configured branches and another, 2 control files, 2 runs, 1 crash, 1 move of dest, 1 developer step, every failure | `SetupInv`, `RegraftedOnlyUnderWork`, `NoCommitLostByGraft`, `ImplementsTransaction` |
| `subprocess` | 3 bytes per stream, pipes of 1, channel of 2, stream limits of 2 and 1, total limit of 2, input of up to 3 against a limit of 2 | `CompleteOutput`, `CaptureBounded`, `NothingLeftRunning`, `ExitIsNoticed`, `Terminates`, `WorkIsServed` |

Every bound is a constant: `MaxRuns`, `MaxCrashes`, `MaxDev`, `MaxCustomer`, `MaxDest`
and `Budgets` cap what the environment does, `MaxRaceRetries` is the code's own
retry limit (1 here, 3 in the code: one retry and one exhausted retry are the two
cases). Two branches of the two kinds are enough for one branch to reuse, shadow,
adopt or contradict the other; two public contents are enough for a clash; in
`Subprocess` every capacity is as small as it can be while two events still fit
the channel, which is when waiting threads interfere most. `Resolve` has budgets
in place of one bound per kind of step because all kinds at once are out of reach;
each budget is a situation (a long import, two conflicts on one file, kills
between a command's steps, an operator with plain git, private content), and all
of them are initial states of one run. The checks have room for what they look
for: each property is violated in its run once the definition `PROJECT.json` names
is replaced by a plausible mistake.

Deadlock is not checked: when the bounds are used up and no run is under way,
nothing is left to do. That nothing gets stuck half-way is what `RunTerminates`,
`ExitIsNoticed`, `Terminates` and `WorkIsServed` say.

What the less obvious properties are about:

* `SyncSettles`: a run that ended clean left nothing to do. If nobody else acts, the
  next run pushes nothing. Markers that a later scan does not recognise would make
  it push again for ever.
* `NoCustomerWorkDiscarded`: what a rebuild takes out of dest and gitprism did not
  make is in source. A commit that was imported on a branch developers may rewrite
  counts as imported: whoever drops the import there takes that on himself.
* `PushedTipIsResumable`: no push leaves a tip that makes the next run halt. The
  exception, `PutBack`, is a commit that was the branch's own already and that the
  creation or the rebuild of a ref puts back as it was (see below for why).
* `ImportsAreGapless`: a source branch that says it has imported a dest commit has
  imported all customer commits before it, by sync or by hand, and none twice; a
  later run starts behind the newest import and never looks back.
* `ImportedOnce`: no source branch has two imports of one dest commit for one dest
  branch. It cannot be said of all imports of that commit. With two configured
  branches, a developer amends a commit of `main` that was mirrored, a customer adds
  one to dest's `main`, and a run imports it. Then `feat` is made from `main` on both
  sides. The next run finds a projection on dest's `feat` that is not in source any
  more, and imports for `feat` from there on: the customer's commit a second time.
  With one configured branch, as in the run `crash`, the two readings are the same.
* `NoRivalCopies`: a run never writes a second copy of a source commit that its index
  maps, beside the first. A lookup of a commit with two unrelated copies is
  contradictory, and halts every branch that has it. That dest as a whole never holds
  two such copies would be too much to say: see the next section.
* `ForcedRebuildFollowsRewrite`: what a forced push replaces stood for a source commit
  that the source remote itself no longer had when the run asked. Whatever a stale
  clone has missed, the question goes to the remote.
* `StaysInStep`: where source and dest have the same content (`InStep`), a branch is
  mirrored without a conflict and to exactly the filtered tree of the source tip,
  whatever was committed, merged, undone and filtered out in between. It is the part
  of "mirrors every branch" that the program can promise: where the two sides have
  diverged, a replay is a merge.
* `RunDescends`: what a run still has to do decreases with each of its steps, and with
  no step of anybody else. `RunTerminates` says that runs end, this says why.
* `ResolutionUnblocks`: the next run resumes exactly behind the resolved commit.
* `AnchorIsExactOrRefused`: under any limit an anchor is the one the whole history
  gives, or the branch is refused. `SharedIsExactOrUnobserved` has the exception
  that decision 0052 accepts: a commit the cut index has no record of.
* `PreflightIsSound`: what preflight let through, and nobody disturbed, is advanced;
  the remote is never changed for a checkout that then fails.

**Fairness.** `RunTerminates` assumes weak fairness of `Sync(c)`, the steps of a
run: a process that has been started and is not killed goes on. Nothing is
assumed of developers, customers or the start of runs, and a crash may happen at
any step. Every push gives a definite answer within its timeout, so the code
justifies it; that a git command returns is `Subprocess`'s `Terminates`.

`Subprocess` assumes weak fairness of the runner's loop, which polls with a timeout
and so never waits for anybody, and of the grace timer. It assumes nothing of the
child, its helpers and the threads, and a child may hang for ever. `Terminates` has
as its premise that the deadline comes. `ExitIsNoticed` needs no premise: from the
exit of the child on, the grace period bounds the wait. `WorkIsServed` is about
deadlock by full pipes, so its premise describes a git that does its work: it writes
all it may before it reads its input, and the operating system schedules it and the
threads. No timer helps it.

## Where the code and its documents disagree

Three have a run in which TLC finds a counterexample.

* **`refusal`.** A discovered branch that exists on both sides without shared
  history stops the whole run: the scan for the newest dest marker is an error,
  and `dest_tip_accounted_for` passes it on (`anchor.rs` 111). Decision 0045 says
  that it "simply falls through" on `None` and that such a refusal "no longer
  starves later-sorted branches".
* **`setupmerge`.** `setup` may merge source's earlier history with dest's tip.
  The marker of that merge says that it stands for the dest tip, which lacks all
  that source had before. A branch anchored there is mirrored without that
  content, which is where `MirrorsWhatItPushes` fails. `StaysInStep` is about branches
  whose anchor has the content it stands for, and `SyncSettles` leaves this origin out
  of its run.
* **`control`.** A control file that a developer edits between the preflight and
  the checkout, and that the import does not change, is rewritten without a
  conflict: `restore_control_files_exact` does not look at what is there. The
  comment at `local_advance.rs` 230–232 says that a local modification "must
  surface as a conflict, not be silently overwritten". The passing run `advance`
  has no late edits of the control file for this reason.

The others are known from the models, and the properties are stated so as to
leave them out:

* A put-back tip. A customer fast-forwards dest's `main` to the projection of
  another branch, and a run imports it. Then dest's `main` is deleted, and a run with
  `--recreate-dest main` is asked to restore it, which is the remedy that decision
  0053 (point 3) and `foreign_mirror_marker_message` (`mod.rs` 1482) give for a tip
  with another branch's marker. Nothing is pending, so
  `branch_scoped_dest_tip` (`mod.rs` 1984–2003) takes the imported dest tip for
  accounted for and pushes it as it is. It carries the other branch's marker and no
  marker of `main`, so the next run refuses it. `PushedTipIsResumable` without its
  exception `PutBack` fails this way. The `crash` run is too small for it.
* A customer's undo. Both sides add the same content and the customer removes it
  again: source ends up without it, and the replay of the developer's commit adds
  it to dest once more. The other way round, a developer adds a content and takes it
  back, and a customer adds the same to dest: the import brings it back in source,
  while dest replays the developer's removal. The run ends "ok", and the two sides
  differ without anybody having been told. The README says that neither
  side is dropped silently. `StaysInStep` speaks of branches on which nothing was
  imported since, for this reason.
* Two copies of one source commit. A customer merges the projection of `feat` into
  dest's `main` and deletes `feat`; it is published again, and merged again: `main` has
  two copies of its commits. Or a customer keeps dest's `feat` under a ref of his own,
  the developer amends `feat`, and the forced rebuild drops the records of `feat`'s old
  commits from the index (`mapping_index.rs` 625–692) though that ref still holds them;
  such a commit is projected once more when it comes back. That dest has one copy of
  each commit, or only copies one of which descends from the other, is therefore true
  in small instances and false in larger ones. What a run can know of, its index, it
  respects: `NoRivalCopies`.
* A configured dest ref that is deleted between the fetch and an ordinary push is
  created again by the push. Decision 0053 says that it is not recreated
  implicitly; `NeverRecreatedImplicitly` says it of a ref that was missing when the
  run listed dest.
* The comment at `mapping_distance_with_none_memo` says that an unmapped branch
  cannot gain a mapping within a run. After a merging setup it can. Only the order
  of branches depends on it.
* `setup` recognises its own graft at the tip of a branch only. After one commit of
  a developer on top, a second setup with a newer dest tip merges and marks again,
  though the comment at `setup.rs` 258–264 calls it a one-time step.
  `RegraftedOnlyUnderWork` says when that cannot happen.
* `setup` removes the control files on the strength of a read made before its
  fetches (`setup.rs` 361–383): what a developer writes to them in between is lost.
* `finish` of a resolved import takes whatever HEAD names for the commit its
  cherry-pick made (`resolve.rs` 1446). If a developer commits or resets in the
  same checkout in between, that commit is replaced: its content stays
  (`FinishKeepsContent`), its author and message do not, and it is marked as the
  import. `ImportsAreGapless` and `ResolutionUnblocks` are therefore about
  behaviours in which nobody works in the checkout during the command.

## Proofs

The theorems hold for every set of clones, branches, paths, contents and edits,
and for every bound. They use no assumption but the ones the modules state by
name: `TreeAssumption` and `SyncAssumption` give the constants their types, and
`HistoryAssumption` says that the initial histories can be written with them (a
configured branch, another branch, a content that is not private);
`SubprocessAssumption` is types only, with positive capacities;
`LocalAdvanceAssumption` is types, and that a filter writes different stored
contents differently (what git calls clean after a checkout is what was checked
out); `SetupAssumption` says besides that configured branches and control
files are distinct and at least one each, that branches are not named like
setup's scratch refs, and that no branch carries a graft before the first setup.

* `TypeOKHolds` (`SyncInvariants`): every ref, local branch and object is a well-formed
  commit, and a clone that has a commit has all of its history. `TypeOK` is not
  inductive: what a run writes to a ref or into a commit comes from its `run` and
  its `job`, and what those hold comes from scans of history. `SyncInv` says which
  oids a run holds at which `pc`, that they are commits its clone has, and where
  an oid may be missing because the step that reads it can deal with that. Most of
  the argument is in `GitLemmas`: a written commit keeps every history closed
  (`WriteExtends`, `WriteKeepsClosed`), a fetch does (`FetchedClosed`), the pending
  commits of a known tip are known (`PendingCommitsOfTip`), and so are merge bases,
  anchors, resume points and what the index resolves to (`MergeBaseCommon`,
  `AnchorOfTip`, `ResumePointKnown`, `ResolvedDest`, `ReusePlan`). `InitSyncInv`,
  `NextSyncInv` (a lemma per action) and `SyncInvTypeOK` are the three facts.
* `NoLeakHolds` (`SyncInvariants`): no commit in the history of a dest ref has private
  content at an excluded path. `NoLeak` speaks of refs, but a ref gets what a run
  built steps before on a commit it took from dest, from a marker or from the
  index. `LeakInv` therefore says, of all that a run may later publish, that it is
  clean along its whole history: the dest tips it fetched, the chain and the bridge
  it builds, the commits it is importing, what every record of its index resolves
  to; and, since indexes are read back from markers, that every projection in the
  object database is clean and that every import and graft names a clean dest
  commit. `CleanWrite` and `CleanMarkersWrite` keep this through a new commit,
  `ReplayClean` is the filter's part (a replay leaves excluded paths as they are on
  dest), `CleanIndex` and `CleanIndexAfterPush` are the index's, and `PlanKnown` and
  `ResumeKnown` say that a plan builds on nothing else. The proof uses `SyncInv`,
  and of customers only that they do not write private content.
* `RoundTrippedFastForwardsHolds` (`SyncProofs`): a push never takes a commit out
  of a configured branch on dest. The property alone is not inductive, since the
  push mode is chosen long before the push. `ForceInv` carries it: a job in hand
  whose mode is "force" is never that of a configured branch. `ResumeMode` shows
  that the only place which chooses this mode does so for a mirror-only branch;
  `PlanForce`, `PrepareImportForce` and `EnvironmentKeepsRuns` take `ForceInv`
  through the actions; and a push of a job in either other mode is accepted only
  if it descends from the tip it replaces, or if there is none.
* `NeverRecreatedImplicitlyHolds` (`SyncProofs`): a configured branch that was
  missing when a run listed dest is created only by a run that was asked to. Between
  the listing and the push lie the whole of phase 1, the scheduling and the retries.
  `TurnsInv` names the branches the run must not touch, `Held`, and says that until
  phase 1 is over each of them is still to be visited or halted, afterwards halted,
  and so neither left to mirror nor in hand.
* `ImportKeepsDeveloperWorkHolds` (`SyncProofs`): an import moves refs of source
  only forward. The remote takes only a fast-forward; for the local ref `TurnsInv`
  says that the tip which the compare-and-swap expects is in the history of what it
  writes, from the preflight on (`ImportWrites`: no other step of an import writes
  a ref of source but the creation of a missing local branch).
* `OwnMirrorNeverImportedHolds` (`SyncProofs`): a marker never changes, and neither
  does the commit it names, so `ForeignImports` is kept by all steps that write
  markers but one, and `ReplayToSource` skips exactly the branch's own mirror.
  `RunWrites` says what each step of a run may write.
* `PushedTipIsResumableHolds` (`SyncProofs`): from what a run pushes the next can
  resume, put-back tips excepted. What a run pushes was chosen several steps before,
  possibly on an earlier attempt, and possibly by another clone's projection.
  `TipsInv` says what may be in hand. First, nothing that came from source has a
  projection in its history (`SourceSide`: refs of source, local branches, chains of
  imports), so a tip that is an ancestor of the source tip resumes at the graft
  (`ResumesAtGraft`). Second, from the plan on the chain is the base, or ends in a
  projection for this branch of a commit of the source tip (`Marked`), and there the
  newest marker is its own (`ResumesBehindOwnTip`). Third, a base pushed as it is
  belongs to a creation or a rebuild and was accounted for (`Shown`), which is
  `PutBack`. A lemma per action carries `TipsInv`; developers matter, who move
  source's refs, and customers do not.
* `NoCustomerWorkDiscardedHolds` (`SyncProofs`): whatever a push takes out of a dest
  branch is gitprism's own projection, or source has it: the graft or an import on
  the source remote stands for a dest commit with it in its history. A plain push
  takes nothing out, and a rebuild replaces, because of the lease, only the tip its
  run has read; so the question is what that tip was, and source and dest have
  moved since. `WorkInv` keeps the books: a set `D` of commits is dest's side of all
  history. An import or a graft *stands in* for a dest commit as long as it is on
  the branch of the source remote it was made for (`StandIns`); `StoodFor` are the
  projections and the dest commits something stands in for, and `KeptWork` is what they
  have in their histories. `Ledger` says that every projection is in `D`, has only
  such parents, and has nothing in its history that is not `KeptWork`. `Homes` is
  source's side, which shares one commit with dest. Both only grow (`GrownWrite`,
  `RefsGrown`): a commit
  of a customer joins `D` and nothing stands in for it yet; a projection is built on
  commits of `StoodFor`; and an import stands in from its push on, not before
  (`Homes` with the branch that is being imported as an exception). What the scans
  find, resume points, accounted tips, bridges and anchors, is in `StoodFor`
  (`ResumeStoodFor`, `AccountedStoodFor`, `RepresentedStoodFor`, `IndexStoodFor`). Then
  a lemma per action, from `WorkStart` to `WorkCustomer`.
* `ImportedOnceHolds` (`SyncProofs`): a run takes the newest marker on source's line
  for the place where dest's line has been imported up to, and never looks below it.
  That is sound only if the markers on a line are in dest's order, and without gaps.
  `ImportInv` says so of every commit ever written, and so needs to know nothing of
  refs, clones or who wrote it when: oids fall along a line and a line is the lower
  end of every line it is on (`Straight`); what a graft or an import stands for is on
  the line of no older marker for the same branch, and every customer commit below
  it on dest's line is imported below it on source's (`InOrder`). `Due` says the
  same in advance of the dest commits a run has in hand: each fits on the chain built
  so far, but for those that come before it. `NewestIsNewest` and `PendingIsAbove` are
  about the scan, `PendingDue` about a new attempt, `ReplayImports` about the one step
  that writes an import; `LogPlainWrite` covers all other commits.
* `ForcedRebuildFollowsRewriteHolds` (`SyncProofs`): a commit leaves a dest branch only
  after a rewrite at source. Between the choice of the push mode and the push lie the
  whole replay and whatever others do to both remotes. `RewriteInv` says that a job
  which will be forced remembers a dest tip, the one the lease names, and an advertised
  source tip, such that the newest source commit named by the first is not in the
  history of the second (`Rewritten`). Histories never change (`NextExtends`), so this
  stays true from the plan on; `PushAccepted` says that a push in any other mode takes
  nothing out, and that a forced one replaces only what was remembered.
* `StaysInStepHolds` (`SyncProofs`): where source and dest are in step, replaying commit
  by commit adds up. `StepInv` says of a job that began in step how far it has got
  (`Caught`): the commits still to be replayed are the upper part of source's line, and
  what has been built has the filtered tree of the commit just below them. For that
  the commit below has to be the first parent of the one that is replayed, which is
  `LinkInv`, kept by every commit ever written. Then the merge of the replay has the
  projection's tree for its base, and can neither conflict nor differ
  (`ReplayOnItsParent`). `PlanInStep` finds the job caught up as far as the boundary,
  `SealInStep` at the tip.
* `NoRivalCopiesHolds` (`SyncProofs`): `RivalInv` says of each commit a run has still to
  replay that it is an import, or not in the index, or that a mapped commit is in the
  history of what is being built (`Accounted`). What is built grows at its upper end, so
  the step of a replay keeps this (`RivalKept`); the plan has to establish it. If the
  branch is continued, the newest pending commit whose copy can be reused
  (`NewestShared`) has above it only imports, unmapped commits, and commits with a copy
  below the base already (`AfterNewestShared`); and what reuse builds on has the base in
  its history (`ReuseKeepsBase`). If it is created or rebuilt, it starts at the nearest mapped
  commit of source's line (`ResumesAt`), and above that nothing is mapped
  (`UnmappedAbove`). `PlanHasNoRival` puts this together; it needs from `ImportInv` that
  oids fall along a line.
* `RunDescendsHolds` (`SyncProofs`): the six numbers of `Outlook` are natural numbers,
  and each step of the run lowers the first of them that it changes; steps of other
  clones, developers and customers change none. `DescentInv` bounds the
  retries and types the pending commits, `BranchesFinite` lets the branches left be
  counted.

* `CompleteOutputHolds` (`SubprocessProofs`): output that is handed to a caller is
  all that was ever written. It depends on where every byte is. `RunnerInv` says it
  with `Joined`: what the runner has of a stream, what is in the channel, in order,
  and what its capture thread holds are adjacent ranges, each beginning where the
  one before it of the same stream ended; and with `Endings`: the end of a stream is
  announced only when its pipe is empty and nobody holds it, as the last event of
  its thread. When both ends have been received, nothing can be anywhere else.
* `RunnerBoundsHold` (`SubprocessProofs`): types, in particular that the channel
  never holds more than its capacity; and that what is kept stays within the limits.
* `NothingLeftRunningHolds` (`SubprocessProofs`): the child has been reaped, or was
  never started, whenever the runner has returned. The invariant adds that whoever
  read an exit status has reaped the child: that is the return which does not kill.
* `PreflightIsSoundHolds`, `AdvanceIsExactHolds` (`LocalAdvanceProofs`): without
  interference an import that passed preflight ends in a clean checkout of the new
  tip. `UndisturbedInv` says of a run in which the developer has done nothing that
  the ref is where preflight saw it, that index and working tree have no changes
  and nothing in the way until the checkout, and that they are the target's
  afterwards. `SmudgedIsSame` is where the filter matters.
* `NoEditLostHolds`, `NoOtherEditLostHolds` (`LocalAdvanceProofs`): nothing that
  only the working tree holds is replaced. For all files but the control file that
  holds without a proviso, because `checkout_tree` looks before it writes. For the
  control file it holds if it is tracked and nobody edits it late
  (`ControlLeftAlone`, as in the run `advance`; the run `control` shows that it is
  needed). `ControlInv` says that it is as the index has it until it is restored.
* `AdvanceInvHolds`, `NoCommitLostHolds` (`LocalAdvanceProofs`): from preflight on,
  the commit that is pushed, checked out and written to the ref descends from the
  tip that preflight saw, and so no step of a run takes a commit off the local
  branch. The inductive invariant is `AdvanceInv` itself; the second theorem needs
  from it that the compare-and-swap moves the ref from a prefix of the target.
* `ImplementsTransactionHolds` (`SetupProofs`): setup is all or nothing, whichever
  steps fail. The refinement mapping shows nothing of a run before it ends, so the
  proof has to know at every `pc` what has been changed and what has been put back.
  `Undone` says it of a run that is undisturbed and of which no recovery step has
  failed: `RefsSo` of the branches (grafted up to `touched`, rolled back up to `i`),
  `DiskSo` of HEAD and the working tree, `FilesSo` of the control files. The step
  that needs a reason is the checkout, which writes nothing if HEAD is already at its
  target: `CheckoutWrites` shows that it never is, because the graft on the first
  branch carries that branch's marker and no other branch can (`Unmixed`, `Planned`).
* `SetupInvHolds`, `NoCommitLostByGraftHolds`, `RegraftedOnlyUnderWorkHolds`
  (`SetupProofs`): `Sound` (types, and how `i`, `touched` and the plan agree at each
  `pc`) with `Moved` gives the first, `Sound` and the compare-and-swap the second.
  For the third, `AllSpaced` extends the property from the refs to what a run may
  yet write to one: the tips it saved and the grafts it planned.

* `RTypeOKHolds`, `ResolveNoLeakHolds` (`ResolveProofs`): the invariants of `Sync`
  with resolve and operators next to it. `RInv` is `SyncInv` and `LeakInv`, which
  every new step has to keep, with `DeskInv`: what is on an operator's desk. A
  cherry-pick, a command in progress and an open resolution hold commits that the
  clone has; what will be pushed to dest is built on a clean dest commit and is
  filtered when it is finished, whatever was staged. `SyncCommandStep` and
  `EnvironmentGrows` take over what was proved of `Sync`; `CommandsKeepRInv` and
  `OperatorKeepsRInv` have a lemma per action.
* `FinishKeepsContentHolds`, `ResolveDiscardsNothingHolds` (`ResolveProofs`): action
  properties from `RInv`. The compare-and-swap moves the branch only from the commit
  that was rebuilt (`StillAt`), and all pushes of resolve are plain.
* `ResolutionUnblocksHolds` (`ResolveProofs`): after dest has taken a resolution the
  next run resumes behind the resolved commit. `LockInv` says that the clone's one
  lock keeps the source branch where it was, unless somebody works in the checkout;
  `DeskInv`, that the resolution is on its own first-parent line, and names a
  commit of that branch; `ResumesBehindOwnTip` does the rest.
* `ImportsAreGaplessHolds` (`ResolveProofs`): a source branch that has imported a dest
  commit has all customer commits before it, though an operator may have settled any
  of them by hand. `GapInv` adds to `ImportInv` that a command under way is about the
  next commit that is due (`Placed`), and that it stays so while both remotes move,
  since the clone's lock keeps the branch it will write to. It is claimed as long as
  nobody works in a checkout during a command: `finish` would take his commit for
  the one it asked for. `NextPendingFits` is the choice of the commit, `RebuildPlaced`
  the marker that `finish` puts on it.

* `AnchorIsExactOrRefusedHolds`, `SharedIsExactOrUnobservedHolds` (`BoundedIndexProofs`):
  whatever the limits cut off, an anchor is exact or refused, and a lookup is exact,
  refused, or about a commit the index has no record of. Both follow from `CutIsWhole`:
  an index that is not tainted is the whole one. A scan stops at the first commit that
  an earlier one visited, so it has to be shown that nothing new comes below it: that
  is `Straight`, from `ImportInv` (`ScanCovers`). `ScanReads` finds how far a scan got
  (`kept` exists because the records are finitely many), `SideCovers` goes over the
  heads, and a complete listing has left out no name that counts (`ListingIs`).
* `AbsenceIsRealHolds` (`BoundedIndexProofs`): a branch is not taken for absent on the
  word of a listing that was cut off. A name that was passed over is no branch of the
  clone, which is how `Foreign` describes such names.

The library's induction theorems take an operator as a parameter, which none of the
provers can instantiate. Where a proof goes over a sequence it argues from the least
index at which a statement fails (`LeastNatural` in `GitLemmas`, `UpTo` in
`BoundedIndexProofs`), and `FoldIsThere` says that the function by which the community
modules define a fold exists.

What is model-checked only, and why:

* Liveness: `RunTerminates`, `ExitIsNoticed`, `Terminates`, `WorkIsServed`.
  They are statements about infinitely many steps of a fair behaviour. `RunDescends`
  is the safety part of the first, and proved: with it, what is left to argue is that
  a run which has not ended can always take a step.
* `ReuseMatchesReplay`, which compares the trees along two whole chains, the projection
  that is reused and the one that was not built. Its proof would be an induction over
  both at once, with the adopted imports of customers in between.
* `SyncSettles`, which compares what two consecutive runs do to all branches.

## Not modelled

* Limits as errors: a scan, a pending list or a tree that exceeds its limit ends the
  command, which is `Crash` or `Kill` in the models. File-size and depth limits.
* Failing queries that the code downgrades to a halt of one branch; in the model
  a failing remote is a `Crash`, which may happen at any step.
* Parsing, validation and hashing of the configuration, the pinned policy and the
  exclude patterns; the HMAC and the text of markers; git's porcelain output; the
  encoding of a worktree's state and the checks on its path. They are functions of
  their input, with no state and no interleaving; the repository's unit tests reach
  them.
* In `Resolve`: uncommitted edits of control files at finish, and the refusals for
  a dirty checkout at start (both stop the command before it changes anything).
* Merges within a file: two edits of one path clash unless they are equal.
* Progress display, command line, messages.

## What is left to do

1. The proof of `ReuseMatchesReplay`, from a counterpart of `ImportInv` for dest on
   which a projection's line is the image of its counterpart's.
2. An abstract specification of the mirror itself (dest's branch is the image of a
   prefix of source's first-parent line, imports excepted) that `Sync` implements.
3. Two clones in `Resolve`: now one clone resolves while customers, developers and
   its own sync move the remotes.
