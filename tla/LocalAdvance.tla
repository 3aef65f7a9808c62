---------------------------- MODULE LocalAdvance ----------------------------
(***************************************************************************)
(* The end of a dest->source import in one checkout (local_advance.rs):    *)
(* preflight, push, and then the advance of the local branch with its      *)
(* working tree and index, while a developer works in the same checkout.   *)
(*                                                                         *)
(* A commit is its history, the sequence of trees from the root to itself, *)
(* so that a fast-forward is a longer sequence.  What a path holds in the  *)
(* working tree may be a smudged form (core.autocrlf) of what git stores.  *)
(***************************************************************************)
EXTENDS Integers, Sequences, SequencesExt

CONSTANTS
    Paths,        \* paths of files
    Within,       \* <<p, q>>: q lies in a directory named p
    Ignored,      \* paths matched by .gitignore
    Control,      \* the path of the control file
    Values, Absent,
    Smudged,      \* what a checkout writes for some values, and undoes
    Start,        \* the tree at first
    Imports,      \* the <<path, value>> an import brings
    EarlyEdits, LateEdits,   \* what the developer may write before and after preflight
    Elsewhere,    \* what others commit to the branch, here or on the remote
    MaxRuns, MaxDev          \* bounds

Contents == Values \cup {Absent}
Trees == [Paths -> Contents]

ASSUME LocalAdvanceAssumption ==
    /\ Within \subseteq Paths \X Paths
    /\ Ignored \subseteq Paths /\ Control \in Paths
    /\ Absent \notin Values
    /\ DOMAIN Smudged \subseteq Values /\ Smudged \in [DOMAIN Smudged -> Values]
    /\ \A v, w \in DOMAIN Smudged : Smudged[v] = Smudged[w] => v = w
    /\ Start \in Trees
    /\ Imports \subseteq Paths \X Values
    /\ EarlyEdits \cup LateEdits \cup Elsewhere \subseteq Paths \X Values
    /\ MaxRuns \in Nat /\ MaxDev \in Nat

VARIABLES
    remote,   \* the branch on the source remote
    ref,      \* the local branch
    on,       \* HEAD names the branch; else another branch, which stays at Start
    index,    \* the staged tree
    work,     \* the working tree, untracked files included
    pc,       \* what the run does next
    target,   \* new_source_tip
    expected, \* the local tip that preflight saw
    touched,  \* the developer has acted since preflight
    result,   \* how the latest run ended
    spent     \* runs started and developer steps taken

gitprism == <<pc, target, expected, result>>
checkout == <<on, index, work>>
vars == <<remote, ref, checkout, gitprism, touched, spent>>

Tree(c) == Last(c)
HeadTree == IF on THEN Tree(ref) ELSE Start

(* The forms of a value: in the working tree after a checkout, and as git
   compares what it finds there. *)
Smudge(v) == IF v \in DOMAIN Smudged THEN Smudged[v] ELSE v
Cleaned(w) == IF \E v \in DOMAIN Smudged : Smudged[v] = w
              THEN CHOOSE v \in DOMAIN Smudged : Smudged[v] = w ELSE w
Same(w, v) == v \in {w, Cleaned(w)}

PathsConflict(p, q) == p = q \/ <<p, q>> \in Within \/ <<q, p>> \in Within
Untracked(p) == index[p] = Absent /\ work[p] # Absent
TrackedDirt == \E p \in Paths : index[p] # HeadTree[p]
                                \/ (index[p] # Absent /\ ~Same(work[p], index[p]))

Init ==
    /\ ref = <<Start>> /\ remote = ref
    /\ on \in BOOLEAN
    /\ index = Start /\ work = [p \in Paths |-> Smudge(Start[p])]
    /\ pc = "idle" /\ target = ref /\ expected = ref
    /\ touched = FALSE /\ result = "none"
    /\ spent = [runs |-> 0, dev |-> 0]

End(how) == pc' = "idle" /\ result' = how
Step(from, to) == pc = from /\ pc' = to /\ UNCHANGED result

(* Fetch the source remote and replay a customer's change on its tip. *)
Build ==
    /\ spent.runs < MaxRuns
    /\ pc = "idle" /\ pc' = "preflight" /\ result' = "none"
    /\ \E i \in Imports : target' = Append(remote, [Tree(remote) EXCEPT ![i[1]] = i[2]])
    /\ spent' = [spent EXCEPT !.runs = @ + 1]
    /\ UNCHANGED <<remote, ref, checkout, expected, touched>>

(***************************************************************************)
(* Preflight.  The dry run of the checkout does not see untracked files;   *)
(* reject_colliding_untracked_paths does.                                  *)
(***************************************************************************)
Changed == {p \in Paths : HeadTree[p] # Tree(target)[p]}

(* Mutant of Diverged: a divergent local branch is not noticed. *)
DivergedUnseen == FALSE
Diverged == ~IsPrefix(ref, target)

(* Mutants of Collision: only the dry run looks for collisions; a file in a
   directory that is to become a file is not one. *)
CollisionUnseen == FALSE
CollisionOfEquals == \E p \in Changed : Untracked(p)
Collision ==
    \E p \in Changed, q \in Paths :
        Untracked(q) /\ PathsConflict(p, q)

DryRunFails == \E p \in Changed : /\ index[p] # Absent
                                  /\ ~Same(work[p], HeadTree[p]) /\ ~Same(work[p], Tree(target)[p])

Preflight ==
    /\ pc = "preflight"
    /\ IF Diverged \/ (on /\ (TrackedDirt \/ Collision \/ DryRunFails))
       THEN End("refused") /\ UNCHANGED <<expected, touched>>
       ELSE /\ Step("preflight", "push")
            /\ expected' = ref
            /\ touched' = FALSE
    /\ UNCHANGED <<remote, ref, checkout, target, spent>>

Push ==
    /\ pc = "push"
    /\ IF IsPrefix(remote, target)
       THEN Step("push", "advance") /\ remote' = target
       ELSE End("rejected") /\ UNCHANGED remote
    /\ UNCHANGED <<ref, checkout, target, expected, touched, spent>>

Advance ==
    /\ pc = "advance"
    /\ IF ref # expected THEN End("moved")
       ELSE Step("advance", IF on THEN "checkout" ELSE "update")
    /\ UNCHANGED <<remote, ref, checkout, target, expected, touched, spent>>

(***************************************************************************)
(* checkout_tree without force: from HEAD's tree to the target's.  A       *)
(* changed path is written if the working tree has it as HEAD or as the    *)
(* target has it, or has an ignored file there; anything else in its place *)
(* is a conflict, and then nothing is written.                             *)
(***************************************************************************)
Baseline == HeadTree

Writes == {p \in Paths : Baseline[p] # Tree(target)[p]}
Expendable(p) == Untracked(p) /\ p \in Ignored
Blocked ==
    \/ \E p \in Writes : /\ ~Same(work[p], Baseline[p]) /\ ~Same(work[p], Tree(target)[p])
                         /\ ~Expendable(p)
    \/ \E p \in Writes, q \in Paths : p # q /\ PathsConflict(p, q) /\ Untracked(q)

Checkout ==
    /\ pc = "checkout"
    /\ IF Blocked THEN End("conflict") /\ UNCHANGED <<index, work>>
       ELSE /\ Step("checkout", "restore")
            /\ work' = [p \in Paths |-> IF p \in Writes THEN Smudge(Tree(target)[p]) ELSE work[p]]
            /\ index' = [p \in Paths |-> IF p \in Writes THEN Tree(target)[p] ELSE index[p]]
    /\ UNCHANGED <<remote, ref, on, target, expected, touched, spent>>

Exact(v) == v

(* Mutant of Staged: the index entry is made from the file, through the filter. *)
StagedFromFile(v) == Cleaned(v)
Staged(v) == v

(* restore_control_files_exact: rewritten whatever is there, and staged as
   the tree has it. *)
Restore ==
    /\ Step("restore", "update")
    /\ LET v == Tree(target)[Control] IN
       IF v = Absent THEN UNCHANGED <<index, work>>
       ELSE /\ work' = [work EXCEPT ![Control] = Exact(v)]
            /\ index' = [index EXCEPT ![Control] = Staged(v)]
    /\ UNCHANGED <<remote, ref, on, target, expected, touched, spent>>

(* Mutant of Matching: the ref is written by force. *)
MatchingAny == TRUE
Matching == ref = expected

UpdateRef ==
    /\ pc = "update"
    /\ IF Matching THEN End("advanced") /\ ref' = target
       ELSE End("lost") /\ UNCHANGED ref
    /\ UNCHANGED <<remote, checkout, target, expected, touched, spent>>

Crash ==
    /\ pc # "idle"
    /\ End("crashed")
    /\ UNCHANGED <<remote, ref, checkout, target, expected, touched, spent>>

Gitprism == Build \/ Preflight \/ Push \/ Advance \/ Checkout \/ Restore \/ UpdateRef \/ Crash

(***************************************************************************)
(* The developer in this checkout, and others who push to source.          *)
(***************************************************************************)
Act ==
    /\ spent.dev < MaxDev
    /\ spent' = [spent EXCEPT !.dev = @ + 1]
    /\ touched' = TRUE
    /\ UNCHANGED gitprism

Edit ==
    /\ Act
    /\ \E e \in IF pc \in {"idle", "preflight"} THEN EarlyEdits ELSE LateEdits :
         /\ \A q \in Paths : q # e[1] /\ PathsConflict(q, e[1]) => work[q] = Absent
         /\ work' = [work EXCEPT ![e[1]] = e[2]]
    /\ UNCHANGED <<remote, ref, on, index>>

(* git commit -a: what is tracked, as it is in the working tree. *)
Commit ==
    /\ Act /\ on
    /\ LET t == [p \in Paths |-> IF index[p] = Absent \/ Same(work[p], index[p]) THEN index[p]
                               ELSE Cleaned(work[p])]
       IN /\ t # HeadTree
          /\ index' = t /\ ref' = Append(ref, t)
    /\ UNCHANGED <<remote, on, work>>

(* The branch moves from another worktree, or by git branch -f. *)
MoveRef ==
    /\ Act
    /\ \E i \in Elsewhere : ref' = Append(ref, [Tree(ref) EXCEPT ![i[1]] = i[2]])
    /\ UNCHANGED <<remote, checkout>>

(* git switch, to the branch or away from it, from a clean checkout. *)
Switch ==
    /\ Act
    /\ ~TrackedDirt
    /\ on' = ~on
    /\ LET to == IF on THEN Start ELSE Tree(ref) IN
       /\ \A p \in Paths : to[p] # HeadTree[p] => Same(work[p], HeadTree[p])
       /\ index' = to
       /\ work' = [p \in Paths |-> IF to[p] # HeadTree[p] THEN Smudge(to[p]) ELSE work[p]]
    /\ UNCHANGED <<remote, ref>>

PushOther ==
    /\ Act
    /\ \E i \in Elsewhere : remote' = Append(remote, [Tree(remote) EXCEPT ![i[1]] = i[2]])
    /\ UNCHANGED <<ref, checkout>>

Developer == Edit \/ Commit \/ MoveRef \/ Switch \/ PushOther

Next == Gitprism \/ Developer
Spec == Init /\ [][Next]_vars

-----------------------------------------------------------------------------
Histories == Seq(Trees) \ {<<>>}
TypeOK ==
    /\ remote \in Histories /\ ref \in Histories /\ target \in Histories /\ expected \in Histories
    /\ on \in BOOLEAN /\ touched \in BOOLEAN
    /\ spent \in [runs : Nat, dev : Nat]
    /\ index \in Trees /\ work \in Trees
    /\ pc \in {"idle", "preflight", "push", "advance", "checkout", "restore", "update"}

(* What is pushed, checked out and written to the ref fast-forwards the tip
   that preflight saw, through every step that follows. *)
AdvanceInv ==
    /\ TypeOK
    /\ pc \notin {"idle", "preflight"} => IsPrefix(expected, target)

(* What a developer has in the working tree and nowhere else is never
   replaced by a step of the run (local_advance.rs 229-232: "a real local
   modification must surface as a conflict, not be silently overwritten").
   An ignored file is only as safe as preflight made it: git's checkouts
   overwrite ignored files that appear later. *)
Unsaved(p) == /\ work[p] # Absent
              /\ \A v \in {index[p], HeadTree[p], Tree(target)[p]} : ~Same(work[p], v)
NoEditLost ==
    [][pc # "idle" /\ UNCHANGED spent =>
         \A p \in Paths : Unsaved(p) /\ (p \in Ignored => ~touched) => work'[p] = work[p]]_vars

(* A run moves the local branch only forward: no commit made in between, in
   this checkout or from another worktree, drops out of it. *)
NoCommitLost == [][UNCHANGED spent => IsPrefix(ref, ref')]_vars

(* What preflight let through and nobody disturbed is advanced: the remote
   is not changed for a checkout that then fails. *)
PreflightIsSound ==
    result \in {"moved", "conflict", "lost"} => touched

(* An undisturbed advance leaves a clean checkout, with the exact bytes of
   the control file that the commit has, whatever a checkout's filters did
   to it. *)
AdvanceIsExact ==
    result = "advanced" /\ pc = "idle" /\ ~touched /\ on =>
        /\ index = Tree(ref)
        /\ ~TrackedDirt
        /\ Tree(ref)[Control] \in {Absent, work[Control]}
=============================================================================
