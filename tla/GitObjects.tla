----------------------------- MODULE GitObjects -----------------------------
(***************************************************************************)
(* The part of git that gitprism reads and writes: immutable commits in an *)
(* object database, their trees, first-parent lines and ancestry, the      *)
(* authenticated markers in commit messages, tree filtering and the        *)
(* three-way merge.  A commit's oid is its index in odb; 0 is "no commit". *)
(* A commit caches its first-parent line and its reflexive ancestry, so no *)
(* definition here or in the modules that extend this one is recursive.    *)
(***************************************************************************)
EXTENDS Integers, Sequences, FiniteSets, SequencesExt

CONSTANTS
    Branches,     \* branch names
    Paths,        \* file paths of a tree; content is tracked per path
    Excluded,     \* the paths the pinned .gitprismignore excludes
    ControlFile,  \* the path of .gitprismignore itself, always excluded
    Values,       \* file contents
    Private,      \* contents that only developers on source ever write
    Pinned,       \* the content of .gitprismignore that the policy pins
    Absent        \* a path with no file

ASSUME TreeAssumption ==
    /\ Excluded \subseteq Paths
    /\ ControlFile \in Excluded
    /\ Private \subseteq Values
    /\ Pinned \in Values \ Private
    /\ Absent \notin Values

VARIABLE odb      \* every commit ever written, in creation order

NoOid == 0
Oids == 1 .. Len(odb)
Trees == [Paths -> Values \cup {Absent}]
Directions == {"Setup", "SourceToDest", "DestToSource"}

(***************************************************************************)
(* Markers.  A commit's HMAC binds its marker to its parents and tree, so  *)
(* only commits gitprism builds carry one: a developer's cherry-pick or    *)
(* amend of a marked commit yields an unmarked commit.                     *)
(***************************************************************************)
NoMarker == [dir |-> "None", branch |-> "none", counterpart |-> NoOid]
Marker(dir, branch, counterpart) ==
    [dir |-> dir, branch |-> branch, counterpart |-> counterpart]

VerifySelf(o, dirs) == odb[o].marker.dir \in dirs
Verify(o, branch, dirs) ==
    LET m == odb[o].marker
    IN  m.dir \in dirs /\ (m.dir = "Setup" \/ m.branch = branch)

Counterpart(o) == odb[o].marker.counterpart

(* Imports and grafts are never replayed to dest, on any branch. *)
LoopPrevented(o) == VerifySelf(o, {"Setup", "DestToSource"})

(***************************************************************************)
(* Ancestry.                                                               *)
(***************************************************************************)
Line(o) == odb[o].line
Anc(o) == odb[o].anc
IsAncestor(a, o) == a \in Anc(o)
StrictlyDescends(o, a) == a # o /\ a \in Anc(o)
OnLine(a, o) == \E i \in DOMAIN Line(o) : Line(o)[i] = a
FirstParent(o) == IF odb[o].parents = <<>> THEN NoOid ELSE odb[o].parents[1]

(* Oids grow from parents to children, so the largest common ancestor is a *)
(* best one.                                                               *)
MergeBase(a, b) ==
    LET common == Anc(a) \cap Anc(b)
    IN  IF common = {} THEN NoOid
        ELSE CHOOSE x \in common : \A y \in common : y <= x

(* The newest commit of o's first-parent line that passes Test. *)
Newest(o, Test(_)) ==
    LET i == SelectInSeq(Line(o), Test)
    IN  IF i = 0 THEN NoOid ELSE Line(o)[i]

(* Mutant of PendingCommits: newest first, as the walk finds them. *)
PendingCommitsNewestFirst(boundary, tip) ==
    LET hidden == SelectInSeq(Line(tip), LAMBDA x : x \in Anc(boundary))
    IN  IF hidden = 0 THEN Line(tip) ELSE SubSeq(Line(tip), 1, hidden - 1)

(* Mutant of PendingCommits: the boundary itself is walked again. *)
PendingCommitsWithBoundary(boundary, tip) ==
    LET hidden == SelectInSeq(Line(tip), LAMBDA x : x \in Anc(boundary))
        n == IF hidden = 0 THEN Len(Line(tip)) ELSE hidden
    IN  [i \in 1 .. n |-> Line(tip)[n + 1 - i]]

(* What a first-parent walk from tip that hides all of boundary's history  *)
(* yields, oldest first.  The hidden commits are the line's tail.          *)
PendingCommits(boundary, tip) ==
    LET hidden == SelectInSeq(Line(tip), LAMBDA x : x \in Anc(boundary))
        n == IF hidden = 0 THEN Len(Line(tip)) ELSE hidden - 1
    IN  [i \in 1 .. n |-> Line(tip)[n + 1 - i]]

(***************************************************************************)
(* Writing a commit.  Signatures carry the current time, so writing never  *)
(* returns an existing commit.                                             *)
(***************************************************************************)
NextOid == Len(odb) + 1
NewCommit(parents, tree, marker) ==
    [parents |-> parents, tree |-> tree, marker |-> marker,
     line    |-> <<NextOid>> \o
                 (IF parents = <<>> THEN <<>> ELSE Line(parents[1])),
     anc     |-> {NextOid} \cup UNION {Anc(parents[i]) : i \in DOMAIN parents}]
Write(parents, tree, marker) == odb' = Append(odb, NewCommit(parents, tree, marker))

(***************************************************************************)
(* Trees.                                                                  *)
(***************************************************************************)
EmptyTree == [p \in Paths |-> Absent]
TreeOf(o) == IF o = NoOid THEN EmptyTree ELSE odb[o].tree

(* Mutant of FilterTree: only the control file is excluded. *)
FilterTreeControlFileOnly(t) == [t EXCEPT ![ControlFile] = Absent]

FilterTree(t) == [p \in Paths |-> IF p \in Excluded THEN Absent ELSE t[p]]

(* git merge-tree, path by path: take the side that changed; both sides    *)
(* changing a path differently is a conflict.                              *)
Clashes(base, ours, theirs) ==
    {p \in Paths : ours[p] # theirs[p] /\ ours[p] # base[p] /\ theirs[p] # base[p]}
MergeTree(base, ours, theirs) ==
    [p \in Paths |-> IF theirs[p] = base[p] THEN ours[p] ELSE theirs[p]]

(* A single-parent projection with its parent's tree stands for the parent. *)
SourceToDestAlias(o) ==
    /\ Len(odb[o].parents) = 1
    /\ odb[o].tree = odb[odb[o].parents[1]].tree
=============================================================================
