----------------------------- MODULE GitLemmas -----------------------------
(***************************************************************************)
(* What the operators of GitObjects, MarkerScan, MappingIndex and Reuse    *)
(* return, for every object database that is well formed.                  *)
(***************************************************************************)
EXTENDS Reuse, TLAPS, SequenceTheorems, WellFoundedInduction

(***************************************************************************)
(* Least and greatest elements.                                            *)
(***************************************************************************)
LEMMA LeastNatural ==
    ASSUME NEW S \in SUBSET Nat, S # {}
    PROVE  Min(S) \in S /\ \A y \in S : Min(S) <= y
<1> DEFINE R == {p \in Nat \X Nat : p[1] < p[2]}
<1>1. IsWellFoundedOn(R, Nat)
  BY NatLessThanWellFounded DEF OpToRel
<1>2. PICK x \in S : \A y \in S : ~ (<<y, x>> \in R)
  BY <1>1, WFMin
<1>3. \A y \in S : x <= y
  <2> SUFFICES ASSUME NEW y \in S PROVE x <= y
    OBVIOUS
  <2>1. x \in Nat /\ y \in Nat /\ <<y, x>> \in Nat \X Nat
    OBVIOUS
  <2>2. y < x => <<y, x>> \in R
    BY <2>1
  <2>3. ~ (y < x)
    BY <1>2, <2>2
  <2>4. QED
    BY <2>1, <2>3
<1>4. QED
  BY <1>3 DEF Min

LEMMA GreatestBounded ==
    ASSUME NEW n \in Nat, NEW S \in SUBSET (0 .. n), S # {}
    PROVE  \E x \in S : \A y \in S : y <= x
<1> DEFINE T == {i \in 0 .. n : n - i \in S}
<1>1. T # {} /\ T \in SUBSET Nat
  <2>1. PICK s \in S : TRUE
    OBVIOUS
  <2>2. n - s \in T
    BY <2>1
  <2>3. QED
    BY <2>2
<1>2. Min(T) \in T /\ \A t \in T : Min(T) <= t
  BY <1>1, LeastNatural
<1>3. \A y \in S : y \in Nat /\ n - y \in T
  OBVIOUS
<1>4. Min(T) \in Nat
  BY <1>1, <1>2
<1> HIDE DEF T
<1>5. \A y \in S : y <= n - Min(T)
  BY <1>2, <1>3, <1>4
<1>6. n - Min(T) \in S
  BY <1>2 DEF T
<1>7. QED
  BY <1>5, <1>6

(***************************************************************************)
(* Well-formed object databases.                                           *)
(***************************************************************************)
Markers(oids) ==
    [dir : Directions \cup {"None"}, branch : Branches \cup {"none"}, counterpart : oids]

WellFormed(db, o) ==
    /\ db[o].parents \in Seq(1 .. o - 1)
    /\ db[o].tree \in Trees
    /\ db[o].marker \in Markers(0 .. o - 1)
    /\ db[o].line \in Seq(1 .. o) /\ db[o].line # <<>>
    /\ db[o].anc \subseteq 1 .. o
    /\ o \in db[o].anc
    /\ \A i \in DOMAIN db[o].line : db[o].line[i] \in db[o].anc
    /\ \A i \in DOMAIN db[o].parents : db[o].parents[i] \in db[o].anc
    /\ \A a \in db[o].anc : db[a].anc \subseteq db[o].anc

Commits == [parents : Seq(Nat), tree : Trees, marker : Markers(Nat),
            line : Seq(Nat), anc : SUBSET Nat]

ObjectDatabase(db) == db \in Seq(Commits) /\ \A o \in 1 .. Len(db) : WellFormed(db, o)

(* Whoever has a commit has its history. *)
Closed(db, H) == \A o \in H : o \in 1 .. Len(db) /\ db[o].anc \subseteq H

(* Commits are only ever added. *)
Extends(db, larger) ==
    /\ Len(db) <= Len(larger)
    /\ \A o \in 1 .. Len(db) : larger[o] = db[o]

LEMMA ClosedExtends ==
    ASSUME NEW db, NEW larger, Len(db) \in Nat, Len(larger) \in Nat,
           Extends(db, larger), NEW H, Closed(db, H)
    PROVE  Closed(larger, H)
BY DEF Closed, Extends

LEMMA FetchedClosed ==
    ASSUME ObjectDatabase(odb), NEW tips \in SUBSET Oids, NEW H, Closed(odb, H)
    PROVE  /\ Closed(odb, H \cup UNION {Anc(o) : o \in tips})
           /\ tips \subseteq H \cup UNION {Anc(o) : o \in tips}
<1>1. \A o \in tips : o \in Anc(o) /\ Anc(o) \subseteq Oids /\ \A a \in Anc(o) : Anc(a) \subseteq Anc(o)
  <2> SUFFICES ASSUME NEW o \in tips
               PROVE  o \in Anc(o) /\ Anc(o) \subseteq Oids /\ \A a \in Anc(o) : Anc(a) \subseteq Anc(o)
    OBVIOUS
  <2>1. WellFormed(odb, o) /\ o \in 1 .. Len(odb) /\ Len(odb) \in Nat
    BY DEF ObjectDatabase, Oids
  <2>2. QED
    BY <2>1 DEF WellFormed, Anc, Oids
<1>2. QED
  BY <1>1 DEF Closed, Anc, Oids

(***************************************************************************)
(* Writing a commit keeps the database well formed, and whoever has the    *)
(* parents then has the new commit with its history.                       *)
(***************************************************************************)
LEMMA NewCommitWellFormed ==
    ASSUME ObjectDatabase(odb), NEW parents \in Seq(Oids), NEW tree \in Trees,
           NEW marker \in Markers(0 .. Len(odb))
    PROVE  LET new == NewCommit(parents, tree, marker)
           IN  /\ new \in Commits
               /\ new.parents = parents /\ new.tree = tree /\ new.marker = marker
               /\ new.line \in Seq(1 .. NextOid) /\ new.line # <<>>
               /\ new.anc \subseteq 1 .. NextOid /\ NextOid \in new.anc
               /\ \A i \in DOMAIN new.line : new.line[i] \in new.anc
               /\ \A i \in DOMAIN parents : parents[i] \in new.anc
               /\ \A a \in new.anc \ {NextOid} : a \in Oids /\ Anc(a) \subseteq new.anc
<1> DEFINE new == NewCommit(parents, tree, marker)
           older == IF parents = <<>> THEN <<>> ELSE Line(parents[1])
           elders == UNION {Anc(parents[i]) : i \in DOMAIN parents}
<1>1. Len(odb) \in Nat /\ \A i \in DOMAIN parents : parents[i] \in Oids
  BY DEF ObjectDatabase
<1>2. \A o \in Oids :
        /\ Line(o) \in Seq(1 .. o) /\ Anc(o) \subseteq 1 .. o /\ o \in Anc(o)
        /\ \A i \in DOMAIN Line(o) : Line(o)[i] \in Anc(o)
        /\ \A a \in Anc(o) : Anc(a) \subseteq Anc(o)
  BY DEF ObjectDatabase, WellFormed, Oids, Line, Anc
<1>3. /\ elders \subseteq Oids
      /\ \A a \in elders : Anc(a) \subseteq elders
      /\ \A i \in DOMAIN parents : parents[i] \in elders
  BY <1>1, <1>2 DEF Oids
<1>4. older \in Seq(Oids) /\ \A i \in DOMAIN older : older[i] \in elders
  <2>1. CASE parents = <<>>
    BY <2>1
  <2>2. CASE parents # <<>>
    <3>1. 1 \in DOMAIN parents /\ parents[1] \in Oids
      BY <2>2
    <3>2. Line(parents[1]) \in Seq(Oids)
      BY <3>1, <1>2, <1>1, SeqMonotonic DEF Oids
    <3>3. QED
      BY <2>2, <3>1, <3>2, <1>2
  <2>3. QED
    BY <2>1, <2>2
<1>5. /\ new.parents = parents /\ new.tree = tree /\ new.marker = marker
      /\ new.line = <<NextOid>> \o older
      /\ new.anc = {NextOid} \cup elders
  BY DEF NewCommit
<1>6. new = [parents |-> parents, tree |-> tree, marker |-> marker,
             line |-> new.line, anc |-> new.anc]
  BY DEF NewCommit
<1> HIDE DEF new, elders, older
<1>7. /\ NextOid \in Nat /\ NextOid = Len(odb) + 1 /\ NextOid \in 1 .. NextOid
      /\ Oids \subseteq 1 .. NextOid
  BY <1>1 DEF NextOid, Oids
<1>8. <<NextOid>> \in Seq(1 .. NextOid) /\ older \in Seq(1 .. NextOid)
  <2>1. older \in Seq(1 .. NextOid)
    BY <1>4, <1>7, SeqMonotonic
  <2>2. QED
    BY <1>7, <2>1
<1>9. /\ new.line \in Seq(1 .. NextOid) /\ new.line # <<>>
      /\ \A i \in DOMAIN new.line : new.line[i] = NextOid \/ new.line[i] \in elders
  <2>1. /\ new.line \in Seq(1 .. NextOid) /\ Len(new.line) = 1 + Len(older)
        /\ \A i \in 1 .. Len(new.line) :
              new.line[i] = IF i <= 1 THEN <<NextOid>>[i] ELSE older[i - 1]
    BY <1>5, <1>8, ConcatProperties
  <2>2. Len(older) \in Nat /\ DOMAIN older = 1 .. Len(older)
    BY <1>8, LenProperties
  <2>3. DOMAIN new.line = 1 .. Len(new.line) /\ new.line # <<>>
    BY <2>1, <2>2, LenProperties
  <2>4. ASSUME NEW i \in DOMAIN new.line
        PROVE  new.line[i] = NextOid \/ new.line[i] \in elders
    <3>1. i \in 1 .. Len(new.line) /\ i \in Nat
      BY <2>3, <2>1, <2>2
    <3>2. CASE i <= 1
      BY <3>1, <3>2, <2>1
    <3>3. CASE ~ (i <= 1)
      <4>1. i - 1 \in DOMAIN older /\ new.line[i] = older[i - 1]
        BY <3>1, <3>3, <2>1, <2>2
      <4>2. QED
        BY <4>1, <1>4
    <3>4. QED
      BY <3>2, <3>3
  <2>5. QED
    BY <2>1, <2>3, <2>4
<1>10. new.anc \subseteq 1 .. NextOid
  <2>1. elders \subseteq 1 .. NextOid
    BY <1>3, <1>7, Zenon
  <2>2. QED
    BY <2>1, <1>5, <1>7, Zenon
<1>11. new \in Commits
  <2>1. parents \in Seq(Nat) /\ new.line \in Seq(Nat)
    BY <1>9, <1>7, SeqMonotonic DEF Oids
  <2>2. marker \in Markers(Nat)
    BY <1>1 DEF Markers
  <2>3. new.anc \in SUBSET Nat
    BY <1>10
  <2>4. QED
    BY <1>6, <2>1, <2>2, <2>3 DEF Commits
<1>12. QED
  BY <1>3, <1>5, <1>9, <1>10, <1>11 DEF new

LEMMA WriteExtends ==
    ASSUME ObjectDatabase(odb), NEW parents \in Seq(Oids), NEW tree \in Trees,
           NEW marker \in Markers(0 .. Len(odb)), Write(parents, tree, marker)
    PROVE  /\ ObjectDatabase(odb') /\ Extends(odb, odb')
           /\ Len(odb') = NextOid /\ odb'[NextOid] = NewCommit(parents, tree, marker)
<1> DEFINE new == NewCommit(parents, tree, marker)
<1>1. odb \in Seq(Commits) /\ Len(odb) \in Nat
  BY DEF ObjectDatabase
<1>2. new \in Commits
  BY NewCommitWellFormed
<1>3. odb' = Append(odb, new)
  BY DEF Write
<1>4. /\ odb' \in Seq(Commits) /\ Len(odb') = NextOid /\ odb'[NextOid] = new
      /\ \A o \in 1 .. Len(odb) : odb'[o] = odb[o]
  <2> HIDE DEF new
  <2>1. QED
    BY <1>1, <1>2, <1>3 DEF NextOid
<1>5. Extends(odb, odb')
  BY <1>1, <1>4 DEF Extends, NextOid
<1>6. ASSUME NEW o \in 1 .. Len(odb) PROVE WellFormed(odb', o)
  <2>1. WellFormed(odb, o) /\ odb'[o] = odb[o]
    BY <1>4 DEF ObjectDatabase
  <2>2. \A a \in odb[o].anc : odb'[a] = odb[a]
    <3>1. \A a \in 1 .. o : a \in 1 .. Len(odb)
      BY <1>1
    <3>2. QED
      BY <2>1, <3>1, <1>4 DEF WellFormed
  <2>3. QED
    BY <2>1, <2>2 DEF WellFormed
<1>7. WellFormed(odb', NextOid)
  <2>1. /\ new.parents = parents /\ new.tree = tree /\ new.marker = marker
        /\ new.line \in Seq(1 .. NextOid) /\ new.line # <<>>
        /\ new.anc \subseteq 1 .. NextOid /\ NextOid \in new.anc
        /\ \A i \in DOMAIN new.line : new.line[i] \in new.anc
        /\ \A i \in DOMAIN parents : parents[i] \in new.anc
        /\ \A a \in new.anc \ {NextOid} : a \in Oids /\ Anc(a) \subseteq new.anc
    BY NewCommitWellFormed
  <2> HIDE DEF new
  <2>2. NextOid - 1 = Len(odb)
    BY <1>1 DEF NextOid
  <2>3. \A a \in new.anc : odb'[a].anc \subseteq new.anc
    BY <2>1, <1>4 DEF Oids, Anc
  <2>4. parents \in Seq(1 .. NextOid - 1) /\ marker \in Markers(0 .. NextOid - 1)
    BY <2>2 DEF Oids
  <2>5. QED
    BY <1>4, <2>1, <2>3, <2>4 DEF WellFormed
<1>8. QED
  BY <1>1, <1>4, <1>5, <1>6, <1>7 DEF ObjectDatabase, NextOid

LEMMA WriteKeepsClosed ==
    ASSUME ObjectDatabase(odb), NEW H, Closed(odb, H), NEW parents \in Seq(H),
           NEW tree \in Trees, NEW marker \in Markers(H \cup {NoOid}),
           Write(parents, tree, marker)
    PROVE  /\ ObjectDatabase(odb') /\ Extends(odb, odb') /\ Len(odb') = NextOid
           /\ odb'[NextOid].tree = tree /\ odb'[NextOid].marker = marker
           /\ odb'[NextOid].anc = {NextOid} \cup UNION {Anc(parents[i]) : i \in DOMAIN parents}
           /\ Closed(odb', H \cup {NextOid})
<1>1. Len(odb) \in Nat /\ H \subseteq Oids
  BY DEF ObjectDatabase, Closed, Oids
<1>2. H \cup {NoOid} \subseteq 0 .. Len(odb)
  BY <1>1 DEF Oids, NoOid
<1>3. parents \in Seq(Oids) /\ marker \in Markers(0 .. Len(odb))
  BY <1>1, <1>2, SeqMonotonic DEF Markers
<1>4. /\ ObjectDatabase(odb') /\ Extends(odb, odb') /\ Len(odb') = NextOid
      /\ odb'[NextOid] = NewCommit(parents, tree, marker)
  BY <1>3, WriteExtends
<1>5. /\ odb'[NextOid].tree = tree /\ odb'[NextOid].marker = marker
      /\ odb'[NextOid].anc = {NextOid} \cup UNION {Anc(parents[i]) : i \in DOMAIN parents}
  BY <1>4 DEF NewCommit
<1>6. Closed(odb', H)
  BY <1>1, <1>4, ClosedExtends DEF ObjectDatabase
<1>7. UNION {Anc(parents[i]) : i \in DOMAIN parents} \subseteq H
  <2>1. \A i \in DOMAIN parents : parents[i] \in H
    OBVIOUS
  <2>2. QED
    BY <2>1 DEF Closed, Anc
<1>8. NextOid \in 1 .. Len(odb')
  BY <1>1, <1>4 DEF NextOid
<1>9. QED
  BY <1>4, <1>5, <1>6, <1>7, <1>8 DEF Closed

(***************************************************************************)
(* Reading a well-formed database.                                         *)
(***************************************************************************)
LEMMA SeqOfElements ==
    ASSUME NEW S, NEW T, NEW s \in Seq(S), \A i \in DOMAIN s : s[i] \in T
    PROVE  s \in Seq(T)
<1>1. s \in [1 .. Len(s) -> T] /\ Len(s) \in Nat
  <2>1. Len(s) \in Nat /\ DOMAIN s = 1 .. Len(s) /\ s \in [1 .. Len(s) -> S]
    BY LenProperties
  <2>2. QED
    BY <2>1
<1>2. QED
  BY <1>1, SeqDef

LEMMA CommitFacts ==
    ASSUME ObjectDatabase(odb), NEW o \in Oids
    PROVE  /\ Line(o) \in Seq(Anc(o)) /\ odb[o].parents \in Seq(Anc(o) \ {o})
           /\ o \in Anc(o) /\ Anc(o) \subseteq Oids
           /\ \A a \in Anc(o) : Anc(a) \subseteq Anc(o)
           /\ FirstParent(o) \in Anc(o) \cup {NoOid}
           /\ odb[o].tree \in Trees /\ TreeOf(o) \in Trees
           /\ odb[o].marker \in Markers(Oids \cup {NoOid})
<1>1. WellFormed(odb, o) /\ Len(odb) \in Nat /\ o \in 1 .. Len(odb)
  BY DEF ObjectDatabase, Oids
<1>2. Line(o) \in Seq(Anc(o))
  BY <1>1, SeqOfElements DEF WellFormed, Line, Anc
<1>3. o \in Anc(o) /\ Anc(o) \subseteq Oids /\ \A a \in Anc(o) : Anc(a) \subseteq Anc(o)
  BY <1>1 DEF WellFormed, Anc, Oids
<1>4. odb[o].parents \in Seq(Anc(o) \ {o})
  <2>1. \A i \in DOMAIN odb[o].parents : odb[o].parents[i] \in 1 .. o - 1
    BY <1>1 DEF WellFormed
  <2>2. \A i \in DOMAIN odb[o].parents : odb[o].parents[i] \in Anc(o) \ {o}
    BY <2>1, <1>1 DEF WellFormed, Anc
  <2>3. QED
    BY <1>1, <2>2, SeqOfElements DEF WellFormed
<1>5. FirstParent(o) \in Anc(o) \cup {NoOid}
  BY <1>4 DEF FirstParent
<1>6. odb[o].tree \in Trees /\ o # NoOid
  BY <1>1 DEF WellFormed, NoOid
<1>7. odb[o].marker \in Markers(Oids \cup {NoOid})
  <2>1. 0 .. o - 1 \subseteq Oids \cup {NoOid}
    BY <1>1 DEF Oids, NoOid
  <2>2. QED
    BY <1>1, <2>1 DEF WellFormed, Markers
<1>8. QED
  BY <1>2, <1>3, <1>4, <1>5, <1>6, <1>7 DEF TreeOf

(* What a write adds, whatever it is given. *)
LEMMA WriteAppends ==
    ASSUME ObjectDatabase(odb), NEW parents, NEW tree, NEW marker, Write(parents, tree, marker)
    PROVE  /\ Extends(odb, odb') /\ Len(odb') = NextOid /\ NextOid \in 1 .. Len(odb')
           /\ odb'[NextOid].marker = marker /\ odb'[NextOid].tree = tree
           /\ odb'[NextOid].anc = {NextOid} \cup UNION {Anc(parents[i]) : i \in DOMAIN parents}
<1> DEFINE new == NewCommit(parents, tree, marker)
           S == Commits \cup {new}
<1>1. new.marker = marker /\ new.tree = tree
      /\ new.anc = {NextOid} \cup UNION {Anc(parents[i]) : i \in DOMAIN parents}
  BY DEF NewCommit
<1>2. odb' = Append(odb, new) /\ Len(odb) \in Nat /\ NextOid = Len(odb) + 1
  BY DEF Write, ObjectDatabase, NextOid
<1>3. odb \in Seq(S) /\ new \in S
  BY SeqMonotonic DEF ObjectDatabase
<1> HIDE DEF new, S
<1>4. /\ Len(Append(odb, new)) = Len(odb) + 1
      /\ \A i \in 1 .. Len(odb) : Append(odb, new)[i] = odb[i]
      /\ Append(odb, new)[Len(odb) + 1] = new
  BY <1>3, AppendProperties
<1>5. QED
  BY <1>1, <1>2, <1>4 DEF Extends

LEMMA SingletonSeq == ASSUME NEW S, NEW x \in S PROVE <<x>> \in Seq(S)
OBVIOUS

LEMMA PairSeq == ASSUME NEW S, NEW x \in S, NEW y \in S PROVE <<x, y>> \in Seq(S)
OBVIOUS

LEMMA FirstIndex ==
    ASSUME NEW n \in Nat, NEW I \in SUBSET (1 .. n)
    PROVE  (IF I # {} THEN Min(I) ELSE 0) \in 0 .. n
<1>1. CASE I = {}
  BY <1>1
<1>2. CASE I # {}
  <2>1. I \in SUBSET Nat /\ I \subseteq 0 .. n
    OBVIOUS
  <2>2. Min(I) \in I
    BY <1>2, <2>1, LeastNatural
  <2>3. QED
    BY <1>2, <2>1, <2>2
<1>3. QED
  BY <1>1, <1>2

LEMMA PendingCommitsOfTip ==
    ASSUME ObjectDatabase(odb), NEW tip \in Oids, NEW boundary
    PROVE  PendingCommits(boundary, tip) \in Seq(Anc(tip))
<1> DEFINE hidden == SelectInSeq(Line(tip), LAMBDA x : x \in Anc(boundary))
           n == IF hidden = 0 THEN Len(Line(tip)) ELSE hidden - 1
<1>1. Line(tip) \in Seq(Anc(tip)) /\ Len(Line(tip)) \in Nat
  BY CommitFacts, LenProperties
<1>2. hidden \in 0 .. Len(Line(tip))
  BY <1>1, FirstIndex DEF SelectInSeq
<1>3. n \in 0 .. Len(Line(tip))
  BY <1>1, <1>2
<1>4. PendingCommits(boundary, tip) = [i \in 1 .. n |-> Line(tip)[n + 1 - i]]
  BY DEF PendingCommits
<1> HIDE DEF n
<1>5. \A i \in 1 .. n : n + 1 - i \in DOMAIN Line(tip)
  BY <1>1, <1>3
<1>6. [i \in 1 .. n |-> Line(tip)[n + 1 - i]] \in [1 .. n -> Anc(tip)]
  BY <1>1, <1>5
<1>7. QED
  BY <1>3, <1>4, <1>6, SeqDef

LEMMA MergeBaseCommon ==
    ASSUME ObjectDatabase(odb), NEW a \in Oids, NEW b \in Oids
    PROVE  MergeBase(a, b) \in (Anc(a) \cap Anc(b)) \cup {NoOid}
<1> DEFINE common == Anc(a) \cap Anc(b)
<1>1. CASE common = {}
  BY <1>1 DEF MergeBase
<1>2. CASE common # {}
  <2>1. common \in SUBSET (0 .. Len(odb)) /\ Len(odb) \in Nat
    <3>1. Anc(a) \subseteq Oids
      BY CommitFacts
    <3>2. Len(odb) \in Nat /\ Oids \subseteq 0 .. Len(odb)
      BY DEF Oids, ObjectDatabase
    <3>3. QED
      BY <3>1, <3>2
  <2>2. \E x \in common : \A y \in common : y <= x
    BY <1>2, <2>1, GreatestBounded
  <2>3. QED
    BY <1>2, <2>2 DEF MergeBase
<1>3. QED
  BY <1>1, <1>2

(***************************************************************************)
(* Trees.                                                                  *)
(***************************************************************************)
LEMMA TreesClosed ==
    /\ EmptyTree \in Trees
    /\ \A t \in Trees : FilterTree(t) \in Trees
    /\ \A base, ours, theirs \in Trees : MergeTree(base, ours, theirs) \in Trees
BY DEF Trees, EmptyTree, FilterTree, MergeTree

LEMMA TreeOfType ==
    ASSUME ObjectDatabase(odb), NEW o \in Oids \cup {NoOid}
    PROVE  TreeOf(o) \in Trees
BY CommitFacts, TreesClosed DEF TreeOf

(***************************************************************************)
(* Anchors, resume points and reuse plans.                                 *)
(***************************************************************************)
Canonicals(index) == {r.canonical : r \in index}

LEMMA ResolvedDest ==
    ASSUME NEW H, NEW index, NEW source, NEW excluded
    PROVE  LET lookup == ResolveForAnchor(H, index, source, excluded)
           IN  /\ lookup.kind \in {"None", "Contradictory", "Resolved"}
               /\ lookup.kind = "Resolved" => lookup.dest \in H \cap Canonicals(index)
<1> DEFINE records == {r \in index : r.source = source}
           others == {r \in records : r.branch # excluded}
           dests == {r.canonical : r \in IF others = {} THEN records ELSE others}
           common == {d \in dests : \A other \in dests : IsAncestor(d, other)}
<1>1. dests \subseteq Canonicals(index) /\ common \subseteq dests
  BY DEF Canonicals
<1>2. ResolveForAnchor(H, index, source, excluded) =
        IF records = {} THEN [kind |-> "None", dest |-> NoOid]
        ELSE IF ~(dests \subseteq H) \/ common = {}
             THEN [kind |-> "Contradictory", dest |-> NoOid]
        ELSE [kind |-> "Resolved", dest |-> CHOOSE d \in common : TRUE]
  BY DEF ResolveForAnchor
<1> HIDE DEF records, dests, common
<1>3. common # {} => (CHOOSE d \in common : TRUE) \in common
  OBVIOUS
<1>4. QED
  BY <1>1, <1>2, <1>3

LEMMA AnchorOfTip ==
    ASSUME ObjectDatabase(odb), NEW tip \in Oids, NEW H, NEW index, NEW branch
    PROVE  LET anchor == DestAnchor(H, index, tip, branch)
           IN  /\ anchor.kind \in {"None", "Contradictory", "Resolved"}
               /\ anchor.kind = "Resolved" =>
                    anchor.source \in Anc(tip) /\ anchor.dest \in H \cap Canonicals(index)
<1> DEFINE n == NearestMapped(index, tip)
           lookup == ResolveForAnchor(H, index, Line(tip)[n], branch)
<1>1. Line(tip) \in Seq(Anc(tip)) /\ Len(Line(tip)) \in Nat
  BY CommitFacts, LenProperties
<1>2. n \in 0 .. Len(Line(tip))
  BY <1>1, FirstIndex DEF NearestMapped, SelectInSeq
<1>3. n # 0 => Line(tip)[n] \in Anc(tip)
  BY <1>1, <1>2
<1>4. /\ lookup.kind \in {"None", "Contradictory", "Resolved"}
      /\ lookup.kind = "Resolved" => lookup.dest \in H \cap Canonicals(index)
  BY ResolvedDest
<1>5. DestAnchor(H, index, tip, branch) =
        IF n = 0 THEN [kind |-> "None", source |-> NoOid, dest |-> NoOid]
        ELSE [kind |-> lookup.kind, source |-> Line(tip)[n], dest |-> lookup.dest]
  BY DEF DestAnchor
<1> HIDE DEF n, lookup
<1>6. QED
  BY <1>3, <1>4, <1>5

LEMMA ResumePointKnown ==
    ASSUME ObjectDatabase(odb), NEW H, NEW sourceTip \in Oids,
           NEW destTip \in Oids, NEW branch,
           DestResumePoint(H, sourceTip, destTip, branch).kind = "Ok"
    PROVE  DestResumePoint(H, sourceTip, destTip, branch).at \in Anc(sourceTip)
<1> DEFINE graft == GraftPoint(sourceTip, destTip)
           newest == NewestSourceMarker(destTip, branch)
           point == DestResumePoint(H, sourceTip, destTip, branch)
<1>1. graft \in Anc(sourceTip) \cup {NoOid}
  BY MergeBaseCommon, CommitFacts DEF GraftPoint
<1>2. Refusal(destTip, branch) # "Ok"
  BY DEF Refusal
<1> DEFINE accounted == DestTipAccountedFor(sourceTip, destTip, branch)
           Answer(kind, at) == [kind |-> kind, at |-> at]
           refused == Answer(Refusal(destTip, branch), NoOid)
<1>3. point =
        IF accounted = "NoMarker" THEN Answer("NoMarker", NoOid)
        ELSE IF /\ accounted = "No"
                /\ ~DestTipRepresentedInSource(H, sourceTip, destTip, branch)
             THEN refused
        ELSE IF ~NewestMirrorMarkerBelongsToBranch(destTip, branch) THEN refused
        ELSE IF newest = NoOid
             THEN Answer(IF graft = NoOid THEN "NoMarker" ELSE "Ok", graft)
        ELSE IF newest \in H /\ IsAncestor(newest, sourceTip) THEN Answer("Ok", newest)
        ELSE refused
  BY DEF DestResumePoint
<1>4. (point.at = graft /\ graft # NoOid) \/ (point.at = newest /\ IsAncestor(newest, sourceTip))
  <2>1. point.kind = "Ok"
    OBVIOUS
  <2> HIDE DEF graft, newest, accounted, point
  <2>2. QED
    <3>1. refused.kind # "Ok" /\ Answer("NoMarker", NoOid).kind # "Ok"
      BY <1>2
    <3>2. point # refused /\ point # Answer("NoMarker", NoOid)
      BY <2>1, <3>1
    <3>3. CASE newest = NoOid
      <4>1. point = Answer(IF graft = NoOid THEN "NoMarker" ELSE "Ok", graft)
        BY <1>3, <3>2, <3>3
      <4>2. graft # NoOid
        BY <4>1, <3>2
      <4>3. QED
        BY <4>1, <4>2
    <3>4. CASE newest # NoOid
      BY <1>3, <3>2, <3>4
    <3>5. QED
      BY <3>3, <3>4
<1>5. QED
  BY <1>1, <1>4 DEF IsAncestor

LEMMA NewestSharedResolved ==
    ASSUME NEW H, NEW index, NEW S, NEW pending \in Seq(S), NEW base
    PROVE  LET newest == NewestShared(H, index, pending, base)
           IN  \/ newest.at = 0
               \/ /\ newest.at \in DOMAIN pending
                  /\ newest.kind # "Contradictory" =>
                        newest.dest \in H \cap Canonicals(index)
<1> DEFINE mapped(i) == SharedMapping(H, index, pending[i], base)
           decisive == {i \in DOMAIN pending :
                          /\ ~LoopPrevented(pending[i])
                          /\ mapped(i).kind \in {"Contradictory", "NotContained"}}
           k == CHOOSE i \in decisive : \A j \in decisive : j <= i
           newest == NewestShared(H, index, pending, base)
<1>1. CASE decisive = {}
  BY <1>1 DEF NewestShared
<1>2. CASE decisive # {}
  <2>1. Len(pending) \in Nat /\ DOMAIN pending = 1 .. Len(pending)
    BY LenProperties
  <2>2. decisive \in SUBSET (0 .. Len(pending))
    BY <2>1
  <2>3. \E i \in decisive : \A j \in decisive : j <= i
    BY <1>2, <2>1, <2>2, GreatestBounded
  <2>4. k \in decisive
    BY <2>3
  <2>5. newest = [at |-> k, kind |-> mapped(k).kind, dest |-> mapped(k).dest]
    BY <1>2 DEF NewestShared
  <2>6. /\ k \in DOMAIN pending
        /\ mapped(k).kind \in {"Contradictory", "NotContained"}
    BY <2>4
  <2>7. mapped(k).kind = "NotContained" => mapped(k).dest \in H \cap Canonicals(index)
    BY ResolvedDest DEF SharedMapping
  <2> HIDE DEF k, mapped
  <2>8. QED
    BY <2>5, <2>6, <2>7
<1>3. QED
  BY <1>1, <1>2

LEMMA ReusePlan ==
    ASSUME NEW newest, NEW pending, NEW boundary, NEW destTip, NEW branch
    PROVE  LET plan == PlanProjectionReuse(newest, pending, boundary, destTip, branch)
           IN  \/ plan.kind = "Replay" /\ plan.shared = NoOid
               \/ plan.kind = "Halt"
               \/ /\ plan.kind \in {"FastForward", "Bridge"}
                  /\ newest.at # 0 /\ newest.kind # "Contradictory"
                  /\ plan.shared = pending[newest.at] /\ plan.projection = newest.dest
BY DEF PlanProjectionReuse

(* A tip that is itself a projection of a branch is the newest of its own  *)
(* line, and the branch resumes at the commit it names.                    *)
LEMMA FirstIsOne ==
    ASSUME NEW n \in Nat, NEW I \in SUBSET (1 .. n), 1 \in I
    PROVE  (IF I # {} THEN Min(I) ELSE 0) = 1
<1>1. I \in SUBSET Nat /\ I # {}
  OBVIOUS
<1>2. Min(I) \in I /\ \A y \in I : Min(I) <= y
  BY <1>1, LeastNatural
<1> DEFINE least == Min(I)
<1>3. least \in 1 .. n /\ least <= 1
  BY <1>2
<1> HIDE DEF least
<1>4. least = 1
  BY <1>3
<1>5. QED
  BY <1>1, <1>4 DEF least

LEMMA NewestOfOwnLine ==
    ASSUME ObjectDatabase(odb), NEW o \in Oids, Line(o)[1] = o, NEW branch,
           Verify(o, branch, {"SourceToDest"})
    PROVE  /\ NewestSourceMarker(o, branch) = Counterpart(o)
           /\ NewestMirrorMarker(o) = o
<1> DEFINE line == Line(o)
           own == {i \in 1 .. Len(line) : Verify(line[i], branch, {"SourceToDest"})}
           any == {i \in 1 .. Len(line) : VerifySelf(line[i], {"SourceToDest"})}
<1>1. Len(line) \in Nat /\ 1 \in 1 .. Len(line) /\ line[1] = o /\ o # NoOid
  BY DEF ObjectDatabase, WellFormed, Oids, NoOid, Line
<1>2. 1 \in own /\ 1 \in any
  BY <1>1 DEF Verify, VerifySelf
<1>3. own \in SUBSET (1 .. Len(line)) /\ any \in SUBSET (1 .. Len(line))
  OBVIOUS
<1>4. Newest(o, LAMBDA x : Verify(x, branch, {"SourceToDest"})) = o
  <2>1. SelectInSeq(line, LAMBDA x : Verify(x, branch, {"SourceToDest"}))
          = IF own # {} THEN Min(own) ELSE 0
    BY DEF SelectInSeq
  <2>2. SelectInSeq(line, LAMBDA x : Verify(x, branch, {"SourceToDest"})) = 1
    <3> HIDE DEF own, line
    <3>1. QED
      BY <1>1, <1>2, <1>3, <2>1, FirstIsOne
  <2>3. QED
    BY <1>1, <2>2 DEF Newest
<1>5. Newest(o, LAMBDA x : VerifySelf(x, {"SourceToDest"})) = o
  <2>1. SelectInSeq(line, LAMBDA x : VerifySelf(x, {"SourceToDest"}))
          = IF any # {} THEN Min(any) ELSE 0
    BY DEF SelectInSeq
  <2>2. SelectInSeq(line, LAMBDA x : VerifySelf(x, {"SourceToDest"})) = 1
    <3> HIDE DEF any, line
    <3>1. QED
      BY <1>1, <1>2, <1>3, <2>1, FirstIsOne
  <2>3. QED
    BY <1>1, <2>2 DEF Newest
<1>6. QED
  BY <1>1, <1>4, <1>5 DEF NewestSourceMarker, NewestMirrorMarker

LEMMA ResumesBehindOwnTip ==
    ASSUME ObjectDatabase(odb), NEW H, NEW tip, NEW made \in Oids, Line(made)[1] = made,
           NEW b \in Branches, NEW o \in H, o # NoOid, o \in Anc(tip),
           odb[made].marker = Marker("SourceToDest", b, o)
    PROVE  LET point == DestResumePoint(H, tip, made, b)
           IN  point.kind = "Ok" /\ point.at = o
<1>1. Verify(made, b, {"SourceToDest"}) /\ Counterpart(made) = o /\ odb[made].marker.branch = b
  BY DEF Verify, Counterpart, Marker
<1>2. NewestSourceMarker(made, b) = o /\ NewestMirrorMarker(made) = made
  BY <1>1, NewestOfOwnLine
<1>3. DestTipAccountedFor(tip, made, b) = "ViaPriorSync"
  BY <1>1 DEF DestTipAccountedFor
<1>4. NewestMirrorMarkerBelongsToBranch(made, b)
  BY <1>1, <1>2 DEF NewestMirrorMarkerBelongsToBranch
<1>5. o \in H /\ IsAncestor(o, tip)
  BY DEF IsAncestor
<1>6. DestResumePoint(H, tip, made, b) = [kind |-> "Ok", at |-> o]
  BY <1>2, <1>3, <1>4, <1>5 DEF DestResumePoint
<1>7. QED
  BY <1>6

(* A commit with one of a branch's markers on the first-parent line.       *)
LEMMA NewestFound ==
    ASSUME ObjectDatabase(odb), NEW tip \in Oids, NEW branch,
           NewestDestMarker(tip, branch) # NoOid
    PROVE  LET m == NewestDestMarker(tip, branch)
           IN  m \in Anc(tip) /\ Verify(m, branch, {"Setup", "DestToSource"})
<1> DEFINE line == Line(tip)
           found == {i \in 1 .. Len(line) : Verify(line[i], branch, {"Setup", "DestToSource"})}
           least == IF found # {} THEN Min(found) ELSE 0
<1>1. line \in Seq(Anc(tip)) /\ Len(line) \in Nat /\ DOMAIN line = 1 .. Len(line)
  <2>1. line \in Seq(Anc(tip))
    BY CommitFacts
  <2> HIDE DEF line
  <2>2. QED
    BY <2>1
<1>2. SelectInSeq(line, LAMBDA x : Verify(x, branch, {"Setup", "DestToSource"})) = least
  BY DEF SelectInSeq
<1>3. NewestDestMarker(tip, branch) = IF least = 0 THEN NoOid ELSE line[least]
  BY <1>2 DEF NewestDestMarker, Newest
<1>4. least # 0
  BY <1>3
<1>5. found \in SUBSET Nat /\ found # {}
  BY <1>4
<1>6. least \in found
  BY <1>5, LeastNatural
<1> HIDE DEF least
<1>7. least \in DOMAIN line /\ Verify(line[least], branch, {"Setup", "DestToSource"})
  BY <1>1, <1>6
<1> HIDE DEF line
<1>8. line[least] \in Anc(tip)
  BY <1>1, <1>7
<1>9. QED
  BY <1>3, <1>4, <1>7, <1>8

(* Where a history has no projections, no scan of it finds one. *)
LEMMA NoneToFind ==
    ASSUME ObjectDatabase(odb), NEW o \in Oids, NEW branch,
           \A a \in Anc(o) : odb[a].marker.dir # "SourceToDest"
    PROVE  NewestSourceMarker(o, branch) = NoOid /\ NewestMirrorMarker(o) = NoOid
<1> DEFINE line == Line(o)
           own == {i \in 1 .. Len(line) : Verify(line[i], branch, {"SourceToDest"})}
           any == {i \in 1 .. Len(line) : VerifySelf(line[i], {"SourceToDest"})}
<1>1. \A i \in 1 .. Len(line) : line[i] \in Anc(o)
  <2>1. line \in Seq(Anc(o))
    BY CommitFacts
  <2>2. QED
    BY <2>1
<1>2. own = {} /\ any = {}
  <2> HIDE DEF line
  <2>1. \A i \in 1 .. Len(line) : odb[line[i]].marker.dir # "SourceToDest"
    BY <1>1
  <2>2. QED
    BY <2>1 DEF Verify, VerifySelf
<1>3. SelectInSeq(line, LAMBDA x : Verify(x, branch, {"SourceToDest"})) = 0
  <2>1. SelectInSeq(line, LAMBDA x : Verify(x, branch, {"SourceToDest"}))
          = IF own # {} THEN Min(own) ELSE 0
    BY DEF SelectInSeq
  <2>2. QED
    BY <1>2, <2>1
<1>4. SelectInSeq(line, LAMBDA x : VerifySelf(x, {"SourceToDest"})) = 0
  <2>1. SelectInSeq(line, LAMBDA x : VerifySelf(x, {"SourceToDest"}))
          = IF any # {} THEN Min(any) ELSE 0
    BY DEF SelectInSeq
  <2>2. QED
    BY <1>2, <2>1
<1>5. QED
  BY <1>3, <1>4 DEF NewestSourceMarker, NewestMirrorMarker, Newest

LEMMA MergeBaseOfAncestor ==
    ASSUME ObjectDatabase(odb), NEW tip \in Oids, NEW o \in Anc(tip)
    PROVE  MergeBase(tip, o) = o
<1> DEFINE common == Anc(tip) \cap Anc(o)
<1>1. o \in Oids /\ o \in Anc(o) /\ Anc(o) \subseteq 1 .. o
  <2>1. o \in Oids
    BY CommitFacts
  <2>2. QED
    BY <2>1 DEF ObjectDatabase, WellFormed, Oids, Anc
<1>2. o \in common /\ common \subseteq 1 .. o /\ o \in Nat
  BY <1>1 DEF Oids
<1>3. \A y \in common : y <= o
  BY <1>2
<1>4. \A x \in common : (\A y \in common : y <= x) => x = o
  BY <1>2, <1>3
<1> HIDE DEF common
<1>5. (CHOOSE x \in common : \A y \in common : y <= x) = o
  BY <1>2, <1>3, <1>4
<1>6. QED
  BY <1>2, <1>5 DEF MergeBase, common

(* A branch resumes behind any commit its source branch contains, as long  *)
(* as that history has no projections: the graft.                          *)
LEMMA ResumesAtGraft ==
    ASSUME ObjectDatabase(odb), NEW H, NEW tip \in Oids, NEW o \in Anc(tip), NEW b,
           \A a \in Anc(o) : odb[a].marker.dir # "SourceToDest"
    PROVE  DestResumePoint(H, tip, o, b).kind = "Ok"
<1>1. o \in Oids /\ o \in Anc(o) /\ o # NoOid
  <2>1. o \in Oids
    BY CommitFacts
  <2>2. o \in Anc(o)
    BY <2>1, CommitFacts
  <2>3. QED
    BY <2>1, <2>2 DEF Oids, NoOid
<1>2. GraftPoint(tip, o) = o
  BY MergeBaseOfAncestor DEF GraftPoint
<1>3. NewestSourceMarker(o, b) = NoOid /\ NewestMirrorMarker(o) = NoOid
  BY <1>1, NoneToFind
<1>4. DestTipAccountedFor(tip, o, b) = "AtGraftOnly"
  BY <1>1, <1>2 DEF DestTipAccountedFor, Verify
<1>5. NewestMirrorMarkerBelongsToBranch(o, b)
  BY <1>3 DEF NewestMirrorMarkerBelongsToBranch
<1>6. DestResumePoint(H, tip, o, b) = [kind |-> "Ok", at |-> o]
  BY <1>1, <1>2, <1>3, <1>4, <1>5 DEF DestResumePoint
<1>7. QED
  BY <1>6

(* A new commit is the first of its own line. *)
LEMMA LineBeginsWithItself ==
    ASSUME ObjectDatabase(odb), NEW parents \in Seq(Oids), NEW tree, NEW marker,
           Write(parents, tree, marker)
    PROVE  odb'[NextOid].line[1] = NextOid
<1>1. odb'[NextOid] = NewCommit(parents, tree, marker)
  BY DEF Write, NextOid, ObjectDatabase
<1> DEFINE rest == IF parents = <<>> THEN <<>> ELSE Line(parents[1])
<1>2. rest \in Seq(Nat)
  <2>1. CASE parents = <<>>
    BY <2>1
  <2>2. CASE parents # <<>>
    <3>1. parents[1] \in Oids
      BY <2>2
    <3>2. odb[parents[1]] \in Commits
      BY <3>1 DEF ObjectDatabase, Oids
    <3>3. QED
      BY <2>2, <3>2 DEF Commits, Line
  <2>3. QED
    BY <2>1, <2>2
<1>3. <<NextOid>> \in Seq(Nat)
  BY SingletonSeq DEF NextOid, ObjectDatabase
<1> HIDE DEF rest
<1>4. (<<NextOid>> \o rest)[1] = NextOid
  BY <1>2, <1>3
<1>5. QED
  BY <1>1, <1>4 DEF NewCommit, rest

=============================================================================
