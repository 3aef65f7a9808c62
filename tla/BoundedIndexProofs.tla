------------------------- MODULE BoundedIndexProofs -------------------------
(***************************************************************************)
(* What the limits can do to the mapping index, for every history and      *)
(* every choice of limits: an index that is not tainted is the whole one.  *)
(***************************************************************************)
EXTENDS BoundedIndex, SyncProofs, FiniteSetTheorems

(***************************************************************************)
(* Going over a sequence from left to right.                               *)
(***************************************************************************)
LEMMA UpTo ==
    ASSUME NEW n \in Nat, NEW S, 0 \in S, \A i \in 1 .. n : i - 1 \in S => i \in S
    PROVE  0 .. n \subseteq S
<1> DEFINE bad == {k \in 0 .. n : k \notin S}
<1>1. SUFFICES ASSUME bad # {} PROVE FALSE
  OBVIOUS
<1>2. bad \in SUBSET Nat
  OBVIOUS
<1> HIDE DEF bad
<1>3. PICK k : k \in bad /\ \A y \in bad : k <= y
  BY <1>1, <1>2, LeastNatural
<1>4. k \in 1 .. n /\ k \notin S
  BY <1>3 DEF bad
<1>5. k - 1 \in 0 .. n /\ k - 1 \notin bad
  BY <1>3, <1>4, <1>2
<1>6. QED
  BY <1>4, <1>5 DEF bad

LEMMA MaxOfRange ==
    ASSUME NEW n \in Nat, NEW s \in SUBSET (1 .. n), n \in s
    PROVE  Max(s) = n
<1>1. \A y \in s : n >= y
  OBVIOUS
<1>2. \A x \in s : (\A y \in s : x >= y) => x = n
  OBVIOUS
<1>3. QED
  BY <1>1, <1>2 DEF Max

(* The function over which a fold of the community modules is defined is   *)
(* there, whatever a step computes from values of Space.                   *)
Folds(k, Space, base, step, g) ==
    /\ g \in [SUBSET (1 .. k) -> Space]
    /\ \A s \in SUBSET (1 .. k) :
          g[s] = IF s = {} THEN base ELSE step[<<Max(s), g[s \ {Max(s)}]>>]

LEMMA FoldIsThere ==
    ASSUME NEW n \in Nat, NEW Space, NEW base \in Space,
           NEW step \in [(1 .. n) \X Space -> Space]
    PROVE  \E g : Folds(n, Space, base, step, g)
<1> DEFINE S == {k \in 0 .. n : \E g : Folds(k, Space, base, step, g)}
<1>1. 0 \in S
  <2> DEFINE g == [s \in SUBSET (1 .. 0) |-> base]
  <2>1. Folds(0, Space, base, step, g)
    BY DEF Folds
  <2>2. QED
    BY <2>1
<1>2. ASSUME NEW k \in 1 .. n, k - 1 \in S PROVE k \in S
  <2>1. PICK g : Folds(k - 1, Space, base, step, g)
    BY <1>2
  <2> DEFINE small == SUBSET (1 .. (k - 1))
             h == [s \in SUBSET (1 .. k) |->
                      IF s \in small THEN g[s] ELSE step[<<k, g[s \ {k}]>>]]
  <2>2. small \subseteq SUBSET (1 .. k) /\ \A s \in SUBSET (1 .. k) : s \ {k} \in small
    OBVIOUS
  <2>3. \A s \in SUBSET (1 .. k) : s \notin small => k \in s /\ Max(s) = k
    <3> SUFFICES ASSUME NEW s \in SUBSET (1 .. k), s \notin small PROVE k \in s /\ Max(s) = k
      OBVIOUS
    <3>1. k \in s /\ k \in Nat
      OBVIOUS
    <3>2. QED
      BY <3>1, MaxOfRange
  <2>4. \A s \in SUBSET (1 .. k) : s \ {Max(s)} \in SUBSET (1 .. k)
    OBVIOUS
  <2>5. \A s \in small : h[s] = g[s] /\ s \ {Max(s)} \in small
    BY <2>2
  <2>6. \A s \in SUBSET (1 .. k) : s \notin small => h[s] = step[<<k, g[s \ {k}]>>]
    OBVIOUS
  <2>7. h \in [SUBSET (1 .. k) -> Space]
    <3>1. \A s \in SUBSET (1 .. k) :
             (IF s \in small THEN g[s] ELSE step[<<k, g[s \ {k}]>>]) \in Space
      <4> SUFFICES ASSUME NEW s \in SUBSET (1 .. k)
                   PROVE (IF s \in small THEN g[s] ELSE step[<<k, g[s \ {k}]>>]) \in Space
        OBVIOUS
      <4>1. g \in [small -> Space] /\ s \ {k} \in small
        BY <2>1, <2>2 DEF Folds
      <4>2. <<k, g[s \ {k}]>> \in (1 .. n) \X Space
        BY <4>1
      <4>3. QED
        BY <4>1, <4>2
    <3>2. QED
      BY <3>1
  <2> HIDE DEF h
  <2>8. ASSUME NEW s \in SUBSET (1 .. k)
        PROVE  h[s] = IF s = {} THEN base ELSE step[<<Max(s), h[s \ {Max(s)}]>>]
    <3>1. CASE s \in small
      BY <2>1, <2>5, <3>1 DEF Folds
    <3>2. CASE s \notin small
      BY <2>2, <2>3, <2>5, <2>6, <3>2
    <3>3. QED
      BY <3>1, <3>2
  <2>9. Folds(k, Space, base, step, h)
    BY <2>7, <2>8 DEF Folds
  <2>10. QED
    BY <2>9
<1> HIDE DEF S
<1>3. n \in S
  BY <1>1, <1>2, UpTo
<1>4. QED
  BY <1>3 DEF S

LEMMA SetOfAppend ==
    ASSUME NEW S, NEW s \in Seq(S), NEW x \in S
    PROVE  Append(s, x) \in Seq(S) /\ ToSet(Append(s, x)) = ToSet(s) \cup {x}
<1>1. /\ DOMAIN s = 1 .. Len(s) /\ Len(s) \in Nat
      /\ DOMAIN Append(s, x) = 1 .. (Len(s) + 1)
      /\ \A i \in 1 .. Len(s) : Append(s, x)[i] = s[i]
      /\ Append(s, x)[Len(s) + 1] = x
  OBVIOUS
<1>2. 1 .. (Len(s) + 1) = (1 .. Len(s)) \cup {Len(s) + 1}
  BY <1>1
<1>3. ToSet(Append(s, x)) = ToSet(s) \cup {x}
  BY <1>1, <1>2 DEF ToSet
<1>4. QED
  BY <1>3

LEMMA MaxIn ==
    ASSUME NEW n \in Nat, NEW s \in SUBSET (1 .. n), s # {}
    PROVE  Max(s) \in s
<1>1. s \in SUBSET (0 .. n)
  OBVIOUS
<1>2. \E x \in s : \A y \in s : y <= x
  BY <1>1, GreatestBounded
<1>3. \E x \in s : \A y \in s : x >= y
  BY <1>2
<1>4. QED
  BY <1>3 DEF Max

LEMMA InitialSegments ==
    ASSUME NEW n \in Nat
    PROVE  /\ 1 .. 0 = {}
           /\ \A k \in 1 .. n : /\ 1 .. k \in SUBSET (1 .. n) /\ 1 .. k # {}
                                /\ Max(1 .. k) = k /\ (1 .. k) \ {k} = 1 .. (k - 1)
<1>1. ASSUME NEW k \in 1 .. n
      PROVE  /\ 1 .. k \in SUBSET (1 .. n) /\ 1 .. k # {}
             /\ Max(1 .. k) = k /\ (1 .. k) \ {k} = 1 .. (k - 1)
  <2>1. k \in Nat /\ 1 .. k \in SUBSET (1 .. k) /\ k \in 1 .. k
    OBVIOUS
  <2>2. Max(1 .. k) = k
    BY <2>1, MaxOfRange
  <2>3. QED
    BY <2>1, <2>2
<1>2. QED
  BY <1>1

(***************************************************************************)
(* The names of a set in the order in which they sort.                     *)
(***************************************************************************)

(* acc says what has been listed after each name of NameOrder. *)
Goes(acc, bs) ==
    /\ acc[0] = <<>>
    /\ \A k \in DOMAIN NameOrder :
          acc[k] = IF NameOrder[k] \in bs THEN Append(acc[k - 1], NameOrder[k]) ELSE acc[k - 1]

LEMMA NamedGoesThrough ==
    ASSUME NEW bs
    PROVE  \E acc : Goes(acc, bs) /\ Named(bs) = acc[Len(NameOrder)]
<1> DEFINE n == Len(NameOrder)
           step == [p \in (1 .. n) \X Seq(Branches) |->
                       IF NameOrder[p[1]] \in bs THEN Append(p[2], NameOrder[p[1]]) ELSE p[2]]
<1>1. /\ n \in Nat /\ DOMAIN NameOrder = 1 .. n
      /\ \A k \in 1 .. n : NameOrder[k] \in Branches
  BY SyncAssumption
<1>2. <<>> \in Seq(Branches) /\ step \in [(1 .. n) \X Seq(Branches) -> Seq(Branches)]
  BY <1>1
<1>3. \A k \in 1 .. n, x \in Seq(Branches) :
         step[<<k, x>>] = IF NameOrder[k] \in bs THEN Append(x, NameOrder[k]) ELSE x
  OBVIOUS
<1> HIDE DEF step
<1>4. PICK g : Folds(n, Seq(Branches), <<>>, step, g)
  BY <1>1, <1>2, FoldIsThere
<1> DEFINE Listed(it) == it = [s \in SUBSET (1 .. n) |->
              IF s = {} THEN <<>>
              ELSE IF NameOrder[Max(s)] \in bs
                   THEN Append(it[s \ {Max(s)}], NameOrder[Max(s)]) ELSE it[s \ {Max(s)}]]
           iter == CHOOSE it : Listed(it)
<1>5. Listed(g)
  <2>1. ASSUME NEW s \in SUBSET (1 .. n), s # {}
        PROVE  g[s] = IF NameOrder[Max(s)] \in bs
                      THEN Append(g[s \ {Max(s)}], NameOrder[Max(s)]) ELSE g[s \ {Max(s)}]
    <3>1. Max(s) \in 1 .. n
      BY <1>1, <2>1, MaxIn
    <3>2. g[s \ {Max(s)}] \in Seq(Branches)
      BY <1>4 DEF Folds
    <3>3. g[s] = step[<<Max(s), g[s \ {Max(s)}]>>]
      BY <1>4, <2>1 DEF Folds
    <3>4. QED
      BY <1>3, <3>1, <3>2, <3>3
  <2>2. g \in [SUBSET (1 .. n) -> Seq(Branches)] /\ g[{}] = <<>>
    BY <1>4 DEF Folds
  <2>3. QED
    BY <2>1, <2>2
<1>6. Listed(iter)
  BY <1>5
<1>7. Named(bs) = iter[1 .. n]
  BY <1>1 DEF Named, FoldLeft, MapThenFoldSet
<1> HIDE DEF iter
<1> DEFINE acc == [k \in 0 .. n |-> iter[1 .. k]]
<1>8. acc[0] = <<>>
  BY <1>1, <1>6, InitialSegments
<1>9. ASSUME NEW k \in 1 .. n
      PROVE  acc[k] = IF NameOrder[k] \in bs THEN Append(acc[k - 1], NameOrder[k]) ELSE acc[k - 1]
  <2>1. /\ 1 .. k \in SUBSET (1 .. n) /\ 1 .. k # {}
        /\ Max(1 .. k) = k /\ (1 .. k) \ {k} = 1 .. (k - 1)
    BY <1>1, InitialSegments
  <2>2. iter[1 .. k] = IF NameOrder[k] \in bs
                       THEN Append(iter[1 .. (k - 1)], NameOrder[k]) ELSE iter[1 .. (k - 1)]
    BY <1>6, <2>1
  <2>3. acc[k] = iter[1 .. k] /\ acc[k - 1] = iter[1 .. (k - 1)]
    BY <1>1
  <2>4. QED
    BY <2>2, <2>3
<1>10. acc[n] = iter[1 .. n]
  BY <1>1
<1> HIDE DEF acc
<1>11. Goes(acc, bs) /\ Named(bs) = acc[n]
  BY <1>1, <1>7, <1>8, <1>9, <1>10 DEF Goes
<1>12. QED
  BY <1>11

LEMMA NamedIs ==
    ASSUME NEW bs \in SUBSET Branches
    PROVE  /\ Named(bs) \in Seq(bs) /\ ToSet(Named(bs)) = bs
           /\ Len(Named(bs)) \in Nat /\ DOMAIN Named(bs) = 1 .. Len(Named(bs))
           /\ {Named(bs)[i] : i \in DOMAIN Named(bs)} = bs
<1> DEFINE n == Len(NameOrder)
<1>1. /\ n \in Nat /\ DOMAIN NameOrder = 1 .. n
      /\ \A b \in Branches : \E i \in 1 .. n : NameOrder[i] = b
  BY SyncAssumption DEF ToSet
<1>2. PICK acc : Goes(acc, bs) /\ Named(bs) = acc[n]
  BY NamedGoesThrough
<1> DEFINE first(k) == {NameOrder[i] : i \in 1 .. k} \cap bs
           S == {k \in 0 .. n : acc[k] \in Seq(bs) /\ ToSet(acc[k]) = first(k)}
<1> HIDE DEF n
<1>3. 0 \in S
  <2>1. acc[0] = <<>> /\ first(0) = {} /\ ToSet(<<>>) = {}
    BY <1>2 DEF Goes, ToSet
  <2> HIDE DEF first
  <2>2. <<>> \in Seq(bs) /\ 0 \in 0 .. n
    BY <1>1
  <2>3. QED
    BY <2>1, <2>2
<1>4. ASSUME NEW k \in 1 .. n, k - 1 \in S PROVE k \in S
  <2>1. acc[k - 1] \in Seq(bs) /\ ToSet(acc[k - 1]) = first(k - 1)
    BY <1>4
  <2>2. acc[k] = IF NameOrder[k] \in bs THEN Append(acc[k - 1], NameOrder[k]) ELSE acc[k - 1]
    BY <1>1, <1>2 DEF Goes
  <2>3. first(k) = IF NameOrder[k] \in bs THEN first(k - 1) \cup {NameOrder[k]} ELSE first(k - 1)
    <3>1. 1 .. k = (1 .. (k - 1)) \cup {k}
      BY <1>1
    <3>2. QED
      BY <3>1
  <2> HIDE DEF first
  <2>4. NameOrder[k] \in bs => /\ Append(acc[k - 1], NameOrder[k]) \in Seq(bs)
                               /\ ToSet(Append(acc[k - 1], NameOrder[k])) = ToSet(acc[k - 1]) \cup {NameOrder[k]}
    BY <2>1, SetOfAppend
  <2>5. acc[k] \in Seq(bs) /\ ToSet(acc[k]) = first(k)
    BY <2>1, <2>2, <2>3, <2>4
  <2>6. QED
    BY <2>5
<1>5. n \in 0 .. n /\ first(n) = bs
  BY <1>1
<1> HIDE DEF S, first
<1>6. n \in S
  BY <1>1, <1>3, <1>4, <1>5, UpTo
<1>7. Named(bs) \in Seq(bs) /\ ToSet(Named(bs)) = bs
  BY <1>2, <1>5, <1>6 DEF S, n
<1>8. ToSet(Named(bs)) = {Named(bs)[i] : i \in DOMAIN Named(bs)}
  BY DEF ToSet
<1>9. Len(Named(bs)) \in Nat /\ DOMAIN Named(bs) = 1 .. Len(Named(bs))
  BY <1>7
<1>10. QED
  BY <1>7, <1>8, <1>9

(* A listing holds only names that dest had and gitprism could have given; *)
(* one that no limit cut off holds all of them.                            *)
Lists(names, undecodable, invalid, listing) ==
    /\ listing.names \subseteq names \ (undecodable \cup invalid)
    /\ ~listing.branchLimit => listing.names = names \ (undecodable \cup invalid)
    /\ IsComplete(listing) => names \cap undecodable = {}

LEMMA ListingIs ==
    ASSUME NEW names \in SUBSET Branches, NEW undecodable, NEW invalid, NEW limit \in Nat
    PROVE  Lists(names, undecodable, invalid, Listing(names, undecodable, invalid, limit))
<1> DEFINE listing == Listing(names, undecodable, invalid, limit)
           bs == names \ (undecodable \cup invalid)
           valid == Named(bs)
           read == IF Len(valid) > limit THEN Rank(valid[limit + 1]) ELSE Len(NameOrder)
<1>1. /\ listing.names = {valid[i] : i \in DOMAIN valid \cap 1 .. limit}
      /\ listing.branchLimit = (Len(valid) > limit)
      /\ listing.undecodable = \E b \in names \cap undecodable : Rank(b) <= read
  BY DEF Listing
<1>2. bs \in SUBSET Branches
  OBVIOUS
<1> HIDE DEF bs, listing
<1>3. /\ Len(valid) \in Nat /\ DOMAIN valid = 1 .. Len(valid)
      /\ {valid[i] : i \in DOMAIN valid} = bs
  BY <1>2, NamedIs
<1> HIDE DEF valid
<1>4. listing.names \subseteq bs
  BY <1>1, <1>3
<1>5. ASSUME ~listing.branchLimit PROVE listing.names = bs
  <2>1. ~(Len(valid) > limit)
    BY <1>1, <1>5
  <2>2. DOMAIN valid \cap 1 .. limit = DOMAIN valid
    BY <1>3, <2>1
  <2>3. QED
    BY <1>1, <1>3, <2>2
<1>6. ASSUME IsComplete(listing) PROVE names \cap undecodable = {}
  <2>1. ~listing.branchLimit /\ ~listing.undecodable
    BY <1>6 DEF IsComplete
  <2>2. read = Len(NameOrder)
    BY <1>1, <2>1
  <2>3. ASSUME NEW b \in Branches PROVE Rank(b) <= Len(NameOrder)
    <3> DEFINE I == {i \in 1 .. Len(NameOrder) : NameOrder[i] = b}
    <3>1. Len(NameOrder) \in Nat
      BY SyncAssumption
    <3>2. Rank(b) = IF I # {} THEN Min(I) ELSE 0
      BY DEF Rank, SelectInSeq
    <3>3. I \in SUBSET (1 .. Len(NameOrder))
      OBVIOUS
    <3> HIDE DEF I
    <3>4. Rank(b) \in 0 .. Len(NameOrder)
      BY <3>1, <3>2, <3>3, FirstIndex
    <3>5. QED
      BY <3>1, <3>4
  <2>4. QED
    BY <1>1, <2>1, <2>2, <2>3
<1>7. QED
  BY <1>4, <1>5, <1>6 DEF listing, bs, Lists

(* A name that is passed over is no branch of the clone.                   *)
LEMMA AbsenceFollows == SyncInv => AbsenceIsReal
<1> SUFFICES ASSUME SyncInv, NEW c \in Clones, Indexing(c),
                    NEW bl \in BranchLimits, NEW invalid \in SUBSET Foreign(c),
                    NEW undecodable \in SUBSET (Foreign(c) \ invalid),
                    NEW b \in run[c].sources,
                    SeededExistence(Listing(run[c].names, undecodable, invalid, bl),
                                    run[c].sources)[b] = "no"
             PROVE  b \notin run[c].names
  BY DEF AbsenceIsReal
<1> DEFINE listing == Listing(run[c].names, undecodable, invalid, bl)
<1>1. /\ run[c].names \in SUBSET Branches /\ run[c].sources \subseteq Branches
      /\ bl \in Nat /\ b \in Branches
  BY LimitAssumption DEF SyncInv, CloneInv, RunRefs
<1>2. Lists(run[c].names, undecodable, invalid, listing)
  BY <1>1, ListingIs
<1>3. b \notin undecodable \cup invalid
  BY DEF Foreign
<1> HIDE DEF listing
<1>4. SeededExistence(listing, run[c].sources)[b] = "no" =>
          b \notin listing.names /\ ~listing.branchLimit
  BY <1>1 DEF SeededExistence, CanEstablishAbsence
<1>5. QED
  BY <1>2, <1>3, <1>4 DEF listing, Lists

(***************************************************************************)
(* Scanning.                                                               *)
(***************************************************************************)
AllMappings == {SourceCommitMapping(o) : o \in Oids} \cup {DestCommitMapping(o) : o \in Oids}
Indices == [records : SUBSET AllMappings, tainted : BOOLEAN, visited : SUBSET Oids]
Readers == [Oids -> SUBSET AllMappings]

LEMMA MappingsFinite ==
    ASSUME Len(odb) \in Nat
    PROVE  IsFiniteSet(AllMappings)
<1> DEFINE S == {SourceCommitMapping(o) : o \in Oids}
           D == {DestCommitMapping(o) : o \in Oids}
           f == [o \in Oids |-> SourceCommitMapping(o)]
           g == [o \in Oids |-> DestCommitMapping(o)]
<1>1. IsFiniteSet(Oids)
  BY FS_Interval DEF Oids
<1>2. f \in Surjection(Oids, S) /\ g \in Surjection(Oids, D)
  BY DEF Surjection
<1> HIDE DEF f, g, S, D
<1>3. IsFiniteSet(S)
  BY <1>1, <1>2, FS_Surjection
<1>4. IsFiniteSet(D)
  BY <1>1, <1>2, FS_Surjection
<1>5. IsFiniteSet(S \cup D)
  BY <1>3, <1>4, FS_Union
<1>6. QED
  BY <1>5 DEF AllMappings, S, D

LEMMA ReadersAre ==
    /\ SourceRecords \in Readers /\ DestRecords \in Readers
    /\ \A o \in Oids : /\ SourceRecords[o] = IF LoopPrevented(o) THEN {SourceCommitMapping(o)} ELSE {}
                       /\ DestRecords[o] = IF VerifySelf(o, {"SourceToDest"})
                                           THEN {DestCommitMapping(o)} ELSE {}
BY DEF SourceRecords, DestRecords, Readers, AllMappings

(* The index after the first n commits of line. *)
Reads(index, out, line, recordsOf, n) ==
    /\ out.records = index.records \cup UNION {recordsOf[line[i]] : i \in 1 .. n}
    /\ out.visited = index.visited \cup {line[i] : i \in 1 .. n}

(* A scan that does not taint the index has read a line down to its end or *)
(* to a commit that was visited before.                                    *)
ScansTo(index, out, line, recordsOf) ==
    /\ out \in Indices
    /\ index.tainted => out.tainted
    /\ ~out.tainted => \E n \in 0 .. Len(line) :
          /\ n = Len(line) \/ line[n + 1] \in index.visited
          /\ Reads(index, out, line, recordsOf, n)

LEMMA ScanReads ==
    ASSUME ObjectDatabase(odb), NEW index \in Indices, NEW head \in Oids,
           NEW recordsOf \in Readers, NEW scanLimit \in Nat, NEW entryLimit \in Nat
    PROVE  ScansTo(index, ScanHistory(index, head, recordsOf, scanLimit, entryLimit),
                   Line(head), recordsOf)
<1> DEFINE line == Line(head)
           I == {i \in 1 .. Len(line) : line[i] \in index.visited}
           met == SelectInSeq(line, LAMBDA o : o \in index.visited)
           fresh == IF met = 0 THEN Len(line) ELSE met - 1
           walk == IF fresh > scanLimit THEN scanLimit ELSE fresh
           Found(k) == index.records \cup UNION {recordsOf[line[i]] : i \in 1 .. k}
           Stops(k) == /\ Cardinality(Found(k)) <= entryLimit \/ k = 0
                       /\ k < walk => Cardinality(Found(k + 1)) > entryLimit
           kept == CHOOSE k \in 0 .. walk : Stops(k)
           read == IF kept < walk THEN kept + 1 ELSE walk
           out == ScanHistory(index, head, recordsOf, scanLimit, entryLimit)
<1>1. /\ line \in Seq(Oids) /\ Len(line) \in Nat /\ DOMAIN line = 1 .. Len(line)
      /\ \A i \in 1 .. Len(line) : line[i] \in Oids
  <2>1. line \in Seq(Anc(head)) /\ Anc(head) \subseteq Oids
    BY CommitFacts
  <2>2. QED
    BY <2>1, SeqOfElements
<1>2. /\ out.records = Found(kept)
      /\ out.tainted = (index.tainted \/ kept < walk \/ walk < fresh)
      /\ out.visited = index.visited \cup {line[i] : i \in 1 .. read}
      /\ out = [records |-> out.records, tainted |-> out.tainted, visited |-> out.visited]
  BY DEF ScanHistory
<1>3. met = IF I # {} THEN Min(I) ELSE 0
  BY DEF SelectInSeq
<1>4. I \in SUBSET (1 .. Len(line))
  OBVIOUS
<1>5. met # 0 => met \in 1 .. Len(line) /\ line[met] \in index.visited
  <2> HIDE DEF I
  <2>1. I \in SUBSET Nat
    BY <1>1, <1>4
  <2>2. I # {} => Min(I) \in I
    BY <2>1, LeastNatural
  <2>3. QED
    BY <1>3, <2>2 DEF I
<1> HIDE DEF met, line
<1>6. fresh \in 0 .. Len(line) /\ walk \in 0 .. fresh /\ walk \in Nat
  BY <1>1, <1>5
<1>7. \A k \in 0 .. walk : Found(k) \subseteq AllMappings
  BY <1>1, <1>6 DEF Indices, Readers
<1>8. \A k \in 0 .. walk : Cardinality(Found(k)) \in Nat
  <2>1. IsFiniteSet(AllMappings)
    BY MappingsFinite DEF ObjectDatabase
  <2> HIDE DEF Found
  <2>2. ASSUME NEW k \in 0 .. walk PROVE Cardinality(Found(k)) \in Nat
    <3>1. IsFiniteSet(Found(k))
      BY <1>7, <2>1, FS_Subset
    <3>2. QED
      BY <3>1, FS_CardinalityType
  <2>3. QED
    BY <2>2
<1> HIDE DEF Found, walk, fresh, I
<1>9. \E k \in 0 .. walk : Stops(k)
  <2> DEFINE S == {k \in 0 .. walk : Cardinality(Found(k)) <= entryLimit \/ k = 0}
  <2>1. 0 \in S /\ S \in SUBSET (0 .. walk)
    BY <1>6
  <2> HIDE DEF S
  <2>2. PICK k \in S : \A y \in S : y <= k
    BY <1>6, <2>1, GreatestBounded
  <2>3. k < walk => k + 1 \in 0 .. walk /\ k + 1 \notin S
    BY <1>6, <2>1, <2>2
  <2>4. k < walk => Cardinality(Found(k + 1)) > entryLimit
    BY <1>8, <2>3 DEF S
  <2>5. QED
    BY <2>1, <2>2, <2>4 DEF S
<1>10. kept \in 0 .. walk
  BY <1>9
<1> HIDE DEF kept, out
<1>11. read \in 0 .. walk
  BY <1>6, <1>10
<1>12. out \in Indices
  <2>1. out.records \subseteq AllMappings
    BY <1>2, <1>7, <1>10
  <2>2. out.visited \subseteq Oids
    BY <1>1, <1>2, <1>6, <1>11 DEF Indices
  <2>3. out.tainted \in BOOLEAN
    BY <1>2
  <2>4. QED
    BY <1>2, <2>1, <2>2, <2>3 DEF Indices
<1>13. ASSUME ~out.tainted
       PROVE  \E n \in 0 .. Len(line) : /\ n = Len(line) \/ line[n + 1] \in index.visited
                                        /\ Reads(index, out, line, recordsOf, n)
  <2>1. ~(kept < walk) /\ ~(walk < fresh)
    BY <1>2, <1>13
  <2>2. kept = fresh /\ read = fresh
    BY <1>6, <1>10, <2>1
  <2>3. fresh = Len(line) \/ line[fresh + 1] \in index.visited
    BY <1>1, <1>5 DEF fresh
  <2>4. Reads(index, out, line, recordsOf, fresh)
    BY <1>2, <2>2 DEF Reads, Found
  <2>5. QED
    BY <1>6, <2>3, <2>4
<1>14. index.tainted => out.tainted
  BY <1>2
<1>15. QED
  BY <1>12, <1>13, <1>14 DEF ScansTo, line, out

(* The index holds what the lines of tips say, on top of records.          *)
Trails(tips) == UNION {Trail(odb, h) : h \in tips}
Covers(records, recordsOf, tips, index) ==
    /\ index.visited = Trails(tips)
    /\ index.records = records \cup UNION {recordsOf[o] : o \in Trails(tips)}

LEMMA ScanCovers ==
    ASSUME ObjectDatabase(odb), ImportLog(odb), NEW index, NEW out, NEW head \in Oids,
           NEW recordsOf, NEW records, NEW tips \in SUBSET Oids,
           Covers(records, recordsOf, tips, index),
           ScansTo(index, out, Line(head), recordsOf), ~out.tainted
    PROVE  Covers(records, recordsOf, tips \cup {head}, out)
<1> DEFINE line == Line(head)
           V == Trails(tips)
<1>1. /\ line \in Seq(Oids) /\ Len(line) \in Nat /\ DOMAIN line = 1 .. Len(line)
      /\ Trail(odb, head) = {line[i] : i \in 1 .. Len(line)}
  <2>1. line \in Seq(Anc(head)) /\ Anc(head) \subseteq Oids
    BY CommitFacts
  <2>2. line \in Seq(Oids)
    BY <2>1, SeqOfElements
  <2>3. Trail(odb, head) = {line[i] : i \in DOMAIN line}
    BY DEF Trail, ToSet, Line
  <2>4. QED
    BY <2>2, <2>3
<1>2. \A h \in Oids : Straight(odb, h) /\ Trail(odb, h) \subseteq Oids
  BY TrailInHistory DEF ImportLog, Oids
<1>3. \A v \in V : v \in Oids /\ Trail(odb, v) \subseteq V
  <2> SUFFICES ASSUME NEW h \in tips, NEW v \in Trail(odb, h)
               PROVE v \in Oids /\ Trail(odb, v) \subseteq V
    BY DEF Trails
  <2>1. Trail(odb, v) = {x \in Trail(odb, h) : x <= v}
    BY <1>2 DEF Straight
  <2>2. QED
    BY <1>2, <2>1 DEF Trails
<1>4. PICK n \in 0 .. Len(line) : /\ n = Len(line) \/ line[n + 1] \in index.visited
                                  /\ Reads(index, out, line, recordsOf, n)
  BY DEF ScansTo
<1>5. index.visited = V /\ index.records = records \cup UNION {recordsOf[o] : o \in V}
  BY DEF Covers
<1> DEFINE new == {line[i] : i \in 1 .. n}
<1>6. V \cup new = V \cup Trail(odb, head)
  <2>1. new \subseteq Trail(odb, head)
    BY <1>1
  <2>2. CASE n = Len(line)
    BY <1>1, <2>2
  <2>3. CASE n # Len(line)
    <3>1. n + 1 \in DOMAIN line /\ line[n + 1] \in V
      <4>1. line[n + 1] \in V
        BY <1>4, <1>5, <2>3
      <4>2. n + 1 \in 1 .. Len(line)
        BY <1>1, <2>3
      <4>3. QED
        BY <1>1, <4>1, <4>2
    <3>2. ASSUME NEW i \in (n + 1) .. Len(line) PROVE line[i] \in V
      <4>1. line[n + 1] \in Trail(odb, head) /\ line[i] \in Trail(odb, head) /\ i \in DOMAIN line
        BY <1>1, <3>1
      <4>2. Trail(odb, line[n + 1]) = {x \in Trail(odb, head) : x <= line[n + 1]}
        BY <1>2, <4>1 DEF Straight
      <4>3. line[n + 1] \in Nat /\ line[i] \in Nat
        BY <1>1, <3>1, <4>1 DEF Oids
      <4>4. i # n + 1 => line[i] < line[n + 1]
        <5>1. \A j, k \in DOMAIN line : j < k => line[k] < line[j]
          BY <1>2 DEF Straight, Line
        <5>2. i # n + 1 => n + 1 < i
          OBVIOUS
        <5>3. QED
          BY <3>1, <4>1, <5>1, <5>2
      <4>5. line[i] <= line[n + 1]
        BY <4>3, <4>4
      <4>6. line[i] \in Trail(odb, line[n + 1])
        BY <4>1, <4>2, <4>5
      <4>7. QED
        BY <1>3, <3>1, <4>6
    <3>3. 1 .. Len(line) = (1 .. n) \cup ((n + 1) .. Len(line))
      BY <1>1
    <3>4. QED
      BY <1>1, <2>1, <3>2, <3>3
  <2>4. QED
    BY <2>2, <2>3
<1>7. Trails(tips \cup {head}) = V \cup Trail(odb, head)
  BY DEF Trails
<1>8. out.visited = V \cup new
  BY <1>4, <1>5 DEF Reads
<1>9. out.records = records \cup UNION {recordsOf[o] : o \in V \cup new}
  BY <1>4, <1>5 DEF Reads
<1> HIDE DEF new, V
<1>10. QED
  BY <1>6, <1>7, <1>8, <1>9 DEF Covers

(* acc says what the index holds after each of the heads.                  *)
Scans(acc, index, heads, recordsOf, scanLimit, entryLimit) ==
    /\ acc[0] = [index EXCEPT !.visited = {}]
    /\ \A k \in 1 .. Len(heads) :
          acc[k] = ScanHistory(acc[k - 1], heads[k], recordsOf, scanLimit, entryLimit)

LEMMA SideGoesThrough ==
    ASSUME ObjectDatabase(odb), NEW index \in Indices, NEW heads \in Seq(Oids),
           NEW recordsOf \in Readers, NEW scanLimit \in Nat, NEW entryLimit \in Nat
    PROVE  \E acc : /\ Scans(acc, index, heads, recordsOf, scanLimit, entryLimit)
                    /\ ScanSide(index, heads, recordsOf, scanLimit, entryLimit) = acc[Len(heads)]
<1> DEFINE n == Len(heads)
           base == [index EXCEPT !.visited = {}]
           Scanned(ix, head) == ScanHistory(ix, head, recordsOf, scanLimit, entryLimit)
           step == [p \in (1 .. n) \X Indices |-> Scanned(p[2], heads[p[1]])]
<1>1. n \in Nat /\ DOMAIN heads = 1 .. n /\ \A k \in 1 .. n : heads[k] \in Oids
  OBVIOUS
<1>2. \A ix \in Indices, head \in Oids : Scanned(ix, head) \in Indices
  BY ScanReads DEF ScansTo
<1>3. base \in Indices
  BY DEF Indices
<1> HIDE DEF Scanned, base, n
<1>4. step \in [(1 .. n) \X Indices -> Indices]
  BY <1>1, <1>2
<1>5. \A k \in 1 .. n, ix \in Indices : step[<<k, ix>>] = Scanned(ix, heads[k])
  OBVIOUS
<1> HIDE DEF step
<1>6. PICK g : Folds(n, Indices, base, step, g)
  BY <1>1, <1>3, <1>4, FoldIsThere
<1> DEFINE Listed(it) == it = [s \in SUBSET (1 .. n) |->
              IF s = {} THEN base ELSE Scanned(it[s \ {Max(s)}], heads[Max(s)])]
           iter == CHOOSE it : Listed(it)
<1>7. Listed(g)
  <2>1. ASSUME NEW s \in SUBSET (1 .. n), s # {}
        PROVE  g[s] = Scanned(g[s \ {Max(s)}], heads[Max(s)])
    <3>1. Max(s) \in 1 .. n
      BY <1>1, <2>1, MaxIn
    <3>2. g[s \ {Max(s)}] \in Indices
      BY <1>6 DEF Folds
    <3>3. g[s] = step[<<Max(s), g[s \ {Max(s)}]>>]
      BY <1>6, <2>1 DEF Folds
    <3>4. QED
      BY <1>5, <3>1, <3>2, <3>3
  <2>2. g \in [SUBSET (1 .. n) -> Indices] /\ g[{}] = base
    BY <1>6 DEF Folds
  <2>3. QED
    BY <2>1, <2>2
<1>8. Listed(iter)
  BY <1>7
<1>9. ScanSide(index, heads, recordsOf, scanLimit, entryLimit) = iter[1 .. n]
  BY <1>1 DEF ScanSide, FoldLeft, MapThenFoldSet, Scanned, base
<1> HIDE DEF iter
<1> DEFINE acc == [k \in 0 .. n |-> iter[1 .. k]]
<1>10. acc[0] = base
  BY <1>1, <1>8, InitialSegments
<1>11. ASSUME NEW k \in 1 .. n PROVE acc[k] = Scanned(acc[k - 1], heads[k])
  <2>1. /\ 1 .. k \in SUBSET (1 .. n) /\ 1 .. k # {}
        /\ Max(1 .. k) = k /\ (1 .. k) \ {k} = 1 .. (k - 1)
    BY <1>1, InitialSegments
  <2>2. iter[1 .. k] = Scanned(iter[1 .. (k - 1)], heads[k])
    BY <1>8, <2>1
  <2>3. acc[k] = iter[1 .. k] /\ acc[k - 1] = iter[1 .. (k - 1)]
    BY <1>1
  <2>4. QED
    BY <2>2, <2>3
<1>12. acc[n] = iter[1 .. n]
  BY <1>1
<1> HIDE DEF acc
<1>13. Scans(acc, index, heads, recordsOf, scanLimit, entryLimit)
  BY <1>10, <1>11 DEF Scans, Scanned, base, n
<1>14. ScanSide(index, heads, recordsOf, scanLimit, entryLimit) = acc[n]
  BY <1>9, <1>12
<1>15. QED
  BY <1>13, <1>14 DEF n

(* One side of the index, when nothing was cut off, is what all the lines  *)
(* of its heads say.                                                       *)
LEMMA SideCovers ==
    ASSUME ObjectDatabase(odb), ImportLog(odb), NEW index \in Indices, NEW heads \in Seq(Oids),
           NEW recordsOf \in Readers, NEW scanLimit \in Nat, NEW entryLimit \in Nat,
           NEW out, out = ScanSide(index, heads, recordsOf, scanLimit, entryLimit)
    PROVE  /\ out \in Indices
           /\ index.tainted => out.tainted
           /\ ~out.tainted => Covers(index.records, recordsOf, ToSet(heads), out)
<1> DEFINE n == Len(heads)
<1>1. n \in Nat /\ DOMAIN heads = 1 .. n /\ \A k \in 1 .. n : heads[k] \in Oids
  OBVIOUS
<1>2. PICK acc : /\ Scans(acc, index, heads, recordsOf, scanLimit, entryLimit)
                 /\ out = acc[n]
  BY SideGoesThrough
<1> HIDE DEF n
<1> DEFINE tips(k) == {heads[i] : i \in 1 .. k}
           Good(k) == /\ acc[k] \in Indices
                      /\ index.tainted => acc[k].tainted
                      /\ ~acc[k].tainted => Covers(index.records, recordsOf, tips(k), acc[k])
           S == {k \in 0 .. n : Good(k)}
<1>3. Good(0)
  <2>1. /\ acc[0] \in Indices /\ acc[0].records = index.records
        /\ acc[0].tainted = index.tainted /\ acc[0].visited = {}
    BY <1>2 DEF Scans, Indices
  <2>2. tips(0) = {}
    OBVIOUS
  <2>3. Covers(index.records, recordsOf, tips(0), acc[0])
    BY <2>1, <2>2 DEF Covers, Trails
  <2>4. QED
    BY <2>1, <2>3
<1>4. ASSUME NEW k \in 1 .. n, Good(k - 1) PROVE Good(k)
  <2>1. acc[k] = ScanHistory(acc[k - 1], heads[k], recordsOf, scanLimit, entryLimit)
    BY <1>2 DEF Scans, n
  <2>2. acc[k - 1] \in Indices /\ heads[k] \in Oids
    BY <1>1, <1>4
  <2>3. ScansTo(acc[k - 1], acc[k], Line(heads[k]), recordsOf)
    BY <2>1, <2>2, ScanReads
  <2>4. /\ acc[k] \in Indices
        /\ acc[k - 1].tainted => acc[k].tainted
    BY <2>3 DEF ScansTo
  <2>5. tips(k) = tips(k - 1) \cup {heads[k]} /\ tips(k - 1) \in SUBSET Oids
    <3>1. 1 .. k = (1 .. (k - 1)) \cup {k} /\ 1 .. k \subseteq 1 .. n
      BY <1>1
    <3>2. QED
      BY <1>1, <3>1
  <2> HIDE DEF tips
  <2>6. ~acc[k].tainted => Covers(index.records, recordsOf, tips(k - 1) \cup {heads[k]}, acc[k])
    <3>1. SUFFICES ASSUME ~acc[k].tainted
                   PROVE Covers(index.records, recordsOf, tips(k - 1) \cup {heads[k]}, acc[k])
      OBVIOUS
    <3>2. Covers(index.records, recordsOf, tips(k - 1), acc[k - 1])
      BY <1>4, <2>4, <3>1
    <3>3. QED
      BY <2>2, <2>3, <2>5, <3>1, <3>2, ScanCovers
  <2>7. QED
    BY <1>4, <2>4, <2>5, <2>6
<1> HIDE DEF Good
<1>5. 0 \in S
  BY <1>1, <1>3
<1>6. ASSUME NEW k \in 1 .. n, k - 1 \in S PROVE k \in S
  BY <1>4, <1>6
<1>7. n \in 0 .. n
  BY <1>1
<1> HIDE DEF S
<1>8. n \in S
  BY <1>1, <1>5, <1>6, <1>7, UpTo
<1>9. tips(n) = ToSet(heads)
  BY <1>1 DEF ToSet
<1>10. QED
  BY <1>2, <1>8, <1>9 DEF S, Good

(***************************************************************************)
(* The whole index.                                                        *)
(***************************************************************************)
SourceMappings(heads) == UNION {SourceRecords[o] : o \in Trails(heads)}
DestMappings(heads) == UNION {DestRecords[o] : o \in Trails(heads)}

LEMMA RecordsOfLines ==
    ASSUME ObjectDatabase(odb), NEW sourceHeads \in SUBSET Oids, NEW destHeads \in SUBSET Oids
    PROVE  Reconstruct(sourceHeads, destHeads)
              = SourceMappings(sourceHeads) \cup DestMappings(destHeads)
<1> DEFINE Lines(heads) == UNION {ToSet(Line(h)) : h \in heads}
<1>1. ASSUME NEW heads \in SUBSET Oids PROVE Lines(heads) = Trails(heads) /\ Trails(heads) \subseteq Oids
  <2>1. \A h \in Oids : Trail(odb, h) \subseteq Oids /\ ToSet(Line(h)) = Trail(odb, h)
    BY TrailInHistory DEF Oids, Trail, Line
  <2>2. QED
    BY <2>1 DEF Trails
<1>2. \A r : r \in Reconstruct(sourceHeads, destHeads) <=>
             \/ \E o \in Lines(sourceHeads) : LoopPrevented(o) /\ r = SourceCommitMapping(o)
             \/ \E o \in Lines(destHeads) :
                    VerifySelf(o, {"SourceToDest"}) /\ r = DestCommitMapping(o)
  <2> HIDE DEF Lines
  <2>1. Reconstruct(sourceHeads, destHeads) =
           {SourceCommitMapping(o) : o \in {x \in Lines(sourceHeads) : LoopPrevented(x)}}
           \cup
           {DestCommitMapping(o) :
               o \in {x \in Lines(destHeads) : VerifySelf(x, {"SourceToDest"})}}
    BY DEF Reconstruct, Lines
  <2>2. QED
    BY <2>1
<1> HIDE DEF Lines
<1>3. \A r : r \in SourceMappings(sourceHeads) <=>
             \E o \in Trails(sourceHeads) : LoopPrevented(o) /\ r = SourceCommitMapping(o)
  <2>1. \A o \in Trails(sourceHeads) :
           SourceRecords[o] = IF LoopPrevented(o) THEN {SourceCommitMapping(o)} ELSE {}
    BY <1>1, ReadersAre
  <2>2. QED
    BY <2>1 DEF SourceMappings
<1>4. \A r : r \in DestMappings(destHeads) <=>
             \E o \in Trails(destHeads) :
                 VerifySelf(o, {"SourceToDest"}) /\ r = DestCommitMapping(o)
  <2>1. \A o \in Trails(destHeads) :
           DestRecords[o] = IF VerifySelf(o, {"SourceToDest"}) THEN {DestCommitMapping(o)} ELSE {}
    BY <1>1, ReadersAre
  <2>2. QED
    BY <2>1 DEF DestMappings
<1>5. Lines(sourceHeads) = Trails(sourceHeads) /\ Lines(destHeads) = Trails(destHeads)
  BY <1>1
<1>6. QED
  BY <1>2, <1>3, <1>4, <1>5

LEMMA UntaintedIsWhole ==
    ASSUME ObjectDatabase(odb), ImportLog(odb),
           NEW sourceHeads \in Seq(Oids), NEW destHeads \in Seq(Oids), NEW listing,
           NEW scanLimit \in Nat, NEW entryLimit \in Nat,
           NEW index, index = BoundedIndexOf(sourceHeads, destHeads, listing, scanLimit, entryLimit),
           ~index.tainted
    PROVE  /\ IsComplete(listing)
           /\ index.records = Reconstruct(ToSet(sourceHeads), ToSet(destHeads))
<1> DEFINE first == ScanSide(EmptyIndex, sourceHeads, SourceRecords, scanLimit, entryLimit)
           scanned == ScanSide(first, destHeads, DestRecords, scanLimit, entryLimit)
<1>1. EmptyIndex \in Indices /\ EmptyIndex.records = {}
  BY DEF EmptyIndex, Indices
<1>2. /\ first \in Indices
      /\ ~first.tainted => Covers(EmptyIndex.records, SourceRecords, ToSet(sourceHeads), first)
  BY <1>1, ReadersAre, SideCovers
<1> HIDE DEF first
<1>3. /\ scanned \in Indices
      /\ first.tainted => scanned.tainted
      /\ ~scanned.tainted => Covers(first.records, DestRecords, ToSet(destHeads), scanned)
  BY <1>2, ReadersAre, SideCovers
<1>4. index = [scanned EXCEPT !.tainted = @ \/ ~IsComplete(listing)]
  BY DEF BoundedIndexOf, first
<1> HIDE DEF scanned
<1>5. index.tainted = (scanned.tainted \/ ~IsComplete(listing)) /\ index.records = scanned.records
  BY <1>3, <1>4 DEF Indices
<1>6. IsComplete(listing) /\ ~scanned.tainted /\ ~first.tainted
  BY <1>3, <1>5
<1>7. ToSet(sourceHeads) \subseteq Oids /\ ToSet(destHeads) \subseteq Oids
  BY DEF ToSet
<1>8. index.records = SourceMappings(ToSet(sourceHeads)) \cup DestMappings(ToSet(destHeads))
  <2>1. first.records = EmptyIndex.records \cup SourceMappings(ToSet(sourceHeads))
    BY <1>2, <1>6 DEF Covers, SourceMappings
  <2>2. scanned.records = first.records \cup DestMappings(ToSet(destHeads))
    BY <1>3, <1>6 DEF Covers, DestMappings
  <2>3. QED
    BY <1>1, <1>5, <2>1, <2>2
<1>9. QED
  BY <1>6, <1>7, <1>8, RecordsOfLines

(* A run indexes the heads of all its branches, whatever their order.      *)
HeadsAt(named, refs) == [i \in DOMAIN named |-> refs[named[i]]]
RefsOf(names, refs) == {refs[b] : b \in names}

LEMMA HeadsOf ==
    ASSUME NEW names, NEW named \in Seq(names), ToSet(named) = names,
           NEW refs, NEW S, \A b \in names : refs[b] \in S
    PROVE  HeadsAt(named, refs) \in Seq(S) /\ ToSet(HeadsAt(named, refs)) = RefsOf(names, refs)
<1> DEFINE heads == [i \in DOMAIN named |-> refs[named[i]]]
<1>1. /\ Len(named) \in Nat /\ DOMAIN named = 1 .. Len(named)
      /\ \A i \in DOMAIN named : named[i] \in names
      /\ \A b \in names : \E i \in DOMAIN named : named[i] = b
  BY DEF ToSet
<1>2. heads \in Seq(S)
  BY <1>1
<1>3. \A x : x \in ToSet(heads) <=> \E b \in names : x = refs[b]
  <2>1. ToSet(heads) = {heads[i] : i \in DOMAIN heads} /\ DOMAIN heads = DOMAIN named
    BY DEF ToSet
  <2>2. QED
    BY <1>1, <2>1
<1> HIDE DEF heads
<1>4. ToSet(heads) = {refs[b] : b \in names}
  BY <1>3
<1>5. QED
  BY <1>2, <1>4 DEF heads, HeadsAt, RefsOf

LEMMA SetOfConcat ==
    ASSUME NEW S, NEW s \in Seq(S), NEW t \in Seq(S)
    PROVE  s \o t \in Seq(S) /\ ToSet(s \o t) = ToSet(s) \cup ToSet(t)
<1>1. /\ s \o t \in Seq(S) /\ Len(s) \in Nat /\ Len(t) \in Nat
      /\ DOMAIN s = 1 .. Len(s) /\ DOMAIN t = 1 .. Len(t)
      /\ DOMAIN (s \o t) = 1 .. (Len(s) + Len(t))
      /\ \A i \in 1 .. Len(s) : (s \o t)[i] = s[i]
      /\ \A i \in 1 .. Len(t) : (s \o t)[Len(s) + i] = t[i]
  OBVIOUS
<1>2. ASSUME NEW x \in ToSet(s \o t) PROVE x \in ToSet(s) \cup ToSet(t)
  <2>1. PICK i \in 1 .. (Len(s) + Len(t)) : x = (s \o t)[i]
    BY <1>1 DEF ToSet
  <2>2. CASE i \in 1 .. Len(s)
    BY <1>1, <2>1, <2>2 DEF ToSet
  <2>3. CASE i - Len(s) \in 1 .. Len(t)
    <3>1. (s \o t)[Len(s) + (i - Len(s))] = t[i - Len(s)] /\ Len(s) + (i - Len(s)) = i
      BY <1>1, <2>3
    <3>2. QED
      BY <1>1, <2>1, <2>3, <3>1 DEF ToSet
  <2>4. QED
    BY <1>1, <2>2, <2>3
<1>3. ASSUME NEW x \in ToSet(s) \cup ToSet(t) PROVE x \in ToSet(s \o t)
  <2>1. CASE x \in ToSet(s)
    <3>1. PICK i \in 1 .. Len(s) : x = s[i]
      BY <1>1, <2>1 DEF ToSet
    <3>2. i \in DOMAIN (s \o t) /\ (s \o t)[i] = x
      BY <1>1, <3>1
    <3>3. QED
      BY <3>2 DEF ToSet
  <2>2. CASE x \in ToSet(t)
    <3>1. PICK i \in 1 .. Len(t) : x = t[i]
      BY <1>1, <2>2 DEF ToSet
    <3>2. Len(s) + i \in DOMAIN (s \o t) /\ (s \o t)[Len(s) + i] = x
      BY <1>1, <3>1
    <3>3. QED
      BY <3>2 DEF ToSet
  <2>3. QED
    BY <2>1, <2>2
<1>4. QED
  BY <1>1, <1>2, <1>3

(* What a run may be about to build, within which limits.                  *)
Cut(c, index, invalid, scanLimit) ==
    \E bl \in BranchLimits, el \in EntryLimits, undecodable \in SUBSET (Foreign(c) \ invalid) :
        LET listing == Listing(run[c].names, undecodable, invalid, bl)
        IN  index = BoundedIndexOf(SourceHeads(c), DestHeads(c, listing), listing, scanLimit, el)

(* A name that is not text is none of the clone's and none configured, so  *)
(* a complete listing holds every name that gitprism could have given.     *)
LEMMA CutIsWhole ==
    ASSUME SyncInv, ImportInv, NEW c \in Clones, Indexing(c),
           NEW invalid \in SUBSET Foreign(c), NEW scanLimit \in ScanLimits,
           NEW index, Cut(c, index, invalid, scanLimit), ~index.tainted
    PROVE  index.records = FullIndex(c, invalid)
<1>1. PICK bl \in BranchLimits, el \in EntryLimits, undecodable \in SUBSET (Foreign(c) \ invalid) :
          index = BoundedIndexOf(SourceHeads(c), DestHeads(c, Listing(run[c].names, undecodable, invalid, bl)),
                                 Listing(run[c].names, undecodable, invalid, bl), scanLimit, el)
  BY DEF Cut
<1>2. PICK listing : listing = Listing(run[c].names, undecodable, invalid, bl)
  OBVIOUS
<1>3. /\ ObjectDatabase(odb) /\ ImportLog(odb)
      /\ scanLimit \in Nat /\ el \in Nat /\ bl \in Nat
      /\ CloneInv(odb, local[c], have[c], pc[c], run[c], job[c])
  BY LimitAssumption DEF SyncInv, ImportInv
<1>4. /\ run[c].names \in SUBSET Branches /\ run[c].sources \in SUBSET Branches
      /\ \A b \in run[c].sources : local[c][b] \in Oids
      /\ \A b \in run[c].names : run[c].heads[b] \in Oids
  <2>1. have[c] \subseteq Oids /\ pc[c] = "import"
    BY <1>3 DEF CloneInv, Closed, Oids, Indexing
  <2>2. QED
    BY <1>3, <2>1 DEF CloneInv, RunRefs
<1>5. Lists(run[c].names, undecodable, invalid, listing)
  BY <1>2, <1>3, <1>4, ListingIs
<1> DEFINE sourceHeads == SourceHeads(c)
           destHeads == DestHeads(c, listing)
<1>6. /\ sourceHeads \in Seq(Oids)
      /\ ToSet(sourceHeads) = RefsOf(run[c].sources, local[c])
  <2> DEFINE named == Named(run[c].sources)
  <2>1. named \in Seq(run[c].sources) /\ ToSet(named) = run[c].sources
    BY <1>4, NamedIs
  <2>2. sourceHeads = HeadsAt(named, local[c])
    BY DEF SourceHeads, HeadsAt
  <2> HIDE DEF named, sourceHeads
  <2>3. QED
    BY <1>4, <2>1, <2>2, HeadsOf
<1>7. /\ destHeads \in Seq(Oids)
      /\ ToSet(destHeads) = RefsOf(listing.names, run[c].heads)
  <2> DEFINE known == Named(listing.names \cap run[c].sources)
             others == Named(listing.names \ run[c].sources)
             named == known \o others
  <2>1. listing.names \subseteq run[c].names
    BY <1>5 DEF Lists
  <2>2. /\ known \in Seq(listing.names \cap run[c].sources)
        /\ ToSet(known) = listing.names \cap run[c].sources
    BY <1>4, <2>1, NamedIs
  <2>3. /\ others \in Seq(listing.names \ run[c].sources)
        /\ ToSet(others) = listing.names \ run[c].sources
    BY <1>4, <2>1, NamedIs
  <2>4. destHeads = HeadsAt(named, run[c].heads)
    BY DEF DestHeads, HeadsAt
  <2> HIDE DEF known, others
  <2>5. known \in Seq(listing.names) /\ others \in Seq(listing.names)
    BY <2>2, <2>3
  <2>6. named \in Seq(listing.names) /\ ToSet(named) = ToSet(known) \cup ToSet(others)
    BY <2>5, SetOfConcat
  <2>7. ToSet(named) = listing.names
    BY <2>2, <2>3, <2>6
  <2> HIDE DEF named, destHeads
  <2>8. \A b \in listing.names : run[c].heads[b] \in Oids
    BY <1>4, <2>1
  <2>9. QED
    BY <2>4, <2>6, <2>7, <2>8, HeadsOf
<1>8. index = BoundedIndexOf(sourceHeads, destHeads, listing, scanLimit, el)
  BY <1>1, <1>2
<1> HIDE DEF sourceHeads, destHeads
<1>9. IsComplete(listing) /\ index.records = Reconstruct(ToSet(sourceHeads), ToSet(destHeads))
  BY <1>3, <1>6, <1>7, <1>8, UntaintedIsWhole
<1>10. listing.names = run[c].names \ invalid
  BY <1>5, <1>9 DEF Lists, IsComplete
<1>11. FullIndex(c, invalid) = Reconstruct(RefsOf(run[c].sources, local[c]),
                                           RefsOf(run[c].names \ invalid, run[c].heads))
  BY DEF FullIndex, RefsOf
<1>12. QED
  BY <1>6, <1>7, <1>9, <1>10, <1>11

(***************************************************************************)
(* Looking up.  A tainted index answers "unknown" wherever it has a record *)
(* to answer from, and the walk for the nearest mapping never comes to an  *)
(* answer without one; an index that is not tainted is the whole one.      *)
(***************************************************************************)
LEMMA NearestHasEntry ==
    ASSUME ObjectDatabase(odb), NEW index, NEW tip \in Oids
    PROVE  LET n == NearestMapped(index.records, tip)
           IN  n # 0 => HasEntry(index, Line(tip)[n])
<1> DEFINE line == Line(tip)
           I == {i \in 1 .. Len(line) : \E r \in index.records : r.source = line[i]}
           n == NearestMapped(index.records, tip)
<1>1. n = IF I # {} THEN Min(I) ELSE 0
  BY DEF NearestMapped, SelectInSeq
<1>2. Len(line) \in Nat
  BY CommitFacts
<1> HIDE DEF n, line
<1>3. I \in SUBSET Nat
  BY <1>2
<1>4. I # {} => Min(I) \in I
  <2> HIDE DEF I
  <2>1. QED
    BY <1>3, LeastNatural
<1>5. n # 0 => \E r \in index.records : r.source = line[n]
  BY <1>1, <1>4
<1>6. QED
  BY <1>5 DEF n, line, HasEntry

LEMMA NearestIsExactOrUnknown ==
    ASSUME ObjectDatabase(odb), NEW index, NEW full, NEW tip \in Oids, NEW H, NEW excluded,
           NEW scanLimit \in Nat, index.tainted \/ index.records = full
    PROVE  LET exact == DestAnchor(H, full, tip, excluded)
           IN  BoundedNearest(H, index, tip, excluded, scanLimit)
                  \in {Unknown, [kind |-> exact.kind, dest |-> exact.dest]}
<1> DEFINE n == NearestMapped(index.records, tip)
           answer == BoundedNearest(H, index, tip, excluded, scanLimit)
           exact == DestAnchor(H, full, tip, excluded)
           lookup == ResolveForAnchor(H, full, Line(tip)[n], excluded)
<1>1. n # 0 => HasEntry(index, Line(tip)[n])
  BY NearestHasEntry
<1>2. \/ answer = Unknown
      \/ n # 0 /\ answer = BoundedResolve(H, index, Line(tip)[n], excluded)
      \/ n = 0 /\ ~index.tainted /\ answer = [kind |-> "None", dest |-> NoOid]
  BY DEF BoundedNearest
<1>3. CASE index.tainted
  <2>1. n # 0 => BoundedResolve(H, index, Line(tip)[n], excluded) = Unknown
    BY <1>1, <1>3 DEF BoundedResolve
  <2>2. QED
    BY <1>2, <1>3, <2>1
<1>4. CASE ~index.tainted /\ index.records = full
  <2>1. n # 0 => BoundedResolve(H, index, Line(tip)[n], excluded) = lookup
    BY <1>4 DEF BoundedResolve
  <2>2. lookup = [kind |-> lookup.kind, dest |-> lookup.dest]
    BY DEF ResolveForAnchor
  <2>3. n # 0 => exact.kind = lookup.kind /\ exact.dest = lookup.dest
    BY <1>4 DEF DestAnchor
  <2>4. n = 0 => exact.kind = "None" /\ exact.dest = NoOid
    BY <1>4 DEF DestAnchor
  <2>5. answer \in {Unknown, [kind |-> exact.kind, dest |-> exact.dest]}
    <3> HIDE DEF n, answer, exact, lookup
    <3>1. QED
      BY <1>2, <2>1, <2>2, <2>3, <2>4
  <2>6. QED
    BY <2>5
<1>5. QED
  BY <1>3, <1>4

LEMMA SharedIsExactOrUnknown ==
    ASSUME NEW index, NEW full, NEW source, NEW base, NEW H,
           index.tainted \/ index.records = full
    PROVE  \/ BoundedSharedMapping(H, index, source, base)
                 \in {Unknown, SharedMapping(H, full, source, base)}
           \/ index.tainted /\ ~HasEntry(index, source)
<1>1. CASE index.tainted /\ HasEntry(index, source)
  BY <1>1 DEF BoundedSharedMapping, BoundedResolve, Unknown
<1>2. CASE ~index.tainted /\ index.records = full
  BY <1>2 DEF BoundedSharedMapping, BoundedResolve, SharedMapping
<1>3. QED
  BY <1>1, <1>2

LEMMA ForEveryCutSuffices ==
    ASSUME SyncInv, ImportInv
    PROVE  AnchorIsExactOrRefused /\ SharedIsExactOrUnobserved
<1>1. ASSUME NEW c \in Clones, Indexing(c), NEW sl \in ScanLimits,
             NEW invalid \in SUBSET Foreign(c), NEW index, Cut(c, index, invalid, sl)
      PROVE  /\ index.tainted \/ index.records = FullIndex(c, invalid)
             /\ sl \in Nat /\ \A b \in run[c].sources : local[c][b] \in Oids
  <2>1. ~index.tainted => index.records = FullIndex(c, invalid)
    BY <1>1, CutIsWhole
  <2>2. CloneInv(odb, local[c], have[c], pc[c], run[c], job[c])
    BY <1>1 DEF SyncInv
  <2>3. \A b \in run[c].sources : local[c][b] \in Oids
    BY <2>2 DEF CloneInv, Closed, RunRefs, Oids
  <2>4. QED
    BY <2>1, <2>3, LimitAssumption
<1>2. AnchorIsExactOrRefused
  <2> SUFFICES ASSUME NEW c \in Clones, Indexing(c),
                      NEW bl \in BranchLimits, NEW sl \in ScanLimits, NEW el \in EntryLimits,
                      NEW invalid \in SUBSET Foreign(c),
                      NEW undecodable \in SUBSET (Foreign(c) \ invalid),
                      NEW b \in run[c].sources, NEW excluded \in {b, AnyBranch}
               PROVE  LET listing == Listing(run[c].names, undecodable, invalid, bl)
                          index == BoundedIndexOf(SourceHeads(c), DestHeads(c, listing),
                                                  listing, sl, el)
                          exact == DestAnchor(have[c], FullIndex(c, invalid), local[c][b], excluded)
                      IN  BoundedNearest(have[c], index, local[c][b], excluded, sl)
                             \in {Unknown, [kind |-> exact.kind, dest |-> exact.dest]}
    BY DEF AnchorIsExactOrRefused, ForEveryCut
  <2> DEFINE listing == Listing(run[c].names, undecodable, invalid, bl)
  <2>1. PICK index :
           index = BoundedIndexOf(SourceHeads(c), DestHeads(c, listing), listing, sl, el)
    OBVIOUS
  <2>2. Cut(c, index, invalid, sl)
    BY <2>1 DEF Cut
  <2>3. /\ index.tainted \/ index.records = FullIndex(c, invalid)
        /\ sl \in Nat /\ local[c][b] \in Oids /\ ObjectDatabase(odb)
    BY <1>1, <2>2 DEF SyncInv
  <2>4. LET exact == DestAnchor(have[c], FullIndex(c, invalid), local[c][b], excluded)
        IN  BoundedNearest(have[c], index, local[c][b], excluded, sl)
               \in {Unknown, [kind |-> exact.kind, dest |-> exact.dest]}
    BY <2>3, NearestIsExactOrUnknown
  <2>5. QED
    BY <2>1, <2>4
<1>3. SharedIsExactOrUnobserved
  <2> SUFFICES ASSUME NEW c \in Clones, Indexing(c),
                      NEW bl \in BranchLimits, NEW sl \in ScanLimits, NEW el \in EntryLimits,
                      NEW invalid \in SUBSET Foreign(c),
                      NEW undecodable \in SUBSET (Foreign(c) \ invalid),
                      NEW b \in run[c].sources \cap run[c].names,
                      NEW source \in ToSet(Line(local[c][b]))
               PROVE  LET listing == Listing(run[c].names, undecodable, invalid, bl)
                          index == BoundedIndexOf(SourceHeads(c), DestHeads(c, listing),
                                                  listing, sl, el)
                          exact == SharedMapping(have[c], FullIndex(c, invalid), source,
                                                 run[c].heads[b])
                      IN  \/ BoundedSharedMapping(have[c], index, source, run[c].heads[b])
                                \in {Unknown, exact}
                          \/ index.tainted /\ ~HasEntry(index, source)
    BY DEF SharedIsExactOrUnobserved, ForEveryCut
  <2> DEFINE listing == Listing(run[c].names, undecodable, invalid, bl)
  <2>1. PICK index :
           index = BoundedIndexOf(SourceHeads(c), DestHeads(c, listing), listing, sl, el)
    OBVIOUS
  <2>2. Cut(c, index, invalid, sl)
    BY <2>1 DEF Cut
  <2>3. index.tainted \/ index.records = FullIndex(c, invalid)
    BY <1>1, <2>2
  <2>4. \/ BoundedSharedMapping(have[c], index, source, run[c].heads[b])
              \in {Unknown, SharedMapping(have[c], FullIndex(c, invalid), source,
                                          run[c].heads[b])}
        \/ index.tainted /\ ~HasEntry(index, source)
    BY <2>3, SharedIsExactOrUnknown
  <2>5. QED
    BY <2>1, <2>4
<1>4. QED
  BY <1>2, <1>3

(* Whatever the limits cut off, the anchor that a run builds a new or a    *)
(* rebuilt branch on is the one the whole history gives, or the branch is  *)
(* refused (anchor.rs, decisions/0046).                                    *)
THEOREM AnchorIsExactOrRefusedHolds == Spec => []AnchorIsExactOrRefused
<1>1. SyncInv /\ ImportInv => AnchorIsExactOrRefused
  BY ForEveryCutSuffices
<1>2. QED
  BY <1>1, ImportInvariant, PTL

(* Whether a pending commit is projected already is answered as the whole  *)
(* history would, or not at all, or "none" of a commit that a cut index    *)
(* has no record of (mapping_index.rs, decisions/0052).                    *)
THEOREM SharedIsExactOrUnobservedHolds == Spec => []SharedIsExactOrUnobserved
<1>1. SyncInv /\ ImportInv => SharedIsExactOrUnobserved
  BY ForEveryCutSuffices
<1>2. QED
  BY <1>1, ImportInvariant, PTL

(* A branch is never taken to be absent from dest on the word of a listing *)
(* that was cut off (git.rs's capped listing).                             *)
THEOREM AbsenceIsRealHolds == Spec => []AbsenceIsReal
<1>1. SyncInv => AbsenceIsReal
  BY AbsenceFollows
<1>2. QED
  BY <1>1, ImportInvariant, PTL
=============================================================================
