---------------------------- MODULE BoundedIndex ----------------------------
(***************************************************************************)
(* What the limits of limits.rs do to the mapping index.  MappingIndex     *)
(* says what the index holds when nothing is cut off; here the listing of  *)
(* dest's branches stops at a branch limit and leaves out names that are   *)
(* not text, each scan of a head stops at a scan limit, and the records    *)
(* together stop at an entry limit (git.rs, mapping_index.rs, anchor.rs).  *)
(* A cut keeps what was found and taints the index.  Everything here is    *)
(* computed from the state in which a run of Sync builds its index.        *)
(***************************************************************************)
EXTENDS SyncProperties

CONSTANTS
    BranchLimits,   \* choices of MAX_SOURCE_BRANCHES
    ScanLimits,     \* choices of MAX_MARKER_SCAN_COMMITS
    EntryLimits     \* choices of MAX_MAPPING_ENTRIES

ASSUME LimitAssumption ==
    /\ BranchLimits \subseteq Nat
    /\ ScanLimits \subseteq Nat
    /\ EntryLimits \subseteq Nat

(***************************************************************************)
(* Listing dest's branches.                                                *)
(***************************************************************************)

(* The names of bs in the order in which they sort. *)
Named(bs) == FoldLeft(LAMBDA s, b : IF b \in bs THEN Append(s, b) ELSE s, <<>>, NameOrder)

(* Mutant of Listing: a name that is not text is passed over in silence. *)
ListingOfText(names, undecodable, invalid, limit) ==
    LET valid == Named(names \ (undecodable \cup invalid))
    IN  [names       |-> {valid[i] : i \in DOMAIN valid \cap 1 .. limit},
         branchLimit |-> Len(valid) > limit,
         undecodable |-> FALSE]

(* Dest advertises its refs in name order.  A name that is not text is     *)
(* passed over and noted; one that is text but no valid branch name is     *)
(* passed over; reading stops at the first valid name beyond the limit.    *)
Listing(names, undecodable, invalid, limit) ==
    LET valid == Named(names \ (undecodable \cup invalid))
        read == IF Len(valid) > limit THEN Rank(valid[limit + 1]) ELSE Len(NameOrder)
    IN  [names       |-> {valid[i] : i \in DOMAIN valid \cap 1 .. limit},
         branchLimit |-> Len(valid) > limit,
         undecodable |-> \E b \in names \cap undecodable : Rank(b) <= read]

IsComplete(listing) == ~listing.branchLimit /\ ~listing.undecodable

(* Mutant of CanEstablishAbsence: a listing cut off at the limit counts. *)
CanEstablishAbsenceAlways(listing) == TRUE

CanEstablishAbsence(listing) == ~listing.branchLimit

(* What the ref-existence cache starts with; "ask" is a query of dest. *)
SeededExistence(listing, sources) ==
    [b \in Branches |->
        IF b \in listing.names THEN "yes"
        ELSE IF b \in sources /\ CanEstablishAbsence(listing) THEN "no" ELSE "ask"]

(***************************************************************************)
(* Scanning one head after another.  Each side remembers what its earlier  *)
(* scans visited; the records and the taint are common to both sides.      *)
(***************************************************************************)
EmptyIndex == [records |-> {}, tainted |-> FALSE, visited |-> {}]

SourceRecords == [o \in Oids |-> IF LoopPrevented(o) THEN {SourceCommitMapping(o)} ELSE {}]
DestRecords ==
    [o \in Oids |-> IF VerifySelf(o, {"SourceToDest"}) THEN {DestCommitMapping(o)} ELSE {}]

(* Mutant of ScanHistory: the entry limit drops records and goes on. *)
ScanHistoryDropping(index, head, recordsOf, scanLimit, entryLimit) ==
    LET line == Line(head)
        met == SelectInSeq(line, LAMBDA o : o \in index.visited)
        fresh == IF met = 0 THEN Len(line) ELSE met - 1
        walk == IF fresh > scanLimit THEN scanLimit ELSE fresh
        Found(k) == index.records \cup UNION {recordsOf[line[i]] : i \in 1 .. k}
        kept == CHOOSE k \in 0 .. walk :
                    /\ Cardinality(Found(k)) <= entryLimit \/ k = 0
                    /\ k < walk => Cardinality(Found(k + 1)) > entryLimit
    IN  [records |-> Found(kept),
         tainted |-> index.tainted \/ walk < fresh,
         visited |-> index.visited \cup {line[i] : i \in 1 .. walk}]

(* A scan ends at the first commit an earlier one visited; the scan limit  *)
(* or a record there is no room for ends it too, and taints the index.     *)
ScanHistory(index, head, recordsOf, scanLimit, entryLimit) ==
    LET line == Line(head)
        met == SelectInSeq(line, LAMBDA o : o \in index.visited)
        fresh == IF met = 0 THEN Len(line) ELSE met - 1
        walk == IF fresh > scanLimit THEN scanLimit ELSE fresh
        Found(k) == index.records \cup UNION {recordsOf[line[i]] : i \in 1 .. k}
        kept == CHOOSE k \in 0 .. walk :
                    /\ Cardinality(Found(k)) <= entryLimit \/ k = 0
                    /\ k < walk => Cardinality(Found(k + 1)) > entryLimit
        read == IF kept < walk THEN kept + 1 ELSE walk
    IN  [records |-> Found(kept),
         tainted |-> index.tainted \/ kept < walk \/ walk < fresh,
         visited |-> index.visited \cup {line[i] : i \in 1 .. read}]

ScanSide(index, heads, recordsOf, scanLimit, entryLimit) ==
    FoldLeft(LAMBDA ix, head : ScanHistory(ix, head, recordsOf, scanLimit, entryLimit),
             [index EXCEPT !.visited = {}], heads)

BoundedIndexOf(sourceHeads, destHeads, listing, scanLimit, entryLimit) ==
    LET scanned == ScanSide(
            ScanSide(EmptyIndex, sourceHeads, SourceRecords, scanLimit, entryLimit),
            destHeads, DestRecords, scanLimit, entryLimit)
    IN  [scanned EXCEPT !.tainted = @ \/ ~IsComplete(listing)]

(***************************************************************************)
(* Looking up in an index that may be cut off.                             *)
(***************************************************************************)
Unknown == [kind |-> "Contradictory", dest |-> NoOid]

HasEntry(index, source) == \E r \in index.records : r.source = source

(* A source commit without a record has no mapping; for one that has, a    *)
(* tainted index may lack the record that contradicts it.                  *)
BoundedResolve(H, index, source, excluded) ==
    IF HasEntry(index, source) /\ index.tainted THEN Unknown
    ELSE ResolveForAnchor(H, index.records, source, excluded)

(* The mapping nearest to tip.  The walk is bounded as a scan is, and      *)
(* coming to its end proves nothing of a tainted index.                    *)
BoundedNearest(H, index, tip, excluded, scanLimit) ==
    LET n == NearestMapped(index.records, tip)
        steps == IF n = 0 THEN Len(Line(tip)) ELSE n - 1
    IN  IF steps > scanLimit \/ (n # 0 /\ steps = scanLimit) THEN Unknown
        ELSE IF n # 0 THEN BoundedResolve(H, index, Line(tip)[n], excluded)
        ELSE IF index.tainted THEN Unknown
        ELSE [kind |-> "None", dest |-> NoOid]

BoundedSharedMapping(H, index, source, base) ==
    LET lookup == BoundedResolve(H, index, source, AnyBranch)
    IN  IF lookup.kind # "Resolved" THEN lookup
        ELSE IF IsAncestor(lookup.dest, base) THEN [kind |-> "Contained", dest |-> lookup.dest]
        ELSE [kind |-> "NotContained", dest |-> lookup.dest]

(***************************************************************************)
(* A run of clone c that is about to build its index, on every choice of   *)
(* limits and of names on dest that are no branch names for gitprism (none *)
(* of them a branch the clone has or the configuration names).             *)
(***************************************************************************)
Indexing(c) == pc[c] = "import" /\ run[c].imports = <<>>

SourceHeads(c) ==
    LET named == Named(run[c].sources) IN [i \in DOMAIN named |-> local[c][named[i]]]

(* Source's branches first, then what else the listing names.  A branch    *)
(* that exists beyond the listing was not fetched and is not scanned.      *)
DestHeads(c, listing) ==
    LET named == Named(listing.names \cap run[c].sources)
                 \o Named(listing.names \ run[c].sources)
    IN  [i \in DOMAIN named |-> run[c].heads[named[i]]]

Foreign(c) == run[c].names \ (run[c].sources \cup ToSet(Configured))

(* The index a run would have without limits, from every ref on dest whose *)
(* name gitprism could have given it.                                      *)
FullIndex(c, invalid) ==
    Reconstruct({local[c][b] : b \in run[c].sources},
                {run[c].heads[b] : b \in run[c].names \ invalid})

(* P of every bounded index that c may be about to build. *)
ForEveryCut(c, P(_, _, _)) ==
    \A bl \in BranchLimits, sl \in ScanLimits, el \in EntryLimits :
      \A invalid \in SUBSET Foreign(c) : \A undecodable \in SUBSET (Foreign(c) \ invalid) :
        LET listing == Listing(run[c].names, undecodable, invalid, bl)
        IN  P(BoundedIndexOf(SourceHeads(c), DestHeads(c, listing), listing, sl, el),
              FullIndex(c, invalid), sl)

(* The anchor of a new or a rebuilt branch is the one the whole history    *)
(* gives, or the branch is refused: no cut of a listing, a scan, the       *)
(* records or the walk makes gitprism build on an older commit or on one   *)
(* of several contradicting projections (decisions/0046).                  *)
AnchorIsExactOrRefused ==
    \A c \in Clones : Indexing(c) =>
        ForEveryCut(c, LAMBDA index, full, sl :
            \A b \in run[c].sources : \A excluded \in {b, AnyBranch} :
                LET exact == DestAnchor(have[c], full, local[c][b], excluded)
                IN  BoundedNearest(have[c], index, local[c][b], excluded, sl)
                        \in {Unknown, [kind |-> exact.kind, dest |-> exact.dest]})

(* Whether a pending commit is already projected is answered as the whole  *)
(* history would, or not at all; only of a commit it has no record of can  *)
(* a cut index say "none" wrongly, the residual that decisions/0052 names. *)
SharedIsExactOrUnobserved ==
    \A c \in Clones : Indexing(c) =>
        ForEveryCut(c, LAMBDA index, full, sl :
            \A b \in run[c].sources \cap run[c].names :
                \A source \in ToSet(Line(local[c][b])) :
                    LET exact == SharedMapping(have[c], full, source, run[c].heads[b])
                    IN  \/ BoundedSharedMapping(have[c], index, source, run[c].heads[b])
                              \in {Unknown, exact}
                        \/ index.tainted /\ ~HasEntry(index, source))

(* A branch is taken to be absent from dest without asking dest only if it *)
(* was absent when the run listed dest, wherever the listing was cut off.  *)
AbsenceIsReal ==
    \A c \in Clones : Indexing(c) =>
        \A bl \in BranchLimits, invalid \in SUBSET Foreign(c) :
          \A undecodable \in SUBSET (Foreign(c) \ invalid) :
            LET listing == Listing(run[c].names, undecodable, invalid, bl)
            IN  \A b \in run[c].sources :
                    SeededExistence(listing, run[c].sources)[b] = "no" => b \notin run[c].names
=============================================================================
