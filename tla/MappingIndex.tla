---------------------------- MODULE MappingIndex ----------------------------
(***************************************************************************)
(* The per-run index of exact source-to-dest mappings (mapping_index.rs):  *)
(* a set of records, each authenticated by one marker.  The index of a run *)
(* is passed as a parameter; the scan and entry limits are not reached by  *)
(* the histories modelled, so the index is never truncated.                *)
(***************************************************************************)
EXTENDS MarkerScan

AnyBranch == "any"   \* no branch's provenance is set aside

(* One record: source is mapped to canonical, on the word of marker, whose *)
(* branch is branch.                                                       *)
Mapping(source, branch, marker, canonical) ==
    [source |-> source, branch |-> branch, marker |-> marker, canonical |-> canonical]

SourceCommitMapping(o) == Mapping(o, odb[o].marker.branch, o, Counterpart(o))

DestCommitMapping(o) ==
    Mapping(Counterpart(o), odb[o].marker.branch, o,
            IF SourceToDestAlias(o) THEN odb[o].parents[1] ELSE o)

(* The records read from the first-parent lines of the given heads. *)
Reconstruct(sourceHeads, destHeads) ==
    LET Lines(heads) == UNION {ToSet(Line(h)) : h \in heads}
    IN  {SourceCommitMapping(o) : o \in {x \in Lines(sourceHeads) : LoopPrevented(x)}}
        \cup
        {DestCommitMapping(o) :
            o \in {x \in Lines(destHeads) : VerifySelf(x, {"SourceToDest"})}}

(* One source commit's dest commit.  Records of excluded count only when   *)
(* no other branch vouches for the commit.  Several destinations resolve   *)
(* to the one all others descend from; a destination the clone does not    *)
(* have, or none below all others, is contradictory.                       *)
ResolveForAnchor(H, index, source, excluded) ==
    LET records == {r \in index : r.source = source}
        others == {r \in records : r.branch # excluded}
        dests == {r.canonical : r \in IF others = {} THEN records ELSE others}
        common == {d \in dests : \A other \in dests : IsAncestor(d, other)}
    IN  IF records = {} THEN [kind |-> "None", dest |-> NoOid]
        ELSE IF ~(dests \subseteq H) \/ common = {}
             THEN [kind |-> "Contradictory", dest |-> NoOid]
        ELSE [kind |-> "Resolved", dest |-> CHOOSE d \in common : TRUE]

(* The index of the nearest mapped commit on tip's line; 0 if none is. *)
NearestMapped(index, tip) ==
    SelectInSeq(Line(tip), LAMBDA o : \E r \in index : r.source = o)

(* The anchor of a branch: the nearest mapped source commit on its line    *)
(* and the dest commit it stands for.                                      *)
DestAnchor(H, index, tip, branch) ==
    LET n == NearestMapped(index, tip)
        source == Line(tip)[n]
        lookup == ResolveForAnchor(H, index, source, branch)
    IN  IF n = 0 THEN [kind |-> "None", source |-> NoOid, dest |-> NoOid]
        ELSE [kind |-> lookup.kind, source |-> source, dest |-> lookup.dest]

(* After a forced push of branch to a commit whose ancestry is survivors:  *)
(* what branch's own markers said of dest commits that did not survive.    *)
ReplacedChain(index, branch, survivors) ==
    LET stale == {r \in index : r.branch = branch /\ r.canonical \notin survivors}
    IN  {r \in index : \E s \in stale :
            s.source = r.source /\ s.marker = r.marker /\ s.branch = r.branch}

(* A record for a dest commit this run built from source. *)
BuiltMapping(branch, source, dest) == Mapping(source, branch, dest, dest)
=============================================================================
