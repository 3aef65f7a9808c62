------------------------------- MODULE Reuse -------------------------------
(***************************************************************************)
(* Reusing another branch's projection of shared source commits instead of *)
(* publishing a second copy (reuse.rs, decisions/0052): find the newest    *)
(* pending commit some other line already projects, and prove that dest's  *)
(* tip plus that projection is what replaying would have produced.         *)
(***************************************************************************)
EXTENDS MappingIndex

(* How the index's answer for one pending commit relates to dest's tip. *)
SharedMapping(H, index, source, base) ==
    LET lookup == ResolveForAnchor(H, index, source, AnyBranch)
    IN  IF lookup.kind # "Resolved" THEN lookup
        ELSE IF IsAncestor(lookup.dest, base) THEN [kind |-> "Contained", dest |-> lookup.dest]
        ELSE [kind |-> "NotContained", dest |-> lookup.dest]

(* Whether a commit only accounts: a projection of branch that repeats the *)
(* tree of its parent, or a bridge that repeats the tree it adopts.        *)
Adopted(o) == IF Len(odb[o].parents) = 2 THEN odb[o].parents[2] ELSE FirstParent(o)
OnlyAccounts(o, branch) ==
    /\ Len(odb[o].parents) \in {1, 2}
    /\ Verify(o, branch, {"SourceToDest"})
    /\ TreeOf(Adopted(o)) = odb[o].tree

(* The commits dest's tip is no more than accounting on top of: the run of *)
(* accounting commits at the top of its line, the commit below that run,   *)
(* and every projection a bridge in the run adopted.                       *)
AccountingSet(destTip, branch) ==
    LET line == Line(destTip)
        run == {k \in DOMAIN line : \A i \in 1 .. k - 1 : OnlyAccounts(line[i], branch)}
    IN  {line[k] : k \in run}
        \cup {odb[line[k]].parents[2] : k \in
                {i \in run : /\ OnlyAccounts(line[i], branch)
                             /\ Len(odb[line[i]].parents) = 2}}

(***************************************************************************)
(* The proof.  pending[k] is the shared commit.  The projection's line     *)
(* down to the accounting set is the suffix dest would adopt; read oldest  *)
(* first it must be projections of pending commits in first-parent order,  *)
(* or dest commits that pending commits import, in that order too.         *)
(***************************************************************************)
Position(pending, k, boundary, source) ==
    IF source = boundary THEN 0
    ELSE SelectInSeq(SubSeq(pending, 1, k), LAMBDA o : o = source)

ImportPosition(pending, k, dest) ==
    LET imports == {i \in 1 .. k : /\ VerifySelf(pending[i], {"DestToSource"})
                                   /\ Counterpart(pending[i]) = dest}
    IN  IF imports = {} THEN 0 ELSE CHOOSE i \in imports : \A j \in imports : j <= i

(* Where a suffix commit stands in the pending order; -1 if nowhere. *)
SuffixPosition(pending, k, boundary, o) ==
    IF VerifySelf(o, {"SourceToDest"})
    THEN LET i == Position(pending, k, boundary, Counterpart(o))
         IN  IF i = 0 /\ Counterpart(o) # boundary THEN -1 ELSE i
    ELSE LET i == ImportPosition(pending, k, o)
         IN  IF i = 0 THEN -1 ELSE i

(* Mutant of SuffixInOrder: whatever the suffix holds is taken over. *)
SuffixUnproven(pending, k, boundary, suffix) == TRUE

SuffixInOrder(pending, k, boundary, suffix) ==
    LET pos == [j \in DOMAIN suffix |-> SuffixPosition(pending, k, boundary, suffix[j])]
        before == [j \in DOMAIN suffix |-> IF j = 1 THEN 0 ELSE pos[j - 1]]
    IN  \A j \in DOMAIN suffix :
            /\ Len(odb[suffix[j]].parents) = 1
            /\ pos[j] # -1
            /\ IF VerifySelf(suffix[j], {"SourceToDest"}) /\ SourceToDestAlias(suffix[j])
               THEN pos[j] >= before[j] ELSE pos[j] > before[j]

(* Mutant of NewestShared: other branches' projections are ignored. *)
NewestSharedNever(H, index, pending, base) == [at |-> 0, kind |-> "None", dest |-> NoOid]

(* The newest pending commit whose projection dest's tip lacks, or whose   *)
(* mappings contradict; at 0 if there is none.                             *)
NewestShared(H, index, pending, base) ==
    LET mapped(i) == SharedMapping(H, index, pending[i], base)
        decisive == {i \in DOMAIN pending :
                        /\ ~LoopPrevented(pending[i])
                        /\ mapped(i).kind \in {"Contradictory", "NotContained"}}
        k == CHOOSE i \in decisive : \A j \in decisive : j <= i
    IN  IF decisive = {} THEN [at |-> 0, kind |-> "None", dest |-> NoOid]
        ELSE [at |-> k, kind |-> mapped(k).kind, dest |-> mapped(k).dest]

(* The plan: replay, halt the branch, or build on the projection of the    *)
(* shared commit, as it is ("FastForward") or under a bridge from dest's   *)
(* tip ("Bridge").                                                         *)
PlanProjectionReuse(newest, pending, boundary, destTip, branch) ==
    LET Plan(kind, shared, projection) ==
            [kind |-> kind, shared |-> shared, projection |-> projection]
        line == Line(newest.dest)
        accounting == AccountingSet(destTip, branch)
        b == SelectInSeq(line, LAMBDA o : o \in accounting)
        suffix == [j \in 1 .. b - 1 |-> line[b - j]]
    IN  IF newest.at = 0 THEN Plan("Replay", NoOid, NoOid)
        ELSE IF \/ newest.kind = "Contradictory"
                \/ FirstParent(pending[1]) # boundary
                \/ b = 0
                \/ TreeOf(line[b]) # TreeOf(destTip)
                \/ ~SuffixInOrder(pending, newest.at, boundary, suffix)
             THEN Plan("Halt", NoOid, NoOid)
        ELSE Plan(IF line[b] = destTip THEN "FastForward" ELSE "Bridge",
                  pending[newest.at], newest.dest)
=============================================================================
