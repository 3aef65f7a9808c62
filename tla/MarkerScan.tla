----------------------------- MODULE MarkerScan -----------------------------
(***************************************************************************)
(* What gitprism reads back from history instead of keeping a state file:  *)
(* the newest marker of each kind, the dest->source boundary, and whether  *)
(* a dest tip is a safe point to build on (marker_scan.rs, anchor.rs).     *)
(* H is the set of commits present in the clone that asks.                 *)
(***************************************************************************)
EXTENDS GitObjects

(* Mutant of NewestDestMarker: imports are not markers of progress. *)
NewestDestMarkerGraftOnly(sourceTip, branch) ==
    Newest(sourceTip, LAMBDA o : Verify(o, branch, {"Setup"}))

(* The newest source commit of branch that a graft or import produced;     *)
(* NoOid where the code stops the run with "no Gitprism-Dest-Commit".      *)
NewestDestMarker(sourceTip, branch) ==
    Newest(sourceTip, LAMBDA o : Verify(o, branch, {"Setup", "DestToSource"}))

(* The source commit the newest projection of branch names. *)
NewestSourceMarker(destTip, branch) ==
    LET m == Newest(destTip, LAMBDA o : Verify(o, branch, {"SourceToDest"}))
    IN  IF m = NoOid THEN NoOid ELSE Counterpart(m)

(* The newest projection of any branch. *)
NewestMirrorMarker(destTip) ==
    Newest(destTip, LAMBDA o : VerifySelf(o, {"SourceToDest"}))

GraftPoint(sourceTip, destTip) == MergeBase(sourceTip, destTip)

DestToSourceMarkerTargets(sourceTip) ==
    {Counterpart(o) : o \in
        {x \in Anc(sourceTip) : OnLine(x, sourceTip) /\ VerifySelf(x, {"DestToSource"})}}

(* A dest commit whose content source already has: a projection of a       *)
(* commit source still has, or the counterpart of an import.               *)
Represented(H, o, sourceTip) ==
    \/ /\ VerifySelf(o, {"SourceToDest"})
       /\ Counterpart(o) \in H
       /\ IsAncestor(Counterpart(o), sourceTip)
    \/ o \in DestToSourceMarkerTargets(sourceTip)

(* The end of the longest represented run of dest commits right after B1,  *)
(* the dest commit source last accounted for.  NoOid where the code stops  *)
(* the run: no marker at all, or B1 is not on dest's first-parent line.    *)
DestToSourceBoundary(H, sourceTip, destTip, branch) ==
    LET m == NewestDestMarker(sourceTip, branch)
        line == Line(destTip)
        b1 == SelectInSeq(line, LAMBDA o : o = Counterpart(m))
    IN  IF m = NoOid \/ b1 = 0 THEN NoOid
        ELSE line[CHOOSE k \in 1 .. b1 :
                    /\ \A i \in k .. b1 - 1 : Represented(H, line[i], sourceTip)
                    /\ k > 1 => ~Represented(H, line[k - 1], sourceTip)]

(***************************************************************************)
(* The resume point (source->dest).                                        *)
(***************************************************************************)

(* Why dest's tip is accounted for.  "NoMarker" is the error of the scan   *)
(* for source's newest dest marker, which stops the whole run.             *)
DestTipAccountedFor(sourceTip, destTip, branch) ==
    LET m == NewestDestMarker(sourceTip, branch)
    IN  IF Verify(destTip, branch, {"SourceToDest"}) THEN "ViaPriorSync"
        ELSE IF GraftPoint(sourceTip, destTip) = destTip THEN "AtGraftOnly"
        ELSE IF m = NoOid THEN "NoMarker"
        ELSE IF Counterpart(m) = destTip THEN "ViaPriorSync"
        ELSE "No"

(* Everything dest's line holds above B1 is already in source. *)
DestTipRepresentedInSource(H, sourceTip, destTip, branch) ==
    LET b1 == Counterpart(NewestDestMarker(sourceTip, branch))
    IN  /\ b1 \in H
        /\ StrictlyDescends(destTip, b1)
        /\ OnLine(b1, destTip)
        /\ DestToSourceBoundary(H, sourceTip, destTip, branch) = destTip

NewestMirrorMarkerBelongsToBranch(destTip, branch) ==
    LET m == NewestMirrorMarker(destTip)
    IN  m # NoOid => odb[m].marker.branch = branch

Refusal(destTip, branch) ==
    IF NewestMirrorMarkerBelongsToBranch(destTip, branch)
    THEN "Unsafe" ELSE "ForeignNewestMirrorMarker"

(* Where the replay of branch resumes: kind "Ok" with the source commit    *)
(* dest is caught up with, a refusal, or "NoMarker" (the run stops).       *)
DestResumePoint(H, sourceTip, destTip, branch) ==
    LET accounted == DestTipAccountedFor(sourceTip, destTip, branch)
        newest == NewestSourceMarker(destTip, branch)
        graft == GraftPoint(sourceTip, destTip)
        Answer(kind, at) == [kind |-> kind, at |-> at]
        refused == Answer(Refusal(destTip, branch), NoOid)
    IN  IF accounted = "NoMarker" THEN Answer("NoMarker", NoOid)
        ELSE IF /\ accounted = "No"
                /\ ~DestTipRepresentedInSource(H, sourceTip, destTip, branch)
             THEN refused
        ELSE IF ~NewestMirrorMarkerBelongsToBranch(destTip, branch) THEN refused
        ELSE IF newest = NoOid
             THEN Answer(IF graft = NoOid THEN "NoMarker" ELSE "Ok", graft)
        ELSE IF newest \in H /\ IsAncestor(newest, sourceTip) THEN Answer("Ok", newest)
        ELSE refused

(* Source history moved sideways under a projection dest already carries. *)
MirrorOnlyRewriteDetected(H, sourceTip, destTip, branch) ==
    LET boundary == NewestSourceMarker(destTip, branch)
    IN  /\ DestTipAccountedFor(sourceTip, destTip, branch) = "ViaPriorSync"
        /\ boundary # NoOid
        /\ boundary \in H
        /\ ~IsAncestor(boundary, sourceTip)
=============================================================================
