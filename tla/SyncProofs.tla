----------------------------- MODULE SyncProofs -----------------------------
(***************************************************************************)
(* Theorems about Sync, for every set of clones, branches, paths, values   *)
(* and edits and every bound.                                              *)
(***************************************************************************)
EXTENDS SyncInvariants, FiniteSetTheorems

(***************************************************************************)
(* A configured branch is never pushed by force.                           *)
(***************************************************************************)

(* What a job keeps of its push mode: a forced push is only ever planned   *)
(* for a branch that is not round-tripped.                                 *)
JobInv(j) ==
    /\ {"mode", "branch"} \subseteq DOMAIN j
    /\ j.mode \in PushModes
    /\ j.mode = "ForceMirrorOnly" => ~RoundTripped(j.branch)

ForceInv ==
    /\ DOMAIN pc = Clones /\ DOMAIN job = Clones
    /\ \A c \in Clones : JobInv(job[c])

LEMMA NoJobForce == JobInv(NoJob)
BY DEF JobInv, NoJob, PushModes

(* A job that is only given other fields keeps its mode and its branch. *)
LEMMA ResumeMode ==
    ASSUME NEW c \in Clones, JobInv(job[c]), Resume(c).do = "build"
    PROVE  /\ Resume(c).mode \in PushModes
           /\ Resume(c).mode = "ForceMirrorOnly" => ~RoundTripped(job[c].branch)
BY DEF Resume, Verdict, Halt, Skip, Stop, JobInv, PushModes, MirrorOnly

LEMMA InitForce == Init => ForceInv
BY NoJobForce DEF Init, ForceInv

LEMMA PlanForce ==
    ASSUME ForceInv, NEW c \in Clones, PlanBranch(c)
    PROVE  ForceInv'
<1>1. PICK v, pending, newest, plan :
         /\ v = Resume(c) /\ plan = Plan(c, v, pending, newest)
         /\ \/ plan.do = "abort" /\ Abort(c, "resume")
            \/ plan.do = "halt" /\ NextBranch(c, {job[c].branch})
            \/ plan.do = "skip" /\ NextBranch(c, {})
            \/ plan.do = "build" /\ PlanBuild(c, v, plan.reuse)
  BY DEF PlanBranch
<1>2. CASE plan.do = "abort" /\ Abort(c, "resume")
  BY <1>2, NoJobForce DEF ForceInv, Abort
<1>3. CASE plan.do \in {"halt", "skip"} /\ \E halts : NextBranch(c, halts)
  BY <1>3, NoJobForce DEF ForceInv, NextBranch
<1>4. CASE plan.do = "build" /\ PlanBuild(c, v, plan.reuse)
  <2>1. v.do = "build"
    BY <1>1, <1>4 DEF Plan
  <2>2. /\ v.mode \in PushModes
        /\ v.mode = "ForceMirrorOnly" => ~RoundTripped(job[c].branch)
    BY <2>1, <1>1, ResumeMode DEF ForceInv
  <2>3. /\ job'[c].mode = v.mode /\ job'[c].branch = job[c].branch
        /\ DOMAIN job'[c] = DOMAIN job[c]
        /\ DOMAIN job' = Clones
        /\ \A d \in Clones \ {c} : job'[d] = job[d]
    BY <1>4 DEF PlanBuild, ForceInv, JobInv
  <2>4. DOMAIN pc' = Clones
    BY <1>4 DEF PlanBuild, ForceInv
  <2>5. QED
    BY <2>2, <2>3, <2>4 DEF ForceInv, JobInv
<1>5. QED
  BY <1>1, <1>2, <1>3, <1>4

LEMMA PrepareImportForce ==
    ASSUME ForceInv, NEW c \in Clones, NEW b, NEW tip, NEW attempt,
           PrepareImport(c, b, tip, attempt)
    PROVE  ForceInv'
<1>1. CASE Abort(c, "boundary")
  BY <1>1, NoJobForce DEF Abort, ForceInv
<1>2. CASE \E boundary :
             /\ job' = [job EXCEPT ![c] =
                   [NoJob EXCEPT !.branch = b, !.attempt = attempt, !.tip = tip,
                                 !.seen = run[c].heads[b], !.boundary = boundary, !.chain = tip,
                                 !.pending = PendingCommits(boundary, run[c].heads[b])]]
             /\ pc' = [pc EXCEPT ![c] = "import_build"]
  <2> PICK boundary :
             job' = [job EXCEPT ![c] =
                   [NoJob EXCEPT !.branch = b, !.attempt = attempt, !.tip = tip,
                                 !.seen = run[c].heads[b], !.boundary = boundary, !.chain = tip,
                                 !.pending = PendingCommits(boundary, run[c].heads[b])]]
    BY <1>2
  <2> DEFINE j == [NoJob EXCEPT !.branch = b, !.attempt = attempt, !.tip = tip,
                                !.seen = run[c].heads[b], !.boundary = boundary, !.chain = tip,
                                !.pending = PendingCommits(boundary, run[c].heads[b])]
  <2>1. j.mode = "FastForwardOnly" /\ DOMAIN j = DOMAIN NoJob
    BY DEF NoJob
  <2>2. JobInv(j)
    BY <2>1, NoJobForce DEF JobInv, PushModes
  <2> HIDE DEF j
  <2>3. job' = [job EXCEPT ![c] = j]
    BY DEF j
  <2>4. QED
    BY <1>2, <2>2, <2>3 DEF ForceInv
<1>3. QED
  BY <1>1, <1>2 DEF PrepareImport

LEMMA EnvironmentKeepsRuns == Environment => UNCHANGED <<pc, run, job, result>>
<1> SUFFICES ASSUME Environment PROVE UNCHANGED <<pc, run, job, result>>
  OBVIOUS
<1>1. ASSUME NEW c \in Clones, NEW b \in Branches,
             DevCommit(c, b) \/ DevAmend(c, b) \/ DevPush(c, b) \/ DevPull(c, b)
      PROVE  UNCHANGED <<pc, run, job, result>>
  BY <1>1 DEF DevCommit, DevAmend, DevPush, DevPull
<1>2. ASSUME NEW c \in Clones, NEW b \in Branches, NEW from \in Branches,
             DevBranch(c, b, from) \/ DevMerge(c, b, from)
      PROVE  UNCHANGED <<pc, run, job, result>>
  BY <1>2 DEF DevBranch, DevMerge
<1>3. ASSUME NEW b \in Branches, CustomerCommit(b) \/ CustomerDelete(b)
      PROVE  UNCHANGED <<pc, run, job, result>>
  BY <1>3 DEF CustomerCommit, CustomerDelete
<1>4. ASSUME NEW b \in Branches, NEW from \in Branches,
             CustomerFastForward(b, from) \/ CustomerMerge(b, from)
      PROVE  UNCHANGED <<pc, run, job, result>>
  BY <1>4 DEF CustomerFastForward, CustomerMerge
<1>5. QED
  BY <1>1, <1>2, <1>3, <1>4 DEF Environment

LEMMA NextForce == ForceInv /\ [Next]_vars => ForceInv'
<1> SUFFICES ASSUME ForceInv, [Next]_vars PROVE ForceInv'
  OBVIOUS
<1>1. ASSUME NEW c \in Clones, StartRun(c) PROVE ForceInv'
  BY <1>1 DEF StartRun, ForceInv
<1>2. ASSUME NEW c \in Clones, FetchHeads(c) PROVE ForceInv'
  BY <1>2, NoJobForce DEF FetchHeads, Abort, ForceInv
<1>3. ASSUME NEW c \in Clones, SkipImport(c) PROVE ForceInv'
  BY <1>3, NoJobForce DEF SkipImport, NextImport, ForceInv
<1>4. ASSUME NEW c \in Clones, BeginImport(c) PROVE ForceInv'
  BY <1>4, NoJobForce, PrepareImportForce DEF BeginImport, Abort, ForceInv
<1>5. ASSUME NEW c \in Clones, RefetchSource(c) PROVE ForceInv'
  BY <1>5, NoJobForce, PrepareImportForce DEF RefetchSource, Abort, ForceInv
<1>6. ASSUME NEW c \in Clones, ReplayToSource(c) PROVE ForceInv'
  BY <1>6 DEF ReplayToSource, ForceInv, JobInv
<1>7. ASSUME NEW c \in Clones, NothingToPush(c) PROVE ForceInv'
  BY <1>7, NoJobForce DEF NothingToPush, NextImport, Abort, ForceInv
<1>8. ASSUME NEW c \in Clones, PushToSource(c) PROVE ForceInv'
  BY <1>8, NoJobForce DEF PushToSource, Abort, ForceInv, JobInv
<1>9. ASSUME NEW c \in Clones, AdvanceLocalSourceBranch(c) PROVE ForceInv'
  BY <1>9, NoJobForce DEF AdvanceLocalSourceBranch, NextImport, Abort, ForceInv
<1>10. ASSUME NEW c \in Clones, ReconstructMappingIndex(c) PROVE ForceInv'
  BY <1>10 DEF ReconstructMappingIndex, ForceInv
<1>11. ASSUME NEW c \in Clones, SelectNextBranch(c) PROVE ForceInv'
  BY <1>11, NoJobForce DEF SelectNextBranch, NoJob, ForceInv, JobInv, PushModes
<1>12. ASSUME NEW c \in Clones, FetchDest(c) PROVE ForceInv'
  BY <1>12, NoJobForce DEF FetchDest, Abort, NextBranch, ForceInv, JobInv, PushModes
<1>13. ASSUME NEW c \in Clones, PlanBranch(c) PROVE ForceInv'
  BY <1>13, PlanForce
<1>14. ASSUME NEW c \in Clones, ReplayToDest(c) PROVE ForceInv'
  BY <1>14 DEF ReplayToDest, ForceInv, JobInv
<1>15. ASSUME NEW c \in Clones, SealToDest(c) PROVE ForceInv'
  BY <1>15, NoJobForce DEF SealToDest, NextBranch, Abort, ForceInv, JobInv
<1>16. ASSUME NEW c \in Clones, PushToDest(c) PROVE ForceInv'
  BY <1>16, NoJobForce DEF PushToDest, Abort, ForceInv
<1>17. ASSUME NEW c \in Clones, PushRejected(c) PROVE ForceInv'
  <2> DEFINE again == [NoJob EXCEPT !.branch = job[c].branch, !.tip = job[c].tip,
                                    !.attempt = job[c].attempt + 1]
  <2>1. CASE pc' = [pc EXCEPT ![c] = "fetch_dest"] /\ job' = [job EXCEPT ![c] = again]
    <3>1. JobInv(again)
      BY DEF JobInv, NoJob, PushModes
    <3> HIDE DEF again
    <3>2. QED
      BY <2>1, <3>1 DEF ForceInv
  <2>2. CASE Abort(c, "race")
    BY <2>2, NoJobForce DEF Abort, ForceInv
  <2>3. CASE NextBranch(c, {job[c].branch})
    BY <2>3, NoJobForce DEF NextBranch, ForceInv
  <2>4. QED
    BY <1>17, <2>1, <2>2, <2>3 DEF PushRejected
<1>18. ASSUME NEW c \in Clones, Finish(c) PROVE ForceInv'
  BY <1>18 DEF Finish, ForceInv
<1>19. ASSUME NEW c \in Clones, Crash(c) PROVE ForceInv'
  BY <1>19, NoJobForce DEF Crash, Abort, ForceInv
<1>20. CASE Environment
  BY <1>20, EnvironmentKeepsRuns DEF ForceInv
<1>21. CASE UNCHANGED vars
  BY <1>21 DEF vars, ForceInv
<1>22. QED
  BY <1>1, <1>2, <1>3, <1>4, <1>5, <1>6, <1>7, <1>8, <1>9, <1>10, <1>11, <1>12, <1>13, <1>14,
     <1>15, <1>16, <1>17, <1>18, <1>19, <1>20, <1>21 DEF Next, Sync

(* Only a clone's own run moves its pc. *)
LEMMA OwnStep ==
    ASSUME DOMAIN pc = Clones, [Next]_vars, NEW c \in Clones, pc'[c] # pc[c]
    PROVE  StartRun(c) \/ Sync(c) \/ Crash(c)
<1>1. ~ UNCHANGED vars /\ ~ Environment
  BY EnvironmentKeepsRuns DEF vars
<1>2. PICK d \in Clones : StartRun(d) \/ Sync(d) \/ Crash(d)
  BY <1>1 DEF Next
<1>3. \A x \in Clones \ {d} : pc'[x] = pc[x]
  <2>1. CASE StartRun(d) \/ Crash(d) \/ Finish(d) \/ FetchHeads(d) \/ SkipImport(d)
    BY <2>1 DEF StartRun, Crash, Finish, FetchHeads, SkipImport, NextImport, Abort
  <2>2. CASE BeginImport(d) \/ RefetchSource(d) \/ ReplayToSource(d) \/ NothingToPush(d)
             \/ PushToSource(d) \/ AdvanceLocalSourceBranch(d)
    BY <2>2 DEF BeginImport, RefetchSource, PrepareImport, ReplayToSource, NothingToPush,
       PushToSource, AdvanceLocalSourceBranch, NextImport, Abort
  <2>3. CASE ReconstructMappingIndex(d) \/ SelectNextBranch(d) \/ FetchDest(d) \/ ReplayToDest(d)
    BY <2>3 DEF ReconstructMappingIndex, SelectNextBranch, FetchDest, ReplayToDest, NextBranch,
       Abort
  <2>4. CASE PlanBranch(d)
    BY <2>4 DEF PlanBranch, PlanBuild, NextBranch, Abort
  <2>5. CASE SealToDest(d)
    BY <2>5 DEF SealToDest, NextBranch, Abort
  <2>6. CASE PushToDest(d) \/ PushRejected(d)
    BY <2>6 DEF PushToDest, PushRejected, NextBranch, Abort
  <2>7. QED
    BY <1>2, <2>1, <2>2, <2>3, <2>4, <2>5, <2>6 DEF Sync
<1>4. QED
  BY <1>2, <1>3

LEMMA PushStep ==
    ASSUME DOMAIN pc = Clones, [Next]_vars, NEW c \in Clones, NEW b, DestPush(c, b)
    PROVE  PushToDest(c) /\ job[c].branch = b /\ dst'[b] # dst[b]
<1>1. pc'[c] # pc[c] /\ dst' # dst /\ job[c].branch = b /\ dst'[b] # dst[b]
  BY DEF DestPush
<1>2. StartRun(c) \/ Sync(c) \/ Crash(c)
  BY <1>1, OwnStep
<1>3. QED
  BY <1>1, <1>2 DEF StartRun, Crash, Sync, FetchHeads, SkipImport, BeginImport, RefetchSource,
     ReplayToSource, NothingToPush, PushToSource, AdvanceLocalSourceBranch,
     ReconstructMappingIndex, SelectNextBranch, FetchDest, PlanBranch, ReplayToDest,
     SealToDest, PushRejected, Finish, remotes

(* Every push to a configured branch keeps dest's old tip in the history   *)
(* of the new one: the pushes of run_with_options cannot rewrite such a    *)
(* branch, whatever developers, customers and other clones do meanwhile.   *)
THEOREM RoundTrippedFastForwardsHolds == Spec => RoundTrippedFastForwards
<1> DEFINE Kept ==
      \A c \in Clones, b \in Branches :
        DestPush(c, b) /\ RoundTripped(b) /\ dst[b] # NoOid
            => IsAncestor(dst[b], dst'[b])
<1>1. ASSUME ForceInv, [Next]_vars PROVE Kept
  <2> SUFFICES ASSUME NEW c \in Clones, NEW b \in Branches,
                      DestPush(c, b), RoundTripped(b), dst[b] # NoOid
               PROVE  IsAncestor(dst[b], dst'[b])
    OBVIOUS
  <2>1. PushToDest(c)
    BY <1>1, PushStep DEF ForceInv
  <2>2. job[c].branch = b /\ job[c].mode # "ForceMirrorOnly"
    BY <1>1 DEF DestPush, ForceInv, JobInv
  <2>3. dst'[b] = job[c].chain
    BY <2>1, <2>2 DEF PushToDest, DestPush
  <2>4. QED
    BY <2>1, <2>2, <2>3 DEF PushToDest, PushAccepted
<1>2. Spec => []ForceInv
  BY InitForce, NextForce, PTL DEF Spec
<1>3. Spec => [][Kept]_vars
  BY <1>1, <1>2, PTL DEF Spec
<1>4. QED
  BY <1>3 DEF RoundTrippedFastForwards

(***************************************************************************)
(* A branch held back is not mirrored, and an import builds on what the    *)
(* clone's branch had when it pushed.  Held are the configured branches    *)
(* that dest's listing lacked and nobody asked to recreate: until its turn *)
(* to be imported comes such a branch waits in imports, from then on it is *)
(* halted, and the halted branches are never among the remaining ones.     *)
(***************************************************************************)
Held(r) == {b \in Branches : RoundTripped(b) /\ b \notin r.names /\ b \notin r.recreate}

TurnInv(db, p, r, j) ==
    /\ p \in {"fetch_heads", "import"} \cup Importing =>
          Held(r) \subseteq r.halted \cup ToSet(r.imports)
    /\ p \in Importing => j.branch = Head(r.imports)
    /\ p = "import_advance" => j.expected \in db[j.chain].anc
    /\ p \in {"select"} \cup Mirroring => r.remaining \cap Held(r) = {}
    /\ p \in Mirroring => j.branch \notin Held(r)

TurnsInv == \A c \in Clones : TurnInv(odb, pc[c], run[c], job[c])

LEMMA ElementsOfTail ==
    ASSUME NEW S, NEW s \in Seq(S), s # <<>>
    PROVE  ToSet(s) \subseteq ToSet(Tail(s)) \cup {Head(s)}
<1> SUFFICES ASSUME NEW i \in DOMAIN s PROVE s[i] \in ToSet(Tail(s)) \cup {Head(s)}
  BY DEF ToSet
<1>1. /\ Len(s) \in Nat /\ DOMAIN s = 1 .. Len(s) /\ Head(s) = s[1]
      /\ Tail(s) \in Seq(S) /\ Len(Tail(s)) = Len(s) - 1
      /\ \A k \in 1 .. Len(Tail(s)) : Tail(s)[k] = s[k + 1]
  BY HeadTailProperties, LenProperties
<1>2. CASE i = 1
  BY <1>1, <1>2
<1>3. CASE i # 1
  <2>1. i - 1 \in 1 .. Len(Tail(s)) /\ (i - 1) + 1 = i
    BY <1>1, <1>3
  <2>2. i - 1 \in DOMAIN Tail(s) /\ Tail(s)[i - 1] = s[i]
    BY <1>1, <2>1, LenProperties
  <2>3. QED
    BY <2>2 DEF ToSet
<1>4. QED
  BY <1>2, <1>3

(* Every branch a run may hold back is one it is to import. *)
LEMMA HeldConfigured == ASSUME NEW r PROVE Held(r) \subseteq ToSet(Configured)
BY DEF Held, RoundTripped, ToSet

LEMMA TurnStep ==
    ASSUME SyncInv, TurnsInv, NEW c \in Clones, Extends(odb, odb'),
           pc' = [pc EXCEPT ![c] = pc'[c]], run' = [run EXCEPT ![c] = run'[c]],
           job' = [job EXCEPT ![c] = job'[c]],
           TurnInv(odb', pc'[c], run'[c], job'[c])
    PROVE  TurnsInv'
<1>1. ASSUME NEW d \in Clones, d # c PROVE TurnInv(odb', pc'[d], run'[d], job'[d])
  <2>1. run'[d] = run[d] /\ pc'[d] = pc[d] /\ job'[d] = job[d]
    BY <1>1 DEF SyncInv, Table
  <2>2. TurnInv(odb, pc[d], run[d], job[d])
    BY DEF TurnsInv
  <2>3. pc[d] = "import_advance" => odb'[job[d].chain] = odb[job[d].chain]
    BY Untouched DEF CloneInv, JobRefs, Extends, Oids
  <2>4. QED
    BY <2>1, <2>2, <2>3 DEF TurnInv
<1>2. QED
  BY <1>1 DEF TurnsInv

(* What the two invariants say of clone c. *)
LEMMA TurnOfClone ==
    ASSUME SyncInv, TurnsInv, NEW c \in Clones
    PROVE  /\ TurnInv(odb, pc[c], run[c], job[c]) /\ Extends(odb, odb)
           /\ DOMAIN NoRun \subseteq DOMAIN run[c] /\ DOMAIN NoJob \subseteq DOMAIN job[c]
           /\ run[c].imports \in Seq(Branches)
           /\ pc[c] \in Importing => job[c].branch \in run[c].names /\ run[c].imports # <<>>
<1>1. TurnInv(odb, pc[c], run[c], job[c]) /\ Extends(odb, odb)
  BY DEF TurnsInv, Extends, SyncInv, ObjectDatabase
<1>2. CloneInv(odb, local[c], have[c], pc[c], run[c], job[c])
  BY DEF SyncInv
<1>3. QED
  BY <1>1, <1>2 DEF CloneInv, RunRefs, JobRefs

LEMMA TurnAbort ==
    ASSUME SyncInv, TurnsInv, NEW c \in Clones, NEW why, Abort(c, why), odb' = odb
    PROVE  TurnsInv'
<1>1. /\ pc' = [pc EXCEPT ![c] = "idle"] /\ run' = [run EXCEPT ![c] = NoRun]
      /\ job' = [job EXCEPT ![c] = NoJob]
  BY DEF Abort
<1>2. pc'[c] = "idle" /\ run'[c] = NoRun /\ job'[c] = NoJob
  BY <1>1 DEF SyncInv, Table
<1>3. TurnInv(odb', pc'[c], run'[c], job'[c])
  BY <1>2 DEF TurnInv, Importing, Mirroring
<1>4. QED
  BY <1>1, <1>2, <1>3, TurnOfClone, TurnStep

(* A branch leaves imports when it is not held back, or else halted. *)
LEMMA TurnNextImport ==
    ASSUME SyncInv, TurnsInv, NEW c \in Clones, NEW halts, NextImport(c, halts), odb' = odb,
           pc[c] \in {"import"} \cup Importing, run[c].imports # <<>>,
           Head(run[c].imports) \in Held(run[c]) => Head(run[c].imports) \in halts
    PROVE  TurnsInv'
<1>1. /\ pc' = [pc EXCEPT ![c] = "import"] /\ job' = [job EXCEPT ![c] = NoJob]
      /\ run' = [run EXCEPT ![c] = [run[c] EXCEPT !.imports = Tail(run[c].imports),
                                                  !.halted = run[c].halted \cup halts]]
  BY DEF NextImport
<1>2. /\ pc'[c] = "import" /\ job'[c] = NoJob
      /\ run'[c] = [run[c] EXCEPT !.imports = Tail(run[c].imports),
                                  !.halted = run[c].halted \cup halts]
  BY <1>1 DEF SyncInv, Table
<1>3. /\ run'[c].names = run[c].names /\ run'[c].recreate = run[c].recreate
      /\ run'[c].imports = Tail(run[c].imports) /\ run'[c].halted = run[c].halted \cup halts
  BY <1>2, TurnOfClone DEF NoRun
<1>4. Held(run'[c]) = Held(run[c])
  BY <1>3 DEF Held
<1>5. Held(run[c]) \subseteq run[c].halted \cup ToSet(run[c].imports)
  BY TurnOfClone DEF TurnInv
<1>6. ToSet(run[c].imports) \subseteq ToSet(Tail(run[c].imports)) \cup {Head(run[c].imports)}
  BY TurnOfClone, ElementsOfTail
<1>7. TurnInv(odb', pc'[c], run'[c], job'[c])
  BY <1>2, <1>3, <1>4, <1>5, <1>6 DEF TurnInv, Importing, Mirroring
<1>8. QED
  BY <1>1, <1>2, <1>7, TurnOfClone, TurnStep

LEMMA TurnNextBranch ==
    ASSUME SyncInv, TurnsInv, NEW c \in Clones, NEW halts, NextBranch(c, halts), odb' = odb,
           pc[c] \in Mirroring
    PROVE  TurnsInv'
<1>1. /\ pc' = [pc EXCEPT ![c] = "select"] /\ job' = [job EXCEPT ![c] = NoJob]
      /\ run' = [run EXCEPT ![c] = [run[c] EXCEPT !.halted = run[c].halted \cup halts]]
  BY DEF NextBranch
<1>2. /\ pc'[c] = "select" /\ job'[c] = NoJob
      /\ run'[c] = [run[c] EXCEPT !.halted = run[c].halted \cup halts]
  BY <1>1 DEF SyncInv, Table
<1>3. /\ run'[c].names = run[c].names /\ run'[c].recreate = run[c].recreate
      /\ run'[c].remaining = run[c].remaining
  BY <1>2, TurnOfClone DEF NoRun
<1>4. TurnInv(odb', pc'[c], run'[c], job'[c])
  BY <1>2, <1>3, TurnOfClone DEF TurnInv, Held, Importing, Mirroring
<1>5. QED
  BY <1>1, <1>2, <1>4, TurnOfClone, TurnStep

(* A step within the import or within the mirroring of one branch. *)
LEMMA TurnJobStep ==
    ASSUME SyncInv, TurnsInv, NEW c \in Clones, Extends(odb, odb'),
           pc' = [pc EXCEPT ![c] = pc'[c]], job' = [job EXCEPT ![c] = job'[c]],
           run' = [run EXCEPT ![c] = run'[c]],
           pc'[c] # "select" => job'[c].branch = job[c].branch,
           \A f \in {"names", "recreate", "imports", "halted", "remaining"} :
              run'[c][f] = run[c][f],
           \/ pc[c] \in Mirroring /\ pc'[c] \in Mirroring
           \/ pc[c] \in Mirroring /\ pc'[c] = "select"
           \/ pc[c] \in Importing /\ pc'[c] \in Importing \ {"import_advance"}
    PROVE  TurnsInv'
<1>1. /\ run'[c].names = run[c].names /\ run'[c].recreate = run[c].recreate
      /\ run'[c].imports = run[c].imports /\ run'[c].halted = run[c].halted
      /\ run'[c].remaining = run[c].remaining
  OBVIOUS
<1>2. Held(run'[c]) = Held(run[c])
  BY <1>1 DEF Held
<1>3. TurnInv(odb', pc'[c], run'[c], job'[c])
  BY <1>1, <1>2, TurnOfClone DEF TurnInv, Importing, Mirroring
<1>4. QED
  BY <1>3, TurnStep

LEMMA TurnStartRun == ASSUME SyncInv, TurnsInv, NEW c \in Clones, StartRun(c) PROVE TurnsInv'
<1>1. PICK recreate \in SUBSET {b \in Recreatable : local[c][b] # NoOid} :
        run' = [run EXCEPT ![c] =
                  [NoRun EXCEPT !.names = {b \in Branches : dst[b] # NoOid},
                                !.sources = {b \in Branches : local[c][b] # NoOid},
                                !.recreate = recreate, !.imports = Configured]]
  BY DEF StartRun
<1>2. odb' = odb /\ job' = job /\ pc' = [pc EXCEPT ![c] = "fetch_heads"]
  BY DEF StartRun
<1>3. pc'[c] = "fetch_heads" /\ run'[c].imports = Configured
  BY <1>1, <1>2 DEF SyncInv, Table, NoRun
<1>4. TurnInv(odb', pc'[c], run'[c], job'[c])
  BY <1>3, HeldConfigured DEF TurnInv, Importing, Mirroring
<1>5. /\ run' = [run EXCEPT ![c] = run'[c]] /\ pc' = [pc EXCEPT ![c] = pc'[c]]
      /\ job' = [job EXCEPT ![c] = job'[c]]
  BY <1>1, <1>2, Untouched DEF SyncInv, Table
<1>6. QED
  BY <1>2, <1>4, <1>5, TurnOfClone, TurnStep

LEMMA TurnFetchHeads == ASSUME SyncInv, TurnsInv, NEW c \in Clones, FetchHeads(c) PROVE TurnsInv'
<1>1. odb' = odb /\ pc[c] = "fetch_heads"
  BY DEF FetchHeads
<1>2. CASE Abort(c, "fetch")
  BY <1>1, <1>2, TurnAbort
<1>3. CASE ~ Abort(c, "fetch")
  <2> DEFINE heads == [b \in Branches |-> IF b \in run[c].names THEN dst[b] ELSE NoOid]
  <2>1. /\ run' = [run EXCEPT ![c] = [run[c] EXCEPT !.heads = heads]]
        /\ pc' = [pc EXCEPT ![c] = "import"] /\ job' = job
    BY <1>3 DEF FetchHeads
  <2> HIDE DEF heads
  <2>2. /\ pc'[c] = "import" /\ job'[c] = job[c] /\ run'[c] = [run[c] EXCEPT !.heads = heads]
        /\ pc' = [pc EXCEPT ![c] = pc'[c]] /\ job' = [job EXCEPT ![c] = job'[c]]
        /\ run' = [run EXCEPT ![c] = run'[c]]
    BY <2>1, Untouched DEF SyncInv, Table
  <2>3. /\ run'[c].names = run[c].names /\ run'[c].recreate = run[c].recreate
        /\ run'[c].imports = run[c].imports /\ run'[c].halted = run[c].halted
    BY <2>2, TurnOfClone DEF NoRun
  <2>4. TurnInv(odb', pc'[c], run'[c], job'[c])
    BY <1>1, <2>2, <2>3, TurnOfClone DEF TurnInv, Held, Importing, Mirroring
  <2>5. QED
    BY <1>1, <2>2, <2>4, TurnOfClone, TurnStep
<1>4. QED
  BY <1>2, <1>3

LEMMA TurnSkipImport == ASSUME SyncInv, TurnsInv, NEW c \in Clones, SkipImport(c) PROVE TurnsInv'
<1> DEFINE b == Head(run[c].imports)
<1>1. /\ pc[c] = "import" /\ run[c].imports # <<>> /\ odb' = odb
      /\ NextImport(c, IF (b \in run[c].names) = (b \in run[c].recreate) THEN {b} ELSE {})
  BY DEF SkipImport
<1>2. b \in Held(run[c]) => (b \in run[c].names) = (b \in run[c].recreate)
  BY DEF Held
<1> HIDE DEF b
<1>3. PICK halts : NextImport(c, halts) /\ (b \in Held(run[c]) => b \in halts)
  BY <1>1, <1>2
<1>4. QED
  BY <1>1, <1>3, TurnNextImport DEF b

LEMMA TurnPrepareImport ==
    ASSUME SyncInv, TurnsInv, NEW c \in Clones, NEW b, NEW tip, NEW attempt, odb' = odb,
           PrepareImport(c, b, tip, attempt), b = Head(run[c].imports),
           pc[c] \in {"import", "import_refetch"}
    PROVE  TurnsInv'
<1>1. CASE Abort(c, "boundary")
  BY <1>1, TurnAbort
<1>2. CASE ~ Abort(c, "boundary")
  <2>1. PICK boundary :
          /\ job' = [job EXCEPT ![c] =
                [NoJob EXCEPT !.branch = b, !.attempt = attempt, !.tip = tip,
                              !.seen = run[c].heads[b], !.boundary = boundary, !.chain = tip,
                              !.pending = PendingCommits(boundary, run[c].heads[b])]]
          /\ pc' = [pc EXCEPT ![c] = "import_build"] /\ run' = run
    BY <1>2 DEF PrepareImport
  <2>2. /\ job'[c].branch = b /\ pc'[c] = "import_build" /\ run'[c] = run[c]
        /\ pc' = [pc EXCEPT ![c] = pc'[c]] /\ job' = [job EXCEPT ![c] = job'[c]]
        /\ run' = [run EXCEPT ![c] = run'[c]]
    BY <2>1, Untouched DEF SyncInv, Table, NoJob
  <2>3. TurnInv(odb', pc'[c], run'[c], job'[c])
    BY <2>2, TurnOfClone DEF TurnInv, Importing, Mirroring
  <2>4. QED
    BY <2>2, <2>3, TurnOfClone, TurnStep
<1>3. QED
  BY <1>1, <1>2

LEMMA TurnBeginImport ==
    ASSUME SyncInv, TurnsInv, NEW c \in Clones, BeginImport(c) \/ RefetchSource(c) PROVE TurnsInv'
<1>1. odb' = odb
  BY DEF BeginImport, RefetchSource
<1>2. CASE Abort(c, "fetch")
  BY <1>1, <1>2, TurnAbort
<1>3. CASE BeginImport(c) /\ ~ Abort(c, "fetch")
  <2>1. pc[c] = "import" /\ \E tip : PrepareImport(c, Head(run[c].imports), tip, 0)
    BY <1>3 DEF BeginImport
  <2>2. QED
    BY <1>1, <2>1, TurnPrepareImport
<1>4. CASE RefetchSource(c) /\ ~ Abort(c, "fetch")
  <2>1. /\ pc[c] = "import_refetch"
        /\ PrepareImport(c, job[c].branch, src[job[c].branch], job[c].attempt)
    BY <1>4 DEF RefetchSource
  <2>2. job[c].branch = Head(run[c].imports)
    BY <2>1, TurnOfClone DEF TurnInv, Importing
  <2>3. QED
    BY <1>1, <2>1, <2>2, TurnPrepareImport
<1>5. QED
  BY <1>2, <1>3, <1>4

LEMMA TurnReplay ==
    ASSUME SyncInv, TurnsInv, NEW c \in Clones, ReplayToSource(c) \/ ReplayToDest(c) PROVE TurnsInv'
<1>1. /\ run' = run /\ pc' = pc /\ pc[c] \in {"import_build", "build"}
      /\ odb' = odb \/ \E parents, tree, marker : Write(parents, tree, marker)
  BY DEF ReplayToSource, ReplayToDest
<1>2. job' = [job EXCEPT ![c] = job'[c]] /\ job'[c].branch = job[c].branch
  <2> DEFINE j == job[c]
  <2>1. job[c] = j /\ {"branch", "pending", "chain", "conflict", "built"} \subseteq DOMAIN j
    BY TurnOfClone DEF NoJob
  <2>2. \E k : job' = [job EXCEPT ![c] = k] /\ k.branch = j.branch
    <3> HIDE DEF j
    <3>1. CASE ReplayToSource(c)
      BY <2>1, <3>1 DEF ReplayToSource
    <3>2. CASE ReplayToDest(c)
      BY <2>1, <3>2 DEF ReplayToDest
    <3>3. QED
      BY <3>1, <3>2
  <2>3. QED
    BY <2>2 DEF SyncInv, Table
<1>3. Extends(odb, odb')
  BY <1>1, TurnOfClone, WriteAppends DEF SyncInv
<1>4. /\ pc' = [pc EXCEPT ![c] = pc'[c]] /\ run' = [run EXCEPT ![c] = run'[c]]
      /\ pc'[c] = pc[c] /\ run'[c] = run[c]
  BY <1>1, Untouched
<1>5. QED
  BY <1>1, <1>2, <1>3, <1>4, TurnJobStep DEF Importing, Mirroring

(* The import of a branch ends: the branch is listed, so it is not held.   *)
LEMMA TurnImported ==
    ASSUME SyncInv, TurnsInv, NEW c \in Clones,
           NothingToPush(c) \/ AdvanceLocalSourceBranch(c)
    PROVE  TurnsInv'
<1>1. odb' = odb /\ pc[c] \in Importing
  BY DEF NothingToPush, AdvanceLocalSourceBranch, Importing
<1>2. (\E why : Abort(c, why)) \/ NextImport(c, {})
  BY DEF NothingToPush, AdvanceLocalSourceBranch
<1>3. Head(run[c].imports) \notin Held(run[c]) /\ run[c].imports # <<>>
  BY <1>1, TurnOfClone DEF TurnInv, Held
<1>4. QED
  BY <1>1, <1>2, <1>3, TurnAbort, TurnNextImport

(* The preflight: what the push hands to the advance keeps the branch. *)
LEMMA TurnPushToSource ==
    ASSUME SyncInv, TurnsInv, NEW c \in Clones, PushToSource(c) PROVE TurnsInv'
<1> DEFINE b == job[c].branch
<1>1. odb' = odb /\ pc[c] = "import_build"
  BY DEF PushToSource
<1>2. CASE \E why : Abort(c, why)
  BY <1>1, <1>2, TurnAbort
<1>3. CASE /\ job' = [job EXCEPT ![c].attempt = @ + 1]
           /\ pc' = [pc EXCEPT ![c] = "import_refetch"] /\ run' = run
  <2>1. /\ job'[c].branch = job[c].branch /\ job' = [job EXCEPT ![c] = job'[c]]
        /\ pc'[c] = "import_refetch" /\ pc' = [pc EXCEPT ![c] = pc'[c]]
        /\ run'[c] = run[c] /\ run' = [run EXCEPT ![c] = run'[c]]
    BY <1>3, Untouched, TurnOfClone DEF SyncInv, Table, NoJob
  <2>2. QED
    BY <1>1, <2>1, TurnOfClone, TurnJobStep DEF Importing, Mirroring
<1>4. CASE /\ ~ Strands(c) /\ job' = [job EXCEPT ![c].expected = local[c][b]]
           /\ pc' = [pc EXCEPT ![c] = "import_advance"] /\ run' = run
  <2>1. /\ job'[c].branch = b /\ job'[c].chain = job[c].chain
        /\ job'[c].expected = local[c][b] /\ job' = [job EXCEPT ![c] = job'[c]]
        /\ pc'[c] = "import_advance" /\ pc' = [pc EXCEPT ![c] = pc'[c]]
        /\ run'[c] = run[c] /\ run' = [run EXCEPT ![c] = run'[c]]
    BY <1>4, Untouched, TurnOfClone DEF SyncInv, Table, NoJob
  <2>2. local[c][b] \in odb[job[c].chain].anc
    BY <1>4 DEF Strands, IsAncestor, Anc
  <2> HIDE DEF b
  <2>3. TurnInv(odb', pc'[c], run'[c], job'[c])
    BY <1>1, <2>1, <2>2, TurnOfClone DEF TurnInv, Importing, Mirroring, b
  <2>4. QED
    BY <1>1, <2>1, <2>3, TurnOfClone, TurnStep
<1>5. QED
  BY <1>2, <1>3, <1>4 DEF PushToSource

LEMMA TurnReconstruct ==
    ASSUME SyncInv, TurnsInv, NEW c \in Clones, ReconstructMappingIndex(c) PROVE TurnsInv'
<1>1. odb' = odb /\ job' = job /\ pc[c] = "import" /\ run[c].imports = <<>>
      /\ pc' = [pc EXCEPT ![c] = "select"]
  BY DEF ReconstructMappingIndex
<1> DEFINE index == Reconstruct({local[c][b] : b \in run[c].sources},
                               {run[c].heads[b] : b \in run[c].names})
           exists == [b \in Branches |-> IF b \in run[c].names THEN "yes"
                                         ELSE IF b \in run[c].sources THEN "no" ELSE "ask"]
<1>2. run' = [run EXCEPT ![c] = [run[c] EXCEPT !.index = index, !.exists = exists,
                                    !.remaining = run[c].sources \ run[c].halted]]
  BY DEF ReconstructMappingIndex
<1> HIDE DEF index, exists
<1>3. /\ pc'[c] = "select" /\ pc' = [pc EXCEPT ![c] = pc'[c]]
      /\ run' = [run EXCEPT ![c] = run'[c]] /\ job' = [job EXCEPT ![c] = job'[c]]
      /\ run'[c] = [run[c] EXCEPT !.index = index, !.exists = exists,
                                  !.remaining = run[c].sources \ run[c].halted]
  BY <1>1, <1>2, Untouched DEF SyncInv, Table
<1>4. /\ run'[c].names = run[c].names /\ run'[c].recreate = run[c].recreate
      /\ run'[c].remaining = run[c].sources \ run[c].halted
  BY <1>3, TurnOfClone DEF NoRun
<1>5. Held(run[c]) \subseteq run[c].halted
  <2>1. ToSet(<<>>) = {}
    BY DEF ToSet
  <2>2. QED
    BY <1>1, <2>1, TurnOfClone DEF TurnInv
<1>6. TurnInv(odb', pc'[c], run'[c], job'[c])
  BY <1>3, <1>4, <1>5 DEF TurnInv, Held, Importing, Mirroring
<1>7. QED
  BY <1>1, <1>3, <1>6, TurnOfClone, TurnStep

LEMMA TurnSelect == ASSUME SyncInv, TurnsInv, NEW c \in Clones, SelectNextBranch(c) PROVE TurnsInv'
<1>1. PICK b \in run[c].remaining :
        /\ run' = [run EXCEPT ![c].remaining = @ \ {b},
              ![c].noMapping = @ \cup {a \in run[c].remaining : Distance(c, a) = 0}]
        /\ job' = [job EXCEPT ![c] = [NoJob EXCEPT !.branch = b, !.tip = local[c][b]]]
  BY DEF SelectNextBranch
<1>2. odb' = odb /\ pc[c] = "select" /\ pc' = [pc EXCEPT ![c] = "fetch_dest"]
  BY DEF SelectNextBranch
<1>3. /\ pc'[c] = "fetch_dest" /\ pc' = [pc EXCEPT ![c] = pc'[c]]
      /\ job'[c].branch = b /\ job' = [job EXCEPT ![c] = job'[c]]
  BY <1>1, <1>2 DEF SyncInv, Table, NoJob
<1>4. /\ run'[c].names = run[c].names /\ run'[c].recreate = run[c].recreate
      /\ run'[c].remaining = run[c].remaining \ {b} /\ run' = [run EXCEPT ![c] = run'[c]]
  BY <1>1, TurnOfClone DEF SyncInv, Table, NoRun
<1>5. TurnInv(odb', pc'[c], run'[c], job'[c])
  BY <1>2, <1>3, <1>4, TurnOfClone DEF TurnInv, Held, Importing, Mirroring
<1>6. QED
  BY <1>2, <1>3, <1>4, <1>5, TurnOfClone, TurnStep

LEMMA TurnFinish == ASSUME SyncInv, TurnsInv, NEW c \in Clones, Finish(c) PROVE TurnsInv'
<1>1. /\ odb' = odb /\ job' = job /\ pc' = [pc EXCEPT ![c] = "idle"]
      /\ run' = [run EXCEPT ![c] = NoRun]
  BY DEF Finish
<1>2. /\ pc'[c] = "idle" /\ pc' = [pc EXCEPT ![c] = pc'[c]]
      /\ run' = [run EXCEPT ![c] = run'[c]] /\ job' = [job EXCEPT ![c] = job'[c]]
  BY <1>1, Untouched DEF SyncInv, Table
<1>3. TurnInv(odb', pc'[c], run'[c], job'[c])
  BY <1>2 DEF TurnInv, Importing, Mirroring
<1>4. QED
  BY <1>1, <1>2, <1>3, TurnOfClone, TurnStep

LEMMA TurnFetchDest == ASSUME SyncInv, TurnsInv, NEW c \in Clones, FetchDest(c) PROVE TurnsInv'
<1> DEFINE b == job[c].branch
           exists == run[c].exists[b] = "yes" \/ (run[c].exists[b] = "ask" /\ dst[b] # NoOid)
           known == [run[c].exists EXCEPT ![b] = IF exists THEN "yes" ELSE "no"]
           seen == IF exists THEN dst[b] ELSE NoOid
           mode == IF b \in run[c].recreate THEN "CreateOnly" ELSE "FastForwardOnly"
<1>1. odb' = odb /\ pc[c] = "fetch_dest" /\ pc[c] \in Mirroring
  BY DEF FetchDest, Mirroring
<1>2. CASE NextBranch(c, {b})
  BY <1>1, <1>2, TurnNextBranch
<1>3. CASE Abort(c, "fetch")
  BY <1>1, <1>3, TurnAbort
<1>4. CASE /\ run' = [run EXCEPT ![c].exists[b] = IF exists THEN "yes" ELSE "no"]
           /\ job' = [job EXCEPT ![c].seen = seen, ![c].mode = mode]
           /\ pc' = [pc EXCEPT ![c] = "plan"]
  <2>1. run' = [run EXCEPT ![c] = [run[c] EXCEPT !.exists = known]]
    BY <1>4
  <2>2. job' = [job EXCEPT ![c] = [job[c] EXCEPT !.seen = seen, !.mode = mode]]
    BY <1>4
  <2> HIDE DEF known, seen, mode
  <2>3. /\ pc'[c] = "plan" /\ pc' = [pc EXCEPT ![c] = pc'[c]]
        /\ run' = [run EXCEPT ![c] = run'[c]]
    BY <1>4, <2>1 DEF SyncInv, Table
  <2>6. job'[c].branch = job[c].branch /\ job' = [job EXCEPT ![c] = job'[c]]
    BY <2>2, TurnOfClone DEF SyncInv, Table, NoJob
  <2>4. run'[c] = [run[c] EXCEPT !.exists = known]
    BY <2>1 DEF SyncInv, Table
  <2>5. \A f \in {"names", "recreate", "imports", "halted", "remaining"} :
           run'[c][f] = run[c][f]
    BY <2>4, TurnOfClone DEF NoRun
  <2>7. QED
    BY <1>1, <2>3, <2>5, <2>6, TurnOfClone, TurnJobStep DEF Importing, Mirroring
<1>5. QED
  BY <1>2, <1>3, <1>4 DEF FetchDest

LEMMA TurnPlanBranch == ASSUME SyncInv, TurnsInv, NEW c \in Clones, PlanBranch(c) PROVE TurnsInv'
<1>1. pc[c] = "plan" /\ pc[c] \in Mirroring
  BY DEF PlanBranch, Mirroring
<1>2. PICK v, plan :
        \/ (\E why : Abort(c, why)) /\ odb' = odb
        \/ (\E halts : NextBranch(c, halts)) /\ odb' = odb
        \/ PlanBuild(c, v, plan)
  BY DEF PlanBranch
<1>3. CASE PlanBuild(c, v, plan)
  <2>1. /\ run' = run /\ pc' = [pc EXCEPT ![c] = "build"]
        /\ odb' = odb \/ \E parents, tree, marker : Write(parents, tree, marker)
    BY <1>3 DEF PlanBuild
  <2>2. job'[c].branch = job[c].branch /\ job' = [job EXCEPT ![c] = job'[c]]
    BY <1>3, TurnOfClone DEF PlanBuild, NoJob, SyncInv, Table
  <2>3. /\ pc'[c] = "build" /\ pc' = [pc EXCEPT ![c] = pc'[c]]
        /\ run'[c] = run[c] /\ run' = [run EXCEPT ![c] = run'[c]]
    BY <2>1, Untouched DEF SyncInv, Table
  <2>4. Extends(odb, odb')
    BY <2>1, TurnOfClone, WriteAppends DEF SyncInv
  <2>5. QED
    BY <1>1, <2>2, <2>3, <2>4, TurnJobStep DEF Importing, Mirroring
<1>4. QED
  BY <1>1, <1>2, <1>3, TurnAbort, TurnNextBranch

LEMMA TurnSeal == ASSUME SyncInv, TurnsInv, NEW c \in Clones, SealToDest(c) PROVE TurnsInv'
<1>1. pc[c] = "build" /\ pc[c] \in Mirroring
  BY DEF SealToDest, Mirroring
<1>2. CASE odb' = odb /\ ((\E why : Abort(c, why)) \/ \E halts : NextBranch(c, halts))
  BY <1>1, <1>2, TurnAbort, TurnNextBranch
<1>3. CASE /\ pc' = [pc EXCEPT ![c] = "push_dest"] /\ run' = run
           /\ \/ odb' = odb /\ job' = job
              \/ (\E parents, tree, marker : Write(parents, tree, marker))
                   /\ job' = [job EXCEPT ![c].chain = NextOid]
  <2>1. job'[c].branch = job[c].branch /\ job' = [job EXCEPT ![c] = job'[c]]
    <3>1. CASE job' = job
      BY <3>1, Untouched
    <3>2. CASE job' = [job EXCEPT ![c] = [job[c] EXCEPT !.chain = NextOid]]
      BY <3>2, TurnOfClone DEF SyncInv, Table, NoJob
    <3>3. QED
      BY <1>3, <3>1, <3>2
  <2>2. /\ pc'[c] = "push_dest" /\ pc' = [pc EXCEPT ![c] = pc'[c]]
        /\ run'[c] = run[c] /\ run' = [run EXCEPT ![c] = run'[c]]
    BY <1>3, Untouched DEF SyncInv, Table
  <2>3. Extends(odb, odb')
    BY <1>3, TurnOfClone, WriteAppends DEF SyncInv
  <2>4. QED
    BY <1>1, <2>1, <2>2, <2>3, TurnJobStep DEF Importing, Mirroring
<1>4. QED
  <2>1. PICK seal :
          \/ /\ seal.kind = "none"
             /\ IF job[c].conflict # NoOid THEN Abort(c, "conflict") ELSE NextBranch(c, {})
             /\ odb' = odb
          \/ seal.kind = "abort" /\ Abort(c, "resume") /\ odb' = odb
          \/ /\ pc' = [pc EXCEPT ![c] = "push_dest"] /\ run' = run
             /\ odb' = odb /\ job' = job
          \/ /\ Write(<<job[c].chain>>, TreeOf(job[c].chain),
                       Marker("SourceToDest", job[c].branch, seal.source))
             /\ job' = [job EXCEPT ![c].chain = NextOid]
             /\ pc' = [pc EXCEPT ![c] = "push_dest"] /\ run' = run
    BY DEF SealToDest
  <2>2. QED
    BY <1>2, <1>3, <2>1

LEMMA TurnPushToDest == ASSUME SyncInv, TurnsInv, NEW c \in Clones, PushToDest(c) PROVE TurnsInv'
<1> DEFINE b == job[c].branch
<1>1. odb' = odb /\ pc[c] = "push_dest" /\ pc[c] \in Mirroring
  BY DEF PushToDest, Mirroring
<1>2. CASE Abort(c, "conflict")
  BY <1>1, <1>2, TurnAbort
<1>3. CASE ~ Abort(c, "conflict")
  <2>1. /\ pc' = [pc EXCEPT ![c] = "select"] /\ job' = [job EXCEPT ![c] = NoJob]
        /\ run' = [run EXCEPT ![c].index = IndexAfterPush(c), ![c].exists[b] = "yes"]
    BY <1>3 DEF PushToDest
  <2>2. /\ pc'[c] = "select" /\ pc' = [pc EXCEPT ![c] = pc'[c]]
        /\ job' = [job EXCEPT ![c] = job'[c]]
    BY <2>1 DEF SyncInv, Table
  <2>3. /\ run'[c].names = run[c].names /\ run'[c].recreate = run[c].recreate
        /\ run'[c].imports = run[c].imports /\ run'[c].halted = run[c].halted
        /\ run'[c].remaining = run[c].remaining /\ run' = [run EXCEPT ![c] = run'[c]]
    BY <2>1, TurnOfClone DEF NoRun, SyncInv, Table
  <2>4. QED
    BY <1>1, <2>2, <2>3, TurnOfClone, TurnJobStep DEF Importing, Mirroring
<1>4. QED
  BY <1>2, <1>3

LEMMA TurnPushRejected == ASSUME SyncInv, TurnsInv, NEW c \in Clones, PushRejected(c) PROVE TurnsInv'
<1> DEFINE b == job[c].branch
           known == [run[c].exists EXCEPT ![b] = "ask"]
           again == [NoJob EXCEPT !.branch = b, !.tip = job[c].tip,
                                  !.attempt = job[c].attempt + 1]
<1>1. odb' = odb /\ pc[c] = "push_dest" /\ pc[c] \in Mirroring
  BY DEF PushRejected, Mirroring
<1>2. CASE NextBranch(c, {b})
  BY <1>1, <1>2, TurnNextBranch
<1>3. CASE Abort(c, "race")
  BY <1>1, <1>3, TurnAbort
<1>4. CASE /\ run' = [run EXCEPT ![c] = [run[c] EXCEPT !.exists = known]]
           /\ job' = [job EXCEPT ![c] = again] /\ pc' = [pc EXCEPT ![c] = "fetch_dest"]
  <2>1. again.branch = job[c].branch
    BY DEF NoJob
  <2> HIDE DEF known, again
  <2>2. /\ pc'[c] = "fetch_dest" /\ pc' = [pc EXCEPT ![c] = pc'[c]]
        /\ job'[c].branch = job[c].branch /\ job' = [job EXCEPT ![c] = job'[c]]
        /\ run' = [run EXCEPT ![c] = run'[c]] /\ run'[c] = [run[c] EXCEPT !.exists = known]
    BY <1>4, <2>1 DEF SyncInv, Table
  <2>3. \A f \in {"names", "recreate", "imports", "halted", "remaining"} :
           run'[c][f] = run[c][f]
    BY <2>2, TurnOfClone DEF NoRun
  <2>4. QED
    BY <1>1, <2>2, <2>3, TurnOfClone, TurnJobStep DEF Importing, Mirroring
<1>5. QED
  BY <1>2, <1>3, <1>4 DEF PushRejected

LEMMA TurnSync ==
    ASSUME SyncInv, TurnsInv, NEW c \in Clones, StartRun(c) \/ Sync(c) \/ Crash(c) PROVE TurnsInv'
<1>1. ASSUME Crash(c) PROVE TurnsInv'
  BY <1>1, TurnAbort DEF Crash
<1>2. QED
  BY <1>1, TurnStartRun, TurnFetchHeads, TurnSkipImport, TurnBeginImport, TurnReplay, TurnImported,
     TurnPushToSource, TurnReconstruct, TurnSelect, TurnFinish, TurnFetchDest, TurnPlanBranch,
     TurnSeal, TurnPushToDest, TurnPushRejected DEF Sync

(* The environment's commits carry no marker. *)
LEMMA EnvironmentWrites ==
    ASSUME Environment
    PROVE  odb' = odb \/ \E parents, tree : Write(parents, tree, NoMarker)
<1>1. ASSUME NEW c \in Clones, NEW b \in Branches,
             DevCommit(c, b) \/ DevAmend(c, b) \/ DevPush(c, b) \/ DevPull(c, b)
      PROVE  odb' = odb \/ \E parents, tree : Write(parents, tree, NoMarker)
  BY <1>1 DEF DevCommit, DevAmend, DevPush, DevPull
<1>2. ASSUME NEW c \in Clones, NEW b \in Branches, NEW from \in Branches,
             DevBranch(c, b, from) \/ DevMerge(c, b, from)
      PROVE  odb' = odb \/ \E parents, tree : Write(parents, tree, NoMarker)
  BY <1>2 DEF DevBranch, DevMerge
<1>3. ASSUME NEW b \in Branches, CustomerCommit(b) \/ CustomerDelete(b)
      PROVE  odb' = odb \/ \E parents, tree : Write(parents, tree, NoMarker)
  BY <1>3 DEF CustomerCommit, CustomerDelete
<1>4. ASSUME NEW b \in Branches, NEW from \in Branches,
             CustomerFastForward(b, from) \/ CustomerMerge(b, from)
      PROVE  odb' = odb \/ \E parents, tree : Write(parents, tree, NoMarker)
  BY <1>4 DEF CustomerFastForward, CustomerMerge
<1>5. QED
  BY <1>1, <1>2, <1>3, <1>4 DEF Environment

LEMMA TurnNext == SyncInv /\ TurnsInv /\ [Next]_vars => TurnsInv'
<1> SUFFICES ASSUME SyncInv, TurnsInv, [Next]_vars PROVE TurnsInv'
  OBVIOUS
<1>1. CASE \E c \in Clones : StartRun(c) \/ Sync(c) \/ Crash(c)
  BY <1>1, TurnSync
<1>2. CASE Environment \/ UNCHANGED vars
  <2>1. UNCHANGED <<pc, run, job>>
    BY <1>2, EnvironmentKeepsRuns DEF vars
  <2>2. Extends(odb, odb')
    BY <1>2, EnvironmentWrites, WriteAppends DEF vars, Extends, SyncInv, ObjectDatabase
  <2>3. ASSUME NEW c \in Clones PROVE TurnInv(odb', pc[c], run[c], job[c])
    <3>1. pc[c] = "import_advance" => odb'[job[c].chain] = odb[job[c].chain]
      BY <2>2, Untouched DEF CloneInv, JobRefs, Extends, Oids
    <3>2. QED
      BY <3>1, TurnOfClone DEF TurnInv
  <2>4. QED
    BY <2>1, <2>3 DEF TurnsInv
<1>3. QED
  BY <1>1, <1>2 DEF Next

LEMMA TurnInit == Init => TurnsInv
BY DEF Init, TurnsInv, TurnInv, Importing, Mirroring

LEMMA TurnsInvariant == Spec => [](SyncInv /\ TurnsInv)
<1>1. Init => SyncInv /\ TurnsInv
  BY InitSyncInv, TurnInit
<1>2. SyncInv /\ TurnsInv /\ [Next]_vars => (SyncInv /\ TurnsInv)'
  BY NextSyncInv, TurnNext
<1>3. QED
  BY <1>1, <1>2, PTL DEF Spec

(* A configured branch that was gone from dest when a run listed it is     *)
(* created there only by a run that was asked to recreate it: whatever     *)
(* customers, other clones and lost races do meanwhile, phase 1 and the    *)
(* mirroring agree on what is held back (decisions/0053).                  *)
THEOREM NeverRecreatedImplicitlyHolds == Spec => NeverRecreatedImplicitly
<1> DEFINE Requested ==
      \A c \in Clones, b \in Branches :
        DestPush(c, b) /\ RoundTripped(b) /\ dst[b] = NoOid /\ b \notin run[c].names
            => b \in run[c].recreate
<1>1. ASSUME SyncInv /\ TurnsInv, [Next]_vars PROVE Requested
  <2> SUFFICES ASSUME NEW c \in Clones, NEW b \in Branches,
                      DestPush(c, b), RoundTripped(b), b \notin run[c].names
               PROVE  b \in run[c].recreate
    OBVIOUS
  <2>1. pc[c] = "push_dest" /\ job[c].branch = b
    BY DEF DestPush
  <2>2. b \notin Held(run[c])
    BY <1>1, <2>1, TurnOfClone DEF TurnInv, Mirroring
  <2>3. QED
    BY <2>2 DEF Held
<1>2. Spec => [][Requested]_vars
  BY <1>1, TurnsInvariant, PTL DEF Spec
<1>3. QED
  BY <1>2 DEF NeverRecreatedImplicitly

(* The steps of an import that write a ref: the push to the source remote  *)
(* and the first fetch or the final advance of the clone's branch.         *)
LEMMA ImportWrites ==
    ASSUME SyncInv, [Next]_vars, NEW c \in Clones, Imports(c)
    PROVE  \/ src' = src /\ local' = local
           \/ BeginImport(c) /\ src' = src
           \/ PushToSource(c) /\ local' = local
           \/ AdvanceLocalSourceBranch(c) /\ src' = src
<1>1. /\ pc'[c] # pc[c] /\ pc[c] \notin {"idle", "select", "fetch_dest", "plan", "build",
                                         "push_dest", "import_refetch"}
      /\ DOMAIN pc = Clones
  BY DEF Imports, SyncInv, Table
<1>2. StartRun(c) \/ Sync(c) \/ Crash(c)
  BY <1>1, OwnStep
<1>3. QED
  BY <1>1, <1>2 DEF StartRun, Crash, Sync, FetchHeads, SkipImport, BeginImport, RefetchSource,
     ReplayToSource, NothingToPush, PushToSource, AdvanceLocalSourceBranch,
     ReconstructMappingIndex, SelectNextBranch, FetchDest, PlanBranch, ReplayToDest,
     SealToDest, PushToDest, PushRejected, Finish, remotes, clone

(* No step of an import takes a commit out of a branch of the source       *)
(* remote or of the clone: the remote takes a fast-forward only, and the   *)
(* clone's branch follows only if it still is what the preflight found in  *)
(* the history of the pushed commit.                                       *)
THEOREM ImportKeepsDeveloperWorkHolds == Spec => ImportKeepsDeveloperWork
<1> DEFINE Kept ==
      \A c \in Clones, b \in Branches :
        Imports(c) =>
            /\ src[b] # NoOid => IsAncestor(src[b], src'[b])
            /\ local[c][b] # NoOid => IsAncestor(local[c][b], local'[c][b])
<1>1. ASSUME SyncInv /\ TurnsInv, [Next]_vars PROVE Kept
  <2> SUFFICES ASSUME NEW c \in Clones, NEW b \in Branches, Imports(c)
               PROVE  /\ src[b] # NoOid => IsAncestor(src[b], src'[b])
                      /\ local[c][b] # NoOid => IsAncestor(local[c][b], local'[c][b])
    OBVIOUS
  <2>1. /\ src[b] \in Oids \cup {NoOid} /\ local[c][b] \in Oids \cup {NoOid}
        /\ \A o \in Oids : IsAncestor(o, o)
    <3>1. src \in [Branches -> Oids \cup {NoOid}]
      BY <1>1 DEF SyncInv, Oids, Oid0, NoOid, ObjectDatabase
    <3>2. local[c][b] \in Oids \cup {NoOid}
      BY <1>1, Untouched
    <3>3. \A o \in Oids : IsAncestor(o, o)
      BY <1>1, CommitFacts DEF SyncInv, IsAncestor
    <3>4. QED
      BY <3>1, <3>2, <3>3
  <2>2. DOMAIN local = Clones /\ DOMAIN local[c] = Branches /\ DOMAIN src = Branches
    BY <1>1 DEF SyncInv
  <2>3. CASE src' = src /\ local' = local
    BY <2>1, <2>3
  <2>4. CASE BeginImport(c) /\ src' = src
    <3>1. local[c][b] # NoOid => local'[c][b] = local[c][b]
      BY <2>2, <2>4 DEF BeginImport, clone
    <3>2. QED
      BY <2>1, <2>4, <3>1
  <2>5. CASE PushToSource(c) /\ local' = local
    <3>1. src[b] # NoOid => src'[b] = src[b] \/ IsAncestor(src[b], src'[b])
      BY <2>2, <2>5 DEF PushToSource, SourceAccepts
    <3>2. QED
      BY <2>1, <2>5, <3>1
  <2>6. CASE AdvanceLocalSourceBranch(c) /\ src' = src
    <3>1. pc[c] = "import_advance"
      BY <2>6 DEF AdvanceLocalSourceBranch
    <3>2. job[c].expected \in Anc(job[c].chain)
      BY <1>1, <3>1, TurnOfClone DEF TurnInv, Anc
    <3>3. \/ local' = local
          \/ /\ local[c][job[c].branch] = job[c].expected
             /\ local' = [local EXCEPT ![c][job[c].branch] = job[c].chain]
      BY <2>6 DEF AdvanceLocalSourceBranch, MovedSincePreflight
    <3>4. local'[c][b] = local[c][b] \/ IsAncestor(local[c][b], local'[c][b])
      BY <2>2, <3>2, <3>3 DEF IsAncestor
    <3>5. QED
      BY <2>1, <2>6, <3>4
  <2>7. QED
    BY <1>1, <2>3, <2>4, <2>5, <2>6, ImportWrites
<1>2. Spec => [][Kept]_vars
  BY <1>1, TurnsInvariant, PTL DEF Spec
<1>3. QED
  BY <1>2 DEF ImportKeepsDeveloperWork

(***************************************************************************)
(* No import names a projection of its own branch.  A marker never         *)
(* changes, and neither does the commit it names, so the property is kept  *)
(* once the one step that writes an import is known to keep it.            *)
(***************************************************************************)
NotOwn(db, marker) ==
    marker.dir = "DestToSource" =>
        /\ marker.counterpart \in 1 .. Len(db)
        /\ db[marker.counterpart].marker.dir = "SourceToDest" =>
              db[marker.counterpart].marker.branch # marker.branch

ForeignImports(db) == \A o \in 1 .. Len(db) : NotOwn(db, db[o].marker)

LEMMA ForeignImportsSuffice == ForeignImports(odb) => OwnMirrorNeverImported
BY DEF ForeignImports, NotOwn, OwnMirrorNeverImported, VerifySelf, Verify, Counterpart, Oids

LEMMA WriteForeign ==
    ASSUME ObjectDatabase(odb), ForeignImports(odb), NEW parents, NEW tree, NEW marker,
           Write(parents, tree, marker), NotOwn(odb, marker)
    PROVE  ForeignImports(odb')
<1>1. /\ Extends(odb, odb') /\ Len(odb') = NextOid /\ odb'[NextOid].marker = marker
      /\ NextOid = Len(odb) + 1 /\ Len(odb) \in Nat
  BY WriteAppends DEF NextOid, ObjectDatabase
<1>2. ASSUME NEW m, NotOwn(odb, m) PROVE NotOwn(odb', m)
  BY <1>1, <1>2 DEF NotOwn, Extends
<1>3. ASSUME NEW o \in 1 .. Len(odb') PROVE NotOwn(odb', odb'[o].marker)
  <2>1. CASE o \in 1 .. Len(odb)
    <3>1. odb'[o] = odb[o] /\ NotOwn(odb, odb[o].marker)
      BY <1>1, <2>1 DEF Extends, ForeignImports
    <3>2. QED
      BY <1>2, <3>1
  <2>2. CASE o = NextOid
    BY <1>1, <1>2, <2>2
  <2>3. QED
    BY <1>1, <2>1, <2>2
<1>4. QED
  BY <1>3 DEF ForeignImports

(* What a run writes is a projection, or the import of a commit that its   *)
(* branch did not project.                                                 *)
LEMMA RunWrites ==
    ASSUME SyncInv, NEW c \in Clones, StartRun(c) \/ Sync(c) \/ Crash(c)
    PROVE  \/ odb' = odb
           \/ \E parents, tree, marker : Write(parents, tree, marker) /\ NotOwn(odb, marker)
<1>1. \A branch, o : NotOwn(odb, Marker("SourceToDest", branch, o))
  BY DEF NotOwn, Marker
<1>2. CASE ReplayToSource(c)
  <2> DEFINE o == Head(job[c].pending)
             b == job[c].branch
             marker == Marker("DestToSource", b, o)
  <2>1. pc[c] = "import_build" /\ job[c].pending # <<>>
    BY <1>2 DEF ReplayToSource
  <2>2. o \in Oids
    <3>1. job[c].pending \in Seq(have[c]) /\ have[c] \subseteq Oids
      BY <2>1, Untouched DEF CloneInv, JobRefs
    <3>2. QED
      BY <2>1, <3>1, HeadTailProperties
  <2>3. odb' = odb \/ (~OwnMirror(o, b) /\ \E parents, tree : Write(parents, tree, marker))
    BY <1>2 DEF ReplayToSource
  <2> HIDE DEF o, b
  <2>4. ~OwnMirror(o, b) => NotOwn(odb, marker)
    BY <2>2 DEF NotOwn, Marker, OwnMirror, Verify, Oids
  <2>5. QED
    BY <2>3, <2>4
<1>3. CASE PlanBranch(c)
  <2>1. odb' = odb \/ \E v, reuse : PlanBuild(c, v, reuse)
    BY <1>3 DEF PlanBranch
  <2>2. \/ odb' = odb
        \/ \E parents, tree, branch, o : Write(parents, tree, Marker("SourceToDest", branch, o))
    BY <2>1 DEF PlanBuild
  <2>3. QED
    BY <1>1, <2>2
<1>4. CASE ReplayToDest(c) \/ SealToDest(c)
  <2>1. \/ odb' = odb
        \/ \E parents, tree, branch, o : Write(parents, tree, Marker("SourceToDest", branch, o))
    BY <1>4 DEF ReplayToDest, SealToDest
  <2>2. QED
    BY <1>1, <2>1
<1>5. QED
  BY <1>2, <1>3, <1>4 DEF StartRun, Crash, Sync, FetchHeads, SkipImport, BeginImport,
     RefetchSource, NothingToPush, PushToSource, AdvanceLocalSourceBranch,
     ReconstructMappingIndex, SelectNextBranch, FetchDest, PushToDest, PushRejected, Finish

LEMMA NextForeign == SyncInv /\ ForeignImports(odb) /\ [Next]_vars => ForeignImports(odb')
<1> SUFFICES ASSUME SyncInv, ForeignImports(odb), [Next]_vars PROVE ForeignImports(odb')
  OBVIOUS
<1>1. ObjectDatabase(odb) /\ NotOwn(odb, NoMarker)
  BY DEF SyncInv, NotOwn, NoMarker
<1>2. CASE \E c \in Clones : StartRun(c) \/ Sync(c) \/ Crash(c)
  BY <1>1, <1>2, RunWrites, WriteForeign
<1>3. CASE Environment
  BY <1>1, <1>3, EnvironmentWrites, WriteForeign
<1>4. CASE UNCHANGED vars
  BY <1>4 DEF vars
<1>5. QED
  BY <1>2, <1>3, <1>4 DEF Next

LEMMA InitForeign == Init => ForeignImports(odb)
<1> SUFFICES ASSUME Init PROVE ForeignImports(odb)
  OBVIOUS
<1>1. PICK origin \in Origins : odb = Histories[origin]
  BY DEF Init
<1>2. origin \in {"graft", "merge", "orphan", "mirrored"}
  BY <1>1, HistoryAssumption DEF Histories
<1>3. /\ SetupMarker.dir = "Setup" /\ NoMarker.dir = "None"
      /\ \A branch, o : Marker("SourceToDest", branch, o).dir = "SourceToDest"
  BY DEF SetupMarker, Marker, NoMarker
<1>4. \A i, tree : Root(i, tree).marker = NoMarker
  BY DEF Root
<1>5. \A i, parents, tree, marker, line : Child(i, parents, tree, marker, line).marker = marker
  BY DEF Child
<1>6. ASSUME NEW o \in 1 .. Len(odb) PROVE odb[o].marker.dir # "DestToSource"
  <2>1. CASE origin = "graft"
    BY <1>1, <1>3, <1>4, <1>5, <1>6, <2>1 DEF Histories
  <2>2. CASE origin = "merge"
    BY <1>1, <1>3, <1>4, <1>5, <1>6, <2>2 DEF Histories
  <2>3. CASE origin = "orphan"
    BY <1>1, <1>3, <1>4, <1>5, <1>6, <2>3 DEF Histories
  <2>4. CASE origin = "mirrored"
    BY <1>1, <1>3, <1>4, <1>5, <1>6, <2>4 DEF Histories
  <2>5. QED
    BY <1>2, <2>1, <2>2, <2>3, <2>4
<1>7. QED
  BY <1>6 DEF ForeignImports, NotOwn

(* No source commit ever imports a projection of its own branch: what a    *)
(* run mirrored comes back to it neither from dest's own tip nor through   *)
(* another branch, a customer's merge, a lost race or a crash.             *)
THEOREM OwnMirrorNeverImportedHolds == Spec => []OwnMirrorNeverImported
<1>1. Init => SyncInv /\ ForeignImports(odb)
  BY InitSyncInv, InitForeign
<1>2. SyncInv /\ ForeignImports(odb) /\ [Next]_vars => (SyncInv /\ ForeignImports(odb))'
  BY NextSyncInv, NextForeign
<1>3. QED
  BY <1>1, <1>2, ForeignImportsSuffice, PTL DEF Spec

(***************************************************************************)
(* The tips a run pushes.  Nothing that came from source has a projection  *)
(* in its history; what a run builds on is a commit of the source tip that *)
(* it works for, or ends in a projection that names one.  TipsInv says so  *)
(* of every ref and of every step between the choice of a branch and its   *)
(* push.                                                                   *)
(***************************************************************************)
SourceSide(db, o) == \A a \in db[o].anc : db[a].marker.dir # "SourceToDest"
SideRef(db, o) == o # NoOid => SourceSide(db, o)

Marked(db, o, b, tip) ==
    /\ db[o].line[1] = o
    /\ \E x \in db[tip].anc : db[o].marker = Marker("SourceToDest", b, x)

(* AlreadyOf, of a database. *)
Shown(db, o, b, tip) ==
    \/ db[o].marker.dir = "SourceToDest" /\ db[o].marker.branch = b
    \/ \E m \in db[tip].anc :
          /\ \/ db[m].marker.dir = "Setup"
             \/ db[m].marker.dir = "DestToSource" /\ db[m].marker.branch = b
          /\ db[m].marker.counterpart = o

Planned(db, j) ==
    /\ j.boundary \in db[j.tip].anc /\ j.shared \in db[j.tip].anc \cup {NoOid}
    /\ j.pending \in Seq(db[j.tip].anc)
    /\ j.built # {} \/ j.bridge # NoOid => Marked(db, j.chain, j.branch, j.tip)
    /\ j.built = {} /\ j.bridge = NoOid /\ j.shared = NoOid => j.chain = j.base

Sealed(db, j) ==
    \/ Marked(db, j.chain, j.branch, j.tip)
    \/ /\ j.chain = j.base /\ (j.seen = NoOid \/ j.mode = "ForceMirrorOnly")
       /\ j.chain \in db[j.tip].anc \/ Shown(db, j.chain, j.branch, j.tip)

TipJob(db, p, j) ==
    /\ p \in {"import_build", "import_advance"} => SourceSide(db, j.chain)
    /\ p \in Mirroring => SourceSide(db, j.tip)
    /\ p \in {"fetch_dest", "plan"} => j.built = {}
    /\ p = "build" => Planned(db, j)
    /\ p = "push_dest" => Sealed(db, j)

TipsInv ==
    /\ \A b \in Branches : SideRef(odb, src[b])
    /\ \A c \in Clones, b \in Branches : SideRef(odb, local[c][b])
    /\ \A c \in Clones : TipJob(odb, pc[c], job[c])


LEMMA SideKept ==
    ASSUME NEW db, NEW larger, ObjectDatabase(db), Extends(db, larger), NEW o \in 1 .. Len(db)
    PROVE  /\ larger[o] = db[o] /\ larger[o].anc = db[o].anc
           /\ \A a \in db[o].anc : larger[a] = db[a]
           /\ SourceSide(db, o) => SourceSide(larger, o)
<1>1. larger[o] = db[o] /\ db[o].anc \subseteq 1 .. Len(db)
  <2>1. WellFormed(db, o) /\ Len(db) \in Nat
    BY DEF ObjectDatabase
  <2>2. db[o].anc \subseteq 1 .. o
    BY <2>1 DEF WellFormed
  <2>3. QED
    BY <2>1, <2>2 DEF Extends
<1>2. \A a \in db[o].anc : larger[a] = db[a]
  BY <1>1 DEF Extends
<1>3. QED
  BY <1>1, <1>2 DEF SourceSide

LEMMA SideRefKept ==
    ASSUME NEW db, NEW larger, ObjectDatabase(db), Extends(db, larger),
           NEW o \in 0 .. Len(db), SideRef(db, o)
    PROVE  SideRef(larger, o)
BY SideKept DEF SideRef, NoOid, ObjectDatabase

LEMMA TipJobKept ==
    ASSUME NEW db, NEW larger, ObjectDatabase(db), Extends(db, larger), NEW H, Closed(db, H),
           NEW p, NEW r, NEW j, JobRefs(H, p, r, j), TipJob(db, p, j)
    PROVE  TipJob(larger, p, j)
<1>1. \A o \in H : o \in 1 .. Len(db)
  BY DEF Closed
<1>2. /\ p \in Mirroring => j.tip \in 1 .. Len(db)
      /\ p \in {"import_build", "import_advance", "build", "push_dest"} => j.chain \in 1 .. Len(db)
  BY <1>1 DEF JobRefs
<1>3. p \in {"import_build", "import_advance"} => SourceSide(larger, j.chain)
  BY <1>2, SideKept DEF TipJob
<1>4. p \in Mirroring => SourceSide(larger, j.tip)
  BY <1>2, SideKept DEF TipJob
<1>5. p \in {"build", "push_dest"} =>
        /\ larger[j.tip].anc = db[j.tip].anc /\ larger[j.chain] = db[j.chain]
        /\ \A a \in db[j.tip].anc : larger[a] = db[a]
  BY <1>2, SideKept DEF Mirroring
<1>6. p = "build" => Planned(larger, j)
  BY <1>5 DEF TipJob, Planned, Marked
<1>7. p = "push_dest" => Sealed(larger, j)
  <2>1. SUFFICES ASSUME p = "push_dest" PROVE Sealed(larger, j)
    OBVIOUS
  <2>2. CASE Marked(db, j.chain, j.branch, j.tip)
    BY <1>5, <2>1, <2>2 DEF Sealed, Marked
  <2>3. CASE Shown(db, j.chain, j.branch, j.tip)
    <3>1. Shown(larger, j.chain, j.branch, j.tip)
      BY <1>5, <2>1, <2>3 DEF Shown
    <3>2. QED
      BY <1>5, <2>1, <3>1 DEF TipJob, Sealed, Marked
  <2>4. QED
    BY <1>5, <2>1, <2>2, <2>3 DEF TipJob, Sealed
<1>8. QED
  BY <1>3, <1>4, <1>6, <1>7 DEF TipJob

(* A step of one clone's run. *)
LEMMA TipStep ==
    ASSUME SyncInv, TipsInv, NEW c \in Clones, Extends(odb, odb'),
           \A b \in Branches : SideRef(odb', src'[b]) /\ SideRef(odb', local'[c][b]),
           local' = [local EXCEPT ![c] = local'[c]],
           pc' = [pc EXCEPT ![c] = pc'[c]], job' = [job EXCEPT ![c] = job'[c]],
           TipJob(odb', pc'[c], job'[c])
    PROVE  TipsInv'
<1>1. ASSUME NEW d \in Clones
      PROVE  /\ \A b \in Branches : SideRef(odb', local'[d][b])
             /\ TipJob(odb', pc'[d], job'[d])
  <2>1. CASE d = c
    BY <2>1
  <2>2. CASE d # c
    <3>1. local'[d] = local[d] /\ pc'[d] = pc[d] /\ job'[d] = job[d]
      BY <2>2 DEF SyncInv, Table
    <3>2. CloneInv(odb, local[d], have[d], pc[d], run[d], job[d]) /\ ObjectDatabase(odb)
      BY Untouched DEF SyncInv
    <3>3. TipJob(odb', pc[d], job[d])
      BY <3>2, TipJobKept DEF TipsInv, CloneInv
    <3>4. \A b \in Branches : local[d][b] \in 0 .. Len(odb)
      BY <3>2 DEF CloneInv, Closed, NoOid, ObjectDatabase
    <3>5. \A b \in Branches : SideRef(odb', local[d][b])
      BY <3>2, <3>4, SideRefKept DEF TipsInv
    <3>6. QED
      BY <3>1, <3>3, <3>5
  <2>3. QED
    BY <2>1, <2>2
<1>2. QED
  BY <1>1 DEF TipsInv

LEMMA TipOfClone ==
    ASSUME SyncInv, TipsInv, NEW c \in Clones
    PROVE  /\ TipJob(odb, pc[c], job[c]) /\ Extends(odb, odb) /\ ObjectDatabase(odb)
           /\ \A b \in Branches : SideRef(odb, src[b]) /\ SideRef(odb, local[c][b])
           /\ DOMAIN NoJob \subseteq DOMAIN job[c] /\ Oids = 1 .. Len(odb)
           /\ JobRefs(have[c], pc[c], run[c], job[c]) /\ have[c] \subseteq Oids
           /\ Closed(odb, have[c]) /\ local[c] \in [Branches -> have[c] \cup {NoOid}]
           /\ src \in [Branches -> Oids \cup {NoOid}]
<1>1. src \in [Branches -> Oids \cup {NoOid}]
  BY DEF SyncInv, Oids, Oid0, NoOid, ObjectDatabase
<1>2. QED
  BY <1>1, Untouched DEF TipsInv, SyncInv, CloneInv, JobRefs, Extends, Oids, ObjectDatabase

Quiet == {"idle", "fetch_heads", "import", "import_refetch", "select"}

(* A step to a point of the run where no commit is in hand. *)
LEMMA TipQuiet ==
    ASSUME SyncInv, TipsInv, NEW c \in Clones, NEW p \in Quiet, pc' = [pc EXCEPT ![c] = p],
           job' = job \/ \E k : job' = [job EXCEPT ![c] = k],
           odb' = odb, src' = src, local' = local
    PROVE  TipsInv'
<1>1. /\ pc'[c] = p /\ pc' = [pc EXCEPT ![c] = pc'[c]]
      /\ job' = [job EXCEPT ![c] = job'[c]] /\ local' = [local EXCEPT ![c] = local'[c]]
  BY Untouched DEF SyncInv, Table
<1>2. TipJob(odb', pc'[c], job'[c])
  BY <1>1 DEF TipJob, Quiet, Mirroring
<1>3. \A b \in Branches : SideRef(odb', src'[b]) /\ SideRef(odb', local'[c][b])
  BY TipOfClone
<1>4. QED
  BY <1>1, <1>2, <1>3, TipOfClone, TipStep

LEMMA TipEnded ==
    ASSUME SyncInv, TipsInv, NEW c \in Clones, odb' = odb, src' = src, local' = local,
           \/ \E why : Abort(c, why)
           \/ \E halts : NextBranch(c, halts) \/ NextImport(c, halts)
    PROVE  TipsInv'
<1>1. \E p \in Quiet : pc' = [pc EXCEPT ![c] = p] /\ job' = [job EXCEPT ![c] = NoJob]
  BY DEF Abort, NextBranch, NextImport, Quiet
<1>2. QED
  BY <1>1, TipQuiet

LEMMA TipQuietSteps ==
    ASSUME SyncInv, TipsInv, NEW c \in Clones,
           \/ StartRun(c) \/ FetchHeads(c) \/ SkipImport(c) \/ NothingToPush(c)
           \/ ReconstructMappingIndex(c) \/ Finish(c) \/ PushToDest(c) \/ Crash(c)
    PROVE  TipsInv'
<1>1. odb' = odb /\ src' = src /\ local' = local
  BY DEF StartRun, FetchHeads, SkipImport, NothingToPush, ReconstructMappingIndex, Finish,
     PushToDest, Crash, remotes, clone
<1>2. \/ \E why : Abort(c, why)
      \/ \E halts : NextBranch(c, halts) \/ NextImport(c, halts)
      \/ \E p \in Quiet : /\ pc' = [pc EXCEPT ![c] = p]
                          /\ job' = job \/ \E k : job' = [job EXCEPT ![c] = k]
  <2>1. CASE StartRun(c) \/ FetchHeads(c) \/ ReconstructMappingIndex(c) \/ Finish(c)
    BY <2>1 DEF StartRun, FetchHeads, ReconstructMappingIndex, Finish, Quiet
  <2>2. CASE SkipImport(c) \/ NothingToPush(c) \/ Crash(c)
    BY <2>2 DEF SkipImport, NothingToPush, Crash
  <2>3. CASE PushToDest(c)
    BY <2>3 DEF PushToDest, Quiet
  <2>4. QED
    BY <2>1, <2>2, <2>3
<1>3. QED
  BY <1>1, <1>2, TipEnded, TipQuiet

(* The base of an import is a tip of the clone or of the source remote. *)
LEMMA TipPrepareImport ==
    ASSUME SyncInv, TipsInv, NEW c \in Clones, NEW b, NEW tip, NEW attempt,
           PrepareImport(c, b, tip, attempt), odb' = odb, src' = src,
           local' = [local EXCEPT ![c] = local'[c]],
           \A x \in Branches : SideRef(odb, local'[c][x]),
           tip # NoOid, SideRef(odb, tip)
    PROVE  TipsInv'
<1>1. \A x \in Branches : SideRef(odb', src'[x]) /\ SideRef(odb', local'[c][x])
  BY TipOfClone
<1>2. CASE Abort(c, "boundary")
  <2>1. pc' = [pc EXCEPT ![c] = "idle"] /\ job' = [job EXCEPT ![c] = NoJob]
    BY <1>2 DEF Abort
  <2>2. /\ pc'[c] = "idle" /\ pc' = [pc EXCEPT ![c] = pc'[c]]
        /\ job' = [job EXCEPT ![c] = job'[c]]
    BY <2>1 DEF SyncInv, Table
  <2>3. TipJob(odb', pc'[c], job'[c])
    BY <2>2 DEF TipJob, Mirroring
  <2>4. QED
    BY <1>1, <2>2, <2>3, TipOfClone, TipStep
<1>3. CASE ~ Abort(c, "boundary")
  <2>1. PICK boundary :
          /\ job' = [job EXCEPT ![c] =
                [NoJob EXCEPT !.branch = b, !.attempt = attempt, !.tip = tip,
                              !.seen = run[c].heads[b], !.boundary = boundary, !.chain = tip,
                              !.pending = PendingCommits(boundary, run[c].heads[b])]]
          /\ pc' = [pc EXCEPT ![c] = "import_build"]
    BY <1>3 DEF PrepareImport
  <2>2. /\ pc'[c] = "import_build" /\ pc' = [pc EXCEPT ![c] = pc'[c]]
        /\ job'[c].chain = tip /\ job' = [job EXCEPT ![c] = job'[c]]
    BY <2>1 DEF SyncInv, Table, NoJob
  <2>3. TipJob(odb', pc'[c], job'[c])
    BY <2>2 DEF TipJob, Mirroring, SideRef
  <2>4. QED
    BY <1>1, <2>2, <2>3, TipOfClone, TipStep
<1>4. QED
  BY <1>2, <1>3

LEMMA TipBeginImport ==
    ASSUME SyncInv, TipsInv, NEW c \in Clones, BeginImport(c) \/ RefetchSource(c)
    PROVE  TipsInv'
<1>1. odb' = odb /\ src' = src
  BY DEF BeginImport, RefetchSource, remotes
<1>2. CASE BeginImport(c)
  <2> DEFINE b == Head(run[c].imports)
             tip == IF local[c][b] # NoOid THEN local[c][b] ELSE src[b]
  <2>1. b \in Branches
    <3>1. run[c].imports \in Seq(Branches) /\ run[c].imports # <<>>
      BY <1>2, Untouched DEF BeginImport, CloneInv, RunRefs
    <3>2. QED
      BY <3>1, HeadTailProperties
  <2>2. \/ Abort(c, "fetch") /\ local' = local
        \/ /\ tip # NoOid /\ local' = [local EXCEPT ![c][b] = tip]
           /\ PrepareImport(c, b, tip, 0)
    BY <1>2 DEF BeginImport, clone
  <2>3. SideRef(odb, tip)
    BY <2>1, TipOfClone
  <2> HIDE DEF b, tip
  <2>4. CASE local' = [local EXCEPT ![c][b] = tip]
    <3>1. /\ local' = [local EXCEPT ![c] = local'[c]]
          /\ local'[c] = [local[c] EXCEPT ![b] = tip]
      BY <2>4 DEF SyncInv
    <3>2. \A x \in Branches : local'[c][x] \in {local[c][x], tip}
      BY <3>1, TipOfClone
    <3>3. \A x \in Branches : SideRef(odb, local'[c][x])
      BY <2>3, <3>2, TipOfClone
    <3>4. CASE Abort(c, "fetch") /\ local' = local
      BY <1>1, <3>4, TipEnded
    <3>5. CASE tip # NoOid /\ PrepareImport(c, b, tip, 0)
      BY <1>1, <2>3, <3>1, <3>3, <3>5, TipPrepareImport
    <3>6. QED
      BY <2>2, <3>4, <3>5
  <2>5. QED
    BY <1>1, <2>2, <2>4, TipEnded
<1>3. CASE RefetchSource(c)
  <2> DEFINE b == job[c].branch
  <2>1. b \in Branches /\ local' = local /\ local' = [local EXCEPT ![c] = local'[c]]
    BY <1>3, Untouched DEF RefetchSource, CloneInv, JobRefs, RunRefs, Importing
  <2>2. Abort(c, "fetch") \/ (src[b] # NoOid /\ PrepareImport(c, b, src[b], job[c].attempt))
    BY <1>3 DEF RefetchSource
  <2>3. SideRef(odb, src[b]) /\ \A x \in Branches : SideRef(odb, local'[c][x])
    BY <2>1, TipOfClone
  <2> HIDE DEF b
  <2>4. QED
    BY <1>1, <2>1, <2>2, <2>3, TipEnded, TipPrepareImport
<1>4. QED
  BY <1>2, <1>3

LEMMA SideWrite ==
    ASSUME ObjectDatabase(odb), NEW parents, NEW tree, NEW marker, Write(parents, tree, marker),
           marker.dir # "SourceToDest",
           \A i \in DOMAIN parents : parents[i] \in Oids /\ SourceSide(odb, parents[i])
    PROVE  SourceSide(odb', NextOid)
<1>1. /\ Extends(odb, odb') /\ odb'[NextOid].marker = marker
      /\ odb'[NextOid].anc = {NextOid} \cup UNION {Anc(parents[i]) : i \in DOMAIN parents}
  BY WriteAppends
<1>2. ASSUME NEW i \in DOMAIN parents, NEW a \in Anc(parents[i])
      PROVE  odb'[a].marker.dir # "SourceToDest"
  <2>1. parents[i] \in 1 .. Len(odb) /\ SourceSide(odb, parents[i])
    BY DEF Oids
  <2>2. odb'[a] = odb[a]
    BY <1>1, <2>1, SideKept DEF Anc
  <2>3. QED
    BY <2>1, <2>2 DEF SourceSide, Anc
<1>3. QED
  BY <1>1, <1>2 DEF SourceSide

LEMMA TipReplayToSource ==
    ASSUME SyncInv, TipsInv, NEW c \in Clones, ReplayToSource(c) PROVE TipsInv'
<1> DEFINE chain == job[c].chain
           o == Head(job[c].pending)
           marker == Marker("DestToSource", job[c].branch, o)
<1>1. /\ pc[c] = "import_build" /\ pc' = pc /\ src' = src /\ local' = local
      /\ pc'[c] = pc[c] /\ pc' = [pc EXCEPT ![c] = pc'[c]] /\ local' = [local EXCEPT ![c] = local'[c]]
  BY Untouched DEF ReplayToSource, remotes
<1>2. chain \in Oids /\ SourceSide(odb, chain)
  BY <1>1, TipOfClone DEF JobRefs, TipJob
<1>3. \/ /\ odb' = odb
         /\ \E k : job' = [job EXCEPT ![c] = k] /\ k.chain = chain
      \/ /\ \E tree : Write(<<chain>>, tree, marker)
         /\ \E k : job' = [job EXCEPT ![c] = k] /\ k.chain = NextOid
  <2> DEFINE j == job[c]
  <2>1. job[c] = j /\ {"pending", "chain", "conflict"} \subseteq DOMAIN j
    BY TipOfClone DEF NoJob
  <2> HIDE DEF j, o, marker
  <2>2. \/ odb' = odb /\ job' = [job EXCEPT ![c] = [j EXCEPT !.pending = Tail(j.pending)]]
        \/ odb' = odb /\ job' = [job EXCEPT ![c] = [j EXCEPT !.pending = <<>>, !.conflict = o]]
        \/ /\ \E tree : Write(<<chain>>, tree, marker)
           /\ job' = [job EXCEPT ![c] = [j EXCEPT !.pending = Tail(j.pending), !.chain = NextOid]]
    BY <2>1 DEF ReplayToSource, o, marker
  <2> DEFINE skipped == [j EXCEPT !.pending = Tail(j.pending)]
             stopped == [j EXCEPT !.pending = <<>>, !.conflict = o]
             built == [j EXCEPT !.pending = Tail(j.pending), !.chain = NextOid]
  <2>3. skipped.chain = chain /\ stopped.chain = chain /\ built.chain = NextOid
    BY <2>1
  <2> HIDE DEF skipped, stopped, built
  <2>4. QED
    BY <2>2, <2>3 DEF skipped, stopped, built
<1> HIDE DEF chain, o
<1>4. CASE odb' = odb /\ \E k : job' = [job EXCEPT ![c] = k] /\ k.chain = chain
  <2>1. job'[c].chain = chain /\ job' = [job EXCEPT ![c] = job'[c]]
    BY <1>4 DEF SyncInv, Table
  <2>2. TipJob(odb', pc'[c], job'[c])
    BY <1>1, <1>2, <1>4, <2>1 DEF TipJob, Mirroring
  <2>3. \A b \in Branches : SideRef(odb', src'[b]) /\ SideRef(odb', local'[c][b])
    BY <1>1, <1>4, TipOfClone
  <2>4. QED
    BY <1>1, <1>4, <2>1, <2>2, <2>3, TipOfClone, TipStep
<1>5. CASE /\ \E tree : Write(<<chain>>, tree, marker)
           /\ \E k : job' = [job EXCEPT ![c] = k] /\ k.chain = NextOid
  <2>1. job'[c].chain = NextOid /\ job' = [job EXCEPT ![c] = job'[c]]
    BY <1>5 DEF SyncInv, Table
  <2>2. marker.dir # "SourceToDest" /\ ObjectDatabase(odb)
    BY TipOfClone DEF Marker
  <2> HIDE DEF marker
  <2>3. SourceSide(odb', NextOid) /\ Extends(odb, odb')
    BY <1>2, <1>5, <2>2, SideWrite, WriteAppends
  <2>4. TipJob(odb', pc'[c], job'[c])
    BY <1>1, <2>1, <2>3 DEF TipJob, Mirroring
  <2>5. ASSUME NEW b \in Branches PROVE SideRef(odb', src'[b]) /\ SideRef(odb', local'[c][b])
    <3>1. src[b] \in 0 .. Len(odb) /\ local[c][b] \in 0 .. Len(odb)
      BY TipOfClone DEF NoOid, ObjectDatabase
    <3>2. QED
      BY <1>1, <2>3, <3>1, TipOfClone, SideRefKept
  <2>6. QED
    BY <1>1, <2>1, <2>3, <2>4, <2>5, TipStep
<1>6. QED
  BY <1>3, <1>4, <1>5

LEMMA TipPushToSource ==
    ASSUME SyncInv, TipsInv, NEW c \in Clones, PushToSource(c) PROVE TipsInv'
<1> DEFINE b == job[c].branch
           chain == job[c].chain
<1>1. odb' = odb /\ local' = local /\ pc[c] = "import_build"
      /\ local' = [local EXCEPT ![c] = local'[c]]
  BY Untouched DEF PushToSource, clone
<1>2. CASE (\E why : Abort(c, why)) /\ src' = src
  BY <1>1, <1>2, TipEnded
<1>3. CASE /\ pc' = [pc EXCEPT ![c] = "import_refetch"] /\ src' = src
           /\ \E k : job' = [job EXCEPT ![c] = k]
  BY <1>1, <1>3, TipQuiet DEF Quiet
<1>4. CASE /\ src' = [src EXCEPT ![b] = chain]
           /\ pc' = [pc EXCEPT ![c] = "import_advance"]
           /\ job' = [job EXCEPT ![c].expected = local[c][b]]
  <2>1. /\ job'[c].chain = chain /\ job' = [job EXCEPT ![c] = job'[c]]
        /\ pc'[c] = "import_advance" /\ pc' = [pc EXCEPT ![c] = pc'[c]]
    BY <1>4, TipOfClone DEF SyncInv, Table, NoJob
  <2>2. SourceSide(odb, chain)
    BY <1>1, TipOfClone DEF TipJob
  <2> HIDE DEF chain, b
  <2>3. TipJob(odb', pc'[c], job'[c])
    BY <1>1, <2>1, <2>2 DEF TipJob, Mirroring
  <2>4. ASSUME NEW x \in Branches PROVE SideRef(odb', src'[x]) /\ SideRef(odb', local'[c][x])
    <3>1. src'[x] \in {src[x], chain}
      BY <1>4, TipOfClone
    <3>2. QED
      BY <1>1, <2>2, <3>1, TipOfClone DEF SideRef
  <2>5. QED
    BY <1>1, <2>1, <2>3, <2>4, TipOfClone, TipStep
<1>5. QED
  <2>1. \/ (\E why : Abort(c, why)) /\ src' = src
        \/ /\ pc' = [pc EXCEPT ![c] = "import_refetch"] /\ src' = src
           /\ job' = [job EXCEPT ![c].attempt = @ + 1]
        \/ /\ src' = [src EXCEPT ![b] = chain]
           /\ pc' = [pc EXCEPT ![c] = "import_advance"]
           /\ job' = [job EXCEPT ![c].expected = local[c][b]]
    BY DEF PushToSource
  <2>2. QED
    BY <1>2, <1>3, <1>4, <2>1

LEMMA TipAdvance ==
    ASSUME SyncInv, TipsInv, NEW c \in Clones, AdvanceLocalSourceBranch(c) PROVE TipsInv'
<1> DEFINE b == job[c].branch
           chain == job[c].chain
<1>1. odb' = odb /\ src' = src /\ pc[c] = "import_advance"
  BY DEF AdvanceLocalSourceBranch, remotes
<1>2. CASE local' = local
  <2>1. \E p \in Quiet : pc' = [pc EXCEPT ![c] = p] /\ job' = [job EXCEPT ![c] = NoJob]
    BY DEF AdvanceLocalSourceBranch, Abort, NextImport, Quiet
  <2>2. QED
    BY <1>1, <1>2, <2>1, TipQuiet
<1>3. CASE local' = [local EXCEPT ![c][b] = chain]
  <2>1. PICK p \in Quiet : pc' = [pc EXCEPT ![c] = p] /\ job' = [job EXCEPT ![c] = NoJob]
    BY DEF AdvanceLocalSourceBranch, Abort, NextImport, Quiet
  <2>2. /\ pc'[c] = p /\ pc' = [pc EXCEPT ![c] = pc'[c]] /\ job' = [job EXCEPT ![c] = job'[c]]
    BY <2>1 DEF SyncInv, Table
  <2>3. TipJob(odb', pc'[c], job'[c])
    BY <2>2 DEF TipJob, Quiet, Mirroring
  <2>4. SourceSide(odb, chain)
    BY <1>1, TipOfClone DEF TipJob
  <2> HIDE DEF b, chain
  <2>5. /\ local' = [local EXCEPT ![c] = local'[c]]
        /\ local'[c] = [local[c] EXCEPT ![b] = chain]
    BY <1>3 DEF SyncInv
  <2>6. ASSUME NEW x \in Branches PROVE SideRef(odb', src'[x]) /\ SideRef(odb', local'[c][x])
    <3>1. local'[c][x] \in {local[c][x], chain}
      BY <2>5, TipOfClone
    <3>2. QED
      BY <1>1, <2>4, <3>1, TipOfClone DEF SideRef
  <2>7. QED
    BY <1>1, <2>2, <2>3, <2>5, <2>6, TipOfClone, TipStep
<1>4. QED
  BY <1>2, <1>3 DEF AdvanceLocalSourceBranch

LEMMA TipSelect ==
    ASSUME SyncInv, TipsInv, NEW c \in Clones, SelectNextBranch(c) PROVE TipsInv'
<1>1. PICK b \in run[c].remaining :
        job' = [job EXCEPT ![c] = [NoJob EXCEPT !.branch = b, !.tip = local[c][b]]]
  BY DEF SelectNextBranch
<1>2. /\ odb' = odb /\ src' = src /\ local' = local /\ pc' = [pc EXCEPT ![c] = "fetch_dest"]
      /\ local' = [local EXCEPT ![c] = local'[c]]
  BY Untouched DEF SelectNextBranch, remotes, clone
<1>3. /\ pc'[c] = "fetch_dest" /\ pc' = [pc EXCEPT ![c] = pc'[c]]
      /\ job'[c].tip = local[c][b] /\ job'[c].built = {} /\ job' = [job EXCEPT ![c] = job'[c]]
  BY <1>1, <1>2 DEF SyncInv, Table, NoJob
<1>4. b \in Branches /\ local[c][b] # NoOid
  BY Untouched DEF CloneInv, RunRefs
<1>5. TipJob(odb', pc'[c], job'[c])
  BY <1>2, <1>3, <1>4, TipOfClone DEF TipJob, SideRef, Mirroring
<1>6. \A x \in Branches : SideRef(odb', src'[x]) /\ SideRef(odb', local'[c][x])
  BY <1>2, TipOfClone
<1>7. QED
  BY <1>2, <1>3, <1>5, <1>6, TipOfClone, TipStep

(* A step that works on for the same tip. *)
LEMMA TipGoesOn ==
    ASSUME SyncInv, TipsInv, NEW c \in Clones, Extends(odb, odb'), src' = src, local' = local,
           pc[c] \in Mirroring, NEW p \in Mirroring, pc' = [pc EXCEPT ![c] = p],
           job' = [job EXCEPT ![c] = job'[c]], job'[c].tip = job[c].tip,
           p \in {"fetch_dest", "plan"} => job'[c].built = {},
           p = "build" => Planned(odb', job'[c]), p = "push_dest" => Sealed(odb', job'[c])
    PROVE  TipsInv'
<1>1. /\ pc'[c] = p /\ pc' = [pc EXCEPT ![c] = pc'[c]]
      /\ local' = [local EXCEPT ![c] = local'[c]]
  BY Untouched DEF SyncInv, Table
<1>2. SourceSide(odb, job[c].tip) /\ job[c].tip \in 1 .. Len(odb)
  BY TipOfClone DEF TipJob, JobRefs
<1>3. SourceSide(odb', job'[c].tip)
  BY <1>2, TipOfClone, SideKept
<1>4. TipJob(odb', pc'[c], job'[c])
  BY <1>1, <1>3 DEF TipJob, Mirroring
<1>5. ASSUME NEW b \in Branches PROVE SideRef(odb', src'[b]) /\ SideRef(odb', local'[c][b])
  <2>1. src[b] \in 0 .. Len(odb) /\ local[c][b] \in 0 .. Len(odb)
    BY TipOfClone DEF NoOid, ObjectDatabase
  <2>2. QED
    BY <2>1, TipOfClone, SideRefKept
<1>6. QED
  BY <1>1, <1>4, <1>5, TipStep

LEMMA TipFetchDest == ASSUME SyncInv, TipsInv, NEW c \in Clones, FetchDest(c) PROVE TipsInv'
<1>1. odb' = odb /\ src' = src /\ local' = local /\ pc[c] = "fetch_dest"
  BY DEF FetchDest, remotes
<1>2. CASE (\E why : Abort(c, why)) \/ \E halts : NextBranch(c, halts)
  BY <1>1, <1>2, TipEnded
<1>3. CASE /\ pc' = [pc EXCEPT ![c] = "plan"]
           /\ \E seen, mode : job' = [job EXCEPT ![c] = [job[c] EXCEPT !.seen = seen, !.mode = mode]]
  <2>1. /\ job' = [job EXCEPT ![c] = job'[c]] /\ job'[c].tip = job[c].tip
        /\ job'[c].built = job[c].built
    <3>1. PICK seen, mode :
             job' = [job EXCEPT ![c] = [job[c] EXCEPT !.seen = seen, !.mode = mode]]
      BY <1>3
    <3> DEFINE j == [job[c] EXCEPT !.seen = seen, !.mode = mode]
    <3>2. j.tip = job[c].tip /\ j.built = job[c].built
      BY TipOfClone DEF NoJob
    <3> HIDE DEF j
    <3>3. job' = [job EXCEPT ![c] = j] /\ job'[c] = j
      BY <3>1 DEF SyncInv, Table, j
    <3>4. QED
      BY <3>2, <3>3
  <2>2. job[c].built = {}
    BY <1>1, TipOfClone DEF TipJob
  <2>3. QED
    BY <1>1, <1>3, <2>1, <2>2, TipOfClone, TipGoesOn DEF Mirroring
<1>4. QED
  <2> DEFINE b == job[c].branch
             exists == run[c].exists[b] = "yes" \/ (run[c].exists[b] = "ask" /\ dst[b] # NoOid)
             seen == IF exists THEN dst[b] ELSE NoOid
             mode == IF b \in run[c].recreate THEN "CreateOnly" ELSE "FastForwardOnly"
  <2>1. \/ NextBranch(c, {b})
        \/ Abort(c, "fetch")
        \/ /\ pc' = [pc EXCEPT ![c] = "plan"]
           /\ job' = [job EXCEPT ![c].seen = seen, ![c].mode = mode]
    BY DEF FetchDest
  <2>2. job' = [job EXCEPT ![c].seen = seen, ![c].mode = mode] =>
          job' = [job EXCEPT ![c] = [job[c] EXCEPT !.seen = seen, !.mode = mode]]
    OBVIOUS
  <2> HIDE DEF seen, mode
  <2>3. QED
    BY <1>2, <1>3, <2>1, <2>2

LEMMA TipPushRejected ==
    ASSUME SyncInv, TipsInv, NEW c \in Clones, PushRejected(c) PROVE TipsInv'
<1>1. odb' = odb /\ src' = src /\ local' = local /\ pc[c] = "push_dest"
  BY DEF PushRejected, remotes, clone
<1>2. CASE (\E why : Abort(c, why)) \/ \E halts : NextBranch(c, halts)
  BY <1>1, <1>2, TipEnded
<1>3. CASE /\ pc' = [pc EXCEPT ![c] = "fetch_dest"]
           /\ job' = [job EXCEPT ![c] = [NoJob EXCEPT !.branch = job[c].branch, !.tip = job[c].tip,
                                                      !.attempt = job[c].attempt + 1]]
  <2>1. /\ job' = [job EXCEPT ![c] = job'[c]] /\ job'[c].tip = job[c].tip
        /\ job'[c].built = {}
    BY <1>3 DEF SyncInv, Table, NoJob
  <2>2. QED
    BY <1>1, <1>3, <2>1, TipOfClone, TipGoesOn DEF Mirroring
<1>4. QED
  BY <1>2, <1>3 DEF PushRejected

(* A projection written for a commit of the tip marks the chain. *)
LEMMA WriteMarks ==
    ASSUME ObjectDatabase(odb), NEW parents \in Seq(Oids), NEW tree, NEW b,
           NEW tip \in Oids, NEW o \in Anc(tip), Write(parents, tree, Marker("SourceToDest", b, o))
    PROVE  Extends(odb, odb') /\ odb'[tip].anc = odb[tip].anc /\ Marked(odb', NextOid, b, tip)
<1>1. Extends(odb, odb') /\ odb'[NextOid].marker = Marker("SourceToDest", b, o)
  BY WriteAppends
<1>2. odb'[NextOid].line[1] = NextOid
  BY LineBeginsWithItself
<1>3. odb'[tip].anc = odb[tip].anc
  BY <1>1, SideKept DEF Oids
<1>4. QED
  BY <1>1, <1>2, <1>3 DEF Marked, Anc

LEMMA TipPlanBuild ==
    ASSUME SyncInv, TipsInv, NEW c \in Clones, pc[c] = "plan", src' = src, local' = local,
           NEW v, NEW reuse, v.base \in have[c], v.boundary \in Anc(job[c].tip),
           \/ reuse.kind = "Replay" /\ reuse.shared = NoOid
           \/ /\ reuse.kind \in {"FastForward", "Bridge"}
              /\ reuse.shared \in Anc(job[c].tip) /\ reuse.projection \in have[c],
           PlanBuild(c, v, reuse)
    PROVE  TipsInv'
<1> DEFINE tip == job[c].tip
           b == job[c].branch
           chain == IF reuse.kind = "Bridge" THEN NextOid
                    ELSE IF reuse.kind = "FastForward" THEN reuse.projection ELSE v.base
           pending == PendingCommits(IF reuse.kind = "Replay" THEN v.boundary ELSE reuse.shared, tip)
           advertised == IF v.mode = "ForceMirrorOnly" THEN src[b] ELSE NoOid
           bridge == IF reuse.kind = "Bridge" THEN NextOid ELSE NoOid
           next == [job[c] EXCEPT !.boundary = v.boundary, !.base = v.base, !.mode = v.mode,
                       !.chain = chain, !.pending = pending, !.shared = reuse.shared,
                       !.advertised = advertised, !.bridge = bridge]
<1>1. /\ tip \in Oids /\ have[c] \subseteq Oids /\ job[c].built = {} /\ ObjectDatabase(odb)
      /\ DOMAIN NoJob \subseteq DOMAIN job[c]
  BY TipOfClone DEF TipJob, JobRefs, Mirroring
<1>2. pending \in Seq(Anc(tip))
  BY <1>1, PendingCommitsOfTip
<1>3. job' = [job EXCEPT ![c] = next] /\ pc' = [pc EXCEPT ![c] = "build"]
  BY DEF PlanBuild
<1>4. \/ reuse.kind = "Bridge" /\ \E tree : Write(<<v.base, reuse.projection>>, tree,
                                                  Marker("SourceToDest", b, reuse.shared))
      \/ reuse.kind # "Bridge" /\ odb' = odb
  BY DEF PlanBuild
<1> HIDE DEF pending, advertised
<1>5. /\ next.tip = tip /\ next.branch = b /\ next.built = {} /\ next.boundary = v.boundary
      /\ next.base = v.base /\ next.chain = chain /\ next.pending = pending
      /\ next.shared = reuse.shared /\ next.bridge = bridge
  BY <1>1 DEF NoJob
<1> HIDE DEF next
<1>6. Extends(odb, odb') /\ odb'[tip].anc = Anc(tip) /\ Planned(odb', next)
  <2>1. CASE reuse.kind = "Bridge"
    <3>1. <<v.base, reuse.projection>> \in Seq(Oids)
      BY <1>1, <2>1, PairSeq
    <3>2. /\ Extends(odb, odb') /\ odb'[tip].anc = Anc(tip)
          /\ Marked(odb', NextOid, b, tip)
      <4>1. PICK tree : Write(<<v.base, reuse.projection>>, tree,
                              Marker("SourceToDest", b, reuse.shared))
        BY <1>4, <2>1
      <4>2. tip \in Oids /\ reuse.shared \in Anc(tip)
        BY <1>1, <2>1
      <4> HIDE DEF tip, b
      <4>3. QED
        BY <1>1, <3>1, <4>1, <4>2, WriteMarks DEF Anc
    <3>3. next.shared \in Anc(tip) /\ next.chain = NextOid /\ next.bridge # NoOid
      BY <1>1, <1>5, <2>1 DEF NextOid, NoOid, ObjectDatabase
    <3>4. QED
      BY <1>2, <1>5, <3>2, <3>3 DEF Planned
  <2>2. CASE reuse.kind # "Bridge"
    <3>1. odb' = odb /\ odb'[tip].anc = Anc(tip) /\ Extends(odb, odb')
      BY <1>4, <2>2, TipOfClone DEF Anc
    <3>2. next.bridge = NoOid /\ (next.shared = NoOid => next.chain = next.base)
      <4>1. Anc(tip) \subseteq Oids
        BY <1>1, CommitFacts
      <4>2. NoOid \notin Oids
        BY DEF Oids, NoOid
      <4>3. reuse.kind = "FastForward" => reuse.shared # NoOid
        BY <4>1, <4>2
      <4>4. QED
        BY <1>5, <2>2, <4>3
    <3>3. next.shared \in Anc(tip) \cup {NoOid}
      BY <1>5, <2>2
    <3>4. QED
      BY <1>2, <1>5, <3>1, <3>2, <3>3 DEF Planned
  <2>3. QED
    BY <2>1, <2>2
<1>7. job'[c] = next /\ job' = [job EXCEPT ![c] = job'[c]]
  BY <1>3 DEF SyncInv, Table
<1>8. QED
  BY <1>3, <1>5, <1>6, <1>7, TipGoesOn DEF Mirroring

LEMMA TipPlanBranch == ASSUME SyncInv, TipsInv, NEW c \in Clones, PlanBranch(c) PROVE TipsInv'
<1>1. pc[c] = "plan" /\ src' = src /\ local' = local
  BY DEF PlanBranch, remotes
<1>2. PICK v, pending, newest, plan :
        /\ v = Resume(c)
        /\ pending = (IF v.do = "build" THEN PendingCommits(v.boundary, job[c].tip) ELSE <<>>)
        /\ newest = NewestShared(have[c], run[c].index, pending, v.base)
        /\ plan = Plan(c, v, pending, newest)
        /\ \/ plan.do = "abort" /\ Abort(c, "resume") /\ UNCHANGED <<odb, have>>
           \/ plan.do = "halt" /\ NextBranch(c, {job[c].branch}) /\ UNCHANGED <<odb, have>>
           \/ plan.do = "skip" /\ NextBranch(c, {}) /\ UNCHANGED <<odb, have>>
           \/ plan.do = "build" /\ PlanBuild(c, v, plan.reuse)
  BY DEF PlanBranch
<1>3. CASE odb' = odb /\ ((\E why : Abort(c, why)) \/ \E halts : NextBranch(c, halts))
  BY <1>1, <1>3, TipEnded
<1>4. CASE plan.do = "build" /\ PlanBuild(c, v, plan.reuse)
  <2>0. /\ pc[c] = "plan" /\ plan.do = "build"
        /\ pending = (IF v.do = "build" THEN PendingCommits(v.boundary, job[c].tip) ELSE <<>>)
        /\ newest = NewestShared(have[c], run[c].index, pending, v.base)
        /\ plan = Plan(c, v, pending, newest)
    BY <1>1, <1>2, <1>4
  <2>1. /\ v.do = "build"
        /\ \/ plan.reuse.kind = "Replay" /\ plan.reuse.shared = NoOid
           \/ /\ plan.reuse.kind \in {"FastForward", "Bridge"}
              /\ plan.reuse.shared \in Anc(job[c].tip) /\ plan.reuse.projection \in have[c]
    BY <2>0, PlanKnown
  <2>2. v.boundary \in Anc(job[c].tip) /\ v.base \in have[c]
    BY <1>1, <1>2, <2>1, ResumeKnown
  <2>3. QED
    BY <1>1, <1>4, <2>1, <2>2, TipPlanBuild
<1>5. QED
  BY <1>2, <1>3, <1>4

(* What accounts for a dest tip: it is in the branch's history, or it is   *)
(* the branch's projection, or a graft or an import of the branch is it.   *)
LEMMA AccountedIsShown ==
    ASSUME ObjectDatabase(odb), NEW tip \in Oids, NEW o \in Anc(tip), NEW base \in Oids, NEW b,
           DestTipAccountedFor(o, base, b) \notin {"No", "NoMarker"}
    PROVE  base \in Anc(tip) \/ Shown(odb, base, b, tip)
<1>1. o \in Oids /\ Anc(o) \subseteq Anc(tip) /\ base # NoOid
  <2>1. o \in Oids /\ Anc(o) \subseteq Anc(tip)
    BY CommitFacts
  <2>2. QED
    BY <2>1 DEF Oids, NoOid
<1>2. CASE Verify(base, b, {"SourceToDest"})
  BY <1>2 DEF Verify, Shown
<1>3. CASE GraftPoint(o, base) = base
  <2>1. base \in Anc(o)
    BY <1>1, <1>3, MergeBaseCommon DEF GraftPoint
  <2>2. QED
    BY <1>1, <2>1
<1>4. CASE /\ NewestDestMarker(o, b) # NoOid
           /\ Counterpart(NewestDestMarker(o, b)) = base
  <2> DEFINE m == NewestDestMarker(o, b)
  <2>1. m \in Anc(o) /\ Verify(m, b, {"Setup", "DestToSource"})
    BY <1>1, <1>4, NewestFound
  <2>2. m \in Anc(tip) /\ Counterpart(m) = base
    BY <1>1, <1>4, <2>1
  <2> HIDE DEF m
  <2>3. QED
    BY <2>1, <2>2 DEF Verify, Shown, Counterpart, Anc
<1>5. QED
  BY <1>2, <1>3, <1>4 DEF DestTipAccountedFor

LEMMA TipReplayToDest ==
    ASSUME SyncInv, TipsInv, NEW c \in Clones, ReplayToDest(c) PROVE TipsInv'
<1> DEFINE j == job[c]
           o == Head(j.pending)
           marker == Marker("SourceToDest", j.branch, o)
           skipped == [j EXCEPT !.pending = Tail(j.pending)]
           stopped == [j EXCEPT !.pending = <<>>, !.conflict = o]
           longer == [j EXCEPT !.pending = Tail(j.pending), !.chain = NextOid,
                               !.built = j.built \cup {<<o, NextOid>>}]
<1>1. /\ pc[c] = "build" /\ pc' = [pc EXCEPT ![c] = "build"] /\ src' = src /\ local' = local
      /\ j.pending # <<>>
  BY Untouched DEF ReplayToDest, remotes
<1>2. /\ Planned(odb, j) /\ j.tip \in Oids /\ j.chain \in Oids /\ ObjectDatabase(odb)
      /\ DOMAIN NoJob \subseteq DOMAIN j
  BY <1>1, TipOfClone DEF TipJob, JobRefs, Mirroring
<1>3. /\ odb[j.tip].anc = Anc(j.tip) /\ o \in Anc(j.tip) /\ Tail(j.pending) \in Seq(Anc(j.tip))
      /\ <<>> \in Seq(Anc(j.tip))
  <2>1. j.pending \in Seq(Anc(j.tip))
    BY <1>2 DEF Planned, Anc
  <2>2. o \in Anc(j.tip) /\ Tail(j.pending) \in Seq(Anc(j.tip))
    BY <1>1, <2>1, HeadTailProperties
  <2>3. QED
    BY <2>2, EmptySeq DEF Anc
<1>4. \/ odb' = odb /\ (job' = [job EXCEPT ![c] = skipped] \/ job' = [job EXCEPT ![c] = stopped])
      \/ (\E tree : Write(<<j.chain>>, tree, marker)) /\ job' = [job EXCEPT ![c] = longer]
  BY DEF ReplayToDest
<1>5. /\ skipped.pending = Tail(j.pending) /\ skipped.tip = j.tip /\ skipped.boundary = j.boundary
      /\ skipped.shared = j.shared /\ skipped.built = j.built /\ skipped.bridge = j.bridge
      /\ skipped.chain = j.chain /\ skipped.branch = j.branch /\ skipped.base = j.base
  BY <1>2 DEF NoJob
<1>6. /\ stopped.pending = <<>> /\ stopped.tip = j.tip /\ stopped.boundary = j.boundary
      /\ stopped.shared = j.shared /\ stopped.built = j.built /\ stopped.bridge = j.bridge
      /\ stopped.chain = j.chain /\ stopped.branch = j.branch /\ stopped.base = j.base
  BY <1>2 DEF NoJob
<1>7. /\ longer.pending = Tail(j.pending) /\ longer.tip = j.tip /\ longer.boundary = j.boundary
      /\ longer.shared = j.shared /\ longer.built # {} /\ longer.chain = NextOid
      /\ longer.branch = j.branch
  BY <1>2 DEF NoJob
<1>8. CASE odb' = odb /\ (job' = [job EXCEPT ![c] = skipped] \/ job' = [job EXCEPT ![c] = stopped])
  <2>1. Planned(odb, skipped) /\ Planned(odb, stopped)
    <3> HIDE DEF skipped, stopped, o
    <3>1. QED
      BY <1>2, <1>3, <1>5, <1>6 DEF Planned
  <2> HIDE DEF skipped, stopped
  <2>2. job'[c] \in {skipped, stopped} /\ job' = [job EXCEPT ![c] = job'[c]]
    BY <1>8 DEF SyncInv, Table
  <2>3. QED
    BY <1>1, <1>5, <1>6, <1>8, <2>1, <2>2, TipOfClone, TipGoesOn DEF Mirroring
<1>9. CASE (\E tree : Write(<<j.chain>>, tree, marker)) /\ job' = [job EXCEPT ![c] = longer]
  <2> HIDE DEF longer
  <2>1. job'[c] = longer /\ job' = [job EXCEPT ![c] = job'[c]]
    BY <1>9 DEF SyncInv, Table
  <2>2. <<j.chain>> \in Seq(Oids)
    BY <1>2, SingletonSeq
  <2>3. /\ Extends(odb, odb') /\ odb'[j.tip].anc = odb[j.tip].anc
        /\ Marked(odb', NextOid, j.branch, j.tip)
    <3> HIDE DEF j, o
    <3>1. QED
      BY <1>2, <1>3, <1>9, <2>2, WriteMarks
  <2>4. Planned(odb', longer)
    <3> HIDE DEF j, o
    <3>1. QED
      BY <1>2, <1>3, <1>7, <2>3 DEF Planned
  <2>5. QED
    BY <1>1, <1>7, <2>1, <2>3, <2>4, TipGoesOn DEF Mirroring
<1>10. QED
  BY <1>4, <1>8, <1>9

LEMMA TipSeal == ASSUME SyncInv, TipsInv, NEW c \in Clones, SealToDest(c) PROVE TipsInv'
<1> DEFINE j == job[c]
           seal == SealCommit(c)
           source == IF j.shared # NoOid THEN j.shared
                     ELSE IF j.conflict # NoOid THEN j.boundary ELSE j.tip
           sealed == [j EXCEPT !.chain = NextOid]
<1>1. pc[c] = "build" /\ src' = src /\ local' = local
  BY DEF SealToDest, remotes
<1>2. /\ Planned(odb, j) /\ j.tip \in Oids /\ j.chain \in Oids /\ ObjectDatabase(odb)
      /\ DOMAIN NoJob \subseteq DOMAIN j
  BY <1>1, TipOfClone DEF TipJob, JobRefs, Mirroring
<1>3. seal.source = source /\ source \in Anc(j.tip)
  <2>1. j.tip \in Anc(j.tip)
    BY <1>2, CommitFacts
  <2>2. QED
    BY <1>2, <2>1 DEF SealCommit, Planned, Anc
<1>4. seal.kind = "chain" =>
        \/ j.built # {} \/ j.bridge # NoOid
        \/ /\ j.built = {} /\ j.bridge = NoOid /\ j.shared = NoOid
           /\ j.seen = NoOid \/ j.mode = "ForceMirrorOnly"
           /\ DestTipAccountedFor(source, j.base, j.branch) \notin {"No", "NoMarker"}
  BY DEF SealCommit, CreatesOrRebuilds, BranchScoped
<1>5. \/ odb' = odb /\ ((\E why : Abort(c, why)) \/ \E halts : NextBranch(c, halts))
      \/ /\ seal.kind = "chain" /\ pc' = [pc EXCEPT ![c] = "push_dest"]
         /\ odb' = odb /\ job' = job
      \/ /\ \E tree : Write(<<j.chain>>, tree, Marker("SourceToDest", j.branch, seal.source))
         /\ pc' = [pc EXCEPT ![c] = "push_dest"] /\ job' = [job EXCEPT ![c] = sealed]
  BY DEF SealToDest
<1> HIDE DEF seal, source
<1>6. CASE seal.kind = "chain" /\ pc' = [pc EXCEPT ![c] = "push_dest"] /\ odb' = odb /\ job' = job
  <2>1. Sealed(odb, j)
    <3>1. CASE j.built # {} \/ j.bridge # NoOid
      BY <1>2, <3>1 DEF Planned, Sealed
    <3>2. CASE /\ j.built = {} /\ j.bridge = NoOid /\ j.shared = NoOid
               /\ j.seen = NoOid \/ j.mode = "ForceMirrorOnly"
               /\ DestTipAccountedFor(source, j.base, j.branch) \notin {"No", "NoMarker"}
      <4>1. j.chain = j.base /\ j.base \in Oids
        BY <1>2, <3>2 DEF Planned
      <4>2. j.base \in Anc(j.tip) \/ Shown(odb, j.base, j.branch, j.tip)
        BY <1>2, <1>3, <3>2, <4>1, AccountedIsShown
      <4>3. QED
        BY <3>2, <4>1, <4>2 DEF Sealed, Anc
    <3>3. QED
      BY <1>4, <1>6, <3>1, <3>2
  <2>2. job'[c] = j /\ job' = [job EXCEPT ![c] = job'[c]]
    BY <1>6, Untouched
  <2>3. QED
    BY <1>1, <1>6, <2>1, <2>2, TipOfClone, TipGoesOn DEF Mirroring
<1>7. CASE /\ \E tree : Write(<<j.chain>>, tree, Marker("SourceToDest", j.branch, seal.source))
           /\ pc' = [pc EXCEPT ![c] = "push_dest"] /\ job' = [job EXCEPT ![c] = sealed]
  <2>1. sealed.chain = NextOid /\ sealed.tip = j.tip /\ sealed.branch = j.branch
    BY <1>2 DEF NoJob
  <2> HIDE DEF sealed
  <2>2. job'[c] = sealed /\ job' = [job EXCEPT ![c] = job'[c]]
    BY <1>7 DEF SyncInv, Table
  <2>3. <<j.chain>> \in Seq(Oids)
    BY <1>2, SingletonSeq
  <2>4. Extends(odb, odb') /\ Marked(odb', NextOid, j.branch, j.tip)
    <3> HIDE DEF j
    <3>1. QED
      BY <1>2, <1>3, <1>7, <2>3, WriteMarks
  <2>5. Sealed(odb', sealed)
    BY <2>1, <2>4 DEF Sealed
  <2>6. QED
    BY <1>1, <1>7, <2>1, <2>2, <2>4, <2>5, TipGoesOn DEF Mirroring
<1>8. QED
  BY <1>1, <1>5, <1>6, <1>7, TipEnded

LEMMA TipSync ==
    ASSUME SyncInv, TipsInv, NEW c \in Clones, StartRun(c) \/ Sync(c) \/ Crash(c) PROVE TipsInv'
BY TipQuietSteps, TipBeginImport, TipReplayToSource, TipPushToSource, TipAdvance, TipSelect,
   TipFetchDest, TipPlanBranch, TipReplayToDest, TipSeal, TipPushRejected DEF Sync

(* What happens outside runs: source refs move only to commits with no     *)
(* projection in their history, for dest's refs never come there.          *)
LEMMA TipEnvironmentStep ==
    ASSUME SyncInv, TipsInv, Extends(odb, odb'), UNCHANGED <<pc, job>>,
           \A b \in Branches : SideRef(odb', src'[b]),
           \A c \in Clones, b \in Branches : SideRef(odb', local'[c][b])
    PROVE  TipsInv'
<1>1. ASSUME NEW c \in Clones PROVE TipJob(odb', pc[c], job[c])
  BY TipOfClone, TipJobKept
<1>2. QED
  BY <1>1 DEF TipsInv

LEMMA SideKeptAll ==
    ASSUME SyncInv, TipsInv, Extends(odb, odb')
    PROVE  /\ \A b \in Branches : SideRef(odb', src[b])
           /\ \A c \in Clones, b \in Branches : SideRef(odb', local[c][b])
<1>1. ObjectDatabase(odb) /\ \A b \in Branches : src[b] \in 0 .. Len(odb)
  BY DEF SyncInv, Oid0
<1>2. ASSUME NEW c \in Clones, NEW b \in Branches PROVE local[c][b] \in 0 .. Len(odb)
  BY <1>1, TipOfClone DEF NoOid, ObjectDatabase
<1>3. QED
  BY <1>1, <1>2, SideRefKept DEF TipsInv

LEMMA TipDeveloperWrite ==
    ASSUME SyncInv, TipsInv, NEW c \in Clones, NEW b \in Branches, NEW parents, NEW tree,
           Write(parents, tree, NoMarker),
           \A i \in DOMAIN parents : parents[i] \in Oids /\ SourceSide(odb, parents[i]),
           local' = [local EXCEPT ![c][b] = NextOid], src' = src, UNCHANGED <<pc, job>>
    PROVE  TipsInv'
<1>1. ObjectDatabase(odb) /\ Extends(odb, odb')
  BY WriteAppends DEF SyncInv
<1>2. SourceSide(odb', NextOid)
  BY <1>1, SideWrite DEF NoMarker
<1>3. ASSUME NEW d \in Clones, NEW x \in Branches PROVE SideRef(odb', local'[d][x])
  <2>1. local'[d][x] \in {local[d][x], NextOid}
    BY DEF SyncInv
  <2>2. QED
    BY <1>1, <1>2, <2>1, SideKeptAll DEF SideRef
<1>4. QED
  BY <1>1, <1>3, SideKeptAll, TipEnvironmentStep

LEMMA TipDeveloper ==
    ASSUME SyncInv, TipsInv, NEW c \in Clones, NEW b \in Branches, NEW from \in Branches,
           \/ DevCommit(c, b) \/ DevAmend(c, b) \/ DevPush(c, b) \/ DevPull(c, b)
           \/ DevBranch(c, b, from) \/ DevMerge(c, b, from)
    PROVE  TipsInv'
<1>1. /\ \A x \in Branches : local[c][x] \in Oids \cup {NoOid}
      /\ \A x \in Branches : local[c][x] # NoOid => SourceSide(odb, local[c][x])
      /\ \A x \in Branches : SideRef(odb, src[x]) /\ SideRef(odb, local[c][x])
      /\ ObjectDatabase(odb) /\ UNCHANGED <<pc, job>>
  BY TipOfClone DEF SideRef, DevCommit, DevAmend, DevPush, DevPull, DevBranch, DevMerge
<1>2. CASE DevCommit(c, b)
  <2>1. /\ local[c][b] # NoOid /\ src' = src /\ local' = [local EXCEPT ![c][b] = NextOid]
        /\ \E tree : Write(<<local[c][b]>>, tree, NoMarker)
    BY <1>2 DEF DevCommit, remotes
  <2> DEFINE parents == <<local[c][b]>>
  <2>2. \A i \in DOMAIN parents : parents[i] \in Oids /\ SourceSide(odb, parents[i])
    BY <1>1, <2>1
  <2> HIDE DEF parents
  <2>3. QED
    BY <1>1, <2>1, <2>2, TipDeveloperWrite DEF parents
<1>3. CASE DevAmend(c, b)
  <2> DEFINE parents == odb[local[c][b]].parents
  <2>1. /\ local[c][b] # NoOid /\ src' = src /\ local' = [local EXCEPT ![c][b] = NextOid]
        /\ \E tree : Write(parents, tree, NoMarker)
    BY <1>3 DEF DevAmend, remotes
  <2>2. ASSUME NEW i \in DOMAIN parents
        PROVE  parents[i] \in Oids /\ SourceSide(odb, parents[i])
    <3>1. local[c][b] \in Oids
      BY <1>1, <2>1
    <3>2. /\ parents \in Seq(Anc(local[c][b]) \ {local[c][b]}) /\ Anc(local[c][b]) \subseteq Oids
          /\ \A a \in Anc(local[c][b]) : Anc(a) \subseteq Anc(local[c][b])
      BY <1>1, <3>1, CommitFacts
    <3>3. parents[i] \in Anc(local[c][b])
      <4> HIDE DEF parents
      <4>1. QED
        BY <3>2
    <3> HIDE DEF parents
    <3>4. QED
      BY <1>1, <2>1, <3>2, <3>3 DEF SourceSide, Anc
  <2> HIDE DEF parents
  <2>3. QED
    BY <1>1, <2>1, <2>2, TipDeveloperWrite
<1>4. CASE DevMerge(c, b, from)
  <2>1. /\ local[c][b] # NoOid /\ local[c][from] # NoOid /\ src' = src
        /\ local' = [local EXCEPT ![c][b] = NextOid]
        /\ \E tree : Write(<<local[c][b], local[c][from]>>, tree, NoMarker)
    BY <1>4 DEF DevMerge, remotes
  <2> DEFINE parents == <<local[c][b], local[c][from]>>
  <2>2. \A i \in DOMAIN parents : parents[i] \in Oids /\ SourceSide(odb, parents[i])
    BY <1>1, <2>1
  <2> HIDE DEF parents
  <2>3. QED
    BY <1>1, <2>1, <2>2, TipDeveloperWrite DEF parents
<1>5. CASE DevPush(c, b) \/ DevPull(c, b) \/ DevBranch(c, b, from)
  <2>1. odb' = odb
    BY <1>5 DEF DevPush, DevPull, DevBranch
  <2>2. ASSUME NEW x \in Branches PROVE SideRef(odb', src'[x])
    <3>1. src'[x] \in {src[x], local[c][b]}
      BY <1>5, TipOfClone DEF DevPush, DevPull, DevBranch, remotes
    <3>2. QED
      BY <1>1, <2>1, <3>1
  <2>3. ASSUME NEW d \in Clones, NEW x \in Branches PROVE SideRef(odb', local'[d][x])
    <3>1. local' = local \/ \E o \in {src[b], local[c][from]} : local' = [local EXCEPT ![c][b] = o]
      BY <1>5 DEF DevPush, DevPull, DevBranch, clone
    <3>2. local'[d][x] \in {local[d][x], src[b], local[c][from]}
      BY <3>1 DEF SyncInv
    <3>3. QED
      BY <1>1, <2>1, <3>2, TipOfClone
  <2>4. QED
    BY <1>1, <2>1, <2>2, <2>3, TipOfClone, TipEnvironmentStep
<1>6. QED
  BY <1>2, <1>3, <1>4, <1>5

LEMMA TipCustomer ==
    ASSUME SyncInv, TipsInv, NEW b \in Branches, NEW from \in Branches,
           \/ CustomerCommit(b) \/ CustomerDelete(b)
           \/ CustomerFastForward(b, from) \/ CustomerMerge(b, from)
    PROVE  TipsInv'
<1>1. src' = src /\ local' = local /\ UNCHANGED <<pc, job>>
  BY DEF CustomerCommit, CustomerDelete, CustomerFastForward, CustomerMerge, clone
<1>2. Extends(odb, odb')
  <2>1. CASE odb' = odb
    BY <2>1 DEF Extends, SyncInv, ObjectDatabase
  <2>2. ASSUME \E parents, tree : Write(parents, tree, NoMarker) PROVE Extends(odb, odb')
    BY <2>2, WriteAppends DEF SyncInv
  <2>3. CASE CustomerCommit(b) \/ CustomerDelete(b)
    BY <2>1, <2>2, <2>3 DEF CustomerCommit, CustomerDelete
  <2>4. CASE CustomerFastForward(b, from) \/ CustomerMerge(b, from)
    BY <2>1, <2>2, <2>4 DEF CustomerFastForward, CustomerMerge
  <2>5. QED
    BY <2>3, <2>4
<1>3. QED
  BY <1>1, <1>2, SideKeptAll, TipEnvironmentStep

LEMMA TipNext == SyncInv /\ TipsInv /\ [Next]_vars => TipsInv'
<1> SUFFICES ASSUME SyncInv, TipsInv, [Next]_vars PROVE TipsInv'
  OBVIOUS
<1>1. CASE \E c \in Clones : StartRun(c) \/ Sync(c) \/ Crash(c)
  BY <1>1, TipSync
<1>2. CASE Environment
  <2>1. ASSUME NEW c \in Clones, NEW b \in Branches,
               DevCommit(c, b) \/ DevAmend(c, b) \/ DevPush(c, b) \/ DevPull(c, b)
        PROVE  TipsInv'
    BY <2>1, TipDeveloper
  <2>2. ASSUME NEW c \in Clones, NEW b \in Branches, NEW from \in Branches,
               DevBranch(c, b, from) \/ DevMerge(c, b, from)
        PROVE  TipsInv'
    BY <2>2, TipDeveloper
  <2>3. ASSUME NEW b \in Branches, CustomerCommit(b) \/ CustomerDelete(b) PROVE TipsInv'
    BY <2>3, TipCustomer
  <2>4. ASSUME NEW b \in Branches, NEW from \in Branches,
               CustomerFastForward(b, from) \/ CustomerMerge(b, from)
        PROVE  TipsInv'
    BY <2>4, TipCustomer
  <2>5. QED
    BY <1>2, <2>1, <2>2, <2>3, <2>4 DEF Environment
<1>3. CASE UNCHANGED vars
  <2>1. UNCHANGED <<odb, src, local, pc, job>>
    BY <1>3 DEF vars, remotes, clone
  <2>2. QED
    BY <2>1 DEF TipsInv, TipJob, SideRef, SourceSide, Planned, Sealed, Marked, Shown
<1>4. QED
  BY <1>1, <1>2, <1>3 DEF Next

LEMMA NoProjectionAtSource ==
    ASSUME NEW origin \in Origins, NEW b \in Branches
    PROVE  SideRef(Histories[origin], SourceRefs(origin)[b])
<1> DEFINE o == SourceRefs(origin)[b]
           db == Histories[origin]
<1>1. origin \in {"graft", "merge", "orphan", "mirrored"}
  BY HistoryAssumption DEF Histories
<1>2. /\ \A i \in {1, 2, 3} \cap DOMAIN db : db[i].marker \in {NoMarker, SetupMarker}
      /\ o # NoOid => /\ db[o].anc \subseteq {1, 2, 3} \cap DOMAIN db
  <2>1. CASE origin = "graft"
    <3>1. db = Histories.graft /\ DOMAIN db = 1 .. 2 /\ o \in {2, NoOid}
      BY <2>1, GraftHistory DEF SourceRefs
    <3>2. db[1].marker = NoMarker /\ db[2].marker = SetupMarker
      BY <2>1 DEF Histories, Root, Child
    <3>3. QED
      BY <3>1, <3>2, GraftHistory
  <2>2. CASE origin = "merge"
    <3>1. db = Histories.merge /\ DOMAIN db = 1 .. 3 /\ o \in {2, 3, NoOid}
      BY <2>2, MergeHistory DEF SourceRefs
    <3>2. db[1].marker = NoMarker /\ db[2].marker = NoMarker /\ db[3].marker = SetupMarker
      BY <2>2 DEF Histories, Root, Child
    <3>3. QED
      BY <3>1, <3>2, MergeHistory
  <2>3. CASE origin = "orphan"
    <3>1. db = Histories.orphan /\ DOMAIN db = 1 .. 4 /\ o \in {2, 3, NoOid}
      BY <2>3, OrphanHistory DEF SourceRefs
    <3>2. db[1].marker = NoMarker /\ db[2].marker = SetupMarker /\ db[3].marker = NoMarker
      BY <2>3 DEF Histories, Root, Child
    <3>3. QED
      BY <3>1, <3>2, OrphanHistory
  <2>4. CASE origin = "mirrored"
    <3>1. db = Histories.mirrored /\ DOMAIN db = 1 .. 4 /\ o \in {2, 3, NoOid}
      BY <2>4, MirroredHistory DEF SourceRefs
    <3>2. db[1].marker = NoMarker /\ db[2].marker = SetupMarker /\ db[3].marker = NoMarker
      BY <2>4 DEF Histories, Root, Child
    <3>3. QED
      BY <3>1, <3>2, MirroredHistory
  <2>5. QED
    BY <1>1, <2>1, <2>2, <2>3, <2>4
<1>3. NoMarker.dir # "SourceToDest" /\ SetupMarker.dir # "SourceToDest"
  BY DEF NoMarker, SetupMarker, Marker
<1> HIDE DEF db, o
<1>4. QED
  BY <1>2, <1>3 DEF SideRef, SourceSide, db, o

LEMMA TipInit == Init => TipsInv
<1> SUFFICES ASSUME Init PROVE TipsInv
  OBVIOUS
<1>1. PICK origin \in Origins :
        /\ odb = Histories[origin] /\ src = SourceRefs(origin)
        /\ local = [c \in Clones |-> SourceRefs(origin)]
        /\ pc = [c \in Clones |-> "idle"]
  BY DEF Init
<1>2. \A c \in Clones : TipJob(odb, pc[c], job[c])
  BY <1>1 DEF TipJob, Mirroring
<1>3. QED
  BY <1>1, <1>2, NoProjectionAtSource DEF TipsInv

LEMMA TipsInvariant == Spec => [](SyncInv /\ TipsInv)
<1>1. Init => SyncInv /\ TipsInv
  BY InitSyncInv, TipInit
<1>2. SyncInv /\ TipsInv /\ [Next]_vars => (SyncInv /\ TipsInv)'
  BY NextSyncInv, TipNext
<1>3. QED
  BY <1>1, <1>2, PTL DEF Spec

LEMMA PushedTip ==
    ASSUME SyncInv, TipsInv, [Next]_vars, NEW c \in Clones, NEW b \in Branches,
           DestPush(c, b), ~PutBack(c, b)
    PROVE  DestResumePoint(have'[c], job[c].tip, dst'[b], b).kind = "Ok"
<1> DEFINE j == job[c]
<1>1. PushToDest(c) /\ j.branch = b /\ pc[c] = "push_dest"
  <2>1. DOMAIN pc = Clones
    BY DEF SyncInv, Table
  <2>2. QED
    BY <2>1, PushStep DEF DestPush
<1>2. have' = have /\ dst'[b] = j.chain
  BY <1>1 DEF PushToDest, clone, SyncInv
<1>3. /\ ObjectDatabase(odb) /\ Closed(odb, have[c]) /\ Oids = 1 .. Len(odb)
      /\ j.tip \in have[c] /\ j.chain \in have[c] /\ have[c] \subseteq Oids
      /\ SourceSide(odb, j.tip) /\ Sealed(odb, j)
  BY <1>1, TipOfClone DEF JobRefs, Mirroring, TipJob
<1>4. Anc(j.tip) \subseteq have[c] /\ \A o \in Anc(j.tip) : o \in Oids /\ o # NoOid
  BY <1>3 DEF Closed, Anc, Oids, NoOid
<1>5. CASE Marked(odb, j.chain, b, j.tip)
  <2>1. PICK x \in Anc(j.tip) : odb[j.chain].marker = Marker("SourceToDest", b, x)
    BY <1>5 DEF Marked, Anc
  <2>2. Line(j.chain)[1] = j.chain
    BY <1>5 DEF Marked, Line
  <2>3. j.chain \in Oids /\ x \in have[c] /\ x # NoOid
    BY <1>3, <1>4
  <2> HIDE DEF j
  <2>4. DestResumePoint(have[c], j.tip, j.chain, b).kind = "Ok"
    BY <1>3, <2>1, <2>2, <2>3, ResumesBehindOwnTip
  <2>5. QED
    BY <1>2, <2>4 DEF j
<1>6. CASE j.chain \in Anc(j.tip)
  <2>1. \A a \in Anc(j.chain) : odb[a].marker.dir # "SourceToDest"
    BY <1>3, <1>6, CommitFacts DEF SourceSide, Anc
  <2> HIDE DEF j
  <2>2. DestResumePoint(have[c], j.tip, j.chain, b).kind = "Ok"
    BY <1>3, <1>6, <2>1, ResumesAtGraft
  <2>3. QED
    BY <1>2, <2>2 DEF j
<1>7. CASE ~ Marked(odb, j.chain, b, j.tip) /\ j.chain \notin Anc(j.tip)
  <2>1. /\ j.chain = j.base /\ (j.seen = NoOid \/ j.mode = "ForceMirrorOnly")
        /\ Shown(odb, j.chain, b, j.tip)
    BY <1>1, <1>3, <1>7 DEF Sealed, Anc
  <2>2. AlreadyOf(b, j.base, j.tip)
    BY <2>1 DEF Shown, AlreadyOf, Verify, Counterpart, Anc
  <2>3. ~ IsAncestor(j.base, j.tip)
    BY <1>3, <1>7, <2>1 DEF IsAncestor
  <2>4. QED
    BY <2>1, <2>2, <2>3 DEF PutBack, CreatesOrRebuilds
<1>8. QED
  BY <1>5, <1>6, <1>7

(* What a run pushes to dest is a tip from which the next run finds where  *)
(* to resume, for as long as source goes on from what was pushed -- except *)
(* a commit of the branch that the run found accounted for and put back at *)
(* a ref that had gone or been rewritten: that one need not be marked for  *)
(* the branch (dest_tip_accounted_for, branch_scoped_dest_tip).            *)
THEOREM PushedTipIsResumableHolds == Spec => PushedTipIsResumable
<1> DEFINE Resumable ==
      \A c \in Clones, b \in Branches :
        DestPush(c, b) /\ ~PutBack(c, b) =>
            DestResumePoint(have'[c], job[c].tip, dst'[b], b).kind = "Ok"
<1>1. SyncInv /\ TipsInv /\ [Next]_vars => Resumable
  BY PushedTip
<1>2. Spec => [][Resumable]_vars
  BY <1>1, TipsInvariant, PTL DEF Spec
<1>3. QED
  BY <1>2 DEF PushedTipIsResumable

(***************************************************************************)
(* NoCustomerWorkDiscarded is about a forced push, and what makes one safe *)
(* is what its run read long before: dest's old tip is its own projection, *)
(* or stands for a graft or an import of this source tip.  The proof keeps *)
(* books of that.  D is dest's side of the history: what customers, or     *)
(* gitprism for dest, committed.  A graft or an import stands in for a     *)
(* dest commit while the branch it was made for still has it in the source *)
(* remote; StoodFor are the projections and the dest commits something     *)
(* stands in for, and what is in the history of one of them is KeptWork:   *)
(* it is a projection, or some stand-in has it on the dest side of its     *)
(* history.                                                                *)
(***************************************************************************)
Looped(db, i) == db[i].marker.dir \in {"Setup", "DestToSource"}
Projected(db) == {o \in 1 .. Len(db) : db[o].marker.dir = "SourceToDest"}

StandIns(db, s) ==
    {i \in 1 .. Len(db) :
        /\ Looped(db, i)
        /\ \/ db[i].marker.branch \in Forcible
           \/ /\ db[i].marker.branch \in Branches /\ s[db[i].marker.branch] # NoOid
              /\ i \in db[s[db[i].marker.branch]].anc}
StoodFor(db, s) == Projected(db) \cup {db[i].marker.counterpart : i \in StandIns(db, s)}
KeptWork(db, s) == Projected(db) \cup UNION {db[db[i].marker.counterpart].anc : i \in StandIns(db, s)}

(* Source's side: dest's first commit, which the graft is made on, is all  *)
(* it shares with dest, and every graft and import in it still stands in,  *)
(* those for a branch of X, which a run is importing, perhaps excepted.    *)
Homes(db, s, D, X) ==
    {o \in 1 .. Len(db) :
        /\ db[o].anc \cap D \subseteq {1}
        /\ \A a \in db[o].anc : Looped(db, a) => a \in StandIns(db, s) \/ db[a].marker.branch \in X}

Ledger(db, s, D) ==
    /\ Closed(db, D)
    /\ 1 \in StoodFor(db, s)
    /\ \A i \in 1 .. Len(db) : Looped(db, i) => db[i].marker.counterpart \in D
    /\ \A o \in Projected(db) :
          /\ o \in D
          /\ db[o].parents \in Seq(StoodFor(db, s))
          /\ db[o].anc \subseteq KeptWork(db, s)

WorkRun(db, s, D, r) ==
    /\ r.heads \in [Branches -> D \cup {NoOid}]
    /\ Canonicals(r.index) \subseteq StoodFor(db, s)

WorkJob(db, s, D, p, j) ==
    /\ j.seen \in D \cup {NoOid} /\ j.bridge \in StoodFor(db, s) \cup {NoOid}
    /\ \A m \in j.built : m[2] \in StoodFor(db, s)
    /\ p = "import_build" => j.pending \in Seq(D) /\ j.chain \in Homes(db, s, D, {j.branch})
    /\ p = "import_advance" => j.chain \in Homes(db, s, D, {})
    /\ p \in Mirroring => j.tip \in Homes(db, s, D, {})
    /\ p = "plan" => j.mode # "ForceMirrorOnly"
    /\ p \in {"build", "push_dest"} =>
          /\ j.chain \in StoodFor(db, s)
          /\ j.mode = "ForceMirrorOnly" => j.seen \in StoodFor(db, s) \cup {NoOid}

Work(D) ==
    /\ Ledger(odb, src, D)
    /\ src \in [Branches -> Homes(odb, src, D, {}) \cup {NoOid}]
    /\ dst \in [Branches -> D \cup {NoOid}]
    /\ \A c \in Clones :
          /\ local[c] \in [Branches -> Homes(odb, src, D, {}) \cup {NoOid}]
          /\ WorkRun(odb, src, D, run[c]) /\ WorkJob(odb, src, D, pc[c], job[c])

(* What a step that only adds commits, and to source refs only what the    *)
(* protection of the branch lets through, leaves true.                     *)
Grown(D, E) ==
    /\ D \subseteq E
    /\ StoodFor(odb, src) \subseteq StoodFor(odb', src')
    /\ \A X : Homes(odb, src, D, X) \subseteq Homes(odb', src', E, X)
    /\ Ledger(odb', src', E)

LEMMA WorkRunGrows ==
    ASSUME NEW D, NEW E, Grown(D, E), NEW r, NEW p, NEW j
    PROVE  /\ WorkRun(odb, src, D, r) => WorkRun(odb', src', E, r)
           /\ WorkJob(odb, src, D, p, j) => WorkJob(odb', src', E, p, j)
           /\ \A f : f \in [Branches -> Homes(odb, src, D, {}) \cup {NoOid}] =>
                     f \in [Branches -> Homes(odb', src', E, {}) \cup {NoOid}]
           /\ \A f : f \in [Branches -> D \cup {NoOid}] => f \in [Branches -> E \cup {NoOid}]
<1>1. j.pending \in Seq(D) => j.pending \in Seq(E)
  BY SeqMonotonic DEF Grown
<1>2. WorkRun(odb, src, D, r) => WorkRun(odb', src', E, r)
  BY DEF Grown, WorkRun
<1>3. /\ Homes(odb, src, D, {}) \subseteq Homes(odb', src', E, {})
      /\ Homes(odb, src, D, {j.branch}) \subseteq Homes(odb', src', E, {j.branch})
      /\ D \subseteq E /\ StoodFor(odb, src) \subseteq StoodFor(odb', src')
  BY DEF Grown
<1>4. WorkJob(odb, src, D, p, j) => WorkJob(odb', src', E, p, j)
  BY <1>1, <1>3 DEF WorkJob
<1>5. QED
  BY <1>2, <1>3, <1>4

(* What the two invariants say of clone c. *)
LEMMA WorkOfClone ==
    ASSUME SyncInv, NEW D, Work(D), NEW c \in Clones
    PROVE  /\ ObjectDatabase(odb) /\ Ledger(odb, src, D) /\ Oids = 1 .. Len(odb)
           /\ src \in [Branches -> Homes(odb, src, D, {}) \cup {NoOid}]
           /\ dst \in [Branches -> D \cup {NoOid}]
           /\ local[c] \in [Branches -> Homes(odb, src, D, {}) \cup {NoOid}]
           /\ WorkRun(odb, src, D, run[c]) /\ WorkJob(odb, src, D, pc[c], job[c])
           /\ DOMAIN NoRun \subseteq DOMAIN run[c] /\ DOMAIN NoJob \subseteq DOMAIN job[c]
           /\ D \subseteq Oids /\ NoOid \notin Oids
<1>1. /\ ObjectDatabase(odb) /\ Ledger(odb, src, D)
      /\ src \in [Branches -> Homes(odb, src, D, {}) \cup {NoOid}]
      /\ dst \in [Branches -> D \cup {NoOid}]
      /\ local[c] \in [Branches -> Homes(odb, src, D, {}) \cup {NoOid}]
      /\ WorkRun(odb, src, D, run[c]) /\ WorkJob(odb, src, D, pc[c], job[c])
  BY DEF SyncInv, Work
<1>2. DOMAIN NoRun \subseteq DOMAIN run[c] /\ DOMAIN NoJob \subseteq DOMAIN job[c]
  BY Untouched DEF CloneInv, RunRefs, JobRefs
<1>3. Oids = 1 .. Len(odb) /\ NoOid \notin Oids
  BY DEF Oids, NoOid
<1>4. D \subseteq Oids
  BY <1>1, <1>3 DEF Ledger, Closed
<1>5. QED
  BY <1>1, <1>2, <1>3, <1>4

(***************************************************************************)
(* How the books grow.                                                     *)
(***************************************************************************)
LEMMA StoodForIsKept ==
    ASSUME NEW D, Ledger(odb, src, D), NEW o \in StoodFor(odb, src)
    PROVE  o \in D /\ Anc(o) \subseteq KeptWork(odb, src)
<1>1. CASE o \in Projected(odb)
  BY <1>1 DEF Ledger, Anc
<1>2. CASE o \notin Projected(odb)
  <2>1. PICK i \in StandIns(odb, src) : o = odb[i].marker.counterpart
    BY <1>2 DEF StoodFor
  <2>2. i \in 1 .. Len(odb) /\ Looped(odb, i)
    BY DEF StandIns
  <2>3. QED
    BY <2>1, <2>2 DEF Ledger, KeptWork, Anc
<1>3. QED
  BY <1>1, <1>2

(* A source ref only grows, unless developers may rewrite it. *)
RefsGrow(db, s, larger, t) ==
    \A b \in Branches :
        \/ t[b] = s[b] \/ b \in Forcible \/ s[b] = NoOid
        \/ t[b] # NoOid /\ db[s[b]].anc \subseteq larger[t[b]].anc

LEMMA StandInsGrow ==
    ASSUME SyncInv, Extends(odb, odb'), RefsGrow(odb, src, odb', src'),
           NEW D, Ledger(odb, src, D)
    PROVE  /\ StandIns(odb, src) \subseteq StandIns(odb', src')
           /\ StoodFor(odb, src) \subseteq StoodFor(odb', src')
           /\ KeptWork(odb, src) \subseteq KeptWork(odb', src')
<1>1. /\ ObjectDatabase(odb) /\ Len(odb) \in Nat
      /\ \A i \in 1 .. Len(odb) : odb'[i] = odb[i] /\ i \in 1 .. Len(odb')
  BY DEF SyncInv, ObjectDatabase, Extends
<1>2. Projected(odb) \subseteq Projected(odb')
  BY <1>1 DEF Projected
<1>3. ASSUME NEW i \in StandIns(odb, src) PROVE i \in StandIns(odb', src')
  <2> DEFINE b == odb[i].marker.branch
  <2>1. i \in 1 .. Len(odb) /\ i \in 1 .. Len(odb') /\ odb'[i] = odb[i] /\ Looped(odb', i)
    BY <1>1, <1>3 DEF StandIns, Looped
  <2>2. CASE b \in Forcible
    BY <2>1, <2>2 DEF StandIns
  <2>3. CASE b \notin Forcible
    <3>1. b \in Branches /\ src[b] # NoOid /\ i \in odb[src[b]].anc
      BY <1>3, <2>3 DEF StandIns
    <3>2. src[b] \in 1 .. Len(odb)
      BY <1>1, <3>1 DEF SyncInv, Oid0, NoOid
    <3>3. src'[b] # NoOid /\ i \in odb'[src'[b]].anc
      BY <1>1, <2>3, <3>1, <3>2 DEF RefsGrow
    <3>4. QED
      BY <2>1, <3>1, <3>3 DEF StandIns
  <2>4. QED
    BY <2>2, <2>3
<1>4. ASSUME NEW i \in StandIns(odb, src)
      PROVE  /\ odb'[i].marker.counterpart = odb[i].marker.counterpart
             /\ odb'[odb[i].marker.counterpart].anc = odb[odb[i].marker.counterpart].anc
  <2>1. i \in 1 .. Len(odb) /\ odb[i].marker.counterpart \in 1 .. Len(odb)
    BY DEF StandIns, Ledger, Closed
  <2>2. QED
    BY <1>1, <2>1
<1>5. StoodFor(odb, src) \subseteq StoodFor(odb', src')
  BY <1>2, <1>3, <1>4 DEF StoodFor
<1>6. KeptWork(odb, src) \subseteq KeptWork(odb', src')
  <2>1. ASSUME NEW o \in KeptWork(odb, src), o \notin Projected(odb) PROVE o \in KeptWork(odb', src')
    <3>1. PICK i \in StandIns(odb, src) : o \in odb[odb[i].marker.counterpart].anc
      BY <2>1 DEF KeptWork
    <3>2. i \in StandIns(odb', src') /\ o \in odb'[odb'[i].marker.counterpart].anc
      BY <1>3, <1>4, <3>1
    <3>3. QED
      BY <3>2 DEF KeptWork
  <2>2. QED
    BY <1>2, <2>1 DEF KeptWork
<1>7. QED
  BY <1>3, <1>5, <1>6

LEMMA HomesGrow ==
    ASSUME SyncInv, Extends(odb, odb'), RefsGrow(odb, src, odb', src'),
           NEW D, Ledger(odb, src, D), NEW E, E \cap Oids \subseteq D, NEW X
    PROVE  Homes(odb, src, D, X) \subseteq Homes(odb', src', E, X)
<1>1. StandIns(odb, src) \subseteq StandIns(odb', src')
  BY StandInsGrow
<1>2. ASSUME NEW o \in Homes(odb, src, D, X) PROVE o \in Homes(odb', src', E, X)
  <2>1. o \in Oids /\ Oids = 1 .. Len(odb) /\ ObjectDatabase(odb)
    BY DEF Homes, Oids, SyncInv
  <2>2. odb[o].anc \subseteq Oids
    BY <2>1, CommitFacts DEF Anc
  <2>3. o \in 1 .. Len(odb') /\ \A a \in Oids : odb'[a] = odb[a]
    BY <2>1 DEF Extends, ObjectDatabase
  <2>4. odb'[o].anc = odb[o].anc /\ odb'[o].anc \cap E \subseteq {1}
    BY <2>1, <2>2, <2>3 DEF Homes
  <2>5. ASSUME NEW a \in odb'[o].anc, Looped(odb', a)
        PROVE  a \in StandIns(odb', src') \/ odb'[a].marker.branch \in X
    <3>1. a \in odb[o].anc /\ odb'[a] = odb[a] /\ Looped(odb, a)
      BY <2>2, <2>3, <2>4, <2>5 DEF Looped
    <3>2. QED
      BY <1>1, <3>1 DEF Homes
  <2>6. QED
    BY <2>3, <2>4, <2>5 DEF Homes
<1>3. QED
  BY <1>2

(* A step that writes no commit. *)
LEMMA RefsGrown ==
    ASSUME SyncInv, odb' = odb, RefsGrow(odb, src, odb, src'), NEW D, Ledger(odb, src, D)
    PROVE  Grown(D, D)
<1>1. Extends(odb, odb') /\ RefsGrow(odb, src, odb', src')
  BY DEF Extends, SyncInv, ObjectDatabase
<1>2. /\ StoodFor(odb, src) \subseteq StoodFor(odb', src')
      /\ KeptWork(odb, src) \subseteq KeptWork(odb', src')
  BY <1>1, StandInsGrow
<1>3. \A X : Homes(odb, src, D, X) \subseteq Homes(odb', src', D, X)
  BY <1>1, HomesGrow
<1>4. ASSUME NEW o \in Projected(odb')
      PROVE  /\ o \in D /\ odb'[o].parents \in Seq(StoodFor(odb', src'))
             /\ odb'[o].anc \subseteq KeptWork(odb', src')
  <2>1. /\ o \in D /\ odb[o].parents \in Seq(StoodFor(odb, src)) /\ odb[o].anc \subseteq KeptWork(odb, src)
    BY <1>4 DEF Ledger, Projected
  <2>2. QED
    BY <1>2, <2>1, SeqMonotonic
<1>5. Ledger(odb', src', D)
  BY <1>2, <1>4 DEF Ledger, Closed, Looped
<1>6. QED
  BY <1>2, <1>3, <1>5 DEF Grown

LEMMA NothingGrown ==
    ASSUME SyncInv, odb' = odb, src' = src, NEW D, Ledger(odb, src, D)
    PROVE  Grown(D, D)
<1>1. RefsGrow(odb, src, odb, src')
  BY DEF RefsGrow
<1>2. QED
  BY <1>1, RefsGrown

(* A commit written for dest, whether by gitprism or by a customer, joins  *)
(* dest's side; one written for source does not.                           *)
LEMMA GrownWrite ==
    ASSUME SyncInv, NEW D, Ledger(odb, src, D), NEW parents, NEW tree, NEW marker,
           Write(parents, tree, marker), src' = src, NEW E \in {D, D \cup {NextOid}},
           NextOid \in E => \A i \in DOMAIN parents : parents[i] \in D,
           marker.dir = "SourceToDest" => NextOid \in E /\ parents \in Seq(StoodFor(odb, src)),
           marker.dir \in {"Setup", "DestToSource"} => marker.counterpart \in D
    PROVE  /\ Grown(D, E) /\ Extends(odb, odb')
           /\ marker.dir = "SourceToDest" => NextOid \in StoodFor(odb', src')
<1> DEFINE n == NextOid
<1>1. /\ Extends(odb, odb') /\ Len(odb') = n /\ n \in 1 .. Len(odb')
      /\ odb'[n].marker = marker
      /\ odb'[n].anc = {n} \cup UNION {Anc(parents[i]) : i \in DOMAIN parents}
  BY WriteAppends DEF SyncInv
<1>2. odb'[n].parents = parents
  <2>1. /\ odb' = Append(odb, NewCommit(parents, tree, marker)) /\ odb \in Seq(Commits)
        /\ n = Len(odb) + 1
    BY DEF Write, SyncInv, ObjectDatabase, NextOid
  <2>2. odb'[n] = NewCommit(parents, tree, marker)
    BY <2>1
  <2>3. QED
    BY <2>2 DEF NewCommit
<1>3. /\ Len(odb) \in Nat /\ n = Len(odb) + 1 /\ n \notin Oids /\ Oids = 1 .. Len(odb)
      /\ \A i \in Oids : odb'[i] = odb[i] /\ i \in 1 .. Len(odb')
      /\ \A i \in 1 .. Len(odb') : i = n \/ i \in Oids
  BY <1>1 DEF SyncInv, ObjectDatabase, Extends, NextOid, Oids
<1> HIDE DEF n
<1>4. RefsGrow(odb, src, odb', src')
  BY DEF RefsGrow
<1>5. /\ StoodFor(odb, src) \subseteq StoodFor(odb', src')
      /\ KeptWork(odb, src) \subseteq KeptWork(odb', src')
  BY <1>1, <1>4, StandInsGrow
<1>6. D \subseteq Oids /\ D \subseteq E /\ E \cap Oids \subseteq D /\ E \subseteq D \cup {n}
  BY <1>3 DEF Ledger, Closed, n
<1>7. \A X : Homes(odb, src, D, X) \subseteq Homes(odb', src', E, X)
  BY <1>1, <1>4, <1>6, HomesGrow
<1>8. Closed(odb', E)
  <2>1. ASSUME NEW o \in E PROVE o \in 1 .. Len(odb') /\ odb'[o].anc \subseteq E
    <3>1. CASE o \in D
      BY <1>3, <1>6, <3>1 DEF Ledger, Closed
    <3>2. CASE o = n /\ n \in E
      <4>1. \A i \in DOMAIN parents : Anc(parents[i]) \subseteq D
        BY <3>2 DEF Ledger, Closed, Anc, n
      <4>2. QED
        BY <1>1, <1>6, <3>2, <4>1
    <3>3. QED
      BY <1>6, <3>1, <3>2
  <2>2. QED
    BY <2>1 DEF Closed
<1>9. ASSUME NEW i \in 1 .. Len(odb'), Looped(odb', i) PROVE odb'[i].marker.counterpart \in E
  BY <1>1, <1>3, <1>6, <1>9 DEF Ledger, Looped
<1>10. ASSUME NEW o \in Projected(odb')
       PROVE  /\ o \in E /\ odb'[o].parents \in Seq(StoodFor(odb', src'))
              /\ odb'[o].anc \subseteq KeptWork(odb', src')
  <2>1. CASE o \in Oids
    <3>1. o \in Projected(odb) /\ odb'[o] = odb[o]
      BY <1>3, <1>10, <2>1 DEF Projected
    <3>2. o \in D /\ odb[o].parents \in Seq(StoodFor(odb, src)) /\ odb[o].anc \subseteq KeptWork(odb, src)
      BY <3>1 DEF Ledger
    <3>3. QED
      BY <1>5, <1>6, <3>1, <3>2, SeqMonotonic
  <2>2. CASE o = n
    <3>1. marker.dir = "SourceToDest"
      BY <1>1, <1>10, <2>2 DEF Projected
    <3>2. n \in E /\ parents \in Seq(StoodFor(odb, src))
      BY <3>1 DEF n
    <3>3. \A i \in DOMAIN parents : Anc(parents[i]) \subseteq KeptWork(odb, src)
      BY <3>2, StoodForIsKept
    <3>4. n \in KeptWork(odb', src')
      BY <1>10, <2>2 DEF KeptWork
    <3>5. parents \in Seq(StoodFor(odb', src'))
      BY <1>5, <3>2, SeqMonotonic
    <3>6. odb'[n].anc \subseteq KeptWork(odb', src')
      BY <1>1, <1>5, <3>3, <3>4
    <3>7. QED
      BY <1>2, <2>2, <3>2, <3>5, <3>6
  <2>3. QED
    BY <1>3, <1>10, <2>1, <2>2 DEF Projected
<1>11. Ledger(odb', src', E)
  <2>1. 1 \in StoodFor(odb', src')
    BY <1>5 DEF Ledger
  <2>2. QED
    BY <1>8, <1>9, <1>10, <2>1 DEF Ledger
<1>12. marker.dir = "SourceToDest" => n \in StoodFor(odb', src')
  BY <1>1 DEF StoodFor, Projected
<1>13. QED
  BY <1>1, <1>5, <1>6, <1>7, <1>11, <1>12 DEF Grown, n

LEMMA HomesWrite ==
    ASSUME SyncInv, NEW D, Ledger(odb, src, D), NEW parents, NEW tree, NEW marker, NEW X,
           Write(parents, tree, marker), src' = src,
           \A i \in DOMAIN parents : parents[i] \in Homes(odb, src, D, X),
           marker.dir \in {"Setup", "DestToSource"} => marker.branch \in X
    PROVE  NextOid \in Homes(odb', src', D, X)
<1> DEFINE n == NextOid
<1>1. /\ Extends(odb, odb') /\ n \in 1 .. Len(odb') /\ odb'[n].marker = marker
      /\ odb'[n].anc = {n} \cup UNION {Anc(parents[i]) : i \in DOMAIN parents}
  BY WriteAppends DEF SyncInv
<1>2. Len(odb) \in Nat /\ n = Len(odb) + 1 /\ n \notin 1 .. Len(odb)
  BY DEF SyncInv, ObjectDatabase, NextOid
<1> HIDE DEF n
<1>3. n \notin D
  BY <1>2 DEF Ledger, Closed
<1>4. RefsGrow(odb, src, odb', src')
  BY DEF RefsGrow
<1>5. Homes(odb, src, D, X) \subseteq Homes(odb', src', D, X)
  BY <1>1, <1>4, HomesGrow
<1>6. ASSUME NEW i \in DOMAIN parents
      PROVE  parents[i] \in Homes(odb', src', D, X) /\ odb'[parents[i]].anc = Anc(parents[i])
  <2>1. parents[i] \in Homes(odb, src, D, X) /\ parents[i] \in 1 .. Len(odb)
    BY DEF Homes
  <2>2. QED
    BY <1>1, <1>5, <2>1 DEF Extends, Anc
<1>7. odb'[n].anc \cap D \subseteq {1}
  BY <1>1, <1>3, <1>6 DEF Homes
<1>8. ASSUME NEW a \in odb'[n].anc, Looped(odb', a)
      PROVE  a \in StandIns(odb', src') \/ odb'[a].marker.branch \in X
  <2>1. CASE a = n
    BY <1>1, <1>8, <2>1 DEF Looped
  <2>2. CASE a # n
    <3>1. PICK i \in DOMAIN parents : a \in Anc(parents[i])
      BY <1>1, <1>8, <2>2
    <3>2. QED
      BY <1>6, <1>8, <3>1 DEF Homes
  <2>3. QED
    BY <2>1, <2>2
<1>9. QED
  BY <1>1, <1>7, <1>8 DEF Homes, n

(***************************************************************************)
(* What a run reads.                                                       *)
(***************************************************************************)
LEMMA StandInStoodFor ==
    ASSUME NEW D, NEW tip \in Homes(odb, src, D, {}), NEW a \in Anc(tip), LoopPrevented(a)
    PROVE  Counterpart(a) \in StoodFor(odb, src)
<1>1. Looped(odb, a)
  BY DEF LoopPrevented, VerifySelf, Looped
<1>2. a \in StandIns(odb, src)
  BY <1>1 DEF Homes, Anc
<1>3. QED
  BY <1>2 DEF StoodFor, Counterpart

LEMMA ProjectionStoodFor ==
    ASSUME NEW D, Ledger(odb, src, D), NEW o \in Oids, VerifySelf(o, {"SourceToDest"})
    PROVE  DestCommitMapping(o).canonical \in StoodFor(odb, src)
<1>1. o \in Projected(odb)
  BY DEF Projected, VerifySelf, Oids
<1>2. o \in StoodFor(odb, src) /\ odb[o].parents \in Seq(StoodFor(odb, src))
  BY <1>1 DEF StoodFor, Ledger
<1>3. SourceToDestAlias(o) => odb[o].parents[1] \in StoodFor(odb, src)
  BY <1>2 DEF SourceToDestAlias
<1>4. QED
  BY <1>2, <1>3 DEF DestCommitMapping, Mapping

LEMMA IndexStoodFor ==
    ASSUME ObjectDatabase(odb), NEW D, Ledger(odb, src, D),
           NEW sourceHeads \in SUBSET Homes(odb, src, D, {}), NEW destHeads \in SUBSET Oids
    PROVE  Canonicals(Reconstruct(sourceHeads, destHeads)) \subseteq StoodFor(odb, src)
<1> DEFINE Lines(heads) == UNION {ToSet(Line(h)) : h \in heads}
<1>1. ASSUME NEW h \in Oids PROVE ToSet(Line(h)) \subseteq Anc(h) /\ Anc(h) \subseteq Oids
  <2>1. Line(h) \in Seq(Anc(h)) /\ Anc(h) \subseteq Oids
    BY CommitFacts
  <2>2. QED
    BY <2>1 DEF ToSet
<1>2. Lines(destHeads) \subseteq Oids
  BY <1>1
<1>3. \A o \in Lines(sourceHeads) : \E h \in sourceHeads : o \in Anc(h)
  BY <1>1 DEF Homes, Oids
<1>4. Reconstruct(sourceHeads, destHeads) =
        {SourceCommitMapping(o) : o \in {x \in Lines(sourceHeads) : LoopPrevented(x)}}
        \cup {DestCommitMapping(o) :
                o \in {x \in Lines(destHeads) : VerifySelf(x, {"SourceToDest"})}}
  BY DEF Reconstruct
<1> HIDE DEF Lines
<1>5. ASSUME NEW o \in Lines(sourceHeads), LoopPrevented(o)
      PROVE  SourceCommitMapping(o).canonical \in StoodFor(odb, src)
  <2>1. PICK h \in sourceHeads : o \in Anc(h)
    BY <1>3
  <2>2. Counterpart(o) \in StoodFor(odb, src)
    BY <1>5, <2>1, StandInStoodFor
  <2>3. QED
    BY <2>2 DEF SourceCommitMapping, Mapping
<1>6. ASSUME NEW o \in Lines(destHeads), VerifySelf(o, {"SourceToDest"})
      PROVE  DestCommitMapping(o).canonical \in StoodFor(odb, src)
  BY <1>2, <1>6, ProjectionStoodFor
<1>7. QED
  BY <1>4, <1>5, <1>6 DEF Canonicals

(* The boundary of an import is at or above the dest commit that source's  *)
(* newest graft or import stands for, and represented if it is above.      *)
ScannedFrom(H, tip, line, start, boundary) ==
    \E b1 \in 1 .. Len(line), last \in Nat :
       /\ last \in 1 .. b1 /\ line[b1] = start /\ boundary = line[last]
       /\ \A i \in last .. b1 - 1 : Represented(H, line[i], tip)

LEMMA BoundaryScanned ==
    ASSUME ObjectDatabase(odb), NEW H, NEW tip, NEW destTip \in Oids, NEW branch,
           DestToSourceBoundary(H, tip, destTip, branch) # NoOid
    PROVE  /\ NewestDestMarker(tip, branch) # NoOid
           /\ ScannedFrom(H, tip, Line(destTip), Counterpart(NewestDestMarker(tip, branch)),
                          DestToSourceBoundary(H, tip, destTip, branch))
<1> DEFINE m == NewestDestMarker(tip, branch)
           boundary == DestToSourceBoundary(H, tip, destTip, branch)
           line == Line(destTip)
           found == {i \in 1 .. Len(line) : line[i] = Counterpart(m)}
           b1 == IF found # {} THEN Min(found) ELSE 0
           Reached(k) == \A i \in k .. b1 - 1 : Represented(H, line[i], tip)
           End(k) == /\ \A i \in k .. b1 - 1 : Represented(H, line[i], tip)
                     /\ k > 1 => ~Represented(H, line[k - 1], tip)
           last == CHOOSE k \in 1 .. b1 : End(k)
<1>1. SelectInSeq(line, LAMBDA o : o = Counterpart(m)) = b1
  BY DEF SelectInSeq
<1>2. m # NoOid /\ b1 # 0 /\ boundary = line[last]
  BY <1>1 DEF DestToSourceBoundary
<1>3. found \in SUBSET Nat /\ found # {}
  BY <1>2
<1>4. b1 \in found
  BY <1>3, LeastNatural
<1>5. line[b1] = Counterpart(m) /\ b1 \in Nat /\ b1 >= 1
  BY <1>4
<1> HIDE DEF b1, found
<1>6. \E k \in 1 .. b1 : End(k)
  <2> DEFINE reached == {k \in 1 .. b1 : Reached(k)}
             least == Min(reached)
  <2>1. b1 \in reached /\ reached \in SUBSET Nat
    BY <1>5
  <2>2. least \in reached /\ \A k \in reached : least <= k
    <3> HIDE DEF reached
    <3>1. QED
      BY <2>1, LeastNatural
  <2> HIDE DEF least
  <2>3. ASSUME least > 1, Represented(H, line[least - 1], tip) PROVE FALSE
    <3>1. least - 1 \in 1 .. b1 /\ least \in 1 .. b1 /\ Reached(least)
      BY <1>5, <2>2, <2>3
    <3>2. Reached(least - 1)
      <4>1. ASSUME NEW i \in (least - 1) .. (b1 - 1) PROVE Represented(H, line[i], tip)
        <5>1. i = least - 1 \/ i \in least .. (b1 - 1)
          BY <1>5, <3>1
        <5>2. QED
          BY <2>3, <3>1, <5>1
      <4>2. QED
        BY <4>1
    <3>3. least - 1 \in reached
      BY <3>1, <3>2
    <3>4. QED
      BY <1>5, <2>2, <3>1, <3>3
  <2>4. least \in 1 .. b1 /\ End(least)
    BY <2>2, <2>3
  <2>5. QED
    BY <2>4
<1>7. last \in 1 .. b1 /\ End(last)
  BY <1>6
<1>8. b1 \in 1 .. Len(line) /\ last \in Nat
  BY <1>5, <1>7, <1>4 DEF found
<1> HIDE DEF last, m, boundary, line
<1>9. ScannedFrom(H, tip, line, Counterpart(m), boundary)
  BY <1>2, <1>5, <1>7, <1>8 DEF ScannedFrom
<1>10. QED
  BY <1>2, <1>9 DEF m, boundary, line

LEMMA BoundaryRepresented ==
    ASSUME ObjectDatabase(odb), NEW H, NEW tip, NEW destTip \in Oids, NEW branch,
           DestToSourceBoundary(H, tip, destTip, branch) # NoOid
    PROVE  LET m == NewestDestMarker(tip, branch)
               boundary == DestToSourceBoundary(H, tip, destTip, branch)
           IN  m # NoOid /\ (boundary = Counterpart(m) \/ Represented(H, boundary, tip))
<1> DEFINE line == Line(destTip)
<1>1. PICK b1 \in 1 .. Len(line), last \in Nat :
        /\ last \in 1 .. b1 /\ line[b1] = Counterpart(NewestDestMarker(tip, branch))
        /\ DestToSourceBoundary(H, tip, destTip, branch) = line[last]
        /\ \A i \in last .. b1 - 1 : Represented(H, line[i], tip)
  BY BoundaryScanned DEF ScannedFrom
<1>2. b1 \in Nat /\ (last = b1 \/ last \in last .. b1 - 1)
  <2>1. Line(destTip) \in Seq(Anc(destTip)) /\ Len(Line(destTip)) \in Nat
    BY CommitFacts, LenProperties
  <2>2. QED
    BY <1>1, <2>1
<1>3. QED
  BY <1>1, <1>2, BoundaryScanned

(* A dest tip that the run finds accounted for is settled: it is one of    *)
(* gitprism's own, where the graft was made, or imported into this tip.    *)
LEMMA AccountedStoodFor ==
    ASSUME ObjectDatabase(odb), NEW D, Ledger(odb, src, D),
           NEW tip \in Homes(odb, src, D, {}), NEW seen \in D, NEW branch,
           DestTipAccountedFor(tip, seen, branch) \notin {"No", "NoMarker"}
    PROVE  seen \in StoodFor(odb, src)
<1> DEFINE m == NewestDestMarker(tip, branch)
<1>1. tip \in Oids /\ seen \in Oids /\ NoOid \notin Oids
  BY DEF Homes, Ledger, Closed, Oids, NoOid
<1>2. \/ Verify(seen, branch, {"SourceToDest"})
      \/ GraftPoint(tip, seen) = seen
      \/ m # NoOid /\ Counterpart(m) = seen
  BY DEF DestTipAccountedFor
<1>3. CASE Verify(seen, branch, {"SourceToDest"})
  BY <1>1, <1>3 DEF Verify, StoodFor, Projected, Oids
<1>4. CASE GraftPoint(tip, seen) = seen
  <2>1. seen \in Anc(tip)
    BY <1>1, <1>4, MergeBaseCommon DEF GraftPoint
  <2>2. seen = 1
    BY <2>1 DEF Homes, Anc
  <2>3. QED
    BY <2>2 DEF Ledger
<1>5. CASE m # NoOid /\ Counterpart(m) = seen
  <2>1. m \in Anc(tip) /\ Verify(m, branch, {"Setup", "DestToSource"})
    BY <1>1, <1>5, NewestFound
  <2>2. LoopPrevented(m)
    BY <2>1 DEF Verify, LoopPrevented, VerifySelf
  <2> HIDE DEF m
  <2>3. QED
    BY <1>5, <2>1, <2>2, StandInStoodFor
<1>6. QED
  BY <1>2, <1>3, <1>4, <1>5

LEMMA RepresentedStoodFor ==
    ASSUME ObjectDatabase(odb), NEW D, Ledger(odb, src, D), NEW H,
           NEW tip \in Homes(odb, src, D, {}), NEW seen \in D, NEW branch,
           DestTipRepresentedInSource(H, tip, seen, branch)
    PROVE  seen \in StoodFor(odb, src)
<1> DEFINE m == NewestDestMarker(tip, branch)
<1>1. tip \in Oids /\ seen \in Oids /\ seen # NoOid
  BY DEF Homes, Ledger, Closed, Oids, NoOid
<1>2. m # NoOid /\ (Counterpart(m) = seen \/ Represented(H, seen, tip))
  BY <1>1, BoundaryRepresented DEF DestTipRepresentedInSource
<1>3. CASE Counterpart(m) = seen
  <2>1. m \in Anc(tip) /\ Verify(m, branch, {"Setup", "DestToSource"})
    BY <1>1, <1>2, NewestFound
  <2>2. LoopPrevented(m)
    BY <2>1 DEF Verify, LoopPrevented, VerifySelf
  <2> HIDE DEF m
  <2>3. QED
    BY <1>3, <2>1, <2>2, StandInStoodFor
<1>4. CASE VerifySelf(seen, {"SourceToDest"})
  BY <1>1, <1>4 DEF VerifySelf, StoodFor, Projected, Oids
<1>5. CASE seen \in DestToSourceMarkerTargets(tip)
  <2>1. PICK i \in Anc(tip) : VerifySelf(i, {"DestToSource"}) /\ Counterpart(i) = seen
    BY <1>5 DEF DestToSourceMarkerTargets
  <2>2. LoopPrevented(i)
    BY <2>1 DEF LoopPrevented, VerifySelf
  <2>3. QED
    BY <2>1, <2>2, StandInStoodFor
<1>6. QED
  BY <1>2, <1>3, <1>4, <1>5 DEF Represented

(* What a resumed run builds on, and what it rebuilds by force.            *)
LEMMA ResumeStoodFor ==
    ASSUME SyncInv, NEW D, Work(D), NEW c \in Clones, pc[c] = "plan", Resume(c).do = "build"
    PROVE  /\ Resume(c).base \in StoodFor(odb, src)
           /\ Resume(c).mode = "ForceMirrorOnly" /\ Resume(c).mode # job[c].mode =>
                job[c].seen \in StoodFor(odb, src)
<1> DEFINE H == have[c]
           tip == job[c].tip
           seen == job[c].seen
           branch == job[c].branch
           point == DestResumePoint(H, tip, seen, branch)
           anchor == DestAnchor(H, run[c].index, tip, branch)
           rewritten == MirrorOnlyRewriteDetected(H, tip, seen, branch)
           v == Resume(c)
<1>1. /\ ObjectDatabase(odb) /\ Ledger(odb, src, D) /\ tip \in Homes(odb, src, D, {})
      /\ seen \in D \cup {NoOid} /\ tip \in Oids
      /\ Canonicals(run[c].index) \subseteq StoodFor(odb, src)
  BY WorkOfClone DEF WorkJob, WorkRun, Mirroring, Homes
<1>2. seen # NoOid /\ point.kind = "Ok" => seen \in StoodFor(odb, src)
  <2>1. SUFFICES ASSUME seen # NoOid, point.kind = "Ok" PROVE seen \in StoodFor(odb, src)
    OBVIOUS
  <2>2. /\ DestTipAccountedFor(tip, seen, branch) # "NoMarker"
        /\ \/ DestTipAccountedFor(tip, seen, branch) # "No"
           \/ DestTipRepresentedInSource(H, tip, seen, branch)
    BY <2>1 DEF DestResumePoint, Refusal
  <2> HIDE DEF tip, seen, H, branch, point
  <2>3. QED
    BY <1>1, <2>1, <2>2, AccountedStoodFor, RepresentedStoodFor
<1>3. seen # NoOid /\ rewritten => seen \in StoodFor(odb, src)
  <2>1. SUFFICES ASSUME seen # NoOid, rewritten PROVE seen \in StoodFor(odb, src)
    OBVIOUS
  <2>2. DestTipAccountedFor(tip, seen, branch) = "ViaPriorSync"
    BY <2>1 DEF MirrorOnlyRewriteDetected
  <2> HIDE DEF tip, seen, H, branch, rewritten
  <2>3. QED
    BY <1>1, <2>1, <2>2, AccountedStoodFor
<1>4. anchor.kind = "Resolved" => anchor.dest \in Canonicals(run[c].index)
  <2> HIDE DEF tip, H, branch
  <2>1. QED
    BY <1>1, AnchorOfTip
<1>5. /\ anchor.kind \in {"None", "Contradictory", "Resolved"}
      /\ v.base = seen \/ v.base \in Canonicals(run[c].index)
  <2>1. anchor.kind \in {"None", "Contradictory", "Resolved"}
    <3> HIDE DEF tip, H, branch
    <3>1. QED
      BY <1>1, AnchorOfTip
  <2>2. QED
    BY <2>1, ResumeKnown
<1>6. \/ seen # NoOid /\ point.kind = "Ok" /\ v.base = seen /\ v.mode = job[c].mode
      \/ /\ seen # NoOid /\ rewritten /\ anchor.kind = "Resolved" /\ v.base = anchor.dest
      \/ anchor.kind = "Resolved" /\ v.base = anchor.dest /\ v.mode = job[c].mode
  <2> HIDE DEF point, anchor, rewritten
  <2>1. v.do = "build"
    OBVIOUS
  <2>2. v = IF seen # NoOid THEN
                IF point.kind = "Ok" THEN Verdict("build", point.at, seen, job[c].mode)
                ELSE IF point.kind = "NoMarker" THEN Stop
                ELSE IF MirrorOnly(branch) /\ rewritten THEN
                    IF StaleCheckout(c) \/ anchor.kind = "Contradictory" THEN Halt
                    ELSE IF anchor.kind = "None" THEN Stop
                    ELSE Verdict("build", anchor.source, anchor.dest, "ForceMirrorOnly")
                ELSE IF point.kind = "Unsafe" /\ RoundTripped(branch) THEN Stop
                ELSE Halt
            ELSE IF anchor.kind = "Resolved"
                 THEN Verdict("build", anchor.source, anchor.dest, job[c].mode)
            ELSE IF anchor.kind = "Contradictory" \/ job[c].mode = "CreateOnly" THEN Halt ELSE Skip
    BY DEF Resume, point, anchor, rewritten
  <2>3. Stop.do # "build" /\ Halt.do # "build" /\ Skip.do # "build"
    BY DEF Stop, Halt, Skip, Verdict
  <2>4. \A boundary, base, mode :
          /\ Verdict("build", boundary, base, mode).base = base
          /\ Verdict("build", boundary, base, mode).mode = mode
    BY DEF Verdict
  <2> HIDE DEF v
  <2>5. QED
    BY <1>5, <2>1, <2>2, <2>3, <2>4
<1>7. QED
  <2> HIDE DEF point, anchor, rewritten, v
  <2>1. /\ v.base \in StoodFor(odb, src)
        /\ v.mode = "ForceMirrorOnly" /\ v.mode # job[c].mode => seen \in StoodFor(odb, src)
    BY <1>1, <1>2, <1>3, <1>4, <1>6
  <2>2. QED
    BY <2>1 DEF v

(***************************************************************************)
(* Steps.                                                                  *)
(***************************************************************************)
LEMMA WorkStep ==
    ASSUME SyncInv, NEW D, Work(D), NEW c \in Clones, NEW E, Grown(D, E),
           src' \in [Branches -> Homes(odb', src', E, {}) \cup {NoOid}],
           dst' \in [Branches -> E \cup {NoOid}],
           local' = [local EXCEPT ![c] = local'[c]],
           local'[c] \in [Branches -> Homes(odb', src', E, {}) \cup {NoOid}],
           pc' = [pc EXCEPT ![c] = pc'[c]], run' = [run EXCEPT ![c] = run'[c]],
           job' = [job EXCEPT ![c] = job'[c]],
           WorkRun(odb', src', E, run'[c]), WorkJob(odb', src', E, pc'[c], job'[c])
    PROVE  Work(E)'
<1>1. ASSUME NEW d \in Clones
      PROVE  /\ local'[d] \in [Branches -> Homes(odb', src', E, {}) \cup {NoOid}]
             /\ WorkRun(odb', src', E, run'[d]) /\ WorkJob(odb', src', E, pc'[d], job'[d])
  <2>1. CASE d = c
    BY <2>1
  <2>2. CASE d # c
    <3>1. /\ run'[d] = run[d] /\ pc'[d] = pc[d] /\ job'[d] = job[d] /\ local'[d] = local[d]
      BY <2>2 DEF SyncInv, Table
    <3>2. /\ local[d] \in [Branches -> Homes(odb, src, D, {}) \cup {NoOid}]
          /\ WorkRun(odb, src, D, run[d]) /\ WorkJob(odb, src, D, pc[d], job[d])
      BY DEF Work
    <3>3. QED
      BY <3>1, <3>2, WorkRunGrows
  <2>3. QED
    BY <2>1, <2>2
<1>2. Ledger(odb', src', E)
  BY DEF Grown
<1>3. QED
  BY <1>1, <1>2 DEF Work

(* A step that writes no commit and moves no source ref. *)
LEMMA WorkRunStep ==
    ASSUME SyncInv, NEW D, Work(D), NEW c \in Clones, odb' = odb, src' = src,
           dst' \in [Branches -> D \cup {NoOid}],
           local' = [local EXCEPT ![c] = local'[c]],
           local'[c] \in [Branches -> Homes(odb, src, D, {}) \cup {NoOid}],
           pc' = [pc EXCEPT ![c] = pc'[c]], run' = [run EXCEPT ![c] = run'[c]],
           job' = [job EXCEPT ![c] = job'[c]],
           WorkRun(odb, src, D, run'[c]), WorkJob(odb, src, D, pc'[c], job'[c])
    PROVE  Work(D)'
<1>1. /\ Grown(D, D) /\ src \in [Branches -> Homes(odb, src, D, {}) \cup {NoOid}]
  BY WorkOfClone, NothingGrown
<1>2. QED
  BY <1>1, WorkStep

(* A step that leaves refs and c's run alone, and perhaps writes a commit. *)
LEMMA WorkJobStep ==
    ASSUME SyncInv, NEW D, Work(D), NEW c \in Clones, NEW E, Grown(D, E),
           src' = src, dst' = dst, local' = local, run' = run,
           pc' = [pc EXCEPT ![c] = pc'[c]], job' = [job EXCEPT ![c] = job'[c]],
           WorkJob(odb', src', E, pc'[c], job'[c])
    PROVE  Work(E)'
<1>1. /\ src \in [Branches -> Homes(odb, src, D, {}) \cup {NoOid}]
      /\ dst \in [Branches -> D \cup {NoOid}]
      /\ local[c] \in [Branches -> Homes(odb, src, D, {}) \cup {NoOid}]
      /\ WorkRun(odb, src, D, run[c])
  BY WorkOfClone
<1>2. /\ src' \in [Branches -> Homes(odb', src', E, {}) \cup {NoOid}]
      /\ dst' \in [Branches -> E \cup {NoOid}]
      /\ local'[c] \in [Branches -> Homes(odb', src', E, {}) \cup {NoOid}]
      /\ WorkRun(odb', src', E, run'[c])
  BY <1>1, WorkRunGrows
<1>3. local' = [local EXCEPT ![c] = local'[c]] /\ run' = [run EXCEPT ![c] = run'[c]]
  BY Untouched
<1>4. QED
  BY <1>2, <1>3, WorkStep

LEMMA WorkIdle ==
    ASSUME NEW db, NEW s, NEW D, NEW p \in Quiet
    PROVE  WorkRun(db, s, D, NoRun) /\ WorkJob(db, s, D, p, NoJob)
<1>1. WorkRun(db, s, D, NoRun)
  BY DEF WorkRun, NoRun, Canonicals
<1>2. WorkJob(db, s, D, p, NoJob)
  BY DEF WorkJob, NoJob, Quiet, Mirroring
<1>3. QED
  BY <1>1, <1>2

(* A run, or a branch's turn, ends. *)
LEMMA WorkQuiet ==
    ASSUME SyncInv, NEW D, Work(D), NEW c \in Clones, odb' = odb, src' = src,
           dst' \in [Branches -> D \cup {NoOid}],
           local' = [local EXCEPT ![c] = local'[c]],
           local'[c] \in [Branches -> Homes(odb, src, D, {}) \cup {NoOid}],
           NEW p \in Quiet, pc' = [pc EXCEPT ![c] = p], job' = [job EXCEPT ![c] = NoJob],
           run' = [run EXCEPT ![c] = run'[c]], WorkRun(odb, src, D, run'[c])
    PROVE  Work(D)'
<1>1. /\ pc'[c] = p /\ pc' = [pc EXCEPT ![c] = pc'[c]]
      /\ job'[c] = NoJob /\ job' = [job EXCEPT ![c] = job'[c]]
  BY DEF SyncInv, Table
<1>2. WorkJob(odb, src, D, pc'[c], job'[c])
  BY <1>1, WorkIdle
<1>3. QED
  BY <1>1, <1>2, WorkRunStep

LEMMA WorkAbort ==
    ASSUME SyncInv, NEW D, Work(D), NEW c \in Clones, odb' = odb, src' = src,
           dst' \in [Branches -> D \cup {NoOid}],
           local' = [local EXCEPT ![c] = local'[c]],
           local'[c] \in [Branches -> Homes(odb, src, D, {}) \cup {NoOid}],
           NEW why, Abort(c, why)
    PROVE  Work(D)'
<1>1. /\ pc' = [pc EXCEPT ![c] = "idle"] /\ run' = [run EXCEPT ![c] = NoRun]
      /\ job' = [job EXCEPT ![c] = NoJob]
  BY DEF Abort
<1>2. run'[c] = NoRun /\ run' = [run EXCEPT ![c] = run'[c]] /\ "idle" \in Quiet
  BY <1>1 DEF SyncInv, Table, Quiet
<1>3. WorkRun(odb, src, D, run'[c])
  BY <1>2, WorkIdle
<1>4. QED
  BY <1>1, <1>2, <1>3, WorkQuiet

(* The same, with nothing else done. *)
LEMMA WorkEnded ==
    ASSUME SyncInv, NEW D, Work(D), NEW c \in Clones, odb' = odb, src' = src, dst' = dst,
           local' = [local EXCEPT ![c] = local'[c]],
           local'[c] \in [Branches -> Homes(odb, src, D, {}) \cup {NoOid}],
           \/ \E why : Abort(c, why)
           \/ \E halts : NextBranch(c, halts) \/ NextImport(c, halts)
    PROVE  Work(D)'
<1>1. /\ dst' \in [Branches -> D \cup {NoOid}] /\ WorkRun(odb, src, D, run[c])
      /\ DOMAIN NoRun \subseteq DOMAIN run[c]
  BY WorkOfClone
<1>2. CASE \E why : Abort(c, why)
  BY <1>1, <1>2, WorkAbort
<1>3. CASE \E halts : NextBranch(c, halts) \/ NextImport(c, halts)
  <2> DEFINE r == run[c]
  <2>1. PICK halts : NextBranch(c, halts) \/ NextImport(c, halts)
    BY <1>3
  <2>2. /\ {"heads", "index", "halted", "imports"} \subseteq DOMAIN r
        /\ WorkRun(odb, src, D, r)
    BY <1>1 DEF NoRun
  <2>3. \E k, p : /\ run' = [run EXCEPT ![c] = k] /\ k.heads = r.heads /\ k.index = r.index
                  /\ p \in Quiet /\ pc' = [pc EXCEPT ![c] = p] /\ job' = [job EXCEPT ![c] = NoJob]
    <3> DEFINE next == [r EXCEPT !.halted = r.halted \cup halts]
               later == [r EXCEPT !.imports = Tail(r.imports), !.halted = r.halted \cup halts]
    <3>1. \/ /\ pc' = [pc EXCEPT ![c] = "select"] /\ job' = [job EXCEPT ![c] = NoJob]
             /\ run' = [run EXCEPT ![c] = next]
          \/ /\ pc' = [pc EXCEPT ![c] = "import"] /\ job' = [job EXCEPT ![c] = NoJob]
             /\ run' = [run EXCEPT ![c] = later]
      BY <2>1 DEF NextBranch, NextImport
    <3> HIDE DEF r
    <3>2. next.heads = r.heads /\ next.index = r.index /\ later.heads = r.heads /\ later.index = r.index
      BY <2>2
    <3> HIDE DEF next, later
    <3>3. "select" \in Quiet /\ "import" \in Quiet
      BY DEF Quiet
    <3>4. QED
      BY <3>1, <3>2, <3>3
  <2>4. /\ run'[c].heads = r.heads /\ run'[c].index = r.index
        /\ run' = [run EXCEPT ![c] = run'[c]]
    <3> HIDE DEF r
    <3>1. QED
      BY <2>3 DEF SyncInv, Table
  <2>5. WorkRun(odb, src, D, run'[c])
    BY <2>2, <2>4 DEF WorkRun
  <2> HIDE DEF r
  <2>6. QED
    BY <1>1, <2>3, <2>4, <2>5, WorkQuiet
<1>4. QED
  BY <1>2, <1>3

(* A step of the run alone, with no commit in hand. *)
LEMMA WorkStays ==
    ASSUME SyncInv, NEW D, Work(D), NEW c \in Clones, odb' = odb, src' = src, dst' = dst,
           local' = local, job' = job, NEW p \in Quiet, pc' = [pc EXCEPT ![c] = p],
           run' = [run EXCEPT ![c] = run'[c]], WorkRun(odb, src, D, run'[c])
    PROVE  Work(D)'
<1>1. pc'[c] = p /\ pc' = [pc EXCEPT ![c] = pc'[c]]
  BY DEF SyncInv, Table
<1>2. /\ dst \in [Branches -> D \cup {NoOid}] /\ WorkJob(odb, src, D, pc[c], job[c])
      /\ local[c] \in [Branches -> Homes(odb, src, D, {}) \cup {NoOid}]
  BY WorkOfClone
<1>3. WorkJob(odb, src, D, p, job[c])
  BY <1>2 DEF WorkJob, Quiet, Mirroring
<1>4. local = [local EXCEPT ![c] = local[c]] /\ job = [job EXCEPT ![c] = job[c]]
  BY Untouched
<1>5. /\ dst' \in [Branches -> D \cup {NoOid}]
      /\ local' = [local EXCEPT ![c] = local'[c]]
      /\ local'[c] \in [Branches -> Homes(odb, src, D, {}) \cup {NoOid}]
      /\ job' = [job EXCEPT ![c] = job'[c]]
  BY <1>2, <1>4
<1>6. WorkJob(odb, src, D, pc'[c], job'[c])
  BY <1>1, <1>3
<1>7. QED
  BY <1>1, <1>5, <1>6, WorkRunStep

LEMMA WorkStart ==
    ASSUME SyncInv, NEW D, Work(D), NEW c \in Clones, StartRun(c) \/ Finish(c)
    PROVE  Work(D)'
<1>1. /\ odb' = odb /\ src' = src /\ dst' = dst /\ local' = local /\ job' = job
      /\ \E p \in Quiet : pc' = [pc EXCEPT ![c] = p]
  BY DEF StartRun, Finish, remotes, clone, Quiet
<1>2. run' = [run EXCEPT ![c] = run'[c]] /\ run'[c].heads = NoRun.heads /\ run'[c].index = NoRun.index
  <2>1. CASE Finish(c)
    BY <2>1 DEF Finish, SyncInv, Table
  <2>2. CASE StartRun(c)
    <3>1. PICK recreate \in SUBSET {b \in Recreatable : local[c][b] # NoOid} :
            run' = [run EXCEPT ![c] =
                      [NoRun EXCEPT !.names = {b \in Branches : dst[b] # NoOid},
                                    !.sources = {b \in Branches : local[c][b] # NoOid},
                                    !.recreate = recreate, !.imports = Configured]]
      BY <2>2 DEF StartRun
    <3>2. QED
      BY <3>1 DEF SyncInv, Table, NoRun
  <2>3. QED
    BY <2>1, <2>2
<1>3. WorkRun(odb, src, D, NoRun)
  BY WorkIdle DEF Quiet
<1>4. WorkRun(odb, src, D, run'[c])
  BY <1>2, <1>3 DEF WorkRun
<1>5. QED
  BY <1>1, <1>2, <1>4, WorkStays

LEMMA WorkFetchHeads ==
    ASSUME SyncInv, NEW D, Work(D), NEW c \in Clones, FetchHeads(c) PROVE Work(D)'
<1>1. odb' = odb /\ src' = src /\ dst' = dst /\ local' = local
  BY DEF FetchHeads, remotes
<1>2. CASE Abort(c, "fetch")
  BY <1>1, <1>2, WorkOfClone, Untouched, WorkEnded
<1>3. CASE ~ Abort(c, "fetch")
  <2> DEFINE heads == [b \in Branches |-> IF b \in run[c].names THEN dst[b] ELSE NoOid]
  <2>1. /\ run' = [run EXCEPT ![c] = [run[c] EXCEPT !.heads = heads]]
        /\ pc' = [pc EXCEPT ![c] = "import"] /\ job' = job
    BY <1>3 DEF FetchHeads
  <2>2. heads \in [Branches -> D \cup {NoOid}]
    BY WorkOfClone
  <2> HIDE DEF heads
  <2>3. /\ run'[c].heads = heads /\ run'[c].index = run[c].index
        /\ run' = [run EXCEPT ![c] = run'[c]]
    BY <2>1, WorkOfClone DEF SyncInv, Table, NoRun
  <2>4. WorkRun(odb, src, D, run'[c])
    BY <2>2, <2>3, WorkOfClone DEF WorkRun
  <2>5. "import" \in Quiet
    BY DEF Quiet
  <2>6. QED
    BY <1>1, <2>1, <2>3, <2>4, <2>5, WorkStays
<1>4. QED
  BY <1>2, <1>3

LEMMA WorkReconstruct ==
    ASSUME SyncInv, NEW D, Work(D), NEW c \in Clones, ReconstructMappingIndex(c) PROVE Work(D)'
<1> DEFINE sourceHeads == {local[c][b] : b \in run[c].sources}
           destHeads == {run[c].heads[b] : b \in run[c].names}
           index == Reconstruct(sourceHeads, destHeads)
<1>1. /\ odb' = odb /\ src' = src /\ dst' = dst /\ local' = local /\ job' = job
      /\ pc[c] = "import" /\ pc' = [pc EXCEPT ![c] = "select"]
  BY DEF ReconstructMappingIndex, remotes, clone
<1>2. RunRefs(local[c], have[c], "import", run[c])
  BY <1>1, Untouched DEF CloneInv
<1>3. sourceHeads \in SUBSET Homes(odb, src, D, {})
  BY <1>2, WorkOfClone DEF RunRefs
<1>4. destHeads \in SUBSET Oids
  <2>1. \A b \in run[c].names : run[c].heads[b] \in have[c]
    BY <1>2 DEF RunRefs
  <2>2. QED
    BY <2>1, Untouched
<1> HIDE DEF sourceHeads, destHeads
<1>5. Canonicals(index) \subseteq StoodFor(odb, src)
  BY <1>3, <1>4, WorkOfClone, IndexStoodFor
<1>6. /\ run'[c].heads = run[c].heads /\ run'[c].index = index
      /\ run' = [run EXCEPT ![c] = run'[c]]
  BY WorkOfClone DEF ReconstructMappingIndex, NoRun, SyncInv, Table, sourceHeads, destHeads
<1>7. WorkRun(odb, src, D, run'[c])
  BY <1>5, <1>6, WorkOfClone DEF WorkRun
<1>8. "select" \in Quiet
  BY DEF Quiet
<1>9. QED
  BY <1>1, <1>6, <1>7, <1>8, WorkStays

LEMMA WorkEnds ==
    ASSUME SyncInv, NEW D, Work(D), NEW c \in Clones, SkipImport(c) \/ NothingToPush(c) \/ Crash(c)
    PROVE  Work(D)'
<1>1. odb' = odb /\ src' = src /\ dst' = dst /\ local' = local
  BY DEF SkipImport, NothingToPush, Crash, remotes, clone
<1>2. \/ \E why : Abort(c, why)
      \/ \E halts : NextBranch(c, halts) \/ NextImport(c, halts)
  BY DEF SkipImport, NothingToPush, Crash
<1>3. QED
  BY <1>1, <1>2, WorkOfClone, Untouched, WorkEnded

LEMMA WorkPrepareImport ==
    ASSUME SyncInv, NEW D, Work(D), NEW c \in Clones, NEW b \in run[c].names, NEW tip, NEW attempt,
           pc[c] \notin {"idle", "fetch_heads"}, odb' = odb, src' = src, dst' = dst,
           local' = [local EXCEPT ![c] = local'[c]],
           local'[c] \in [Branches -> Homes(odb, src, D, {}) \cup {NoOid}],
           tip \in Homes(odb, src, D, {}), PrepareImport(c, b, tip, attempt)
    PROVE  Work(D)'
<1> DEFINE head == run[c].heads[b]
<1>1. CASE Abort(c, "boundary")
  BY <1>1, WorkOfClone, WorkAbort
<1>2. CASE ~ Abort(c, "boundary")
  <2>1. PICK boundary :
          /\ job' = [job EXCEPT ![c] =
                [NoJob EXCEPT !.branch = b, !.attempt = attempt, !.tip = tip,
                              !.seen = head, !.boundary = boundary, !.chain = tip,
                              !.pending = PendingCommits(boundary, head)]]
          /\ pc' = [pc EXCEPT ![c] = "import_build"] /\ run' = run
    BY <1>2 DEF PrepareImport
  <2>2. head \in D /\ head \in Oids
    <3>1. head # NoOid /\ b \in Branches
      BY Untouched DEF CloneInv, RunRefs
    <3>2. QED
      BY <3>1, WorkOfClone DEF WorkRun
  <2> HIDE DEF head
  <2>3. PendingCommits(boundary, head) \in Seq(D)
    <3>1. PendingCommits(boundary, head) \in Seq(Anc(head)) /\ Anc(head) \subseteq D
      BY <2>2, WorkOfClone, PendingCommitsOfTip DEF Ledger, Closed, Anc
    <3>2. QED
      BY <3>1, SeqMonotonic
  <2>4. /\ job'[c].seen = head /\ job'[c].pending = PendingCommits(boundary, head)
        /\ job'[c].bridge = NoOid /\ job'[c].built = {}
        /\ job'[c].chain = tip /\ job'[c].branch = b
        /\ job' = [job EXCEPT ![c] = job'[c]]
        /\ pc'[c] = "import_build" /\ pc' = [pc EXCEPT ![c] = pc'[c]]
    BY <2>1 DEF SyncInv, Table, NoJob
  <2>5. tip \in Homes(odb, src, D, {b})
    BY DEF Homes
  <2>6. WorkJob(odb, src, D, pc'[c], job'[c])
    BY <2>2, <2>3, <2>4, <2>5 DEF WorkJob, Mirroring
  <2>7. QED
    BY <2>1, <2>4, <2>6, WorkOfClone, Untouched, WorkRunStep
<1>3. QED
  BY <1>1, <1>2

LEMMA WorkBeginImport ==
    ASSUME SyncInv, NEW D, Work(D), NEW c \in Clones, BeginImport(c) PROVE Work(D)'
<1> DEFINE b == Head(run[c].imports)
           tip == IF local[c][b] # NoOid THEN local[c][b] ELSE src[b]
<1>1. odb' = odb /\ src' = src /\ dst' = dst /\ b \in run[c].names /\ pc[c] = "import"
  BY DEF BeginImport, remotes
<1>2. b \in Branches
  BY <1>1, Untouched DEF CloneInv, RunRefs
<1>3. \/ Abort(c, "fetch") /\ local' = local
      \/ /\ tip # NoOid /\ local' = [local EXCEPT ![c][b] = tip]
         /\ PrepareImport(c, b, tip, 0)
  BY DEF BeginImport, clone
<1>4. tip \in Homes(odb, src, D, {}) \cup {NoOid}
  BY <1>2, WorkOfClone
<1> HIDE DEF b, tip
<1>5. CASE Abort(c, "fetch") /\ local' = local
  BY <1>1, <1>5, WorkOfClone, Untouched, WorkEnded
<1>6. CASE tip # NoOid /\ local' = [local EXCEPT ![c][b] = tip] /\ PrepareImport(c, b, tip, 0)
  <2>1. local' = [local EXCEPT ![c] = local'[c]] /\ local'[c] = [local[c] EXCEPT ![b] = tip]
    BY <1>6 DEF SyncInv
  <2>2. local'[c] \in [Branches -> Homes(odb, src, D, {}) \cup {NoOid}]
    <3> DEFINE S == Homes(odb, src, D, {}) \cup {NoOid}
    <3>1. local[c] \in [Branches -> S] /\ tip \in S
      BY <1>4, WorkOfClone
    <3> HIDE DEF S
    <3>2. local'[c] \in [Branches -> S]
      BY <2>1, <3>1
    <3>3. QED
      BY <3>2 DEF S
  <2>3. QED
    BY <1>1, <1>4, <1>6, <2>1, <2>2, WorkPrepareImport
<1>7. QED
  BY <1>3, <1>5, <1>6

LEMMA WorkRefetch ==
    ASSUME SyncInv, NEW D, Work(D), NEW c \in Clones, RefetchSource(c) PROVE Work(D)'
<1> DEFINE b == job[c].branch
<1>1. /\ odb' = odb /\ src' = src /\ dst' = dst /\ local' = local /\ pc[c] = "import_refetch"
      /\ local' = [local EXCEPT ![c] = local'[c]]
  BY Untouched DEF RefetchSource, remotes
<1>2. b \in run[c].names /\ b \in Branches
  BY <1>1, Untouched DEF CloneInv, JobRefs, RunRefs, Importing
<1>3. Abort(c, "fetch") \/ (src[b] # NoOid /\ PrepareImport(c, b, src[b], job[c].attempt))
  BY DEF RefetchSource
<1>4. src[b] \in Homes(odb, src, D, {}) \cup {NoOid}
  BY <1>2, WorkOfClone
<1> HIDE DEF b
<1>5. CASE Abort(c, "fetch")
  BY <1>1, <1>5, WorkOfClone, WorkEnded
<1>6. CASE src[b] # NoOid /\ PrepareImport(c, b, src[b], job[c].attempt)
  BY <1>1, <1>2, <1>4, <1>6, WorkOfClone, WorkPrepareImport
<1>7. QED
  BY <1>3, <1>5, <1>6

(* An import joins the chain, whose imports for this branch wait for the   *)
(* push that makes them stand in.                                          *)
LEMMA WorkReplayToSource ==
    ASSUME SyncInv, NEW D, Work(D), NEW c \in Clones, ReplayToSource(c) PROVE Work(D)'
<1> DEFINE j == job[c]
           o == Head(j.pending)
           parents == <<j.chain>>
           marker == Marker("DestToSource", j.branch, o)
<1>1. /\ src' = src /\ dst' = dst /\ local' = local /\ run' = run /\ pc' = pc
      /\ pc[c] = "import_build" /\ pc'[c] = "import_build" /\ pc' = [pc EXCEPT ![c] = pc'[c]]
      /\ j.pending # <<>>
  BY Untouched DEF ReplayToSource, remotes
<1>2. /\ WorkJob(odb, src, D, "import_build", j) /\ j.pending \in Seq(D)
      /\ j.chain \in Homes(odb, src, D, {j.branch})
  <2>1. WorkJob(odb, src, D, "import_build", j)
    BY <1>1, WorkOfClone
  <2>2. QED
    BY <2>1 DEF WorkJob
<1>3. o \in D /\ Tail(j.pending) \in Seq(D) /\ <<>> \in Seq(D)
  BY <1>1, <1>2, HeadTailProperties
<1>4. job[c] = j /\ DOMAIN NoJob \subseteq DOMAIN j
  BY WorkOfClone
<1>5. \/ /\ odb' = odb
         /\ \E k : /\ job' = [job EXCEPT ![c] = k] /\ k.pending \in Seq(D) /\ k.chain = j.chain
                   /\ k.seen = j.seen /\ k.bridge = j.bridge /\ k.built = j.built
                   /\ k.branch = j.branch
      \/ /\ \E tree : Write(parents, tree, marker)
         /\ \E k : /\ job' = [job EXCEPT ![c] = k] /\ k.pending \in Seq(D) /\ k.chain = NextOid
                   /\ k.seen = j.seen /\ k.bridge = j.bridge /\ k.built = j.built
                   /\ k.branch = j.branch
  <2> DEFINE skipped == [j EXCEPT !.pending = Tail(j.pending)]
             stopped == [j EXCEPT !.pending = <<>>, !.conflict = o]
             built == [j EXCEPT !.pending = Tail(j.pending), !.chain = NextOid]
  <2>1. \/ odb' = odb /\ job' = [job EXCEPT ![c] = skipped]
        \/ odb' = odb /\ job' = [job EXCEPT ![c] = stopped]
        \/ (\E tree : Write(parents, tree, marker)) /\ job' = [job EXCEPT ![c] = built]
    BY DEF ReplayToSource
  <2> HIDE DEF j, o, marker, parents
  <2>2. /\ skipped.pending \in Seq(D) /\ skipped.chain = j.chain
        /\ skipped.seen = j.seen /\ skipped.bridge = j.bridge /\ skipped.built = j.built
        /\ skipped.branch = j.branch
    BY <1>3, <1>4 DEF NoJob
  <2>3. /\ stopped.pending \in Seq(D) /\ stopped.chain = j.chain
        /\ stopped.seen = j.seen /\ stopped.bridge = j.bridge /\ stopped.built = j.built
        /\ stopped.branch = j.branch
    BY <1>3, <1>4 DEF NoJob
  <2>4. /\ built.pending \in Seq(D) /\ built.chain = NextOid
        /\ built.seen = j.seen /\ built.bridge = j.bridge /\ built.built = j.built
        /\ built.branch = j.branch
    BY <1>3, <1>4 DEF NoJob
  <2> HIDE DEF skipped, stopped, built
  <2>5. QED
    BY <2>1, <2>2, <2>3, <2>4
<1>6. /\ \A i \in DOMAIN parents : parents[i] \in Homes(odb, src, D, {j.branch})
      /\ marker.dir = "DestToSource" /\ marker.branch = j.branch /\ marker.counterpart \in D
  BY <1>2, <1>3 DEF Marker
<1> HIDE DEF o, marker, parents, j
<1>7. CASE /\ odb' = odb
           /\ \E k : /\ job' = [job EXCEPT ![c] = k] /\ k.pending \in Seq(D) /\ k.chain = j.chain
                     /\ k.seen = j.seen /\ k.bridge = j.bridge /\ k.built = j.built
                     /\ k.branch = j.branch
  <2>1. PICK k : /\ job' = [job EXCEPT ![c] = k] /\ k.pending \in Seq(D) /\ k.chain = j.chain
                 /\ k.seen = j.seen /\ k.bridge = j.bridge /\ k.built = j.built
                 /\ k.branch = j.branch
    BY <1>7
  <2>2. job'[c] = k /\ job' = [job EXCEPT ![c] = job'[c]]
    BY <2>1 DEF SyncInv, Table
  <2>3. WorkJob(odb, src, D, "import_build", k)
    BY <1>2, <2>1 DEF WorkJob, Mirroring
  <2>4. WorkJob(odb', src', D, pc'[c], job'[c]) /\ Grown(D, D)
    BY <1>1, <1>7, <2>2, <2>3, WorkOfClone, NothingGrown
  <2>5. QED
    BY <1>1, <2>2, <2>4, WorkJobStep
<1>8. CASE /\ \E tree : Write(parents, tree, marker)
           /\ \E k : /\ job' = [job EXCEPT ![c] = k] /\ k.pending \in Seq(D) /\ k.chain = NextOid
                     /\ k.seen = j.seen /\ k.bridge = j.bridge /\ k.built = j.built
                     /\ k.branch = j.branch
  <2>1. PICK k : /\ job' = [job EXCEPT ![c] = k] /\ k.pending \in Seq(D) /\ k.chain = NextOid
                 /\ k.seen = j.seen /\ k.bridge = j.bridge /\ k.built = j.built
                 /\ k.branch = j.branch
    BY <1>8
  <2>2. PICK tree : Write(parents, tree, marker)
    BY <1>8
  <2>3. job'[c] = k /\ job' = [job EXCEPT ![c] = job'[c]]
    BY <2>1 DEF SyncInv, Table
  <2>4. NextOid \notin D /\ Ledger(odb, src, D)
    BY WorkOfClone DEF NextOid, SyncInv, ObjectDatabase
  <2>5. Grown(D, D)
    BY <1>1, <1>6, <2>2, <2>4, GrownWrite
  <2>6. NextOid \in Homes(odb', src', D, {j.branch})
    BY <1>1, <1>6, <2>2, <2>4, HomesWrite
  <2>7. WorkJob(odb', src', D, "import_build", j)
    BY <1>2, <2>5, WorkRunGrows
  <2>8. WorkJob(odb', src', D, "import_build", k)
    BY <2>1, <2>6, <2>7 DEF WorkJob, Mirroring
  <2>9. QED
    BY <1>1, <2>3, <2>5, <2>8, WorkJobStep
<1>9. QED
  BY <1>5, <1>7, <1>8

LEMMA WorkPushToSource ==
    ASSUME SyncInv, NEW D, Work(D), NEW c \in Clones, PushToSource(c) PROVE Work(D)'
<1> DEFINE j == job[c]
           b == j.branch
           chain == j.chain
<1>1. /\ odb' = odb /\ dst' = dst /\ local' = local /\ pc[c] = "import_build"
      /\ local' = [local EXCEPT ![c] = local'[c]]
  BY Untouched DEF PushToSource, clone
<1>2. /\ chain \in Homes(odb, src, D, {b}) /\ b \in Branches /\ DOMAIN NoJob \subseteq DOMAIN j
      /\ WorkJob(odb, src, D, "import_build", j)
  <2>1. WorkJob(odb, src, D, "import_build", j) /\ DOMAIN NoJob \subseteq DOMAIN j
    BY <1>1, WorkOfClone
  <2>2. b \in Branches
    BY <1>1, Untouched DEF CloneInv, JobRefs, RunRefs, Importing
  <2>3. QED
    BY <2>1, <2>2 DEF WorkJob
<1>3. \/ (\E why : Abort(c, why)) /\ src' = src
      \/ /\ pc' = [pc EXCEPT ![c] = "import_refetch"] /\ src' = src /\ run' = run
         /\ job' = [job EXCEPT ![c] = [j EXCEPT !.attempt = j.attempt + 1]]
      \/ /\ src' = [src EXCEPT ![b] = chain] /\ SourceAccepts(src[b], chain) /\ run' = run
         /\ pc' = [pc EXCEPT ![c] = "import_advance"]
         /\ job' = [job EXCEPT ![c] = [j EXCEPT !.expected = local[c][b]]]
  BY DEF PushToSource
<1> HIDE DEF j, b, chain
<1>4. CASE (\E why : Abort(c, why)) /\ src' = src
  BY <1>1, <1>4, WorkOfClone, WorkEnded
<1>5. CASE /\ pc' = [pc EXCEPT ![c] = "import_refetch"] /\ src' = src /\ run' = run
           /\ job' = [job EXCEPT ![c] = [j EXCEPT !.attempt = j.attempt + 1]]
  <2>1. /\ job' = [job EXCEPT ![c] = job'[c]] /\ job'[c].seen = j.seen
        /\ job'[c].bridge = j.bridge /\ job'[c].built = j.built
        /\ pc'[c] = "import_refetch" /\ pc' = [pc EXCEPT ![c] = pc'[c]]
    BY <1>2, <1>5 DEF SyncInv, Table, NoJob
  <2>2. WorkJob(odb, src, D, pc'[c], job'[c])
    BY <1>2, <2>1 DEF WorkJob, Mirroring
  <2>3. QED
    BY <1>1, <1>5, <2>1, <2>2, WorkOfClone, Untouched, WorkRunStep
<1>6. CASE /\ src' = [src EXCEPT ![b] = chain] /\ SourceAccepts(src[b], chain) /\ run' = run
           /\ pc' = [pc EXCEPT ![c] = "import_advance"]
           /\ job' = [job EXCEPT ![c] = [j EXCEPT !.expected = local[c][b]]]
  <2>1. /\ job' = [job EXCEPT ![c] = job'[c]] /\ job'[c].seen = j.seen
        /\ job'[c].bridge = j.bridge /\ job'[c].built = j.built /\ job'[c].chain = chain
        /\ pc'[c] = "import_advance" /\ pc' = [pc EXCEPT ![c] = pc'[c]]
    BY <1>2, <1>6 DEF SyncInv, Table, NoJob, chain
  <2>2. chain \in Oids /\ chain # NoOid /\ Oids = 1 .. Len(odb)
    BY <1>2 DEF Homes, Oids, NoOid
  <2>3. src'[b] = chain /\ \A x \in Branches : x # b => src'[x] = src[x]
    BY <1>2, <1>6, WorkOfClone
  <2>4. src[b] # NoOid => odb[src[b]].anc \subseteq odb[chain].anc
    <3>1. src[b] # NoOid => src[b] \in Anc(chain)
      BY <1>6 DEF SourceAccepts, IsAncestor
    <3>2. QED
      BY <2>2, <3>1, WorkOfClone, CommitFacts DEF Anc
  <2>5. RefsGrow(odb, src, odb, src')
    BY <2>2, <2>3, <2>4 DEF RefsGrow
  <2>6. Grown(D, D)
    BY <1>1, <2>5, WorkOfClone, RefsGrown
  <2>7. chain \in Homes(odb', src', D, {b})
    BY <1>2, <2>6 DEF Grown
  <2>8. chain \in Homes(odb', src', D, {})
    <3>1. ASSUME NEW a \in odb'[chain].anc, Looped(odb', a) PROVE a \in StandIns(odb', src')
      <4>1. a \in StandIns(odb', src') \/ odb'[a].marker.branch = b
        BY <2>7, <3>1 DEF Homes
      <4>2. a \in 1 .. Len(odb')
        BY <1>1, <2>2, <3>1, WorkOfClone, CommitFacts DEF Anc
      <4>3. QED
        BY <1>2, <2>2, <2>3, <3>1, <4>1, <4>2 DEF StandIns
    <3>2. QED
      BY <2>7, <3>1 DEF Homes
  <2>9. src' \in [Branches -> Homes(odb', src', D, {}) \cup {NoOid}]
    <3>1. src \in [Branches -> Homes(odb', src', D, {}) \cup {NoOid}]
      BY <2>6, WorkOfClone, WorkRunGrows
    <3> DEFINE S == Homes(odb', src', D, {}) \cup {NoOid}
    <3>2. chain \in S /\ src \in [Branches -> S]
      BY <2>8, <3>1
    <3> HIDE DEF S
    <3>3. src' \in [Branches -> S]
      BY <1>6, <3>2
    <3>4. QED
      BY <3>3 DEF S
  <2>10. /\ dst' \in [Branches -> D \cup {NoOid}] /\ WorkRun(odb', src', D, run'[c])
         /\ local'[c] \in [Branches -> Homes(odb', src', D, {}) \cup {NoOid}]
         /\ WorkJob(odb', src', D, "import_build", j) /\ run' = [run EXCEPT ![c] = run'[c]]
    BY <1>1, <1>2, <1>6, <2>6, WorkOfClone, WorkRunGrows, Untouched
  <2>11. WorkJob(odb', src', D, pc'[c], job'[c])
    BY <2>1, <2>8, <2>10 DEF WorkJob, Mirroring
  <2>12. QED
    BY <1>1, <2>1, <2>6, <2>9, <2>10, <2>11, WorkStep
<1>7. QED
  BY <1>3, <1>4, <1>5, <1>6

LEMMA WorkAdvance ==
    ASSUME SyncInv, NEW D, Work(D), NEW c \in Clones, AdvanceLocalSourceBranch(c) PROVE Work(D)'
<1> DEFINE b == job[c].branch
           chain == job[c].chain
<1>1. odb' = odb /\ src' = src /\ dst' = dst /\ pc[c] = "import_advance"
  BY DEF AdvanceLocalSourceBranch, remotes
<1>2. /\ local' = local \/ local' = [local EXCEPT ![c][b] = chain]
      /\ \/ \E why : Abort(c, why)
         \/ \E halts : NextBranch(c, halts) \/ NextImport(c, halts)
  BY DEF AdvanceLocalSourceBranch
<1>3. chain \in Homes(odb, src, D, {})
  <2>1. WorkJob(odb, src, D, "import_advance", job[c])
    BY <1>1, WorkOfClone
  <2>2. QED
    BY <2>1 DEF WorkJob
<1> HIDE DEF b, chain
<1>4. /\ local' = [local EXCEPT ![c] = local'[c]]
      /\ local'[c] \in [Branches -> Homes(odb, src, D, {}) \cup {NoOid}]
  <2>1. CASE local' = local
    BY <2>1, Untouched, WorkOfClone
  <2>2. CASE local' = [local EXCEPT ![c][b] = chain]
    <3>1. local' = [local EXCEPT ![c] = local'[c]] /\ local'[c] = [local[c] EXCEPT ![b] = chain]
      BY <2>2 DEF SyncInv
    <3> DEFINE S == Homes(odb, src, D, {}) \cup {NoOid}
    <3>2. local[c] \in [Branches -> S] /\ chain \in S
      BY <1>3, WorkOfClone
    <3> HIDE DEF S
    <3>3. local'[c] \in [Branches -> S]
      BY <3>1, <3>2
    <3>4. QED
      BY <3>1, <3>3 DEF S
  <2>3. QED
    BY <1>2, <2>1, <2>2
<1>5. QED
  BY <1>1, <1>2, <1>4, WorkEnded

(* A step of the run that moves no ref. *)
LEMMA WorkGoesOn ==
    ASSUME SyncInv, NEW D, Work(D), NEW c \in Clones,
           odb' = odb, src' = src, dst' = dst, local' = local,
           NEW p, NEW k, NEW r, pc' = [pc EXCEPT ![c] = p], job' = [job EXCEPT ![c] = k],
           run' = [run EXCEPT ![c] = r], r.heads = run[c].heads, r.index = run[c].index,
           WorkJob(odb, src, D, p, k)
    PROVE  Work(D)'
<1>1. /\ pc'[c] = p /\ job'[c] = k /\ run'[c] = r /\ pc' = [pc EXCEPT ![c] = pc'[c]]
      /\ job' = [job EXCEPT ![c] = job'[c]] /\ run' = [run EXCEPT ![c] = run'[c]]
  BY DEF SyncInv, Table
<1>2. WorkRun(odb, src, D, run'[c])
  BY <1>1, WorkOfClone DEF WorkRun
<1>3. /\ WorkJob(odb, src, D, pc'[c], job'[c]) /\ dst' \in [Branches -> D \cup {NoOid}]
      /\ local' = [local EXCEPT ![c] = local'[c]]
      /\ local'[c] \in [Branches -> Homes(odb, src, D, {}) \cup {NoOid}]
  BY <1>1, WorkOfClone, Untouched
<1>4. QED
  BY <1>1, <1>2, <1>3, WorkRunStep

LEMMA WorkSelect ==
    ASSUME SyncInv, NEW D, Work(D), NEW c \in Clones, SelectNextBranch(c) PROVE Work(D)'
<1>1. PICK b \in run[c].remaining :
        /\ run' = [run EXCEPT ![c].remaining = @ \ {b},
              ![c].noMapping = @ \cup {a \in run[c].remaining : Distance(c, a) = 0}]
        /\ job' = [job EXCEPT ![c] = [NoJob EXCEPT !.branch = b, !.tip = local[c][b]]]
  BY DEF SelectNextBranch
<1>2. /\ odb' = odb /\ src' = src /\ dst' = dst /\ local' = local
      /\ pc' = [pc EXCEPT ![c] = "fetch_dest"]
  BY DEF SelectNextBranch, remotes, clone
<1>3. PICK r : run' = [run EXCEPT ![c] = r] /\ r.heads = run[c].heads /\ r.index = run[c].index
  <2>1. /\ run'[c].heads = run[c].heads /\ run'[c].index = run[c].index
        /\ run' = [run EXCEPT ![c] = run'[c]]
    BY <1>1, WorkOfClone DEF NoRun, SyncInv, Table
  <2>2. QED
    BY <2>1
<1> DEFINE k == [NoJob EXCEPT !.branch = b, !.tip = local[c][b]]
<1>4. k.seen = NoOid /\ k.bridge = NoOid /\ k.built = {} /\ k.tip = local[c][b]
  BY DEF NoJob
<1>5. job' = [job EXCEPT ![c] = k]
  BY <1>1
<1> HIDE DEF k
<1>6. local[c][b] \in Homes(odb, src, D, {})
  <2>1. b \in Branches /\ local[c][b] # NoOid
    BY Untouched DEF CloneInv, RunRefs
  <2>2. QED
    BY <2>1, WorkOfClone
<1>7. WorkJob(odb, src, D, "fetch_dest", k)
  BY <1>4, <1>6 DEF WorkJob
<1>8. QED
  BY <1>2, <1>3, <1>5, <1>7, WorkGoesOn

LEMMA WorkFetchDest ==
    ASSUME SyncInv, NEW D, Work(D), NEW c \in Clones, FetchDest(c) PROVE Work(D)'
<1> DEFINE b == job[c].branch
           exists == run[c].exists[b] = "yes" \/ (run[c].exists[b] = "ask" /\ dst[b] # NoOid)
           known == [run[c].exists EXCEPT ![b] = IF exists THEN "yes" ELSE "no"]
           seen == IF exists THEN dst[b] ELSE NoOid
           mode == IF b \in run[c].recreate THEN "CreateOnly" ELSE "FastForwardOnly"
<1>1. /\ odb' = odb /\ src' = src /\ dst' = dst /\ local' = local /\ pc[c] = "fetch_dest"
  BY DEF FetchDest, remotes
<1>2. CASE NextBranch(c, {b}) \/ Abort(c, "fetch")
  BY <1>1, <1>2, WorkOfClone, Untouched, WorkEnded
<1>3. CASE /\ run' = [run EXCEPT ![c] = [run[c] EXCEPT !.exists = known]]
           /\ job' = [job EXCEPT ![c] = [job[c] EXCEPT !.seen = seen, !.mode = mode]]
           /\ pc' = [pc EXCEPT ![c] = "plan"]
  <2>1. seen \in D \cup {NoOid}
    <3>1. b \in Branches
      BY <1>1, Untouched DEF CloneInv, JobRefs, Mirroring
    <3>2. QED
      BY <3>1, WorkOfClone
  <2>2. mode # "ForceMirrorOnly"
    OBVIOUS
  <2> HIDE DEF seen, known, mode
  <2> DEFINE r == [run[c] EXCEPT !.exists = known]
             k == [job[c] EXCEPT !.seen = seen, !.mode = mode]
  <2>3. r.heads = run[c].heads /\ r.index = run[c].index
    BY WorkOfClone DEF NoRun
  <2>4. /\ k.seen = seen /\ k.mode = mode /\ k.bridge = job[c].bridge /\ k.built = job[c].built
        /\ k.tip = job[c].tip
    BY WorkOfClone DEF NoJob
  <2>5. run' = [run EXCEPT ![c] = r] /\ job' = [job EXCEPT ![c] = k]
    BY <1>3
  <2> HIDE DEF r, k
  <2>6. WorkJob(odb, src, D, "fetch_dest", job[c])
    BY <1>1, WorkOfClone
  <2>7. WorkJob(odb, src, D, "plan", k)
    BY <2>1, <2>2, <2>4, <2>6 DEF WorkJob, Mirroring
  <2>8. QED
    BY <1>1, <1>3, <2>3, <2>5, <2>7, WorkGoesOn
<1>4. QED
  BY <1>2, <1>3 DEF FetchDest

LEMMA WorkPushRejected ==
    ASSUME SyncInv, NEW D, Work(D), NEW c \in Clones, PushRejected(c) PROVE Work(D)'
<1> DEFINE b == job[c].branch
           known == [run[c].exists EXCEPT ![b] = "ask"]
           r == [run[c] EXCEPT !.exists = known]
           k == [NoJob EXCEPT !.branch = b, !.tip = job[c].tip, !.attempt = job[c].attempt + 1]
<1>1. /\ odb' = odb /\ src' = src /\ dst' = dst /\ local' = local /\ pc[c] = "push_dest"
  BY DEF PushRejected, remotes, clone
<1>2. CASE NextBranch(c, {b}) \/ Abort(c, "race")
  BY <1>1, <1>2, WorkOfClone, Untouched, WorkEnded
<1>3. CASE /\ run' = [run EXCEPT ![c] = r]
           /\ job' = [job EXCEPT ![c] = k]
           /\ pc' = [pc EXCEPT ![c] = "fetch_dest"]
  <2>1. r.heads = run[c].heads /\ r.index = run[c].index
    <3> HIDE DEF known
    <3>1. QED
      BY WorkOfClone DEF NoRun
  <2>2. k.seen = NoOid /\ k.bridge = NoOid /\ k.built = {} /\ k.tip = job[c].tip
    BY DEF NoJob
  <2> HIDE DEF r, k
  <2>3. job[c].tip \in Homes(odb, src, D, {})
    BY <1>1, WorkOfClone DEF WorkJob, Mirroring
  <2>4. WorkJob(odb, src, D, "fetch_dest", k)
    BY <2>2, <2>3 DEF WorkJob
  <2>5. QED
    BY <1>1, <1>3, <2>1, <2>4, WorkGoesOn
<1>4. QED
  BY <1>2, <1>3 DEF PushRejected

LEMMA IndexAfterPushStoodFor ==
    ASSUME SyncInv, NEW D, Work(D), NEW c \in Clones, pc[c] = "push_dest"
    PROVE  Canonicals(IndexAfterPush(c)) \subseteq StoodFor(odb, src)
<1> DEFINE j == job[c]
           index == run[c].index
           kept == IF j.mode = "ForceMirrorOnly"
                   THEN index \ ReplacedChain(index, j.branch, Anc(j.chain)) ELSE index
           pushed == IF j.built = {} THEN {j.chain}
                     ELSE IF j.bridge # NoOid THEN {j.bridge} ELSE {}
           projections == {x \in pushed : VerifySelf(x, {"SourceToDest"})}
<1>1. IndexAfterPush(c) = kept \cup {BuiltMapping(j.branch, m[1], m[2]) : m \in j.built}
                               \cup {DestCommitMapping(o) : o \in projections}
  BY DEF IndexAfterPush
<1>2. /\ Canonicals(index) \subseteq StoodFor(odb, src) /\ j.chain \in StoodFor(odb, src)
      /\ j.bridge \in StoodFor(odb, src) \cup {NoOid}
      /\ \A m \in j.built : m[2] \in StoodFor(odb, src)
  BY WorkOfClone DEF WorkRun, WorkJob
<1>3. Canonicals(kept) \subseteq StoodFor(odb, src)
  BY <1>2 DEF Canonicals
<1>4. \A m \in j.built : BuiltMapping(j.branch, m[1], m[2]).canonical \in StoodFor(odb, src)
  BY <1>2 DEF BuiltMapping, Mapping
<1>5. pushed \subseteq Oids
  BY <1>2, WorkOfClone, StoodForIsKept
<1>6. \A o \in projections : DestCommitMapping(o).canonical \in StoodFor(odb, src)
  BY <1>5, WorkOfClone, ProjectionStoodFor
<1> HIDE DEF kept, pushed, projections, index, j
<1>7. QED
  BY <1>1, <1>3, <1>4, <1>6 DEF Canonicals

LEMMA WorkPushToDest ==
    ASSUME SyncInv, NEW D, Work(D), NEW c \in Clones, PushToDest(c) PROVE Work(D)'
<1> DEFINE b == job[c].branch
           index == IndexAfterPush(c)
<1>1. /\ odb' = odb /\ src' = src /\ local' = local /\ pc[c] = "push_dest"
      /\ dst' = [dst EXCEPT ![b] = job[c].chain] /\ local' = [local EXCEPT ![c] = local'[c]]
  BY Untouched DEF PushToDest, clone
<1>2. dst' \in [Branches -> D \cup {NoOid}]
  <2>1. b \in Branches /\ job[c].chain \in StoodFor(odb, src)
    BY <1>1, Untouched, WorkOfClone DEF CloneInv, JobRefs, Mirroring, WorkJob
  <2>2. job[c].chain \in D
    BY <2>1, WorkOfClone, StoodForIsKept
  <2>3. QED
    BY <1>1, <2>1, <2>2, WorkOfClone
<1>3. Canonicals(index) \subseteq StoodFor(odb, src)
  BY <1>1, IndexAfterPushStoodFor
<1>4. \/ Abort(c, "conflict")
      \/ /\ pc' = [pc EXCEPT ![c] = "select"]
         /\ run' = [run EXCEPT ![c].index = index, ![c].exists[b] = "yes"]
         /\ job' = [job EXCEPT ![c] = NoJob]
  BY DEF PushToDest
<1> HIDE DEF b, index
<1>5. CASE Abort(c, "conflict")
  BY <1>1, <1>2, <1>5, WorkOfClone, WorkAbort
<1>6. CASE /\ pc' = [pc EXCEPT ![c] = "select"]
           /\ run' = [run EXCEPT ![c].index = index, ![c].exists[b] = "yes"]
           /\ job' = [job EXCEPT ![c] = NoJob]
  <2>1. /\ run'[c].heads = run[c].heads /\ run'[c].index = index
        /\ run' = [run EXCEPT ![c] = run'[c]]
    BY <1>6, WorkOfClone DEF NoRun, SyncInv, Table
  <2>2. WorkRun(odb, src, D, run'[c])
    BY <1>3, <2>1, WorkOfClone DEF WorkRun
  <2>3. "select" \in Quiet
    BY DEF Quiet
  <2>4. QED
    BY <1>1, <1>2, <1>6, <2>1, <2>2, <2>3, WorkOfClone, WorkQuiet
<1>7. QED
  BY <1>4, <1>5, <1>6

LEMMA WorkPlanBuild ==
    ASSUME SyncInv, NEW D, Work(D), NEW c \in Clones, pc[c] = "plan", NEW v, NEW reuse,
           v.base \in StoodFor(odb, src),
           v.mode = "ForceMirrorOnly" => job[c].seen \in StoodFor(odb, src),
           reuse.kind \in {"FastForward", "Bridge"} => reuse.projection \in StoodFor(odb, src),
           PlanBuild(c, v, reuse), src' = src, dst' = dst, local' = local
    PROVE  \E E : Work(E)'
<1> DEFINE chain == IF reuse.kind = "Bridge" THEN NextOid
                    ELSE IF reuse.kind = "FastForward" THEN reuse.projection ELSE v.base
           bridge == IF reuse.kind = "Bridge" THEN NextOid ELSE NoOid
           j == job[c]
<1>1. /\ job'[c].chain = chain /\ job'[c].bridge = bridge /\ job'[c].seen = j.seen
      /\ job'[c].built = j.built /\ job'[c].tip = j.tip /\ job'[c].mode = v.mode
      /\ job' = [job EXCEPT ![c] = job'[c]]
  BY WorkOfClone DEF PlanBuild, NoJob, SyncInv, Table
<1>2. /\ run' = run /\ pc'[c] = "build" /\ pc' = [pc EXCEPT ![c] = pc'[c]]
  BY DEF PlanBuild, SyncInv, Table
<1>3. WorkJob(odb, src, D, "plan", j) /\ Ledger(odb, src, D)
  BY WorkOfClone
<1>4. CASE reuse.kind = "Bridge"
  <2> DEFINE marker == Marker("SourceToDest", j.branch, reuse.shared)
             parents == <<v.base, reuse.projection>>
             tree == TreeOf(reuse.projection)
  <2>0. PICK E : E = D \cup {NextOid}
    OBVIOUS
  <2>1. Write(parents, tree, marker)
    BY <1>4 DEF PlanBuild
  <2>2. parents \in Seq(StoodFor(odb, src))
    BY <1>4, PairSeq
  <2>3. marker.dir = "SourceToDest"
    BY DEF Marker
  <2>4. chain = NextOid /\ bridge = NextOid
    BY <1>4
  <2> HIDE DEF parents, tree, marker, chain, bridge, j
  <2>5. \A i \in DOMAIN parents : parents[i] \in D
    BY <1>3, <2>2, StoodForIsKept
  <2>6. Grown(D, E) /\ NextOid \in StoodFor(odb', src')
    BY <1>3, <2>0, <2>1, <2>2, <2>3, <2>5, GrownWrite
  <2>7. WorkJob(odb', src', E, "plan", j)
    BY <1>3, <2>6, WorkRunGrows
  <2>8. v.mode = "ForceMirrorOnly" => j.seen \in StoodFor(odb', src')
    BY <2>6 DEF Grown, j
  <2>9. WorkJob(odb', src', E, pc'[c], job'[c])
    BY <1>1, <1>2, <2>4, <2>6, <2>7, <2>8 DEF WorkJob, Mirroring
  <2>10. Work(E)'
    BY <1>1, <1>2, <2>6, <2>9, WorkJobStep
  <2>11. QED
    BY <2>10
<1>5. CASE reuse.kind # "Bridge"
  <2>1. odb' = odb
    BY <1>5 DEF PlanBuild
  <2>2. chain \in StoodFor(odb, src) /\ bridge = NoOid
    BY <1>5
  <2>3. v.mode = "ForceMirrorOnly" => j.seen \in StoodFor(odb, src)
    OBVIOUS
  <2> HIDE DEF chain, bridge, j
  <2>4. WorkJob(odb, src, D, "build", job'[c])
    BY <1>1, <1>3, <2>2, <2>3 DEF WorkJob, Mirroring
  <2>5. Grown(D, D)
    BY <1>3, <2>1, NothingGrown
  <2>6. Work(D)'
    BY <1>1, <1>2, <2>1, <2>4, <2>5, WorkJobStep
  <2>7. QED
    BY <2>6
<1>6. QED
  BY <1>4, <1>5

LEMMA WorkPlanBranch ==
    ASSUME SyncInv, NEW D, Work(D), NEW c \in Clones, PlanBranch(c) PROVE \E E : Work(E)'
<1>1. pc[c] = "plan" /\ src' = src /\ dst' = dst /\ local' = local
  BY DEF PlanBranch, remotes
<1>2. PICK v, pending, newest, plan :
        /\ v = Resume(c)
        /\ pending = (IF v.do = "build" THEN PendingCommits(v.boundary, job[c].tip) ELSE <<>>)
        /\ newest = NewestShared(have[c], run[c].index, pending, v.base)
        /\ plan = Plan(c, v, pending, newest)
        /\ \/ plan.do = "abort" /\ Abort(c, "resume") /\ UNCHANGED <<odb, have>>
           \/ plan.do = "halt" /\ NextBranch(c, {job[c].branch}) /\ UNCHANGED <<odb, have>>
           \/ plan.do = "skip" /\ NextBranch(c, {}) /\ UNCHANGED <<odb, have>>
           \/ plan.do = "build" /\ PlanBuild(c, v, plan.reuse)
  BY DEF PlanBranch
<1>3. CASE odb' = odb /\ ((\E why : Abort(c, why)) \/ \E halts : NextBranch(c, halts))
  BY <1>1, <1>3, WorkOfClone, Untouched, WorkEnded
<1>4. CASE plan.do = "build" /\ PlanBuild(c, v, plan.reuse)
  <2>1. Canonicals(run[c].index) \subseteq StoodFor(odb, src) /\ job[c].mode # "ForceMirrorOnly"
    BY <1>1, WorkOfClone DEF WorkRun, WorkJob
  <2>0. /\ pc[c] = "plan" /\ plan.do = "build"
        /\ pending = (IF v.do = "build" THEN PendingCommits(v.boundary, job[c].tip) ELSE <<>>)
        /\ newest = NewestShared(have[c], run[c].index, pending, v.base)
        /\ plan = Plan(c, v, pending, newest)
    BY <1>1, <1>2, <1>4
  <2>2. /\ v.do = "build"
        /\ plan.reuse.kind \in {"FastForward", "Bridge"} =>
              plan.reuse.projection \in have[c] \cap Canonicals(run[c].index)
    BY <2>0, PlanKnown
  <2>3. /\ v.base \in StoodFor(odb, src)
        /\ v.mode = "ForceMirrorOnly" => job[c].seen \in StoodFor(odb, src)
    BY <1>1, <1>2, <2>1, <2>2, ResumeStoodFor
  <2>4. plan.reuse.kind \in {"FastForward", "Bridge"} => plan.reuse.projection \in StoodFor(odb, src)
    BY <2>1, <2>2
  <2>5. QED
    BY <1>1, <1>4, <2>3, <2>4, WorkPlanBuild
<1>5. QED
  BY <1>2, <1>3, <1>4

LEMMA WorkReplayToDest ==
    ASSUME SyncInv, NEW D, Work(D), NEW c \in Clones, ReplayToDest(c) PROVE \E E : Work(E)'
<1> DEFINE j == job[c]
           o == Head(j.pending)
           marker == Marker("SourceToDest", j.branch, o)
           parents == <<j.chain>>
<1>1. /\ src' = src /\ dst' = dst /\ local' = local /\ run' = run /\ pc' = pc /\ pc[c] = "build"
      /\ pc' = [pc EXCEPT ![c] = pc'[c]] /\ pc'[c] = "build"
  BY Untouched DEF ReplayToDest, remotes
<1>2. /\ WorkJob(odb, src, D, "build", j) /\ j.chain \in StoodFor(odb, src)
      /\ Ledger(odb, src, D) /\ DOMAIN NoJob \subseteq DOMAIN j
  <2>1. WorkJob(odb, src, D, "build", j) /\ Ledger(odb, src, D) /\ DOMAIN NoJob \subseteq DOMAIN j
    BY <1>1, WorkOfClone
  <2>2. QED
    BY <2>1 DEF WorkJob
<1>3. \/ /\ odb' = odb
         /\ \E k : /\ job' = [job EXCEPT ![c] = k] /\ k.chain = j.chain /\ k.built = j.built
                   /\ k.seen = j.seen /\ k.bridge = j.bridge /\ k.tip = j.tip /\ k.mode = j.mode
      \/ /\ \E tree : Write(parents, tree, marker)
         /\ \E k : /\ job' = [job EXCEPT ![c] = k] /\ k.chain = NextOid
                   /\ k.built = j.built \cup {<<o, NextOid>>}
                   /\ k.seen = j.seen /\ k.bridge = j.bridge /\ k.tip = j.tip /\ k.mode = j.mode
  <2> DEFINE skipped == [j EXCEPT !.pending = Tail(j.pending)]
             stopped == [j EXCEPT !.pending = <<>>, !.conflict = o]
             built == [j EXCEPT !.pending = Tail(j.pending), !.chain = NextOid,
                                !.built = j.built \cup {<<o, NextOid>>}]
  <2>1. \/ odb' = odb /\ job' = [job EXCEPT ![c] = skipped]
        \/ odb' = odb /\ job' = [job EXCEPT ![c] = stopped]
        \/ (\E tree : Write(parents, tree, marker)) /\ job' = [job EXCEPT ![c] = built]
    BY DEF ReplayToDest
  <2> HIDE DEF j, o, marker, parents
  <2>2. /\ skipped.chain = j.chain /\ skipped.built = j.built /\ skipped.tip = j.tip
        /\ skipped.seen = j.seen /\ skipped.bridge = j.bridge /\ skipped.mode = j.mode
    BY <1>2 DEF NoJob
  <2>3. /\ stopped.chain = j.chain /\ stopped.built = j.built /\ stopped.tip = j.tip
        /\ stopped.seen = j.seen /\ stopped.bridge = j.bridge /\ stopped.mode = j.mode
    BY <1>2 DEF NoJob
  <2>4. /\ built.chain = NextOid /\ built.built = j.built \cup {<<o, NextOid>>}
        /\ built.tip = j.tip
        /\ built.seen = j.seen /\ built.bridge = j.bridge /\ built.mode = j.mode
    BY <1>2 DEF NoJob
  <2> HIDE DEF skipped, stopped, built
  <2>5. QED
    BY <2>1, <2>2, <2>3, <2>4
<1>4. parents \in Seq(StoodFor(odb, src)) /\ marker.dir = "SourceToDest"
  BY <1>2, SingletonSeq DEF Marker
<1> HIDE DEF j, o, marker, parents
<1>5. CASE /\ odb' = odb
           /\ \E k : /\ job' = [job EXCEPT ![c] = k] /\ k.chain = j.chain /\ k.built = j.built
                     /\ k.seen = j.seen /\ k.bridge = j.bridge /\ k.tip = j.tip /\ k.mode = j.mode
  <2>1. PICK k : /\ job' = [job EXCEPT ![c] = k] /\ k.chain = j.chain /\ k.built = j.built
                 /\ k.seen = j.seen /\ k.bridge = j.bridge /\ k.tip = j.tip /\ k.mode = j.mode
    BY <1>5
  <2>2. WorkJob(odb, src, D, "build", k)
    BY <1>2, <2>1 DEF WorkJob, Mirroring
  <2>3. pc' = [pc EXCEPT ![c] = "build"] /\ run' = [run EXCEPT ![c] = run[c]]
    BY <1>1, Untouched
  <2>4. Work(D)'
    BY <1>1, <1>5, <2>1, <2>2, <2>3, WorkGoesOn
  <2>5. QED
    BY <2>4
<1>6. CASE /\ \E tree : Write(parents, tree, marker)
           /\ \E k : /\ job' = [job EXCEPT ![c] = k] /\ k.chain = NextOid
                     /\ k.built = j.built \cup {<<o, NextOid>>}
                     /\ k.seen = j.seen /\ k.bridge = j.bridge /\ k.tip = j.tip /\ k.mode = j.mode
  <2>0. PICK E : E = D \cup {NextOid}
    OBVIOUS
  <2>1. PICK k : /\ job' = [job EXCEPT ![c] = k] /\ k.chain = NextOid
                 /\ k.built = j.built \cup {<<o, NextOid>>}
                 /\ k.seen = j.seen /\ k.bridge = j.bridge /\ k.tip = j.tip /\ k.mode = j.mode
    BY <1>6
  <2>2. PICK tree : Write(parents, tree, marker)
    BY <1>6
  <2>3. job'[c] = k /\ job' = [job EXCEPT ![c] = job'[c]]
    BY <2>1 DEF SyncInv, Table
  <2>4. \A i \in DOMAIN parents : parents[i] \in D
    BY <1>2, <1>4, StoodForIsKept
  <2>5. Grown(D, E) /\ NextOid \in StoodFor(odb', src')
    <3>1. Ledger(odb, src, D) /\ src' = src
      BY <1>1, <1>2
    <3>2. QED
      BY <1>4, <2>0, <2>2, <2>4, <3>1, GrownWrite
  <2>6. WorkJob(odb', src', E, "build", j)
    BY <1>2, <2>5, WorkRunGrows
  <2>7. \A m \in k.built : m[2] \in StoodFor(odb', src')
    BY <2>1, <2>5, <2>6 DEF WorkJob
  <2>8. WorkJob(odb', src', E, pc'[c], job'[c])
    BY <1>1, <2>1, <2>3, <2>5, <2>6, <2>7 DEF WorkJob, Mirroring
  <2>9. Work(E)'
    BY <1>1, <2>3, <2>5, <2>8, WorkJobStep
  <2>10. QED
    BY <2>9
<1>7. QED
  BY <1>3, <1>5, <1>6

LEMMA WorkSeal ==
    ASSUME SyncInv, NEW D, Work(D), NEW c \in Clones, SealToDest(c) PROVE \E E : Work(E)'
<1> DEFINE j == job[c]
           seal == SealCommit(c)
           marker == Marker("SourceToDest", j.branch, seal.source)
           parents == <<j.chain>>
           tree == TreeOf(j.chain)
<1>1. src' = src /\ dst' = dst /\ local' = local /\ pc[c] = "build"
  BY DEF SealToDest, remotes
<1>2. /\ WorkJob(odb, src, D, "build", j) /\ j.chain \in StoodFor(odb, src)
      /\ Ledger(odb, src, D) /\ DOMAIN NoJob \subseteq DOMAIN j
  <2>1. WorkJob(odb, src, D, "build", j) /\ Ledger(odb, src, D) /\ DOMAIN NoJob \subseteq DOMAIN j
    BY <1>1, WorkOfClone
  <2>2. QED
    BY <2>1 DEF WorkJob
<1>3. CASE odb' = odb /\ ((\E why : Abort(c, why)) \/ \E halts : NextBranch(c, halts))
  BY <1>1, <1>3, WorkOfClone, Untouched, WorkEnded
<1>4. CASE pc' = [pc EXCEPT ![c] = "push_dest"] /\ UNCHANGED <<odb, run, job>>
  <2>1. WorkJob(odb, src, D, "push_dest", j)
    BY <1>2 DEF WorkJob, Mirroring
  <2>2. /\ odb' = odb /\ pc' = [pc EXCEPT ![c] = "push_dest"]
        /\ job' = [job EXCEPT ![c] = j] /\ run' = [run EXCEPT ![c] = run[c]]
    BY <1>4, Untouched
  <2> HIDE DEF j
  <2>3. Work(D)'
    BY <1>1, <2>1, <2>2, WorkGoesOn
  <2>4. QED
    BY <2>3
<1>5. CASE /\ Write(parents, tree, marker)
           /\ job' = [job EXCEPT ![c] = [j EXCEPT !.chain = NextOid]]
           /\ pc' = [pc EXCEPT ![c] = "push_dest"] /\ run' = run
  <2>0. PICK E : E = D \cup {NextOid}
    OBVIOUS
  <2>1. parents \in Seq(StoodFor(odb, src)) /\ marker.dir = "SourceToDest"
    BY <1>2, SingletonSeq DEF Marker
  <2> HIDE DEF j, seal, marker, parents, tree
  <2>2. \A i \in DOMAIN parents : parents[i] \in D
    BY <1>2, <2>1, StoodForIsKept
  <2>3. Grown(D, E) /\ NextOid \in StoodFor(odb', src')
    BY <1>1, <1>2, <1>5, <2>0, <2>1, <2>2, GrownWrite
  <2>4. WorkJob(odb', src', E, "build", j)
    BY <1>2, <2>3, WorkRunGrows
  <2>5. /\ job'[c].chain = NextOid /\ job'[c].seen = j.seen /\ job'[c].built = j.built
        /\ job'[c].bridge = j.bridge /\ job'[c].tip = j.tip /\ job'[c].mode = j.mode
        /\ job' = [job EXCEPT ![c] = job'[c]]
        /\ pc'[c] = "push_dest" /\ pc' = [pc EXCEPT ![c] = pc'[c]]
    BY <1>2, <1>5 DEF SyncInv, Table, NoJob
  <2>6. WorkJob(odb', src', E, pc'[c], job'[c])
    BY <2>3, <2>4, <2>5 DEF WorkJob, Mirroring
  <2>7. Work(E)'
    BY <1>1, <1>5, <2>3, <2>5, <2>6, WorkJobStep
  <2>8. QED
    BY <2>7
<1>6. QED
  BY <1>3, <1>4, <1>5 DEF SealToDest

LEMMA WorkSync ==
    ASSUME SyncInv, NEW D, Work(D), NEW c \in Clones, StartRun(c) \/ Sync(c) \/ Crash(c)
    PROVE  \E E : Work(E)'
<1>1. CASE \/ StartRun(c) \/ Finish(c) \/ FetchHeads(c) \/ ReconstructMappingIndex(c)
           \/ SkipImport(c) \/ NothingToPush(c) \/ Crash(c) \/ BeginImport(c) \/ RefetchSource(c)
           \/ ReplayToSource(c) \/ PushToSource(c) \/ AdvanceLocalSourceBranch(c)
           \/ SelectNextBranch(c) \/ FetchDest(c) \/ PushRejected(c) \/ PushToDest(c)
  <2>1. Work(D)'
    BY <1>1, WorkStart, WorkFetchHeads, WorkReconstruct, WorkEnds, WorkBeginImport, WorkRefetch,
       WorkReplayToSource, WorkPushToSource, WorkAdvance, WorkSelect, WorkFetchDest,
       WorkPushRejected, WorkPushToDest
  <2>2. QED
    BY <2>1
<1>2. CASE PlanBranch(c) \/ ReplayToDest(c) \/ SealToDest(c)
  BY <1>2, WorkPlanBranch, WorkReplayToDest, WorkSeal
<1>3. QED
  BY <1>1, <1>2 DEF Sync

(***************************************************************************)
(* The environment's steps.                                                *)
(***************************************************************************)
LEMMA WorkEnvironmentStep ==
    ASSUME SyncInv, NEW D, Work(D), NEW E, Grown(D, E), UNCHANGED <<pc, run, job>>,
           src' \in [Branches -> Homes(odb', src', E, {}) \cup {NoOid}],
           dst' \in [Branches -> E \cup {NoOid}],
           \A c \in Clones : local'[c] \in [Branches -> Homes(odb', src', E, {}) \cup {NoOid}]
    PROVE  Work(E)'
<1>1. ASSUME NEW c \in Clones
      PROVE  WorkRun(odb', src', E, run'[c]) /\ WorkJob(odb', src', E, pc'[c], job'[c])
  <2>1. WorkRun(odb, src, D, run[c]) /\ WorkJob(odb, src, D, pc[c], job[c])
    BY WorkOfClone
  <2>2. WorkRun(odb', src', E, run[c]) /\ WorkJob(odb', src', E, pc[c], job[c])
    BY <2>1, WorkRunGrows
  <2>3. run'[c] = run[c] /\ pc'[c] = pc[c] /\ job'[c] = job[c]
    OBVIOUS
  <2>4. QED
    BY <2>2, <2>3
<1>2. Ledger(odb', src', E)
  BY DEF Grown
<1>3. QED
  BY <1>1, <1>2 DEF Work

LEMMA HomesAncestors ==
    ASSUME ObjectDatabase(odb), NEW D, NEW tip \in Homes(odb, src, D, {}), NEW a \in Anc(tip)
    PROVE  a \in Homes(odb, src, D, {})
<1>1. tip \in Oids /\ Oids = 1 .. Len(odb)
  BY DEF Homes, Oids
<1>2. a \in Oids /\ odb[a].anc \subseteq odb[tip].anc
  BY <1>1, CommitFacts DEF Anc
<1>3. QED
  BY <1>1, <1>2 DEF Homes

LEMMA WorkDeveloperWrite ==
    ASSUME SyncInv, NEW D, Work(D), NEW c \in Clones, NEW b \in Branches, NEW parents, NEW tree,
           Write(parents, tree, NoMarker),
           \A i \in DOMAIN parents : parents[i] \in Homes(odb, src, D, {}),
           local' = [local EXCEPT ![c][b] = NextOid], src' = src, dst' = dst,
           UNCHANGED <<pc, run, job>>
    PROVE  Work(D)'
<1>1. Ledger(odb, src, D) /\ NoMarker.dir = "None" /\ NextOid \notin D
  BY WorkOfClone DEF NoMarker, NextOid, SyncInv, ObjectDatabase
<1>2. Grown(D, D) /\ NextOid \in Homes(odb', src', D, {})
  BY <1>1, GrownWrite, HomesWrite
<1> DEFINE S == Homes(odb', src', D, {}) \cup {NoOid}
<1>3. /\ \A d \in Clones : local[d] \in [Branches -> S]
      /\ src' \in [Branches -> S] /\ dst' \in [Branches -> D \cup {NoOid}]
  BY <1>2, WorkOfClone, WorkRunGrows
<1>4. NextOid \in S
  BY <1>2
<1> HIDE DEF S
<1>5. ASSUME NEW d \in Clones PROVE local'[d] \in [Branches -> S]
  <2>1. local'[d] = IF d = c THEN [local[c] EXCEPT ![b] = NextOid] ELSE local[d]
    BY DEF SyncInv
  <2>2. QED
    BY <1>3, <1>4, <2>1
<1>6. QED
  BY <1>2, <1>3, <1>5, WorkEnvironmentStep DEF S

LEMMA WorkDeveloperRef ==
    ASSUME SyncInv, NEW D, Work(D), NEW c \in Clones, NEW b \in Branches, NEW from \in Branches,
           DevPush(c, b) \/ DevPull(c, b) \/ DevBranch(c, b, from)
    PROVE  Work(D)'
<1> DEFINE mine == local[c][b]
<1>1. odb' = odb /\ dst' = dst /\ UNCHANGED <<pc, run, job>>
  BY DEF DevPush, DevPull, DevBranch, remotes
<1>2. mine \in Homes(odb, src, D, {}) \cup {NoOid} /\ Ledger(odb, src, D) /\ ObjectDatabase(odb)
  BY WorkOfClone
<1>3. CASE DevPush(c, b)
  <2>1. /\ mine # NoOid /\ src' = [src EXCEPT ![b] = mine] /\ local' = local
        /\ src[b] = NoOid \/ b \in Forcible \/ src[b] \in Anc(mine)
    BY <1>3 DEF DevPush, clone, IsAncestor
  <2>2. mine \in Oids
    BY <1>2, <2>1 DEF Homes, Oids
  <2> HIDE DEF mine
  <2>3. src'[b] = mine /\ \A x \in Branches : x # b => src'[x] = src[x]
    BY <2>1, WorkOfClone
  <2>4. src[b] = NoOid \/ b \in Forcible \/ odb[src[b]].anc \subseteq odb[mine].anc
    BY <1>2, <2>1, <2>2, CommitFacts DEF Anc
  <2>5. RefsGrow(odb, src, odb, src')
    BY <2>1, <2>3, <2>4 DEF RefsGrow
  <2>6. Grown(D, D)
    BY <1>1, <1>2, <2>5, RefsGrown
  <2> DEFINE S == Homes(odb', src', D, {}) \cup {NoOid}
  <2>7. /\ \A d \in Clones : local[d] \in [Branches -> S]
        /\ src \in [Branches -> S] /\ dst' \in [Branches -> D \cup {NoOid}]
    BY <1>1, <2>6, WorkOfClone, WorkRunGrows
  <2>8. mine \in S
    BY <1>2, <2>6 DEF Grown
  <2> HIDE DEF S
  <2>9. src' \in [Branches -> S] /\ \A d \in Clones : local'[d] \in [Branches -> S]
    BY <2>1, <2>7, <2>8
  <2>10. QED
    BY <1>1, <2>6, <2>7, <2>9, WorkEnvironmentStep DEF S
<1>4. CASE DevPull(c, b) \/ DevBranch(c, b, from)
  <2>1. /\ src' = src
        /\ local' = local \/ \E o \in {src[b], local[c][from]} : local' = [local EXCEPT ![c][b] = o]
    BY <1>4 DEF DevPull, DevBranch, remotes
  <2>2. Grown(D, D)
    BY <1>1, <1>2, <2>1, NothingGrown
  <2> DEFINE S == Homes(odb', src', D, {}) \cup {NoOid}
  <2>3. /\ \A d \in Clones : local[d] \in [Branches -> S]
        /\ src \in [Branches -> S] /\ dst' \in [Branches -> D \cup {NoOid}]
    BY <1>1, <2>2, WorkOfClone, WorkRunGrows
  <2> HIDE DEF S
  <2>4. src[b] \in S /\ local[c][from] \in S
    BY <2>3
  <2>5. ASSUME NEW d \in Clones PROVE local'[d] \in [Branches -> S]
    <3>1. CASE local' = local
      BY <2>3, <3>1
    <3>2. CASE \E o \in {src[b], local[c][from]} : local' = [local EXCEPT ![c][b] = o]
      <4>1. PICK o \in S : local' = [local EXCEPT ![c][b] = o]
        BY <2>4, <3>2
      <4>2. local'[d] = IF d = c THEN [local[c] EXCEPT ![b] = o] ELSE local[d]
        BY <4>1 DEF SyncInv
      <4>3. QED
        BY <2>3, <4>2
    <3>3. QED
      BY <2>1, <3>1, <3>2
  <2>6. src' \in [Branches -> S]
    BY <2>1, <2>3
  <2>7. QED
    BY <1>1, <2>2, <2>3, <2>5, <2>6, WorkEnvironmentStep DEF S
<1>5. QED
  BY <1>3, <1>4

LEMMA WorkDeveloper ==
    ASSUME SyncInv, NEW D, Work(D), NEW c \in Clones, NEW b \in Branches, NEW from \in Branches,
           \/ DevCommit(c, b) \/ DevAmend(c, b) \/ DevPush(c, b) \/ DevPull(c, b)
           \/ DevBranch(c, b, from) \/ DevMerge(c, b, from)
    PROVE  Work(D)'
<1> DEFINE mine == local[c][b]
           other == local[c][from]
<1>1. /\ mine \in Homes(odb, src, D, {}) \cup {NoOid}
      /\ other \in Homes(odb, src, D, {}) \cup {NoOid} /\ ObjectDatabase(odb)
  BY WorkOfClone
<1>2. CASE DevPush(c, b) \/ DevPull(c, b) \/ DevBranch(c, b, from)
  BY <1>2, WorkDeveloperRef
<1>3. CASE DevCommit(c, b) \/ DevAmend(c, b) \/ DevMerge(c, b, from)
  <2>1. /\ src' = src /\ dst' = dst /\ UNCHANGED <<pc, run, job>>
        /\ local' = [local EXCEPT ![c][b] = NextOid]
    BY <1>3 DEF DevCommit, DevAmend, DevMerge, remotes
  <2>2. \/ mine # NoOid /\ \E tree : Write(<<mine>>, tree, NoMarker)
        \/ mine # NoOid /\ \E tree : Write(odb[mine].parents, tree, NoMarker)
        \/ mine # NoOid /\ other # NoOid /\ \E tree : Write(<<mine, other>>, tree, NoMarker)
    BY <1>3 DEF DevCommit, DevAmend, DevMerge
  <2> HIDE DEF mine, other
  <2>3. PICK parents, tree : /\ Write(parents, tree, NoMarker)
                             /\ mine # NoOid
                             /\ \/ parents = <<mine>> \/ parents = odb[mine].parents
                                \/ other # NoOid /\ parents = <<mine, other>>
    BY <2>2
  <2>4. ASSUME NEW i \in DOMAIN parents PROVE parents[i] \in Homes(odb, src, D, {})
    <3>1. CASE parents = <<mine>> \/ (other # NoOid /\ parents = <<mine, other>>)
      BY <1>1, <2>3, <3>1
    <3>2. CASE parents = odb[mine].parents
      <4>1. mine \in Homes(odb, src, D, {}) /\ mine \in Oids
        BY <1>1, <2>3 DEF Homes, Oids
      <4>2. parents \in Seq(Anc(mine) \ {mine})
        BY <1>1, <3>2, <4>1, CommitFacts
      <4>3. parents[i] \in Anc(mine)
        BY <4>2
      <4>4. QED
        BY <1>1, <4>1, <4>3, HomesAncestors
    <3>3. QED
      BY <2>3, <3>1, <3>2
  <2>5. QED
    BY <2>1, <2>3, <2>4, WorkDeveloperWrite
<1>4. QED
  BY <1>2, <1>3

LEMMA WorkCustomerWrite ==
    ASSUME SyncInv, NEW D, Work(D), NEW b \in Branches, NEW parents, NEW tree,
           Write(parents, tree, NoMarker), \A i \in DOMAIN parents : parents[i] \in D,
           dst' = [dst EXCEPT ![b] = NextOid], UNCHANGED <<src, local, pc, run, job>>
    PROVE  \E E : Work(E)'
<1>0. PICK E : E = D \cup {NextOid}
  OBVIOUS
<1>1. Ledger(odb, src, D) /\ NoMarker.dir = "None" /\ dst \in [Branches -> D \cup {NoOid}]
  BY DEF Work, NoMarker
<1>2. Grown(D, E)
  BY <1>0, <1>1, GrownWrite
<1>3. /\ src' \in [Branches -> Homes(odb', src', E, {}) \cup {NoOid}]
      /\ \A c \in Clones : local'[c] \in [Branches -> Homes(odb', src', E, {}) \cup {NoOid}]
  <2>1. /\ src \in [Branches -> Homes(odb, src, D, {}) \cup {NoOid}]
        /\ \A c \in Clones : local[c] \in [Branches -> Homes(odb, src, D, {}) \cup {NoOid}]
    BY DEF Work
  <2>2. \A f : f \in [Branches -> Homes(odb, src, D, {}) \cup {NoOid}] =>
                 f \in [Branches -> Homes(odb', src', E, {}) \cup {NoOid}]
    BY <1>2, WorkRunGrows
  <2>3. src' = src /\ local' = local
    OBVIOUS
  <2>4. QED
    BY <2>1, <2>2, <2>3
<1>4. dst' \in [Branches -> E \cup {NoOid}]
  BY <1>0, <1>1
<1>5. Work(E)'
  BY <1>2, <1>3, <1>4, WorkEnvironmentStep
<1>6. QED
  BY <1>5

LEMMA WorkCustomer ==
    ASSUME SyncInv, NEW D, Work(D), NEW b \in Branches, NEW from \in Branches,
           \/ CustomerCommit(b) \/ CustomerDelete(b)
           \/ CustomerFastForward(b, from) \/ CustomerMerge(b, from)
    PROVE  \E E : Work(E)'
<1> DEFINE mine == dst[b]
           other == dst[from]
<1>1. /\ dst \in [Branches -> D \cup {NoOid}]
      /\ mine \in D \cup {NoOid} /\ other \in D \cup {NoOid}
  BY DEF Work
<1>2. UNCHANGED <<src, local, pc, run, job>>
  BY DEF CustomerCommit, CustomerDelete, CustomerFastForward, CustomerMerge, clone
<1>3. CASE CustomerCommit(b) \/ CustomerMerge(b, from)
  <2>1. /\ dst' = [dst EXCEPT ![b] = NextOid]
        /\ \/ mine # NoOid /\ \E tree : Write(<<mine>>, tree, NoMarker)
           \/ mine # NoOid /\ other # NoOid /\ \E tree : Write(<<mine, other>>, tree, NoMarker)
    BY <1>3 DEF CustomerCommit, CustomerMerge
  <2> HIDE DEF mine, other
  <2>2. PICK parents, tree : /\ Write(parents, tree, NoMarker) /\ mine # NoOid
                             /\ \/ parents = <<mine>>
                                \/ other # NoOid /\ parents = <<mine, other>>
    BY <2>1
  <2>3. \A i \in DOMAIN parents : parents[i] \in D
    BY <1>1, <2>2
  <2>4. QED
    BY <1>2, <2>1, <2>2, <2>3, WorkCustomerWrite
<1>4. CASE CustomerDelete(b) \/ CustomerFastForward(b, from)
  <2>1. odb' = odb /\ \E o \in {NoOid, other} : dst' = [dst EXCEPT ![b] = o]
    BY <1>4 DEF CustomerDelete, CustomerFastForward
  <2>2. dst' \in [Branches -> D \cup {NoOid}]
    BY <1>1, <2>1
  <2>3. Ledger(odb, src, D) /\ Grown(D, D)
    BY <1>2, <2>1, NothingGrown DEF Work
  <2>4. /\ src' \in [Branches -> Homes(odb', src', D, {}) \cup {NoOid}]
        /\ \A c \in Clones : local'[c] \in [Branches -> Homes(odb', src', D, {}) \cup {NoOid}]
    BY <1>2, <2>1 DEF Work
  <2>5. Work(D)'
    BY <1>2, <2>2, <2>3, <2>4, WorkEnvironmentStep
  <2>6. QED
    BY <2>5
<1>5. QED
  BY <1>3, <1>4

WorkInv == \E D : Work(D)

LEMMA WorkNext == SyncInv /\ WorkInv /\ [Next]_vars => WorkInv'
<1> SUFFICES ASSUME SyncInv, NEW D, Work(D), [Next]_vars PROVE \E E : Work(E)'
  BY DEF WorkInv
<1>1. CASE \E c \in Clones : StartRun(c) \/ Sync(c) \/ Crash(c)
  BY <1>1, WorkSync
<1>2. CASE Environment
  <2>1. ASSUME NEW c \in Clones, NEW b \in Branches,
               DevCommit(c, b) \/ DevAmend(c, b) \/ DevPush(c, b) \/ DevPull(c, b)
        PROVE  \E E : Work(E)'
    <3>1. Work(D)'
      BY <2>1, WorkDeveloper
    <3>2. QED
      BY <3>1
  <2>2. ASSUME NEW c \in Clones, NEW b \in Branches, NEW from \in Branches,
               DevBranch(c, b, from) \/ DevMerge(c, b, from)
        PROVE  \E E : Work(E)'
    <3>1. Work(D)'
      BY <2>2, WorkDeveloper
    <3>2. QED
      BY <3>1
  <2>3. ASSUME NEW b \in Branches, CustomerCommit(b) \/ CustomerDelete(b)
        PROVE  \E E : Work(E)'
    BY <2>3, WorkCustomer
  <2>4. ASSUME NEW b \in Branches, NEW from \in Branches,
               CustomerFastForward(b, from) \/ CustomerMerge(b, from)
        PROVE  \E E : Work(E)'
    BY <2>4, WorkCustomer
  <2>5. QED
    BY <1>2, <2>1, <2>2, <2>3, <2>4 DEF Environment
<1>3. CASE UNCHANGED vars
  <2>1. UNCHANGED <<odb, src, dst, local, pc, run, job>>
    BY <1>3 DEF vars, remotes, clone
  <2>2. Ledger(odb, src, D) /\ Grown(D, D)
    BY <2>1, NothingGrown DEF Work
  <2>3. /\ src' \in [Branches -> Homes(odb', src', D, {}) \cup {NoOid}]
        /\ dst' \in [Branches -> D \cup {NoOid}]
        /\ \A c \in Clones : local'[c] \in [Branches -> Homes(odb', src', D, {}) \cup {NoOid}]
    BY <2>1 DEF Work
  <2>4. Work(D)'
    BY <2>1, <2>2, <2>3, WorkEnvironmentStep
  <2>5. QED
    BY <2>4
<1>4. QED
  BY <1>1, <1>2, <1>3 DEF Next

(***************************************************************************)
(* The initial histories: setup made one graft for dest's first commit,    *)
(* and it is in the history of the configured branch.                      *)
(***************************************************************************)
LEMMA InitialBooks ==
    ASSUME NEW db, NEW s, NEW D, Closed(db, D), 1 \in D,
           db[1].anc = {1}, db[1].marker.dir = "None",
           NEW g \in 1 .. Len(db), db[g].marker = SetupMarker,
           s[Main] # NoOid, g \in db[s[Main]].anc,
           \A i \in 1 .. Len(db) :
              \/ i = g \/ db[i].marker = NoMarker
              \/ /\ i \in D /\ db[i].marker.dir = "SourceToDest"
                 /\ db[i].parents \in Seq({1}) /\ db[i].anc = {1, i}
    PROVE  /\ Ledger(db, s, D)
           /\ \A o \in 1 .. Len(db) :
                 db[o].anc \subseteq 1 .. Len(db) /\ db[o].anc \cap D \subseteq {1}
                     => o \in Homes(db, s, D, {})
<1>1. /\ SetupMarker.dir = "Setup" /\ SetupMarker.branch = Main /\ SetupMarker.counterpart = 1
      /\ NoMarker.dir = "None" /\ Main \in Branches /\ 1 \in 1 .. Len(db)
  BY InitialMarkers DEF SetupMarker, Marker, NoMarker, Closed
<1>2. \A i \in 1 .. Len(db) : Looped(db, i) => i = g
  BY <1>1 DEF Looped
<1>3. g \in StandIns(db, s)
  BY <1>1 DEF StandIns, Looped
<1>4. 1 \in StoodFor(db, s) /\ 1 \in KeptWork(db, s)
  BY <1>1, <1>3 DEF StoodFor, KeptWork
<1>5. \A i \in 1 .. Len(db) : Looped(db, i) => db[i].marker.counterpart \in D
  BY <1>1, <1>2
<1>6. ASSUME NEW o \in Projected(db)
      PROVE  /\ o \in D /\ db[o].parents \in Seq(StoodFor(db, s))
             /\ db[o].anc \subseteq KeptWork(db, s)
  <2>1. o \in 1 .. Len(db) /\ db[o].marker.dir = "SourceToDest"
    BY DEF Projected
  <2>2. o \in D /\ db[o].parents \in Seq({1}) /\ db[o].anc = {1, o}
    BY <1>1, <2>1
  <2>3. o \in KeptWork(db, s)
    BY DEF KeptWork
  <2>4. db[o].parents \in Seq(StoodFor(db, s))
    BY <1>4, <2>2, SeqMonotonic
  <2>5. QED
    BY <1>4, <2>2, <2>3, <2>4
<1>7. Ledger(db, s, D)
  BY <1>4, <1>5, <1>6 DEF Ledger
<1>8. \A o \in 1 .. Len(db) :
         db[o].anc \subseteq 1 .. Len(db) /\ db[o].anc \cap D \subseteq {1}
             => o \in Homes(db, s, D, {})
  BY <1>2, <1>3 DEF Homes
<1>9. QED
  BY <1>7, <1>8

LEMMA InitialWork ==
    ASSUME NEW origin \in Origins
    PROVE  \E D : /\ Ledger(Histories[origin], SourceRefs(origin), D)
                  /\ SourceRefs(origin) \in
                        [Branches -> Homes(Histories[origin], SourceRefs(origin), D, {}) \cup {NoOid}]
                  /\ DestRefs(origin) \in [Branches -> D \cup {NoOid}]
<1> DEFINE db == Histories[origin]
           s == SourceRefs(origin)
           D == IF origin \in {"orphan", "mirrored"} THEN {1, 4} ELSE {1}
           g == IF origin = "merge" THEN 3 ELSE 2
<1>1. /\ origin \in {"graft", "merge", "orphan", "mirrored"} /\ Main \in Branches
      /\ NoOid = 0 /\ NoMarker.dir = "None"
      /\ \A b, x : Marker("SourceToDest", b, x).dir = "SourceToDest"
  BY HistoryAssumption, InitialMarkers DEF Histories, NoOid, NoMarker, Marker
<1>2. DestRefs(origin) \in [Branches -> D \cup {NoOid}]
  BY <1>1 DEF DestRefs
<1>3. s[Main] = g /\ \A b \in Branches : s[b] \in {0, 2, 3}
  BY <1>1 DEF SourceRefs
<1>4. \A b \in Branches : s[b] = 3 => origin # "graft"
  BY <1>1 DEF SourceRefs
<1>5. /\ Closed(db, D) /\ 1 \in D /\ db[1].anc = {1} /\ db[1].marker.dir = "None"
      /\ g \in 1 .. Len(db) /\ db[g].marker = SetupMarker /\ g \in db[g].anc
      /\ \A i \in 1 .. Len(db) :
            \/ i = g \/ db[i].marker = NoMarker
            \/ /\ i \in D /\ db[i].marker.dir = "SourceToDest"
               /\ db[i].parents \in Seq({1}) /\ db[i].anc = {1, i}
      /\ \A o \in {2, 3} : (o = 3 => origin # "graft") =>
            /\ o \in 1 .. Len(db) /\ db[o].anc \subseteq 1 .. Len(db)
            /\ db[o].anc \cap D \subseteq {1}
  <2>1. CASE origin = "graft"
    <3>1. /\ Len(db) = 2 /\ 1 .. Len(db) = {1, 2} /\ db[1].anc = {1} /\ db[2].anc = {1, 2}
      <4>1. db = Histories.graft
        BY <2>1
      <4>2. 1 .. 2 = {1, 2}
        OBVIOUS
      <4>3. QED
        BY <4>1, <4>2, GraftHistory
    <3>2. db[1].marker = NoMarker /\ db[2].marker = SetupMarker
      BY <2>1 DEF Histories, Root, Child
    <3>3. D = {1} /\ g = 2
      BY <2>1
    <3> HIDE DEF db, D, g
    <3>4. QED
      BY <1>1, <2>1, <3>1, <3>2, <3>3 DEF Closed
  <2>2. CASE origin = "merge"
    <3>1. /\ Len(db) = 3 /\ 1 .. Len(db) = {1, 2, 3} /\ db[1].anc = {1}
          /\ db[2].anc = {1, 2} /\ db[3].anc = {1, 2, 3}
      <4>1. db = Histories.merge
        BY <2>2
      <4>2. 1 .. 3 = {1, 2, 3} /\ 1 .. 2 = {1, 2} /\ 1 .. 1 = {1}
        OBVIOUS
      <4>3. QED
        BY <4>1, <4>2, MergeHistory
    <3>2. db[1].marker = NoMarker /\ db[2].marker = NoMarker /\ db[3].marker = SetupMarker
      BY <2>2 DEF Histories, Root, Child
    <3>3. D = {1} /\ g = 3
      BY <2>2
    <3> HIDE DEF db, D, g
    <3>4. QED
      BY <1>1, <3>1, <3>2, <3>3 DEF Closed
  <2>3. CASE origin = "orphan"
    <3>1. /\ Len(db) = 4 /\ 1 .. Len(db) = {1, 2, 3, 4} /\ db[1].anc = {1}
          /\ db[2].anc = {1, 2} /\ db[3].anc = {3} /\ db[4].anc = {4}
      <4>1. db = Histories.orphan
        BY <2>3
      <4>2. 1 .. 4 = {1, 2, 3, 4} /\ 1 .. 2 = {1, 2}
        OBVIOUS
      <4>3. QED
        BY <4>1, <4>2, OrphanHistory
    <3>2. /\ db[1].marker = NoMarker /\ db[2].marker = SetupMarker
          /\ db[3].marker = NoMarker /\ db[4].marker = NoMarker
      BY <2>3 DEF Histories, Root, Child
    <3>3. D = {1, 4} /\ g = 2
      BY <2>3
    <3> HIDE DEF db, D, g
    <3>4. QED
      BY <1>1, <3>1, <3>2, <3>3 DEF Closed
  <2>4. CASE origin = "mirrored"
    <3>1. /\ Len(db) = 4 /\ 1 .. Len(db) = {1, 2, 3, 4} /\ db[1].anc = {1}
          /\ db[2].anc = {1, 2} /\ db[3].anc = {1, 2, 3} /\ db[4].anc = {1, 4}
      <4>1. db = Histories.mirrored
        BY <2>4
      <4>2. 1 .. 4 = {1, 2, 3, 4} /\ 1 .. 3 = {1, 2, 3} /\ 1 .. 2 = {1, 2} /\ 1 .. 1 = {1}
        OBVIOUS
      <4>3. QED
        BY <4>1, <4>2, MirroredHistory
    <3>2. /\ db[1].marker = NoMarker /\ db[2].marker = SetupMarker
          /\ db[3].marker = NoMarker /\ db[4].marker = Marker("SourceToDest", Other, 3)
          /\ db[4].parents \in Seq({1})
      BY <2>4, SingletonSeq DEF Histories, Root, Child
    <3>3. D = {1, 4} /\ g = 2
      BY <2>4
    <3> HIDE DEF db, D, g
    <3>4. QED
      BY <1>1, <3>1, <3>2, <3>3 DEF Closed
  <2>5. QED
    BY <1>1, <2>1, <2>2, <2>3, <2>4
<1> HIDE DEF db, s, D, g
<1>6. /\ Ledger(db, s, D)
      /\ \A o \in 1 .. Len(db) :
            db[o].anc \subseteq 1 .. Len(db) /\ db[o].anc \cap D \subseteq {1}
                => o \in Homes(db, s, D, {})
  <2>1. s[Main] # NoOid /\ g \in db[s[Main]].anc
    BY <1>1, <1>3, <1>5
  <2>2. QED
    BY <1>5, <2>1, InitialBooks
<1>7. \A b \in Branches : s[b] \in Homes(db, s, D, {}) \cup {NoOid}
  BY <1>1, <1>3, <1>4, <1>5, <1>6
<1>8. s \in [Branches -> Homes(db, s, D, {}) \cup {NoOid}]
  <2> DEFINE S == Homes(db, s, D, {}) \cup {NoOid}
  <2> HIDE DEF S
  <2>1. s = [b \in Branches |-> s[b]]
    BY DEF s, SourceRefs
  <2>2. \A b \in Branches : s[b] \in S
    BY <1>7 DEF S
  <2>3. s \in [Branches -> S]
    BY <2>1, <2>2
  <2>4. QED
    BY <2>3 DEF S
<1>9. QED
  BY <1>2, <1>6, <1>8 DEF db, s

LEMMA WorkInit == Init => WorkInv
<1> SUFFICES ASSUME Init PROVE WorkInv
  OBVIOUS
<1>1. PICK origin \in Origins :
        /\ odb = Histories[origin] /\ src = SourceRefs(origin) /\ dst = DestRefs(origin)
        /\ local = [c \in Clones |-> SourceRefs(origin)]
        /\ pc = [c \in Clones |-> "idle"]
        /\ run = [c \in Clones |-> NoRun] /\ job = [c \in Clones |-> NoJob]
  BY DEF Init
<1>2. PICK D : /\ Ledger(odb, src, D)
               /\ src \in [Branches -> Homes(odb, src, D, {}) \cup {NoOid}]
               /\ dst \in [Branches -> D \cup {NoOid}]
  BY <1>1, InitialWork
<1>3. ASSUME NEW c \in Clones
      PROVE  /\ local[c] \in [Branches -> Homes(odb, src, D, {}) \cup {NoOid}]
             /\ WorkRun(odb, src, D, run[c]) /\ WorkJob(odb, src, D, pc[c], job[c])
  <2>1. local[c] = src /\ pc[c] \in Quiet /\ run[c] = NoRun /\ job[c] = NoJob
    BY <1>1 DEF Quiet
  <2>2. QED
    BY <1>2, <2>1, WorkIdle
<1>4. Work(D)
  BY <1>2, <1>3 DEF Work
<1>5. QED
  BY <1>4 DEF WorkInv

LEMMA WorkInvariant == Spec => [](SyncInv /\ WorkInv)
<1>1. Init => SyncInv /\ WorkInv
  BY InitSyncInv, WorkInit
<1>2. SyncInv /\ WorkInv /\ [Next]_vars => (SyncInv /\ WorkInv)'
  BY NextSyncInv, WorkNext
<1>3. QED
  BY <1>1, <1>2, PTL DEF Spec

(* What the books say of a commit that is KeptWork: gitprism made it for dest, *)
(* or source has it.                                                       *)
LEMMA KeptIsAccounted ==
    ASSUME SyncInv, NEW o \in KeptWork(odb, src)
    PROVE  VerifySelf(o, {"SourceToDest"}) \/ InSource(o)
<1>1. CASE o \in Projected(odb)
  BY <1>1 DEF Projected, VerifySelf
<1>2. CASE o \notin Projected(odb)
  <2>1. PICK i \in StandIns(odb, src) : o \in odb[odb[i].marker.counterpart].anc
    BY <1>2 DEF KeptWork
  <2>2. /\ i \in Oids /\ LoopPrevented(i) /\ HeldBySource(i)
        /\ IsAncestor(o, Counterpart(i))
    BY <2>1 DEF StandIns, Looped, Oids, LoopPrevented, VerifySelf, HeldBySource, IsAncestor,
                Anc, Counterpart
  <2>3. QED
    BY <2>2 DEF InSource
<1>3. QED
  BY <1>1, <1>2

LEMMA PushLosesNothing ==
    ASSUME SyncInv, WorkInv, [Next]_vars, NEW c \in Clones, NEW b \in Branches,
           DestPush(c, b), dst[b] # NoOid, NEW o \in Anc(dst[b]) \ Anc(dst'[b])
    PROVE  VerifySelf(o, {"SourceToDest"}) \/ InSource(o)
<1> DEFINE j == job[c]
           old == dst[b]
<1>1. PushToDest(c) /\ j.branch = b /\ pc[c] = "push_dest" /\ dst'[b] # old
  <2>1. DOMAIN pc = Clones
    BY DEF SyncInv, Table
  <2>2. QED
    BY <2>1, PushStep DEF DestPush
<1>2. dst'[b] = j.chain /\ PushAccepted(old, j.chain, j.mode, j.seen)
  BY <1>1 DEF PushToDest, SyncInv
<1>3. PICK D : Work(D)
  BY DEF WorkInv
<1>4. /\ ObjectDatabase(odb) /\ Ledger(odb, src, D) /\ WorkJob(odb, src, D, pc[c], j)
      /\ Oids = 1 .. Len(odb) /\ D \subseteq Oids /\ dst \in [Branches -> D \cup {NoOid}]
  BY <1>3, WorkOfClone
<1>5. old \in Oids
  BY <1>4
<1>6. j.chain \in StoodFor(odb, src)
      /\ (j.mode = "ForceMirrorOnly" => j.seen \in StoodFor(odb, src) \cup {NoOid})
  <2> HIDE DEF j
  <2>1. QED
    BY <1>1, <1>4 DEF WorkJob
<1>7. j.chain \in Oids
  BY <1>4, <1>6, StoodForIsKept
<1>8. ~ IsAncestor(old, j.chain)
  <2>1. old \in Anc(j.chain) => Anc(old) \subseteq Anc(j.chain)
    BY <1>4, <1>7, CommitFacts
  <2>2. QED
    BY <1>2, <2>1 DEF IsAncestor
<1>9. j.mode = "ForceMirrorOnly" /\ old = j.seen
  BY <1>1, <1>2, <1>8 DEF PushAccepted
<1>10. Anc(old) \subseteq KeptWork(odb, src)
  BY <1>4, <1>6, <1>9, StoodForIsKept
<1>11. QED
  BY <1>10, KeptIsAccounted

(***************************************************************************)
(* A push never loses a customer's commit: whatever a forced rebuild takes *)
(* out of a dest branch is gitprism's own projection, or is in the history *)
(* of a dest commit that a graft or an import on the source remote stands  *)
(* for.  That needs the lease (git.rs, push_args), that a rebuild is       *)
(* planned only for a dest tip that a scan resumed from or accounted for   *)
(* (anchor.rs, dest_tip_accounted_for), and that the branches nobody may   *)
(* rewrite only grow, on source.                                           *)
(***************************************************************************)
THEOREM NoCustomerWorkDiscardedHolds == Spec => NoCustomerWorkDiscarded
<1> DEFINE LosesNothing ==
      \A c \in Clones, b \in Branches :
        DestPush(c, b) /\ dst[b] # NoOid =>
            \A o \in Anc(dst[b]) \ Anc(dst'[b]) :
                VerifySelf(o, {"SourceToDest"}) \/ InSource(o)
<1>1. SyncInv /\ WorkInv /\ [Next]_vars => LosesNothing
  BY PushLosesNothing
<1>2. Spec => [][LosesNothing]_vars
  BY <1>1, WorkInvariant, PTL DEF Spec
<1>3. QED
  BY <1>2 DEF NoCustomerWorkDiscarded

(***************************************************************************)
(* ImportedOnce is about first-parent lines.  Trail is the line of a       *)
(* commit as a set.  Oids fall along a line, and the line of a commit on   *)
(* it is its lower end: Straight.  An import says of the dest commit it is *)
(* made from that no older graft or import on its line, for its branch,    *)
(* has it in its history (NewTo), and that whatever of customers comes     *)
(* before it is on source (Missing, Taken): InOrder.  This part needs to   *)
(* know nothing of refs or of clones.                                      *)
(***************************************************************************)
Trail(db, o) == ToSet(db[o].line)
OfBranch(db, m, b) ==
    \/ db[m].marker.dir = "Setup"
    \/ db[m].marker.dir = "DestToSource" /\ db[m].marker.branch = b
Taken(db, t) ==
    {db[m].marker.counterpart : m \in {x \in Trail(db, t) : db[x].marker.dir = "DestToSource"}}
Missing(db, o, t) == {x \in Trail(db, o) \ db[t].anc : db[x].marker = NoMarker}
NewTo(db, o, t, b) ==
    \A m \in Trail(db, t) : OfBranch(db, m, b) => o \notin Trail(db, db[m].marker.counterpart)

Straight(db, o) ==
    /\ o \in Trail(db, o)
    /\ \A i, k \in DOMAIN db[o].line : i < k => db[o].line[k] < db[o].line[i]
    /\ \A a \in Trail(db, o) : Trail(db, a) = {x \in Trail(db, o) : x <= a}
InOrder(db, m) ==
    LET o == db[m].marker.counterpart
    IN  Looped(db, m) =>
            /\ o \in 1 .. Len(db)
            /\ Missing(db, o, m) \subseteq Taken(db, m)
            /\ \A b : OfBranch(db, m, b) =>
                 \A x \in Trail(db, m) \ {m} :
                    OfBranch(db, x, b) => o \notin Trail(db, db[x].marker.counterpart)
ImportLog(db) == \A o \in 1 .. Len(db) : Straight(db, o) /\ InOrder(db, o)

(* What a run still has to import: it goes up dest's line, and only the    *)
(* commits it has yet to import come between what it has imported and the  *)
(* one it is at.                                                           *)
Fits(db, o, t, b, S) == NewTo(db, o, t, b) /\ Missing(db, o, t) \subseteq Taken(db, t) \cup S
Due(db, p, j) ==
    p = "import_build" =>
        /\ \A i, k \in DOMAIN j.pending : i < k => j.pending[i] < j.pending[k]
        /\ \A o \in ToSet(j.pending) :
              Fits(db, o, j.chain, j.branch, {x \in ToSet(j.pending) : x <= o})
ImportInv == ImportLog(odb) /\ \A c \in Clones : Due(odb, pc[c], job[c])

LEMMA TrailInHistory ==
    ASSUME NEW db, ObjectDatabase(db), NEW o \in 1 .. Len(db)
    PROVE  /\ Trail(db, o) \subseteq db[o].anc /\ db[o].anc \subseteq 1 .. Len(db)
           /\ Trail(db, o) \subseteq 1 .. o /\ Len(db) \in Nat
           /\ db[o].marker \in Markers(0 .. Len(db))
<1>1. WellFormed(db, o) /\ Len(db) \in Nat
  BY DEF ObjectDatabase
<1>2. Trail(db, o) \subseteq db[o].anc /\ db[o].anc \subseteq 1 .. o
  BY <1>1 DEF WellFormed, Trail, ToSet
<1>3. db[o].marker \in Markers(0 .. Len(db))
  BY <1>1 DEF WellFormed, Markers
<1>4. QED
  BY <1>1, <1>2, <1>3

(* Nothing of this changes when commits are added. *)
LEMMA LogKept ==
    ASSUME NEW db, NEW larger, ObjectDatabase(db), Extends(db, larger), ImportLog(db)
    PROVE  /\ \A o \in 1 .. Len(db) : Straight(larger, o) /\ InOrder(larger, o)
           /\ \A o \in 1 .. Len(db) : /\ Trail(larger, o) = Trail(db, o)
                                      /\ Taken(larger, o) = Taken(db, o)
           /\ \A o, t \in 1 .. Len(db) : \A b :
                 /\ Missing(larger, o, t) = Missing(db, o, t)
                 /\ NewTo(db, o, t, b) => NewTo(larger, o, t, b)
           /\ \A o, t \in 1 .. Len(db) : \A b, S : Fits(db, o, t, b, S) => Fits(larger, o, t, b, S)
<1>1. /\ \A o \in 1 .. Len(db) : larger[o] = db[o]
      /\ Len(db) \in Nat /\ 1 .. Len(db) \subseteq 1 .. Len(larger)
  BY DEF Extends, ObjectDatabase
<1>2. \A o \in 1 .. Len(db) : Trail(db, o) \subseteq 1 .. Len(db) /\ o \in 1 .. Len(db)
  BY TrailInHistory
<1>3. \A o \in 1 .. Len(db) : Trail(larger, o) = Trail(db, o) /\ larger[o].anc = db[o].anc
  BY <1>1 DEF Trail
<1>4. \A o \in 1 .. Len(db) : Taken(larger, o) = Taken(db, o)
  BY <1>1, <1>2, <1>3 DEF Taken
<1>5. \A o, t \in 1 .. Len(db) : Missing(larger, o, t) = Missing(db, o, t)
  BY <1>1, <1>2, <1>3 DEF Missing
<1>6. \A o \in 1 .. Len(db) : Looped(larger, o) <=> Looped(db, o)
  BY <1>1 DEF Looped
<1>7. ASSUME NEW b, NEW o \in 1 .. Len(db)
      PROVE  /\ OfBranch(larger, o, b) <=> OfBranch(db, o, b)
             /\ OfBranch(db, o, b) => Looped(db, o)
  <2>1. larger[o] = db[o]
    BY <1>1
  <2>2. QED
    BY <2>1 DEF OfBranch, Looped
<1>8. \A m \in 1 .. Len(db) : Looped(db, m) =>
          /\ db[m].marker.counterpart \in 1 .. Len(db)
          /\ Trail(larger, larger[m].marker.counterpart) = Trail(db, db[m].marker.counterpart)
  BY <1>1, <1>3 DEF ImportLog, InOrder
<1>9. \A o, t \in 1 .. Len(db) : \A b : NewTo(db, o, t, b) => NewTo(larger, o, t, b)
  <2> SUFFICES ASSUME NEW o \in 1 .. Len(db), NEW t \in 1 .. Len(db), NEW b, NewTo(db, o, t, b),
                      NEW m \in Trail(larger, t), OfBranch(larger, m, b)
               PROVE  o \notin Trail(larger, larger[m].marker.counterpart)
    BY DEF NewTo
  <2>1. m \in Trail(db, t) /\ m \in 1 .. Len(db)
    BY <1>2, <1>3
  <2>2. OfBranch(db, m, b) /\ Looped(db, m)
    BY <1>7, <2>1
  <2>3. o \notin Trail(db, db[m].marker.counterpart)
    BY <2>1, <2>2 DEF NewTo
  <2>4. QED
    BY <1>8, <2>1, <2>2, <2>3
<1>10. ASSUME NEW o \in 1 .. Len(db) PROVE Straight(larger, o)
  <2>1. Straight(db, o) /\ Trail(larger, o) = Trail(db, o) /\ larger[o].line = db[o].line
    BY <1>1, <1>3 DEF ImportLog
  <2>2. \A a \in Trail(db, o) : Trail(larger, a) = Trail(db, a)
    BY <1>2, <1>3
  <2>3. QED
    BY <2>1, <2>2 DEF Straight
<1>11. ASSUME NEW m \in 1 .. Len(db), Looped(larger, m) PROVE InOrder(larger, m)
  <2> DEFINE o == db[m].marker.counterpart
  <2>1. Looped(db, m) /\ InOrder(db, m) /\ larger[m].marker.counterpart = o
    BY <1>1, <1>6, <1>11 DEF ImportLog
  <2>2. o \in 1 .. Len(db) /\ Missing(db, o, m) \subseteq Taken(db, m)
    BY <2>1 DEF InOrder
  <2>3. o \in 1 .. Len(larger) /\ Missing(larger, o, m) \subseteq Taken(larger, m)
    BY <1>1, <1>4, <1>5, <2>2
  <2>4. ASSUME NEW b, OfBranch(larger, m, b), NEW x \in Trail(larger, m) \ {m}, OfBranch(larger, x, b)
        PROVE  o \notin Trail(larger, larger[x].marker.counterpart)
    <3>1. x \in Trail(db, m) \ {m} /\ x \in 1 .. Len(db)
      BY <1>2, <1>3, <2>4
    <3>2. OfBranch(db, m, b) /\ OfBranch(db, x, b) /\ Looped(db, x)
      BY <1>7, <2>4, <3>1
    <3>3. o \notin Trail(db, db[x].marker.counterpart)
      BY <2>1, <3>1, <3>2 DEF InOrder
    <3>4. QED
      BY <1>8, <3>1, <3>2, <3>3
  <2>5. QED
    BY <2>1, <2>3, <2>4 DEF InOrder
<1>12. \A m \in 1 .. Len(db) : InOrder(larger, m)
  BY <1>11 DEF InOrder
<1>13. \A o, t \in 1 .. Len(db) : \A b, S : Fits(db, o, t, b, S) => Fits(larger, o, t, b, S)
  BY <1>4, <1>5, <1>9 DEF Fits
<1>14. QED
  BY <1>3, <1>4, <1>5, <1>9, <1>10, <1>12, <1>13

(* The line of a new commit is that of its first parent, below it. *)
LEMMA TrailWrite ==
    ASSUME ObjectDatabase(odb), ImportLog(odb), NEW parents \in Seq(Oids), NEW tree, NEW marker,
           Write(parents, tree, marker)
    PROVE  /\ Straight(odb', NextOid)
           /\ Trail(odb', NextOid) = {NextOid} \cup
                 (IF parents = <<>> THEN {} ELSE Trail(odb, parents[1]))
<1> DEFINE rest == IF parents = <<>> THEN <<>> ELSE Line(parents[1])
           line == odb'[NextOid].line
           below == IF parents = <<>> THEN {} ELSE Trail(odb, parents[1])
<1>1. Len(odb) \in Nat /\ NextOid = Len(odb) + 1 /\ Oids = 1 .. Len(odb)
      /\ \A x \in Oids : x < NextOid
  BY DEF ObjectDatabase, NextOid, Oids
<1>2. Extends(odb, odb') /\ NextOid \in 1 .. Len(odb')
  BY WriteAppends
<1>3. line = <<NextOid>> \o rest
  <2>1. odb'[NextOid] = NewCommit(parents, tree, marker)
    BY <1>1 DEF Write, ObjectDatabase
  <2>2. QED
    BY <2>1 DEF NewCommit
<1>4. /\ rest \in Seq(Oids) /\ ToSet(rest) = below /\ below \subseteq Oids
      /\ \A i, k \in DOMAIN rest : i < k => rest[k] < rest[i]
      /\ \A a \in below : Trail(odb, a) = {x \in below : x <= a}
  <2>1. CASE parents = <<>>
    BY <2>1 DEF ToSet
  <2>2. CASE parents # <<>>
    <3>1. parents[1] \in Oids /\ rest = odb[parents[1]].line /\ below = Trail(odb, parents[1])
      BY <2>2 DEF Line
    <3>2. Straight(odb, parents[1])
      BY <1>1, <3>1 DEF ImportLog
    <3>3. below \subseteq Oids
      BY <1>1, <3>1, TrailInHistory
    <3>4. rest \in Seq(Oids)
      <4>1. WellFormed(odb, parents[1])
        BY <1>1, <3>1 DEF ObjectDatabase
      <4>2. rest \in Seq(1 .. parents[1]) /\ 1 .. parents[1] \subseteq Oids
        BY <1>1, <3>1, <4>1 DEF WellFormed
      <4>3. QED
        BY <4>2, SeqMonotonic
    <3> HIDE DEF rest, below
    <3>5. QED
      BY <3>1, <3>2, <3>3, <3>4 DEF Straight, Trail
  <2>3. QED
    BY <2>1, <2>2
<1> HIDE DEF rest, below
<1>5. <<NextOid>> \in Seq({NextOid}) /\ Len(rest) \in Nat /\ DOMAIN rest = 1 .. Len(rest)
  BY <1>4, LenProperties
<1>6. /\ DOMAIN line = 1 .. (1 + Len(rest))
      /\ \A i \in DOMAIN line : line[i] = IF i = 1 THEN NextOid ELSE rest[i - 1]
      /\ \A i \in DOMAIN line : i # 1 => i - 1 \in DOMAIN rest
  <2>1. <<NextOid>> \in Seq(Nat) /\ rest \in Seq(Nat) /\ Len(<<NextOid>>) = 1
        /\ <<NextOid>>[1] = NextOid
    BY <1>1, <1>4, SingletonSeq, SeqMonotonic
  <2>2. /\ Len(<<NextOid>> \o rest) = 1 + Len(rest)
        /\ <<NextOid>> \o rest \in Seq(Nat)
        /\ \A i \in 1 .. (1 + Len(rest)) :
             (<<NextOid>> \o rest)[i] = IF i <= 1 THEN <<NextOid>>[i] ELSE rest[i - 1]
    BY <2>1, ConcatProperties
  <2>3. DOMAIN line = 1 .. (1 + Len(rest))
    BY <1>3, <2>2, LenProperties
  <2>4. \A i \in DOMAIN line : i # 1 => i - 1 \in DOMAIN rest
    BY <1>5, <2>3
  <2>5. ASSUME NEW i \in DOMAIN line PROVE line[i] = IF i = 1 THEN NextOid ELSE rest[i - 1]
    <3>1. i \in 1 .. (1 + Len(rest)) /\ (i <= 1 <=> i = 1)
      BY <1>5, <2>3
    <3>2. QED
      BY <1>3, <2>1, <2>2, <3>1
  <2>6. QED
    BY <2>3, <2>4, <2>5
<1> HIDE DEF line
<1>7. ToSet(line) = {NextOid} \cup below
  <2>1. ASSUME NEW x \in ToSet(line) PROVE x \in {NextOid} \cup below
    BY <1>4, <1>6, <2>1 DEF ToSet
  <2>2. 1 \in DOMAIN line /\ line[1] = NextOid
    BY <1>5, <1>6
  <2>3. ASSUME NEW x \in below PROVE x \in ToSet(line)
    <3>1. PICK i \in DOMAIN rest : rest[i] = x
      BY <1>4 DEF ToSet
    <3>2. i + 1 \in DOMAIN line /\ i + 1 # 1 /\ (i + 1) - 1 = i
      BY <1>5, <1>6
    <3>3. line[i + 1] = x
      BY <1>6, <3>1, <3>2
    <3>4. QED
      BY <3>2, <3>3 DEF ToSet
  <2>4. QED
    BY <2>1, <2>2, <2>3 DEF ToSet
<1>8. Trail(odb', NextOid) = {NextOid} \cup below
  BY <1>7 DEF Trail, line
<1>9. ASSUME NEW i \in DOMAIN line, NEW k \in DOMAIN line, i < k PROVE line[k] < line[i]
  <2>1. i \in Nat /\ k \in Nat /\ k # 1 /\ k - 1 \in DOMAIN rest
    BY <1>5, <1>6, <1>9
  <2>2. line[k] = rest[k - 1] /\ rest[k - 1] \in Oids
    BY <1>4, <1>6, <2>1 
  <2>3. CASE i = 1
    BY <1>1, <1>6, <2>2, <2>3
  <2>4. CASE i # 1
    <3>1. i - 1 \in DOMAIN rest /\ i - 1 < k - 1 /\ line[i] = rest[i - 1]
      BY <1>6, <1>9, <2>1, <2>4
    <3>2. QED
      BY <1>4, <2>1, <2>2, <3>1
  <2>5. QED
    BY <2>3, <2>4
<1>10. ASSUME NEW a \in {NextOid} \cup below
       PROVE  Trail(odb', a) = {x \in {NextOid} \cup below : x <= a}
  <2>1. \A x \in below : x \in Nat /\ x < NextOid /\ x <= NextOid
    BY <1>1, <1>4
  <2>2. NextOid \in Nat /\ NextOid <= NextOid
    BY <1>1
  <2>3. CASE a = NextOid
    BY <1>8, <2>1, <2>2, <2>3
  <2>4. CASE a \in below
    <3>1. Trail(odb', a) = Trail(odb, a)
      BY <1>1, <1>2, <1>4, <2>4 DEF Trail, Extends
    <3>2. ~ (NextOid <= a)
      BY <2>1, <2>2, <2>4
    <3>3. QED
      BY <1>4, <2>4, <3>1, <3>2
  <2>5. QED
    BY <2>3, <2>4
<1>11. Straight(odb', NextOid)
  BY <1>8, <1>9, <1>10 DEF Straight, line
<1>12. QED
  BY <1>8, <1>11 DEF below

(* A commit that is no import changes nothing. *)
LEMMA LogPlainWrite ==
    ASSUME ObjectDatabase(odb), ImportLog(odb), NEW parents \in Seq(Oids), NEW tree, NEW marker,
           Write(parents, tree, marker), marker.dir \notin {"Setup", "DestToSource"}
    PROVE  ImportLog(odb') /\ Extends(odb, odb')
<1>1. /\ Extends(odb, odb') /\ Len(odb') = NextOid /\ odb'[NextOid].marker = marker
      /\ Len(odb) \in Nat /\ NextOid = Len(odb) + 1
  BY WriteAppends DEF ObjectDatabase, NextOid
<1>2. InOrder(odb', NextOid)
  BY <1>1 DEF InOrder, Looped
<1>3. Straight(odb', NextOid)
  BY TrailWrite
<1>4. \A o \in 1 .. Len(odb) : Straight(odb', o) /\ InOrder(odb', o)
  BY <1>1, LogKept
<1>5. \A o \in 1 .. Len(odb') : o \in 1 .. Len(odb) \/ o = NextOid
  BY <1>1
<1>6. QED
  BY <1>1, <1>2, <1>3, <1>4, <1>5 DEF ImportLog

(* An import of a dest commit that its branch does not have yet, and before *)
(* which it lacks nothing.                                                 *)
LEMMA LogImportWrite ==
    ASSUME ObjectDatabase(odb), ImportLog(odb), NEW chain \in Oids, NEW tree, NEW b, NEW o \in Oids,
           Write(<<chain>>, tree, Marker("DestToSource", b, o)), Fits(odb, o, chain, b, {o})
    PROVE  /\ ImportLog(odb') /\ Extends(odb, odb')
           /\ Taken(odb', NextOid) = Taken(odb, chain) \cup {o}
           /\ Trail(odb', NextOid) = {NextOid} \cup Trail(odb, chain)
           /\ odb'[NextOid].anc = {NextOid} \cup odb[chain].anc
           /\ \A x : OfBranch(odb', NextOid, x) <=> x = b
<1> DEFINE n == NextOid
           marker == Marker("DestToSource", b, o)
<1>1. /\ Extends(odb, odb') /\ Len(odb') = n /\ odb'[n].marker = marker
      /\ Len(odb) \in Nat /\ n = Len(odb) + 1 /\ Oids = 1 .. Len(odb)
  BY WriteAppends DEF ObjectDatabase, NextOid, Oids
<1>2. Straight(odb', n) /\ Trail(odb', n) = {n} \cup Trail(odb, chain)
  <2>1. <<chain>> \in Seq(Oids) /\ <<chain>> # <<>> /\ <<chain>>[1] = chain
    BY SingletonSeq
  <2>2. QED
    BY <2>1, TrailWrite
<1>3. odb'[n].anc = {n} \cup odb[chain].anc
  <2>1. odb'[n].anc = {n} \cup UNION {Anc(<<chain>>[i]) : i \in DOMAIN <<chain>>}
    BY WriteAppends
  <2>2. UNION {Anc(<<chain>>[i]) : i \in DOMAIN <<chain>>} = odb[chain].anc
    BY DEF Anc
  <2>3. QED
    BY <2>1, <2>2
<1>4. /\ marker.dir = "DestToSource" /\ marker.branch = b /\ marker.counterpart = o
      /\ Looped(odb', n) /\ \A x : OfBranch(odb', n, x) <=> x = b
  BY <1>1 DEF Marker, Looped, OfBranch
<1> HIDE DEF marker
<1>5. /\ \A x \in Oids : odb'[x] = odb[x]
      /\ Trail(odb, chain) \subseteq Oids /\ odb[chain].anc \subseteq Oids
      /\ Trail(odb, o) \subseteq Oids /\ n \notin Oids
  <2>1. /\ Trail(odb, chain) \subseteq odb[chain].anc /\ odb[chain].anc \subseteq Oids
        /\ Trail(odb, o) \subseteq odb[o].anc /\ odb[o].anc \subseteq Oids
    BY <1>1, TrailInHistory
  <2>2. QED
    BY <1>1, <2>1 DEF Extends
<1>6. Taken(odb', n) = Taken(odb, chain) \cup {o}
  <2>1. {x \in Trail(odb', n) : odb'[x].marker.dir = "DestToSource"}
          = {n} \cup {x \in Trail(odb, chain) : odb[x].marker.dir = "DestToSource"}
    BY <1>1, <1>2, <1>4, <1>5
  <2>2. odb'[n].marker.counterpart = o
    BY <1>1, <1>4
  <2>3. QED
    BY <1>5, <2>1, <2>2 DEF Taken
<1>7. /\ \A x \in Oids : Straight(odb', x) /\ InOrder(odb', x) /\ Trail(odb', x) = Trail(odb, x)
      /\ NewTo(odb', o, chain, b) /\ Trail(odb', chain) = Trail(odb, chain)
  BY <1>1, LogKept DEF Fits
<1>8. InOrder(odb', n)
  <2>1. o \in 1 .. Len(odb') /\ odb'[n].marker.counterpart = o
    BY <1>1, <1>4
  <2>2. Missing(odb', o, n) \subseteq Taken(odb', n)
    <3>1. Missing(odb', o, n) \subseteq Missing(odb, o, chain)
      BY <1>3, <1>5, <1>7 DEF Missing
    <3>2. QED
      BY <1>6, <3>1 DEF Fits
  <2>3. ASSUME NEW y, OfBranch(odb', n, y), NEW x \in Trail(odb', n) \ {n}, OfBranch(odb', x, y)
        PROVE  o \notin Trail(odb', odb'[x].marker.counterpart)
    <3>1. y = b /\ x \in Trail(odb', chain)
      BY <1>2, <1>4, <1>7, <2>3
    <3>2. QED
      BY <1>7, <2>3, <3>1 DEF NewTo
  <2>4. QED
    BY <2>1, <2>2, <2>3 DEF InOrder
<1>9. \A x \in 1 .. Len(odb') : x \in Oids \/ x = n
  BY <1>1
<1>10. ImportLog(odb')
  BY <1>2, <1>7, <1>8, <1>9 DEF ImportLog
<1>11. QED
  BY <1>1, <1>2, <1>3, <1>4, <1>6, <1>10

(* The scan for the newest graft or import of a branch finds it. *)
LEMMA NewestIsNewest ==
    ASSUME ObjectDatabase(odb), ImportLog(odb), NEW tip \in Oids, NEW branch,
           NewestDestMarker(tip, branch) # NoOid
    PROVE  LET m == NewestDestMarker(tip, branch)
           IN  /\ m \in Trail(odb, tip) /\ OfBranch(odb, m, branch)
               /\ \A x \in Trail(odb, tip) : OfBranch(odb, x, branch) => x <= m
<1> DEFINE line == Line(tip)
           Found(x) == Verify(x, branch, {"Setup", "DestToSource"})
           found == {i \in 1 .. Len(line) : Found(line[i])}
           least == IF found # {} THEN Min(found) ELSE 0
           m == line[least]
<1>1. line \in Seq(Oids) /\ Len(line) \in Nat /\ DOMAIN line = 1 .. Len(line)
  <2>1. line \in Seq(Anc(tip)) /\ Anc(tip) \subseteq Oids
    BY CommitFacts
  <2>2. line \in Seq(Oids)
    BY <2>1, SeqMonotonic
  <2> HIDE DEF line
  <2>3. QED
    BY <2>2, LenProperties
<1>2. SelectInSeq(line, LAMBDA x : Verify(x, branch, {"Setup", "DestToSource"})) = least
  BY DEF SelectInSeq
<1>3. NewestDestMarker(tip, branch) = IF least = 0 THEN NoOid ELSE m
  BY <1>2 DEF NewestDestMarker, Newest
<1>4. found \in SUBSET Nat /\ found # {} /\ least # 0
  BY <1>3
<1>5. least \in found /\ \A i \in found : least <= i
  BY <1>4, LeastNatural
<1> HIDE DEF least
<1>6. \A x : Found(x) <=> OfBranch(odb, x, branch)
  BY DEF Verify, OfBranch
<1>7. m \in Trail(odb, tip) /\ Found(m)
  <2>1. least \in DOMAIN line
    BY <1>1, <1>5
  <2>2. m \in ToSet(line)
    BY <2>1 DEF ToSet
  <2>3. QED
    BY <1>5, <2>2 DEF Trail, Line
<1>8. ASSUME NEW x \in Trail(odb, tip), Found(x) PROVE x <= m
  <2>1. PICK i \in DOMAIN line : line[i] = x
    BY DEF Trail, ToSet, Line
  <2>2. i \in found /\ i \in Nat /\ least \in DOMAIN line /\ least \in Nat
    BY <1>1, <1>5, <1>8, <2>1
  <2>3. least = i \/ least < i
    BY <1>5, <2>2
  <2>4. \A k, l \in DOMAIN line : k < l => line[l] < line[k]
    <3>1. Straight(odb, tip)
      BY DEF ImportLog, Oids
    <3>2. QED
      BY <3>1 DEF Straight, Line
  <2>5. m \in Nat /\ x \in Nat
    BY <1>1, <2>1, <2>2 DEF Oids
  <2>6. CASE least = i
    BY <2>1, <2>5, <2>6
  <2>7. CASE least < i
    <3>1. line[i] < line[least]
      BY <2>1, <2>2, <2>4, <2>7
    <3>2. QED
      BY <2>1, <2>5, <3>1
  <2>8. QED
    BY <2>3, <2>6, <2>7
<1>9. QED
  BY <1>3, <1>4, <1>6, <1>7, <1>8

(* The hidden commits are the tail of the line from the boundary on.       *)
HiddenTail(db, head, boundary, pending, last) ==
    /\ last \in DOMAIN db[head].line /\ db[head].line[last] = boundary
    /\ DOMAIN pending = 1 .. (last - 1)
    /\ \A i \in DOMAIN pending : pending[i] = db[head].line[last - i]
    /\ \A i \in 1 .. (last - 1) : db[head].line[i] \notin db[boundary].anc

LEMMA PendingCut ==
    ASSUME ObjectDatabase(odb), ImportLog(odb), NEW head \in Oids,
           NEW boundary \in Trail(odb, head)
    PROVE  \E last : HiddenTail(odb, head, boundary, PendingCommits(boundary, head), last)
<1> DEFINE line == Line(head)
           hiding == {i \in 1 .. Len(line) : line[i] \in Anc(boundary)}
           hidden == IF hiding # {} THEN Min(hiding) ELSE 0
           pending == PendingCommits(boundary, head)
<1>1. /\ line \in Seq(Oids) /\ Len(line) \in Nat /\ DOMAIN line = 1 .. Len(line)
      /\ Trail(odb, head) = ToSet(line) /\ boundary \in Oids /\ Oids \subseteq Nat
      /\ \A i \in DOMAIN line : line[i] \in Nat
  <2>1. line \in Seq(Anc(head)) /\ Anc(head) \subseteq Oids
    BY CommitFacts
  <2>2. line \in Seq(Oids)
    BY <2>1, SeqMonotonic
  <2>3. Trail(odb, head) = ToSet(line)
    BY DEF Trail, Line
  <2>4. Oids \subseteq Nat
    BY DEF Oids
  <2> HIDE DEF line
  <2>5. Len(line) \in Nat /\ DOMAIN line = 1 .. Len(line)
    BY <2>2, LenProperties
  <2>6. \A i \in DOMAIN line : line[i] \in Nat
    <3>1. \A i \in 1 .. Len(line) : line[i] \in Oids
      BY <2>2, ElementOfSeq
    <3>2. QED
      BY <2>4, <2>5, <3>1
  <2>7. QED
    BY <2>2, <2>3, <2>4, <2>5, <2>6 DEF ToSet
<1>2. PICK last \in DOMAIN line : line[last] = boundary
  BY <1>1 DEF ToSet
<1>3. \A i, k \in DOMAIN line : i < k => line[k] < line[i]
  <2>1. Straight(odb, head)
    BY DEF ImportLog, Oids
  <2>2. QED
    BY <2>1 DEF Straight, Line
<1>4. boundary \in Anc(boundary) /\ Anc(boundary) \subseteq 1 .. boundary
  BY <1>1 DEF ObjectDatabase, WellFormed, Anc, Oids
<1>5. SelectInSeq(Line(head), LAMBDA x : x \in Anc(boundary)) = hidden
  BY DEF SelectInSeq
<1>6. hidden = last
  <2>1. last \in hiding /\ hiding \in SUBSET Nat /\ last \in Nat
    BY <1>1, <1>2, <1>4
  <2>2. Min(hiding) \in hiding /\ \A i \in hiding : Min(hiding) <= i
    BY <2>1, LeastNatural
  <2>3. hidden \in hiding /\ hidden <= last
    BY <2>1, <2>2
  <2> HIDE DEF hidden
  <2>4. hidden \in DOMAIN line /\ hidden \in Nat /\ line[hidden] \in 1 .. boundary
    BY <1>1, <1>4, <2>1, <2>3
  <2>5. hidden < last => boundary < line[hidden]
    BY <1>2, <1>3, <2>4
  <2>6. ~ (hidden < last)
    BY <1>1, <2>4, <2>5
  <2>7. QED
    BY <2>1, <2>3, <2>4, <2>6
<1> HIDE DEF hidden
<1>7. last \in Nat /\ last >= 1 /\ last <= Len(line)
  BY <1>1, <1>2
<1>8. pending = [i \in 1 .. (last - 1) |-> line[last - i]]
  <2>1. last # 0 /\ \A i \in 1 .. (last - 1) : (last - 1) + 1 - i = last - i
    BY <1>7
  <2>2. pending = [i \in 1 .. (last - 1) |-> line[(last - 1) + 1 - i]]
    BY <1>5, <1>6, <2>1 DEF PendingCommits
  <2>3. QED
    BY <2>1, <2>2
<1> HIDE DEF line, pending
<1>9. DOMAIN pending = 1 .. (last - 1) /\ \A i \in DOMAIN pending : pending[i] = line[last - i]
  BY <1>8
<1>10. ASSUME NEW i \in 1 .. (last - 1) PROVE line[i] \notin Anc(boundary)
  <2>1. i \in DOMAIN line /\ i < last
    BY <1>1, <1>7
  <2>2. boundary < line[i] /\ line[i] \in Nat /\ boundary \in Nat
    BY <1>1, <1>2, <1>3, <2>1
  <2>3. line[i] \notin 1 .. boundary
    BY <2>2
  <2>4. QED
    BY <1>4, <2>3
<1>11. HiddenTail(odb, head, boundary, pending, last)
  BY <1>2, <1>9, <1>10 DEF HiddenTail, line, Line, Anc
<1>12. QED
  BY <1>11 DEF pending

(* What is pending is the part of the line above the boundary, in order. *)
LEMMA PendingIsAbove ==
    ASSUME ObjectDatabase(odb), ImportLog(odb), NEW head \in Oids,
           NEW boundary \in Trail(odb, head)
    PROVE  LET pending == PendingCommits(boundary, head)
           IN  /\ ToSet(pending) = {x \in Trail(odb, head) : x > boundary}
               /\ \A i, k \in DOMAIN pending : i < k => pending[i] < pending[k]
<1> DEFINE line == Line(head)
           pending == PendingCommits(boundary, head)
<1>1. /\ line \in Seq(Oids) /\ Len(line) \in Nat /\ DOMAIN line = 1 .. Len(line)
      /\ Trail(odb, head) = ToSet(line) /\ boundary \in Oids /\ Oids \subseteq Nat
      /\ \A i \in DOMAIN line : line[i] \in Nat
  <2>1. line \in Seq(Anc(head)) /\ Anc(head) \subseteq Oids
    BY CommitFacts
  <2>2. line \in Seq(Oids)
    BY <2>1, SeqMonotonic
  <2>3. Trail(odb, head) = ToSet(line)
    BY DEF Trail, Line
  <2>4. Oids \subseteq Nat
    BY DEF Oids
  <2> HIDE DEF line
  <2>5. Len(line) \in Nat /\ DOMAIN line = 1 .. Len(line)
    BY <2>2, LenProperties
  <2>6. \A i \in DOMAIN line : line[i] \in Nat
    <3>1. \A i \in 1 .. Len(line) : line[i] \in Oids
      BY <2>2, ElementOfSeq
    <3>2. QED
      BY <2>4, <2>5, <3>1
  <2>7. QED
    BY <2>2, <2>3, <2>4, <2>5, <2>6 DEF ToSet
<1>2. PICK last : HiddenTail(odb, head, boundary, pending, last)
  BY PendingCut
<1>3. \A i, k \in DOMAIN line : i < k => line[k] < line[i]
  <2>1. Straight(odb, head)
    BY DEF ImportLog, Oids
  <2>2. QED
    BY <2>1 DEF Straight, Line
<1>4. last \in DOMAIN line /\ line[last] = boundary /\ last \in Nat /\ last >= 1
      /\ last <= Len(line)
  BY <1>1, <1>2 DEF HiddenTail, Line
<1> HIDE DEF line, pending
<1>5. DOMAIN pending = 1 .. (last - 1) /\ \A i \in DOMAIN pending : pending[i] = line[last - i]
  BY <1>2 DEF HiddenTail, line, Line
<1>6. ASSUME NEW i \in DOMAIN pending, NEW k \in DOMAIN pending, i < k
       PROVE  pending[i] < pending[k]
  <2>1. last - i \in DOMAIN line /\ last - k \in DOMAIN line /\ last - k < last - i
    BY <1>1, <1>4, <1>5, <1>6
  <2>2. QED
    BY <1>3, <1>5, <2>1
<1>7. ASSUME NEW x \in ToSet(pending) PROVE x \in ToSet(line) /\ x > boundary
  <2>1. PICK i \in DOMAIN pending : pending[i] = x
    BY DEF ToSet
  <2>2. last - i \in DOMAIN line /\ last - i < last /\ x = line[last - i]
    BY <1>1, <1>4, <1>5, <2>1
  <2>3. boundary < x
    BY <1>4, <1>3, <2>2
  <2>4. x \in Nat
    BY <1>1, <2>2
  <2>5. QED
    BY <1>1, <2>2, <2>3, <2>4 DEF ToSet
<1>8. ASSUME NEW x \in ToSet(line), x > boundary PROVE x \in ToSet(pending)
  <2>1. PICK i \in DOMAIN line : line[i] = x
    BY DEF ToSet
  <2>2. i \in Nat /\ x \in Nat /\ boundary \in Nat
    BY <1>1, <2>1
  <2>3. ~ (last < i) /\ i # last
    BY <1>4, <1>3, <1>8, <2>1, <2>2
  <2>4. last - i \in DOMAIN pending /\ last - (last - i) = i
    BY <1>1, <1>4, <1>5, <2>2, <2>3
  <2>5. pending[last - i] = x
    BY <1>5, <2>1, <2>4
  <2>6. QED
    BY <2>4, <2>5 DEF ToSet
<1>9. QED
  BY <1>1, <1>6, <1>7, <1>8 DEF pending

(* What a run starts to import fits on the source tip that it starts from: *)
(* it begins above what the newest import there stands for, and what the   *)
(* scan skips was imported or is a projection.                             *)
LEMMA PendingDue ==
    ASSUME ObjectDatabase(odb), ImportLog(odb), NEW H, NEW tip \in Oids, NEW head \in Oids,
           NEW branch, NEW boundary, boundary = DestToSourceBoundary(H, tip, head, branch),
           boundary # NoOid, NEW pending, pending = PendingCommits(boundary, head),
           NEW j, j.pending = pending, j.chain = tip, j.branch = branch
    PROVE  Due(odb, "import_build", j)
<1> DEFINE m == NewestDestMarker(tip, branch)
           start == odb[m].marker.counterpart
           line == Line(head)
<1>1. PICK b1 \in 1 .. Len(line), last \in Nat :
        /\ m # NoOid
        /\ last \in 1 .. b1 /\ line[b1] = start /\ boundary = line[last]
        /\ \A i \in last .. b1 - 1 : Represented(H, line[i], tip)
  <2>1. start = Counterpart(m)
    BY DEF Counterpart
  <2> HIDE DEF start
  <2>2. m # NoOid /\ ScannedFrom(H, tip, line, Counterpart(m), boundary)
    BY BoundaryScanned
  <2> HIDE DEF m, line
  <2>3. QED
    BY <2>1, <2>2 DEF ScannedFrom
<1>2. /\ m \in Trail(odb, tip) /\ OfBranch(odb, m, branch)
      /\ \A x \in Trail(odb, tip) : OfBranch(odb, x, branch) => x <= m
  BY <1>1, NewestIsNewest
<1> HIDE DEF m
<1>3. /\ Oids = 1 .. Len(odb) /\ Len(odb) \in Nat
      /\ \A o \in Oids : Trail(odb, o) \subseteq odb[o].anc /\ odb[o].anc \subseteq Oids
      /\ \A o \in Oids : Straight(odb, o) /\ InOrder(odb, o)
  BY TrailInHistory DEF Oids, ImportLog
<1>4. m \in Oids /\ Looped(odb, m) /\ start \in Oids /\ m \in odb[tip].anc
  <2>1. m \in Oids /\ m \in odb[tip].anc /\ Looped(odb, m)
    BY <1>2, <1>3 DEF OfBranch, Looped
  <2>2. QED
    BY <1>3, <2>1 DEF InOrder
<1>5. /\ line = odb[head].line /\ line \in Seq(Oids) /\ Len(line) \in Nat
      /\ DOMAIN line = 1 .. Len(line) /\ ToSet(line) = Trail(odb, head)
      /\ \A i, k \in DOMAIN line : i < k => line[k] < line[i]
  <2>1. line \in Seq(Anc(head)) /\ Anc(head) \subseteq Oids
    BY CommitFacts
  <2>2. line \in Seq(Oids)
    BY <2>1, SeqMonotonic
  <2>3. line = odb[head].line /\ ToSet(line) = Trail(odb, head)
    BY DEF Trail, Line
  <2>4. \A i, k \in DOMAIN line : i < k => line[k] < line[i]
    BY <1>3, <2>3 DEF Straight
  <2> HIDE DEF line
  <2>5. Len(line) \in Nat /\ DOMAIN line = 1 .. Len(line)
    BY <2>2, LenProperties
  <2>6. QED
    BY <2>2, <2>3, <2>4, <2>5
<1>6. /\ b1 \in DOMAIN line /\ last \in DOMAIN line /\ b1 \in Nat /\ last <= b1
      /\ start \in Trail(odb, head) /\ boundary \in Trail(odb, head)
  <2>1. b1 \in DOMAIN line /\ last \in DOMAIN line /\ b1 \in Nat /\ last <= b1
    BY <1>1, <1>5
  <2>2. QED
    BY <1>1, <1>5, <2>1 DEF ToSet
<1>7. boundary \in Oids /\ start <= boundary
  <2>1. boundary \in Oids /\ start \in Nat /\ boundary \in Nat
    BY <1>3, <1>4, <1>6
  <2>2. CASE last = b1
    BY <1>1, <2>1, <2>2
  <2>3. CASE last < b1
    <3>1. line[b1] < line[last]
      BY <1>5, <1>6, <2>3
    <3>2. QED
      BY <1>1, <2>1, <3>1
  <2>4. QED
    BY <1>6, <2>2, <2>3
<1>8. /\ ToSet(pending) = {x \in Trail(odb, head) : x > boundary}
      /\ \A i, k \in DOMAIN pending : i < k => pending[i] < pending[k]
  BY <1>6, PendingIsAbove
<1>9. \A x \in Trail(odb, head) : /\ Trail(odb, x) = {y \in Trail(odb, head) : y <= x}
                                  /\ start <= x => start \in Trail(odb, x)
  BY <1>3, <1>6 DEF Straight
<1>10. \A x \in Trail(odb, head) : x \in Nat /\ x \in Oids
  BY <1>3
<1>11. ASSUME NEW o \in ToSet(pending) PROVE NewTo(odb, o, tip, branch)
  <2>1. o \in Trail(odb, head) /\ start < o /\ start \in Trail(odb, o) /\ o \in Oids
    BY <1>6, <1>7, <1>8, <1>9, <1>10
  <2>2. ASSUME NEW x \in Trail(odb, tip), OfBranch(odb, x, branch),
               o \in Trail(odb, odb[x].marker.counterpart)
        PROVE  FALSE
    <3>1. x <= m /\ x \in Oids /\ Looped(odb, x)
      BY <1>2, <1>3, <2>2 DEF OfBranch, Looped
    <3>2. x \in Trail(odb, m)
      BY <1>2, <1>3, <2>2, <3>1 DEF Straight
    <3>3. CASE x = m
      <4>1. o <= start
        BY <1>6, <1>9, <2>2, <3>3
      <4>2. QED
        BY <1>6, <1>10, <2>1, <4>1
    <3>4. CASE x # m
      <4> DEFINE named == odb[x].marker.counterpart
      <4>1. named \in Oids
        BY <1>3, <3>1 DEF InOrder
      <4>2. Trail(odb, o) \subseteq Trail(odb, named)
        BY <1>3, <2>2, <4>1 DEF Straight
      <4>3. start \notin Trail(odb, named)
        BY <1>2, <1>3, <1>4, <2>2, <3>2, <3>4 DEF InOrder
      <4>4. QED
        BY <2>1, <4>2, <4>3
    <3>5. QED
      BY <3>3, <3>4
  <2>3. QED
    BY <2>2 DEF NewTo
<1>12. ASSUME NEW o \in ToSet(pending), NEW y \in Missing(odb, o, tip)
       PROVE  y \in Taken(odb, tip) \cup {x \in ToSet(pending) : x <= o}
  <2>1. /\ o \in Trail(odb, head) /\ y \in Trail(odb, o) /\ y \notin odb[tip].anc
        /\ odb[y].marker = NoMarker
    BY <1>8 DEF Missing
  <2>2. y \in Trail(odb, head) /\ y <= o /\ y \in Nat /\ boundary \in Nat /\ start \in Nat
    BY <1>6, <1>9, <1>10, <2>1
  <2>3. CASE y > boundary
    BY <1>8, <2>2, <2>3
  <2>4. CASE y <= boundary /\ y > start
    <3>1. PICK i \in DOMAIN line : line[i] = y
      BY <1>5, <2>2 DEF ToSet
    <3>2. i \in Nat /\ last <= i /\ i < b1
      <4>1. i \in Nat
        BY <1>5
      <4>2. last \in Nat /\ last \in DOMAIN line /\ line[last] = boundary
        BY <1>1, <1>6
      <4>3. ~ (i < last)
        <5>1. i < last => line[last] < line[i]
          BY <1>5, <3>1, <4>2
        <5>2. QED
          BY <2>2, <2>4, <3>1, <4>2, <5>1
      <4>4. b1 \in Nat /\ b1 \in DOMAIN line /\ line[b1] = start
        BY <1>1, <1>6
      <4>5. ~ (b1 < i)
        <5>1. b1 < i => line[i] < line[b1]
          BY <1>5, <3>1, <4>4
        <5>2. QED
          BY <2>2, <2>4, <3>1, <4>4, <5>1
      <4>6. i # b1
        BY <2>2, <2>4, <3>1, <4>4
      <4>7. QED
        BY <4>1, <4>2, <4>3, <4>4, <4>5, <4>6
    <3>3. Represented(H, y, tip)
      BY <1>1, <1>6, <3>1, <3>2
    <3>4. y \in DestToSourceMarkerTargets(tip)
      BY <2>1, <3>3 DEF Represented, VerifySelf, NoMarker
    <3>5. PICK x \in Anc(tip) :
            OnLine(x, tip) /\ VerifySelf(x, {"DestToSource"}) /\ Counterpart(x) = y
      BY <3>4 DEF DestToSourceMarkerTargets
    <3>6. x \in Trail(odb, tip)
      BY <3>5 DEF OnLine, Trail, Line, ToSet
    <3>7. QED
      BY <3>5, <3>6 DEF Taken, VerifySelf, Counterpart
  <2>5. CASE y <= start
    <3>1. odb[m].anc \subseteq odb[tip].anc
      BY <1>4, CommitFacts DEF Anc
    <3>2. y \in Missing(odb, start, m)
      BY <1>6, <1>9, <2>1, <2>2, <2>5, <3>1 DEF Missing
    <3>3. y \in Taken(odb, m)
      BY <1>3, <1>4, <3>2 DEF InOrder
    <3>4. Trail(odb, m) \subseteq Trail(odb, tip)
      BY <1>2, <1>3 DEF Straight
    <3>5. QED
      BY <3>3, <3>4 DEF Taken
  <2>6. QED
    BY <2>2, <2>3, <2>4, <2>5
<1>13. \A o \in ToSet(pending) : Fits(odb, o, tip, branch, {x \in ToSet(pending) : x <= o})
  BY <1>11, <1>12 DEF Fits
<1>14. QED
  BY <1>8, <1>13 DEF Due

LEMMA DueKept ==
    ASSUME NEW db, NEW larger, ObjectDatabase(db), Extends(db, larger), ImportLog(db),
           NEW H, Closed(db, H), NEW p, NEW r, NEW j, JobRefs(H, p, r, j), Due(db, p, j)
    PROVE  Due(larger, p, j)
<1> SUFFICES ASSUME p = "import_build" PROVE Due(larger, p, j)
  BY DEF Due
<1>1. j.chain \in 1 .. Len(db) /\ ToSet(j.pending) \subseteq 1 .. Len(db)
  <2>1. j.chain \in H /\ j.pending \in Seq(H) /\ H \subseteq 1 .. Len(db)
    BY DEF JobRefs, Closed
  <2>2. ToSet(j.pending) \subseteq H
    BY <2>1 DEF ToSet
  <2>3. QED
    BY <2>1, <2>2
<1>2. \A o \in ToSet(j.pending) :
        Fits(larger, o, j.chain, j.branch, {x \in ToSet(j.pending) : x <= o})
  BY <1>1, LogKept DEF Due
<1>3. QED
  BY <1>2 DEF Due

LEMMA ImportStep ==
    ASSUME SyncInv, ImportInv, NEW c \in Clones, Extends(odb, odb'), ImportLog(odb'),
           \A d \in Clones \ {c} : pc'[d] = pc[d] /\ job'[d] = job[d],
           Due(odb', pc'[c], job'[c])
    PROVE  ImportInv'
<1>1. ASSUME NEW d \in Clones \ {c} PROVE Due(odb', pc'[d], job'[d])
  <2>1. /\ Closed(odb, have[d]) /\ JobRefs(have[d], pc[d], run[d], job[d])
        /\ ObjectDatabase(odb) /\ ImportLog(odb) /\ Due(odb, pc[d], job[d])
    BY Untouched DEF CloneInv, SyncInv, ImportInv
  <2>2. Due(odb', pc[d], job[d])
    BY <2>1, DueKept
  <2>3. QED
    BY <2>2
<1>2. QED
  BY <1>1 DEF ImportInv

(* A step of a run touches no other run. *)
LEMMA OthersGoOn ==
    ASSUME SyncInv, NEW c \in Clones, StartRun(c) \/ Sync(c) \/ Crash(c), NEW d \in Clones \ {c}
    PROVE  pc'[d] = pc[d] /\ job'[d] = job[d]
<1>1. pc = [x \in Clones |-> pc[x]] /\ job = [x \in Clones |-> job[x]]
  BY DEF SyncInv, Table
<1>2. ASSUME NEW p PROVE [pc EXCEPT ![c] = p][d] = pc[d]
  BY <1>1
<1>3. ASSUME NEW k PROVE [job EXCEPT ![c] = k][d] = job[d]
  BY <1>1
<1>4. ASSUME \/ \E why : Abort(c, why)
             \/ \E halts : NextBranch(c, halts) \/ NextImport(c, halts)
      PROVE  pc'[d] = pc[d] /\ job'[d] = job[d]
  BY <1>2, <1>3, <1>4 DEF Abort, NextBranch, NextImport
<1>5. CASE BeginImport(c) \/ RefetchSource(c)
  <2>1. (\E why : Abort(c, why)) \/ \E b, tip, attempt : PrepareImport(c, b, tip, attempt)
    BY <1>5 DEF BeginImport, RefetchSource
  <2>2. ASSUME NEW b, NEW tip, NEW attempt, PrepareImport(c, b, tip, attempt)
        PROVE  pc'[d] = pc[d] /\ job'[d] = job[d]
    <3>1. \/ \E why : Abort(c, why)
          \/ \E p, k : pc' = [pc EXCEPT ![c] = p] /\ job' = [job EXCEPT ![c] = k]
      BY <2>2 DEF PrepareImport
    <3>2. QED
      BY <1>2, <1>3, <1>4, <3>1
  <2>3. QED
    BY <1>4, <2>1, <2>2
<1>6. CASE PlanBranch(c)
  <2>1. \/ \E why : Abort(c, why)
        \/ \E halts : NextBranch(c, halts)
        \/ \E v, reuse : PlanBuild(c, v, reuse)
    BY <1>6 DEF PlanBranch
  <2>2. ASSUME NEW v, NEW reuse, PlanBuild(c, v, reuse)
        PROVE  pc'[d] = pc[d] /\ job'[d] = job[d]
    BY <1>2, <1>3, <2>2 DEF PlanBuild
  <2>3. QED
    BY <1>4, <2>1, <2>2
<1>7. CASE ReplayToSource(c) \/ ReplayToDest(c)
  <2>1. pc' = pc /\ \E k : job' = [job EXCEPT ![c] = k]
    BY <1>7 DEF ReplayToSource, ReplayToDest
  <2>2. QED
    BY <1>3, <2>1
<1>8. CASE FetchHeads(c) \/ SkipImport(c) \/ NothingToPush(c) \/ PushToSource(c)
           \/ AdvanceLocalSourceBranch(c) \/ ReconstructMappingIndex(c)
           \/ StartRun(c) \/ Crash(c)
  BY <1>2, <1>3, <1>4, <1>8 DEF FetchHeads, SkipImport, NothingToPush, PushToSource,
     AdvanceLocalSourceBranch, ReconstructMappingIndex, StartRun, Crash
<1>9. CASE SelectNextBranch(c) \/ SealToDest(c) \/ Finish(c)
  <2>1. \/ \E why : Abort(c, why)
        \/ \E halts : NextBranch(c, halts)
        \/ /\ \E p : pc' = [pc EXCEPT ![c] = p]
           /\ job' = job \/ \E k : job' = [job EXCEPT ![c] = k]
    BY <1>9 DEF SelectNextBranch, SealToDest, Finish
  <2>2. QED
    BY <1>2, <1>3, <1>4, <2>1
<1>10. CASE FetchDest(c) \/ PushToDest(c) \/ PushRejected(c)
  <2>1. \/ \E why : Abort(c, why)
        \/ \E halts : NextBranch(c, halts)
        \/ \E p, k : pc' = [pc EXCEPT ![c] = p] /\ job' = [job EXCEPT ![c] = k]
    BY <1>10 DEF FetchDest, PushToDest, PushRejected
  <2>2. QED
    BY <1>2, <1>3, <1>4, <2>1
<1>11. QED
  BY <1>5, <1>6, <1>7, <1>8, <1>9, <1>10 DEF Sync

(* What anyone but an import writes is neither a graft nor an import. *)
PlainWrite ==
    \/ odb' = odb
    \/ \E parents \in Seq(Oids) : \E tree, marker :
          Write(parents, tree, marker) /\ marker.dir \notin {"Setup", "DestToSource"}

LEMMA LogStep ==
    ASSUME ObjectDatabase(odb), ImportLog(odb), PlainWrite
    PROVE  ImportLog(odb') /\ Extends(odb, odb')
<1>1. CASE odb' = odb
  BY <1>1 DEF Extends, ObjectDatabase
<1>2. QED
  BY <1>1, LogPlainWrite DEF PlainWrite

LEMMA PlanIsPlain == ASSUME SyncInv, NEW c \in Clones, PlanBranch(c) PROVE PlainWrite
<1>1. pc[c] = "plan"
  BY DEF PlanBranch
<1>2. PICK v, pending, newest, plan :
        /\ v = Resume(c)
        /\ pending = (IF v.do = "build" THEN PendingCommits(v.boundary, job[c].tip) ELSE <<>>)
        /\ newest = NewestShared(have[c], run[c].index, pending, v.base)
        /\ plan = Plan(c, v, pending, newest)
        /\ odb' = odb \/ (plan.do = "build" /\ PlanBuild(c, v, plan.reuse))
  BY DEF PlanBranch
<1>3. CASE plan.do = "build" /\ PlanBuild(c, v, plan.reuse)
  <2>1. /\ v.do = "build"
        /\ plan.reuse.kind = "Bridge" => plan.reuse.projection \in have[c]
    BY <1>1, <1>2, <1>3, PlanKnown
  <2>2. v.base \in have[c] /\ have[c] \subseteq Oids
    BY <1>1, <1>2, <2>1, ResumeKnown, Untouched
  <2>3. CASE plan.reuse.kind = "Bridge"
    <3>1. <<v.base, plan.reuse.projection>> \in Seq(Oids)
      BY <2>1, <2>2, <2>3, PairSeq
    <3>2. \E tree, branch, o :
            Write(<<v.base, plan.reuse.projection>>, tree, Marker("SourceToDest", branch, o))
      BY <1>3, <2>3 DEF PlanBuild
    <3>3. \A branch, o : Marker("SourceToDest", branch, o).dir = "SourceToDest"
      BY DEF Marker
    <3>4. QED
      BY <3>1, <3>2, <3>3 DEF PlainWrite
  <2>4. CASE plan.reuse.kind # "Bridge"
    BY <1>3, <2>4 DEF PlanBuild, PlainWrite
  <2>5. QED
    BY <2>3, <2>4
<1>4. QED
  BY <1>2, <1>3 DEF PlainWrite

LEMMA BuildIsPlain ==
    ASSUME SyncInv, NEW c \in Clones, ReplayToDest(c) \/ SealToDest(c) PROVE PlainWrite
<1>1. <<job[c].chain>> \in Seq(Oids)
  <2>1. pc[c] = "build" /\ have[c] \subseteq Oids /\ JobRefs(have[c], pc[c], run[c], job[c])
    BY Untouched DEF ReplayToDest, SealToDest, CloneInv
  <2>2. job[c].chain \in Oids
    BY <2>1 DEF JobRefs
  <2>3. QED
    BY <2>2, SingletonSeq
<1>2. odb' = odb \/ \E tree, branch, o :
                       Write(<<job[c].chain>>, tree, Marker("SourceToDest", branch, o))
  BY DEF ReplayToDest, SealToDest
<1>3. \A branch, o : Marker("SourceToDest", branch, o).dir = "SourceToDest"
  BY DEF Marker
<1>4. QED
  BY <1>1, <1>2, <1>3 DEF PlainWrite

LEMMA EnvironmentIsPlain == ASSUME SyncInv, Environment PROVE PlainWrite
<1>1. NoMarker.dir = "None" /\ ObjectDatabase(odb) /\ NoOid \notin Oids
  BY DEF NoMarker, SyncInv, Oids, NoOid
<1>2. ASSUME NEW c \in Clones, NEW b \in Branches, local[c][b] # NoOid PROVE local[c][b] \in Oids
  BY <1>2, Untouched
<1>3. ASSUME NEW b \in Branches, dst[b] # NoOid PROVE dst[b] \in Oids
  BY <1>3 DEF SyncInv, Oid0, Oids, NoOid, ObjectDatabase
<1>4. ASSUME NEW c \in Clones, NEW b \in Branches, DevCommit(c, b) PROVE PlainWrite
  <2>1. <<local[c][b]>> \in Seq(Oids)
    BY <1>2, <1>4, SingletonSeq DEF DevCommit
  <2>2. QED
    BY <1>1, <1>4, <2>1 DEF DevCommit, PlainWrite
<1>5. ASSUME NEW c \in Clones, NEW b \in Branches, DevAmend(c, b) PROVE PlainWrite
  <2>1. local[c][b] \in Oids
    BY <1>2, <1>5 DEF DevAmend
  <2>2. /\ odb[local[c][b]].parents \in Seq(Anc(local[c][b]) \ {local[c][b]})
        /\ Anc(local[c][b]) \subseteq Oids
    BY <1>1, <2>1, CommitFacts
  <2>3. odb[local[c][b]].parents \in Seq(Oids)
    BY <2>2, SeqMonotonic
  <2>4. QED
    BY <1>1, <1>5, <2>3 DEF DevAmend, PlainWrite
<1>6. ASSUME NEW c \in Clones, NEW b \in Branches, NEW from \in Branches, DevMerge(c, b, from)
      PROVE  PlainWrite
  <2>1. <<local[c][b], local[c][from]>> \in Seq(Oids)
    BY <1>2, <1>6, PairSeq DEF DevMerge
  <2>2. QED
    BY <1>1, <1>6, <2>1 DEF DevMerge, PlainWrite
<1>7. ASSUME NEW b \in Branches, CustomerCommit(b) PROVE PlainWrite
  <2>1. <<dst[b]>> \in Seq(Oids)
    BY <1>3, <1>7, SingletonSeq DEF CustomerCommit
  <2>2. QED
    BY <1>1, <1>7, <2>1 DEF CustomerCommit, PlainWrite
<1>8. ASSUME NEW b \in Branches, NEW from \in Branches, CustomerMerge(b, from) PROVE PlainWrite
  <2>1. <<dst[b], dst[from]>> \in Seq(Oids)
    BY <1>3, <1>8, PairSeq DEF CustomerMerge
  <2>2. QED
    BY <1>1, <1>8, <2>1 DEF CustomerMerge, PlainWrite
<1>9. \/ odb' = odb
      \/ \E c \in Clones, b \in Branches :
            DevCommit(c, b) \/ DevAmend(c, b) \/ \E from \in Branches : DevMerge(c, b, from)
      \/ \E b \in Branches :
            CustomerCommit(b) \/ \E from \in Branches : CustomerMerge(b, from)
  <2>1. CASE \E c \in Clones, b \in Branches :
                DevPush(c, b) \/ DevPull(c, b) \/ \E from \in Branches : DevBranch(c, b, from)
    BY <2>1 DEF DevPush, DevPull, DevBranch
  <2>2. CASE \E b \in Branches :
                CustomerDelete(b) \/ \E from \in Branches : CustomerFastForward(b, from)
    BY <2>2 DEF CustomerDelete, CustomerFastForward
  <2>3. QED
    BY <2>1, <2>2 DEF Environment
<1>10. QED
  BY <1>4, <1>5, <1>6, <1>7, <1>8, <1>9 DEF PlainWrite

(* How an import begins. *)
Prepared(c) ==
    /\ odb' = odb
    /\ \E b \in Branches : \E tip, head \in Oids : \E H, boundary :
          /\ boundary = DestToSourceBoundary(H, tip, head, b) /\ boundary # NoOid
          /\ job'[c].branch = b /\ job'[c].chain = tip
          /\ job'[c].pending = PendingCommits(boundary, head)

LEMMA PrepareImportPrepares ==
    ASSUME SyncInv, NEW c \in Clones, BeginImport(c) \/ RefetchSource(c)
    PROVE  odb' = odb /\ (pc'[c] = "import_build" => Prepared(c))
<1> SUFFICES ASSUME pc'[c] = "import_build" PROVE Prepared(c)
  BY DEF BeginImport, RefetchSource
<1>1. pc = [x \in Clones |-> pc[x]] /\ job = [x \in Clones |-> job[x]] /\ odb' = odb
  BY DEF SyncInv, Table, BeginImport, RefetchSource
<1>2. ~ \E why : Abort(c, why)
  BY <1>1 DEF Abort
<1>3. /\ RunRefs(local[c], have[c], pc[c], run[c]) /\ JobRefs(have[c], pc[c], run[c], job[c])
      /\ local[c] \in [Branches -> have[c] \cup {NoOid}] /\ have[c] \subseteq Oids
      /\ src \in [Branches -> Oids \cup {NoOid}]
  <2>1. src \in [Branches -> Oids \cup {NoOid}]
    BY DEF SyncInv, Oids, Oid0, NoOid, ObjectDatabase
  <2>2. QED
    BY <2>1, Untouched DEF CloneInv
<1>4. \E b \in run[c].names, tip \in Oids : \E attempt : PrepareImport(c, b, tip, attempt)
  <2>1. CASE BeginImport(c)
    <3> DEFINE b == Head(run[c].imports)
               tip == IF local[c][b] # NoOid THEN local[c][b] ELSE src[b]
    <3>1. b \in run[c].names /\ tip # NoOid /\ PrepareImport(c, b, tip, 0)
      BY <1>2, <2>1 DEF BeginImport
    <3>2. b \in Branches
      BY <1>3, <3>1 DEF RunRefs
    <3>3. tip \in Oids
      BY <1>3, <3>1, <3>2
    <3>4. QED
      BY <3>1, <3>3
  <2>2. CASE RefetchSource(c)
    <3> DEFINE b == job[c].branch
    <3>1. b \in run[c].names
      BY <1>3, <2>2 DEF RefetchSource, JobRefs, Importing
    <3>2. src[b] # NoOid /\ PrepareImport(c, b, src[b], job[c].attempt)
      BY <1>2, <2>2 DEF RefetchSource
    <3>3. b \in Branches
      BY <1>3, <3>1 DEF RunRefs
    <3>4. src[b] \in Oids
      BY <1>3, <3>2, <3>3
    <3>5. QED
      BY <3>1, <3>2, <3>4
  <2>3. QED
    BY <2>1, <2>2
<1>5. PICK b \in run[c].names, tip \in Oids : \E attempt : PrepareImport(c, b, tip, attempt)
  BY <1>4
<1>6. PICK attempt : PrepareImport(c, b, tip, attempt)
  BY <1>5
<1>7. b \in Branches /\ run[c].heads[b] \in Oids
  <2>1. pc[c] \notin {"idle", "fetch_heads"}
    BY DEF BeginImport, RefetchSource
  <2>2. QED
    BY <1>3, <2>1 DEF RunRefs
<1> DEFINE head == run[c].heads[b]
           boundary == DestToSourceBoundary(have'[c], tip, head, b)
           pending == PendingCommits(boundary, head)
           k == [NoJob EXCEPT !.branch = b, !.attempt = attempt, !.tip = tip,
                     !.seen = head, !.boundary = boundary, !.chain = tip, !.pending = pending]
<1>8. boundary # NoOid /\ job' = [job EXCEPT ![c] = k]
  BY <1>2, <1>6 DEF PrepareImport
<1> HIDE DEF boundary, pending
<1>9. k.branch = b /\ k.chain = tip /\ k.pending = pending
  BY DEF NoJob
<1> HIDE DEF k
<1>10. job'[c] = k
  BY <1>1, <1>8
<1>11. QED
  BY <1>1, <1>7, <1>8, <1>9, <1>10 DEF Prepared, pending, boundary

LEMMA RunImports ==
    ASSUME SyncInv, NEW c \in Clones, StartRun(c) \/ Sync(c) \/ Crash(c)
    PROVE  \/ ReplayToSource(c)
           \/ Prepared(c)
           \/ pc'[c] # "import_build" /\ PlainWrite
<1>1. pc = [x \in Clones |-> pc[x]]
  BY DEF SyncInv, Table
<1>2. ASSUME NEW p, p # "import_build" PROVE [pc EXCEPT ![c] = p][c] # "import_build"
  BY <1>1, <1>2
<1>3. ASSUME \/ \E why : Abort(c, why)
             \/ \E halts : NextBranch(c, halts) \/ NextImport(c, halts)
      PROVE  pc'[c] # "import_build"
  BY <1>2, <1>3 DEF Abort, NextBranch, NextImport
<1>4. CASE BeginImport(c) \/ RefetchSource(c)
  BY <1>4, PrepareImportPrepares DEF PlainWrite
<1>5. CASE PlanBranch(c)
  <2>1. \/ \E why : Abort(c, why)
        \/ \E halts : NextBranch(c, halts)
        \/ \E v, reuse : PlanBuild(c, v, reuse)
    BY <1>5 DEF PlanBranch
  <2>2. ASSUME NEW v, NEW reuse, PlanBuild(c, v, reuse) PROVE pc'[c] # "import_build"
    BY <1>2, <2>2 DEF PlanBuild
  <2>3. QED
    BY <1>3, <1>5, <2>1, <2>2, PlanIsPlain
<1>6. CASE ReplayToDest(c) \/ SealToDest(c)
  <2>1. pc'[c] # "import_build"
    BY <1>1, <1>2, <1>3, <1>6 DEF ReplayToDest, SealToDest
  <2>2. QED
    BY <1>6, <2>1, BuildIsPlain
<1>7. CASE FetchHeads(c) \/ SkipImport(c) \/ NothingToPush(c) \/ PushToSource(c)
           \/ AdvanceLocalSourceBranch(c) \/ ReconstructMappingIndex(c)
           \/ StartRun(c) \/ Crash(c)
  BY <1>1, <1>2, <1>3, <1>7 DEF FetchHeads, SkipImport, NothingToPush, PushToSource,
     AdvanceLocalSourceBranch, ReconstructMappingIndex, StartRun, Crash, PlainWrite
<1>8. CASE SelectNextBranch(c) \/ FetchDest(c) \/ PushToDest(c) \/ PushRejected(c) \/ Finish(c)
  BY <1>1, <1>2, <1>3, <1>8 DEF SelectNextBranch, FetchDest, PushToDest, PushRejected, Finish,
     PlainWrite
<1>9. QED
  BY <1>4, <1>5, <1>6, <1>7, <1>8 DEF Sync

(* An import goes up the line: the commits still pending are above the one *)
(* that it is at, and nothing else comes between.                          *)
LEMMA ReplayImports ==
    ASSUME SyncInv, ImportInv, NEW c \in Clones, ReplayToSource(c)
    PROVE  ImportLog(odb') /\ Extends(odb, odb') /\ Due(odb', pc'[c], job'[c])
<1> DEFINE j == job[c]
           o == Head(j.pending)
           b == j.branch
           rest == Tail(j.pending)
           chain == j.chain
           Below(x) == {y \in ToSet(j.pending) : y <= x}
           Left(x) == {y \in ToSet(rest) : y <= x}
<1>1. /\ pc[c] = "import_build" /\ j.pending # <<>> /\ pc' = pc
      /\ j.pending \in Seq(Oids) /\ chain \in Oids /\ Oids \subseteq Nat
      /\ DOMAIN NoJob \subseteq DOMAIN j /\ job = [x \in Clones |-> job[x]]
      /\ ObjectDatabase(odb) /\ ImportLog(odb) /\ Due(odb, pc[c], j) /\ Oids = 1 .. Len(odb)
  <2>1. /\ pc[c] = "import_build" /\ j.pending # <<>> /\ pc' = pc /\ have[c] \subseteq Oids
        /\ JobRefs(have[c], pc[c], run[c], j)
    BY Untouched DEF ReplayToSource, CloneInv
  <2>2. j.pending \in Seq(have[c]) /\ chain \in have[c] /\ DOMAIN NoJob \subseteq DOMAIN j
    BY <2>1 DEF JobRefs
  <2>3. j.pending \in Seq(Oids)
    BY <2>1, <2>2, SeqMonotonic
  <2>4. QED
    BY <2>1, <2>2, <2>3 DEF SyncInv, ImportInv, Table, Oids
<1>2. /\ \A i, k \in DOMAIN j.pending : i < k => j.pending[i] < j.pending[k]
      /\ \A x \in ToSet(j.pending) : Fits(odb, x, chain, b, Below(x))
  BY <1>1 DEF Due
<1>3. /\ o \in Oids /\ o \in ToSet(j.pending) /\ ToSet(j.pending) = {o} \cup ToSet(rest)
      /\ ToSet(j.pending) \subseteq Oids
      /\ \A i, k \in DOMAIN rest : i < k => rest[i] < rest[k]
      /\ \A x \in ToSet(rest) : o < x
  <2>1. /\ o = j.pending[1] /\ Len(j.pending) \in Nat /\ Len(j.pending) >= 1
        /\ DOMAIN j.pending = 1 .. Len(j.pending)
    <3>1. Len(j.pending) \in Nat /\ DOMAIN j.pending = 1 .. Len(j.pending)
      BY <1>1, LenProperties
    <3>2. Len(j.pending) # 0 /\ o = j.pending[1]
      BY <1>1, EmptySeq, HeadTailProperties
    <3>3. QED
      BY <3>1, <3>2
  <2>2. /\ DOMAIN rest = 1 .. (Len(j.pending) - 1)
        /\ \A i \in DOMAIN rest : rest[i] = j.pending[i + 1]
    <3>1. /\ rest \in Seq(Oids) /\ Len(rest) = Len(j.pending) - 1
          /\ \A i \in 1 .. Len(rest) : rest[i] = j.pending[i + 1]
      BY <1>1, HeadTailProperties
    <3>2. DOMAIN rest = 1 .. Len(rest)
      BY <3>1, LenProperties
    <3>3. QED
      BY <3>1, <3>2
  <2> HIDE DEF o, rest, j
  <2>3. /\ \A i \in DOMAIN rest : i \in Nat /\ i + 1 \in DOMAIN j.pending /\ 1 < i + 1
        /\ \A i \in DOMAIN j.pending : i = 1 \/ i - 1 \in DOMAIN rest
        /\ 1 \in DOMAIN j.pending
        /\ \A i \in DOMAIN j.pending : i \in Nat /\ (i - 1) + 1 = i
    BY <2>1, <2>2
  <2>4. ToSet(j.pending) \subseteq {o} \cup ToSet(rest)
    <3>1. ASSUME NEW i \in DOMAIN j.pending PROVE j.pending[i] \in {o} \cup ToSet(rest)
      <4>1. CASE i = 1
        BY <2>1, <4>1
      <4>2. CASE i # 1
        <5>1. i - 1 \in DOMAIN rest /\ rest[i - 1] = j.pending[i]
          BY <2>2, <2>3, <3>1, <4>2
        <5>2. QED
          BY <5>1 DEF ToSet
      <4>3. QED
        BY <4>1, <4>2
    <3>2. QED
      BY <3>1 DEF ToSet
  <2>5. o \in ToSet(j.pending) /\ ToSet(rest) \subseteq ToSet(j.pending)
    <3>1. o \in ToSet(j.pending)
      BY <2>1, <2>3 DEF ToSet
    <3>2. ASSUME NEW i \in DOMAIN rest PROVE rest[i] \in ToSet(j.pending)
      <4>1. rest[i] = j.pending[i + 1] /\ i + 1 \in DOMAIN j.pending
        BY <2>2, <2>3
      <4>2. QED
        BY <4>1 DEF ToSet
    <3>3. QED
      BY <3>1, <3>2 DEF ToSet
  <2>6. ToSet(j.pending) \subseteq Oids
    <3>1. \A i \in 1 .. Len(j.pending) : j.pending[i] \in Oids
      BY <1>1, ElementOfSeq
    <3>2. QED
      BY <2>1, <3>1 DEF ToSet
  <2>7. ASSUME NEW i \in DOMAIN rest, NEW k \in DOMAIN rest, i < k PROVE rest[i] < rest[k]
    <3>1. i + 1 < k + 1
      BY <2>3, <2>7
    <3>2. QED
      BY <1>2, <2>2, <2>3, <3>1
  <2>8. \A i \in DOMAIN rest : o < rest[i]
    BY <1>2, <2>1, <2>2, <2>3
  <2>9. QED
    BY <2>4, <2>5, <2>6, <2>7, <2>8 DEF ToSet
<1>4. \A x \in ToSet(rest) : Below(x) = {o} \cup Left(x) /\ o \in Nat /\ x \in Nat
  BY <1>1, <1>3
<1>5. /\ Below(o) = {o} /\ Fits(odb, o, chain, b, {o})
  <2>1. Below(o) = {o}
    BY <1>1, <1>3
  <2>2. QED
    BY <1>2, <1>3, <2>1
<1> DEFINE skipped == [j EXCEPT !.pending = rest]
           stopped == [j EXCEPT !.pending = <<>>, !.conflict = o]
           longer == [j EXCEPT !.pending = rest, !.chain = NextOid]
<1>6. /\ skipped.pending = rest /\ skipped.chain = chain /\ skipped.branch = b
      /\ stopped.pending = <<>>
      /\ longer.pending = rest /\ longer.chain = NextOid /\ longer.branch = b
  BY <1>1 DEF NoJob
<1>7. \/ OwnMirror(o, b) /\ odb' = odb /\ job' = [job EXCEPT ![c] = skipped]
      \/ odb' = odb /\ job' = [job EXCEPT ![c] = stopped]
      \/ /\ \E tree : Write(<<chain>>, tree, Marker("DestToSource", b, o))
         /\ job' = [job EXCEPT ![c] = longer]
  BY DEF ReplayToSource
<1>8. /\ Extends(odb, odb) /\ pc'[c] = "import_build"
      /\ \A k : job' = [job EXCEPT ![c] = k] => job'[c] = k
  BY <1>1 DEF Extends, ObjectDatabase
<1> HIDE DEF skipped, stopped, longer, j, o, b, rest, chain
<1>9. CASE OwnMirror(o, b) /\ odb' = odb /\ job' = [job EXCEPT ![c] = skipped]
  <2>1. odb[o].marker # NoMarker
    BY <1>9 DEF OwnMirror, Verify, NoMarker
  <2>2. ASSUME NEW x \in ToSet(rest) PROVE Fits(odb, x, chain, b, Left(x))
    <3>1. Fits(odb, x, chain, b, {o} \cup Left(x))
      BY <1>2, <1>3, <1>4
    <3>2. o \notin Missing(odb, x, chain)
      BY <2>1 DEF Missing
    <3>3. QED
      BY <3>1, <3>2 DEF Fits
  <2>3. Due(odb, "import_build", skipped)
    BY <1>3, <1>6, <2>2 DEF Due
  <2>4. QED
    BY <1>1, <1>8, <1>9, <2>3
<1>10. CASE odb' = odb /\ job' = [job EXCEPT ![c] = stopped]
  <2>1. Due(odb, "import_build", stopped)
    BY <1>6 DEF Due, ToSet
  <2>2. QED
    BY <1>1, <1>8, <1>10, <2>1
<1>11. CASE /\ \E tree : Write(<<chain>>, tree, Marker("DestToSource", b, o))
            /\ job' = [job EXCEPT ![c] = longer]
  <2>1. PICK tree : Write(<<chain>>, tree, Marker("DestToSource", b, o))
    BY <1>11
  <2>2. /\ ImportLog(odb') /\ Extends(odb, odb')
        /\ Taken(odb', NextOid) = Taken(odb, chain) \cup {o}
        /\ Trail(odb', NextOid) = {NextOid} \cup Trail(odb, chain)
        /\ odb'[NextOid].anc = {NextOid} \cup odb[chain].anc
        /\ \A x : OfBranch(odb', NextOid, x) <=> x = b
    BY <1>1, <1>3, <1>5, <2>1, LogImportWrite
  <2>3. /\ odb'[NextOid].marker.counterpart = o
        /\ \A x \in Oids : odb'[x] = odb[x] /\ Trail(odb', x) = Trail(odb, x)
    <3>1. odb'[NextOid].marker = Marker("DestToSource", b, o)
      BY <1>1, <2>1, WriteAppends
    <3>2. \A x \in Oids : odb'[x] = odb[x]
      BY <1>1, <2>2 DEF Extends
    <3>3. QED
      BY <3>1, <3>2 DEF Marker, Trail
  <2>4. ASSUME NEW x \in ToSet(rest) PROVE Fits(odb', x, NextOid, b, Left(x))
    <3>1. /\ Fits(odb, x, chain, b, {o} \cup Left(x)) /\ x \in Oids /\ o < x
          /\ Fits(odb', x, chain, b, {o} \cup Left(x))
      <4>1. Fits(odb, x, chain, b, {o} \cup Left(x)) /\ x \in Oids /\ o < x
        BY <1>2, <1>3, <1>4
      <4>2. QED
        BY <1>1, <2>2, <4>1, LogKept
    <3>2. x \notin Trail(odb, o)
      <4>1. Trail(odb, o) \subseteq 1 .. o
        BY <1>1, <1>3, TrailInHistory
      <4>2. QED
        BY <1>1, <1>3, <3>1, <4>1
    <3>3. NewTo(odb', x, NextOid, b)
      <4>1. ASSUME NEW m \in Trail(odb', NextOid), OfBranch(odb', m, b)
            PROVE  x \notin Trail(odb', odb'[m].marker.counterpart)
        <5>1. CASE m = NextOid
          BY <1>3, <2>3, <3>2, <5>1
        <5>2. CASE m \in Trail(odb, chain)
          <6>1. m \in Trail(odb', chain)
            BY <1>1, <2>3, <5>2
          <6>2. NewTo(odb', x, chain, b)
            BY <3>1 DEF Fits
          <6>3. QED
            BY <4>1, <6>1, <6>2 DEF NewTo
        <5>3. QED
          BY <2>2, <4>1, <5>1, <5>2
      <4>2. QED
        BY <4>1 DEF NewTo
    <3>4. Missing(odb', x, NextOid) \subseteq Missing(odb, x, chain)
      <4>1. /\ Trail(odb', x) = Trail(odb, x) /\ Trail(odb, x) \subseteq Oids
            /\ \A y \in Oids : odb'[y] = odb[y]
        BY <1>1, <2>3, <3>1, TrailInHistory
      <4>2. QED
        BY <2>2, <4>1 DEF Missing
    <3>5. QED
      BY <2>2, <3>1, <3>3, <3>4 DEF Fits
  <2>5. Due(odb', "import_build", longer)
    BY <1>3, <1>6, <2>4 DEF Due
  <2>6. QED
    BY <1>8, <1>11, <2>2, <2>5
<1>12. QED
  BY <1>7, <1>9, <1>10, <1>11

(* Initially the graft stands for the first commit, and there is no import. *)
LEMMA FallingLines ==
    /\ ToSet(<<>>) = {}
    /\ \A a : ToSet(<<a>>) = {a} /\ \A i, k \in DOMAIN <<a>> : ~ (i < k)
    /\ \A a, b \in Nat : b < a =>
          /\ ToSet(<<a, b>>) = {a, b}
          /\ \A i, k \in DOMAIN <<a, b>> : i < k => <<a, b>>[k] < <<a, b>>[i]
    /\ \A a, b, d \in Nat : b < a /\ d < b =>
          /\ ToSet(<<a, b, d>>) = {a, b, d}
          /\ \A i, k \in DOMAIN <<a, b, d>> : i < k => <<a, b, d>>[k] < <<a, b, d>>[i]
<1>1. ToSet(<<>>) = {}
  BY DEF ToSet
<1>2. ASSUME NEW a PROVE ToSet(<<a>>) = {a} /\ \A i, k \in DOMAIN <<a>> : ~ (i < k)
  BY DEF ToSet
<1>3. ASSUME NEW a \in Nat, NEW b \in Nat, b < a
      PROVE  /\ ToSet(<<a, b>>) = {a, b}
             /\ \A i, k \in DOMAIN <<a, b>> : i < k => <<a, b>>[k] < <<a, b>>[i]
  <2>1. DOMAIN <<a, b>> = {1, 2} /\ <<a, b>>[1] = a /\ <<a, b>>[2] = b
    OBVIOUS
  <2>2. QED
    BY <1>3, <2>1 DEF ToSet
<1>4. ASSUME NEW a \in Nat, NEW b \in Nat, NEW d \in Nat, b < a, d < b
      PROVE  /\ ToSet(<<a, b, d>>) = {a, b, d}
             /\ \A i, k \in DOMAIN <<a, b, d>> : i < k => <<a, b, d>>[k] < <<a, b, d>>[i]
  <2> DEFINE s == <<a, b, d>>
  <2>1. DOMAIN s = {1, 2, 3} /\ s[1] = a /\ s[2] = b /\ s[3] = d /\ d < a
    BY <1>4
  <2> HIDE DEF s
  <2>2. ToSet(s) = {a, b, d}
    BY <2>1 DEF ToSet
  <2>3. \A i, k \in DOMAIN s : i < k => s[k] < s[i]
    BY <1>4, <2>1
  <2>4. QED
    BY <2>2, <2>3 DEF s
<1>5. QED
  BY <1>1, <1>2, <1>3, <1>4

LEMMA InitialLog ==
    ASSUME NEW db, NEW g \in 1 .. Len(db), db[g].marker = SetupMarker, 1 \in 1 .. Len(db),
           db[1].line = << 1 >>, 1 \in db[g].anc,
           \A i \in 1 .. Len(db) : i # g => ~ Looped(db, i),
           \A o \in 1 .. Len(db) : Trail(db, o) \subseteq 1 .. Len(db) /\ Straight(db, o)
    PROVE  ImportLog(db)
<1>1. SetupMarker.counterpart = 1
  BY DEF SetupMarker, Marker
<1>2. Trail(db, 1) = {1}
  BY FallingLines DEF Trail
<1>3. Missing(db, 1, g) = {}
  BY <1>2 DEF Missing
<1>4. \A x \in Trail(db, g) \ {g} : \A b : ~ OfBranch(db, x, b)
  BY DEF OfBranch, Looped
<1>5. InOrder(db, g)
  BY <1>1, <1>3, <1>4 DEF InOrder
<1>6. \A o \in 1 .. Len(db) : InOrder(db, o)
  BY <1>5 DEF InOrder
<1>7. QED
  BY <1>6 DEF ImportLog

LEMMA ImportInit == Init => ImportInv
<1> SUFFICES ASSUME Init PROVE ImportInv
  OBVIOUS
<1>1. PICK origin \in Origins :
        odb = Histories[origin] /\ pc = [c \in Clones |-> "idle"]
  BY DEF Init
<1>2. /\ origin \in {"graft", "merge", "orphan", "mirrored"}
      /\ NoMarker.dir = "None" /\ SetupMarker.dir = "Setup"
      /\ \A b, x : Marker("SourceToDest", b, x).dir = "SourceToDest"
  BY HistoryAssumption DEF Histories, NoMarker, SetupMarker, Marker
<1>3. ASSUME NEW o PROVE Looped(odb, o) => odb[o].marker.dir \in {"Setup", "DestToSource"}
  BY DEF Looped
<1>4. \A s : s = <<1>> => ToSet(s) = {1} /\ \A i, k \in DOMAIN s : ~ (i < k)
  BY FallingLines
<1>5. \A s : s = <<3>> => ToSet(s) = {3} /\ \A i, k \in DOMAIN s : ~ (i < k)
  BY FallingLines
<1>6. \A s : s = <<4>> => ToSet(s) = {4} /\ \A i, k \in DOMAIN s : ~ (i < k)
  BY FallingLines
<1>7. \A s : s = <<2, 1>> => ToSet(s) = {2, 1} /\ \A i, k \in DOMAIN s : i < k => s[k] < s[i]
  BY FallingLines
<1>8. \A s : s = <<4, 1>> => ToSet(s) = {4, 1} /\ \A i, k \in DOMAIN s : i < k => s[k] < s[i]
  BY FallingLines
<1>9. \A s : s = <<3, 2, 1>> =>
        ToSet(s) = {3, 2, 1} /\ \A i, k \in DOMAIN s : i < k => s[k] < s[i]
  BY FallingLines
<1>10. ImportLog(odb)
  <2>1. CASE origin = "graft"
    <3>1. Len(odb) = 2 /\ 1 .. Len(odb) = {1, 2} /\ 1 \in odb[2].anc
      <4>1. odb = Histories.graft
        BY <1>1, <2>1
      <4>2. 1 .. 2 = {1, 2}
        OBVIOUS
      <4>3. QED
        BY <4>1, <4>2, GraftHistory
    <3>2. /\ odb[1].marker = NoMarker /\ odb[2].marker = SetupMarker
          /\ odb[1].line = <<1>> /\ odb[2].line = <<2, 1>>
      BY <1>1, <2>1 DEF Histories, Root, Child
    <3>3. Trail(odb, 1) = {1} /\ Trail(odb, 2) = {2, 1}
      BY <1>4, <1>7, <3>2 DEF Trail
    <3>4. Straight(odb, 1) /\ Straight(odb, 2)
      BY <1>4, <1>7, <3>2, <3>3 DEF Straight
    <3>5. \A i \in 1 .. Len(odb) : i # 2 => ~ Looped(odb, i)
      BY <1>2, <3>1, <3>2 DEF Looped
    <3>6. \A o \in 1 .. Len(odb) : Trail(odb, o) \subseteq 1 .. Len(odb) /\ Straight(odb, o)
      BY <3>1, <3>3, <3>4
    <3>7. QED
      BY <3>1, <3>2, <3>5, <3>6, InitialLog
  <2>2. CASE origin = "merge"
    <3>1. Len(odb) = 3 /\ 1 .. Len(odb) = {1, 2, 3} /\ 1 \in odb[3].anc
      <4>1. odb = Histories.merge
        BY <1>1, <2>2
      <4>2. 1 .. 3 = {1, 2, 3}
        OBVIOUS
      <4>3. QED
        BY <4>1, <4>2, MergeHistory
    <3>2. /\ odb[1].marker = NoMarker /\ odb[2].marker = NoMarker
          /\ odb[3].marker = SetupMarker
          /\ odb[1].line = <<1>> /\ odb[2].line = <<2, 1>> /\ odb[3].line = <<3, 2, 1>>
      BY <1>1, <2>2 DEF Histories, Root, Child
    <3>3. Trail(odb, 1) = {1} /\ Trail(odb, 2) = {2, 1} /\ Trail(odb, 3) = {3, 2, 1}
      BY <1>4, <1>7, <1>9, <3>2 DEF Trail
    <3>4. Straight(odb, 1) /\ Straight(odb, 2) /\ Straight(odb, 3)
      BY <1>4, <1>7, <1>9, <3>2, <3>3 DEF Straight
    <3>5. \A i \in 1 .. Len(odb) : i # 3 => ~ Looped(odb, i)
      BY <1>2, <3>1, <3>2 DEF Looped
    <3>6. \A o \in 1 .. Len(odb) : Trail(odb, o) \subseteq 1 .. Len(odb) /\ Straight(odb, o)
      BY <3>1, <3>3, <3>4
    <3>7. QED
      BY <3>1, <3>2, <3>5, <3>6, InitialLog
  <2>3. CASE origin = "orphan"
    <3>1. Len(odb) = 4 /\ 1 .. Len(odb) = {1, 2, 3, 4} /\ 1 \in odb[2].anc
      <4>1. odb = Histories.orphan
        BY <1>1, <2>3
      <4>2. 1 .. 4 = {1, 2, 3, 4}
        OBVIOUS
      <4>3. QED
        BY <4>1, <4>2, OrphanHistory
    <3>2. /\ odb[1].marker = NoMarker /\ odb[2].marker = SetupMarker
          /\ odb[3].marker = NoMarker /\ odb[4].marker = NoMarker
          /\ odb[1].line = <<1>> /\ odb[2].line = <<2, 1>>
          /\ odb[3].line = <<3>> /\ odb[4].line = <<4>>
      BY <1>1, <2>3 DEF Histories, Root, Child
    <3>3. /\ Trail(odb, 1) = {1} /\ Trail(odb, 2) = {2, 1}
          /\ Trail(odb, 3) = {3} /\ Trail(odb, 4) = {4}
      BY <1>4, <1>5, <1>6, <1>7, <3>2 DEF Trail
    <3>4. Straight(odb, 1) /\ Straight(odb, 2) /\ Straight(odb, 3) /\ Straight(odb, 4)
      BY <1>4, <1>5, <1>6, <1>7, <3>2, <3>3 DEF Straight
    <3>5. \A i \in 1 .. Len(odb) : i # 2 => ~ Looped(odb, i)
      BY <1>2, <3>1, <3>2 DEF Looped
    <3>6. \A o \in 1 .. Len(odb) : Trail(odb, o) \subseteq 1 .. Len(odb) /\ Straight(odb, o)
      BY <3>1, <3>3, <3>4
    <3>7. QED
      BY <3>1, <3>2, <3>5, <3>6, InitialLog
  <2>4. CASE origin = "mirrored"
    <3>1. Len(odb) = 4 /\ 1 .. Len(odb) = {1, 2, 3, 4} /\ 1 \in odb[2].anc
      <4>1. odb = Histories.mirrored
        BY <1>1, <2>4
      <4>2. 1 .. 4 = {1, 2, 3, 4} /\ 1 \in 1 .. 2
        OBVIOUS
      <4>3. QED
        BY <4>1, <4>2, MirroredHistory
    <3>2. /\ odb[1].marker = NoMarker /\ odb[2].marker = SetupMarker
          /\ odb[3].marker = NoMarker /\ odb[4].marker = Marker("SourceToDest", Other, 3)
          /\ odb[1].line = <<1>> /\ odb[2].line = <<2, 1>>
          /\ odb[3].line = <<3, 2, 1>> /\ odb[4].line = <<4, 1>>
      BY <1>1, <2>4 DEF Histories, Root, Child
    <3>3. /\ Trail(odb, 1) = {1} /\ Trail(odb, 2) = {2, 1}
          /\ Trail(odb, 3) = {3, 2, 1} /\ Trail(odb, 4) = {4, 1}
      BY <1>4, <1>7, <1>8, <1>9, <3>2 DEF Trail
    <3>4. Straight(odb, 1) /\ Straight(odb, 2) /\ Straight(odb, 3) /\ Straight(odb, 4)
      BY <1>4, <1>7, <1>8, <1>9, <3>2, <3>3 DEF Straight
    <3>5. \A i \in 1 .. Len(odb) : i # 2 => ~ Looped(odb, i)
      BY <1>2, <3>1, <3>2 DEF Looped
    <3>6. \A o \in 1 .. Len(odb) : Trail(odb, o) \subseteq 1 .. Len(odb) /\ Straight(odb, o)
      BY <3>1, <3>3, <3>4
    <3>7. QED
      BY <3>1, <3>2, <3>5, <3>6, InitialLog
  <2>5. QED
    BY <1>2, <2>1, <2>2, <2>3, <2>4
<1>11. \A c \in Clones : Due(odb, pc[c], job[c])
  BY <1>1 DEF Due
<1>12. QED
  BY <1>10, <1>11 DEF ImportInv

(* A step of a run: a run that begins to import takes the boundary that it *)
(* has just looked up, and only the replay of an import adds to the log.   *)
LEMMA RunKeepsImports ==
    ASSUME SyncInv, ImportInv, NEW c \in Clones, StartRun(c) \/ Sync(c) \/ Crash(c)
    PROVE  ImportInv' /\ Extends(odb, odb')
<1>1. ObjectDatabase(odb) /\ ImportLog(odb)
  BY DEF SyncInv, ImportInv
<1>2. \A d \in Clones \ {c} : pc'[d] = pc[d] /\ job'[d] = job[d]
  BY OthersGoOn
<1>3. ImportLog(odb') /\ Extends(odb, odb') /\ Due(odb', pc'[c], job'[c])
  <2>1. CASE ReplayToSource(c)
    BY <2>1, ReplayImports
  <2>2. CASE Prepared(c)
    <3>1. PICK b \in Branches, tip \in Oids, head \in Oids : \E H, boundary :
            /\ boundary = DestToSourceBoundary(H, tip, head, b) /\ boundary # NoOid
            /\ job'[c].branch = b /\ job'[c].chain = tip
            /\ job'[c].pending = PendingCommits(boundary, head)
      BY <2>2 DEF Prepared
    <3>2. PICK H, boundary :
            /\ boundary = DestToSourceBoundary(H, tip, head, b) /\ boundary # NoOid
            /\ job'[c].branch = b /\ job'[c].chain = tip
            /\ job'[c].pending = PendingCommits(boundary, head)
      BY <3>1
    <3>3. odb' = odb /\ Extends(odb, odb') /\ ImportLog(odb')
      BY <1>1, <2>2 DEF Prepared, Extends, ObjectDatabase
    <3>4. Due(odb, "import_build", job'[c])
      BY <1>1, <3>2, PendingDue
    <3>5. Due(odb', pc'[c], job'[c])
      BY <3>3, <3>4 DEF Due
    <3>6. QED
      BY <3>3, <3>5
  <2>3. CASE pc'[c] # "import_build" /\ PlainWrite
    BY <1>1, <2>3, LogStep DEF Due
  <2>4. QED
    BY <2>1, <2>2, <2>3, RunImports
<1>4. QED
  BY <1>2, <1>3, ImportStep

(* Nothing else writes an import: the runs go on with what they have.      *)
LEMMA RunsKeepImports ==
    ASSUME SyncInv, ImportInv, ImportLog(odb'), Extends(odb, odb'), pc' = pc, job' = job
    PROVE  ImportInv'
<1>1. ObjectDatabase(odb) /\ ImportLog(odb)
  BY DEF SyncInv, ImportInv
<1>2. ASSUME NEW c \in Clones PROVE Due(odb', pc'[c], job'[c])
  <2>1. Closed(odb, have[c]) /\ JobRefs(have[c], pc[c], run[c], job[c]) /\ Due(odb, pc[c], job[c])
    BY Untouched DEF CloneInv, ImportInv
  <2>2. QED
    BY <1>1, <2>1, DueKept
<1>3. QED
  BY <1>2 DEF ImportInv

LEMMA ImportNext == SyncInv /\ ImportInv /\ [Next]_vars => ImportInv'
<1> SUFFICES ASSUME SyncInv, ImportInv, [Next]_vars PROVE ImportInv'
  OBVIOUS
<1>1. CASE \E c \in Clones : StartRun(c) \/ Sync(c) \/ Crash(c)
  BY <1>1, RunKeepsImports
<1>2. CASE Environment
  <2>1. ImportLog(odb') /\ Extends(odb, odb') /\ pc' = pc /\ job' = job
    BY <1>2, EnvironmentIsPlain, EnvironmentKeepsRuns, LogStep DEF SyncInv, ImportInv
  <2>2. QED
    BY <2>1, RunsKeepImports
<1>3. CASE UNCHANGED vars
  BY <1>3 DEF vars, ImportInv
<1>4. QED
  BY <1>1, <1>2, <1>3 DEF Next

LEMMA ImportInvariant == Spec => [](SyncInv /\ ImportInv)
<1>1. Init => SyncInv /\ ImportInv
  BY InitSyncInv, ImportInit
<1>2. SyncInv /\ ImportInv /\ [Next]_vars => (SyncInv /\ ImportInv)'
  BY NextSyncInv, ImportNext
<1>3. QED
  BY <1>1, <1>2, PTL DEF Spec

LEMMA LogImportsOnce == SyncInv /\ ImportInv => ImportedOnce
<1> SUFFICES ASSUME SyncInv, ImportInv, NEW b \in Branches, src[b] # NoOid,
                    NEW o \in Anc(src[b]), NEW x \in Anc(src[b]),
                    OnLine(o, src[b]), VerifySelf(o, {"DestToSource"}),
                    OnLine(x, src[b]), VerifySelf(x, {"DestToSource"}),
                    odb[o].marker = odb[x].marker
             PROVE  o = x
  BY DEF ImportedOnce
<1>1. /\ src[b] \in Oids /\ Oids = 1 .. Len(odb) /\ ObjectDatabase(odb) /\ Len(odb) \in Nat
      /\ \A y \in Oids : Straight(odb, y) /\ InOrder(odb, y)
  BY DEF SyncInv, Oid0, Oids, NoOid, ImportInv, ImportLog, ObjectDatabase
<1>2. o \in Trail(odb, src[b]) /\ x \in Trail(odb, src[b]) /\ o \in Nat /\ x \in Nat
      /\ o \in Oids /\ x \in Oids
  <2>1. o \in Trail(odb, src[b]) /\ x \in Trail(odb, src[b])
    BY DEF OnLine, Line, Trail, ToSet
  <2>2. QED
    BY <1>1, <2>1, TrailInHistory
<1>3. ASSUME NEW y \in Trail(odb, src[b]), NEW z \in Trail(odb, src[b]), y \in Nat, z \in Nat,
             y \in Oids, z \in Oids, y < z, odb[y].marker = odb[z].marker,
             VerifySelf(y, {"DestToSource"}), VerifySelf(z, {"DestToSource"})
      PROVE  FALSE
  <2> DEFINE named == odb[z].marker.counterpart
             branch == odb[z].marker.branch
  <2>1. Looped(odb, z) /\ OfBranch(odb, z, branch) /\ OfBranch(odb, y, branch)
    BY <1>3 DEF Looped, OfBranch, VerifySelf
  <2>2. y \in Trail(odb, z) \ {z}
    BY <1>1, <1>3 DEF Straight
  <2>3. named \in Oids /\ named \notin Trail(odb, odb[y].marker.counterpart)
    BY <1>1, <1>3, <2>1, <2>2 DEF InOrder
  <2>4. named \in Trail(odb, named)
    BY <1>1, <2>3 DEF Straight
  <2>5. QED
    BY <1>3, <2>3, <2>4
<1>4. o < x \/ x < o \/ o = x
  BY <1>2
<1>5. QED
  BY <1>2, <1>3, <1>4

(***************************************************************************)
(* No branch of the source remote imports a dest commit twice for one dest *)
(* branch, whoever else pushes there, whatever races a run loses and       *)
(* wherever it is cut off: a run starts above what the newest import on    *)
(* the tip that it builds on stands for (marker_scan.rs), and dest's line  *)
(* cannot be left but for one that goes on from there.                     *)
(***************************************************************************)
THEOREM ImportedOnceHolds == Spec => []ImportedOnce
<1>1. Spec => [](SyncInv /\ ImportInv)
  BY ImportInvariant
<1>2. SyncInv /\ ImportInv => ImportedOnce
  BY LogImportsOnce
<1>3. QED
  BY <1>1, <1>2, PTL

(***************************************************************************)
(* From the plan of a branch to its push: what can happen to a run that    *)
(* plans, replays or seals a branch, whatever everybody else does.         *)
(***************************************************************************)
LEMMA NextExtends == SyncInv /\ [Next]_vars => Extends(odb, odb')
<1> SUFFICES ASSUME SyncInv, [Next]_vars PROVE Extends(odb, odb')
  OBVIOUS
<1>1. ObjectDatabase(odb) /\ Len(odb) \in Nat
  BY DEF SyncInv, ObjectDatabase
<1>2. CASE odb' = odb
  BY <1>1, <1>2 DEF Extends
<1>3. ASSUME NEW parents, NEW tree, NEW marker, Write(parents, tree, marker)
      PROVE  Extends(odb, odb')
  BY <1>1, <1>3, WriteAppends
<1>4. CASE UNCHANGED vars
  BY <1>2, <1>4 DEF vars
<1>5. CASE Environment
  BY <1>2, <1>3, <1>5, EnvironmentWrites
<1>6. ASSUME NEW c \in Clones, StartRun(c) \/ Sync(c) \/ Crash(c)
      PROVE  Extends(odb, odb')
  BY <1>2, <1>3, <1>6, RunWrites
<1>7. QED
  BY <1>4, <1>5, <1>6 DEF Next

Building == {"plan", "build", "push_dest"}

(* Only its own steps change what a run has in hand. *)
LEMMA OthersKeepOut ==
    ASSUME SyncInv, NEW c \in Clones, NEW d \in Clones, c # d,
           StartRun(d) \/ Sync(d) \/ Crash(d)
    PROVE  pc'[c] = pc[c] /\ run'[c] = run[c] /\ job'[c] = job[c]
<1>0. DOMAIN pc = Clones /\ DOMAIN run = Clones /\ DOMAIN job = Clones
  BY DEF SyncInv, Table
<1>1. CASE StartRun(d) \/ Crash(d) \/ Finish(d) \/ FetchHeads(d) \/ SkipImport(d)
  BY <1>0, <1>1 DEF StartRun, Crash, Finish, FetchHeads, SkipImport, NextImport, Abort
<1>2. CASE BeginImport(d) \/ RefetchSource(d) \/ NothingToPush(d) \/ AdvanceLocalSourceBranch(d)
  BY <1>0, <1>2 DEF BeginImport, RefetchSource, PrepareImport, NothingToPush,
     AdvanceLocalSourceBranch, NextImport, Abort
<1>3. CASE ReplayToSource(d) \/ PushToSource(d) \/ ReconstructMappingIndex(d) \/ SelectNextBranch(d)
  BY <1>0, <1>3 DEF ReplayToSource, PushToSource, ReconstructMappingIndex, SelectNextBranch, Abort
<1>4. CASE FetchDest(d) \/ ReplayToDest(d)
  BY <1>0, <1>4 DEF FetchDest, ReplayToDest, NextBranch, Abort
<1>5. CASE PlanBranch(d)
  BY <1>0, <1>5 DEF PlanBranch, PlanBuild, NextBranch, Abort
<1>6. CASE SealToDest(d)
  BY <1>0, <1>6 DEF SealToDest, NextBranch, Abort
<1>7. CASE PushToDest(d) \/ PushRejected(d)
  BY <1>0, <1>7 DEF PushToDest, PushRejected, NextBranch, Abort
<1>8. QED
  BY <1>1, <1>2, <1>3, <1>4, <1>5, <1>6, <1>7 DEF Sync

LEMMA NextIsOwnOrQuiet ==
    ASSUME SyncInv, [Next]_vars, NEW c \in Clones
    PROVE  \/ StartRun(c) \/ Sync(c) \/ Crash(c)
           \/ pc'[c] = pc[c] /\ run'[c] = run[c] /\ job'[c] = job[c]
<1>1. CASE UNCHANGED vars
  BY <1>1 DEF vars
<1>2. CASE Environment
  BY <1>2, EnvironmentKeepsRuns
<1>3. ASSUME NEW d \in Clones, StartRun(d) \/ Sync(d) \/ Crash(d)
      PROVE  \/ StartRun(c) \/ Sync(c) \/ Crash(c)
             \/ pc'[c] = pc[c] /\ run'[c] = run[c] /\ job'[c] = job[c]
  BY <1>3, OthersKeepOut
<1>4. QED
  BY <1>1, <1>2, <1>3 DEF Next

(* How a run comes to be at, or stays at, a step between plan and push. *)
LEMMA BuildingStep ==
    ASSUME SyncInv, [Next]_vars, NEW c \in Clones, pc'[c] \in Building
    PROVE  \/ pc'[c] = pc[c] /\ run'[c] = run[c] /\ job'[c] = job[c]
           \/ FetchDest(c) /\ pc'[c] = "plan" /\ odb' = odb
           \/ PlanBranch(c) /\ pc[c] = "plan" /\ pc'[c] = "build"
           \/ ReplayToDest(c) /\ pc[c] = "build" /\ pc'[c] = "build" /\ run' = run
           \/ SealToDest(c) /\ pc[c] = "build" /\ pc'[c] = "push_dest" /\ run' = run
<1>0. c \in DOMAIN pc
  BY DEF SyncInv, Table
<1>1. CASE pc'[c] = pc[c] /\ run'[c] = run[c] /\ job'[c] = job[c]
  BY <1>1
<1>2. ASSUME \/ StartRun(c) \/ Crash(c) \/ Finish(c) \/ FetchHeads(c) \/ SkipImport(c)
             \/ BeginImport(c) \/ RefetchSource(c) \/ NothingToPush(c)
             \/ AdvanceLocalSourceBranch(c)
      PROVE  FALSE
  BY <1>0, <1>2 DEF StartRun, Crash, Finish, FetchHeads, SkipImport, BeginImport, RefetchSource,
     PrepareImport, NothingToPush, AdvanceLocalSourceBranch, NextImport, Abort, Building
<1>3. ASSUME \/ ReplayToSource(c) \/ PushToSource(c) \/ ReconstructMappingIndex(c)
             \/ SelectNextBranch(c) \/ PushToDest(c) \/ PushRejected(c)
      PROVE  FALSE
  BY <1>0, <1>3 DEF ReplayToSource, PushToSource, ReconstructMappingIndex, SelectNextBranch,
     PushToDest, PushRejected, NextBranch, Abort, Building
<1>4. CASE FetchDest(c)
  BY <1>0, <1>4 DEF FetchDest, NextBranch, Abort, Building
<1>5. CASE PlanBranch(c)
  <2>1. pc[c] = "plan" /\ \/ \E why : Abort(c, why)
                          \/ \E halts : NextBranch(c, halts)
                          \/ pc' = [pc EXCEPT ![c] = "build"]
    BY <1>5 DEF PlanBranch, PlanBuild
  <2>2. QED
    BY <1>0, <1>5, <2>1 DEF NextBranch, Abort, Building
<1>6. CASE ReplayToDest(c)
  BY <1>0, <1>6 DEF ReplayToDest
<1>7. CASE SealToDest(c)
  BY <1>0, <1>7 DEF SealToDest, NextBranch, Abort, Building
<1>8. QED
  BY <1>1, <1>2, <1>3, <1>4, <1>5, <1>6, <1>7, NextIsOwnOrQuiet DEF Sync

(* What PlanBranch works out when it decides to build. *)
Decides(c, pending, newest, plan) ==
    /\ Resume(c).do = "build" /\ plan.do = "build"
    /\ pending = PendingCommits(Resume(c).boundary, job[c].tip)
    /\ newest = NewestShared(have[c], run[c].index, pending, Resume(c).base)
    /\ plan = Plan(c, Resume(c), pending, newest)
    /\ PlanBuild(c, Resume(c), plan.reuse)

LEMMA BuildIsDecided ==
    ASSUME SyncInv, NEW c \in Clones, PlanBranch(c), pc'[c] = "build"
    PROVE  /\ pc[c] = "plan" /\ run' = run
           /\ \E pending, newest, plan : Decides(c, pending, newest, plan)
<1>1. PICK v, pending, newest, plan :
         /\ v = Resume(c)
         /\ pending = (IF v.do = "build" THEN PendingCommits(v.boundary, job[c].tip) ELSE <<>>)
         /\ newest = NewestShared(have[c], run[c].index, pending, v.base)
         /\ plan = Plan(c, v, pending, newest)
         /\ \/ plan.do = "abort" /\ Abort(c, "resume")
            \/ plan.do = "halt" /\ NextBranch(c, {job[c].branch})
            \/ plan.do = "skip" /\ NextBranch(c, {})
            \/ plan.do = "build" /\ PlanBuild(c, v, plan.reuse)
  BY DEF PlanBranch
<1>2. c \in DOMAIN pc
  BY DEF SyncInv, Table
<1>3. plan.do = "build" /\ PlanBuild(c, v, plan.reuse)
  BY <1>1, <1>2 DEF Abort, NextBranch
<1>4. v.do = "build"
  BY <1>1, <1>3 DEF Plan
<1>5. run' = run
  BY <1>3 DEF PlanBuild
<1>6. Decides(c, pending, newest, plan)
  BY <1>1, <1>3, <1>4 DEF Decides
<1>7. QED
  BY <1>5, <1>6 DEF PlanBranch

LEMMA PlannedJob ==
    ASSUME SyncInv, NEW c \in Clones, NEW v, NEW reuse, PlanBuild(c, v, reuse)
    PROVE  LET j == job[c]
               k == job'[c]
           IN  /\ k.branch = j.branch /\ k.tip = j.tip /\ k.seen = j.seen
               /\ k.built = j.built /\ k.conflict = j.conflict
               /\ k.boundary = v.boundary /\ k.base = v.base /\ k.mode = v.mode
               /\ k.chain = IF reuse.kind = "Bridge" THEN NextOid
                            ELSE IF reuse.kind = "FastForward" THEN reuse.projection
                            ELSE v.base
               /\ k.pending = PendingCommits(IF reuse.kind = "Replay" THEN v.boundary
                                             ELSE reuse.shared, j.tip)
               /\ k.shared = reuse.shared
               /\ k.advertised = IF v.mode = "ForceMirrorOnly" THEN src[j.branch] ELSE NoOid
<1>1. DOMAIN NoJob \subseteq DOMAIN job[c] /\ c \in DOMAIN job
  BY DEF SyncInv, CloneInv, JobRefs, Table
<1>2. QED
  BY <1>1 DEF PlanBuild, NoJob

(***************************************************************************)
(* Dest is rebuilt by force only after a rewrite at source.                *)
(***************************************************************************)

(* The newest source commit that o's line names for branch, in db. *)
Naming(db, o, branch) ==
    {i \in 1 .. Len(db[o].line) : /\ db[db[o].line[i]].marker.dir = "SourceToDest"
                                  /\ db[db[o].line[i]].marker.branch = branch}
NewestNamed(db, o, branch) ==
    IF Naming(db, o, branch) = {} THEN NoOid
    ELSE db[db[o].line[Min(Naming(db, o, branch))]].marker.counterpart

LEMMA MarkerIsNamed ==
    ASSUME ObjectDatabase(odb), NEW o \in Oids, NEW branch
    PROVE  NewestSourceMarker(o, branch) = NewestNamed(odb, o, branch)
<1>1. Line(o) \in Seq(Anc(o)) /\ Anc(o) \subseteq Oids /\ NoOid \notin Oids
  <2>1. Line(o) \in Seq(Anc(o)) /\ Anc(o) \subseteq Oids
    BY CommitFacts
  <2>2. NoOid \notin Oids
    BY DEF Oids, NoOid
  <2>3. QED
    BY <2>1, <2>2
<1> DEFINE I == {i \in 1 .. Len(Line(o)) : Verify(Line(o)[i], branch, {"SourceToDest"})}
           first == IF I # {} THEN Min(I) ELSE 0
<1>2. I = Naming(odb, o, branch)
  BY DEF Verify, Naming, Line
<1>3. NewestSourceMarker(o, branch) =
         LET m == IF first = 0 THEN NoOid ELSE Line(o)[first]
         IN  IF m = NoOid THEN NoOid ELSE Counterpart(m)
  BY DEF NewestSourceMarker, Newest, SelectInSeq
<1>4. CASE I = {}
  BY <1>2, <1>3, <1>4 DEF NewestNamed
<1>5. CASE I # {}
  <2>1. first \in I /\ first = Min(I) /\ first # 0
    <3>1. I \subseteq Nat
      BY <1>1
    <3>2. Min(I) \in I
      BY <1>5, <3>1, LeastNatural
    <3>3. QED
      BY <1>1, <1>5, <3>2
  <2>2. Line(o)[first] \in Oids
    BY <1>1, <2>1
  <2> HIDE DEF first, I
  <2>3. NewestSourceMarker(o, branch) = Counterpart(Line(o)[first])
    BY <1>1, <1>3, <2>1, <2>2
  <2>4. QED
    BY <1>2, <1>5, <2>1, <2>3 DEF NewestNamed, Counterpart, Line
<1>6. QED
  BY <1>4, <1>5

(* What a commit's line says never changes. *)
LEMMA NamedKept ==
    ASSUME NEW db, NEW larger, ObjectDatabase(db), Extends(db, larger),
           NEW o \in 1 .. Len(db), NEW branch
    PROVE  NewestNamed(larger, o, branch) = NewestNamed(db, o, branch)
<1>1. larger[o] = db[o] /\ db[o].line \in Seq(1 .. o) /\ o \in Nat /\ Len(db) \in Nat
  BY DEF ObjectDatabase, WellFormed, Extends
<1>2. \A i \in 1 .. Len(db[o].line) : larger[db[o].line[i]] = db[db[o].line[i]]
  <2>1. \A i \in 1 .. Len(db[o].line) : db[o].line[i] \in 1 .. o
    BY <1>1
  <2>2. \A x \in 1 .. o : x \in 1 .. Len(db)
    BY <1>1
  <2>3. QED
    BY <2>1, <2>2 DEF Extends
<1>3. Naming(larger, o, branch) = Naming(db, o, branch)
  BY <1>1, <1>2 DEF Naming
<1>4. CASE Naming(db, o, branch) = {}
  BY <1>3, <1>4 DEF NewestNamed
<1>5. CASE Naming(db, o, branch) # {}
  <2>1. Naming(db, o, branch) \subseteq Nat /\ Naming(db, o, branch) \subseteq 1 .. Len(db[o].line)
    BY <1>1 DEF Naming
  <2>2. Min(Naming(db, o, branch)) \in 1 .. Len(db[o].line)
    BY <1>5, <2>1, LeastNatural
  <2>3. QED
    BY <1>1, <1>2, <1>3, <1>5, <2>2 DEF NewestNamed
<1>6. QED
  BY <1>4, <1>5

(* What a forced job remembers: the newest source commit that the dest tip *)
(* to be replaced names is not in the history of the tip that the source   *)
(* remote advertised.                                                      *)
Rewritten(db, j) ==
    /\ j.seen \in 1 .. Len(db) /\ j.advertised \in 1 .. Len(db)
    /\ NewestNamed(db, j.seen, j.branch) \notin db[j.advertised].anc \cup {NoOid}

ForceJob(db, p, j) ==
    /\ p = "plan" => j.mode # "ForceMirrorOnly"
    /\ p \in {"build", "push_dest"} /\ j.mode = "ForceMirrorOnly" => Rewritten(db, j)

RewriteInv == \A c \in Clones : ForceJob(odb, pc[c], job[c])

LEMMA ForceJobKept ==
    ASSUME NEW db, NEW larger, ObjectDatabase(db), Extends(db, larger), Len(larger) \in Nat,
           NEW p, NEW j, ForceJob(db, p, j)
    PROVE  ForceJob(larger, p, j)
<1> SUFFICES ASSUME Rewritten(db, j) PROVE Rewritten(larger, j)
  BY DEF ForceJob
<1>1. /\ j.seen \in 1 .. Len(db) /\ j.advertised \in 1 .. Len(db) /\ Len(db) \in Nat
      /\ Len(db) <= Len(larger) /\ larger[j.advertised] = db[j.advertised]
  BY DEF Rewritten, Extends, ObjectDatabase
<1>2. NewestNamed(larger, j.seen, j.branch) = NewestNamed(db, j.seen, j.branch)
  BY <1>1, NamedKept
<1>3. QED
  BY <1>1, <1>2 DEF Rewritten

(* Only a rewritten branch is resumed by force, and only at the tip that   *)
(* the source remote has.                                                  *)
LEMMA ResumesByForce ==
    ASSUME SyncInv, NEW c \in Clones, pc[c] = "plan", job[c].mode # "ForceMirrorOnly",
           Resume(c).do = "build", Resume(c).mode = "ForceMirrorOnly"
    PROVE  /\ job[c].seen \in Oids /\ src[job[c].branch] \in Oids
           /\ NewestNamed(odb, job[c].seen, job[c].branch)
                 \notin odb[src[job[c].branch]].anc \cup {NoOid}
<1>1. /\ job[c].tip \in Oids /\ job[c].seen \in Oids \cup {NoOid} /\ ObjectDatabase(odb)
  BY Untouched DEF SyncInv, CloneInv, JobRefs, Mirroring
<1>2. /\ job[c].seen # NoOid /\ src[job[c].branch] = job[c].tip
      /\ MirrorOnlyRewriteDetected(have[c], job[c].tip, job[c].seen, job[c].branch)
  BY DEF Resume, Verdict, Halt, Skip, Stop, StaleCheckout
<1>3. NewestSourceMarker(job[c].seen, job[c].branch) = NewestNamed(odb, job[c].seen, job[c].branch)
  BY <1>1, <1>2, MarkerIsNamed
<1>4. QED
  BY <1>1, <1>2, <1>3 DEF MirrorOnlyRewriteDetected, IsAncestor, Anc

LEMMA RewriteNext == SyncInv /\ RewriteInv /\ [Next]_vars => RewriteInv'
<1> SUFFICES ASSUME SyncInv, RewriteInv, [Next]_vars, NEW c \in Clones
             PROVE  ForceJob(odb', pc'[c], job'[c])
  BY DEF RewriteInv
<1>1. /\ ObjectDatabase(odb) /\ Extends(odb, odb') /\ Len(odb) \in Nat /\ Len(odb') \in Nat
      /\ ForceJob(odb, pc[c], job[c]) /\ c \in DOMAIN job /\ DOMAIN NoJob \subseteq DOMAIN job[c]
  <2>1. SyncInv'
    BY NextSyncInv
  <2>2. ObjectDatabase(odb) /\ ObjectDatabase(odb')
    BY <2>1 DEF SyncInv
  <2>3. QED
    BY <2>2, NextExtends DEF RewriteInv, ObjectDatabase, SyncInv, CloneInv, JobRefs, Table
<1>2. CASE pc'[c] \notin Building
  BY <1>2 DEF ForceJob, Building
<1>3. CASE pc'[c] = pc[c] /\ run'[c] = run[c] /\ job'[c] = job[c]
  BY <1>1, <1>3, ForceJobKept
<1>4. CASE FetchDest(c) /\ pc'[c] = "plan"
  <2>1. job'[c].mode \in {"CreateOnly", "FastForwardOnly"}
    <3>1. c \in DOMAIN pc
      BY DEF SyncInv, Table
    <3>2. \E seen, recreate : job' = [job EXCEPT ![c].seen = seen,
              ![c].mode = IF recreate THEN "CreateOnly" ELSE "FastForwardOnly"]
      BY <1>4, <3>1 DEF FetchDest, NextBranch, Abort
    <3>3. QED
      BY <1>1, <3>2 DEF NoJob
  <2>2. QED
    BY <1>4, <2>1 DEF ForceJob
<1>5. CASE PlanBranch(c) /\ pc[c] = "plan" /\ pc'[c] = "build"
  <2>1. PICK pending, newest, plan : Decides(c, pending, newest, plan)
    BY <1>5, BuildIsDecided
  <2>2. CASE job'[c].mode = "ForceMirrorOnly"
    <3>1. PlanBuild(c, Resume(c), plan.reuse) /\ Resume(c).do = "build"
      BY <2>1 DEF Decides
    <3>2. /\ job'[c].seen = job[c].seen /\ job'[c].branch = job[c].branch
          /\ Resume(c).mode = "ForceMirrorOnly" /\ job'[c].advertised = src[job[c].branch]
      BY <2>2, <3>1, PlannedJob
    <3>3. job[c].mode # "ForceMirrorOnly"
      BY <1>1, <1>5 DEF ForceJob
    <3>4. Rewritten(odb, job'[c])
      BY <1>5, <3>1, <3>2, <3>3, ResumesByForce DEF Rewritten, Oids
    <3>5. ForceJob(odb, pc'[c], job'[c])
      BY <1>5, <3>4 DEF ForceJob
    <3>6. QED
      BY <1>1, <3>5, ForceJobKept
  <2>3. CASE job'[c].mode # "ForceMirrorOnly"
    BY <2>3 DEF ForceJob
  <2>4. QED
    BY <2>2, <2>3
<1>6. CASE \/ ReplayToDest(c) /\ pc[c] = "build" /\ pc'[c] = "build"
           \/ SealToDest(c) /\ pc[c] = "build" /\ pc'[c] = "push_dest"
  <2>1. /\ job'[c].mode = job[c].mode /\ job'[c].seen = job[c].seen
        /\ job'[c].branch = job[c].branch /\ job'[c].advertised = job[c].advertised
    <3>1. CASE ReplayToDest(c)
      BY <1>1, <3>1 DEF ReplayToDest, NoJob
    <3>2. CASE SealToDest(c) /\ pc'[c] = "push_dest"
      <4>1. c \in DOMAIN pc
        BY DEF SyncInv, Table
      <4>2. job' = job \/ job' = [job EXCEPT ![c].chain = NextOid]
        BY <3>2, <4>1 DEF SealToDest, NextBranch, Abort
      <4>3. QED
        BY <1>1, <4>2 DEF NoJob
    <3>3. QED
      BY <1>6, <3>1, <3>2
  <2>2. ForceJob(odb, pc'[c], job'[c])
    BY <1>1, <1>6, <2>1 DEF ForceJob, Rewritten
  <2>3. QED
    BY <1>1, <2>2, ForceJobKept
<1>7. QED
  BY <1>2, <1>3, <1>4, <1>5, <1>6, BuildingStep

LEMMA RewriteInvariant == Spec => [](SyncInv /\ RewriteInv)
<1>1. Init => SyncInv /\ RewriteInv
  <2>1. Init => RewriteInv
    BY DEF Init, RewriteInv, ForceJob
  <2>2. QED
    BY <2>1, InitSyncInv
<1>2. SyncInv /\ RewriteInv /\ [Next]_vars => (SyncInv /\ RewriteInv)'
  BY NextSyncInv, RewriteNext
<1>3. QED
  BY <1>1, <1>2, PTL DEF Spec

(* A commit leaves a dest branch only after a rewrite that the source      *)
(* remote itself shows, for every clone, however stale, and whoever moves  *)
(* either ref between the fetch, the plan and the push: StaleCheckout ties *)
(* what run_with_options plans to the tip the source remote advertises,    *)
(* and the lease ties the push to the dest tip it was planned for.         *)
THEOREM ForcedRebuildFollowsRewriteHolds == Spec => ForcedRebuildFollowsRewrite
<1> DEFINE Follows ==
      \A c \in Clones, b \in Branches :
        DestPush(c, b) /\ dst[b] # NoOid /\ ~IsAncestor(dst[b], dst'[b]) =>
            LET lost == NewestSourceMarker(dst[b], b)
            IN  /\ lost # NoOid /\ job[c].advertised # NoOid
                /\ ~IsAncestor(lost, job[c].advertised)
<1>1. ASSUME SyncInv, RewriteInv, [Next]_vars PROVE Follows
  <2> SUFFICES ASSUME NEW c \in Clones, NEW b \in Branches,
                      DestPush(c, b), dst[b] # NoOid, ~IsAncestor(dst[b], dst'[b])
               PROVE  LET lost == NewestSourceMarker(dst[b], b)
                      IN  /\ lost # NoOid /\ job[c].advertised # NoOid
                          /\ ~IsAncestor(lost, job[c].advertised)
    OBVIOUS
  <2>1. PushToDest(c) /\ job[c].branch = b /\ dst'[b] # dst[b]
    BY <1>1, PushStep DEF SyncInv, Table
  <2>2. dst'[b] = job[c].chain /\ PushAccepted(dst[b], job[c].chain, job[c].mode, job[c].seen)
    BY <1>1, <2>1 DEF PushToDest, SyncInv
  <2>3. job[c].mode = "ForceMirrorOnly" /\ dst[b] = job[c].seen
    BY <2>1, <2>2 DEF PushAccepted
  <2>4. Rewritten(odb, job[c])
    BY <1>1, <2>1, <2>3 DEF RewriteInv, ForceJob, PushToDest
  <2>5. /\ job[c].seen \in Oids /\ job[c].advertised \in Oids /\ ObjectDatabase(odb)
        /\ NoOid \notin Oids
    BY <1>1, <2>4 DEF Rewritten, Oids, SyncInv, NoOid
  <2>6. NewestSourceMarker(dst[b], b) = NewestNamed(odb, job[c].seen, job[c].branch)
    BY <2>1, <2>3, <2>5, MarkerIsNamed
  <2>7. QED
    BY <2>4, <2>5, <2>6 DEF Rewritten, IsAncestor, Anc
<1>2. Spec => [](SyncInv /\ RewriteInv)
  BY RewriteInvariant
<1>3. SyncInv /\ RewriteInv /\ [Next]_vars => [Follows]_vars
  BY <1>1
<1>4. QED
  BY <1>2, <1>3, PTL DEF Spec, ForcedRebuildFollowsRewrite

(***************************************************************************)
(* Every step of a run leaves it with less to do.                          *)
(***************************************************************************)
DescentInv ==
    \A c \in Clones : job[c].attempt \in 0 .. MaxRaceRetries /\ job[c].pending \in Seq(Nat)

LEMMA BranchesFinite == IsFiniteSet(Branches)
<1>1. NameOrder \in [1 .. Len(NameOrder) -> Branches] /\ Len(NameOrder) \in Nat
  BY SyncAssumption
<1>2. \A b \in Branches : \E i \in 1 .. Len(NameOrder) : NameOrder[i] = b
  BY <1>1, SyncAssumption DEF ToSet
<1>3. NameOrder \in Surjection(1 .. Len(NameOrder), Branches)
  BY <1>1, <1>2 DEF Surjection
<1>4. IsFiniteSet(1 .. Len(NameOrder))
  BY <1>1, FS_Interval
<1>5. QED
  BY <1>3, <1>4, FS_Surjection

(* The places of an outlook, compared one after another. *)
LEMMA LessOutlook ==
    ASSUME NEW p, NEW r, NEW j, NEW q, NEW s, NEW k,
           \/ Phase(q) < Phase(p)
           \/ /\ Phase(q) = Phase(p)
              /\ \/ Waiting(q, s) < Waiting(p, r)
                 \/ /\ Waiting(q, s) = Waiting(p, r)
                    /\ \/ Turn(q) < Turn(p)
                       \/ /\ Turn(q) = Turn(p)
                          /\ \/ MaxRaceRetries - k.attempt < MaxRaceRetries - j.attempt
                             \/ /\ k.attempt = j.attempt
                                /\ \/ Stage(q) < Stage(p)
                                   \/ Stage(q) = Stage(p) /\ Len(k.pending) < Len(j.pending)
    PROVE  Less(Outlook(q, s, k), Outlook(p, r, j))
<1> DEFINE x == Outlook(q, s, k)
           y == Outlook(p, r, j)
<1>1. /\ DOMAIN x = 1 .. 6 /\ x[1] = Phase(q) /\ x[2] = Waiting(q, s) /\ x[3] = Turn(q)
      /\ x[4] = MaxRaceRetries - k.attempt /\ x[5] = Stage(q) /\ x[6] = Len(k.pending)
  BY DEF Outlook
<1>2. /\ y[1] = Phase(p) /\ y[2] = Waiting(p, r) /\ y[3] = Turn(p)
      /\ y[4] = MaxRaceRetries - j.attempt /\ y[5] = Stage(p) /\ y[6] = Len(j.pending)
  BY DEF Outlook
<1> HIDE DEF x, y
<1>3. \E i \in 1 .. 6 : x[i] < y[i] /\ \A n \in 1 .. i - 1 : x[n] = y[n]
  <2>1. CASE x[1] < y[1]
    BY <2>1
  <2>2. CASE x[1] = y[1] /\ x[2] < y[2]
    BY <2>2
  <2>3. CASE x[1] = y[1] /\ x[2] = y[2] /\ x[3] < y[3]
    BY <2>3
  <2>4. CASE x[1] = y[1] /\ x[2] = y[2] /\ x[3] = y[3] /\ x[4] < y[4]
    BY <2>4
  <2>5. CASE x[1] = y[1] /\ x[2] = y[2] /\ x[3] = y[3] /\ x[4] = y[4] /\ x[5] < y[5]
    BY <2>5
  <2>6. CASE x[1] = y[1] /\ x[2] = y[2] /\ x[3] = y[3] /\ x[4] = y[4] /\ x[5] = y[5]
             /\ x[6] < y[6]
    BY <2>6
  <2>7. QED
    BY <1>1, <1>2, <2>1, <2>2, <2>3, <2>4, <2>5, <2>6
<1>4. QED
  BY <1>1, <1>3 DEF Less, x, y

(* What a run that is under way has of these numbers. *)
LEMMA OutlookNatural ==
    ASSUME SyncInv, DescentInv, NEW c \in Clones
    PROVE  LET now == Outlook(pc[c], run[c], job[c])
           IN  \A i \in DOMAIN now : now[i] \in Nat
<1>1. /\ run[c].remaining \subseteq Branches /\ run[c].imports \in Seq(Branches)
  BY DEF SyncInv, CloneInv, RunRefs
<1>2. Cardinality(run[c].remaining) \in Nat
  BY <1>1, BranchesFinite, FS_Subset, FS_CardinalityType
<1>3. Waiting(pc[c], run[c]) \in Nat
  BY <1>1, <1>2 DEF Waiting
<1>4. MaxRaceRetries - job[c].attempt \in Nat /\ Len(job[c].pending) \in Nat
  BY SyncAssumption DEF DescentInv
<1>5. Phase(pc[c]) \in Nat /\ Turn(pc[c]) \in Nat /\ Stage(pc[c]) \in Nat
  BY DEF Phase, Turn, Stage
<1>6. QED
  BY <1>3, <1>4, <1>5 DEF Outlook

Descends(c) ==
    Less(Outlook(pc'[c], run'[c], job'[c]), Outlook(pc[c], run[c], job[c]))

LEMMA OutlookOfClone ==
    ASSUME SyncInv, DescentInv, NEW c \in Clones
    PROVE  /\ c \in DOMAIN pc /\ c \in DOMAIN run /\ c \in DOMAIN job
           /\ DOMAIN NoRun \subseteq DOMAIN run[c] /\ DOMAIN NoJob \subseteq DOMAIN job[c]
           /\ run[c].remaining \subseteq Branches /\ run[c].imports \in Seq(Branches)
           /\ job[c].attempt \in 0 .. MaxRaceRetries /\ job[c].pending \in Seq(Nat)
           /\ MaxRaceRetries \in Nat
BY SyncAssumption DEF SyncInv, DescentInv, CloneInv, RunRefs, JobRefs, Table

LEMMA TailShorter ==
    ASSUME NEW S, NEW s \in Seq(S), s # <<>>
    PROVE  Len(Tail(s)) < Len(s) /\ Tail(s) \in Seq(S)
BY HeadTailProperties, LenProperties

(* A run that stops, or is done with a branch, descends. *)
LEMMA AbortDescends ==
    ASSUME SyncInv, DescentInv, NEW c \in Clones, NEW why, Abort(c, why), pc[c] # "idle"
    PROVE  Descends(c)
<1>1. pc'[c] = "idle"
  BY OutlookOfClone DEF Abort
<1>2. Phase(pc'[c]) < Phase(pc[c])
  BY <1>1 DEF Phase
<1>3. QED
  BY <1>2, LessOutlook DEF Descends

LEMMA NextBranchDescends ==
    ASSUME SyncInv, DescentInv, NEW c \in Clones, NEW halts, NextBranch(c, halts),
           pc[c] \in Mirroring
    PROVE  Descends(c)
<1>1. pc'[c] = "select" /\ run'[c].remaining = run[c].remaining
  BY OutlookOfClone DEF NextBranch, NoRun
<1>2. /\ Phase(pc'[c]) = Phase(pc[c]) /\ Waiting(pc'[c], run'[c]) = Waiting(pc[c], run[c])
      /\ Turn(pc'[c]) < Turn(pc[c])
  BY <1>1 DEF Phase, Waiting, Turn, Mirroring
<1>3. QED
  BY <1>2, LessOutlook DEF Descends

LEMMA NextImportDescends ==
    ASSUME SyncInv, DescentInv, NEW c \in Clones, NEW halts, NextImport(c, halts),
           pc[c] \in {"import"} \cup Importing, run[c].imports # <<>>
    PROVE  Descends(c)
<1>1. pc'[c] = "import" /\ run'[c].imports = Tail(run[c].imports)
  BY OutlookOfClone DEF NextImport, NoRun
<1>2. Len(run'[c].imports) < Len(run[c].imports)
  BY <1>1, OutlookOfClone, TailShorter
<1>3. Phase(pc'[c]) = Phase(pc[c]) /\ Waiting(pc'[c], run'[c]) < Waiting(pc[c], run[c])
  BY <1>1, <1>2 DEF Phase, Waiting, Importing
<1>4. QED
  BY <1>3, LessOutlook DEF Descends

(* Within a phase, a step that keeps the run's lists goes on to a later    *)
(* point of the branch's turn, or starts the turn over with a retry less.  *)
LEMMA TurnDescends ==
    ASSUME SyncInv, DescentInv, NEW c \in Clones,
           run'[c].remaining = run[c].remaining, run'[c].imports = run[c].imports,
           Phase(pc'[c]) = Phase(pc[c]),
           \/ Turn(pc'[c]) < Turn(pc[c])
           \/ /\ Turn(pc'[c]) = Turn(pc[c])
              /\ \/ job'[c].attempt = job[c].attempt + 1
                 \/ job'[c].attempt = job[c].attempt /\ Stage(pc'[c]) < Stage(pc[c])
    PROVE  Descends(c)
<1>1. Waiting(pc'[c], run'[c]) = Waiting(pc[c], run[c])
  BY DEF Waiting
<1>2. job[c].attempt \in Nat /\ MaxRaceRetries \in Nat
  BY OutlookOfClone
<1>3. QED
  BY <1>1, <1>2, LessOutlook DEF Descends

LEMMA ReplayDescends ==
    ASSUME SyncInv, DescentInv, NEW c \in Clones, ReplayToSource(c) \/ ReplayToDest(c)
    PROVE  Descends(c)
<1>1. /\ pc' = pc /\ run' = run /\ job[c].pending # <<>>
      /\ job'[c].attempt = job[c].attempt
      /\ job'[c].pending \in {<<>>, Tail(job[c].pending)}
  <2>1. CASE ReplayToSource(c)
    BY <2>1, OutlookOfClone DEF ReplayToSource, NoJob
  <2>2. CASE ReplayToDest(c)
    BY <2>2, OutlookOfClone DEF ReplayToDest, NoJob
  <2>3. QED
    BY <2>1, <2>2
<1>2. job[c].pending \in Seq(Nat)
  BY OutlookOfClone
<1>3. Len(<<>>) < Len(job[c].pending) /\ Len(Tail(job[c].pending)) < Len(job[c].pending)
  BY <1>1, <1>2, TailShorter, EmptySeq, LenProperties
<1>4. Len(job'[c].pending) < Len(job[c].pending)
  BY <1>1, <1>3
<1>5. QED
  BY <1>1, <1>4, LessOutlook DEF Descends

LEMMA PrepareImportDescends ==
    ASSUME SyncInv, DescentInv, NEW c \in Clones, NEW b, NEW tip,
           \/ pc[c] = "import" /\ PrepareImport(c, b, tip, 0)
           \/ pc[c] = "import_refetch" /\ PrepareImport(c, b, tip, job[c].attempt)
    PROVE  Descends(c)
<1>1. CASE \E why : Abort(c, why)
  BY <1>1, AbortDescends
<1>2. CASE pc' = [pc EXCEPT ![c] = "import_build"] /\ run' = run /\ pc[c] = "import"
  <2>1. pc'[c] = "import_build"
    BY <1>2, OutlookOfClone
  <2>2. Phase(pc'[c]) = Phase(pc[c]) /\ Turn(pc'[c]) < Turn(pc[c])
    BY <1>2, <2>1 DEF Phase, Turn
  <2>3. QED
    BY <1>2, <2>2, TurnDescends
<1>3. CASE /\ pc' = [pc EXCEPT ![c] = "import_build"] /\ run' = run /\ pc[c] = "import_refetch"
           /\ \E boundary :
                job' = [job EXCEPT ![c] =
                  [NoJob EXCEPT !.branch = b, !.attempt = job[c].attempt, !.tip = tip,
                                !.seen = run[c].heads[b], !.boundary = boundary, !.chain = tip,
                                !.pending = PendingCommits(boundary, run[c].heads[b])]]
  <2>1. pc'[c] = "import_build"
    BY <1>3, OutlookOfClone
  <2>2. job'[c].attempt = job[c].attempt
    BY <1>3, OutlookOfClone DEF NoJob
  <2>3. Phase(pc'[c]) = Phase(pc[c]) /\ Turn(pc'[c]) = Turn(pc[c]) /\ Stage(pc'[c]) < Stage(pc[c])
    BY <1>3, <2>1 DEF Phase, Turn, Stage
  <2>4. QED
    BY <1>3, <2>2, <2>3, TurnDescends
<1>4. QED
  BY <1>1, <1>2, <1>3 DEF PrepareImport

LEMMA ImportDescends ==
    ASSUME SyncInv, DescentInv, NEW c \in Clones,
           \/ FetchHeads(c) \/ SkipImport(c) \/ BeginImport(c) \/ RefetchSource(c)
           \/ NothingToPush(c) \/ PushToSource(c) \/ AdvanceLocalSourceBranch(c)
    PROVE  Descends(c)
<1>0. pc[c] \in Importing => run[c].imports # <<>>
  BY DEF SyncInv, CloneInv, JobRefs
<1>1. CASE FetchHeads(c)
  <2>1. \/ \E why : Abort(c, why)
        \/ pc' = [pc EXCEPT ![c] = "import"]
    BY <1>1 DEF FetchHeads
  <2>2. CASE pc' = [pc EXCEPT ![c] = "import"]
    <3>1. pc'[c] = "import" /\ pc[c] = "fetch_heads"
      BY <1>1, <2>2, OutlookOfClone DEF FetchHeads
    <3>2. Phase(pc'[c]) < Phase(pc[c])
      BY <3>1 DEF Phase
    <3>3. QED
      BY <3>2, LessOutlook DEF Descends
  <2>3. pc[c] # "idle"
    BY <1>1 DEF FetchHeads
  <2>4. QED
    BY <2>1, <2>2, <2>3, AbortDescends
<1>2. CASE SkipImport(c)
  <2>1. pc[c] = "import" /\ run[c].imports # <<>> /\ \E halts : NextImport(c, halts)
    BY <1>2 DEF SkipImport
  <2>2. QED
    BY <2>1, NextImportDescends
<1>3. CASE BeginImport(c)
  <2>1. pc[c] = "import" /\ \/ \E why : Abort(c, why)
                            \/ \E b, tip : PrepareImport(c, b, tip, 0)
    BY <1>3 DEF BeginImport
  <2>2. QED
    BY <2>1, AbortDescends, PrepareImportDescends
<1>4. CASE RefetchSource(c)
  <2>1. pc[c] = "import_refetch" /\ \/ \E why : Abort(c, why)
                                    \/ \E b, tip : PrepareImport(c, b, tip, job[c].attempt)
    BY <1>4 DEF RefetchSource
  <2>2. QED
    BY <2>1, AbortDescends, PrepareImportDescends
<1>5. CASE NothingToPush(c)
  <2>1. pc[c] = "import_build" /\ \/ \E why : Abort(c, why)
                                  \/ \E halts : NextImport(c, halts)
    BY <1>5 DEF NothingToPush
  <2>2. QED
    BY <1>0, <2>1, AbortDescends, NextImportDescends DEF Importing
<1>6. CASE AdvanceLocalSourceBranch(c)
  <2>1. pc[c] = "import_advance" /\ \/ \E why : Abort(c, why)
                                    \/ \E halts : NextImport(c, halts)
    BY <1>6 DEF AdvanceLocalSourceBranch
  <2>2. QED
    BY <1>0, <2>1, AbortDescends, NextImportDescends DEF Importing
<1>7. CASE PushToSource(c)
  <2>1. /\ pc[c] = "import_build"
        /\ \/ \E why : Abort(c, why)
           \/ /\ run' = run /\ pc' = [pc EXCEPT ![c] = "import_advance"]
              /\ job' = [job EXCEPT ![c].expected = local[c][job[c].branch]]
           \/ /\ run' = run /\ pc' = [pc EXCEPT ![c] = "import_refetch"]
              /\ job' = [job EXCEPT ![c].attempt = job[c].attempt + 1]
    BY <1>7 DEF PushToSource
  <2>2. CASE \E why : Abort(c, why)
    BY <2>1, <2>2, AbortDescends
  <2>3. CASE /\ run' = run /\ pc' = [pc EXCEPT ![c] = "import_advance"]
             /\ job' = [job EXCEPT ![c].expected = local[c][job[c].branch]]
    <3>1. pc'[c] = "import_advance" /\ job'[c].attempt = job[c].attempt
      BY <2>3, OutlookOfClone DEF NoJob
    <3>2. /\ Phase(pc'[c]) = Phase(pc[c]) /\ Turn(pc'[c]) = Turn(pc[c])
          /\ Stage(pc'[c]) < Stage(pc[c])
      BY <2>1, <3>1 DEF Phase, Turn, Stage
    <3>3. QED
      BY <2>3, <3>1, <3>2, TurnDescends
  <2>4. CASE /\ run' = run /\ pc' = [pc EXCEPT ![c] = "import_refetch"]
             /\ job' = [job EXCEPT ![c].attempt = job[c].attempt + 1]
    <3>1. pc'[c] = "import_refetch" /\ job'[c].attempt = job[c].attempt + 1
      BY <2>4, OutlookOfClone DEF NoJob
    <3>2. Phase(pc'[c]) = Phase(pc[c]) /\ Turn(pc'[c]) = Turn(pc[c])
      BY <2>1, <3>1 DEF Phase, Turn
    <3>3. QED
      BY <2>4, <3>1, <3>2, TurnDescends
  <2>5. QED
    BY <2>1, <2>2, <2>3, <2>4
<1>8. QED
  BY <1>1, <1>2, <1>3, <1>4, <1>5, <1>6, <1>7

LEMMA SelectDescends ==
    ASSUME SyncInv, DescentInv, NEW c \in Clones,
           ReconstructMappingIndex(c) \/ SelectNextBranch(c) \/ Finish(c)
    PROVE  Descends(c)
<1>1. CASE ReconstructMappingIndex(c)
  <2>1. pc'[c] = "select" /\ pc[c] = "import"
    BY <1>1, OutlookOfClone DEF ReconstructMappingIndex
  <2>2. Phase(pc'[c]) < Phase(pc[c])
    BY <2>1 DEF Phase
  <2>3. QED
    BY <2>2, LessOutlook DEF Descends
<1>2. CASE Finish(c)
  <2>1. pc'[c] = "idle" /\ pc[c] = "select"
    BY <1>2, OutlookOfClone DEF Finish
  <2>2. Phase(pc'[c]) < Phase(pc[c])
    BY <2>1 DEF Phase
  <2>3. QED
    BY <2>2, LessOutlook DEF Descends
<1>3. CASE SelectNextBranch(c)
  <2>1. PICK b \in run[c].remaining :
          run' = [run EXCEPT ![c].remaining = run[c].remaining \ {b},
                    ![c].noMapping = @ \cup {a \in run[c].remaining : Distance(c, a) = 0}]
    BY <1>3 DEF SelectNextBranch
  <2>2. /\ pc'[c] = "fetch_dest" /\ pc[c] = "select"
        /\ run'[c].remaining = run[c].remaining \ {b}
    BY <1>3, <2>1, OutlookOfClone DEF SelectNextBranch, NoRun
  <2>3. IsFiniteSet(run[c].remaining)
    BY OutlookOfClone, BranchesFinite, FS_Subset
  <2>4. Cardinality(run'[c].remaining) = Cardinality(run[c].remaining) - 1
    BY <2>1, <2>2, <2>3, FS_RemoveElement
  <2>5. Cardinality(run[c].remaining) \in Nat
    BY <2>3, FS_CardinalityType
  <2>6. Phase(pc'[c]) = Phase(pc[c]) /\ Waiting(pc'[c], run'[c]) < Waiting(pc[c], run[c])
    BY <2>2, <2>4, <2>5 DEF Phase, Waiting
  <2>7. QED
    BY <2>6, LessOutlook DEF Descends
<1>4. QED
  BY <1>1, <1>2, <1>3

LEMMA MirrorDescends ==
    ASSUME SyncInv, DescentInv, NEW c \in Clones,
           FetchDest(c) \/ PlanBranch(c) \/ SealToDest(c) \/ PushToDest(c) \/ PushRejected(c)
    PROVE  Descends(c)
<1> DEFINE Over == (\E why : Abort(c, why)) \/ (\E halts : NextBranch(c, halts))
<1>0. pc[c] \in Mirroring /\ pc[c] # "idle"
  BY DEF FetchDest, PlanBranch, SealToDest, PushToDest, PushRejected, Mirroring
<1>1. CASE Over
  BY <1>0, <1>1, AbortDescends, NextBranchDescends
<1>2. CASE FetchDest(c) /\ ~Over
  <2>1. /\ pc[c] = "fetch_dest" /\ pc' = [pc EXCEPT ![c] = "plan"]
        /\ \E e : run' = [run EXCEPT ![c].exists[job[c].branch] = e]
        /\ \E s, m : job' = [job EXCEPT ![c].seen = s, ![c].mode = m]
    BY <1>2 DEF FetchDest
  <2>2. /\ pc'[c] = "plan" /\ run'[c].remaining = run[c].remaining
        /\ run'[c].imports = run[c].imports /\ job'[c].attempt = job[c].attempt
    BY <2>1, OutlookOfClone DEF NoRun, NoJob
  <2>3. Phase(pc'[c]) = Phase(pc[c]) /\ Turn(pc'[c]) = Turn(pc[c]) /\ Stage(pc'[c]) < Stage(pc[c])
    BY <2>1, <2>2 DEF Phase, Turn, Stage
  <2>4. QED
    BY <2>2, <2>3, TurnDescends
<1>3. CASE PlanBranch(c) /\ ~Over
  <2>1. pc[c] = "plan" /\ \E v, reuse : PlanBuild(c, v, reuse)
    BY <1>3 DEF PlanBranch
  <2>2. pc'[c] = "build" /\ run' = run /\ job'[c].attempt = job[c].attempt
    BY <2>1, OutlookOfClone DEF PlanBuild, NoJob
  <2>3. Phase(pc'[c]) = Phase(pc[c]) /\ Turn(pc'[c]) = Turn(pc[c]) /\ Stage(pc'[c]) < Stage(pc[c])
    BY <2>1, <2>2 DEF Phase, Turn, Stage
  <2>4. QED
    BY <2>2, <2>3, TurnDescends
<1>4. CASE SealToDest(c) /\ ~Over
  <2>1. /\ pc[c] = "build" /\ pc' = [pc EXCEPT ![c] = "push_dest"] /\ run' = run
        /\ job' = job \/ job' = [job EXCEPT ![c].chain = NextOid]
    BY <1>4 DEF SealToDest
  <2>2. pc'[c] = "push_dest" /\ job'[c].attempt = job[c].attempt
    BY <2>1, OutlookOfClone DEF NoJob
  <2>3. Phase(pc'[c]) = Phase(pc[c]) /\ Turn(pc'[c]) = Turn(pc[c]) /\ Stage(pc'[c]) < Stage(pc[c])
    BY <2>1, <2>2 DEF Phase, Turn, Stage
  <2>4. QED
    BY <2>1, <2>2, <2>3, TurnDescends
<1>5. CASE PushToDest(c) /\ ~Over
  <2>1. /\ pc[c] = "push_dest" /\ pc' = [pc EXCEPT ![c] = "select"]
        /\ \E i : run' = [run EXCEPT ![c].index = i, ![c].exists[job[c].branch] = "yes"]
    BY <1>5 DEF PushToDest
  <2>2. /\ pc'[c] = "select" /\ run'[c].remaining = run[c].remaining
        /\ run'[c].imports = run[c].imports
    BY <2>1, OutlookOfClone DEF NoRun
  <2>3. Phase(pc'[c]) = Phase(pc[c]) /\ Turn(pc'[c]) < Turn(pc[c])
    BY <2>1, <2>2 DEF Phase, Turn
  <2>4. QED
    BY <2>2, <2>3, TurnDescends
<1>6. CASE PushRejected(c) /\ ~Over
  <2>1. /\ pc[c] = "push_dest" /\ pc' = [pc EXCEPT ![c] = "fetch_dest"]
        /\ run' = [run EXCEPT ![c].exists[job[c].branch] = "ask"]
        /\ job' = [job EXCEPT ![c] = [NoJob EXCEPT !.branch = job[c].branch, !.tip = job[c].tip,
                                                   !.attempt = job[c].attempt + 1]]
    BY <1>6 DEF PushRejected
  <2>2. /\ pc'[c] = "fetch_dest" /\ run'[c].remaining = run[c].remaining
        /\ run'[c].imports = run[c].imports
    BY <2>1, OutlookOfClone DEF NoRun
  <2>3. job'[c].attempt = job[c].attempt + 1
    BY <2>1, OutlookOfClone DEF NoJob
  <2>4. Phase(pc'[c]) = Phase(pc[c]) /\ Turn(pc'[c]) = Turn(pc[c])
    BY <2>1, <2>2 DEF Phase, Turn
  <2>5. QED
    BY <2>2, <2>3, <2>4, TurnDescends
<1>7. QED
  BY <1>1, <1>2, <1>3, <1>4, <1>5, <1>6

LEMMA RunStepDescends ==
    ASSUME SyncInv, DescentInv, NEW c \in Clones, StartRun(c) \/ Sync(c) \/ Crash(c),
           pc[c] # "idle"
    PROVE  Descends(c)
<1>1. CASE Crash(c)
  BY <1>1, AbortDescends DEF Crash
<1>2. ~ StartRun(c)
  BY DEF StartRun
<1>3. QED
  BY <1>1, <1>2, ReplayDescends, ImportDescends, SelectDescends, MirrorDescends DEF Sync

(* Whatever a job is given, its retries are counted and its commits are a  *)
(* sequence.                                                               *)
Counted(j) == j.attempt \in 0 .. MaxRaceRetries /\ j.pending \in Seq(Nat)

LEMMA NoJobCounted == Counted(NoJob)
<1>1. NoJob.attempt = 0 /\ NoJob.pending = <<>>
  BY DEF NoJob
<1>2. 0 \in 0 .. MaxRaceRetries /\ <<>> \in Seq(Nat)
  BY SyncAssumption, EmptySeq
<1>3. QED
  BY <1>1, <1>2 DEF Counted

(* Where the commits of a job come from, and how its retries grow. *)
LEMMA JobGoesOn ==
    ASSUME SyncInv, DescentInv, NEW c \in Clones, StartRun(c) \/ Sync(c) \/ Crash(c)
    PROVE  /\ \/ job'[c].attempt \in {0, job[c].attempt}
              \/ job'[c].attempt = job[c].attempt + 1 /\ job[c].attempt < MaxRaceRetries
           /\ \/ job'[c].pending \in {<<>>, job[c].pending}
              \/ pc'[c] \in {"import_build", "build"}
<1>0. /\ c \in DOMAIN pc /\ c \in DOMAIN job /\ DOMAIN NoJob \subseteq DOMAIN job[c]
      /\ NoJob.attempt = 0 /\ NoJob.pending = <<>>
  BY OutlookOfClone DEF NoJob
<1>1. CASE job' = job \/ job' = [job EXCEPT ![c] = NoJob]
  BY <1>0, <1>1
<1>2. CASE \/ StartRun(c) \/ Crash(c) \/ FetchHeads(c) \/ SkipImport(c) \/ NothingToPush(c)
           \/ AdvanceLocalSourceBranch(c) \/ ReconstructMappingIndex(c) \/ Finish(c)
           \/ PushToDest(c)
  BY <1>1, <1>2 DEF StartRun, Crash, FetchHeads, SkipImport, NothingToPush,
     AdvanceLocalSourceBranch, ReconstructMappingIndex, Finish, PushToDest, NextImport, Abort
<1>3. ASSUME NEW b, NEW tip, NEW attempt \in {0, job[c].attempt}, PrepareImport(c, b, tip, attempt)
      PROVE  /\ job'[c].attempt \in {0, job[c].attempt}
             /\ job'[c].pending \in {<<>>} \/ pc'[c] = "import_build"
  <2>1. CASE \E why : Abort(c, why)
    BY <1>0, <2>1 DEF Abort
  <2>2. CASE /\ pc' = [pc EXCEPT ![c] = "import_build"]
             /\ \E boundary :
                  job' = [job EXCEPT ![c] =
                    [NoJob EXCEPT !.branch = b, !.attempt = attempt, !.tip = tip,
                                  !.seen = run[c].heads[b], !.boundary = boundary, !.chain = tip,
                                  !.pending = PendingCommits(boundary, run[c].heads[b])]]
    <3>1. job'[c].attempt = attempt
      BY <1>0, <2>2 DEF NoJob
    <3>2. QED
      BY <1>0, <1>3, <2>2, <3>1
  <2>3. QED
    BY <1>3, <2>1, <2>2 DEF PrepareImport
<1>4. CASE BeginImport(c) \/ RefetchSource(c)
  <2>1. \/ \E why : Abort(c, why)
        \/ \E b, tip : PrepareImport(c, b, tip, 0) \/ PrepareImport(c, b, tip, job[c].attempt)
    BY <1>4 DEF BeginImport, RefetchSource
  <2>2. CASE \E why : Abort(c, why)
    BY <1>1, <2>2 DEF Abort
  <2>3. QED
    BY <1>3, <2>1, <2>2
<1>5. CASE ReplayToSource(c) \/ ReplayToDest(c)
  <2>1. /\ pc' = pc /\ pc[c] \in {"import_build", "build"}
        /\ job'[c].attempt = job[c].attempt
    <3>1. CASE ReplayToSource(c)
      BY <1>0, <3>1 DEF ReplayToSource, NoJob
    <3>2. CASE ReplayToDest(c)
      BY <1>0, <3>2 DEF ReplayToDest, NoJob
    <3>3. QED
      BY <1>5, <3>1, <3>2
  <2>2. QED
    BY <2>1
<1>6. CASE PushToSource(c)
  <2>1. \/ \E why : Abort(c, why)
        \/ job' = [job EXCEPT ![c].expected = local[c][job[c].branch]]
        \/ /\ job' = [job EXCEPT ![c].attempt = job[c].attempt + 1]
           /\ job[c].attempt < MaxRaceRetries
    BY <1>6 DEF PushToSource
  <2>2. CASE \E why : Abort(c, why)
    BY <1>1, <2>2 DEF Abort
  <2>3. QED
    BY <1>0, <2>1, <2>2 DEF NoJob
<1>7. CASE SelectNextBranch(c)
  <2>1. \E b, tip : job' = [job EXCEPT ![c] = [NoJob EXCEPT !.branch = b, !.tip = tip]]
    BY <1>7 DEF SelectNextBranch
  <2>2. QED
    BY <1>0, <2>1 DEF NoJob
<1>8. CASE FetchDest(c) \/ PlanBranch(c) \/ SealToDest(c)
  <2>1. \/ \E why : Abort(c, why)
        \/ \E halts : NextBranch(c, halts)
        \/ \E s, m : job' = [job EXCEPT ![c].seen = s, ![c].mode = m]
        \/ \E v, reuse : PlanBuild(c, v, reuse)
        \/ job' = job \/ job' = [job EXCEPT ![c].chain = NextOid]
    <3>1. CASE FetchDest(c)
      <4>1. CASE Abort(c, "fetch") \/ NextBranch(c, {job[c].branch})
        BY <4>1
      <4>2. CASE ~(Abort(c, "fetch") \/ NextBranch(c, {job[c].branch}))
        <5>1. \E s, m : job' = [job EXCEPT ![c].seen = s, ![c].mode = m]
          BY <3>1, <4>2 DEF FetchDest
        <5>2. QED
          BY <5>1
      <4>3. QED
        BY <4>1, <4>2
    <3>2. CASE PlanBranch(c)
      BY <3>2 DEF PlanBranch
    <3>3. CASE SealToDest(c)
      BY <3>3 DEF SealToDest
    <3>4. QED
      BY <1>8, <3>1, <3>2, <3>3
  <2>2. CASE (\E why : Abort(c, why)) \/ \E halts : NextBranch(c, halts)
    BY <1>1, <2>2 DEF Abort, NextBranch
  <2>3. CASE \E v, reuse : PlanBuild(c, v, reuse)
    <3>1. pc'[c] = "build" /\ job'[c].attempt = job[c].attempt
      BY <2>3, OutlookOfClone DEF PlanBuild, NoJob
    <3>2. QED
      BY <3>1
  <2>4. CASE \/ \E s, m : job' = [job EXCEPT ![c].seen = s, ![c].mode = m]
             \/ job' = job \/ job' = [job EXCEPT ![c].chain = NextOid]
    BY <1>0, <2>4 DEF NoJob
  <2>5. QED
    BY <2>1, <2>2, <2>3, <2>4
<1>9. CASE PushRejected(c)
  <2>1. \/ \E why : Abort(c, why)
        \/ \E halts : NextBranch(c, halts)
        \/ /\ job[c].attempt < MaxRaceRetries
           /\ job' = [job EXCEPT ![c] = [NoJob EXCEPT !.branch = job[c].branch, !.tip = job[c].tip,
                                                      !.attempt = job[c].attempt + 1]]
    BY <1>9 DEF PushRejected
  <2>2. CASE (\E why : Abort(c, why)) \/ \E halts : NextBranch(c, halts)
    BY <1>1, <2>2 DEF Abort, NextBranch
  <2>3. CASE /\ job[c].attempt < MaxRaceRetries
             /\ job' = [job EXCEPT ![c] = [NoJob EXCEPT !.branch = job[c].branch,
                           !.tip = job[c].tip, !.attempt = job[c].attempt + 1]]
    <3>1. job'[c].attempt = job[c].attempt + 1 /\ job'[c].pending = <<>>
      BY <1>0, <2>3 DEF NoJob
    <3>2. QED
      BY <2>3, <3>1
  <2>4. QED
    BY <2>1, <2>2, <2>3
<1>10. QED
  BY <1>2, <1>4, <1>5, <1>6, <1>7, <1>8, <1>9 DEF Sync

LEMMA DescentNext == SyncInv /\ DescentInv /\ [Next]_vars => DescentInv'
<1> SUFFICES ASSUME SyncInv, DescentInv, [Next]_vars, NEW c \in Clones
             PROVE  job'[c].attempt \in 0 .. MaxRaceRetries /\ job'[c].pending \in Seq(Nat)
  BY DEF DescentInv
<1>1. /\ job[c].attempt \in 0 .. MaxRaceRetries /\ job[c].pending \in Seq(Nat)
      /\ <<>> \in Seq(Nat) /\ MaxRaceRetries \in Nat
  BY OutlookOfClone, EmptySeq
<1>2. CASE pc'[c] = pc[c] /\ run'[c] = run[c] /\ job'[c] = job[c]
  BY <1>1, <1>2
<1>3. CASE StartRun(c) \/ Sync(c) \/ Crash(c)
  <2>1. /\ \/ job'[c].attempt \in {0, job[c].attempt}
           \/ job'[c].attempt = job[c].attempt + 1 /\ job[c].attempt < MaxRaceRetries
        /\ \/ job'[c].pending \in {<<>>, job[c].pending}
           \/ pc'[c] \in {"import_build", "build"}
    BY <1>3, JobGoesOn
  <2>2. ASSUME pc'[c] \in {"import_build", "build"} PROVE job'[c].pending \in Seq(Nat)
    <3>1. SyncInv'
      BY NextSyncInv
    <3>2. job'[c].pending \in Seq(have'[c]) /\ have'[c] \subseteq Nat
      BY <2>2, <3>1 DEF SyncInv, CloneInv, JobRefs
    <3>3. QED
      BY <3>2
  <2>3. job'[c].attempt \in 0 .. MaxRaceRetries
    BY <1>1, <2>1
  <2>4. job'[c].pending \in Seq(Nat)
    BY <1>1, <2>1, <2>2
  <2>5. QED
    BY <2>3, <2>4
<1>4. QED
  BY <1>2, <1>3, NextIsOwnOrQuiet

LEMMA DescentInvariant == Spec => [](SyncInv /\ DescentInv)
<1>1. Init => SyncInv /\ DescentInv
  <2>1. Init => DescentInv
    BY NoJobCounted DEF Init, DescentInv, Counted
  <2>2. QED
    BY <2>1, InitSyncInv
<1>2. SyncInv /\ DescentInv /\ [Next]_vars => (SyncInv /\ DescentInv)'
  BY NextSyncInv, DescentNext
<1>3. QED
  BY <1>1, <1>2, PTL DEF Spec

(* Each step of a run leaves it with less to do, and nobody else gives it  *)
(* more: the phases follow each other, a configured branch is imported and *)
(* a remaining one is mirrored once, a lost race costs one of its retries  *)
(* (MAX_RACE_RETRIES of sync/mod.rs) and a replay one of its commits.  The *)
(* order is well-founded, so no run can take steps for ever, whatever the  *)
(* remotes do meanwhile: RunTerminates but for the fairness of its steps.  *)
THEOREM RunDescendsHolds == Spec => RunDescends
<1> DEFINE Falls ==
      \A c \in Clones : pc[c] # "idle" =>
        LET now == Outlook(pc[c], run[c], job[c])
        IN  /\ \A i \in DOMAIN now : now[i] \in Nat
            /\ \/ Less(Outlook(pc'[c], run'[c], job'[c]), now)
               \/ UNCHANGED <<pc[c], run[c], job[c]>>
<1>1. ASSUME SyncInv, DescentInv, [Next]_vars PROVE Falls
  <2> SUFFICES ASSUME NEW c \in Clones, pc[c] # "idle"
               PROVE  LET now == Outlook(pc[c], run[c], job[c])
                      IN  /\ \A i \in DOMAIN now : now[i] \in Nat
                          /\ \/ Less(Outlook(pc'[c], run'[c], job'[c]), now)
                             \/ UNCHANGED <<pc[c], run[c], job[c]>>
    OBVIOUS
  <2>1. LET now == Outlook(pc[c], run[c], job[c]) IN \A i \in DOMAIN now : now[i] \in Nat
    BY <1>1, OutlookNatural
  <2>2. CASE StartRun(c) \/ Sync(c) \/ Crash(c)
    BY <1>1, <2>1, <2>2, RunStepDescends DEF Descends
  <2>3. CASE pc'[c] = pc[c] /\ run'[c] = run[c] /\ job'[c] = job[c]
    BY <2>1, <2>3
  <2>4. QED
    BY <1>1, <2>2, <2>3, NextIsOwnOrQuiet
<1>2. Spec => [](SyncInv /\ DescentInv)
  BY DescentInvariant
<1>3. SyncInv /\ DescentInv /\ [Next]_vars => [Falls]_vars
  BY <1>1
<1>4. QED
  BY <1>2, <1>3, PTL DEF Spec, RunDescends

(***************************************************************************)
(* Where source and dest are in step, replaying commit by commit adds up.  *)
(* Each commit of a first-parent line is the first parent of the one above *)
(* it (Linked), so what a commit is replayed against is the commit that    *)
(* was replayed before it.                                                 *)
(***************************************************************************)
Linked(db, o) ==
    LET line == db[o].line
    IN  /\ line[1] = o
        /\ \A i \in 1 .. (Len(line) - 1) :
              db[line[i]].parents # <<>> /\ db[line[i]].parents[1] = line[i + 1]
LinkInv == \A o \in Oids : Linked(odb, o)

LEMMA LinkKept ==
    ASSUME NEW db, NEW larger, ObjectDatabase(db), Extends(db, larger),
           NEW o \in 1 .. Len(db), Linked(db, o)
    PROVE  Linked(larger, o)
<1>1. /\ larger[o] = db[o] /\ db[o].line \in Seq(1 .. o) /\ o \in Nat /\ Len(db) \in Nat
      /\ o <= Len(db)
  BY DEF ObjectDatabase, WellFormed, Extends
<1> DEFINE line == db[o].line
<1>2. Len(line) \in Nat /\ \A i \in 1 .. Len(line) : line[i] \in 1 .. o
  BY <1>1, LenProperties, ElementOfSeq
<1> HIDE DEF line
<1>3. \A i \in 1 .. (Len(line) - 1) : larger[line[i]] = db[line[i]]
  <2>1. \A x \in 1 .. o : x \in 1 .. Len(db)
    BY <1>1
  <2>2. \A i \in 1 .. (Len(line) - 1) : i \in 1 .. Len(line)
    BY <1>2
  <2>3. QED
    BY <1>2, <2>1, <2>2 DEF Extends
<1>4. QED
  BY <1>1, <1>3 DEF Linked, line

LEMMA LinkWrite ==
    ASSUME ObjectDatabase(odb), LinkInv, NEW parents \in Seq(Oids), NEW tree, NEW marker,
           Write(parents, tree, marker)
    PROVE  Linked(odb', NextOid)
<1> DEFINE rest == IF parents = <<>> THEN <<>> ELSE Line(parents[1])
           line == odb'[NextOid].line
<1>1. /\ Len(odb) \in Nat /\ NextOid = Len(odb) + 1 /\ Oids = 1 .. Len(odb)
      /\ Extends(odb, odb') /\ NextOid \in Nat /\ \A x \in Oids : x \in Nat
  BY WriteAppends DEF ObjectDatabase, NextOid, Oids
<1>2. line = <<NextOid>> \o rest /\ odb'[NextOid].parents = parents
  <2>1. odb'[NextOid] = NewCommit(parents, tree, marker)
    BY <1>1 DEF Write, ObjectDatabase
  <2>2. QED
    BY <2>1 DEF NewCommit
<1>3. CASE parents = <<>>
  <2>1. line = << NextOid >>
    BY <1>2, <1>3, <1>1
  <2>2. Len(line) = 1 /\ line[1] = NextOid
    BY <2>1
  <2>3. QED
    BY <2>2 DEF Linked
<1>4. CASE parents # <<>>
  <2> DEFINE p == parents[1]
  <2>1. p \in Oids /\ rest = odb[p].line /\ Linked(odb, p)
    BY <1>4 DEF Line, LinkInv
  <2>2. Linked(odb', p) /\ odb'[p] = odb[p]
    BY <1>1, <2>1, LinkKept DEF Extends
  <2>3. rest \in Seq(Nat) /\ Len(rest) \in Nat
    <3>1. odb[p].line \in Seq(1 .. p) /\ 1 .. p \subseteq Nat
      BY <1>1, <2>1 DEF ObjectDatabase, WellFormed
    <3> HIDE DEF rest
    <3>2. rest \in Seq(Nat)
      BY <2>1, <3>1, SeqMonotonic
    <3>3. QED
      BY <3>2, LenProperties
  <2> HIDE DEF rest, line, p
  <2>4. /\ Len(line) = 1 + Len(rest)
        /\ \A i \in 1 .. (1 + Len(rest)) : line[i] = IF i <= 1 THEN <<NextOid>>[i] ELSE rest[i - 1]
    <3>1. <<NextOid>> \in Seq(Nat) /\ Len(<<NextOid>>) = 1
      BY <1>1, SingletonSeq
    <3>2. QED
      BY <1>2, <2>3, <3>1, ConcatProperties
  <2>5. line[1] = NextOid
    BY <2>3, <2>4
  <2>6. ASSUME NEW i \in 1 .. (Len(line) - 1)
        PROVE  odb'[line[i]].parents # <<>> /\ odb'[line[i]].parents[1] = line[i + 1]
    <3>1. /\ i \in Nat /\ i >= 1 /\ i + 1 \in 1 .. (1 + Len(rest)) /\ i \in 1 .. (1 + Len(rest))
          /\ ~ (i + 1 <= 1) /\ (i + 1) - 1 = i
      BY <2>3, <2>4
    <3>2. line[i + 1] = rest[i]
      BY <2>4, <3>1
    <3>3. CASE i = 1
      <4>1. line[i + 1] = p
        BY <2>1, <3>2, <3>3 DEF Linked
      <4>2. QED
        BY <1>2, <1>4, <2>5, <3>3, <4>1 DEF p
    <3>4. CASE i # 1
      <4>1. i - 1 \in 1 .. (Len(rest) - 1) /\ ~ (i <= 1) /\ (i - 1) + 1 = i
        BY <2>3, <2>4, <3>1, <3>4
      <4>2. line[i] = rest[i - 1]
        BY <2>4, <3>1, <4>1
      <4>3. odb'[rest[i - 1]].parents # <<>> /\ odb'[rest[i - 1]].parents[1] = rest[i]
        BY <2>1, <2>2, <4>1 DEF Linked
      <4>4. QED
        BY <3>2, <4>2, <4>3
    <3>5. QED
      BY <3>3, <3>4
  <2>7. QED
    BY <2>5, <2>6 DEF Linked, line
<1>5. QED
  BY <1>3, <1>4

LEMMA LinkNext == SyncInv /\ LinkInv /\ [Next]_vars => LinkInv'
<1> SUFFICES ASSUME SyncInv, LinkInv, [Next]_vars PROVE LinkInv'
  OBVIOUS
<1>1. /\ ObjectDatabase(odb) /\ ObjectDatabase(odb') /\ Extends(odb, odb')
      /\ Len(odb) \in Nat /\ NextOid = Len(odb) + 1 /\ Oids = 1 .. Len(odb)
  <2>1. SyncInv'
    BY NextSyncInv
  <2>2. QED
    BY <2>1, NextExtends DEF SyncInv, ObjectDatabase, NextOid, Oids
<1>2. CASE odb' = odb
  BY <1>2 DEF LinkInv, Linked, Oids
<1>3. ASSUME NEW parents, NEW tree, NEW marker, Write(parents, tree, marker) PROVE LinkInv'
  <2>1. Len(odb') = NextOid /\ odb'[NextOid] = NewCommit(parents, tree, marker)
    BY <1>1, <1>3 DEF Write, ObjectDatabase
  <2>2. parents \in Seq(1 .. NextOid - 1)
    BY <1>1, <2>1 DEF ObjectDatabase, WellFormed, NewCommit
  <2>3. parents \in Seq(Oids)
    BY <1>1, <2>2
  <2>4. Linked(odb', NextOid)
    BY <1>1, <1>3, <2>3, LinkWrite
  <2>5. \A o \in 1 .. Len(odb) : Linked(odb', o)
    BY <1>1, LinkKept DEF LinkInv
  <2>6. \A o \in 1 .. Len(odb') : o = NextOid \/ o \in 1 .. Len(odb)
    BY <1>1, <2>1
  <2>7. \A o \in 1 .. Len(odb') : Linked(odb', o)
    BY <2>4, <2>5, <2>6
  <2>8. QED
    BY <2>7 DEF LinkInv, Oids
<1>4. odb' = odb \/ \E parents, tree, marker : Write(parents, tree, marker)
  <2>1. CASE UNCHANGED vars
    BY <2>1 DEF vars
  <2>2. CASE Environment
    BY <2>2, EnvironmentWrites
  <2>3. ASSUME NEW c \in Clones, StartRun(c) \/ Sync(c) \/ Crash(c)
        PROVE  odb' = odb \/ \E parents, tree, marker : Write(parents, tree, marker)
    BY <2>3, RunWrites
  <2>4. QED
    BY <2>1, <2>2, <2>3 DEF Next
<1>5. QED
  BY <1>2, <1>3, <1>4

LEMMA LinkInit == Init => LinkInv
<1> SUFFICES ASSUME Init PROVE LinkInv
  OBVIOUS
<1>1. PICK origin \in Origins : odb = Histories[origin]
  BY DEF Init
<1>2. origin \in {"graft", "merge", "orphan", "mirrored"}
  BY HistoryAssumption DEF Histories
<1>3. CASE origin = "graft"
  <2>1. Len(odb) = 2 /\ odb = Histories.graft
    BY <1>1, <1>3, GraftHistory
  <2>2. odb[1].line = << 1 >> /\ odb[2].line = << 2, 1 >> /\ odb[2].parents = << 1 >>
    BY <2>1 DEF Histories, Root, Child
  <2>3. Linked(odb, 1) /\ Linked(odb, 2)
    BY <2>2 DEF Linked
  <2>4. QED
    BY <2>1, <2>3 DEF LinkInv, Oids
<1>4. CASE origin = "merge"
  <2>1. Len(odb) = 3 /\ odb = Histories.merge
    BY <1>1, <1>4, MergeHistory
  <2>2. /\ odb[1].line = << 1 >> /\ odb[2].line = << 2, 1 >> /\ odb[2].parents = << 1 >>
        /\ odb[3].line = << 3, 2, 1 >> /\ odb[3].parents = << 2, 1 >>
    BY <2>1 DEF Histories, Root, Child
  <2>3. Linked(odb, 1) /\ Linked(odb, 2) /\ Linked(odb, 3)
    BY <2>2 DEF Linked
  <2>4. QED
    BY <2>1, <2>3 DEF LinkInv, Oids
<1>5. CASE origin = "orphan"
  <2>1. Len(odb) = 4 /\ odb = Histories.orphan
    BY <1>1, <1>5, OrphanHistory
  <2>2. /\ odb[1].line = << 1 >> /\ odb[2].line = << 2, 1 >> /\ odb[2].parents = << 1 >>
        /\ odb[3].line = << 3 >> /\ odb[4].line = << 4 >>
    BY <2>1 DEF Histories, Root, Child
  <2>3. Linked(odb, 1) /\ Linked(odb, 2) /\ Linked(odb, 3) /\ Linked(odb, 4)
    BY <2>2 DEF Linked
  <2>4. QED
    BY <2>1, <2>3 DEF LinkInv, Oids
<1>6. CASE origin = "mirrored"
  <2>1. Len(odb) = 4 /\ odb = Histories.mirrored
    BY <1>1, <1>6, MirroredHistory
  <2>2. /\ odb[1].line = << 1 >> /\ odb[2].line = << 2, 1 >> /\ odb[2].parents = << 1 >>
        /\ odb[3].line = << 3, 2, 1 >> /\ odb[3].parents = << 2 >>
        /\ odb[4].line = << 4, 1 >> /\ odb[4].parents = << 1 >>
    BY <2>1 DEF Histories, Root, Child
  <2>3. Linked(odb, 1) /\ Linked(odb, 2) /\ Linked(odb, 3) /\ Linked(odb, 4)
    BY <2>2 DEF Linked
  <2>4. QED
    BY <2>1, <2>3 DEF LinkInv, Oids
<1>7. QED
  BY <1>2, <1>3, <1>4, <1>5, <1>6

(* A branch that a run takes up, again or for the first time, has nothing  *)
(* built and no conflict yet, and is created on request only where dest    *)
(* has no ref.                                                             *)
FreshJob(p, j) ==
    /\ p \in {"fetch_dest", "plan"} => j.conflict = NoOid /\ j.built = {}
    /\ p = "plan" => \/ j.mode = "FastForwardOnly"
                     \/ j.mode = "CreateOnly" /\ j.seen = NoOid
FreshInv == \A c \in Clones : FreshJob(pc[c], job[c])

LEMMA FreshNext == SyncInv /\ FreshInv /\ [Next]_vars => FreshInv'
<1> SUFFICES ASSUME SyncInv, FreshInv, [Next]_vars, NEW c \in Clones
             PROVE  FreshJob(pc'[c], job'[c])
  BY DEF FreshInv
<1>0. c \in DOMAIN pc /\ c \in DOMAIN job /\ DOMAIN NoJob \subseteq DOMAIN job[c]
  BY DEF SyncInv, CloneInv, JobRefs, Table
<1>1. CASE pc'[c] = pc[c] /\ run'[c] = run[c] /\ job'[c] = job[c]
  BY <1>1 DEF FreshInv
<1>2. CASE pc'[c] = "plan"
  <2>1. CASE FetchDest(c)
    <3>1. \E seen, recreate : /\ recreate => seen = NoOid
            /\ job' = [job EXCEPT ![c].seen = seen,
                  ![c].mode = IF recreate THEN "CreateOnly" ELSE "FastForwardOnly"]
      BY <1>0, <1>2, <2>1 DEF FetchDest, NextBranch, Abort
    <3>2. PICK seen, recreate : /\ recreate => seen = NoOid
            /\ job' = [job EXCEPT ![c].seen = seen,
                  ![c].mode = IF recreate THEN "CreateOnly" ELSE "FastForwardOnly"]
      BY <3>1
    <3>3. /\ job'[c].seen = seen /\ job'[c].conflict = job[c].conflict
          /\ job'[c].built = job[c].built
          /\ job'[c].mode = IF recreate THEN "CreateOnly" ELSE "FastForwardOnly"
      BY <1>0, <3>2 DEF NoJob
    <3>4. job[c].conflict = NoOid /\ job[c].built = {}
      BY <2>1 DEF FreshInv, FreshJob, FetchDest
    <3>5. CASE recreate
      BY <1>2, <3>2, <3>3, <3>4, <3>5 DEF FreshJob
    <3>6. CASE ~recreate
      BY <1>2, <3>3, <3>4, <3>6 DEF FreshJob
    <3>7. QED
      BY <3>5, <3>6
  <2>2. QED
    BY <1>1, <1>2, <2>1, BuildingStep DEF Building
<1>3. CASE pc'[c] = "fetch_dest"
  <2>1. CASE SelectNextBranch(c) \/ PushRejected(c)
    <3>1. ASSUME SelectNextBranch(c) PROVE job'[c].conflict = NoOid /\ job'[c].built = {}
      <4>1. \E branch, tip : job' = [job EXCEPT ![c] = [NoJob EXCEPT !.branch = branch, !.tip = tip]]
        BY <3>1 DEF SelectNextBranch
      <4>2. QED
        BY <1>0, <4>1 DEF NoJob
    <3>2. ASSUME PushRejected(c) PROVE job'[c].conflict = NoOid /\ job'[c].built = {}
      <4>1. \/ Abort(c, "race") \/ NextBranch(c, {job[c].branch})
            \/ job' = [job EXCEPT ![c] = [NoJob EXCEPT !.branch = job[c].branch, !.tip = job[c].tip,
                                                      !.attempt = job[c].attempt + 1]]
        BY <3>2 DEF PushRejected
      <4>2. QED
        BY <1>0, <1>3, <4>1 DEF NextBranch, Abort, NoJob
    <3>3. job'[c].conflict = NoOid /\ job'[c].built = {}
      BY <2>1, <3>1, <3>2
    <3>4. QED
      BY <1>3, <3>3 DEF FreshJob
  <2>2. ASSUME \/ StartRun(c) \/ Crash(c) \/ Finish(c) \/ FetchHeads(c) \/ SkipImport(c)
               \/ BeginImport(c) \/ RefetchSource(c) \/ NothingToPush(c)
               \/ AdvanceLocalSourceBranch(c)
        PROVE  FALSE
    BY <1>0, <1>3, <2>2 DEF StartRun, Crash, Finish, FetchHeads, SkipImport, BeginImport,
       RefetchSource, PrepareImport, NothingToPush, AdvanceLocalSourceBranch, NextImport, Abort
  <2>3. ASSUME \/ ReplayToSource(c) \/ PushToSource(c) \/ ReconstructMappingIndex(c)
               \/ FetchDest(c) \/ ReplayToDest(c) \/ PushToDest(c)
        PROVE  FALSE
    BY <1>0, <1>3, <2>3 DEF ReplayToSource, PushToSource, ReconstructMappingIndex, FetchDest,
       ReplayToDest, PushToDest, NextBranch, Abort
  <2>4. ASSUME PlanBranch(c) PROVE FALSE
    <3>1. \/ \E why : Abort(c, why)
          \/ \E halts : NextBranch(c, halts)
          \/ pc' = [pc EXCEPT ![c] = "build"]
      BY <2>4 DEF PlanBranch, PlanBuild
    <3>2. QED
      BY <1>0, <1>3, <3>1 DEF NextBranch, Abort
  <2>5. ASSUME SealToDest(c) PROVE FALSE
    BY <1>0, <1>3, <2>5 DEF SealToDest, NextBranch, Abort
  <2>6. QED
    BY <1>1, <2>1, <2>2, <2>3, <2>4, <2>5, NextIsOwnOrQuiet DEF Sync
<1>4. CASE pc'[c] \notin {"fetch_dest", "plan"}
  BY <1>4 DEF FreshJob
<1>5. QED
  BY <1>2, <1>3, <1>4

LEMMA FreshInit == Init => FreshInv
BY DEF Init, FreshInv, FreshJob

(* A job that began in step has replayed a part of source's line: what it  *)
(* has built has the tree of the commit below the pending ones.            *)
InStepIn(db, j) ==
    /\ j.shared = NoOid
    /\ db[j.base].tree = FilterTree(db[j.boundary].tree)
    /\ j.boundary \in Trail(db, j.tip)
    /\ \A o \in Trail(db, j.tip) \ db[j.boundary].anc : ~ Looped(db, o)
Caught(db, line, boundary, pending, chain) ==
    /\ Len(pending) < Len(line)
    /\ \A k \in 1 .. Len(pending) :
          pending[k] = line[Len(pending) + 1 - k] /\ pending[k] \notin db[boundary].anc
    /\ db[chain].tree = FilterTree(db[line[Len(pending) + 1]].tree)
OnTrack(db, p, j) ==
    /\ j.conflict = NoOid
    /\ p = "build" => Caught(db, db[j.tip].line, j.boundary, j.pending, j.chain)
    /\ p = "push_dest" => db[j.chain].tree = FilterTree(db[j.tip].tree)
StepJob(db, p, j) ==
    p \in {"build", "push_dest"} =>
        /\ {j.tip, j.base, j.boundary, j.chain} \subseteq 1 .. Len(db)
        /\ j.pending \in Seq(Nat)
        /\ InStepIn(db, j) => OnTrack(db, p, j)
StepInv == \A c \in Clones : StepJob(odb, pc[c], job[c])

LEMMA LineInDatabase ==
    ASSUME NEW db, ObjectDatabase(db), NEW o \in 1 .. Len(db)
    PROVE  /\ Len(db[o].line) \in Nat /\ db[o].line \in Seq(1 .. Len(db))
           /\ \A i \in 1 .. Len(db[o].line) : db[o].line[i] \in 1 .. Len(db)
           /\ Trail(db, o) \subseteq 1 .. Len(db)
<1>1. db[o].line \in Seq(1 .. o) /\ 1 .. o \subseteq 1 .. Len(db)
  BY DEF ObjectDatabase, WellFormed
<1> DEFINE line == db[o].line
<1>2. line \in Seq(1 .. Len(db))
  BY <1>1, SeqMonotonic
<1> HIDE DEF line
<1>3. Len(line) \in Nat /\ DOMAIN line = 1 .. Len(line)
  BY <1>2, LenProperties
<1>4. \A i \in 1 .. Len(line) : line[i] \in 1 .. Len(db)
  BY <1>2, ElementOfSeq
<1>5. QED
  BY <1>2, <1>3, <1>4 DEF Trail, ToSet, line

LEMMA StepKept ==
    ASSUME NEW db, NEW larger, ObjectDatabase(db), Extends(db, larger), Len(larger) \in Nat,
           NEW p, NEW j, StepJob(db, p, j)
    PROVE  StepJob(larger, p, j)
<1> SUFFICES ASSUME p \in {"build", "push_dest"} PROVE StepJob(larger, p, j)
  BY DEF StepJob
<1>1. /\ {j.tip, j.base, j.boundary, j.chain} \subseteq 1 .. Len(db)
      /\ j.pending \in Seq(Nat) /\ Len(db) \in Nat
      /\ 1 .. Len(db) \subseteq 1 .. Len(larger)
      /\ \A o \in 1 .. Len(db) : larger[o] = db[o]
  BY DEF StepJob, Extends, ObjectDatabase
<1>2. /\ Trail(larger, j.tip) = Trail(db, j.tip) /\ Trail(db, j.tip) \subseteq 1 .. Len(db)
      /\ Len(db[j.tip].line) \in Nat
      /\ \A i \in 1 .. Len(db[j.tip].line) : db[j.tip].line[i] \in 1 .. Len(db)
  BY <1>1, LineInDatabase DEF Trail
<1>3. ASSUME InStepIn(larger, j) PROVE OnTrack(larger, p, j)
  <2>1. \A o \in Trail(db, j.tip) : larger[o] = db[o]
    BY <1>1, <1>2
  <2>2. larger[j.base] = db[j.base] /\ larger[j.boundary] = db[j.boundary]
        /\ larger[j.tip] = db[j.tip] /\ larger[j.chain] = db[j.chain]
    BY <1>1
  <2>3. InStepIn(db, j)
    BY <1>2, <1>3, <2>1, <2>2 DEF InStepIn, Looped
  <2>4. OnTrack(db, p, j)
    BY <2>3 DEF StepJob
  <2>5. ASSUME Caught(db, db[j.tip].line, j.boundary, j.pending, j.chain)
        PROVE  Caught(larger, larger[j.tip].line, j.boundary, j.pending, j.chain)
    <3> DEFINE line == db[j.tip].line
               n == Len(j.pending)
    <3>1. n \in Nat
      BY <1>1, LenProperties
    <3>2. line[n + 1] \in 1 .. Len(db)
      BY <1>2, <2>5, <3>1 DEF Caught
    <3>3. larger[line[n + 1]] = db[line[n + 1]]
      BY <1>1, <3>2
    <3>4. QED
      BY <2>2, <2>5, <3>3 DEF Caught
  <2>6. QED
    BY <2>2, <2>4, <2>5 DEF OnTrack
<1>4. QED
  BY <1>1, <1>3 DEF StepJob

(* In step, a plan that replays starts from the commit that dest's tip     *)
(* stands for.                                                             *)
LEMMA PlanInStep ==
    ASSUME SyncInv, ImportInv, FreshInv, NEW c \in Clones,
           PlanBranch(c), pc[c] = "plan", pc'[c] = "build"
    PROVE  StepJob(odb', pc'[c], job'[c])
<1> DEFINE j == job[c]
           k == job'[c]
<1>1. PICK pending, newest, plan : Decides(c, pending, newest, plan)
  BY BuildIsDecided
<1> DEFINE v == Resume(c)
<1>2. PlanBuild(c, v, plan.reuse) /\ v.do = "build"
  BY <1>1 DEF Decides
<1>3. /\ v.boundary \in have[c] /\ v.base \in have[c] /\ have[c] \subseteq Oids
      /\ ObjectDatabase(odb) /\ Len(odb) \in Nat /\ Oids = 1 .. Len(odb)
      /\ j.tip \in have[c] /\ NoOid \notin have[c]
  <2>1. v.boundary \in have[c] /\ v.base \in have[c]
    BY <1>2, ResumeKnown
  <2>2. have[c] \subseteq Oids /\ NoOid \notin Oids
    BY Untouched DEF Oids, NoOid
  <2>3. QED
    BY <2>1, <2>2 DEF SyncInv, CloneInv, JobRefs, Mirroring, ObjectDatabase, Oids
<1>4. /\ \/ plan.reuse.kind = "Replay" /\ plan.reuse.shared = NoOid
         \/ plan.reuse.kind \in {"FastForward", "Bridge"} /\ plan.reuse.shared \in have[c]
  <2>1. /\ pending = (IF v.do = "build" THEN PendingCommits(v.boundary, job[c].tip) ELSE <<>>)
        /\ newest = NewestShared(have[c], run[c].index, pending, v.base)
        /\ plan = Plan(c, v, pending, newest) /\ plan.do = "build"
    BY <1>1, <1>2 DEF Decides
  <2> HIDE DEF v
  <2>2. QED
    BY <2>1, PlanKnown
<1> HIDE DEF v
<1>5. /\ k.tip = j.tip /\ k.conflict = j.conflict /\ k.boundary = v.boundary /\ k.base = v.base
      /\ k.shared = plan.reuse.shared
      /\ plan.reuse.kind = "Replay" =>
            k.chain = v.base /\ k.pending = PendingCommits(v.boundary, j.tip)
  BY <1>2, PlannedJob
<1>6. SyncInv' /\ Extends(odb, odb')
  BY NextSyncInv, NextExtends DEF Next, Sync
<1>7. /\ ObjectDatabase(odb') /\ Len(odb') \in Nat
      /\ {k.tip, k.base, k.boundary, k.chain} \subseteq 1 .. Len(odb') /\ k.pending \in Seq(Nat)
  <2>1. ObjectDatabase(odb') /\ Len(odb') \in Nat
    BY <1>6 DEF SyncInv, ObjectDatabase
  <2>2. k.chain \in have'[c] /\ k.pending \in Seq(have'[c]) /\ Closed(odb', have'[c])
    BY <1>6 DEF SyncInv, CloneInv, JobRefs
  <2>3. have'[c] \subseteq 1 .. Len(odb') /\ have'[c] \subseteq Nat
    BY <2>2 DEF Closed
  <2> HIDE DEF k
  <2>4. k.pending \in Seq(Nat)
    BY <2>2, <2>3, SeqMonotonic
  <2>5. 1 .. Len(odb) \subseteq 1 .. Len(odb')
    BY <1>3, <1>6, <2>1 DEF Extends
  <2>6. QED
    BY <1>3, <1>5, <2>1, <2>2, <2>3, <2>4, <2>5
<1>8. ASSUME InStepIn(odb', k) PROVE OnTrack(odb', "build", k)
  <2>1. plan.reuse.kind = "Replay" /\ k.chain = v.base
        /\ k.pending = PendingCommits(v.boundary, j.tip)
    BY <1>3, <1>4, <1>5, <1>8 DEF InStepIn
  <2>2. odb' = odb
    BY <1>2, <2>1 DEF PlanBuild
  <2>3. v.boundary \in Trail(odb, j.tip) /\ odb[v.base].tree = FilterTree(odb[v.boundary].tree)
    BY <1>5, <1>8, <2>2 DEF InStepIn
  <2>4. PICK last : HiddenTail(odb, j.tip, v.boundary, PendingCommits(v.boundary, j.tip), last)
    BY <1>3, <2>3, PendingCut DEF ImportInv
  <2>5. Len(odb[j.tip].line) \in Nat /\ DOMAIN odb[j.tip].line = 1 .. Len(odb[j.tip].line)
    <3>1. odb[j.tip].line \in Seq(1 .. Len(odb))
      BY <1>3, LineInDatabase
    <3>2. QED
      BY <3>1, LenProperties
  <2> DEFINE line == odb[j.tip].line
             todo == PendingCommits(v.boundary, j.tip)
  <2>6. todo \in Seq(Nat)
    BY <1>7, <2>1
  <2> HIDE DEF line, todo
  <2>7. /\ last \in 1 .. Len(line) /\ line[last] = v.boundary /\ DOMAIN todo = 1 .. (last - 1)
        /\ \A i \in DOMAIN todo : todo[i] = line[last - i]
        /\ \A i \in 1 .. (last - 1) : line[i] \notin odb[v.boundary].anc
    BY <2>4, <2>5 DEF HiddenTail, line, todo
  <2>8. Len(todo) = last - 1 /\ Len(line) \in Nat
    <3>1. Len(todo) \in Nat /\ DOMAIN todo = 1 .. Len(todo) /\ Len(line) \in Nat
      BY <2>5, <2>6, LenProperties DEF line
    <3>2. QED
      BY <2>7, <3>1
  <2>9. Len(todo) < Len(line) /\ line[Len(todo) + 1] = v.boundary
    BY <2>7, <2>8
  <2>10. ASSUME NEW i \in 1 .. Len(todo)
         PROVE  todo[i] = line[Len(todo) + 1 - i] /\ todo[i] \notin odb[v.boundary].anc
    <3>1. i \in DOMAIN todo /\ Len(todo) + 1 - i = last - i /\ last - i \in 1 .. (last - 1)
      BY <2>7, <2>8
    <3>2. QED
      BY <2>7, <3>1
  <2>11. Caught(odb, line, v.boundary, todo, v.base)
    BY <2>3, <2>9, <2>10 DEF Caught
  <2>12. k.conflict = NoOid
    BY <1>5 DEF FreshInv, FreshJob
  <2>13. QED
    BY <1>5, <2>1, <2>2, <2>11, <2>12 DEF OnTrack, line, todo
<1>9. QED
  BY <1>7, <1>8 DEF StepJob

(* Replaying a commit onto the filtered tree of its first parent yields    *)
(* its own filtered tree.                                                  *)
LEMMA ReplayOnItsParent ==
    ASSUME NEW base \in Trees, NEW theirs \in Trees
    PROVE  Clashes(base, base, theirs) = {} /\ MergeTree(base, base, theirs) = theirs
<1>1. Clashes(base, base, theirs) = {}
  BY DEF Clashes
<1>2. theirs = [p \in Paths |-> theirs[p]]
  BY DEF Trees
<1>3. \A p \in Paths : (IF theirs[p] = base[p] THEN base[p] ELSE theirs[p]) = theirs[p]
  OBVIOUS
<1>4. QED
  BY <1>1, <1>2, <1>3 DEF MergeTree

LEMMA ReplayInStep ==
    ASSUME SyncInv, LinkInv, StepInv, NEW c \in Clones,
           ReplayToDest(c), pc[c] = "build", pc'[c] = "build"
    PROVE  StepJob(odb', pc'[c], job'[c])
<1> DEFINE j == job[c]
           k == job'[c]
           o == Head(j.pending)
           line == odb[j.tip].line
           n == Len(j.pending)
           base == FilterTree(TreeOf(ReplayParent(o)))
           ours == TreeOf(j.chain)
           theirs == FilterTree(TreeOf(o))
           merged == MergeTree(base, ours, theirs)
           clash == Clashes(base, ours, theirs) # {}
<1>1. /\ ObjectDatabase(odb) /\ Len(odb) \in Nat /\ Oids = 1 .. Len(odb)
      /\ {j.tip, j.base, j.boundary, j.chain} \subseteq 1 .. Len(odb)
      /\ j.pending \in Seq(Nat) /\ j.pending # <<>>
      /\ DOMAIN NoJob \subseteq DOMAIN j /\ c \in DOMAIN job
      /\ NextOid = Len(odb) + 1
  BY DEF SyncInv, CloneInv, JobRefs, Table, ObjectDatabase, Oids, NextOid, StepInv, StepJob,
     ReplayToDest
<1>2. /\ n \in Nat /\ n >= 1 /\ o = j.pending[1] /\ Tail(j.pending) \in Seq(Nat)
      /\ Len(Tail(j.pending)) = n - 1
      /\ \A i \in 1 .. (n - 1) : Tail(j.pending)[i] = j.pending[i + 1]
  <2>1. j.pending \in Seq(Nat) /\ j.pending # <<>>
    BY <1>1
  <2> HIDE DEF j
  <2>2. n \in Nat /\ n # 0
    BY <2>1, EmptySeq, LenProperties
  <2>3. o = j.pending[1]
    BY <2>1
  <2>4. Tail(j.pending) \in Seq(Nat) /\ Len(Tail(j.pending)) = n - 1
        /\ \A i \in 1 .. Len(Tail(j.pending)) : Tail(j.pending)[i] = j.pending[i + 1]
    BY <2>1, HeadTailProperties
  <2>5. QED
    BY <2>2, <2>3, <2>4
<1>3. \/ /\ LoopPrevented(o) \/ (~clash /\ merged = ours)
         /\ odb' = odb /\ job' = [job EXCEPT ![c].pending = Tail(@)]
      \/ /\ ~ LoopPrevented(o) /\ clash
         /\ odb' = odb /\ job' = [job EXCEPT ![c].pending = <<>>, ![c].conflict = o]
      \/ /\ ~ LoopPrevented(o) /\ ~ clash
         /\ Write(<<j.chain>>, merged, Marker("SourceToDest", j.branch, o))
         /\ job' = [job EXCEPT ![c].pending = Tail(@), ![c].chain = NextOid,
                               ![c].built = @ \cup {<<o, NextOid>>}]
  BY DEF ReplayToDest
<1> HIDE DEF o, n, merged, clash
<1>4. /\ k.tip = j.tip /\ k.base = j.base /\ k.boundary = j.boundary /\ k.shared = j.shared
      /\ \/ /\ LoopPrevented(o) \/ (~clash /\ merged = ours)
            /\ odb' = odb /\ k.pending = Tail(j.pending) /\ k.chain = j.chain
            /\ k.conflict = j.conflict
         \/ /\ ~ LoopPrevented(o) /\ clash
            /\ odb' = odb /\ k.pending = <<>> /\ k.chain = j.chain
         \/ /\ ~ LoopPrevented(o) /\ ~ clash
            /\ Write(<<j.chain>>, merged, Marker("SourceToDest", j.branch, o))
            /\ k.pending = Tail(j.pending) /\ k.chain = NextOid /\ k.conflict = j.conflict
  <2>1. CASE /\ LoopPrevented(o) \/ (~clash /\ merged = ours)
             /\ odb' = odb /\ job' = [job EXCEPT ![c].pending = Tail(@)]
    <3>1. /\ k.tip = j.tip /\ k.base = j.base /\ k.boundary = j.boundary /\ k.shared = j.shared
          /\ k.pending = Tail(j.pending) /\ k.chain = j.chain /\ k.conflict = j.conflict
      BY <1>1, <2>1 DEF NoJob
    <3>2. QED
      BY <2>1, <3>1
  <2>2. CASE /\ ~ LoopPrevented(o) /\ clash
             /\ odb' = odb /\ job' = [job EXCEPT ![c].pending = <<>>, ![c].conflict = o]
    <3>1. /\ k.tip = j.tip /\ k.base = j.base /\ k.boundary = j.boundary /\ k.shared = j.shared
          /\ k.pending = <<>> /\ k.chain = j.chain
      BY <1>1, <2>2 DEF NoJob
    <3>2. QED
      BY <2>2, <3>1
  <2>3. CASE /\ ~ LoopPrevented(o) /\ ~ clash
             /\ Write(<<j.chain>>, merged, Marker("SourceToDest", j.branch, o))
             /\ job' = [job EXCEPT ![c].pending = Tail(@), ![c].chain = NextOid,
                                   ![c].built = @ \cup {<<o, NextOid>>}]
    <3>1. /\ k.tip = j.tip /\ k.base = j.base /\ k.boundary = j.boundary /\ k.shared = j.shared
          /\ k.pending = Tail(j.pending) /\ k.chain = NextOid /\ k.conflict = j.conflict
      BY <1>1, <2>3 DEF NoJob
    <3>2. QED
      BY <2>3, <3>1
  <2>4. QED
    BY <1>3, <2>1, <2>2, <2>3
<1>5. \A parents, tree, marker : Write(parents, tree, marker) =>
         Len(odb') = NextOid /\ odb'[NextOid].tree = tree
  BY <1>1, WriteAppends
<1>6. /\ Extends(odb, odb') /\ Len(odb') \in Nat /\ k.pending \in Seq(Nat)
      /\ 1 .. Len(odb) \subseteq 1 .. Len(odb') /\ k.chain \in 1 .. Len(odb')
  <2>1. SyncInv' /\ Extends(odb, odb')
    BY NextSyncInv, NextExtends DEF Next, Sync
  <2>2. Len(odb') \in Nat /\ 1 .. Len(odb) \subseteq 1 .. Len(odb')
    BY <1>1, <2>1 DEF SyncInv, ObjectDatabase, Extends
  <2>3. k.pending \in Seq(Nat)
    <3>1. k.pending = Tail(j.pending) \/ k.pending = <<>>
      BY <1>4
    <3>2. QED
      BY <1>2, <3>1, EmptySeq
  <2>4. k.chain \in 1 .. Len(odb')
    BY <1>1, <1>4, <1>5, <2>2
  <2>5. QED
    BY <2>1, <2>2, <2>3, <2>4
<1> HIDE DEF j, k
<1>7. ASSUME InStepIn(odb', k) PROVE OnTrack(odb', "build", k)
  <2>1. /\ Trail(odb', j.tip) = Trail(odb, j.tip) /\ Trail(odb, j.tip) \subseteq 1 .. Len(odb)
        /\ \A x \in 1 .. Len(odb) : odb'[x] = odb[x]
        /\ Len(line) \in Nat /\ \A i \in 1 .. Len(line) : line[i] \in 1 .. Len(odb)
        /\ odb'[j.tip].line = line
    BY <1>1, <1>6, LineInDatabase DEF Extends, Trail
  <2>2. InStepIn(odb, j)
    <3>1. \A x \in Trail(odb, j.tip) : Looped(odb', x) <=> Looped(odb, x)
      BY <2>1 DEF Looped
    <3>2. odb'[j.base] = odb[j.base] /\ odb'[j.boundary] = odb[j.boundary]
      BY <1>1, <2>1
    <3>3. QED
      BY <1>4, <1>7, <2>1, <3>1, <3>2 DEF InStepIn
  <2>3. j.conflict = NoOid /\ Caught(odb, line, j.boundary, j.pending, j.chain)
    <3>1. StepJob(odb, pc[c], job[c])
      BY DEF StepInv
    <3>2. OnTrack(odb, pc[c], j)
      BY <2>2, <3>1 DEF StepJob, j
    <3>3. QED
      BY <3>2 DEF OnTrack
  <2> HIDE DEF line
  <2>4. /\ n < Len(line) /\ o = line[n] /\ o \notin odb[j.boundary].anc
        /\ ours = FilterTree(odb[line[n + 1]].tree)
    <3>1. n < Len(line) /\ 1 \in 1 .. n /\ n + 1 - 1 = n
          /\ odb[j.chain].tree = FilterTree(odb[line[n + 1]].tree)
      BY <1>2, <2>3 DEF Caught, n
    <3>2. o = line[n] /\ o \notin odb[j.boundary].anc
      BY <1>2, <2>3, <3>1 DEF Caught, n
    <3>3. j.chain # NoOid
      BY <1>1 DEF NoOid
    <3>4. QED
      BY <3>1, <3>2, <3>3 DEF TreeOf
  <2>5. n \in 1 .. Len(line) /\ n + 1 \in 1 .. Len(line) /\ n \in 1 .. (Len(line) - 1)
    BY <1>2, <2>1, <2>4
  <2>6. o \in Trail(odb, j.tip) /\ o \in 1 .. Len(odb) /\ line[n + 1] \in 1 .. Len(odb)
    <3>1. DOMAIN line = 1 .. Len(line)
      BY <1>1, LineInDatabase, LenProperties DEF line
    <3>2. QED
      BY <2>1, <2>4, <2>5, <3>1 DEF Trail, ToSet, line
  <2>7. ~ LoopPrevented(o)
    BY <2>2, <2>4, <2>6 DEF InStepIn, Looped, LoopPrevented, VerifySelf
  <2>8. ReplayParent(o) = line[n + 1]
    <3>1. Linked(odb, j.tip)
      BY <1>1 DEF LinkInv
    <3>2. QED
      BY <2>4, <2>5, <3>1 DEF Linked, ReplayParent, FirstParent, line
  <2>9. base = ours /\ base \in Trees /\ theirs \in Trees /\ theirs = FilterTree(odb[o].tree)
    <3>1. TreeOf(line[n + 1]) = odb[line[n + 1]].tree /\ TreeOf(o) = odb[o].tree
      BY <2>6 DEF TreeOf, NoOid
    <3>2. odb[line[n + 1]].tree \in Trees /\ odb[o].tree \in Trees
      BY <1>1, <2>6 DEF ObjectDatabase, WellFormed
    <3>3. QED
      BY <2>4, <2>8, <3>1, <3>2, TreesClosed
  <2> HIDE DEF base, ours, theirs
  <2>10. ~ clash /\ merged = theirs
    BY <2>9, ReplayOnItsParent DEF clash, merged
  <2>11. odb'[k.chain].tree = theirs /\ k.pending = Tail(j.pending) /\ k.conflict = NoOid
    <3>1. CASE odb' = odb /\ k.pending = Tail(j.pending) /\ k.chain = j.chain
               /\ k.conflict = j.conflict /\ merged = ours
      <4>1. ours = odb[j.chain].tree
        BY <1>1 DEF ours, TreeOf, NoOid
      <4>2. QED
        BY <2>3, <2>10, <3>1, <4>1
    <3>2. CASE /\ Write(<<j.chain>>, merged, Marker("SourceToDest", j.branch, o))
               /\ k.pending = Tail(j.pending) /\ k.chain = NextOid /\ k.conflict = j.conflict
      BY <1>5, <2>3, <2>10, <3>2
    <3>3. QED
      BY <1>4, <2>7, <2>10, <3>1, <3>2
  <2>12. /\ Len(k.pending) = n - 1 /\ Len(k.pending) < Len(line)
         /\ line[Len(k.pending) + 1] = o /\ odb'[o] = odb[o]
    BY <1>2, <2>1, <2>4, <2>5, <2>6, <2>11
  <2>13. ASSUME NEW i \in 1 .. Len(k.pending)
         PROVE  k.pending[i] = line[Len(k.pending) + 1 - i]
                /\ k.pending[i] \notin odb'[j.boundary].anc
    <3>1. i \in 1 .. (n - 1) /\ i + 1 \in 1 .. n /\ n + 1 - (i + 1) = (n - 1) + 1 - i
      BY <1>2, <2>12
    <3>2. k.pending[i] = j.pending[i + 1]
      BY <1>2, <2>11, <3>1
    <3>3. j.pending[i + 1] = line[n + 1 - (i + 1)] /\ j.pending[i + 1] \notin odb[j.boundary].anc
      BY <2>3, <3>1 DEF Caught, n
    <3>4. odb'[j.boundary] = odb[j.boundary]
      BY <1>1, <2>1
    <3>5. QED
      BY <2>12, <3>1, <3>2, <3>3, <3>4
  <2>14. Caught(odb', line, j.boundary, k.pending, k.chain)
    BY <2>9, <2>11, <2>12, <2>13 DEF Caught
  <2>15. QED
    BY <1>4, <2>1, <2>11, <2>14 DEF OnTrack, line
<1>8. QED
  BY <1>1, <1>4, <1>6, <1>7 DEF StepJob, j, k

LEMMA SealInStep ==
    ASSUME SyncInv, LinkInv, StepInv, NEW c \in Clones,
           SealToDest(c), pc[c] = "build", pc'[c] = "push_dest"
    PROVE  StepJob(odb', pc'[c], job'[c])
<1> DEFINE j == job[c]
           k == job'[c]
<1>1. /\ ObjectDatabase(odb) /\ Len(odb) \in Nat /\ Oids = 1 .. Len(odb)
      /\ {j.tip, j.base, j.boundary, j.chain} \subseteq 1 .. Len(odb)
      /\ j.pending \in Seq(Nat) /\ j.pending = <<>>
      /\ DOMAIN NoJob \subseteq DOMAIN j /\ c \in DOMAIN job /\ c \in DOMAIN pc
      /\ NextOid = Len(odb) + 1
  BY DEF SyncInv, CloneInv, JobRefs, Table, ObjectDatabase, Oids, NextOid, StepInv, StepJob,
     SealToDest
<1>2. \/ odb' = odb /\ job' = job
      \/ /\ \E marker : Write(<<j.chain>>, TreeOf(j.chain), marker)
         /\ job' = [job EXCEPT ![c].chain = NextOid]
  BY <1>1 DEF SealToDest, NextBranch, Abort
<1>3. /\ k.tip = j.tip /\ k.base = j.base /\ k.boundary = j.boundary /\ k.shared = j.shared
      /\ k.pending = j.pending /\ k.conflict = j.conflict
      /\ k.chain \in 1 .. Len(odb') /\ odb'[k.chain].tree = odb[j.chain].tree
      /\ Extends(odb, odb') /\ Len(odb') \in Nat
  <2>1. CASE odb' = odb /\ job' = job
    BY <1>1, <2>1 DEF Extends
  <2>2. CASE /\ \E marker : Write(<<j.chain>>, TreeOf(j.chain), marker)
             /\ job' = [job EXCEPT ![c].chain = NextOid]
    <3>1. /\ k.tip = j.tip /\ k.base = j.base /\ k.boundary = j.boundary /\ k.shared = j.shared
          /\ k.pending = j.pending /\ k.conflict = j.conflict /\ k.chain = NextOid
      BY <1>1, <2>2 DEF NoJob
    <3>2. /\ Len(odb') = NextOid /\ odb'[NextOid].tree = TreeOf(j.chain) /\ Extends(odb, odb')
          /\ NextOid \in 1 .. Len(odb')
      BY <1>1, <2>2, WriteAppends
    <3>3. TreeOf(j.chain) = odb[j.chain].tree
      BY <1>1 DEF TreeOf, NoOid
    <3>4. Len(odb') \in Nat
      BY <1>1, <3>2
    <3>5. QED
      BY <3>1, <3>2, <3>3, <3>4
  <2>3. QED
    BY <1>2, <2>1, <2>2
<1> HIDE DEF j, k
<1>4. ASSUME InStepIn(odb', k) PROVE OnTrack(odb', "push_dest", k)
  <2>1. /\ Trail(odb', j.tip) = Trail(odb, j.tip) /\ Trail(odb, j.tip) \subseteq 1 .. Len(odb)
        /\ \A x \in 1 .. Len(odb) : odb'[x] = odb[x]
    BY <1>1, <1>3, LineInDatabase DEF Extends, Trail
  <2>2. InStepIn(odb, j)
    <3>1. \A x \in Trail(odb, j.tip) : Looped(odb', x) <=> Looped(odb, x)
      BY <2>1 DEF Looped
    <3>2. odb'[j.base] = odb[j.base] /\ odb'[j.boundary] = odb[j.boundary]
      BY <1>1, <2>1
    <3>3. QED
      BY <1>3, <1>4, <2>1, <3>1, <3>2 DEF InStepIn
  <2>3. j.conflict = NoOid /\ Caught(odb, odb[j.tip].line, j.boundary, j.pending, j.chain)
    <3>1. StepJob(odb, pc[c], job[c])
      BY DEF StepInv
    <3>2. OnTrack(odb, pc[c], j)
      BY <2>2, <3>1 DEF StepJob, j
    <3>3. QED
      BY <3>2 DEF OnTrack
  <2>4. Len(j.pending) = 0
    BY <1>1
  <2>5. odb[j.tip].line[1] = j.tip
    BY <1>1 DEF LinkInv, Linked
  <2>6. odb[j.chain].tree = FilterTree(odb[j.tip].tree)
    BY <2>3, <2>4, <2>5 DEF Caught
  <2>7. odb'[j.tip] = odb[j.tip]
    BY <1>1, <2>1
  <2>8. QED
    BY <1>3, <2>3, <2>6, <2>7 DEF OnTrack
<1>5. 1 .. Len(odb) \subseteq 1 .. Len(odb')
  BY <1>1, <1>3 DEF Extends
<1>6. QED
  BY <1>1, <1>3, <1>4, <1>5 DEF StepJob, j, k

LEMMA StepNext ==
    SyncInv /\ ImportInv /\ LinkInv /\ FreshInv /\ StepInv /\ [Next]_vars => StepInv'
<1> SUFFICES ASSUME SyncInv, ImportInv, LinkInv, FreshInv, StepInv, [Next]_vars,
                    NEW c \in Clones
             PROVE  StepJob(odb', pc'[c], job'[c])
  BY DEF StepInv
<1>1. CASE pc'[c] \notin Building \/ pc'[c] = "plan"
  BY <1>1 DEF StepJob, Building
<1>2. CASE pc'[c] = pc[c] /\ run'[c] = run[c] /\ job'[c] = job[c]
  <2>1. ObjectDatabase(odb) /\ Extends(odb, odb') /\ Len(odb') \in Nat
    <3>1. SyncInv'
      BY NextSyncInv
    <3>2. QED
      BY <3>1, NextExtends DEF SyncInv, ObjectDatabase
  <2>2. StepJob(odb, pc[c], job[c])
    BY DEF StepInv
  <2>3. StepJob(odb', pc[c], job[c])
    BY <2>1, <2>2, StepKept
  <2>4. QED
    BY <1>2, <2>3
<1>3. CASE PlanBranch(c) /\ pc[c] = "plan" /\ pc'[c] = "build"
  BY <1>3, PlanInStep
<1>4. CASE ReplayToDest(c) /\ pc[c] = "build" /\ pc'[c] = "build"
  BY <1>4, ReplayInStep
<1>5. CASE SealToDest(c) /\ pc[c] = "build" /\ pc'[c] = "push_dest"
  BY <1>5, SealInStep
<1>6. QED
  BY <1>1, <1>2, <1>3, <1>4, <1>5, BuildingStep

LEMMA StepInvariant == Spec => [](SyncInv /\ ImportInv /\ LinkInv /\ FreshInv /\ StepInv)
<1>1. Init => SyncInv /\ ImportInv /\ LinkInv /\ FreshInv /\ StepInv
  <2>1. Init => StepInv
    BY DEF Init, StepInv, StepJob
  <2>2. QED
    BY <2>1, InitSyncInv, ImportInit, LinkInit, FreshInit
<1>2. SyncInv /\ ImportInv /\ LinkInv /\ FreshInv /\ StepInv /\ [Next]_vars
        => (SyncInv /\ ImportInv /\ LinkInv /\ FreshInv /\ StepInv)'
  BY NextSyncInv, ImportNext, LinkNext, FreshNext, StepNext
<1>3. QED
  BY <1>1, <1>2, PTL DEF Spec

(* Where source and dest are in step when a branch is planned, the replay  *)
(* of its commits one by one (sync/mod.rs's chain of three-way merges, the *)
(* skipping of commits that change nothing, the filter of each tree) never *)
(* conflicts and ends in exactly the filtered tree of the source tip,      *)
(* however long the line and whatever merges it holds.                     *)
THEOREM StaysInStepHolds == Spec => StaysInStep
<1> DEFINE Stays ==
      \A c \in Clones, b \in Branches :
        DestPush(c, b) /\ InStep(job[c]) =>
            /\ job[c].conflict = NoOid
            /\ TreeOf(dst'[b]) = FilterTree(TreeOf(job[c].tip))
<1>1. ASSUME SyncInv, StepInv, [Next]_vars PROVE Stays
  <2> SUFFICES ASSUME NEW c \in Clones, NEW b \in Branches, DestPush(c, b), InStep(job[c])
               PROVE  /\ job[c].conflict = NoOid
                      /\ TreeOf(dst'[b]) = FilterTree(TreeOf(job[c].tip))
    OBVIOUS
  <2> DEFINE j == job[c]
  <2>1. PushToDest(c) /\ j.branch = b
    BY <1>1, PushStep DEF SyncInv, Table
  <2>2. dst'[b] = j.chain /\ pc[c] = "push_dest"
    BY <1>1, <2>1 DEF PushToDest, SyncInv
  <2>3. /\ {j.tip, j.base, j.boundary, j.chain} \subseteq 1 .. Len(odb)
        /\ InStepIn(odb, j) => OnTrack(odb, "push_dest", j)
    BY <1>1, <2>2 DEF StepInv, StepJob
  <2> HIDE DEF j
  <2>4. /\ TreeOf(j.base) = odb[j.base].tree /\ TreeOf(j.boundary) = odb[j.boundary].tree
        /\ TreeOf(j.chain) = odb[j.chain].tree /\ TreeOf(j.tip) = odb[j.tip].tree
    BY <2>3 DEF TreeOf, NoOid
  <2>5. InStepIn(odb, j)
    <3>1. j.boundary \in Trail(odb, j.tip)
      BY DEF InStep, OnLine, Line, Trail, ToSet, j
    <3>2. \A o \in Trail(odb, j.tip) \ odb[j.boundary].anc : ~ Looped(odb, o)
      BY DEF InStep, Trail, Line, Anc, LoopPrevented, VerifySelf, Looped, j
    <3>3. QED
      BY <2>4, <3>1, <3>2 DEF InStep, InStepIn, j
  <2>6. j.conflict = NoOid /\ odb[j.chain].tree = FilterTree(odb[j.tip].tree)
    BY <2>3, <2>5 DEF OnTrack
  <2>7. QED
    BY <2>2, <2>4, <2>6 DEF j
<1>2. Spec => [](SyncInv /\ StepInv)
  BY StepInvariant, PTL
<1>3. SyncInv /\ StepInv /\ [Next]_vars => [Stays]_vars
  BY <1>1
<1>4. QED
  BY <1>2, <1>3, PTL DEF Spec, StaysInStep

(***************************************************************************)
(* A run publishes no rival of a copy that its index knows of.  What it    *)
(* has still to replay is either not in the index, or one of the mapped    *)
(* commits is in the history of what it builds on: Accounted.              *)
(***************************************************************************)
Accounted(index, source, below) ==
    (\E r \in index : r.source = source) =>
        \E r \in index : r.source = source /\ r.canonical \in below
RivalJob(db, p, r, j) ==
    p = "build" =>
        \A i \in DOMAIN j.pending :
            \/ Looped(db, j.pending[i])
            \/ Accounted(r.index, j.pending[i], db[j.chain].anc)
RivalInv == \A c \in Clones : RivalJob(odb, pc[c], run[c], job[c])

(* What the index resolves a source commit to, it has a record of.         *)
LEMMA ResolvedRecord ==
    ASSUME NEW H, NEW index, NEW source, NEW excluded
    PROVE  LET lookup == ResolveForAnchor(H, index, source, excluded)
           IN  /\ lookup.kind \in {"None", "Contradictory", "Resolved"}
               /\ lookup.kind = "None" => \A r \in index : r.source # source
               /\ lookup.kind = "Resolved" =>
                     \E r \in index : r.source = source /\ r.canonical = lookup.dest
<1> DEFINE records == {r \in index : r.source = source}
           others == {r \in records : r.branch # excluded}
           dests == {r.canonical : r \in IF others = {} THEN records ELSE others}
           common == {d \in dests : \A other \in dests : IsAncestor(d, other)}
           lookup == ResolveForAnchor(H, index, source, excluded)
<1>1. CASE records = {}
  <2>1. lookup = [kind |-> "None", dest |-> NoOid]
    BY <1>1 DEF ResolveForAnchor
  <2>2. QED
    BY <1>1, <2>1
<1>2. CASE records # {} /\ (~(dests \subseteq H) \/ common = {})
  <2>1. lookup = [kind |-> "Contradictory", dest |-> NoOid]
    BY <1>2 DEF ResolveForAnchor
  <2>2. QED
    BY <2>1
<1>3. CASE records # {} /\ ~(~(dests \subseteq H) \/ common = {})
  <2>1. lookup = [kind |-> "Resolved", dest |-> CHOOSE d \in common : TRUE]
    BY <1>3 DEF ResolveForAnchor
  <2>2. (CHOOSE d \in common : TRUE) \in common
    BY <1>3
  <2>3. lookup.kind = "Resolved" /\ lookup.dest \in dests
    BY <2>1, <2>2
  <2> HIDE DEF lookup
  <2>4. \E r \in index : r.source = source /\ r.canonical = lookup.dest
    BY <2>3
  <2>5. QED
    BY <2>3, <2>4 DEF lookup
<1>4. QED
  BY <1>1, <1>2, <1>3

(* What comes after the newest commit that some other line projects is not *)
(* mapped, or dest's tip has it.                                           *)
LEMMA AfterNewestShared ==
    ASSUME NEW H, NEW index, NEW pending \in Seq(Nat), NEW base,
           NEW i \in DOMAIN pending, NEW newest, newest = NewestShared(H, index, pending, base),
           newest.at < i
    PROVE  Looped(odb, pending[i]) \/ Accounted(index, pending[i], Anc(base))
<1> DEFINE mapped(k) == SharedMapping(H, index, pending[k], base)
           decisive == {k \in DOMAIN pending :
                          /\ ~LoopPrevented(pending[k])
                          /\ mapped(k).kind \in {"Contradictory", "NotContained"}}
           last == CHOOSE k \in decisive : \A j \in decisive : j <= k
<1>1. Len(pending) \in Nat /\ DOMAIN pending = 1 .. Len(pending)
  BY LenProperties
<1>2. i \notin decisive
  <2>1. CASE decisive = {}
    BY <2>1
  <2>2. CASE decisive # {}
    <3>1. decisive \in SUBSET (0 .. Len(pending))
      BY <1>1
    <3>2. \E k \in decisive : \A j \in decisive : j <= k
      BY <1>1, <2>2, <3>1, GreatestBounded
    <3>3. last \in decisive /\ \A j \in decisive : j <= last
      BY <3>2
    <3>4. newest.at = last
      BY <2>2 DEF NewestShared
    <3> HIDE DEF last, decisive
    <3>5. i \in Nat /\ last \in Nat /\ last < i
      BY <1>1, <3>1, <3>3, <3>4
    <3>6. QED
      BY <3>3, <3>5
  <2>3. QED
    BY <2>1, <2>2
<1>3. LoopPrevented(pending[i]) => Looped(odb, pending[i])
  BY DEF LoopPrevented, VerifySelf, Looped
<1>4. CASE mapped(i).kind \notin {"Contradictory", "NotContained"}
  <2> DEFINE lookup == ResolveForAnchor(H, index, pending[i], AnyBranch)
  <2>1. /\ lookup.kind \in {"None", "Contradictory", "Resolved"}
        /\ lookup.kind = "None" => \A r \in index : r.source # pending[i]
        /\ lookup.kind = "Resolved" =>
              \E r \in index : r.source = pending[i] /\ r.canonical = lookup.dest
    BY ResolvedRecord
  <2>2. lookup.kind # "Contradictory"
        /\ (lookup.kind = "Resolved" => IsAncestor(lookup.dest, base))
    BY <1>4 DEF SharedMapping
  <2> HIDE DEF lookup
  <2>3. Accounted(index, pending[i], Anc(base))
    BY <2>1, <2>2 DEF Accounted, IsAncestor
  <2>4. QED
    BY <2>3
<1>5. QED
  BY <1>2, <1>3, <1>4

LEMMA LineFalls ==
    ASSUME ObjectDatabase(odb), ImportLog(odb), NEW tip \in Oids
    PROVE  LET line == odb[tip].line
           IN  /\ Len(line) \in Nat /\ DOMAIN line = 1 .. Len(line)
               /\ \A i, k \in DOMAIN line : line[i] = line[k] => i = k
<1> DEFINE line == odb[tip].line
<1>1. tip \in 1 .. Len(odb) /\ Straight(odb, tip)
  BY DEF Oids, ImportLog
<1>2. \A i, k \in DOMAIN line : i < k => line[k] < line[i]
  BY <1>1 DEF Straight
<1>3. line \in Seq(1 .. Len(odb)) /\ \A i \in 1 .. Len(line) : line[i] \in 1 .. Len(odb)
  BY <1>1, LineInDatabase
<1> HIDE DEF line
<1>4. Len(line) \in Nat /\ DOMAIN line = 1 .. Len(line)
  BY <1>3, LenProperties
<1>5. ASSUME NEW i \in DOMAIN line, NEW k \in DOMAIN line, line[i] = line[k] PROVE i = k
  <2>1. i \in Nat /\ k \in Nat /\ line[i] \in Nat /\ line[k] \in Nat
    BY <1>3, <1>4
  <2>2. ~ (i < k) /\ ~ (k < i)
    BY <1>2, <1>5, <2>1
  <2>3. QED
    BY <2>1, <2>2
<1>6. QED
  BY <1>4, <1>5 DEF line

(* What is pending above a commit that was pending itself was pending      *)
(* above it then.                                                          *)
LEMMA PendingAbovePending ==
    ASSUME ObjectDatabase(odb), ImportLog(odb), NEW tip \in Oids, NEW boundary,
           NEW before, before = PendingCommits(boundary, tip), NEW at \in DOMAIN before,
           NEW after, after = PendingCommits(before[at], tip), NEW i \in DOMAIN after
    PROVE  at + i \in DOMAIN before /\ after[i] = before[at + i] /\ at + i \in Nat /\ at < at + i
<1> DEFINE line == odb[tip].line
           hiding == {x \in 1 .. Len(line) : line[x] \in Anc(boundary)}
           hidden == IF hiding # {} THEN Min(hiding) ELSE 0
           n == IF hidden = 0 THEN Len(line) ELSE hidden - 1
<1>1. /\ Len(line) \in Nat /\ DOMAIN line = 1 .. Len(line)
      /\ \A x, y \in DOMAIN line : line[x] = line[y] => x = y
  BY LineFalls
<1>2. before = [x \in 1 .. n |-> line[n + 1 - x]]
  BY DEF PendingCommits, SelectInSeq, Line
<1> HIDE DEF line
<1>3. hidden \in 0 .. Len(line)
  BY <1>1, FirstIndex
<1> HIDE DEF hidden
<1>4. n \in 0 .. Len(line)
  BY <1>1, <1>3
<1> HIDE DEF n
<1>5. DOMAIN before = 1 .. n /\ at \in 1 .. n /\ before[at] = line[n + 1 - at]
      /\ n + 1 - at \in DOMAIN line
  BY <1>1, <1>2, <1>4
<1>6. before[at] \in Trail(odb, tip)
  BY <1>5 DEF Trail, ToSet, line
<1>7. PICK last : HiddenTail(odb, tip, before[at], after, last)
  BY <1>6, PendingCut
<1>8. /\ last \in DOMAIN line /\ line[last] = before[at] /\ i \in 1 .. (last - 1)
      /\ after[i] = line[last - i]
  BY <1>7 DEF HiddenTail, line
<1>9. last = n + 1 - at
  BY <1>1, <1>5, <1>8
<1>10. at + i \in 1 .. n /\ n + 1 - (at + i) = last - i
  BY <1>4, <1>5, <1>8, <1>9
<1>11. QED
  BY <1>2, <1>4, <1>5, <1>8, <1>10

(* Nothing above the nearest mapped commit of a line is mapped.            *)
LEMMA UnmappedAbove ==
    ASSUME ObjectDatabase(odb), ImportLog(odb), NEW tip \in Oids, NEW index,
           NearestMapped(index, tip) # 0, NEW pending,
           pending = PendingCommits(Line(tip)[NearestMapped(index, tip)], tip),
           NEW i \in DOMAIN pending
    PROVE  \A r \in index : r.source # pending[i]
<1> DEFINE line == odb[tip].line
           mapped == {x \in 1 .. Len(line) : \E r \in index : r.source = line[x]}
           n == IF mapped # {} THEN Min(mapped) ELSE 0
<1>1. /\ Len(line) \in Nat /\ DOMAIN line = 1 .. Len(line)
      /\ \A x, y \in DOMAIN line : line[x] = line[y] => x = y
  BY LineFalls
<1>2. NearestMapped(index, tip) = n /\ n # 0
  BY DEF NearestMapped, SelectInSeq, Line
<1> HIDE DEF line
<1>3. mapped # {} /\ mapped \in SUBSET Nat
  BY <1>1, <1>2
<1>4. n \in mapped /\ \A x \in mapped : n <= x
  BY <1>3, LeastNatural
<1> HIDE DEF n
<1>5. n \in DOMAIN line /\ pending = PendingCommits(line[n], tip) /\ line[n] \in Trail(odb, tip)
  BY <1>1, <1>2, <1>4 DEF line, Line, Trail, ToSet
<1>6. PICK last : HiddenTail(odb, tip, line[n], pending, last)
  BY <1>5, PendingCut
<1>7. last \in DOMAIN line /\ line[last] = line[n] /\ i \in 1 .. (last - 1)
      /\ pending[i] = line[last - i]
  BY <1>6 DEF HiddenTail, line
<1>8. last = n /\ n - i \in 1 .. Len(line) /\ n - i < n /\ n - i \in Nat /\ n \in Nat
  BY <1>1, <1>5, <1>7
<1>9. n - i \notin mapped
  BY <1>4, <1>8
<1>10. QED
  BY <1>7, <1>8, <1>9

(* A reused projection is, or the bridge to it joins, what dest's tip has. *)
LEMMA ReuseKeepsBase ==
    ASSUME ObjectDatabase(odb), NEW newest, NEW pending, NEW boundary, NEW base \in Oids, NEW branch,
           newest.dest \in Oids,
           PlanProjectionReuse(newest, pending, boundary, base, branch).kind = "FastForward"
    PROVE  Anc(base) \subseteq Anc(newest.dest)
<1> DEFINE line == Line(newest.dest)
           accounting == AccountingSet(base, branch)
           hits == {x \in 1 .. Len(line) : line[x] \in accounting}
           b == IF hits # {} THEN Min(hits) ELSE 0
<1>1. line \in Seq(Anc(newest.dest)) /\ Anc(newest.dest) \subseteq Oids
      /\ \A a \in Anc(newest.dest) : Anc(a) \subseteq Anc(newest.dest)
  BY CommitFacts
<1>2. b # 0 /\ line[b] = base
  <2>1. SelectInSeq(line, LAMBDA o : o \in accounting) = b
    BY DEF SelectInSeq
  <2> HIDE DEF b, hits, accounting, line
  <2>2. QED
    BY <2>1 DEF PlanProjectionReuse, accounting, line
<1> HIDE DEF line, accounting
<1>3. Len(line) \in Nat
  BY <1>1, LenProperties
<1>4. b \in 0 .. Len(line)
  BY <1>3, FirstIndex
<1> HIDE DEF b
<1>5. b \in 1 .. Len(line)
  BY <1>2, <1>3, <1>4
<1>6. base \in Anc(newest.dest)
  BY <1>1, <1>2, <1>5, ElementOfSeq
<1>7. QED
  BY <1>1, <1>6

(* A branch is planned from dest's tip, which reuse may build on, or from  *)
(* the anchor, above which nothing is mapped.                              *)
LEMMA ResumesAt ==
    ASSUME SyncInv, NEW c \in Clones, Resume(c).do = "build", FreshJob("plan", job[c])
    PROVE  \/ job[c].seen # NoOid /\ Resume(c).mode = "FastForwardOnly"
           \/ /\ job[c].seen = NoOid \/ Resume(c).mode # "FastForwardOnly"
              /\ NearestMapped(run[c].index, job[c].tip) # 0
              /\ Resume(c).boundary =
                    Line(job[c].tip)[NearestMapped(run[c].index, job[c].tip)]
<1> DEFINE j == job[c]
           n == NearestMapped(run[c].index, j.tip)
           anchor == DestAnchor(have[c], run[c].index, j.tip, j.branch)
           point == DestResumePoint(have[c], j.tip, j.seen, j.branch)
<1>1. n = 0 => anchor.kind = "None"
  BY DEF DestAnchor
<1>2. n # 0 => anchor.source = Line(j.tip)[n]
  BY DEF DestAnchor
<1>3. \/ j.seen # NoOid /\ Resume(c) = Verdict("build", point.at, j.seen, j.mode)
      \/ /\ j.seen # NoOid /\ anchor.kind \notin {"Contradictory", "None"}
         /\ Resume(c) = Verdict("build", anchor.source, anchor.dest, "ForceMirrorOnly")
      \/ /\ j.seen = NoOid /\ anchor.kind = "Resolved"
         /\ Resume(c) = Verdict("build", anchor.source, anchor.dest, j.mode)
  <2> HIDE DEF anchor, point
  <2>1. Halt.do = "halt" /\ Skip.do = "skip" /\ Stop.do = "abort"
    BY DEF Halt, Skip, Stop, Verdict
  <2>2. QED
    BY <2>1 DEF Resume, anchor, point
<1> HIDE DEF anchor, point, n
<1>4. CASE j.seen # NoOid /\ Resume(c) = Verdict("build", point.at, j.seen, j.mode)
  <2>1. j.mode = "FastForwardOnly"
    BY <1>4 DEF FreshJob
  <2>2. QED
    BY <1>4, <2>1 DEF Verdict
<1>5. CASE /\ j.seen # NoOid /\ anchor.kind \notin {"Contradictory", "None"}
           /\ Resume(c) = Verdict("build", anchor.source, anchor.dest, "ForceMirrorOnly")
  BY <1>1, <1>2, <1>5 DEF Verdict, n
<1>6. CASE /\ j.seen = NoOid /\ anchor.kind = "Resolved"
           /\ Resume(c) = Verdict("build", anchor.source, anchor.dest, j.mode)
  BY <1>1, <1>2, <1>6 DEF Verdict, n
<1>7. QED
  BY <1>3, <1>4, <1>5, <1>6

LEMMA AccountedAbove ==
    ASSUME NEW index, NEW source, NEW below, NEW above, below \subseteq above,
           Accounted(index, source, below)
    PROVE  Accounted(index, source, above)
BY DEF Accounted

(* What a run plans to replay has no rival.                                *)
LEMMA PlanHasNoRival ==
    ASSUME SyncInv, ImportInv, FreshInv, NEW c \in Clones,
           PlanBranch(c), pc[c] = "plan", pc'[c] = "build"
    PROVE  RivalJob(odb', "build", run'[c], job'[c])
<1> DEFINE j == job[c]
           k == job'[c]
           v == Resume(c)
           index == run[c].index
<1>1. PICK pending, newest, plan : Decides(c, pending, newest, plan)
  BY BuildIsDecided
<1>2. /\ PlanBuild(c, v, plan.reuse) /\ v.do = "build" /\ plan.do = "build"
      /\ pending = PendingCommits(v.boundary, j.tip)
      /\ newest = NewestShared(have[c], index, pending, v.base)
      /\ plan = Plan(c, v, pending, newest) /\ run' = run
  BY <1>1, BuildIsDecided DEF Decides
<1>3. /\ v.boundary \in Oids /\ v.base \in Oids /\ j.tip \in Oids
      /\ have[c] \subseteq Oids /\ NoOid \notin have[c]
      /\ ObjectDatabase(odb) /\ ImportLog(odb) /\ Oids = 1 .. Len(odb)
  <2>1. v.boundary \in have[c] /\ v.base \in have[c]
    BY <1>2, ResumeKnown
  <2>2. have[c] \subseteq Oids /\ NoOid \notin Oids
    BY Untouched DEF Oids, NoOid
  <2>3. QED
    BY <2>1, <2>2 DEF SyncInv, CloneInv, JobRefs, Mirroring, ImportInv, Oids
<1>4. FreshJob("plan", j)
  BY DEF FreshInv
<1>5. \/ j.seen # NoOid /\ v.mode = "FastForwardOnly"
      \/ /\ j.seen = NoOid \/ v.mode # "FastForwardOnly"
         /\ NearestMapped(index, j.tip) # 0
         /\ v.boundary = Line(j.tip)[NearestMapped(index, j.tip)]
  BY <1>2, <1>4, ResumesAt
<1> DEFINE reuse == PlanProjectionReuse(newest, pending, v.boundary, v.base, j.branch)
<1>6. /\ \/ plan.reuse = [kind |-> "Replay", shared |-> NoOid, projection |-> NoOid]
         \/ plan.reuse = reuse
      /\ j.seen # NoOid /\ v.mode = "FastForwardOnly" => plan.reuse = reuse
      /\ j.seen = NoOid \/ v.mode # "FastForwardOnly" => plan.reuse.kind = "Replay"
  <2> HIDE DEF reuse, v, j
  <2>1. v.do = "build" /\ plan.do = "build" /\ plan = Plan(c, v, pending, newest)
    BY <1>2
  <2>2. QED
    BY <2>1 DEF Plan, reuse, j
<1>7. /\ \/ plan.reuse.kind = "Replay" /\ plan.reuse.shared = NoOid
         \/ plan.reuse.kind \in {"FastForward", "Bridge"}
      /\ plan.reuse.kind \in {"FastForward", "Bridge"} => plan.reuse.projection \in have[c]
  <2>1. pending = (IF v.do = "build" THEN PendingCommits(v.boundary, job[c].tip) ELSE <<>>)
    BY <1>2
  <2> HIDE DEF v, index
  <2>2. newest = NewestShared(have[c], run[c].index, pending, v.base)
    BY <1>2 DEF index
  <2>3. QED
    BY <1>2, <2>1, <2>2, PlanKnown
<1> HIDE DEF v
<1>8. /\ k.chain = IF plan.reuse.kind = "Bridge" THEN NextOid
                   ELSE IF plan.reuse.kind = "FastForward" THEN plan.reuse.projection
                   ELSE v.base
      /\ k.pending = PendingCommits(IF plan.reuse.kind = "Replay" THEN v.boundary
                                    ELSE plan.reuse.shared, j.tip)
  BY <1>2, PlannedJob
<1>9. Extends(odb, odb') /\ \A x \in Oids : odb'[x] = odb[x]
  BY <1>3, NextExtends DEF Next, Sync, Extends
<1>10. pending \in Seq(Nat) /\ DOMAIN pending = 1 .. Len(pending) /\ Len(pending) \in Nat
       /\ \A i \in DOMAIN pending : pending[i] \in Oids
  <2>1. pending \in Seq(Anc(j.tip)) /\ Anc(j.tip) \subseteq Oids
    BY <1>2, <1>3, PendingCommitsOfTip, CommitFacts
  <2>2. Oids \subseteq Nat
    BY DEF Oids
  <2>3. pending \in Seq(Oids) /\ pending \in Seq(Nat)
    BY <2>1, <2>2, SeqMonotonic
  <2>4. QED
    BY <2>3, LenProperties, ElementOfSeq
<1>11. ASSUME NEW i \in DOMAIN pending
       PROVE  Looped(odb', pending[i]) <=> Looped(odb, pending[i])
  BY <1>9, <1>10 DEF Looped
<1> HIDE DEF k, j, index
<1>12. CASE plan.reuse.kind = "Replay"
  <2>1. k.pending = pending /\ k.chain = v.base /\ odb'[k.chain].anc = Anc(v.base)
    BY <1>2, <1>3, <1>8, <1>9, <1>12 DEF Anc
  <2>2. ASSUME NEW i \in DOMAIN pending
        PROVE  Looped(odb', pending[i]) \/ Accounted(index, pending[i], Anc(v.base))
    <3>1. CASE j.seen # NoOid /\ v.mode = "FastForwardOnly"
      <4>1. newest.at = 0
        BY <1>6, <1>12, <3>1 DEF PlanProjectionReuse, reuse
      <4>2. newest.at < i
        BY <1>10, <4>1
      <4>3. Looped(odb, pending[i]) \/ Accounted(index, pending[i], Anc(v.base))
        BY <1>2, <1>10, <4>2, AfterNewestShared
      <4>4. QED
        BY <1>11, <4>3
    <3>2. CASE /\ NearestMapped(index, j.tip) # 0
               /\ v.boundary = Line(j.tip)[NearestMapped(index, j.tip)]
      <4>1. \A r \in index : r.source # pending[i]
        BY <1>2, <1>3, <3>2, UnmappedAbove
      <4>2. QED
        BY <4>1 DEF Accounted
    <3>3. QED
      BY <1>5, <3>1, <3>2
  <2>3. QED
    BY <1>2, <2>1, <2>2 DEF RivalJob, k, index
<1>13. CASE plan.reuse.kind \in {"FastForward", "Bridge"}
  <2>1. plan.reuse = reuse
    BY <1>6, <1>13
  <2>2. /\ newest.at # 0 /\ reuse.shared = pending[newest.at]
        /\ reuse.projection = newest.dest
    BY <1>13, <2>1, ReusePlan DEF reuse
  <2>3. newest.at \in DOMAIN pending
    BY <1>2, <1>10, <2>2, NewestSharedResolved DEF index
  <2>4. newest.dest \in Oids
    BY <1>3, <1>7, <1>13, <2>1, <2>2
  <2>5. Anc(v.base) \subseteq odb'[k.chain].anc
    <3>1. CASE plan.reuse.kind = "FastForward"
      <4>1. Anc(v.base) \subseteq Anc(newest.dest)
        BY <1>3, <2>1, <2>4, <3>1, ReuseKeepsBase DEF reuse
      <4>2. k.chain = newest.dest /\ odb'[newest.dest] = odb[newest.dest]
        BY <1>8, <1>9, <2>1, <2>2, <2>4, <3>1
      <4>3. QED
        BY <4>1, <4>2 DEF Anc
    <3>2. CASE plan.reuse.kind = "Bridge"
      <4>1. \E tree, marker : Write(<<v.base, plan.reuse.projection>>, tree, marker)
        BY <1>2, <3>2 DEF PlanBuild
      <4>2. odb'[NextOid].anc = {NextOid} \cup
               UNION {Anc(<<v.base, plan.reuse.projection>>[x]) :
                        x \in DOMAIN <<v.base, plan.reuse.projection>>}
        BY <1>3, <4>1, WriteAppends
      <4>3. Anc(v.base) \subseteq odb'[NextOid].anc
        BY <4>2
      <4>4. QED
        BY <1>8, <3>2, <4>3
    <3>3. QED
      BY <1>13, <3>1, <3>2
  <2>6. k.pending = PendingCommits(pending[newest.at], j.tip)
    BY <1>8, <1>13, <2>1, <2>2
  <2>7. ASSUME NEW i \in DOMAIN k.pending
        PROVE  \/ Looped(odb', k.pending[i])
               \/ Accounted(index, k.pending[i], odb'[k.chain].anc)
    <3>1. /\ newest.at + i \in DOMAIN pending /\ k.pending[i] = pending[newest.at + i]
          /\ newest.at < newest.at + i
      BY <1>2, <1>3, <2>3, <2>6, PendingAbovePending
    <3> DEFINE m == newest.at + i
    <3> HIDE DEF m
    <3>2. m \in DOMAIN pending /\ newest.at < m /\ k.pending[i] = pending[m]
      BY <3>1 DEF m
    <3>3. Looped(odb, pending[m]) \/ Accounted(index, pending[m], Anc(v.base))
      BY <1>2, <1>10, <3>2, AfterNewestShared
    <3>4. Looped(odb', pending[m]) <=> Looped(odb, pending[m])
      BY <1>11, <3>2
    <3>5. QED
      BY <2>5, <3>2, <3>3, <3>4, AccountedAbove
  <2>8. QED
    BY <1>2, <2>7 DEF RivalJob, k, index
<1>14. QED
  BY <1>7, <1>12, <1>13 DEF k

LEMMA RivalKept ==
    ASSUME NEW db, NEW larger, Extends(db, larger), NEW r, NEW j, NEW k,
           RivalJob(db, "build", r, j), j.chain \in 1 .. Len(db),
           db[j.chain].anc \subseteq larger[k.chain].anc,
           \A i \in DOMAIN j.pending : j.pending[i] \in 1 .. Len(db),
           \A i \in DOMAIN k.pending : \E n \in DOMAIN j.pending : k.pending[i] = j.pending[n]
    PROVE  RivalJob(larger, "build", r, k)
<1> SUFFICES ASSUME NEW i \in DOMAIN k.pending
             PROVE  \/ Looped(larger, k.pending[i])
                    \/ Accounted(r.index, k.pending[i], larger[k.chain].anc)
  BY DEF RivalJob
<1>1. PICK n \in DOMAIN j.pending : k.pending[i] = j.pending[n]
  OBVIOUS
<1>2. \/ Looped(db, j.pending[n])
      \/ Accounted(r.index, j.pending[n], db[j.chain].anc)
  BY DEF RivalJob
<1>3. Looped(db, j.pending[n]) => Looped(larger, j.pending[n])
  BY DEF Looped, Extends
<1>4. QED
  BY <1>1, <1>2, <1>3, AccountedAbove

LEMMA RivalNext == SyncInv /\ ImportInv /\ FreshInv /\ RivalInv /\ [Next]_vars => RivalInv'
<1> SUFFICES ASSUME SyncInv, ImportInv, FreshInv, RivalInv, [Next]_vars, NEW c \in Clones
             PROVE  RivalJob(odb', pc'[c], run'[c], job'[c])
  BY DEF RivalInv
<1> DEFINE j == job[c]
           k == job'[c]
<1>1. CASE pc'[c] # "build"
  BY <1>1 DEF RivalJob
<1>2. CASE PlanBranch(c) /\ pc[c] = "plan" /\ pc'[c] = "build"
  BY <1>2, PlanHasNoRival
<1>3. /\ ObjectDatabase(odb) /\ Extends(odb, odb') /\ Len(odb) \in Nat /\ Oids = 1 .. Len(odb)
      /\ DOMAIN NoJob \subseteq DOMAIN j /\ c \in DOMAIN job
  BY NextExtends DEF SyncInv, ObjectDatabase, CloneInv, JobRefs, Table, Oids
<1>4. ASSUME pc[c] = "build"
      PROVE  /\ j.chain \in 1 .. Len(odb) /\ j.pending \in Seq(Oids)
             /\ DOMAIN j.pending = 1 .. Len(j.pending)
             /\ \A i \in DOMAIN j.pending : j.pending[i] \in 1 .. Len(odb)
             /\ RivalJob(odb, "build", run[c], j)
  <2>1. j.chain \in have[c] /\ j.pending \in Seq(have[c]) /\ have[c] \subseteq Oids
    BY <1>4, Untouched DEF SyncInv, CloneInv, JobRefs
  <2>2. RivalJob(odb, "build", run[c], j)
    BY <1>4 DEF RivalInv
  <2> HIDE DEF j
  <2>3. j.pending \in Seq(Oids)
    BY <2>1, SeqMonotonic
  <2>4. DOMAIN j.pending = 1 .. Len(j.pending)
    BY <2>3, LenProperties
  <2>5. \A i \in DOMAIN j.pending : j.pending[i] \in Oids
    BY <2>3, <2>4, ElementOfSeq
  <2>6. QED
    BY <1>3, <2>1, <2>2, <2>3, <2>4, <2>5
<1>5. CASE pc'[c] = "build" /\ pc'[c] = pc[c] /\ run'[c] = run[c] /\ job'[c] = job[c]
  <2>1. odb'[j.chain].anc = odb[j.chain].anc
    BY <1>3, <1>4, <1>5 DEF Extends
  <2>2. RivalJob(odb', "build", run[c], j)
    BY <1>3, <1>4, <1>5, <2>1, RivalKept
  <2>3. QED
    BY <1>5, <2>2
<1>6. CASE ReplayToDest(c) /\ pc[c] = "build" /\ pc'[c] = "build" /\ run' = run
  <2>1. /\ k.pending = Tail(j.pending) \/ k.pending = <<>>
        /\ \/ odb' = odb /\ k.chain = j.chain
           \/ /\ \E tree, marker : Write(<<j.chain>>, tree, marker)
              /\ k.chain = NextOid
    <3> DEFINE o == Head(j.pending)
    <3>1. \/ odb' = odb /\ job' = [job EXCEPT ![c].pending = Tail(@)]
          \/ odb' = odb /\ job' = [job EXCEPT ![c].pending = <<>>, ![c].conflict = o]
          \/ /\ \E tree, marker : Write(<<j.chain>>, tree, marker)
             /\ job' = [job EXCEPT ![c].pending = Tail(@), ![c].chain = NextOid,
                                   ![c].built = @ \cup {<<o, NextOid>>}]
      BY <1>6 DEF ReplayToDest
    <3>2. CASE odb' = odb /\ job' = [job EXCEPT ![c].pending = Tail(@)]
      BY <1>3, <3>2 DEF NoJob
    <3>3. CASE odb' = odb /\ job' = [job EXCEPT ![c].pending = <<>>, ![c].conflict = o]
      BY <1>3, <3>3 DEF NoJob
    <3>4. CASE /\ \E tree, marker : Write(<<j.chain>>, tree, marker)
               /\ job' = [job EXCEPT ![c].pending = Tail(@), ![c].chain = NextOid,
                                     ![c].built = @ \cup {<<o, NextOid>>}]
      BY <1>3, <3>4 DEF NoJob
    <3>5. QED
      BY <3>1, <3>2, <3>3, <3>4
  <2>2. odb[j.chain].anc \subseteq odb'[k.chain].anc
    <3>1. CASE odb' = odb /\ k.chain = j.chain
      BY <3>1
    <3>2. CASE (\E tree, marker : Write(<<j.chain>>, tree, marker)) /\ k.chain = NextOid
      <4>1. odb'[NextOid].anc = {NextOid} \cup
               UNION {Anc(<<j.chain>>[x]) : x \in DOMAIN <<j.chain>>}
        BY <1>3, <3>2, WriteAppends
      <4>2. Anc(j.chain) \subseteq odb'[NextOid].anc
        BY <4>1
      <4>3. QED
        BY <3>2, <4>2 DEF Anc
    <3>3. QED
      BY <2>1, <3>1, <3>2
  <2>3. j.pending # <<>>
    BY <1>6 DEF ReplayToDest
  <2> HIDE DEF j, k
  <2>4. \A i \in DOMAIN k.pending : \E n \in DOMAIN j.pending : k.pending[i] = j.pending[n]
    <3>1. CASE k.pending = <<>>
      BY <3>1
    <3>2. CASE k.pending = Tail(j.pending)
      <4>1. /\ Tail(j.pending) \in Seq(Oids) /\ Len(Tail(j.pending)) = Len(j.pending) - 1
            /\ \A i \in 1 .. Len(Tail(j.pending)) : Tail(j.pending)[i] = j.pending[i + 1]
        BY <1>4, <1>6, <2>3, HeadTailProperties
      <4>2. DOMAIN Tail(j.pending) = 1 .. Len(Tail(j.pending)) /\ Len(j.pending) \in Nat
        BY <1>4, <1>6, <4>1, LenProperties
      <4>3. ASSUME NEW i \in DOMAIN Tail(j.pending) PROVE i + 1 \in DOMAIN j.pending
        BY <1>4, <1>6, <4>1, <4>2
      <4>4. QED
        BY <3>2, <4>1, <4>2, <4>3
    <3>3. QED
      BY <2>1, <3>1, <3>2
  <2>5. RivalJob(odb', "build", run[c], k)
    BY <1>3, <1>4, <1>6, <2>2, <2>4, RivalKept
  <2>6. QED
    BY <1>6, <2>5 DEF k
<1>7. QED
  BY <1>1, <1>2, <1>5, <1>6, BuildingStep DEF Building

LEMMA RivalInvariant == Spec => [](SyncInv /\ ImportInv /\ FreshInv /\ RivalInv)
<1>1. Init => SyncInv /\ ImportInv /\ FreshInv /\ RivalInv
  <2>1. Init => RivalInv
    BY DEF Init, RivalInv, RivalJob
  <2>2. QED
    BY <2>1, InitSyncInv, ImportInit, FreshInit
<1>2. SyncInv /\ ImportInv /\ FreshInv /\ RivalInv /\ [Next]_vars
        => (SyncInv /\ ImportInv /\ FreshInv /\ RivalInv)'
  BY NextSyncInv, ImportNext, FreshNext, RivalNext
<1>3. QED
  BY <1>1, <1>2, PTL DEF Spec

(* Only the replay of a commit that is no import builds one. *)
LEMMA BuiltByReplay ==
    ASSUME SyncInv, FreshInv, FreshInv', [Next]_vars, NEW c \in Clones,
           NEW m \in job'[c].built \ job[c].built
    PROVE  /\ pc[c] = "build" /\ job[c].pending # <<>> /\ m[1] = Head(job[c].pending)
           /\ ~ LoopPrevented(m[1])
<1>0. c \in DOMAIN job /\ c \in DOMAIN pc /\ DOMAIN NoJob \subseteq DOMAIN job[c] /\ NoJob.built = {}
  BY DEF SyncInv, CloneInv, JobRefs, Table, NoJob
<1>1. CASE \/ StartRun(c) \/ Crash(c) \/ Finish(c) \/ FetchHeads(c) \/ SkipImport(c)
           \/ AdvanceLocalSourceBranch(c) \/ NothingToPush(c)
  BY <1>0, <1>1 DEF StartRun, Crash, Finish, FetchHeads, SkipImport, NextImport, Abort,
     AdvanceLocalSourceBranch, NothingToPush
<1>2. CASE BeginImport(c) \/ RefetchSource(c)
  <2>1. \/ \E why : Abort(c, why)
        \/ \E b, tip, attempt : PrepareImport(c, b, tip, attempt)
    <3>1. CASE BeginImport(c)
      BY <3>1 DEF BeginImport
    <3>2. CASE RefetchSource(c)
      BY <3>2 DEF RefetchSource
    <3>3. QED
      BY <1>2, <3>1, <3>2
  <2>2. ASSUME NEW why, Abort(c, why) PROVE job'[c].built = {}
    BY <1>0, <2>2 DEF Abort
  <2>3. ASSUME NEW b, NEW tip, NEW attempt, PrepareImport(c, b, tip, attempt)
        PROVE  job'[c].built = {}
    <3>1. PICK boundary \in {DestToSourceBoundary(have'[c], tip, run[c].heads[b], b)} :
             IF boundary = NoOid
             THEN Abort(c, "boundary")
             ELSE job' = [job EXCEPT ![c] =
                    [NoJob EXCEPT !.branch = b, !.attempt = attempt, !.tip = tip,
                                  !.seen = run[c].heads[b], !.boundary = boundary,
                                  !.chain = tip,
                                  !.pending = PendingCommits(boundary, run[c].heads[b])]]
      BY <2>3 DEF PrepareImport
    <3>2. CASE boundary = NoOid
      BY <2>2, <3>1, <3>2
    <3>3. CASE boundary # NoOid
      BY <1>0, <3>1, <3>3 DEF NoJob
    <3>4. QED
      BY <3>2, <3>3
  <2>4. QED
    BY <2>1, <2>2, <2>3
<1>3. CASE ReplayToSource(c) \/ PushToSource(c) \/ ReconstructMappingIndex(c)
  BY <1>0, <1>3 DEF ReplayToSource, PushToSource, ReconstructMappingIndex, Abort, NoJob
<1>4. CASE pc'[c] \in {"fetch_dest", "plan"}
  BY <1>4 DEF FreshInv, FreshJob
<1>5. CASE SelectNextBranch(c)
  BY <1>0, <1>4, <1>5 DEF SelectNextBranch
<1>6. CASE FetchDest(c)
  BY <1>0, <1>4, <1>6 DEF FetchDest, NextBranch, Abort
<1>7. CASE PlanBranch(c)
  <2>1. CASE pc'[c] = "build"
    <3>1. PICK pending, newest, plan : Decides(c, pending, newest, plan)
      BY <1>7, <2>1, BuildIsDecided
    <3>2. job'[c].built = job[c].built
      BY <3>1, PlannedJob DEF Decides
    <3>3. QED
      BY <3>2
  <2>2. CASE pc'[c] # "build"
    <3>1. (\E why : Abort(c, why)) \/ (\E halts : NextBranch(c, halts))
      BY <1>0, <1>7, <2>2 DEF PlanBranch, PlanBuild
    <3>2. QED
      BY <1>0, <3>1 DEF Abort, NextBranch
  <2>3. QED
    BY <2>1, <2>2
<1>8. CASE ReplayToDest(c)
  <2> DEFINE o == Head(job[c].pending)
  <2>1. /\ pc[c] = "build" /\ job[c].pending # <<>>
        /\ \/ job' = [job EXCEPT ![c].pending = Tail(@)]
           \/ job' = [job EXCEPT ![c].pending = <<>>, ![c].conflict = o]
           \/ /\ ~ LoopPrevented(o)
              /\ job' = [job EXCEPT ![c].pending = Tail(@), ![c].chain = NextOid,
                                    ![c].built = @ \cup {<<o, NextOid>>}]
    BY <1>8 DEF ReplayToDest
  <2> HIDE DEF o
  <2>2. /\ ~ LoopPrevented(o) /\ m = <<o, NextOid>>
    BY <1>0, <2>1 DEF NoJob
  <2>3. QED
    BY <2>1, <2>2 DEF o
<1>9. CASE SealToDest(c)
  <2>1. \/ \E why : Abort(c, why)
        \/ \E halts : NextBranch(c, halts)
        \/ job' = job
        \/ job' = [job EXCEPT ![c].chain = NextOid]
    BY <1>9 DEF SealToDest
  <2>2. QED
    BY <1>0, <2>1 DEF Abort, NextBranch, NoJob
<1>10. CASE PushToDest(c)
  BY <1>0, <1>10 DEF PushToDest, Abort
<1>11. CASE PushRejected(c)
  BY <1>0, <1>4, <1>11 DEF PushRejected, NextBranch, Abort
<1>12. QED
  BY <1>1, <1>2, <1>3, <1>5, <1>6, <1>7, <1>8, <1>9, <1>10, <1>11, NextIsOwnOrQuiet DEF Sync

(* A run never publishes a second copy of a commit that its index maps:    *)
(* what the anchor, the resume point and the proof of reuse.rs leave it to *)
(* replay is unmapped, or it builds on one of the commits it is mapped to. *)
THEOREM NoRivalCopiesHolds == Spec => NoRivalCopies
<1> DEFINE Unrivalled ==
      \A c \in Clones : \A m \in job'[c].built \ job[c].built :
        LET known == {r \in run[c].index : r.source = m[1]}
        IN  known # {} => \E r \in known : IsAncestor(r.canonical, job[c].chain)
<1>1. ASSUME SyncInv, FreshInv, FreshInv', RivalInv, [Next]_vars PROVE Unrivalled
  <2> SUFFICES ASSUME NEW c \in Clones, NEW m \in job'[c].built \ job[c].built,
                      NEW s \in run[c].index, s.source = m[1]
               PROVE  \E r \in run[c].index :
                         r.source = m[1] /\ IsAncestor(r.canonical, job[c].chain)
    OBVIOUS
  <2>1. /\ pc[c] = "build" /\ job[c].pending # <<>> /\ m[1] = Head(job[c].pending)
        /\ ~ LoopPrevented(m[1])
    BY <1>1, BuiltByReplay
  <2>2. job[c].pending \in Seq(have[c])
    BY <1>1, <2>1 DEF SyncInv, CloneInv, JobRefs
  <2>3. 1 \in DOMAIN job[c].pending /\ m[1] = job[c].pending[1]
    BY <2>1, <2>2
  <2>4. ~ Looped(odb, m[1])
    BY <2>1 DEF LoopPrevented, VerifySelf, Looped
  <2>5. RivalJob(odb, "build", run[c], job[c])
    BY <1>1, <2>1 DEF RivalInv
  <2>6. Accounted(run[c].index, m[1], odb[job[c].chain].anc)
    BY <2>3, <2>4, <2>5 DEF RivalJob
  <2>7. QED
    BY <2>6 DEF Accounted, IsAncestor, Anc
<1>2. Spec => [](SyncInv /\ ImportInv /\ FreshInv /\ RivalInv)
  BY RivalInvariant
<1>3. SyncInv /\ FreshInv /\ FreshInv' /\ RivalInv /\ [Next]_vars => [Unrivalled]_vars
  BY <1>1
<1>4. QED
  BY <1>2, <1>3, PTL DEF Spec, NoRivalCopies
=============================================================================
