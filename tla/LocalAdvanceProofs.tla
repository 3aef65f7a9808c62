------------------------- MODULE LocalAdvanceProofs -------------------------
(***************************************************************************)
(* The local branch of a checkout only moves forward.  AdvanceInv carries  *)
(* preflight's ancestry test to the compare-and-swap: between the two the  *)
(* developer may move the branch, but not what preflight saw of it.        *)
(***************************************************************************)
EXTENDS LocalAdvance, SequenceTheorems, TLAPS

LEMMA TreeOfHistory ==
    ASSUME NEW c \in Histories
    PROVE  Tree(c) \in Trees
<1>1. Len(c) \in Nat /\ Len(c) # 0
  BY EmptySeq, LenProperties DEF Histories
<1> QED BY <1>1, ElementOfSeq DEF Tree, Last, Histories

LEMMA Extended ==
    ASSUME NEW c \in Histories, NEW t \in Trees
    PROVE  Append(c, t) \in Histories
<1>1. Append(c, t) \in Seq(Trees) /\ Len(Append(c, t)) = Len(c) + 1 /\ Len(c) \in Nat
  BY AppendProperties, LenProperties DEF Histories
<1>2. Append(c, t) # <<>>
  BY <1>1, EmptySeq
<1> QED BY <1>1, <1>2 DEF Histories

LEMMA EditedTree ==
    ASSUME NEW t \in Trees, NEW e \in Paths \X Values
    PROVE  [t EXCEPT ![e[1]] = e[2]] \in Trees
BY DEF Trees, Contents

LEMMA Forms ==
    ASSUME NEW v \in Contents
    PROVE  Smudge(v) \in Contents /\ Cleaned(v) \in Contents
<1>1. Smudge(v) \in Contents
  BY LocalAdvanceAssumption DEF Smudge, Contents
<1>2. Cleaned(v) \in Contents
  <2>1. CASE \E x \in DOMAIN Smudged : Smudged[x] = v
    <3>1. Cleaned(v) \in DOMAIN Smudged BY <2>1 DEF Cleaned
    <3> QED BY <3>1, LocalAdvanceAssumption DEF Contents
  <2>2. CASE ~\E x \in DOMAIN Smudged : Smudged[x] = v
    BY <2>2 DEF Cleaned
  <2> QED BY <2>1, <2>2
<1> QED BY <1>1, <1>2

LEMMA InitAdvanceInv == Init => AdvanceInv
<1> SUFFICES ASSUME Init PROVE AdvanceInv OBVIOUS
<1>1. <<Start>> \in Histories
  <2>1. Len(<<Start>>) = 1 /\ <<Start>> \in Seq(Trees)
    BY LocalAdvanceAssumption
  <2> QED BY <2>1, EmptySeq DEF Histories
<1>2. work \in Trees
  BY Forms, LocalAdvanceAssumption DEF Init, Trees
<1> QED BY <1>1, <1>2, LocalAdvanceAssumption DEF Init, AdvanceInv, TypeOK

(* The steps of a run. *)
LEMMA GitprismAdvanceInv ==
    ASSUME AdvanceInv, Gitprism
    PROVE  AdvanceInv'
<1> USE DEF AdvanceInv, TypeOK, End, Step, checkout
<1>1. CASE Build
  <2>1. PICK i \in Imports : target' = Append(remote, [Tree(remote) EXCEPT ![i[1]] = i[2]])
    BY <1>1 DEF Build
  <2>2. target' \in Histories
    BY <2>1, TreeOfHistory, EditedTree, Extended, LocalAdvanceAssumption
  <2> QED BY <1>1, <2>2 DEF Build
<1>2. CASE Preflight
  BY <1>2 DEF Preflight, Diverged
<1>3. CASE Push
  BY <1>3 DEF Push
<1>4. CASE Advance
  BY <1>4 DEF Advance
<1>5. CASE Checkout
  <2>1. Tree(target) \in Trees
    BY TreeOfHistory
  <2>2. index' \in Trees /\ work' \in Trees
    <3>1. CASE Blocked BY <1>5, <3>1 DEF Checkout
    <3>2. CASE ~Blocked
      <4>1. \A p \in Paths : Tree(target)[p] \in Contents /\ Smudge(Tree(target)[p]) \in Contents
        BY <2>1, Forms DEF Trees
      <4> QED BY <1>5, <3>2, <4>1 DEF Checkout, Trees
    <3> QED BY <3>1, <3>2
  <2> QED BY <1>5, <2>2 DEF Checkout
<1>6. CASE Restore
  <2>1. Tree(target) \in Trees /\ Tree(target)[Control] \in Contents
    BY TreeOfHistory, LocalAdvanceAssumption DEF Trees
  <2>2. index' \in Trees /\ work' \in Trees
    BY <1>6, <2>1 DEF Restore, Exact, Staged, Trees
  <2> QED BY <1>6, <2>2 DEF Restore
<1>7. CASE UpdateRef
  BY <1>7 DEF UpdateRef
<1>8. CASE Crash
  BY <1>8 DEF Crash
<1> QED BY <1>1, <1>2, <1>3, <1>4, <1>5, <1>6, <1>7, <1>8 DEF Gitprism

LEMMA DeveloperAdvanceInv ==
    ASSUME AdvanceInv, Developer
    PROVE  AdvanceInv' /\ spent' # spent
<1> USE DEF AdvanceInv, TypeOK
<1>0. Act BY DEF Developer, Edit, Commit, MoveRef, Switch, PushOther
<1>1. /\ UNCHANGED <<pc, target, expected, result>> /\ touched' = TRUE
      /\ spent' \in [runs : Nat, dev : Nat] /\ spent' # spent
  BY <1>0 DEF Act, gitprism
<1>2. CASE Edit
  <2>1. PICK e \in EarlyEdits \cup LateEdits : work' = [work EXCEPT ![e[1]] = e[2]]
    BY <1>2 DEF Edit
  <2>2. work' \in Trees
    BY <2>1, EditedTree, LocalAdvanceAssumption
  <2> QED BY <1>1, <1>2, <2>2 DEF Edit
<1>3. CASE Commit
  <2> DEFINE t == [p \in Paths |-> IF index[p] = Absent \/ Same(work[p], index[p]) THEN index[p]
                               ELSE Cleaned(work[p])]
  <2>1. t \in Trees
    BY Forms DEF Trees
  <2>2. index' = t /\ ref' = Append(ref, t)
    BY <1>3 DEF Commit
  <2> HIDE DEF t
  <2>3. ref' \in Histories
    BY <2>1, <2>2, Extended
  <2> QED BY <1>1, <1>3, <2>1, <2>2, <2>3 DEF Commit
<1>4. CASE MoveRef
  <2>1. PICK i \in Elsewhere : ref' = Append(ref, [Tree(ref) EXCEPT ![i[1]] = i[2]])
    BY <1>4 DEF MoveRef
  <2>2. ref' \in Histories
    BY <2>1, TreeOfHistory, EditedTree, Extended, LocalAdvanceAssumption
  <2> QED BY <1>1, <1>4, <2>2 DEF MoveRef, checkout
<1>5. CASE Switch
  <2> DEFINE to == IF on THEN Start ELSE Tree(ref)
  <2>1. to \in Trees
    BY TreeOfHistory, LocalAdvanceAssumption
  <2>2. /\ index' = to /\ on' \in BOOLEAN
        /\ work' = [p \in Paths |-> IF to[p] # HeadTree[p] THEN Smudge(to[p]) ELSE work[p]]
    BY <1>5 DEF Switch
  <2> HIDE DEF to
  <2>3. work' \in Trees
    <3>1. \A p \in Paths : Smudge(to[p]) \in Contents /\ work[p] \in Contents
      BY <2>1, Forms DEF Trees
    <3> QED BY <3>1, <2>2 DEF Trees
  <2> QED BY <1>1, <1>5, <2>1, <2>2, <2>3 DEF Switch
<1>6. CASE PushOther
  <2>1. PICK i \in Elsewhere : remote' = Append(remote, [Tree(remote) EXCEPT ![i[1]] = i[2]])
    BY <1>6 DEF PushOther
  <2>2. remote' \in Histories
    BY <2>1, TreeOfHistory, EditedTree, Extended, LocalAdvanceAssumption
  <2> QED BY <1>1, <1>6, <2>2 DEF PushOther, checkout
<1> QED BY <1>1, <1>2, <1>3, <1>4, <1>5, <1>6 DEF Developer

LEMMA NextAdvanceInv == AdvanceInv /\ [Next]_vars => AdvanceInv'
<1> SUFFICES ASSUME AdvanceInv, [Next]_vars PROVE AdvanceInv' OBVIOUS
<1>1. CASE UNCHANGED vars
  BY <1>1 DEF vars, checkout, gitprism, AdvanceInv, TypeOK
<1> QED BY <1>1, GitprismAdvanceInv, DeveloperAdvanceInv DEF Next

(* Everything a run pushes and writes fast-forwards the tip it checked. *)
THEOREM AdvanceInvHolds == Spec => []AdvanceInv
BY InitAdvanceInv, NextAdvanceInv, PTL DEF Spec

LEMMA ForwardStep ==
    ASSUME AdvanceInv, [Next]_vars, UNCHANGED spent
    PROVE  IsPrefix(ref, ref')
<1>0. IsPrefix(ref, ref)
  BY LenProperties DEF IsPrefix, AdvanceInv, TypeOK, Histories
<1>1. CASE UNCHANGED vars
  BY <1>0, <1>1 DEF vars
<1>2. CASE Developer
  BY <1>2, DeveloperAdvanceInv
<1>3. CASE Gitprism
  <2>1. ref' = ref \/ UpdateRef
    BY <1>3 DEF Gitprism, Build, Preflight, Push, Advance, Checkout, Restore, Crash
  <2>2. CASE UpdateRef
    BY <2>2, <1>0 DEF UpdateRef, Matching, AdvanceInv, TypeOK
  <2> QED BY <1>0, <2>1, <2>2
<1> QED BY <1>1, <1>2, <1>3 DEF Next

(* A run never takes a commit out of the local branch, whoever moved the
   branch, and whenever. *)
THEOREM NoCommitLostHolds == Spec => NoCommitLost
<1>1. AdvanceInv /\ [Next]_vars => [UNCHANGED spent => IsPrefix(ref, ref')]_vars
  BY ForwardStep
<1> QED BY <1>1, AdvanceInvHolds, PTL DEF Spec, NoCommitLost

(***************************************************************************)
(* What preflight established holds until the ref is written, as long as   *)
(* nobody acts in the checkout.                                            *)
(***************************************************************************)
Settled(t) ==
    /\ index = t
    /\ \A p \in Paths : index[p] # Absent => Same(work[p], index[p])

InFlight == {"push", "advance", "checkout", "restore", "update"}

UndisturbedInv ==
    /\ pc # "idle" => result = "none"
    /\ touched = FALSE /\ pc \in InFlight =>
         /\ ref = expected
         /\ pc \in {"checkout", "restore"} => on
         /\ on /\ pc \in {"push", "advance", "checkout"} => ~TrackedDirt /\ ~Collision
         /\ on /\ pc \in {"restore", "update"} => Settled(Tree(target))
         /\ on /\ pc = "update" => Tree(target)[Control] \in {Absent, work[Control]}
    /\ PreflightIsSound
    /\ AdvanceIsExact

(* What a checkout writes for a value, git takes for that value. *)
LEMMA SmudgedIsSame ==
    ASSUME NEW v \in Contents
    PROVE  Same(Smudge(v), v)
<1>1. CASE v \in DOMAIN Smudged
  <2>1. Smudge(v) = Smudged[v]
    BY <1>1 DEF Smudge
  <2>2. \A x \in DOMAIN Smudged : Smudged[x] = Smudge(v) => x = v
    BY <1>1, <2>1, LocalAdvanceAssumption
  <2>3. Cleaned(Smudge(v)) = v
    BY <1>1, <2>1, <2>2 DEF Cleaned
  <2> QED BY <2>3 DEF Same
<1>2. CASE v \notin DOMAIN Smudged
  BY <1>2 DEF Smudge, Same
<1> QED BY <1>1, <1>2

LEMMA InitUndisturbed == Init => UndisturbedInv
BY DEF Init, UndisturbedInv, PreflightIsSound, AdvanceIsExact

LEMMA DeveloperUndisturbed ==
    ASSUME AdvanceInv, UndisturbedInv, Developer
    PROVE  UndisturbedInv'
<1>1. UNCHANGED <<pc, result>> /\ touched' = TRUE
  BY DEF Developer, Edit, Commit, MoveRef, Switch, PushOther, Act, gitprism
<1> QED BY <1>1 DEF UndisturbedInv, PreflightIsSound, AdvanceIsExact

(* Preflight's dry run stands in for the checkout: what it let through,
   the checkout of an undisturbed working tree accepts. *)
LEMMA NotBlocked ==
    ASSUME AdvanceInv, on, ~TrackedDirt, ~Collision
    PROVE  ~Blocked
<1>1. ASSUME NEW p \in Writes
      PROVE  Same(work[p], Baseline[p])
  <2>1. p \in Paths /\ p \in Changed
    BY DEF Writes, Changed, Baseline
  <2>2. CASE index[p] # Absent
    BY <2>1, <2>2 DEF TrackedDirt, Baseline
  <2>3. CASE index[p] = Absent
    <3>1. ~Untracked(p)
      BY <2>1 DEF Collision, PathsConflict
    <3>2. work[p] = Absent /\ Baseline[p] = Absent
      BY <2>1, <2>3, <3>1 DEF Untracked, TrackedDirt, Baseline
    <3> QED BY <3>2 DEF Same
  <2> QED BY <2>2, <2>3
<1>2. ASSUME NEW p \in Writes, NEW q \in Paths, PathsConflict(p, q), Untracked(q)
      PROVE  FALSE
  BY <1>2 DEF Writes, Changed, Baseline, Collision
<1> QED BY <1>1, <1>2 DEF Blocked

LEMMA GitprismUndisturbed ==
    ASSUME AdvanceInv, UndisturbedInv, Gitprism
    PROVE  UndisturbedInv'
<1>t. /\ index \in Trees /\ work \in Trees /\ touched \in BOOLEAN /\ on \in BOOLEAN
      /\ Tree(target) \in Trees
  BY TreeOfHistory DEF AdvanceInv, TypeOK
<1>1. CASE Build
  <2>1. pc' = "preflight" /\ result' = "none"
    BY <1>1 DEF Build
  <2> QED BY <2>1 DEF UndisturbedInv, InFlight, PreflightIsSound, AdvanceIsExact
<1>2. CASE Preflight
  <2>1. CASE pc' = "idle"
    <3>1. result' = "refused"
      BY <1>2, <2>1 DEF Preflight, End, Step
    <3> QED BY <2>1, <3>1 DEF UndisturbedInv, InFlight, PreflightIsSound, AdvanceIsExact
  <2>2. CASE pc' # "idle"
    <3>1. /\ pc' = "push" /\ result' = result /\ pc = "preflight" /\ expected' = ref
          /\ UNCHANGED <<ref, on, index, work, target>>
          /\ on => ~TrackedDirt /\ ~Collision
      BY <1>2, <2>2 DEF Preflight, End, Step, checkout
    <3>2. result' = "none"
      BY <3>1 DEF UndisturbedInv
    <3>3. on' => ~TrackedDirt' /\ ~Collision'
      BY <3>1 DEF TrackedDirt, Collision, Changed, Untracked, HeadTree
    <3> QED BY <3>1, <3>2, <3>3 DEF UndisturbedInv, InFlight, PreflightIsSound, AdvanceIsExact
  <2> QED BY <2>1, <2>2
<1>3. CASE Push
  <2>1. pc = "push" /\ UNCHANGED <<ref, on, index, work, target, expected, touched>>
    BY <1>3 DEF Push, checkout
  <2>2. CASE pc' = "idle"
    <3>1. result' = "rejected"
      BY <1>3, <2>2 DEF Push, End, Step
    <3> QED BY <2>2, <3>1 DEF UndisturbedInv, InFlight, PreflightIsSound, AdvanceIsExact
  <2>3. CASE pc' # "idle"
    <3>1. pc' = "advance" /\ result' = result
      BY <1>3, <2>3 DEF Push, End, Step
    <3>2. (TrackedDirt' <=> TrackedDirt) /\ (Collision' <=> Collision)
      BY <2>1 DEF TrackedDirt, Collision, Changed, Untracked, HeadTree
    <3>3. result' = "none"
      BY <2>1, <3>1 DEF UndisturbedInv
    <3> QED BY <2>1, <3>1, <3>2, <3>3 DEF UndisturbedInv, InFlight, PreflightIsSound, AdvanceIsExact
  <2> QED BY <2>2, <2>3
<1>4. CASE Advance
  <2>1. pc = "advance" /\ UNCHANGED <<ref, on, index, work, target, expected, touched>>
    BY <1>4 DEF Advance, checkout
  <2>2. CASE ref # expected
    <3>1. pc' = "idle" /\ result' = "moved" /\ touched' = TRUE
      BY <1>4, <1>t, <2>1, <2>2 DEF Advance, End, UndisturbedInv, InFlight
    <3> QED BY <3>1 DEF UndisturbedInv, InFlight, PreflightIsSound, AdvanceIsExact
  <2>3. CASE ref = expected
    <3>1. pc' = (IF on THEN "checkout" ELSE "update") /\ result' = result
      BY <1>4, <2>3 DEF Advance, Step
    <3>2. (TrackedDirt' <=> TrackedDirt) /\ (Collision' <=> Collision)
      BY <2>1 DEF TrackedDirt, Collision, Changed, Untracked, HeadTree
    <3>3. result' = "none"
      BY <2>1, <3>1 DEF UndisturbedInv
    <3> QED BY <2>1, <2>3, <3>1, <3>2, <3>3 DEF UndisturbedInv, InFlight, PreflightIsSound, AdvanceIsExact
  <2> QED BY <2>2, <2>3
<1>5. CASE Checkout
  <2>1. pc = "checkout" /\ UNCHANGED <<ref, on, target, expected, touched>>
    BY <1>5 DEF Checkout
  <2>2. CASE Blocked
    <3>1. pc' = "idle" /\ result' = "conflict" /\ touched' = TRUE
      BY <1>5, <1>t, <2>1, <2>2, NotBlocked DEF Checkout, End, UndisturbedInv, InFlight
    <3> QED BY <3>1 DEF UndisturbedInv, InFlight, PreflightIsSound, AdvanceIsExact
  <2>3. CASE ~Blocked
    <3>1. /\ pc' = "restore" /\ result' = result
          /\ work' = [p \in Paths |-> IF p \in Writes THEN Smudge(Tree(target)[p]) ELSE work[p]]
          /\ index' = [p \in Paths |-> IF p \in Writes THEN Tree(target)[p] ELSE index[p]]
      BY <1>5, <2>3 DEF Checkout, Step
    <3>2. result' = "none"
      BY <2>1, <3>1 DEF UndisturbedInv
    <3>3. ASSUME touched' = FALSE
          PROVE  ref' = expected' /\ on' /\ Settled(Tree(target))'
      <4>1. ref = expected /\ on /\ ~TrackedDirt
        BY <2>1, <3>3 DEF UndisturbedInv, InFlight
      <4>2. ASSUME NEW p \in Paths
            PROVE  /\ index'[p] = Tree(target)[p]
                   /\ index'[p] # Absent => Same(work'[p], index'[p])
        <5>1. CASE p \in Writes
          <6>1. Tree(target)[p] \in Contents
            BY <1>t DEF Trees
          <6> QED BY <3>1, <5>1, <6>1, SmudgedIsSame
        <5>2. CASE p \notin Writes
          <6>1. index'[p] = index[p] /\ work'[p] = work[p] /\ HeadTree[p] = Tree(target)[p]
            BY <3>1, <5>2 DEF Writes, Baseline
          <6>2. index[p] = HeadTree[p] /\ (index[p] # Absent => Same(work[p], index[p]))
            BY <4>1 DEF TrackedDirt
          <6> QED BY <6>1, <6>2
        <5> QED BY <5>1, <5>2
      <4>3. index' = Tree(target)
        BY <3>1, <4>2, <1>t DEF Trees
      <4> QED BY <2>1, <4>1, <4>2, <4>3 DEF Settled, Same, Cleaned
    <3> QED BY <2>1, <3>1, <3>2, <3>3 DEF UndisturbedInv, InFlight, PreflightIsSound, AdvanceIsExact
  <2> QED BY <2>2, <2>3
<1>6. CASE Restore
  <2>1. /\ pc = "restore" /\ pc' = "update" /\ result' = result
        /\ UNCHANGED <<ref, on, target, expected, touched>>
    BY <1>6 DEF Restore, Step
  <2>2. result' = "none"
    BY <2>1 DEF UndisturbedInv
  <2>3. ASSUME touched' = FALSE
        PROVE  /\ ref' = expected' /\ on' /\ Settled(Tree(target))'
               /\ Tree(target)[Control] \in {Absent, work'[Control]}
    <3>1. ref = expected /\ on /\ Settled(Tree(target))
      BY <2>1, <2>3 DEF UndisturbedInv, InFlight
    <3>2. CASE Tree(target)[Control] = Absent
      BY <1>6, <2>1, <3>1, <3>2 DEF Restore, Settled, Same, Cleaned
    <3>3. CASE Tree(target)[Control] # Absent
      <4> DEFINE v == Tree(target)[Control]
      <4>1. work' = [work EXCEPT ![Control] = v] /\ index' = [index EXCEPT ![Control] = v]
        BY <1>6, <3>3 DEF Restore, Exact, Staged
      <4>2. index' = index
        BY <4>1, <3>1, <1>t DEF Settled, Trees
      <4>3. work'[Control] = v /\ \A p \in Paths \ {Control} : work'[p] = work[p]
        BY <4>1, <1>t, LocalAdvanceAssumption DEF Trees
      <4>4. \A p \in Paths : index'[p] # Absent => Same(work'[p], index'[p])
        BY <4>2, <4>3, <3>1 DEF Settled, Same, Cleaned
      <4> QED BY <2>1, <3>1, <4>2, <4>3, <4>4 DEF Settled, Same, Cleaned
    <3> QED BY <3>2, <3>3
  <2> QED BY <2>1, <2>2, <2>3 DEF UndisturbedInv, InFlight, PreflightIsSound, AdvanceIsExact
<1>7. CASE UpdateRef
  <2>1. pc = "update" /\ pc' = "idle" /\ UNCHANGED <<on, index, work, target, expected, touched>>
    BY <1>7 DEF UpdateRef, End, checkout
  <2>2. CASE ~Matching
    <3>1. result' = "lost" /\ touched' = TRUE
      BY <1>7, <1>t, <2>1, <2>2 DEF UpdateRef, End, Matching, UndisturbedInv, InFlight
    <3> QED BY <2>1, <3>1 DEF UndisturbedInv, InFlight, PreflightIsSound, AdvanceIsExact
  <2>3. CASE Matching
    <3>1. result' = "advanced" /\ ref' = target
      BY <1>7, <2>3 DEF UpdateRef, End
    <3>2. ASSUME touched' = FALSE, on'
          PROVE  /\ index' = Tree(ref')
                 /\ ~TrackedDirt'
                 /\ Tree(ref')[Control] \in {Absent, work'[Control]}
      <4>1. on /\ Settled(Tree(target)) /\ Tree(target)[Control] \in {Absent, work[Control]}
        BY <2>1, <3>2 DEF UndisturbedInv, InFlight
      <4> QED BY <2>1, <3>1, <4>1 DEF Settled, TrackedDirt, HeadTree, Same, Cleaned
    <3>3. AdvanceIsExact'
      BY <1>t, <2>1, <3>2 DEF AdvanceIsExact
    <3> QED BY <2>1, <3>1, <3>3 DEF UndisturbedInv, InFlight, PreflightIsSound
  <2> QED BY <2>2, <2>3
<1>8. CASE Crash
  <2>1. pc' = "idle" /\ result' = "crashed"
    BY <1>8 DEF Crash, End
  <2> QED BY <2>1 DEF UndisturbedInv, InFlight, PreflightIsSound, AdvanceIsExact
<1> QED BY <1>1, <1>2, <1>3, <1>4, <1>5, <1>6, <1>7, <1>8 DEF Gitprism

LEMMA NextUndisturbed == AdvanceInv /\ UndisturbedInv /\ [Next]_vars => UndisturbedInv'
<1> SUFFICES ASSUME AdvanceInv, UndisturbedInv, [Next]_vars PROVE UndisturbedInv' OBVIOUS
<1>1. CASE UNCHANGED vars
  <2>1. UNCHANGED <<remote, ref, on, index, work, pc, target, expected, touched, result>>
    BY <1>1 DEF vars, checkout, gitprism
  <2>2. /\ TrackedDirt' <=> TrackedDirt
        /\ Collision' <=> Collision
        /\ Settled(Tree(target))' <=> Settled(Tree(target))
    BY <2>1 DEF TrackedDirt, Collision, Changed, Untracked, HeadTree, Settled
  <2> QED BY <2>1, <2>2 DEF UndisturbedInv, PreflightIsSound, AdvanceIsExact
<1> QED BY <1>1, GitprismUndisturbed, DeveloperUndisturbed DEF Next

LEMMA UndisturbedAlways == Spec => [](AdvanceInv /\ UndisturbedInv)
<1>1. Init => AdvanceInv /\ UndisturbedInv
  BY InitAdvanceInv, InitUndisturbed
<1>2. (AdvanceInv /\ UndisturbedInv) /\ [Next]_vars => (AdvanceInv /\ UndisturbedInv)'
  BY NextAdvanceInv, NextUndisturbed
<1> QED BY <1>1, <1>2, PTL DEF Spec

(* Preflight is a sound promise: a run that pushed and then could not
   advance the checkout was disturbed, whatever the trees, the filters and
   the untracked or ignored files in the working tree. *)
THEOREM PreflightIsSoundHolds == Spec => []PreflightIsSound
<1>1. AdvanceInv /\ UndisturbedInv => PreflightIsSound
  BY DEF UndisturbedInv
<1> QED BY <1>1, UndisturbedAlways, PTL

(* An undisturbed advance leaves the checkout clean and the control file
   exact, for any filter that its own inverse cleans. *)
THEOREM AdvanceIsExactHolds == Spec => []AdvanceIsExact
<1>1. AdvanceInv /\ UndisturbedInv => AdvanceIsExact
  BY DEF UndisturbedInv
<1> QED BY <1>1, UndisturbedAlways, PTL

(***************************************************************************)
(* Edits.  The checkout asks of each path it writes what the working tree  *)
(* has there; restoring the control file does not.                         *)
(***************************************************************************)
Kept(p) == Unsaved(p) /\ (p \in Ignored => ~touched) => work'[p] = work[p]

LEMMA CheckoutKeepsEdits ==
    ASSUME AdvanceInv, UndisturbedInv, Checkout, NEW p \in Paths
    PROVE  Kept(p)
<1> SUFFICES ASSUME Unsaved(p), p \in Ignored => ~touched PROVE work'[p] = work[p]
  BY DEF Kept
<1>1. CASE Blocked
  BY <1>1 DEF Checkout
<1>2. CASE ~Blocked
  <2>1. work' = [q \in Paths |-> IF q \in Writes THEN Smudge(Tree(target)[q]) ELSE work[q]]
    BY <1>2 DEF Checkout, Step
  <2>2. p \notin Writes
    <3> SUFFICES ASSUME p \in Writes PROVE FALSE OBVIOUS
    <3>1. Expendable(p)
      BY <1>2 DEF Blocked, Unsaved, Baseline
    <3>2. touched = FALSE
      BY <3>1 DEF Expendable, AdvanceInv, TypeOK
    <3>3. on /\ ~Collision
      BY <3>2 DEF Checkout, Step, End, UndisturbedInv, InFlight
    <3>4. p \in Changed /\ Untracked(p) /\ PathsConflict(p, p)
      BY <3>1 DEF Writes, Changed, Baseline, Expendable, PathsConflict
    <3> QED BY <3>3, <3>4 DEF Collision
  <2> QED BY <2>1, <2>2
<1> QED BY <1>1, <1>2

(* Only these two steps of a run write to the working tree. *)
LEMMA OnlyCheckoutsWrite ==
    ASSUME AdvanceInv, [Next]_vars, UNCHANGED spent, ~Checkout, ~Restore
    PROVE  work' = work
<1>1. CASE Developer
  BY <1>1, DeveloperAdvanceInv
<1>2. CASE Gitprism
  BY <1>2 DEF Gitprism, Build, Preflight, Push, Advance, UpdateRef, Crash, checkout
<1> QED BY <1>1, <1>2 DEF Next, vars, checkout

NoOtherEditLost ==
    [][pc # "idle" /\ UNCHANGED spent => \A p \in Paths \ {Control} : Kept(p)]_vars

(* Whatever the developer writes, and whenever: except for the control
   file, no step of a run replaces what only the working tree holds. *)
THEOREM NoOtherEditLostHolds == Spec => NoOtherEditLost
<1>1. ASSUME AdvanceInv, UndisturbedInv, [Next]_vars, UNCHANGED spent,
             NEW p \in Paths \ {Control}
      PROVE  Kept(p)
  <2>1. CASE Checkout
    BY <1>1, <2>1, CheckoutKeepsEdits
  <2>2. CASE Restore
    BY <1>1, <2>2 DEF Restore, Kept, AdvanceInv, TypeOK, Trees
  <2>3. CASE ~Checkout /\ ~Restore
    BY <1>1, <2>3, OnlyCheckoutsWrite DEF Kept
  <2> QED BY <2>1, <2>2, <2>3
<1>2. (AdvanceInv /\ UndisturbedInv) /\ [Next]_vars =>
         [pc # "idle" /\ UNCHANGED spent => \A p \in Paths \ {Control} : Kept(p)]_vars
  BY <1>1
<1> QED BY <1>2, UndisturbedAlways, PTL DEF Spec, NoOtherEditLost

(***************************************************************************)
(* The control file too is safe while nobody edits it after preflight:     *)
(* until it is restored it is as the index has it, unless the run goes     *)
(* without a checkout.  This is where a tracked control file matters.      *)
(***************************************************************************)
ControlLeftAlone ==
    /\ Start[Control] # Absent
    /\ \A e \in LateEdits : e[1] # Control

ControlInv ==
    /\ \A t \in {Tree(ref), Tree(remote), Tree(target), index, work} : t[Control] \in Values
    /\ (pc \in {"checkout", "restore"} \/ (pc \in {"push", "advance"} /\ on))
          => Same(work[Control], index[Control])

LEMMA FormsOfValues ==
    ASSUME NEW v \in Values
    PROVE  Smudge(v) \in Values /\ Cleaned(v) \in Values
<1>1. Smudge(v) \in Values
  BY LocalAdvanceAssumption DEF Smudge
<1>2. CASE \E x \in DOMAIN Smudged : Smudged[x] = v
  <2>1. Cleaned(v) \in DOMAIN Smudged BY <1>2 DEF Cleaned
  <2> QED BY <1>1, <2>1, LocalAdvanceAssumption
<1>3. CASE ~\E x \in DOMAIN Smudged : Smudged[x] = v
  BY <1>1, <1>3 DEF Cleaned
<1> QED BY <1>2, <1>3

LEMMA TipOfExtended ==
    ASSUME NEW c \in Histories, NEW t \in Trees
    PROVE  Tree(Append(c, t)) = t
<1>1. c \in Seq(Trees) /\ Len(c) \in Nat
  BY LenProperties DEF Histories
<1>2. Len(Append(c, t)) = Len(c) + 1 /\ Append(c, t)[Len(c) + 1] = t
  BY <1>1, AppendProperties
<1> QED BY <1>2 DEF Tree, Last

LEMMA EditedControl ==
    ASSUME NEW t \in Trees, t[Control] \in Values, NEW e \in Paths \X Values
    PROVE  [t EXCEPT ![e[1]] = e[2]][Control] \in Values
BY LocalAdvanceAssumption DEF Trees

LEMMA InitControl == ASSUME ControlLeftAlone, Init PROVE ControlInv
<1>1. Tree(<<Start>>) = Start
  BY LocalAdvanceAssumption DEF Tree, Last
<1>2. Start[Control] \in Values
  BY LocalAdvanceAssumption DEF ControlLeftAlone, Trees, Contents
<1>3. work[Control] \in Values
  BY <1>2, FormsOfValues, LocalAdvanceAssumption DEF Init
<1> QED BY <1>1, <1>2, <1>3 DEF Init, ControlInv

LEMMA GitprismControl ==
    ASSUME AdvanceInv, ControlInv, Gitprism
    PROVE  ControlInv'
<1>t. /\ index \in Trees /\ work \in Trees /\ Tree(target) \in Trees /\ Tree(remote) \in Trees
      /\ remote \in Histories /\ Control \in Paths
  BY TreeOfHistory, LocalAdvanceAssumption DEF AdvanceInv, TypeOK
<1>s. \A w, v : Same(w, v)' <=> Same(w, v)
  BY DEF Same, Cleaned
<1>1. CASE Build
  <2>1. PICK i \in Imports : target' = Append(remote, [Tree(remote) EXCEPT ![i[1]] = i[2]])
    BY <1>1 DEF Build
  <2>2. i \in Paths \X Values
    BY LocalAdvanceAssumption
  <2>3. Tree(target')[Control] \in Values
    BY <2>1, <2>2, <1>t, EditedTree, EditedControl, TipOfExtended DEF ControlInv
  <2>4. pc' = "preflight" /\ UNCHANGED <<ref, remote, index, work>>
    BY <1>1 DEF Build, checkout
  <2> QED BY <2>3, <2>4 DEF ControlInv
<1>2. CASE Preflight
  <2>1. UNCHANGED <<ref, remote, target, index, work, on>>
    BY <1>2 DEF Preflight, checkout
  <2>2. pc' = "idle" \/ (pc' = "push" /\ (on => ~TrackedDirt))
    BY <1>2 DEF Preflight, End, Step
  <2>3. ~TrackedDirt => Same(work[Control], index[Control])
    BY <1>t, LocalAdvanceAssumption DEF TrackedDirt, ControlInv
  <2> QED BY <2>1, <2>2, <2>3, <1>s DEF ControlInv
<1>3. CASE Push \/ Advance \/ UpdateRef \/ Crash
  <2>1. /\ UNCHANGED <<target, index, work, on>>
        /\ ref' \in {ref, target} /\ remote' \in {remote, target}
    BY <1>3 DEF Push, Advance, UpdateRef, Crash, checkout
  <2>2. \/ pc' \in {"idle", "update"}
        \/ pc = "push" /\ pc' = "advance"
        \/ pc = "advance" /\ pc' = "checkout" /\ on
    BY <1>3 DEF Push, Advance, UpdateRef, Crash, End, Step
  <2> QED BY <2>1, <2>2, <1>s DEF ControlInv
<1>4. CASE Checkout
  <2>1. pc = "checkout" /\ UNCHANGED <<ref, remote, target>>
    BY <1>4 DEF Checkout
  <2>2. CASE Blocked
    BY <1>4, <2>1, <2>2 DEF Checkout, End, ControlInv
  <2>3. CASE ~Blocked
    <3>1. /\ work'[Control] = IF Control \in Writes THEN Smudge(Tree(target)[Control]) ELSE work[Control]
          /\ index'[Control] = IF Control \in Writes THEN Tree(target)[Control] ELSE index[Control]
      BY <1>4, <1>t, <2>3 DEF Checkout
    <3>2. Tree(target)[Control] \in Values /\ Tree(target)[Control] \in Contents
      BY <1>t DEF ControlInv, Contents
    <3>3. Same(work'[Control], index'[Control])
      BY <2>1, <3>1, <3>2, SmudgedIsSame DEF ControlInv
    <3>4. work'[Control] \in Values /\ index'[Control] \in Values
      BY <3>1, <3>2, FormsOfValues DEF ControlInv
    <3> QED BY <2>1, <3>2, <3>3, <3>4, <1>s DEF ControlInv
  <2> QED BY <2>2, <2>3
<1>5. CASE Restore
  <2>1. pc' = "update" /\ UNCHANGED <<ref, remote, target>>
    BY <1>5 DEF Restore, Step
  <2>2. work'[Control] \in Values /\ index'[Control] \in Values
    BY <1>5, <1>t DEF Restore, Exact, Staged, ControlInv, Trees
  <2> QED BY <2>1, <2>2 DEF ControlInv
<1> QED BY <1>1, <1>2, <1>3, <1>4, <1>5 DEF Gitprism

LEMMA DeveloperControl ==
    ASSUME ControlLeftAlone, AdvanceInv, ControlInv, Developer
    PROVE  ControlInv'
<1>t. /\ index \in Trees /\ work \in Trees /\ Tree(ref) \in Trees /\ Tree(remote) \in Trees
      /\ remote \in Histories /\ ref \in Histories /\ Control \in Paths
  BY TreeOfHistory, LocalAdvanceAssumption DEF AdvanceInv, TypeOK
<1>s. \A w, v : Same(w, v)' <=> Same(w, v)
  BY DEF Same, Cleaned
<1>p. UNCHANGED <<pc, target>>
  BY DEF Developer, Edit, Commit, MoveRef, Switch, PushOther, Act, gitprism
<1>1. CASE Edit
  <2>1. PICK e \in IF pc \in {"idle", "preflight"} THEN EarlyEdits ELSE LateEdits :
          work' = [work EXCEPT ![e[1]] = e[2]]
    BY <1>1 DEF Edit
  <2>2. e \in Paths \X Values /\ UNCHANGED <<remote, ref, on, index>>
    BY <1>1, LocalAdvanceAssumption DEF Edit
  <2>3. work'[Control] \in Values
    BY <2>1, <2>2, <1>t, EditedControl DEF ControlInv
  <2>4. pc \notin {"idle", "preflight"} => work'[Control] = work[Control]
    BY <2>1, <1>t DEF ControlLeftAlone, Trees
  <2> QED BY <1>p, <1>s, <2>2, <2>3, <2>4 DEF ControlInv
<1>2. CASE Commit
  <2> DEFINE t == [p \in Paths |-> IF index[p] = Absent \/ Same(work[p], index[p]) THEN index[p]
                               ELSE Cleaned(work[p])]
  <2>1. t \in Trees
    BY <1>t, Forms DEF Trees
  <2>2. index' = t /\ ref' = Append(ref, t) /\ UNCHANGED <<remote, on, work>>
    BY <1>2 DEF Commit
  <2>3. t[Control] = IF Same(work[Control], index[Control]) THEN index[Control] ELSE Cleaned(work[Control])
    BY <1>t, LocalAdvanceAssumption DEF ControlInv
  <2> HIDE DEF t
  <2>4. t[Control] \in Values /\ Same(work[Control], t[Control])
    BY <2>3, FormsOfValues DEF ControlInv, Same
  <2>5. Tree(ref') = t
    BY <1>t, <2>1, <2>2, TipOfExtended
  <2> QED BY <1>p, <1>s, <2>2, <2>4, <2>5 DEF ControlInv
<1>3. CASE MoveRef
  <2>1. PICK i \in Elsewhere : ref' = Append(ref, [Tree(ref) EXCEPT ![i[1]] = i[2]])
    BY <1>3 DEF MoveRef
  <2>2. i \in Paths \X Values /\ UNCHANGED <<remote, on, index, work>>
    BY <1>3, LocalAdvanceAssumption DEF MoveRef, checkout
  <2>3. Tree(ref')[Control] \in Values
    BY <2>1, <2>2, <1>t, EditedTree, EditedControl, TipOfExtended DEF ControlInv
  <2> QED BY <1>p, <1>s, <2>2, <2>3 DEF ControlInv
<1>4. CASE PushOther
  <2>1. PICK i \in Elsewhere : remote' = Append(remote, [Tree(remote) EXCEPT ![i[1]] = i[2]])
    BY <1>4 DEF PushOther
  <2>2. i \in Paths \X Values /\ UNCHANGED <<ref, on, index, work>>
    BY <1>4, LocalAdvanceAssumption DEF PushOther, checkout
  <2>3. Tree(remote')[Control] \in Values
    BY <2>1, <2>2, <1>t, EditedTree, EditedControl, TipOfExtended DEF ControlInv
  <2> QED BY <1>p, <1>s, <2>2, <2>3 DEF ControlInv
<1>5. CASE Switch
  <2> DEFINE to == IF on THEN Start ELSE Tree(ref)
  <2>1. to \in Trees /\ to[Control] \in Values /\ to[Control] \in Contents
    BY <1>t, LocalAdvanceAssumption DEF ControlLeftAlone, ControlInv, Trees, Contents
  <2>2. /\ index' = to /\ UNCHANGED <<remote, ref>> /\ ~TrackedDirt
        /\ work'[Control] = IF to[Control] # HeadTree[Control] THEN Smudge(to[Control]) ELSE work[Control]
    BY <1>5, <1>t DEF Switch
  <2> HIDE DEF to
  <2>3. index[Control] = HeadTree[Control] /\ Same(work[Control], index[Control])
    BY <2>2, <1>t, LocalAdvanceAssumption DEF TrackedDirt, ControlInv
  <2>4. work'[Control] \in Values /\ Same(work'[Control], index'[Control])
    BY <2>1, <2>2, <2>3, FormsOfValues, SmudgedIsSame DEF ControlInv
  <2> QED BY <1>p, <1>s, <2>1, <2>2, <2>4 DEF ControlInv
<1> QED BY <1>1, <1>2, <1>3, <1>4, <1>5 DEF Developer

LEMMA ControlAlways == ASSUME ControlLeftAlone PROVE Spec => []ControlInv
<1>1. Init => ControlInv
  BY InitControl
<1>2. AdvanceInv /\ ControlInv /\ [Next]_vars => ControlInv'
  <2>1. ASSUME ControlInv, UNCHANGED vars PROVE ControlInv'
    BY <2>1 DEF vars, checkout, gitprism, ControlInv, Same, Cleaned
  <2> QED BY <2>1, GitprismControl, DeveloperControl DEF Next
<1> QED BY <1>1, <1>2, AdvanceInvHolds, PTL DEF Spec

(* A run replaces nothing that only the working tree holds, if the control
   file is tracked and nobody edits it while a run is between preflight and
   the end.  Without the second condition it is false: the run
   advance_control shows the edit that is lost. *)
THEOREM NoEditLostHolds == ASSUME ControlLeftAlone PROVE Spec => NoEditLost
<1>1. ASSUME AdvanceInv, UndisturbedInv, ControlInv, [Next]_vars, UNCHANGED spent,
             NEW p \in Paths
      PROVE  Kept(p)
  <2>1. CASE Checkout
    BY <1>1, <2>1, CheckoutKeepsEdits
  <2>2. CASE Restore
    <3>1. pc = "restore"
      BY <2>2 DEF Restore, Step
    <3>2. ~Unsaved(Control)
      BY <1>1, <3>1 DEF ControlInv, Unsaved
    <3>3. p # Control => work'[p] = work[p]
      BY <1>1, <2>2 DEF Restore, AdvanceInv, TypeOK, Trees
    <3> QED BY <3>2, <3>3 DEF Kept
  <2>3. CASE ~Checkout /\ ~Restore
    BY <1>1, <2>3, OnlyCheckoutsWrite DEF Kept
  <2> QED BY <2>1, <2>2, <2>3
<1>2. (AdvanceInv /\ UndisturbedInv) /\ ControlInv /\ [Next]_vars =>
         [pc # "idle" /\ UNCHANGED spent =>
            \A p \in Paths : Unsaved(p) /\ (p \in Ignored => ~touched) => work'[p] = work[p]]_vars
  BY <1>1 DEF Kept
<1> QED BY <1>2, UndisturbedAlways, ControlAlways, PTL DEF Spec, NoEditLost
=============================================================================
