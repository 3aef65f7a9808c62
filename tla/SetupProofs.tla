----------------------------- MODULE SetupProofs -----------------------------
(***************************************************************************)
(* What setup leaves behind, for any configuration: which branches have    *)
(* moved at any time (SetupInv), that a graft takes nothing off a branch,  *)
(* and that setup implements SetupTransaction.                             *)
(***************************************************************************)
EXTENDS Setup, SequenceTheorems, TLAPS

(***************************************************************************)
(* Histories.                                                              *)
(***************************************************************************)

(* t is s with commits of developers on top. *)
Grown(s, t) == IsPrefix(s, t) /\ ToSet(SubSeq(t, Len(s) + 1, Len(t))) \subseteq {"own"}

LEMMA PrefixByElements ==
    ASSUME NEW S, NEW s \in Seq(S), NEW t \in Seq(S)
    PROVE  IsPrefix(s, t) <=> Len(s) <= Len(t) /\ \A k \in 1 .. Len(s) : s[k] = t[k]
<1>1. Len(s) \in Nat /\ Len(t) \in Nat
  BY LenProperties
<1>2. CASE Len(s) <= Len(t)
  <2>1. /\ SubSeq(s, 1, Len(s)) \in Seq(S) /\ Len(SubSeq(s, 1, Len(s))) = Len(s)
        /\ \A k \in 1 .. Len(s) : SubSeq(s, 1, Len(s))[k] = s[k]
    BY <1>1
  <2>2. /\ SubSeq(t, 1, Len(s)) \in Seq(S) /\ Len(SubSeq(t, 1, Len(s))) = Len(s)
        /\ \A k \in 1 .. Len(s) : SubSeq(t, 1, Len(s))[k] = t[k]
    BY <1>1, <1>2
  <2>3. SubSeq(s, 1, Len(s)) = SubSeq(t, 1, Len(s)) <=> \A k \in 1 .. Len(s) : s[k] = t[k]
    BY <2>1, <2>2, SeqEqual
  <2> QED BY <1>2, <2>3 DEF IsPrefix
<1> QED BY <1>2 DEF IsPrefix

LEMMA GrownByElements ==
    ASSUME NEW S, NEW s \in Seq(S), NEW t \in Seq(S)
    PROVE  Grown(s, t) <=> /\ Len(s) <= Len(t)
                           /\ \A k \in 1 .. Len(s) : s[k] = t[k]
                           /\ \A k \in Len(s) + 1 .. Len(t) : t[k] = "own"
<1>1. Len(s) \in Nat /\ Len(t) \in Nat
  BY LenProperties
<1>2. ASSUME Len(s) <= Len(t)
      PROVE  ToSet(SubSeq(t, Len(s) + 1, Len(t))) \subseteq {"own"}
                <=> \A k \in Len(s) + 1 .. Len(t) : t[k] = "own"
  <2> DEFINE u == SubSeq(t, Len(s) + 1, Len(t))
  <2>1. DOMAIN u = 1 .. Len(t) - Len(s) /\ \A k \in 1 .. Len(t) - Len(s) : u[k] = t[Len(s) + k]
    BY <1>1, <1>2
  <2>2. ToSet(u) \subseteq {"own"} <=> \A k \in 1 .. Len(t) - Len(s) : t[Len(s) + k] = "own"
    <3> HIDE DEF u
    <3> QED BY <2>1 DEF ToSet
  <2>3. (\A k \in 1 .. Len(t) - Len(s) : t[Len(s) + k] = "own")
            <=> \A k \in Len(s) + 1 .. Len(t) : t[k] = "own"
    <3>1. ASSUME \A k \in 1 .. Len(t) - Len(s) : t[Len(s) + k] = "own",
                 NEW k \in Len(s) + 1 .. Len(t)
          PROVE  t[k] = "own"
      <4>1. k - Len(s) \in 1 .. Len(t) - Len(s) /\ Len(s) + (k - Len(s)) = k
        BY <1>1
      <4> QED BY <3>1, <4>1
    <3> QED BY <1>1, <3>1
  <2> QED BY <2>2, <2>3
<1> QED BY <1>2, PrefixByElements DEF Grown

LEMMA Unchanged ==
    ASSUME NEW S, NEW s \in Seq(S)
    PROVE  IsPrefix(s, s) /\ Grown(s, s)
BY PrefixByElements, GrownByElements, LenProperties

LEMMA OneMore ==
    ASSUME NEW S, NEW s \in Seq(S), NEW x \in S
    PROVE  /\ Append(s, x) \in Seq(S) \ {None}
           /\ IsPrefix(s, Append(s, x))
           /\ Front(Append(s, x)) = s
           /\ Last(Append(s, x)) = x
<1> DEFINE t == Append(s, x)
<1>1. /\ t \in Seq(S) /\ Len(t) = Len(s) + 1 /\ Len(s) \in Nat
      /\ \A k \in 1 .. Len(s) : t[k] = s[k]
      /\ t[Len(s) + 1] = x
  BY AppendProperties, LenProperties
<1>2. t # None
  BY <1>1, EmptySeq DEF None
<1> HIDE DEF t
<1>3. IsPrefix(s, t)
  BY <1>1, PrefixByElements
<1>4. Front(t) = s
  <2>1. /\ SubSeq(t, 1, Len(s)) \in Seq(S) /\ Len(SubSeq(t, 1, Len(s))) = Len(s)
        /\ \A k \in 1 .. Len(s) : SubSeq(t, 1, Len(s))[k] = t[k]
    BY <1>1
  <2>2. SubSeq(t, 1, Len(s)) = s
    BY <1>1, <2>1, SeqEqual
  <2> QED BY <1>1, <2>2 DEF Front
<1>5. Last(t) = x
  BY <1>1 DEF Last
<1> QED BY <1>1, <1>2, <1>3, <1>4, <1>5 DEF t

LEMMA GrownByOwn ==
    ASSUME NEW S, NEW s \in Seq(S), NEW t \in Seq(S), "own" \in S, Grown(s, t)
    PROVE  Grown(s, Append(t, "own"))
<1> DEFINE u == Append(t, "own")
<1>1. /\ u \in Seq(S) /\ Len(u) = Len(t) + 1 /\ Len(t) \in Nat /\ Len(s) \in Nat
      /\ \A k \in 1 .. Len(t) : u[k] = t[k]
      /\ u[Len(t) + 1] = "own"
  BY AppendProperties, LenProperties
<1> HIDE DEF u
<1>2. /\ Len(s) <= Len(t)
      /\ \A k \in 1 .. Len(s) : s[k] = t[k]
      /\ \A k \in Len(s) + 1 .. Len(t) : t[k] = "own"
  BY GrownByElements
<1>3. Grown(s, u)
  <2>1. Len(s) <= Len(u) /\ \A k \in 1 .. Len(s) : s[k] = u[k]
    BY <1>1, <1>2
  <2>2. \A k \in Len(s) + 1 .. Len(u) : u[k] = "own"
    BY <1>1, <1>2
  <2> QED BY <1>1, <2>1, <2>2, GrownByElements
<1> QED BY <1>3 DEF u

LEMMA FrontShorter ==
    ASSUME NEW S, NEW s \in Seq(S), s # None
    PROVE  /\ IsPrefix(Front(s), s) /\ IsPrefix(None, s)
           /\ Front(s) # s
           /\ Last(s) \in S
<1>1. Len(s) \in Nat /\ Len(s) # 0
  BY LenProperties, EmptySeq DEF None
<1>2. /\ Front(s) \in Seq(S) /\ Len(Front(s)) = Len(s) - 1
      /\ \A k \in 1 .. Len(s) - 1 : Front(s)[k] = s[k]
  <2>1. /\ SubSeq(s, 1, Len(s) - 1) \in Seq(S) /\ Len(SubSeq(s, 1, Len(s) - 1)) = Len(s) - 1
        /\ \A k \in 1 .. Len(s) - 1 : SubSeq(s, 1, Len(s) - 1)[k] = s[k]
    <3> DEFINE n == Len(s) - 1
    <3>1. n \in Nat /\ n <= Len(s)
      BY <1>1
    <3> HIDE DEF n
    <3>2. /\ SubSeq(s, 1, n) \in Seq(S) /\ Len(SubSeq(s, 1, n)) = n
          /\ \A k \in 1 .. n : SubSeq(s, 1, n)[k] = s[k]
      BY <1>1, <3>1
    <3> QED BY <3>2 DEF n
  <2> QED BY <2>1 DEF Front
<1>3. None \in Seq(S) /\ Len(None) = 0
  BY DEF None
<1>4. Last(s) \in S
  BY <1>1, ElementOfSeq DEF Last
<1>5. IsPrefix(Front(s), s)
  BY <1>1, <1>2, PrefixByElements
<1>6. IsPrefix(None, s)
  <2>1. SubSeq(None, 1, 0) = <<>> /\ SubSeq(s, 1, 0) = <<>>
    BY SubSeqEmpty
  <2> QED BY <1>1, <1>3, <2>1 DEF IsPrefix
<1> QED BY <1>1, <1>2, <1>4, <1>5, <1>6

(***************************************************************************)
(* The configuration.                                                      *)
(***************************************************************************)
N == Len(Configured)

LEMMA Configuration ==
    /\ N \in Nat \ {0}
    /\ ToSet(Configured) = {Configured[j] : j \in 1 .. N}
    /\ \A j, k \in 1 .. N : Configured[j] = Configured[k] => j = k
    /\ \A j \in 1 .. N : Configured[j] \in Branches /\ Configured[j] # Unmanaged
    /\ \A j \in 1 .. N : Configured[j] \notin Authors
    /\ First \in Branches
<1>1. Configured \in Seq(STRING) /\ Configured # <<>>
  BY SetupAssumption
<1>2. N \in Nat /\ N # 0 /\ DOMAIN Configured = 1 .. N
  BY <1>1, LenProperties, EmptySeq DEF N
<1>3. ToSet(Configured) = {Configured[j] : j \in 1 .. N}
  BY <1>2 DEF ToSet
<1>4. \A j, k \in 1 .. N : Configured[j] = Configured[k] => j = k
  BY <1>2, SetupAssumption DEF IsInjective
<1>5. \A j \in 1 .. N : Configured[j] \in ToSet(Configured)
  BY <1>3
<1> QED BY <1>2, <1>3, <1>4, <1>5, SetupAssumption DEF Branches, First

LEMMA ControlFilesListed ==
    /\ Len(ControlFiles) \in Nat \ {0}
    /\ Files = {ControlFiles[k] : k \in 1 .. Len(ControlFiles)}
<1>1. ControlFiles \in Seq(STRING) /\ ControlFiles # <<>>
  BY SetupAssumption
<1>2. Len(ControlFiles) \in Nat /\ Len(ControlFiles) # 0
      /\ DOMAIN ControlFiles = 1 .. Len(ControlFiles)
  BY <1>1, LenProperties, EmptySeq
<1> QED BY <1>2 DEF Files, ToSet

LEMMA EveryBranch ==
    ASSUME NEW b \in Branches
    PROVE  b = Unmanaged \/ \E j \in 1 .. N : b = Configured[j]
BY Configuration DEF Branches

(***************************************************************************)
(* Types, and where a run is.                                              *)
(***************************************************************************)
HeadStates == [on : Branches \cup Scratch \cup {"detached"}, commit : Histories]
FileStates == [Files -> {"missing", "pinned", "smudged", "edited"}]

Typed ==
    /\ TypeOK
    /\ plan \in Seq(Histories \ {None})
    /\ saved \in [refs : [Branches -> Histories], head : HeadStates, disk : Histories,
                  files : FileStates]
    /\ spent \in [runs : Nat, crashes : Nat, dest : Nat, dev : Nat]
    /\ i \in Nat

Committed == {"remove", "detach", "checkout", "exact", "attach", "unwork", "restore_files"}
Forward == {"plan", "commit", "remove", "detach", "checkout", "exact", "attach", "unwork"}

Control ==
    /\ pc = "plan" => touched = 0 /\ i \in 1 .. N /\ Len(plan) = i - 1
    /\ pc = "commit" => i \in 1 .. N /\ touched = i - 1 /\ Len(plan) = N
    /\ pc \in Committed => touched = N /\ Len(plan) = N
    /\ pc \in {"remove", "exact", "restore_files"} => i \in 1 .. Len(ControlFiles)
    /\ pc = "branches" => i \in 1 .. touched
    /\ pc # "idle" /\ touched > 0 => Len(plan) = N
    /\ pc \in Forward => broken = FALSE

Sound == Typed /\ Control

LEMMA HistoriesHold ==
    /\ None \in Histories /\ "own" \in Authors \cup ToSet(Configured)
    /\ \A x \in {<<"dest">>, <<"own">>} : x \in Histories \ {None}
    /\ Seq(Authors) \subseteq Histories
<1>1. "own" \in Authors \cup ToSet(Configured) /\ "dest" \in Authors \cup ToSet(Configured)
  BY DEF Authors
<1>2. <<"dest">> \in Histories /\ <<"own">> \in Histories
  BY <1>1 DEF Histories
<1>3. <<"dest">> # None /\ <<"own">> # None
  BY EmptySeq DEF None
<1>4. Seq(Authors) \subseteq Histories
  BY DEF Histories
<1>5. None \in Histories
  BY DEF Histories, None
<1> QED BY <1>1, <1>2, <1>3, <1>4, <1>5

LEMMA CommitOf ==
    ASSUME Typed
    PROVE  HeadCommit \in Histories /\ OriginalCommit \in Histories
BY HistoriesHold DEF Typed, TypeOK, HeadCommit, OriginalCommit, HeadStates

LEMMA SoundInit == Init => Sound
<1> SUFFICES ASSUME Init PROVE Sound
  OBVIOUS
<1>1. dest \in [ToSet(Configured) -> Histories \ {None}]
  BY HistoriesHold DEF Init
<1>2. refs \in [Branches -> Histories]
  <2>1. PICK tips \in [ToSet(Configured) -> Existing] :
           refs = [b \in Branches |-> IF b = Unmanaged THEN <<"own">> ELSE tips[b]]
    BY DEF Init
  <2>2. \A b \in ToSet(Configured) : tips[b] \in Histories
    BY <2>1, SetupAssumption, HistoriesHold
  <2> QED BY <2>1, <2>2, HistoriesHold DEF Branches
<1>3. head \in HeadStates /\ head.on \in Branches
  BY SetupAssumption, HistoriesHold DEF Init, Symbolic, HeadStates
<1>4. disk \in Histories
  BY <1>2, <1>3 DEF Init, HeadCommit
<1>5. files \in FileStates
  BY DEF Init, FileStates
<1>6. /\ plan \in Seq(Histories \ {None}) /\ i \in Nat
      /\ spent \in [runs : Nat, crashes : Nat, dest : Nat, dev : Nat]
  BY DEF Init
<1>7. saved \in [refs : [Branches -> Histories], head : HeadStates, disk : Histories,
                 files : FileStates]
  BY <1>2, <1>3, <1>4, <1>5 DEF Init, Current
<1>8. TypeOK
  <2>1. touched \in 0 .. Len(Configured)
    BY Configuration DEF Init, N
  <2> QED BY <1>1, <1>2, <1>3, <1>4, <1>5, <2>1 DEF Init, TypeOK, HeadStates, FileStates
<1>9. Control
  BY DEF Init, Control, Committed, Forward
<1> QED BY <1>6, <1>7, <1>8, <1>9 DEF Sound, Typed

LEMMA HeadsHold ==
    /\ \A b \in Branches \cup Scratch : Symbolic(b) \in HeadStates
    /\ \A c \in Histories : At(c) \in HeadStates
    /\ Typed => Detach \in HeadStates
BY HistoriesHold, CommitOf DEF Symbolic, At, HeadStates, Detach, Scratch

LEMMA TypedStep ==
    ASSUME Sound, [Next]_vars
    PROVE  Typed'
<1> USE DEF Sound
<1> DEFINE SavedTypes == [refs : [Branches -> Histories], head : HeadStates, disk : Histories,
                          files : FileStates]
<1>c. N \in Nat \ {0} /\ Len(Configured) = N
  BY Configuration DEF N
<1>t. /\ dest \in [ToSet(Configured) -> Histories \ {None}]
      /\ refs \in [Branches -> Histories]
      /\ head \in HeadStates /\ disk \in Histories /\ files \in FileStates
      /\ touched \in 0 .. N /\ broken \in BOOLEAN /\ saved \in SavedTypes
  BY <1>c DEF Typed, TypeOK, HeadStates, FileStates
<1>p. plan \in Seq(Histories \ {None}) /\ i \in Nat
  BY DEF Typed
<1>s. spent \in [runs : Nat, crashes : Nat, dest : Nat, dev : Nat]
  BY DEF Typed
<1>f. \A k \in 1 .. N : Configured[k] \in Branches /\ Configured[k] \in ToSet(Configured)
  BY Configuration
<1>g. \A k \in 1 .. Len(ControlFiles) : ControlFiles[k] \in Files
  BY ControlFilesListed
<1>1. dest' \in [ToSet(Configured) -> Histories \ {None}]
  <2>1. CASE DestMoves
    <3>1. PICK b \in ToSet(Configured) : dest' = [dest EXCEPT ![b] = Append(@, "dest")]
      BY <2>1 DEF DestMoves
    <3>2. dest[b] \in Histories /\ "dest" \in Authors \cup ToSet(Configured)
      BY <1>t DEF Authors
    <3>3. Append(dest[b], "dest") \in Histories \ {None}
      BY <3>2, OneMore DEF Histories
    <3> QED BY <1>t, <3>1, <3>3
  <2> QED BY <1>t, <2>1 DEF Next, Run, Start, PlanBranch, CommitBranch, RemoveFile, DetachHead, Checkout,
        WriteExact, AttachHead, RestoreWorktree, RestoreFile, ScratchHead, RollbackBranch, RestoreHead,
        Crash, DevCommit, DevEdit, vars
<1>2. refs' \in [Branches -> Histories]
  <2>1. CASE CommitBranch
    <3>1. i \in 1 .. N /\ plan[i] \in Histories
      BY <1>p, <2>1, ElementOfSeq DEF Control, CommitBranch
    <3> QED BY <1>t, <1>f, <2>1, <3>1 DEF CommitBranch
  <2>2. CASE RollbackBranch
    BY <1>t, <2>2 DEF RollbackBranch, Original
  <2>3. CASE DevCommit
    <3>1. PICK b \in ToSet(Configured) : refs' = [refs EXCEPT ![b] = Append(@, "own")]
      BY <2>3 DEF DevCommit
    <3>2. b \in Branches /\ Append(refs[b], "own") \in Histories
      BY <1>t, OneMore, HistoriesHold DEF Histories, Branches
    <3> QED BY <1>t, <3>1, <3>2
  <2> QED BY <1>t, <2>1, <2>2, <2>3 DEF Next, Run, Start, PlanBranch, RemoveFile, DetachHead, Checkout,
        WriteExact, AttachHead, RestoreWorktree, RestoreFile, ScratchHead, RestoreHead,
        Crash, DestMoves, DevEdit, vars, repository
<1>3. head' \in HeadStates
  <2>1. CASE DetachHead
    BY <1>t, <2>1, HeadsHold DEF DetachHead
  <2>2. CASE AttachHead
    BY <1>t, <2>2, HeadsHold, Configuration DEF AttachHead
  <2>3. CASE RestoreWorktree
    BY <1>t, <2>3, HeadsHold DEF RestoreWorktree
  <2>4. CASE ScratchHead
    BY <1>t, <2>4, HeadsHold DEF ScratchHead, Scratch
  <2>5. CASE RestoreHead
    BY <1>t, <2>5 DEF RestoreHead
  <2> QED BY <1>t, <2>1, <2>2, <2>3, <2>4, <2>5 DEF Next, Run, Start, PlanBranch, CommitBranch, RemoveFile,
        Checkout, WriteExact, RestoreFile, RollbackBranch, Crash, DestMoves, DevCommit, DevEdit, vars,
        repository
<1>4. disk' \in Histories
  <2>1. CASE DevCommit
    BY <1>t, <1>2, <2>1 DEF DevCommit, Branches
  <2>2. CASE Checkout
    BY <1>t, <2>2, Configuration DEF Checkout, AfterCheckout
  <2>3. CASE RestoreWorktree
    BY <1>t, <2>3, CommitOf DEF RestoreWorktree
  <2> QED BY <1>t, <2>1, <2>2, <2>3 DEF Next, Run, Start, PlanBranch, CommitBranch, RemoveFile, DetachHead,
        WriteExact, AttachHead, RestoreFile, ScratchHead, RollbackBranch, RestoreHead,
        Crash, DestMoves, DevEdit, vars, repository
<1>5. files' \in FileStates
  <2>1. CASE DevEdit
    BY <1>t, <2>1 DEF DevEdit, FileStates
  <2>2. CASE RestoreFile
    BY <1>t, <1>g, <2>2 DEF RestoreFile, FileStates, Control
  <2>3. CASE WriteExact \/ RemoveFile
    BY <1>t, <1>g, <2>3 DEF WriteExact, RemoveFile, FileStates, Control
  <2>4. CASE Checkout \/ RestoreWorktree
    BY <1>t, <2>4 DEF Checkout, RestoreWorktree, FileStates
  <2> QED BY <1>t, <2>1, <2>2, <2>3, <2>4 DEF Next, Run, Start, PlanBranch, CommitBranch, DetachHead,
        AttachHead, ScratchHead, RollbackBranch, RestoreHead, Crash, DestMoves, DevCommit, vars, repository
<1>6. touched' \in 0 .. N /\ i' \in Nat
  <2>1. CASE Start
    BY <1>c, <2>1 DEF Start, Go, Stop
  <2>2. CASE PlanBranch
    BY <1>t, <1>p, <2>2 DEF PlanBranch, Go, Stop
  <2>3. CASE CommitBranch
    <3>1. i \in 1 .. N
      BY <2>3 DEF CommitBranch, Control
    <3> QED BY <1>c, <1>t, <1>p, <2>3, <3>1 DEF CommitBranch, Go, Noted
  <2>4. CASE RemoveFile \/ DetachHead \/ Checkout \/ WriteExact \/ AttachHead
    BY <1>t, <1>p, <2>4 DEF RemoveFile, DetachHead, Checkout, WriteExact, AttachHead, Go
  <2>5. CASE RestoreWorktree \/ RestoreFile \/ ScratchHead
    <3>1. touched' = touched /\ i' \in {1, i + 1}
      BY <2>5 DEF RestoreWorktree, RestoreFile, ScratchHead, Go
    <3> QED BY <1>t, <1>p, <3>1
  <2>6. CASE RollbackBranch \/ RestoreHead \/ Crash
    <3>1. touched' = touched /\ i' \in {1, i + 1}
      BY <2>6 DEF RollbackBranch, RestoreHead, Crash, Go, Stop
    <3> QED BY <1>t, <1>p, <3>1
  <2> QED BY <1>t, <1>p, <2>1, <2>2, <2>3, <2>4, <2>5, <2>6
          DEF Next, Run, DestMoves, DevCommit, DevEdit, Act, vars, run
<1>b. /\ broken' \in BOOLEAN
      /\ pc' \in {"idle", "plan", "commit", "remove", "detach", "checkout", "exact", "attach", "unwork",
                  "restore_files", "scratch", "branches", "head"}
      /\ result' \in {"none", "done", "failed", "recovery_failed", "killed"}
  <2>u. /\ pc \in {"idle", "plan", "commit", "remove", "detach", "checkout", "exact", "attach", "unwork",
                   "restore_files", "scratch", "branches", "head"}
        /\ result \in {"none", "done", "failed", "recovery_failed", "killed"}
    BY DEF Typed, TypeOK
  <2>1. CASE Start \/ PlanBranch
    BY <1>t, <2>u, <2>1 DEF Start, PlanBranch, Go, Stop
  <2>2. CASE CommitBranch \/ RemoveFile \/ DetachHead \/ Checkout
    BY <1>t, <2>u, <2>2 DEF CommitBranch, RemoveFile, DetachHead, Checkout, Go
  <2>3. CASE WriteExact \/ AttachHead \/ Crash
    BY <1>t, <2>u, <2>3 DEF WriteExact, AttachHead, Crash, Go
  <2>4. CASE RestoreWorktree \/ RestoreFile \/ ScratchHead \/ RollbackBranch
    BY <1>t, <2>u, <2>4 DEF RestoreWorktree, RestoreFile, ScratchHead, RollbackBranch, Recover, Go
  <2>5. CASE RestoreHead
    BY <1>t, <2>u, <2>5 DEF RestoreHead, Recover, Go, Stop
  <2>6. CASE DestMoves \/ DevCommit \/ DevEdit \/ UNCHANGED vars
    BY <1>t, <2>u, <2>6 DEF DestMoves, DevCommit, DevEdit, Act, vars, run
  <2> QED BY <2>1, <2>2, <2>3, <2>4, <2>5, <2>6 DEF Next, Run
<1>7. plan' \in Seq(Histories \ {None})
  <2>1. CASE PlanBranch
    <3>1. ASSUME NEW onto \in Histories, NEW b \in ToSet(Configured)
          PROVE  Append(onto, b) \in Histories \ {None}
      BY OneMore DEF Histories
    <3>2. i \in 1 .. N
      BY <2>1 DEF PlanBranch, Control
    <3>3. /\ Configured[i] \in ToSet(Configured) /\ Configured[i] \in Branches
      BY <1>f, <3>2
    <3>4. saved.refs[Configured[i]] \in Histories /\ dest[Configured[i]] \in Histories
      BY <1>t, <3>3
    <3> DEFINE existing == saved.refs[Configured[i]]
               tip == dest[Configured[i]]
               onto == IF existing \in {None, tip} THEN tip ELSE existing
               x == Append(onto, Configured[i])
    <3>5. plan' = plan \/ plan' = Append(plan, x)
      BY <2>1 DEF PlanBranch
    <3>6. onto \in Histories
      BY <3>4
    <3>7. x \in Histories \ {None}
      <4> HIDE DEF onto
      <4> QED BY <3>1, <3>3, <3>6
    <3> HIDE DEF x
    <3>8. Append(plan, x) \in Seq(Histories \ {None})
      BY <1>p, <3>7, AppendProperties
    <3> QED BY <1>p, <3>5, <3>8
  <2>2. CASE Start
    BY <2>2 DEF Start
  <2> QED BY <1>p, <2>1, <2>2 DEF Next, Run, CommitBranch, RemoveFile, DetachHead, Checkout,
        WriteExact, AttachHead, RestoreWorktree, RestoreFile, ScratchHead, RollbackBranch, RestoreHead,
        Crash, DestMoves, DevCommit, DevEdit, Act, vars, run
<1>8. saved' \in SavedTypes
  <2>1. CASE Start
    BY <1>t, <2>1 DEF Start, Current
  <2> QED BY <1>t, <2>1 DEF Next, Run, PlanBranch, CommitBranch, RemoveFile, DetachHead, Checkout,
        WriteExact, AttachHead, RestoreWorktree, RestoreFile, ScratchHead, RollbackBranch, RestoreHead,
        Crash, DestMoves, DevCommit, DevEdit, Act, vars, run
<1>9. spent' \in [runs : Nat, crashes : Nat, dest : Nat, dev : Nat]
  <2>1. CASE Start
    BY <1>s, <2>1 DEF Start
  <2>2. CASE Crash
    BY <1>s, <2>2 DEF Crash
  <2>3. CASE DestMoves
    BY <1>s, <2>3 DEF DestMoves
  <2>4. CASE DevCommit \/ DevEdit
    BY <1>s, <2>4 DEF DevCommit, DevEdit, Act
  <2> QED BY <1>s, <2>1, <2>2, <2>3, <2>4 DEF Next, Run, PlanBranch, CommitBranch, RemoveFile, DetachHead,
     Checkout, WriteExact, AttachHead, RestoreWorktree, RestoreFile, ScratchHead, RollbackBranch,
     RestoreHead, vars
<1>10. TypeOK'
  BY <1>c, <1>1, <1>2, <1>3, <1>4, <1>5, <1>6, <1>b DEF TypeOK, HeadStates, FileStates
<1> QED BY <1>6, <1>7, <1>8, <1>9, <1>10 DEF Typed

LEMMA ControlStep ==
    ASSUME Sound, [Next]_vars
    PROVE  Control'
<1>c. /\ N \in Nat /\ 1 <= N /\ Len(Configured) = N
      /\ Len(ControlFiles) \in Nat /\ 1 <= Len(ControlFiles)
      /\ touched \in 0 .. N /\ plan \in Seq(Histories \ {None}) /\ i \in Nat
      /\ Control /\ N' = N
  <2>1. N' = N
    BY DEF N
  <2> QED BY <2>1, Configuration, ControlFilesListed DEF N, Sound, Typed, TypeOK
<1> DEFINE Stays == touched' = touched /\ plan' = plan /\ broken' = broken
           Falls(where) == pc' = where /\ i' = 1
<1>1. CASE Start
  <2>1. touched' = 0 /\ plan' = <<>> /\ broken' = FALSE /\ i' = 1 /\ pc' \in {"idle", "plan"}
    BY <1>1 DEF Start, Go, Stop
  <2>2. Len(<<>>) = 0
    OBVIOUS
  <2> QED BY <1>c, <2>1, <2>2 DEF Control, Committed, Forward
<1>2. CASE PlanBranch
  <2>1. /\ pc = "plan" /\ touched' = touched /\ broken' = broken
        /\ \/ pc' = "idle"
           \/ /\ \E x : plan' = Append(plan, x)
              /\ \/ i = N /\ Falls("commit")
                 \/ i # N /\ pc' = "plan" /\ i' = i + 1
    BY <1>2, <1>c DEF PlanBranch, Go, Stop
  <2>2. \A x : Len(Append(plan, x)) = Len(plan) + 1
    BY <1>c
  <2>3. i \in 1 .. N /\ touched = 0 /\ Len(plan) = i - 1 /\ broken = FALSE
    BY <1>c, <2>1 DEF Control, Forward
  <2> QED BY <1>c, <2>1, <2>2, <2>3 DEF Control, Committed, Forward
<1>3. CASE CommitBranch
  <2>1. /\ pc = "commit" /\ plan' = plan /\ broken' = broken
        /\ \/ touched' = i /\ i = N /\ Falls("remove")
           \/ touched' = i /\ i # N /\ pc' = "commit" /\ i' = i + 1
           \/ touched' = touched /\ pc' = "scratch"
    BY <1>3, <1>c DEF CommitBranch, Go, Noted
  <2>2. i \in 1 .. N /\ touched = i - 1 /\ Len(plan) = N /\ broken = FALSE
    BY <1>c, <2>1 DEF Control, Forward
  <2> QED BY <1>c, <2>1, <2>2 DEF Control, Committed, Forward
<1>4. CASE RemoveFile
  <2>1. /\ pc = "remove" /\ Stays
        /\ \/ pc' = "detach"
           \/ pc' = "remove" /\ i # Len(ControlFiles) /\ i' = i + 1
           \/ Falls("restore_files")
    BY <1>4 DEF RemoveFile, Go
  <2>2. i \in 1 .. Len(ControlFiles) /\ touched = N /\ Len(plan) = N /\ broken = FALSE
    BY <1>c, <2>1 DEF Control, Forward, Committed
  <2> QED BY <1>c, <2>1, <2>2 DEF Control, Committed, Forward
<1>5. CASE DetachHead \/ Checkout
  <2>1. /\ pc \in {"detach", "checkout"} /\ Stays
        /\ \/ pc' = "checkout"
           \/ Falls("exact")
           \/ Falls("restore_files")
    BY <1>5 DEF DetachHead, Checkout, Go
  <2>2. touched = N /\ Len(plan) = N /\ broken = FALSE
    BY <1>c, <2>1 DEF Control, Forward, Committed
  <2> QED BY <1>c, <2>1, <2>2 DEF Control, Committed, Forward
<1>6. CASE WriteExact \/ AttachHead
  <2>1. /\ pc \in {"exact", "attach"} /\ Stays
        /\ \/ pc = "exact" /\ pc' = "exact" /\ i # Len(ControlFiles) /\ i' = i + 1
           \/ pc' \in {"attach", "unwork", "idle"}
    BY <1>6 DEF WriteExact, AttachHead, Go
  <2>2. /\ touched = N /\ Len(plan) = N /\ broken = FALSE
        /\ pc = "exact" => i \in 1 .. Len(ControlFiles)
    BY <1>c, <2>1 DEF Control, Forward, Committed
  <2> QED BY <1>c, <2>1, <2>2 DEF Control, Committed, Forward
<1>7. CASE RestoreWorktree \/ RestoreFile
  <2>1. /\ pc \in {"unwork", "restore_files"} /\ touched' = touched /\ plan' = plan
        /\ \/ pc = "unwork" /\ Falls("restore_files")
           \/ pc = "restore_files" /\ pc' = "restore_files" /\ i # Len(ControlFiles) /\ i' = i + 1
           \/ pc' = "scratch"
    BY <1>7 DEF RestoreWorktree, RestoreFile, Go
  <2>2. /\ touched = N /\ Len(plan) = N
        /\ pc = "restore_files" => i \in 1 .. Len(ControlFiles)
    BY <1>c, <2>1 DEF Control, Committed
  <2> QED BY <1>c, <2>1, <2>2 DEF Control, Committed, Forward
<1>8. CASE ScratchHead \/ RollbackBranch
  <2>1. /\ pc \in {"scratch", "branches"} /\ touched' = touched /\ plan' = plan
        /\ \/ touched # 0 /\ Falls("branches")
           \/ pc = "branches" /\ pc' = "branches" /\ i # touched /\ i' = i + 1
           \/ pc' = "head"
    BY <1>8 DEF ScratchHead, RollbackBranch, Go
  <2>2. /\ touched > 0 => Len(plan) = N
        /\ pc = "branches" => i \in 1 .. touched
    BY <1>c, <2>1 DEF Control
  <2> QED BY <1>c, <2>1, <2>2 DEF Control, Committed, Forward
<1>9. CASE RestoreHead \/ Crash
  <2>1. pc' = "idle"
    BY <1>9 DEF RestoreHead, Crash, Stop, Go
  <2> QED BY <2>1 DEF Control, Committed, Forward
<1>10. CASE DestMoves \/ DevCommit \/ DevEdit \/ UNCHANGED vars
  <2>1. pc' = pc /\ i' = i /\ Stays
    BY <1>10 DEF DestMoves, DevCommit, DevEdit, Act, vars, run
  <2> QED BY <1>c, <2>1 DEF Control, Committed, Forward
<1> QED BY <1>1, <1>2, <1>3, <1>4, <1>5, <1>6, <1>7, <1>8, <1>9, <1>10 DEF Next, Run

(***************************************************************************)
(* Which branches have moved.                                              *)
(***************************************************************************)
Moved ==
    pc # "idle" => /\ refs[Unmanaged] = saved.refs[Unmanaged]
                   /\ \A j \in touched + 1 .. N : Grown(saved.refs[Configured[j]], refs[Configured[j]])

LEMMA MovedStep ==
    ASSUME Sound, Moved, [Next]_vars
    PROVE  Moved'
<1>1. SUFFICES ASSUME pc' # "idle"
               PROVE  /\ refs'[Unmanaged] = saved'.refs[Unmanaged]
                      /\ \A j \in touched' + 1 .. N :
                            Grown(saved'.refs[Configured[j]], refs'[Configured[j]])
  BY DEF Moved, N
<1>t. /\ refs \in [Branches -> Histories] /\ touched \in 0 .. N
      /\ \A b \in Branches : saved.refs[b] \in Histories
  BY DEF Sound, Typed, TypeOK, N
<1>c. /\ N \in Nat
      /\ \A j, k \in 1 .. N : Configured[j] = Configured[k] => j = k
      /\ \A j \in 1 .. N : Configured[j] \in Branches /\ Configured[j] # Unmanaged
      /\ Unmanaged \in Branches
  BY Configuration DEF Branches
<1>2. CASE Start
  <2>1. touched' = 0 /\ refs' = refs /\ saved'.refs = refs
    BY <1>2 DEF Start, repository, Current
  <2>2. \A b \in Branches : Grown(refs[b], refs[b])
    BY <1>t, Unchanged DEF Histories
  <2> QED BY <1>c, <2>1, <2>2
<1>3. CASE CommitBranch
  <2>1. /\ i \in 1 .. N /\ touched = i - 1 /\ saved' = saved /\ pc # "idle"
        /\ \/ touched' = i /\ refs' = [refs EXCEPT ![Configured[i]] = plan[i]]
           \/ touched' = touched /\ refs' = refs
    BY <1>3 DEF CommitBranch, Noted, Sound, Control
  <2>2. touched' + 1 .. N \subseteq touched + 1 .. N
    BY <1>c, <2>1
  <2>3. \A j \in touched' + 1 .. N : refs'[Configured[j]] = refs[Configured[j]]
    BY <1>c, <1>t, <2>1
  <2>4. refs'[Unmanaged] = refs[Unmanaged]
    BY <1>c, <1>t, <2>1
  <2> QED BY <2>1, <2>2, <2>3, <2>4 DEF Moved
<1>4. CASE RollbackBranch
  <2>1. /\ i \in 1 .. touched /\ saved' = saved /\ pc # "idle" /\ touched' = touched
        /\ \E h \in Histories : refs' \in {refs, [refs EXCEPT ![Configured[i]] = h]}
    <3>1. i \in 1 .. touched /\ Configured[i] \in Branches
      BY <1>4, <1>c, <1>t DEF RollbackBranch, Sound, Control
    <3> QED BY <1>4, <1>t, <3>1 DEF RollbackBranch, Original
  <2>2. \A j \in touched + 1 .. N : refs'[Configured[j]] = refs[Configured[j]]
    BY <1>c, <1>t, <2>1
  <2>3. refs'[Unmanaged] = refs[Unmanaged]
    BY <1>c, <1>t, <2>1
  <2> QED BY <2>1, <2>2, <2>3 DEF Moved
<1>5. CASE DevCommit
  <2>1. pc' = pc /\ saved' = saved /\ touched' = touched
    BY <1>5 DEF DevCommit, Act, run
  <2>2. PICK b \in ToSet(Configured) : refs' = [refs EXCEPT ![b] = Append(@, "own")]
    BY <1>5 DEF DevCommit
  <2>3. refs'[Unmanaged] = refs[Unmanaged]
    BY <1>c, <1>t, <2>2, Configuration
  <2>4. ASSUME NEW j \in touched + 1 .. N
        PROVE  Grown(saved.refs[Configured[j]], refs'[Configured[j]])
    <3>1. j \in 1 .. N
      BY <1>t, <1>c
    <3>2. /\ saved.refs[Configured[j]] \in Histories /\ refs[Configured[j]] \in Histories
          /\ Grown(saved.refs[Configured[j]], refs[Configured[j]])
      BY <1>1, <1>c, <1>t, <2>1, <3>1 DEF Moved
    <3>3. Grown(saved.refs[Configured[j]], Append(refs[Configured[j]], "own"))
      BY <3>2, GrownByOwn, HistoriesHold DEF Histories
    <3>4. refs'[Configured[j]] \in {refs[Configured[j]], Append(refs[Configured[j]], "own")}
      BY <1>t, <1>c, <2>2, <3>1
    <3> QED BY <3>2, <3>3, <3>4
  <2> QED BY <1>1, <2>1, <2>3, <2>4 DEF Moved
<1>6. CASE UNCHANGED <<refs, saved, touched>> /\ pc # "idle"
  BY <1>6 DEF Moved
<1>7. (UNCHANGED <<refs, saved, touched>> /\ pc # "idle") \/ Start \/ CommitBranch \/ RollbackBranch \/ DevCommit
  BY <1>1 DEF Next, Run, PlanBranch, RemoveFile, DetachHead, Checkout, WriteExact, AttachHead,
     RestoreWorktree, RestoreFile, ScratchHead, RestoreHead, Crash, DestMoves, DevEdit, Act, Go,
     repository, run, vars
<1> QED BY <1>2, <1>3, <1>4, <1>5, <1>6, <1>7

(* A run commits to no branch before every branch has a plan, and has at any
   time moved only the branches it notes as touched; the others hold what
   was there when it started, with developers' commits on top. *)
THEOREM SetupInvHolds == Spec => []SetupInv
<1>1. Init => Sound /\ Moved
  <2>1. Init => pc = "idle"
    BY DEF Init
  <2> QED BY <2>1, SoundInit DEF Moved
<1>2. (Sound /\ Moved) /\ [Next]_vars => (Sound /\ Moved)'
  BY TypedStep, ControlStep, MovedStep DEF Sound
<1>3. Sound /\ Moved => SetupInv
  <2> SUFFICES ASSUME Sound, Moved, pc # "idle" PROVE OnlyTouchedBranchesMoved
    BY DEF Sound, Typed, SetupInv
  <2>1. touched > 0 => Len(plan) = Len(Configured)
    BY DEF Sound, Control, N
  <2> QED BY <2>1 DEF Moved, Grown, OnlyTouchedBranchesMoved, SinceSaved, N
<1> QED BY <1>1, <1>2, <1>3, PTL DEF Spec

(* Committing a graft takes no commit off a branch, whatever developers
   commit while the run is planning: the ref moves only from the graft's
   first parent, or is created. *)
THEOREM NoCommitLostByGraftHolds == Spec => NoCommitLostByGraft
<1>1. ASSUME Sound, [Next]_vars
      PROVE  [pc = "commit" => \A b \in Branches : IsPrefix(refs[b], refs'[b])]_vars
  <2> SUFFICES ASSUME pc = "commit", NEW b \in Branches PROVE IsPrefix(refs[b], refs'[b])
    OBVIOUS
  <2>t. /\ refs \in [Branches -> Histories] /\ plan \in Seq(Histories \ {None})
        /\ i \in 1 .. Len(plan) /\ Configured[i] \in Branches
    BY <1>1, Configuration DEF Sound, Control, Typed, TypeOK
  <2>1. CASE UNCHANGED refs
    BY <2>1, <2>t, Unchanged DEF Histories
  <2>2. CASE CommitBranch
    <3>1. plan[i] \in Histories \ {None}
      BY <2>t, ElementOfSeq
    <3>2. IsPrefix(Front(plan[i]), plan[i]) /\ IsPrefix(None, plan[i])
      BY <3>1, FrontShorter DEF Histories
    <3>3. CASE refs' = [refs EXCEPT ![Configured[i]] = plan[i]] /\ RefUnmoved(Configured[i])
      <4>1. CASE b = Configured[i]
        BY <2>t, <3>2, <3>3, <4>1 DEF RefUnmoved
      <4>2. CASE b # Configured[i]
        BY <2>t, <3>3, <4>2, Unchanged DEF Histories
      <4> QED BY <4>1, <4>2
    <3> QED BY <2>1, <2>2, <3>3 DEF CommitBranch
  <2>3. CASE DevCommit
    <3>1. PICK c \in ToSet(Configured) : refs' = [refs EXCEPT ![c] = Append(@, "own")]
      BY <2>3 DEF DevCommit
    <3>2. IsPrefix(refs[b], refs[b]) /\ IsPrefix(refs[b], Append(refs[b], "own"))
      BY <2>t, Unchanged, OneMore, HistoriesHold DEF Histories
    <3>3. refs'[b] \in {refs[b], Append(refs[b], "own")}
      BY <2>t, <3>1
    <3> QED BY <3>2, <3>3
  <2> QED BY <1>1, <2>1, <2>2, <2>3 DEF Next, Run, Start, PlanBranch, RemoveFile, DetachHead, Checkout,
        WriteExact, AttachHead, RestoreWorktree, RestoreFile, ScratchHead, RollbackBranch, RestoreHead,
        Crash, DestMoves, DevEdit, vars, repository
<1>2. Sound /\ [Next]_vars => Sound'
  BY TypedStep, ControlStep DEF Sound
<1>3. Sound /\ [Next]_vars => [pc = "commit" => \A b \in Branches : IsPrefix(refs[b], refs'[b])]_vars
  BY <1>1
<1> QED BY SoundInit, <1>2, <1>3, PTL DEF Spec, NoCommitLostByGraft

(***************************************************************************)
(* Grafts.  Only setup writes a branch's marker, and on that branch alone, *)
(* so the graft on the first branch is a commit that no branch held.       *)
(***************************************************************************)
OwnOf(b) == Seq(Authors \cup {b})

Unmixed ==
    /\ \A b \in Branches : refs[b] \in OwnOf(b) /\ saved.refs[b] \in OwnOf(b)
    /\ \A b \in ToSet(Configured) : dest[b] \in OwnOf(b)

GraftOn(h, b) ==
    /\ h \in OwnOf(b) \ {None} /\ Last(h) = b
    /\ saved.refs[b] # None => Front(h) = saved.refs[b]
Planned == \A j \in 1 .. N : j <= Len(plan) => GraftOn(plan[j], Configured[j])

LEMMA PlanIsGraft ==
    ASSUME Sound, Unmixed, PlanBranch, pc' # "idle"
    PROVE  \E h : plan' = Append(plan, h) /\ GraftOn(h, Configured[i])
<1> DEFINE b == Configured[i]
           existing == saved.refs[b]
           tip == dest[b]
           onto == IF existing \in {None, tip} THEN tip ELSE existing
<1>1. b \in ToSet(Configured) /\ b \in Branches
  BY Configuration DEF PlanBranch, Sound, Control
<1>2. plan' = Append(plan, Append(onto, b))
  BY DEF PlanBranch, Stop, Go
<1>3. onto \in OwnOf(b) /\ (existing # None => onto = existing)
  BY <1>1 DEF Unmixed
<1> HIDE DEF onto, b
<1>4. GraftOn(Append(onto, b), b)
  <2>1. b \in Authors \cup {b}
    OBVIOUS
  <2>2. Append(onto, b) \in OwnOf(b) \ {None} /\ Front(Append(onto, b)) = onto /\ Last(Append(onto, b)) = b
    BY <1>3, <2>1, OneMore DEF OwnOf
  <2> QED BY <1>3, <2>2 DEF GraftOn
<1> QED BY <1>2, <1>4 DEF b

LEMMA UnmixedInit == Init => Unmixed /\ Planned
<1> SUFFICES ASSUME Init PROVE Unmixed /\ Planned
  OBVIOUS
<1>1. \A b : <<"dest">> \in OwnOf(b) /\ <<"own">> \in OwnOf(b) /\ Seq(Authors) \subseteq OwnOf(b)
  <2>1. \A b : "dest" \in Authors \cup {b} /\ "own" \in Authors \cup {b}
    BY DEF Authors
  <2> QED BY <2>1 DEF OwnOf
<1>2. \A b \in Branches : refs[b] \in OwnOf(b)
  <2>1. PICK tips \in [ToSet(Configured) -> Existing] :
           refs = [b \in Branches |-> IF b = Unmanaged THEN <<"own">> ELSE tips[b]]
    BY DEF Init
  <2>2. \A b \in ToSet(Configured) : tips[b] \in Seq(Authors)
    BY <2>1, SetupAssumption
  <2> QED BY <2>1, <2>2, <1>1 DEF Branches
<1>3. saved.refs = refs /\ dest = [b \in ToSet(Configured) |-> <<"dest">>] /\ Len(plan) = 0
  BY DEF Init, Current
<1> QED BY <1>1, <1>2, <1>3 DEF Unmixed, Planned

LEMMA UnmixedStep ==
    ASSUME Sound, Unmixed, Planned, [Next]_vars
    PROVE  Unmixed' /\ Planned'
<1>t. /\ refs \in [Branches -> Histories] /\ plan \in Seq(Histories \ {None})
      /\ dest \in [ToSet(Configured) -> Histories \ {None}]
  BY DEF Sound, Typed, TypeOK
<1>c. /\ N \in Nat
      /\ \A j \in 1 .. N : Configured[j] \in Branches /\ Configured[j] \in ToSet(Configured)
  BY Configuration
<1>a. \A b : \A h \in OwnOf(b) : Append(h, "own") \in OwnOf(b) /\ Append(h, "dest") \in OwnOf(b)
  <2>1. ASSUME NEW b, NEW h \in OwnOf(b)
        PROVE  Append(h, "own") \in OwnOf(b) /\ Append(h, "dest") \in OwnOf(b)
    <3>1. "dest" \in Authors \cup {b} /\ "own" \in Authors \cup {b}
      BY DEF Authors
    <3> QED BY <3>1 DEF OwnOf
  <2> QED BY <2>1
<1>1. \A b \in Branches : refs'[b] \in OwnOf(b)
  <2>1. CASE CommitBranch
    <3>1. i \in 1 .. N /\ GraftOn(plan[i], Configured[i])
      BY <2>1 DEF CommitBranch, Sound, Control, Planned
    <3> QED BY <1>t, <1>c, <2>1, <3>1 DEF CommitBranch, GraftOn, Unmixed
  <2>2. CASE RollbackBranch
    BY <1>t, <2>2 DEF RollbackBranch, Original, Unmixed
  <2>3. CASE DevCommit
    <3>1. PICK b \in ToSet(Configured) : refs' = [refs EXCEPT ![b] = Append(@, "own")]
      BY <2>3 DEF DevCommit
    <3> QED BY <1>t, <1>a, <3>1 DEF Unmixed
  <2>4. CASE UNCHANGED refs
    BY <2>4 DEF Unmixed
  <2> QED BY <2>1, <2>2, <2>3, <2>4 DEF Next, Run, Start, PlanBranch, RemoveFile, DetachHead, Checkout,
        WriteExact, AttachHead, RestoreWorktree, RestoreFile, ScratchHead, RestoreHead, Crash, DestMoves,
        DevEdit, vars, repository
<1>2. \A b \in ToSet(Configured) : dest'[b] \in OwnOf(b)
  <2>1. CASE DestMoves
    <3>1. PICK b \in ToSet(Configured) : dest' = [dest EXCEPT ![b] = Append(@, "dest")]
      BY <2>1 DEF DestMoves
    <3> QED BY <1>t, <1>a, <3>1 DEF Unmixed
  <2>2. CASE UNCHANGED dest
    BY <2>2 DEF Unmixed
  <2> QED BY <2>1, <2>2 DEF Next, Run, Start, PlanBranch, CommitBranch, RemoveFile, DetachHead, Checkout,
        WriteExact, AttachHead, RestoreWorktree, RestoreFile, ScratchHead, RollbackBranch, RestoreHead,
        Crash, DevCommit, DevEdit, vars
<1>3. saved'.refs = refs \/ saved' = saved
  <2>1. CASE Start
    BY <2>1 DEF Start, Current
  <2> QED BY <2>1 DEF Next, Run, PlanBranch, CommitBranch, RemoveFile, DetachHead, Checkout, WriteExact,
        AttachHead, RestoreWorktree, RestoreFile, ScratchHead, RollbackBranch, RestoreHead, Crash,
        DestMoves, DevCommit, DevEdit, Act, vars, run
<1>4. Unmixed'
  BY <1>1, <1>2, <1>3 DEF Unmixed
<1>5. Planned'
  <2>0. SUFFICES ASSUME NEW j \in 1 .. N, j <= Len(plan') PROVE GraftOn(plan[j], Configured[j])'
    BY DEF Planned, N
  <2>1. CASE Start
    <3>1. Len(plan') = 0
      BY <2>1 DEF Start
    <3> QED BY <2>0, <3>1
  <2>2. CASE PlanBranch /\ pc' # "idle"
    <3>1. PICK h : plan' = Append(plan, h) /\ GraftOn(h, Configured[i])
      BY <2>2, PlanIsGraft
    <3>2. Len(plan) = i - 1 /\ i \in 1 .. N /\ saved' = saved
      BY <2>2 DEF PlanBranch, Sound, Control
    <3>3. /\ Len(plan') = Len(plan) + 1 /\ plan'[Len(plan) + 1] = h
          /\ \A k \in 1 .. Len(plan) : plan'[k] = plan[k]
      BY <1>t, <3>1
    <3>4. CASE j = i
      BY <3>1, <3>2, <3>3, <3>4 DEF GraftOn
    <3>5. CASE j # i
      <4>1. j \in 1 .. Len(plan)
        BY <1>c, <2>0, <3>2, <3>3, <3>5
      <4> QED BY <3>2, <3>3, <4>1 DEF GraftOn, Planned
    <3> QED BY <3>4, <3>5
  <2>3. CASE UNCHANGED <<plan, saved>>
    BY <2>0, <2>3 DEF Planned, GraftOn
  <2> QED BY <2>1, <2>2, <2>3 DEF Next, Run, PlanBranch, CommitBranch, RemoveFile, DetachHead, Checkout,
        WriteExact, AttachHead, RestoreWorktree, RestoreFile, ScratchHead, RollbackBranch, RestoreHead,
        Crash, DestMoves, DevCommit, DevEdit, Act, Stop, Go, vars, run
<1> QED BY <1>4, <1>5

(***************************************************************************)
(* A run that nobody disturbs, and of which no step of the recovery has    *)
(* failed: what it has changed so far, and what it has put back.           *)
(***************************************************************************)
InPlace ==
    \A j \in 1 .. N :
        refs[Configured[j]] = IF j <= touched THEN plan[j] ELSE saved.refs[Configured[j]]

RefsSo ==
    /\ pc \notin {"branches", "head"} => InPlace
    /\ pc = "branches" =>
         \A j \in 1 .. N : j < i \/ j > touched => refs[Configured[j]] = saved.refs[Configured[j]]
    /\ pc = "head" => \A j \in 1 .. N : refs[Configured[j]] = saved.refs[Configured[j]]

DiskSo ==
    /\ pc = "plan" => head = saved.head
    /\ pc = "checkout" => head = Detach
    /\ pc \in {"exact", "attach"} => disk = refs[First]
    /\ pc \in {"exact", "attach", "unwork"} => saved.disk = OriginalCommit
    /\ pc \notin {"exact", "attach", "unwork"} => disk = saved.disk

FilesSo ==
    /\ pc \in {"plan", "commit", "scratch", "branches", "head"} => files = saved.files
    /\ pc = "exact" => \A k \in 1 .. Len(ControlFiles) : k < i => files[ControlFiles[k]] = "pinned"
    /\ pc = "attach" => \A f \in Files : files[f] = "pinned"
    /\ pc = "restore_files" =>
         \A k \in 1 .. Len(ControlFiles) :
            k < i => files[ControlFiles[k]] = saved.files[ControlFiles[k]]

Undisturbed == spent.dev = 0 /\ pc # "idle" /\ broken = FALSE
Undone == Undisturbed => RefsSo /\ DiskSo /\ FilesSo

(* Unless it has just started, an undisturbed run was undisturbed before. *)
LEMMA UndisturbedBefore ==
    ASSUME Sound, [Next]_vars, Undisturbed'
    PROVE  /\ ~DevCommit /\ ~DevEdit /\ ~Crash
           /\ ~Start => Undisturbed /\ saved' = saved
<1>t. spent.dev \in Nat /\ broken \in BOOLEAN
      /\ spent \in [runs : Nat, crashes : Nat, dest : Nat, dev : Nat]
  BY DEF Sound, Typed, TypeOK
<1>1. ~DevCommit /\ ~DevEdit
  BY <1>t DEF DevCommit, DevEdit, Act, Undisturbed
<1>2. ~Crash
  BY DEF Crash, Go, Undisturbed
<1>3. ASSUME ~Start PROVE Undisturbed /\ saved' = saved
  <2>1. pc # "idle" /\ saved' = saved
    BY <1>1, <1>2, <1>3 DEF Next, Run, PlanBranch, CommitBranch, RemoveFile, DetachHead, Checkout,
       WriteExact, AttachHead, RestoreWorktree, RestoreFile, ScratchHead, RollbackBranch, RestoreHead,
       DestMoves, vars, run, Undisturbed
  <2>2. spent.dev = 0
    <3>1. CASE DestMoves
      BY <1>t, <3>1 DEF DestMoves, Undisturbed
    <3> QED BY <1>1, <1>2, <1>3, <3>1 DEF Next, Run, PlanBranch, CommitBranch, RemoveFile, DetachHead,
          Checkout, WriteExact, AttachHead, RestoreWorktree, RestoreFile, ScratchHead, RollbackBranch,
          RestoreHead, vars, Undisturbed
  <2>3. broken = FALSE
    <3>1. CASE \E failing \in BOOLEAN : Recover(failing)
      BY <1>t, <3>1 DEF Recover, Undisturbed
    <3>2. CASE UNCHANGED broken
      BY <3>2 DEF Undisturbed
    <3> QED BY <1>1, <1>2, <1>3, <3>1, <3>2 DEF Next, Run, PlanBranch, CommitBranch, RemoveFile,
          DetachHead, Checkout, WriteExact, AttachHead, RestoreWorktree, RestoreFile, ScratchHead,
          RollbackBranch, RestoreHead, DestMoves, vars, run
  <2> QED BY <2>1, <2>2, <2>3 DEF Undisturbed
<1> QED BY <1>1, <1>2, <1>3

LEMMA RefsStep ==
    ASSUME Sound, Undone, [Next]_vars, Undisturbed'
    PROVE  RefsSo'
<1>t. /\ refs \in [Branches -> Histories] /\ touched \in 0 .. N /\ broken' = FALSE /\ pc' # "idle"
      /\ N \in Nat
      /\ \A j, k \in 1 .. N : Configured[j] = Configured[k] => j = k
      /\ \A j \in 1 .. N : Configured[j] \in Branches
  BY Configuration DEF Sound, Typed, TypeOK, N, Undisturbed
<1>n. InPlace' <=> \A j \in 1 .. N : refs'[Configured[j]] = IF j <= touched' THEN plan'[j]
                                                           ELSE saved'.refs[Configured[j]]
  BY DEF InPlace, N
<1>1. CASE Start
  <2>1. touched' = 0 /\ saved'.refs = refs /\ refs' = refs /\ pc' = "plan"
    BY <1>1, <1>t DEF Start, Current, Go, Stop, repository
  <2> QED BY <1>t, <1>n, <2>1 DEF RefsSo
<1>2. ASSUME ~Start PROVE Undisturbed /\ saved' = saved /\ RefsSo /\ ~DevCommit /\ ~DevEdit /\ ~Crash
  BY <1>2, UndisturbedBefore DEF Undone
<1>3. CASE PlanBranch
  <2>1. /\ pc = "plan" /\ refs' = refs /\ touched' = 0 /\ touched = 0 /\ saved' = saved
        /\ pc' \notin {"branches", "head"} /\ ~Start
    BY <1>3 DEF PlanBranch, Start, repository, Go, Stop, Sound, Control
  <2>2. \A j \in 1 .. N : refs[Configured[j]] = saved.refs[Configured[j]]
    BY <1>2, <1>t, <2>1 DEF RefsSo, InPlace
  <2> QED BY <1>t, <1>n, <2>1, <2>2 DEF RefsSo
<1>4. CASE CommitBranch
  <2>1. /\ pc = "commit" /\ i \in 1 .. N /\ touched = i - 1 /\ plan' = plan /\ ~Start
        /\ pc' \notin {"branches", "head"}
        /\ \/ touched' = i /\ refs' = [refs EXCEPT ![Configured[i]] = plan[i]]
           \/ touched' = touched /\ refs' = refs
    BY <1>4 DEF CommitBranch, Start, Go, Noted, Sound, Control
  <2>2. InPlace
    BY <1>2, <2>1 DEF RefsSo
  <2>3. CASE touched' = touched /\ refs' = refs
    BY <1>2, <1>n, <2>1, <2>2, <2>3 DEF RefsSo, InPlace
  <2>4. CASE touched' = i /\ refs' = [refs EXCEPT ![Configured[i]] = plan[i]]
    <3>1. ASSUME NEW j \in 1 .. N
          PROVE  refs'[Configured[j]] = IF j <= i THEN plan[j] ELSE saved.refs[Configured[j]]
      <4>1. CASE j = i
        BY <1>t, <2>4, <4>1
      <4>2. CASE j # i
        <5>1. refs'[Configured[j]] = refs[Configured[j]] /\ (j <= i <=> j <= touched)
          BY <1>t, <2>1, <2>4, <4>2
        <5> QED BY <2>2, <5>1 DEF InPlace
      <4> QED BY <4>1, <4>2
    <3> QED BY <1>2, <1>n, <2>1, <2>4, <3>1 DEF RefsSo
  <2> QED BY <2>1, <2>3, <2>4
<1>5. CASE ScratchHead
  <2>1. /\ pc = "scratch" /\ refs' = refs /\ touched' = touched /\ ~Start
        /\ \/ touched = 0 /\ pc' = "head"
           \/ pc' = "branches" /\ i' = 1
    BY <1>5 DEF ScratchHead, Start, Go
  <2>2. \A j \in 1 .. N : j > touched => refs[Configured[j]] = saved.refs[Configured[j]]
    BY <1>2, <1>t, <2>1 DEF RefsSo, InPlace
  <2> QED BY <1>2, <1>t, <2>1, <2>2 DEF RefsSo, N
<1>6. CASE RollbackBranch
  <2>1. /\ pc = "branches" /\ i \in 1 .. touched /\ touched' = touched /\ ~Start
        /\ refs' = [refs EXCEPT ![Configured[i]] = saved.refs[Configured[i]]]
        /\ \/ i = touched /\ pc' = "head"
           \/ pc' = "branches" /\ i' = i + 1
    BY <1>6, <1>t DEF RollbackBranch, Start, Go, Original, Recover, Sound, Control
  <2>2. ASSUME NEW j \in 1 .. N, j <= i \/ j > touched
        PROVE  refs'[Configured[j]] = saved.refs[Configured[j]]
    <3>1. CASE j = i
      BY <1>t, <2>1, <3>1
    <3>2. CASE j # i
      <4>1. refs'[Configured[j]] = refs[Configured[j]] /\ (j < i \/ j > touched)
        BY <1>t, <2>1, <2>2, <3>2
      <4> QED BY <1>2, <2>1, <4>1 DEF RefsSo
    <3> QED BY <3>1, <3>2
  <2>3. CASE pc' = "head"
    BY <1>2, <1>t, <2>1, <2>2, <2>3 DEF RefsSo, N
  <2>4. CASE pc' = "branches" /\ i' = i + 1
    BY <1>2, <1>t, <2>1, <2>2, <2>4 DEF RefsSo, N
  <2> QED BY <2>1, <2>3, <2>4
<1>7. CASE DestMoves \/ UNCHANGED vars
  <2>1. UNCHANGED <<refs, pc, i, plan, touched>> /\ ~Start
    BY <1>7, <1>t DEF DestMoves, Start, vars, repository, run
  <2> QED BY <1>2, <1>n, <2>1 DEF RefsSo, InPlace, N
<1>8. CASE RemoveFile \/ DetachHead \/ Checkout \/ WriteExact \/ AttachHead \/ RestoreWorktree
           \/ RestoreFile
  <2>1. UNCHANGED <<refs, plan, touched>> /\ ~Start
        /\ pc \notin {"branches", "head"} /\ pc' \notin {"branches", "head"}
    BY <1>8 DEF RemoveFile, DetachHead, Checkout, WriteExact, AttachHead, RestoreWorktree, RestoreFile,
       Start, Go
  <2> QED BY <1>2, <1>n, <2>1 DEF RefsSo, InPlace
<1>9. CASE RestoreHead
  BY <1>9, <1>t DEF RestoreHead, Stop, Go
<1> QED BY <1>1, <1>2, <1>3, <1>4, <1>5, <1>6, <1>7, <1>8, <1>9 DEF Next, Run

(* The graft is not what HEAD was detached at, so the checkout writes. *)
LEMMA CheckoutWrites ==
    ASSUME Sound, Unmixed, Planned, InPlace, pc = "checkout", head = Detach
    PROVE  HeadCommit = OriginalCommit /\ refs[First] # OriginalCommit
<1>c. N \in Nat /\ 1 \in 1 .. N /\ First = Configured[1] /\ Branches \cap (Scratch \cup {"detached"}) = {}
  BY Configuration, SetupAssumption DEF First
<1>1. HeadCommit = OriginalCommit
  BY <1>c DEF HeadCommit, Detach, Symbolic, At, Scratch
<1>2. touched = N /\ Len(plan) = N
  BY DEF Sound, Control, Committed
<1>3. refs[First] = plan[1] /\ GraftOn(plan[1], First)
  BY <1>c, <1>2 DEF InPlace, Planned
<1>4. plan[1] \in OwnOf(First) /\ plan[1] # None /\ Last(plan[1]) = First
  BY <1>3 DEF GraftOn
<1>5. CASE OriginalCommit = None
  BY <1>1, <1>3, <1>4, <1>5
<1>6. CASE OriginalCommit # None
  <2>1. saved.head.on \in Branches /\ OriginalCommit = saved.refs[saved.head.on]
    BY <1>6 DEF OriginalCommit
  <2>2. CASE saved.head.on = First
    <3>1. Front(plan[1]) = OriginalCommit
      BY <1>3, <1>6, <2>1, <2>2 DEF GraftOn
    <3>2. Front(plan[1]) # plan[1]
      BY <1>4, FrontShorter DEF OwnOf
    <3> QED BY <1>1, <1>3, <3>1, <3>2
  <2>3. CASE saved.head.on # First
    <3>1. OriginalCommit \in OwnOf(saved.head.on) \ {None}
      BY <1>6, <2>1 DEF Unmixed
    <3>2. Last(OriginalCommit) \in Authors \cup {saved.head.on}
      BY <3>1, FrontShorter DEF OwnOf
    <3>3. First \notin Authors
      BY <1>c, Configuration
    <3> QED BY <1>1, <1>3, <1>4, <2>3, <3>2, <3>3
  <2> QED BY <2>2, <2>3
<1> QED BY <1>5, <1>6

LEMMA DiskStep ==
    ASSUME Sound, Unmixed, Planned, Undone, [Next]_vars, Undisturbed'
    PROVE  DiskSo'
<1>t. broken' = FALSE /\ pc' # "idle" /\ OriginalCommit \in Histories
  BY CommitOf DEF Undisturbed, Sound
<1>1. CASE Start
  <2>1. pc' = "plan" /\ head' = head /\ disk' = disk /\ saved'.head = head /\ saved'.disk = disk
    BY <1>1, <1>t DEF Start, Current, Go, Stop, repository
  <2> QED BY <2>1 DEF DiskSo
<1>2. ASSUME ~Start PROVE saved' = saved /\ RefsSo /\ DiskSo /\ ~DevCommit /\ ~DevEdit /\ ~Crash
  BY <1>2, UndisturbedBefore DEF Undone
<1>o. saved' = saved => OriginalCommit' = OriginalCommit /\ Detach' = Detach
  <2>1. saved' = saved => OriginalCommit' = OriginalCommit
    BY DEF OriginalCommit
  <2> QED BY <2>1 DEF Detach, At, Symbolic
<1>3. CASE PlanBranch \/ CommitBranch \/ RemoveFile
  <2>1. /\ head' = head /\ disk' = disk /\ ~Start /\ pc \in {"plan", "commit", "remove"}
        /\ pc' \in {"plan", "commit", "remove", "scratch", "detach", "restore_files"}
        /\ pc' = "plan" => pc = "plan"
    BY <1>3, <1>t DEF PlanBranch, CommitBranch, RemoveFile, Start, Go, Stop, repository
  <2> QED BY <1>2, <2>1 DEF DiskSo
<1>4. CASE DetachHead
  <2>1. /\ disk' = disk /\ ~Start /\ pc = "detach"
        /\ \/ pc' = "checkout" /\ head' = Detach
           \/ pc' = "restore_files"
    BY <1>4 DEF DetachHead, Start, Go
  <2> QED BY <1>2, <1>o, <2>1 DEF DiskSo
<1>5. CASE Checkout
  <2>1. /\ refs' = refs /\ ~Start /\ pc = "checkout"
        /\ \/ pc' = "exact" /\ CheckoutPossible(refs[First]) /\ disk' = AfterCheckout(refs[First])
           \/ pc' = "restore_files" /\ disk' = disk
    BY <1>5 DEF Checkout, Start, Go
  <2>2. HeadCommit = OriginalCommit /\ refs[First] # OriginalCommit /\ disk = saved.disk
    BY <1>2, <2>1, CheckoutWrites DEF RefsSo, DiskSo
  <2>3. CASE pc' = "restore_files" /\ disk' = disk
    BY <1>2, <2>1, <2>2, <2>3 DEF DiskSo
  <2>4. CASE pc' = "exact" /\ CheckoutPossible(refs[First]) /\ disk' = AfterCheckout(refs[First])
    <3>1. disk' = refs[First] /\ saved.disk = OriginalCommit
      BY <2>2, <2>4 DEF CheckoutPossible, AfterCheckout
    <3> QED BY <1>2, <1>o, <2>1, <2>4, <3>1 DEF DiskSo
  <2> QED BY <2>1, <2>3, <2>4
<1>6. CASE WriteExact \/ AttachHead
  <2>1. /\ refs' = refs /\ disk' = disk /\ ~Start /\ pc \in {"exact", "attach"}
        /\ pc' \in {"exact", "attach", "unwork"}
    BY <1>6, <1>t DEF WriteExact, AttachHead, Start, Go
  <2> QED BY <1>2, <1>o, <2>1 DEF DiskSo
<1>7. CASE RestoreWorktree
  <2>1. ~Start /\ pc = "unwork" /\ pc' = "restore_files" /\ disk' = OriginalCommit
    BY <1>7, <1>t DEF RestoreWorktree, Recover, Start, Go
  <2> QED BY <1>2, <2>1 DEF DiskSo
<1>8. CASE RestoreFile \/ ScratchHead \/ RollbackBranch
  <2>1. /\ disk' = disk /\ ~Start /\ pc \in {"restore_files", "scratch", "branches"}
        /\ pc' \in {"restore_files", "scratch", "branches", "head"}
    BY <1>8 DEF RestoreFile, ScratchHead, RollbackBranch, Start, Go
  <2> QED BY <1>2, <2>1 DEF DiskSo
<1>9. CASE RestoreHead
  BY <1>9, <1>t DEF RestoreHead, Stop, Go
<1>10. CASE DestMoves \/ UNCHANGED vars
  <2>1. UNCHANGED <<refs, head, disk, pc>> /\ ~Start
    BY <1>10, <1>t DEF DestMoves, Start, vars, repository, run
  <2> QED BY <1>2, <1>o, <2>1 DEF DiskSo
<1>11. ~DevCommit /\ ~DevEdit /\ ~Crash
  BY UndisturbedBefore
<1> QED BY <1>1, <1>3, <1>4, <1>5, <1>6, <1>7, <1>8, <1>9, <1>10, <1>11 DEF Next, Run

LEMMA FilesStep ==
    ASSUME Sound, Undone, [Next]_vars, Undisturbed'
    PROVE  FilesSo'
<1>t. /\ broken' = FALSE /\ pc' # "idle" /\ files \in FileStates /\ saved.files \in FileStates
      /\ Len(ControlFiles) \in Nat /\ Files = {ControlFiles[k] : k \in 1 .. Len(ControlFiles)}
      /\ i \in Nat
  BY ControlFilesListed DEF Undisturbed, Sound, Typed, TypeOK, FileStates
<1>1. CASE Start
  <2>1. pc' = "plan" /\ files' = files /\ saved'.files = files
    BY <1>1, <1>t DEF Start, Current, Go, Stop, repository
  <2> QED BY <2>1 DEF FilesSo
<1>2. ASSUME ~Start PROVE saved' = saved /\ FilesSo /\ ~DevCommit /\ ~DevEdit /\ ~Crash
  BY <1>2, UndisturbedBefore DEF Undone
<1>3. CASE PlanBranch \/ CommitBranch
  <2>1. /\ files' = files /\ ~Start /\ pc \in {"plan", "commit"}
        /\ pc' \in {"plan", "commit", "remove", "scratch"}
    BY <1>3, <1>t DEF PlanBranch, CommitBranch, Start, Go, Stop, repository
  <2> QED BY <1>2, <2>1 DEF FilesSo
<1>4. CASE RemoveFile \/ DetachHead
  <2>1. pc' \in {"remove", "detach", "checkout"} \/ (pc' = "restore_files" /\ i' = 1)
    BY <1>4 DEF RemoveFile, DetachHead, Go
  <2> QED BY <1>t, <2>1 DEF FilesSo
<1>5. CASE Checkout
  <2>1. pc' \in {"exact", "restore_files"} /\ i' = 1
    BY <1>5 DEF Checkout, Go
  <2> QED BY <1>t, <2>1 DEF FilesSo
<1>6. CASE WriteExact
  <2>1. /\ pc = "exact" /\ ~Start /\ i \in 1 .. Len(ControlFiles)
        /\ \/ pc' = "unwork"
           \/ /\ files' = [files EXCEPT ![ControlFiles[i]] = "pinned"]
              /\ \/ i = Len(ControlFiles) /\ pc' = "attach"
                 \/ pc' = "exact" /\ i' = i + 1
    BY <1>6 DEF WriteExact, Start, Go, Sound, Control
  <2>2. CASE pc' = "unwork"
    BY <2>2 DEF FilesSo
  <2>3. ASSUME files' = [files EXCEPT ![ControlFiles[i]] = "pinned"],
               NEW k \in 1 .. Len(ControlFiles), k <= i
        PROVE  files'[ControlFiles[k]] = "pinned"
    <3>1. ControlFiles[k] \in Files
      BY <1>t
    <3>2. CASE ControlFiles[k] = ControlFiles[i]
      BY <1>t, <2>3, <3>1, <3>2 DEF FileStates
    <3>3. CASE ControlFiles[k] # ControlFiles[i]
      <4>1. k < i /\ files'[ControlFiles[k]] = files[ControlFiles[k]]
        BY <1>t, <2>1, <2>3, <3>1, <3>3 DEF FileStates
      <4> QED BY <1>2, <2>1, <4>1 DEF FilesSo
    <3> QED BY <3>2, <3>3
  <2>4. CASE files' = [files EXCEPT ![ControlFiles[i]] = "pinned"] /\ i = Len(ControlFiles)
             /\ pc' = "attach"
    <3>1. \A k \in 1 .. Len(ControlFiles) : files'[ControlFiles[k]] = "pinned"
      BY <1>t, <2>3, <2>4
    <3> QED BY <1>t, <2>4, <3>1 DEF FilesSo
  <2>5. CASE files' = [files EXCEPT ![ControlFiles[i]] = "pinned"] /\ pc' = "exact" /\ i' = i + 1
    <3>1. \A k \in 1 .. Len(ControlFiles) : k < i' => files'[ControlFiles[k]] = "pinned"
      BY <1>t, <2>3, <2>5
    <3> QED BY <2>5, <3>1 DEF FilesSo
  <2> QED BY <2>1, <2>2, <2>4, <2>5
<1>7. CASE RestoreWorktree \/ AttachHead
  <2>1. pc' = "unwork" \/ (pc' = "restore_files" /\ i' = 1)
    BY <1>7, <1>t DEF RestoreWorktree, AttachHead, Go
  <2> QED BY <1>t, <2>1 DEF FilesSo
<1>8. CASE RestoreFile
  <2>1. /\ pc = "restore_files" /\ ~Start /\ i \in 1 .. Len(ControlFiles)
        /\ files' = [files EXCEPT ![ControlFiles[i]] = saved.files[ControlFiles[i]]]
        /\ \/ i = Len(ControlFiles) /\ pc' = "scratch"
           \/ pc' = "restore_files" /\ i' = i + 1
    BY <1>8, <1>t DEF RestoreFile, Recover, Start, Go, Sound, Control, Committed
  <2>2. ASSUME NEW k \in 1 .. Len(ControlFiles), k <= i
        PROVE  files'[ControlFiles[k]] = saved.files[ControlFiles[k]]
    <3>1. ControlFiles[k] \in Files
      BY <1>t
    <3>2. CASE ControlFiles[k] = ControlFiles[i]
      BY <1>t, <2>1, <3>1, <3>2 DEF FileStates
    <3>3. CASE ControlFiles[k] # ControlFiles[i]
      <4>1. k < i /\ files'[ControlFiles[k]] = files[ControlFiles[k]]
        BY <1>t, <2>1, <2>2, <3>1, <3>3 DEF FileStates
      <4> QED BY <1>2, <2>1, <4>1 DEF FilesSo
    <3> QED BY <3>2, <3>3
  <2>3. CASE i = Len(ControlFiles) /\ pc' = "scratch"
    <3>1. \A f \in Files : files'[f] = saved.files[f]
      BY <1>t, <2>2, <2>3
    <3>2. files' \in FileStates
      BY TypedStep DEF Typed, TypeOK, FileStates
    <3>3. files' = saved.files
      BY <1>t, <3>1, <3>2 DEF FileStates
    <3> QED BY <1>2, <2>1, <2>3, <3>3 DEF FilesSo
  <2>4. CASE pc' = "restore_files" /\ i' = i + 1
    <3>1. \A k \in 1 .. Len(ControlFiles) : k < i' => files'[ControlFiles[k]] = saved.files[ControlFiles[k]]
      BY <1>t, <2>2, <2>4
    <3> QED BY <1>2, <2>1, <2>4, <3>1 DEF FilesSo
  <2> QED BY <2>1, <2>3, <2>4
<1>9. CASE ScratchHead \/ RollbackBranch
  <2>1. /\ files' = files /\ ~Start /\ pc \in {"scratch", "branches"} /\ pc' \in {"branches", "head"}
    BY <1>9 DEF ScratchHead, RollbackBranch, Start, Go
  <2> QED BY <1>2, <2>1 DEF FilesSo
<1>10. CASE RestoreHead
  BY <1>10, <1>t DEF RestoreHead, Stop, Go
<1>11. CASE DestMoves \/ UNCHANGED vars
  <2>1. UNCHANGED <<files, pc, i>> /\ ~Start
    BY <1>11, <1>t DEF DestMoves, Start, vars, repository, run
  <2> QED BY <1>2, <2>1 DEF FilesSo
<1>12. ~DevCommit /\ ~DevEdit /\ ~Crash
  BY UndisturbedBefore
<1> QED BY <1>1, <1>3, <1>4, <1>5, <1>6, <1>7, <1>8, <1>9, <1>10, <1>11, <1>12 DEF Next, Run

(***************************************************************************)
(* The transaction.                                                        *)
(***************************************************************************)
Whole == Sound /\ Moved /\ Unmixed /\ Planned /\ Undone

LEMMA WholeInit == Init => Whole
<1>1. Init => pc = "idle"
  BY DEF Init
<1> QED BY <1>1, SoundInit, UnmixedInit DEF Whole, Moved, Undone, Undisturbed

LEMMA WholeStep == Whole /\ [Next]_vars => Whole'
<1> SUFFICES ASSUME Whole, [Next]_vars PROVE Whole'
  OBVIOUS
<1>1. Sound' /\ Moved' /\ Unmixed' /\ Planned'
  BY TypedStep, ControlStep, MovedStep, UnmixedStep DEF Whole, Sound
<1>2. Undone'
  BY RefsStep, DiskStep, FilesStep DEF Whole, Undone
<1> QED BY <1>1, <1>2 DEF Whole

Outside == IF pc = "idle" THEN Current ELSE saved
Outcome == IF spent.dev > 0 THEN "interfered" ELSE IF pc = "idle" THEN result ELSE "none"

(* An undisturbed run that refuses, or that has recovered, leaves what it found. *)
LEMMA NothingLeft ==
    ASSUME Sound, Moved, Undisturbed, \A j \in 1 .. N : refs[Configured[j]] = saved.refs[Configured[j]]
    PROVE  refs = saved.refs
<1>1. refs[Unmanaged] = saved.refs[Unmanaged]
  BY DEF Moved, Undisturbed
<1>2. \A b \in Branches : refs[b] = saved.refs[b]
  BY <1>1, EveryBranch
<1> QED BY <1>2 DEF Sound, Typed, TypeOK

LEMMA SavedIs ==
    ASSUME Sound
    PROVE  saved = [refs |-> saved.refs, head |-> saved.head, disk |-> saved.disk, files |-> saved.files]
BY DEF Sound, Typed

LEMMA TransactionStep ==
    ASSUME Whole, [Next]_vars
    PROVE  [Transaction!Next]_<<Outside, Outcome>>
<1> USE DEF Whole
<1>t. /\ spent \in [runs : Nat, crashes : Nat, dest : Nat, dev : Nat]
      /\ spent' \in [runs : Nat, crashes : Nat, dest : Nat, dev : Nat]
      /\ broken \in BOOLEAN
  BY TypedStep DEF Sound, Typed, TypeOK
<1>1. CASE spent'.dev > 0
  <2>1. Outcome' = "interfered"
    BY <1>1 DEF Outcome
  <2> QED BY <2>1 DEF Transaction!Next, Transaction!Break, Outcome
<1>2. ASSUME spent'.dev = 0
      PROVE  [Transaction!Next]_<<Outside, Outcome>>
  <2>d. ~DevCommit /\ ~DevEdit /\ spent.dev = 0
    <3>1. ~DevCommit /\ ~DevEdit
      BY <1>2, <1>t DEF DevCommit, DevEdit, Act
    <3>2. spent'.dev = spent.dev
      <4>1. CASE Start \/ Crash \/ DestMoves
        BY <1>t, <4>1 DEF Start, Crash, DestMoves
      <4> QED BY <3>1, <4>1 DEF Next, Run, PlanBranch, CommitBranch, RemoveFile, DetachHead, Checkout,
            WriteExact, AttachHead, RestoreWorktree, RestoreFile, ScratchHead, RollbackBranch,
            RestoreHead, vars
    <3> QED BY <1>2, <3>1, <3>2
  <2>o. /\ Outcome = IF pc = "idle" THEN result ELSE "none"
        /\ Outcome' = IF pc' = "idle" THEN result' ELSE "none"
    BY <1>2, <2>d DEF Outcome
  <2>u. pc # "idle" /\ broken = FALSE => RefsSo /\ DiskSo /\ FilesSo /\ Undisturbed
    BY <2>d DEF Undone, Undisturbed
  <2>1. CASE Start
    <3>1. pc = "idle" /\ Outside' = Outside
      BY <2>1 DEF Start, Outside, Stop, Go, Current, repository
    <3>2. Outcome' \in {"none", "failed"}
      BY <2>1, <2>o DEF Start, Stop, Go
    <3> QED BY <3>1, <3>2 DEF Transaction!Next, Transaction!Again, Transaction!Refuse, Outside, Outcome
  <2>2. CASE Crash
    <3>1. Outcome' = "killed"
      BY <2>2, <2>o DEF Crash, Go
    <3> QED BY <3>1 DEF Transaction!Next, Transaction!Break, Outcome
  <2>3. CASE PlanBranch /\ pc' = "idle"
    <3>1. /\ pc = "plan" /\ broken = FALSE /\ touched = 0 /\ result' = "failed"
          /\ UNCHANGED <<refs, head, disk, files>>
      BY <2>3 DEF PlanBranch, Stop, Go, repository, Sound, Control, Forward
    <3>2. \A j \in 1 .. N : refs[Configured[j]] = saved.refs[Configured[j]]
      BY <2>u, <3>1, Configuration DEF RefsSo, InPlace
    <3>3. Current = saved
      BY <2>u, <3>1, <3>2, NothingLeft, SavedIs DEF DiskSo, FilesSo, Current
    <3>4. Outside' = Outside /\ Outcome' = "failed"
      BY <2>3, <2>o, <3>1, <3>3 DEF Outside, Current
    <3> QED BY <3>4 DEF Transaction!Next, Transaction!Refuse, Outside, Outcome
  <2>4. CASE AttachHead /\ pc' = "idle"
    <3>1. /\ pc = "attach" /\ broken = FALSE /\ touched = N /\ Len(plan) = N /\ result' = "done"
          /\ UNCHANGED <<refs, disk, files>> /\ head' = Symbolic(First)
      BY <2>4 DEF AttachHead, Go, Sound, Control, Forward, Committed
    <3>2. \A j \in 1 .. N : /\ refs[Configured[j]] = plan[j]
                            /\ GraftOn(plan[j], Configured[j])
      BY <2>u, <3>1, Configuration DEF RefsSo, InPlace, Planned
    <3>3. \A b \in ToSet(Configured) : /\ Last(refs[b]) = b
                                       /\ saved.refs[b] # None => Front(refs[b]) = saved.refs[b]
      BY <3>2, Configuration DEF GraftOn
    <3>4. /\ refs[Unmanaged] = saved.refs[Unmanaged] /\ disk = refs[First]
          /\ \A f \in Files : files[f] = "pinned"
      BY <2>u, <3>1 DEF DiskSo, FilesSo, Moved
    <3>5. GraftedInto(saved, Current')
      BY <3>1, <3>3, <3>4 DEF GraftedInto, Current
    <3>6. Outside = saved /\ Outside' = Current' /\ Outcome' = "done"
      BY <2>4, <2>o, <3>1 DEF Outside
    <3> QED BY <3>5, <3>6 DEF Transaction!Next, Transaction!Succeed, Outside, Outcome
  <2>5. CASE RestoreHead /\ broken' = FALSE
    <3>1. /\ pc = "head" /\ pc' = "idle" /\ broken = FALSE /\ result' = "failed" /\ head' = saved.head
          /\ UNCHANGED <<refs, disk, files>>
      BY <2>5, <1>t DEF RestoreHead, Recover, Stop, Go
    <3>2. refs = saved.refs
      BY <2>u, <3>1, NothingLeft DEF RefsSo
    <3>3. Current' = saved
      BY <2>u, <3>1, <3>2, SavedIs DEF DiskSo, FilesSo, Current
    <3>4. Outside' = Outside /\ Outcome' = "failed"
      BY <2>o, <3>1, <3>3 DEF Outside
    <3> QED BY <3>4 DEF Transaction!Next, Transaction!Refuse, Outside, Outcome
  <2>6. CASE RestoreHead /\ broken' # FALSE
    <3>1. pc' = "idle" /\ result' = "recovery_failed"
      BY <2>6, <1>t DEF RestoreHead, Recover, Stop, Go
    <3> QED BY <2>o, <3>1 DEF Transaction!Next, Transaction!Break, Outcome
  <2>7. CASE pc # "idle" /\ pc' # "idle" /\ saved' = saved
    BY <2>7, <2>o DEF Outside, Outcome
  <2>8. CASE DestMoves \/ UNCHANGED vars
    <3>1. UNCHANGED <<repository, run>>
      BY <2>8 DEF DestMoves, vars
    <3>2. Outside' = Outside /\ Outcome' = Outcome
      BY <2>o, <3>1 DEF Outside, Current, repository, run
    <3> QED BY <3>2
  <2>9. ASSUME Run, ~Start
        PROVE  \/ PlanBranch /\ pc' = "idle"
               \/ AttachHead /\ pc' = "idle"
               \/ RestoreHead
               \/ pc # "idle" /\ pc' # "idle" /\ saved' = saved
    BY <2>9 DEF Run, PlanBranch, CommitBranch, RemoveFile, DetachHead, Checkout, WriteExact, AttachHead,
       RestoreWorktree, RestoreFile, ScratchHead, RollbackBranch, Go
  <2> QED BY <2>d, <2>1, <2>2, <2>3, <2>4, <2>5, <2>6, <2>7, <2>8, <2>9 DEF Next
<1>3. spent'.dev > 0 \/ spent'.dev = 0
  BY <1>t
<1> QED BY <1>1, <1>2, <1>3

(* setup implements the transaction: seen from outside, a run that nobody
   disturbs grafts every branch and checks the first one out, or leaves the
   repository as it found it, unless it was killed or says that its recovery
   failed. *)
THEOREM ImplementsTransactionHolds == Spec => ImplementsTransaction
<1>1. Init => Transaction!Init
  BY DEF Init, Transaction!Init
<1>2. Whole /\ [Next]_vars => [Transaction!Next]_<<Outside, Outcome>>
  BY TransactionStep
<1>3. Whole /\ [Next]_vars => [Transaction!Next]_<<IF pc = "idle" THEN Current ELSE saved,
           IF spent.dev > 0 THEN "interfered" ELSE IF pc = "idle" THEN result ELSE "none">>
  BY <1>2 DEF Outside, Outcome
<1> QED BY <1>1, <1>3, WholeInit, WholeStep, PTL DEF Spec, ImplementsTransaction, Transaction!Spec

(***************************************************************************)
(* No graft directly on a graft.                                           *)
(***************************************************************************)
Spaced(h, b) == \A k \in 2 .. Len(h) : h[k] = b => h[k - 1] # b

LEMMA SpacedAppend ==
    ASSUME NEW S, NEW h \in Seq(S), NEW x \in S, NEW b, Spaced(h, b),
           x # b \/ h = None \/ Last(h) # b
    PROVE  Spaced(Append(h, x), b)
<1> DEFINE u == Append(h, x)
<1>1. /\ Len(u) = Len(h) + 1 /\ Len(h) \in Nat
      /\ \A k \in 1 .. Len(h) : u[k] = h[k]
      /\ u[Len(h) + 1] = x
  BY AppendProperties, LenProperties
<1>2. Len(None) = 0
  BY DEF None
<1> HIDE DEF u
<1>3. ASSUME NEW k \in 2 .. Len(u), u[k] = b
      PROVE  u[k - 1] # b
  <2>1. CASE k <= Len(h)
    <3>1. k \in 2 .. Len(h) /\ k \in 1 .. Len(h) /\ k - 1 \in 1 .. Len(h)
      BY <1>1, <2>1
    <3>2. u[k] = h[k] /\ u[k - 1] = h[k - 1]
      BY <1>1, <3>1
    <3> QED BY <1>3, <3>1, <3>2 DEF Spaced
  <2>2. CASE k > Len(h)
    <3>1. k = Len(h) + 1 /\ k - 1 = Len(h) /\ Len(h) \in 1 .. Len(h)
      BY <1>1, <2>2
    <3>2. x = b /\ h # None /\ u[k - 1] = Last(h)
      BY <1>1, <1>2, <1>3, <3>1 DEF Last
    <3> QED BY <3>2
  <2> QED BY <1>1, <2>1, <2>2
<1> QED BY <1>3 DEF Spaced, u

LEMMA SpacedPlain ==
    ASSUME NEW h \in Seq(Authors), NEW b, b \notin Authors
    PROVE  Spaced(h, b) /\ (h # None => Last(h) # b)
<1>1. Len(h) \in Nat /\ \A k \in 1 .. Len(h) : h[k] \in Authors
  BY LenProperties, ElementOfSeq
<1>2. h # None => Last(h) \in Authors
  BY FrontShorter
<1>3. \A k \in 2 .. Len(h) : k \in 1 .. Len(h)
  BY <1>1
<1> QED BY <1>1, <1>2, <1>3 DEF Spaced

AllSpaced ==
    /\ \A b \in ToSet(Configured) :
         /\ dest[b] \in Seq(Authors)
         /\ Spaced(refs[b], b) /\ Spaced(saved.refs[b], b)
    /\ \A j \in 1 .. N : j <= Len(plan) => Spaced(plan[j], Configured[j])

LEMMA SpacedInit == Init => AllSpaced
<1> SUFFICES ASSUME Init PROVE AllSpaced
  OBVIOUS
<1>1. <<"dest">> \in Seq(Authors)
  BY DEF Authors
<1>2. \A b \in ToSet(Configured) : refs[b] \in Seq(Authors)
  BY SetupAssumption DEF Init, Branches
<1>3. \A b \in ToSet(Configured) : b \notin Authors
  BY SetupAssumption
<1>4. /\ saved.refs = refs /\ dest = [b \in ToSet(Configured) |-> <<"dest">>] /\ Len(plan) = 0
  BY DEF Init, Current
<1>5. \A b \in ToSet(Configured) : Spaced(refs[b], b)
  BY <1>2, <1>3, SpacedPlain
<1> QED BY <1>1, <1>4, <1>5 DEF AllSpaced

LEMMA PlanIsSpaced ==
    ASSUME Sound, AllSpaced, PlanBranch, pc' # "idle"
    PROVE  \E h : plan' = Append(plan, h) /\ Spaced(h, Configured[i])
<1> DEFINE b == Configured[i]
           existing == saved.refs[b]
           tip == dest[b]
           onto == IF existing \in {None, tip} THEN tip ELSE existing
<1>1. b \in ToSet(Configured) /\ b \in Branches /\ b \notin Authors
  BY Configuration DEF PlanBranch, Sound, Control
<1>2. /\ plan' = Append(plan, Append(onto, b))
      /\ existing \in {None, tip} \/ MayMerge(existing, tip, b)
  BY DEF PlanBranch, Stop, Go
<1>3. tip \in Seq(Authors) /\ existing \in Histories /\ tip \in Histories
  BY <1>1 DEF AllSpaced, Sound, Typed, TypeOK
<1>4. Spaced(tip, b) /\ (tip # None => Last(tip) # b)
  BY <1>1, <1>3, SpacedPlain
<1>5. Spaced(existing, b)
  BY <1>1 DEF AllSpaced
<1>6. onto \in Histories /\ Spaced(onto, b) /\ (onto # None => Last(onto) # b)
  BY <1>2, <1>3, <1>4, <1>5 DEF MayMerge, CarriesMarker
<1>7. b \in Authors \cup ToSet(Configured)
  BY <1>1
<1> HIDE DEF onto, b
<1>8. Spaced(Append(onto, b), b)
  BY <1>6, <1>7, SpacedAppend DEF Histories
<1> QED BY <1>2, <1>8 DEF b

LEMMA SpacedStep ==
    ASSUME Sound, AllSpaced, [Next]_vars
    PROVE  AllSpaced'
<1>t. /\ refs \in [Branches -> Histories] /\ plan \in Seq(Histories \ {None})
      /\ dest \in [ToSet(Configured) -> Histories \ {None}]
  BY DEF Sound, Typed, TypeOK
<1>c. /\ N \in Nat
      /\ \A j \in 1 .. N : Configured[j] \in Branches /\ Configured[j] \in ToSet(Configured)
      /\ \A b \in ToSet(Configured) : b \in Branches /\ b \notin Authors
  BY Configuration
<1>1. \A b \in ToSet(Configured) : Spaced(refs'[b], b)
  <2>1. CASE CommitBranch
    <3>1. i \in 1 .. N /\ Spaced(plan[i], Configured[i])
      BY <2>1 DEF CommitBranch, Sound, Control, AllSpaced
    <3> QED BY <1>t, <1>c, <2>1, <3>1 DEF CommitBranch, AllSpaced
  <2>2. CASE RollbackBranch
    BY <1>t, <1>c, <2>2 DEF RollbackBranch, Original, AllSpaced
  <2>3. CASE DevCommit
    <3>1. PICK c \in ToSet(Configured) : refs' = [refs EXCEPT ![c] = Append(@, "own")]
      BY <2>3 DEF DevCommit
    <3>2. ASSUME NEW b \in ToSet(Configured)
          PROVE  Spaced(Append(refs[b], "own"), b)
      <4>1. "own" # b /\ refs[b] \in Histories /\ Spaced(refs[b], b)
        BY <1>t, <1>c, <3>2 DEF Authors, AllSpaced
      <4> QED BY <4>1, HistoriesHold, SpacedAppend DEF Histories
    <3>3. \A b \in ToSet(Configured) : refs'[b] \in {refs[b], Append(refs[b], "own")}
      BY <1>t, <1>c, <3>1
    <3> QED BY <3>2, <3>3 DEF AllSpaced
  <2>4. CASE UNCHANGED refs
    BY <2>4 DEF AllSpaced
  <2> QED BY <2>1, <2>2, <2>3, <2>4 DEF Next, Run, Start, PlanBranch, RemoveFile, DetachHead, Checkout,
        WriteExact, AttachHead, RestoreWorktree, RestoreFile, ScratchHead, RestoreHead, Crash, DestMoves,
        DevEdit, vars, repository
<1>2. \A b \in ToSet(Configured) : dest'[b] \in Seq(Authors)
  <2>1. CASE DestMoves
    <3>1. PICK b \in ToSet(Configured) : dest' = [dest EXCEPT ![b] = Append(@, "dest")]
      BY <2>1 DEF DestMoves
    <3>2. \A h \in Seq(Authors) : Append(h, "dest") \in Seq(Authors)
      BY DEF Authors
    <3> QED BY <1>t, <3>1, <3>2 DEF AllSpaced
  <2>2. CASE UNCHANGED dest
    BY <2>2 DEF AllSpaced
  <2> QED BY <2>1, <2>2 DEF Next, Run, Start, PlanBranch, CommitBranch, RemoveFile, DetachHead, Checkout,
        WriteExact, AttachHead, RestoreWorktree, RestoreFile, ScratchHead, RollbackBranch, RestoreHead,
        Crash, DevCommit, DevEdit, vars
<1>3. \A b \in ToSet(Configured) : Spaced(saved'.refs[b], b)
  <2>1. CASE Start
    BY <2>1 DEF Start, Current, AllSpaced
  <2>2. CASE UNCHANGED saved
    BY <2>2 DEF AllSpaced
  <2> QED BY <2>1, <2>2 DEF Next, Run, PlanBranch, CommitBranch, RemoveFile, DetachHead, Checkout, WriteExact,
        AttachHead, RestoreWorktree, RestoreFile, ScratchHead, RollbackBranch, RestoreHead, Crash,
        DestMoves, DevCommit, DevEdit, Act, vars, run
<1>4. ASSUME NEW j \in 1 .. N, j <= Len(plan')
      PROVE  Spaced(plan'[j], Configured[j])
  <2>1. CASE Start
    <3>1. Len(plan') = 0
      BY <2>1 DEF Start
    <3> QED BY <1>4, <3>1
  <2>2. CASE PlanBranch /\ pc' # "idle"
    <3>1. PICK h : plan' = Append(plan, h) /\ Spaced(h, Configured[i])
      BY <2>2, PlanIsSpaced
    <3>2. Len(plan) = i - 1 /\ i \in 1 .. N
      BY <2>2 DEF PlanBranch, Sound, Control
    <3>3. /\ Len(plan') = Len(plan) + 1 /\ plan'[Len(plan) + 1] = h
          /\ \A k \in 1 .. Len(plan) : plan'[k] = plan[k]
      BY <1>t, <3>1
    <3>4. CASE j = i
      BY <3>1, <3>2, <3>3, <3>4
    <3>5. CASE j # i
      <4>1. j \in 1 .. Len(plan)
        BY <1>c, <1>4, <3>2, <3>3, <3>5
      <4> QED BY <3>3, <4>1 DEF AllSpaced
    <3> QED BY <3>4, <3>5
  <2>3. CASE UNCHANGED plan
    BY <1>4, <2>3 DEF AllSpaced
  <2> QED BY <2>1, <2>2, <2>3 DEF Next, Run, PlanBranch, CommitBranch, RemoveFile, DetachHead, Checkout,
        WriteExact, AttachHead, RestoreWorktree, RestoreFile, ScratchHead, RollbackBranch, RestoreHead,
        Crash, DestMoves, DevCommit, DevEdit, Act, Stop, Go, vars, run
<1> QED BY <1>1, <1>2, <1>3, <1>4 DEF AllSpaced, N

(* setup never grafts directly on top of its own graft, on whatever branch
   and after however many runs, killed ones and failed recoveries among
   them: at the tip it recognises its marker. *)
THEOREM RegraftedOnlyUnderWorkHolds == Spec => []RegraftedOnlyUnderWork
<1>1. Sound /\ AllSpaced /\ [Next]_vars => (Sound /\ AllSpaced)'
  BY TypedStep, ControlStep, SpacedStep DEF Sound
<1>2. AllSpaced => RegraftedOnlyUnderWork
  BY DEF AllSpaced, Spaced, RegraftedOnlyUnderWork
<1> QED BY SoundInit, SpacedInit, <1>1, <1>2, PTL DEF Spec
=============================================================================
