-------------------------------- MODULE Setup --------------------------------
(***************************************************************************)
(* `gitprism setup` in one source repository: plan every configured branch *)
(* against dest, commit the grafts and merges, clear the control files,    *)
(* check the first branch out, and undo all of it when a step fails.       *)
(*                                                                         *)
(* A commit is its first-parent history, a sequence that says of each      *)
(* commit who made it: "dest", "own", "alien", or setup itself, which is   *)
(* written as the branch that the commit's marker names.  Every step that  *)
(* touches the repository or the network may fail, the recovery's too.     *)
(***************************************************************************)
EXTENDS Integers, Sequences, SequencesExt, FiniteSets

CONSTANTS
    Configured,   \* config.branches, in order
    Unmanaged,    \* a local branch that is not configured
    ControlFiles, \* the control files, in order
    Heads,        \* the branches HEAD may name at first
    Existing,     \* the tips a configured branch may have at first
    MaxRuns, MaxCrashes, MaxDest, MaxDev   \* bounds

Branches == ToSet(Configured) \cup {Unmanaged}
None == <<>>
Files == ToSet(ControlFiles)
Authors == {"dest", "own", "alien"}
Scratch == {"rollback_scratch", "checkout_scratch"}

ASSUME SetupAssumption ==
    /\ Configured \in Seq(STRING) \ {<<>>} /\ IsInjective(Configured)
    /\ Unmanaged \notin ToSet(Configured) /\ ToSet(Configured) \cap Authors = {}
    /\ ControlFiles \in Seq(STRING) \ {<<>>} /\ IsInjective(ControlFiles)
    /\ Heads \subseteq Branches
    /\ Branches \cap (Scratch \cup {"detached"}) = {}
    /\ Existing \subseteq Seq(Authors)
    /\ MaxRuns \in Nat /\ MaxCrashes \in Nat /\ MaxDest \in Nat /\ MaxDev \in Nat

VARIABLES
    dest,     \* the tips on dest
    refs,     \* the local branches, None if there is no such branch
    head,     \* the name of a branch or scratch, or "detached" and a commit
    disk,     \* the commit whose tree the index and working tree hold
    files,    \* the control files: "missing", "pinned", "smudged" (as a
              \* checkout writes them, filters applied) or "edited"
    pc, i,    \* what the run does next, and with which branch or file
    plan,     \* branch_plans: what to do with each branch
    saved,    \* the repository when the run started
    touched,  \* how many branches the commit phase changed
    broken,   \* a step of the recovery failed
    result,   \* how the latest run ended
    spent     \* runs, crashes, and steps of others

repository == <<refs, head, disk, files>>
run == <<pc, i, plan, saved, touched, broken, result>>
vars == <<dest, repository, run, spent>>

Current == [refs |-> refs, head |-> head, disk |-> disk, files |-> files]
First == Configured[1]

Symbolic(name) == [on |-> name, commit |-> None]
At(commit) == [on |-> "detached", commit |-> commit]
HeadCommit == IF head.on \in Branches THEN refs[head.on] ELSE head.commit

Init ==
    /\ dest = [b \in ToSet(Configured) |-> <<"dest">>]
    /\ \E tips \in [ToSet(Configured) -> Existing] :
         refs = [b \in Branches |-> IF b = Unmanaged THEN <<"own">> ELSE tips[b]]
    /\ head \in {Symbolic(b) : b \in Heads}
    /\ disk = HeadCommit
    /\ files \in [Files -> {"missing", "pinned"}]
    /\ pc = "idle" /\ i = 1 /\ plan = <<>> /\ saved = Current
    /\ touched = 0 /\ broken = FALSE /\ result = "none"
    /\ spent = [runs |-> 0, crashes |-> 0, dest |-> 0, dev |-> 0]

Go(where, n) == pc' = where /\ i' = n
Stop == Go("idle", 1) /\ result' = IF broken' THEN "recovery_failed" ELSE "failed"

(* The lock, the policy pin, the git version, and a HEAD that is attached. *)
Start ==
    /\ pc = "idle" /\ spent.runs < MaxRuns
    /\ spent' = [spent EXCEPT !.runs = @ + 1]
    /\ saved' = Current /\ plan' = <<>> /\ touched' = 0 /\ broken' = FALSE
    /\ IF head.on = "detached" \/ \E f \in Files : files[f] \in {"edited", "smudged"}
       THEN Stop ELSE Go("plan", 1) /\ result' = "none"
    /\ UNCHANGED <<dest, repository>>

(***************************************************************************)
(* Planning: nothing is written before every branch has a plan.            *)
(***************************************************************************)
Shared(a, b) == a # None /\ b # None /\ a[1] = b[1]

(* Mutant of CarriesMarker: setup does not look for its own graft. *)
CarriesMarkerNot(tip, b) == FALSE
CarriesMarker(tip, b) == tip # None /\ Last(tip) = b

MayMerge(tip, onto, b) == ~CarriesMarker(tip, b) /\ Shared(tip, onto)

PlanBranch ==
    /\ pc = "plan"
    /\ LET b == Configured[i]
           existing == saved.refs[b]
           tip == dest[b]
           onto == IF existing \in {None, tip} THEN tip ELSE existing
       IN \/ /\ existing \in {None, tip} \/ MayMerge(existing, tip, b)
             /\ plan' = Append(plan, Append(onto, b))
             /\ IF i = Len(Configured) THEN Go("commit", 1) ELSE Go("plan", i + 1)
             /\ UNCHANGED <<result, broken>>
          \/ \* fetch fails, the merge conflicts, or one of the refusals
             /\ UNCHANGED <<plan, broken>> /\ Stop
    /\ UNCHANGED <<dest, repository, saved, touched, spent>>

(***************************************************************************)
(* The commit phase.  A commit moves its ref only from its first parent,   *)
(* or creates it.                                                          *)
(***************************************************************************)
(* Mutant of RefUnmoved: the ref is written by force. *)
RefUnmovedUnchecked(b) == TRUE
RefUnmoved(b) == refs[b] \in {None, Front(plan[i])}

(* Mutant of Noted: a branch is noted when the next one is committed. *)
NotedLate(n) == n - 1
Noted(n) == n

CommitBranch ==
    /\ pc = "commit"
    /\ LET b == Configured[i] IN
       \/ /\ RefUnmoved(b)
          /\ refs' = [refs EXCEPT ![b] = plan[i]]
          /\ touched' = Noted(i)
          /\ IF i = Len(Configured) THEN Go("remove", 1) ELSE Go("commit", i + 1)
       \/ Go("scratch", 1) /\ UNCHANGED <<refs, touched>>
    /\ UNCHANGED <<dest, head, disk, files, plan, saved, broken, result, spent>>

RemoveFile ==
    /\ pc = "remove"
    /\ \/ /\ files' = [files EXCEPT ![ControlFiles[i]] = "missing"]
          /\ IF i = Len(ControlFiles) THEN Go("detach", 1) ELSE Go("remove", i + 1)
       \/ /\ files[ControlFiles[i]] # "missing"
          /\ Go("restore_files", 1) /\ UNCHANGED files
    /\ UNCHANGED <<dest, refs, head, disk, plan, saved, touched, broken, result, spent>>

(***************************************************************************)
(* Checking the first branch out.  A checkout writes what differs between  *)
(* HEAD and its target: if they are the same it writes nothing, and if the *)
(* disk is not as HEAD has it, it conflicts.                               *)
(***************************************************************************)
OriginalCommit == IF saved.head.on \in Branches THEN saved.refs[saved.head.on] ELSE None

(* Mutant of Detach: HEAD stays on the branch that has just been moved. *)
DetachNot == head
Detach == IF OriginalCommit = None THEN Symbolic("checkout_scratch") ELSE At(OriginalCommit)

CheckoutPossible(to) == HeadCommit \in {to, disk}
AfterCheckout(to) == IF HeadCommit = to THEN disk ELSE to

DetachHead ==
    /\ pc = "detach"
    /\ \/ head' = Detach /\ Go("checkout", 1)
       \/ Go("restore_files", 1) /\ UNCHANGED head
    /\ UNCHANGED <<dest, refs, disk, files, plan, saved, touched, broken, result, spent>>

Checkout ==
    /\ pc = "checkout"
    /\ \/ /\ refs[First] # None /\ CheckoutPossible(refs[First])
          /\ disk' = AfterCheckout(refs[First])
          /\ files' = [f \in Files |-> "smudged"]
          /\ Go("exact", 1)
       \/ Go("restore_files", 1) /\ UNCHANGED <<disk, files>>
    /\ UNCHANGED <<dest, refs, head, plan, saved, touched, broken, result, spent>>

(* restore_control_files_exact: each file is removed and written anew; a
   failure leaves it missing. *)
WriteExact ==
    /\ pc = "exact"
    /\ \/ /\ files' = [files EXCEPT ![ControlFiles[i]] = "pinned"]
          /\ IF i = Len(ControlFiles) THEN Go("attach", 1) ELSE Go("exact", i + 1)
       \/ /\ files' = [files EXCEPT ![ControlFiles[i]] = "missing"]
          /\ Go("unwork", 1)
    /\ UNCHANGED <<dest, refs, head, disk, plan, saved, touched, broken, result, spent>>

AttachHead ==
    /\ pc = "attach"
    /\ \/ head' = Symbolic(First) /\ Go("idle", 1) /\ result' = "done"
       \/ Go("unwork", 1) /\ UNCHANGED <<head, result>>
    /\ UNCHANGED <<dest, refs, disk, files, plan, saved, touched, broken, spent>>

(***************************************************************************)
(* Recovery.  A failing step is noted and the next one is taken.           *)
(***************************************************************************)
Recover(failing) == broken' = (broken \/ failing)

(* restore_original_worktree: detach to what is checked out, so that the
   way back is seen as a change. *)
RestoreWorktree ==
    /\ pc = "unwork"
    /\ \/ Recover(TRUE) /\ UNCHANGED <<head, disk, files>>
       \/ /\ head' = At(disk)
          /\ \/ Recover(TRUE) /\ UNCHANGED <<disk, files>>
             \/ /\ \A f \in Files : files[f] # "edited"
                /\ Recover(FALSE)
                /\ disk' = OriginalCommit
                /\ files' = [f \in Files |-> "missing"]
    /\ Go("restore_files", 1)
    /\ UNCHANGED <<dest, refs, plan, saved, touched, result, spent>>

(* A regular file is removed and written anew, one that was missing is
   removed; either can fail. *)
RestoreFile ==
    /\ pc = "restore_files"
    /\ LET f == ControlFiles[i] IN
       \/ Recover(FALSE) /\ files' = [files EXCEPT ![f] = saved.files[f]]
       \/ Recover(TRUE) /\ files' \in {files, [files EXCEPT ![f] = "missing"]}
    /\ IF i = Len(ControlFiles) THEN Go("scratch", 1) ELSE Go("restore_files", i + 1)
    /\ UNCHANGED <<dest, refs, head, disk, plan, saved, touched, result, spent>>

ScratchHead ==
    /\ pc = "scratch"
    /\ \/ head' = Symbolic("rollback_scratch") /\ Recover(FALSE)
       \/ UNCHANGED head /\ Recover(TRUE)
    /\ IF touched = 0 THEN Go("head", 1) ELSE Go("branches", 1)
    /\ UNCHANGED <<dest, refs, disk, files, plan, saved, touched, result, spent>>

Original(b) == saved.refs[b]

(* A branch that HEAD names cannot be deleted. *)
RollbackBranch ==
    /\ pc = "branches"
    /\ LET b == Configured[i] IN
       \/ /\ Original(b) # None \/ head.on # b
          /\ refs' = [refs EXCEPT ![b] = Original(b)] /\ Recover(FALSE)
       \/ UNCHANGED refs /\ Recover(TRUE)
    /\ IF i = touched THEN Go("head", 1) ELSE Go("branches", i + 1)
    /\ UNCHANGED <<dest, head, disk, files, plan, saved, touched, result, spent>>

RestoreHead ==
    /\ pc = "head"
    /\ \/ head' = saved.head /\ Recover(FALSE)
       \/ UNCHANGED head /\ Recover(TRUE)
    /\ Stop
    /\ UNCHANGED <<dest, refs, disk, files, plan, saved, touched, spent>>

Crash ==
    /\ pc # "idle" /\ spent.crashes < MaxCrashes
    /\ spent' = [spent EXCEPT !.crashes = @ + 1]
    /\ Go("idle", 1) /\ result' = "killed"
    /\ UNCHANGED <<dest, repository, plan, saved, touched, broken>>

Run == Start \/ PlanBranch \/ CommitBranch \/ RemoveFile \/ DetachHead \/ Checkout \/ WriteExact
       \/ AttachHead \/ RestoreWorktree \/ RestoreFile \/ ScratchHead \/ RollbackBranch \/ RestoreHead

(***************************************************************************)
(* Others: a customer moves dest, a developer commits to a branch or edits *)
(* a control file.                                                         *)
(***************************************************************************)
Act ==
    /\ spent.dev < MaxDev
    /\ spent' = [spent EXCEPT !.dev = @ + 1]
    /\ UNCHANGED run

DestMoves ==
    /\ spent.dest < MaxDest
    /\ spent' = [spent EXCEPT !.dest = @ + 1]
    /\ \E b \in ToSet(Configured) : dest' = [dest EXCEPT ![b] = Append(@, "dest")]
    /\ UNCHANGED <<repository, run>>

DevCommit ==
    /\ Act
    /\ \E b \in ToSet(Configured) :
         /\ refs[b] # None
         /\ refs' = [refs EXCEPT ![b] = Append(@, "own")]
         /\ disk' = IF head.on = b /\ disk = refs[b] THEN refs'[b] ELSE disk
    /\ UNCHANGED <<dest, head, files>>

DevEdit ==
    /\ Act
    /\ \E f \in Files : files[f] # "missing" /\ files' = [files EXCEPT ![f] = "edited"]
    /\ UNCHANGED <<dest, refs, head, disk>>

Next == Run \/ Crash \/ DestMoves \/ DevCommit \/ DevEdit
Spec == Init /\ [][Next]_vars

-----------------------------------------------------------------------------
Histories == Seq(Authors \cup ToSet(Configured))
TypeOK ==
    /\ dest \in [ToSet(Configured) -> Histories \ {None}]
    /\ refs \in [Branches -> Histories]
    /\ head \in [on : Branches \cup Scratch \cup {"detached"}, commit : Histories]
    /\ disk \in Histories
    /\ files \in [Files -> {"missing", "pinned", "smudged", "edited"}]
    /\ pc \in {"idle", "plan", "commit", "remove", "detach", "checkout", "exact", "attach", "unwork",
               "restore_files", "scratch", "branches", "head"}
    /\ touched \in 0 .. Len(Configured)
    /\ broken \in BOOLEAN
    /\ result \in {"none", "done", "failed", "recovery_failed", "killed"}

(* A run commits to no branch before every branch has a plan, and has at any
   time changed only the branches it notes as touched: the others hold what
   was there when it started, with what developers put on top (setup.rs
   216-223, 313-316).  Rolling the touched ones back is then enough. *)
SinceSaved(b) == SubSeq(refs[b], Len(saved.refs[b]) + 1, Len(refs[b]))
OnlyTouchedBranchesMoved ==
    /\ touched > 0 => Len(plan) = Len(Configured)
    /\ refs[Unmanaged] = saved.refs[Unmanaged]
    /\ \A j \in touched + 1 .. Len(Configured) :
         /\ IsPrefix(saved.refs[Configured[j]], refs[Configured[j]])
         /\ ToSet(SinceSaved(Configured[j])) \subseteq {"own"}
SetupInv == TypeOK /\ (pc # "idle" => OnlyTouchedBranchesMoved)

(* Committing a graft never takes a commit off a branch: what a developer
   commits while the run is fetching and planning stays (setup.rs 922-927,
   update_ref needs the ref to be at the first parent). *)
NoCommitLostByGraft ==
    [][pc = "commit" => \A b \in Branches : IsPrefix(refs[b], refs'[b])]_vars

(* setup recognises its own graft, after a run that was killed or failed to
   recover too: it grafts a branch again only if a developer has committed on
   top (setup.rs 258-264: "setup is a one-time step ... recognizing its own
   trailer here restores that guarantee"). *)
RegraftedOnlyUnderWork ==
    \A b \in ToSet(Configured) :
        \A k \in 2 .. Len(refs[b]) : refs[b][k] = b => refs[b][k - 1] # b

(* setup implements the transaction: seen from outside, a run under way has
   changed nothing, and ends with everything or with nothing done, as long
   as no developer works in the same repository
   (setup.rs 648: "so a failed run leaves the repo exactly as it found it"). *)
GraftedInto(r, s) ==
    /\ \A b \in ToSet(Configured) :
         /\ Last(s.refs[b]) = b
         /\ r.refs[b] # None => Front(s.refs[b]) = r.refs[b]
    /\ s.refs[Unmanaged] = r.refs[Unmanaged]
    /\ s.head = Symbolic(First) /\ s.disk = s.refs[First]
    /\ \A f \in Files : s.files[f] = "pinned"

Transaction == INSTANCE SetupTransaction WITH
    Grafted <- GraftedInto,
    repo <- IF pc = "idle" THEN Current ELSE saved,
    outcome <- IF spent.dev > 0 THEN "interfered" ELSE IF pc = "idle" THEN result ELSE "none"
ImplementsTransaction == Transaction!Spec
=============================================================================
