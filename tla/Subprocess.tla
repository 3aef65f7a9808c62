----------------------------- MODULE Subprocess -----------------------------
(***************************************************************************)
(* How gitprism runs git (git.rs, run_spawned_git_output): a child with    *)
(* two output pipes, a capture thread per pipe, a bounded channel to the   *)
(* runner, a thread that feeds stdin, a deadline for the whole run, and a  *)
(* grace period for pipes that stay open after the child has exited,       *)
(* because a helper it started still holds them.                           *)
(*                                                                         *)
(* A byte is its position in its stream, so a chunk is a range of          *)
(* positions.  Each thread and process takes its own steps; the runner's   *)
(* loop is one step per event it receives and one per look at the child    *)
(* and the clock.                                                          *)
(***************************************************************************)
EXTENDS Integers, Sequences

CONSTANTS
    MaxInput,         \* bound: bytes a caller wants to feed
    StdinLimit,       \* MAX_STDIN_BYTES
    PipeBytes,        \* what the kernel buffers per pipe
    ChunkBytes,       \* CAPTURE_CHUNK_BYTES
    ChannelCapacity,  \* CAPTURE_CHANNEL_CAPACITY
    StreamLimit,      \* OutputLimits.stdout and .stderr
    TotalLimit,       \* OutputLimits.total
    MaxWritten        \* bound: bytes written to each stream

Streams == {"stdout", "stderr"}

ASSUME SubprocessAssumption ==
    /\ MaxInput \in Nat /\ StdinLimit \in Nat
    /\ PipeBytes \in Nat \ {0} /\ ChunkBytes \in Nat \ {0} /\ ChannelCapacity \in Nat \ {0}
    /\ StreamLimit \in [Streams -> Nat] /\ TotalLimit \in Nat
    /\ MaxWritten \in Nat

VARIABLES
    input,     \* bytes for the child's stdin
    fed,       \* of these, written by the feeding thread
    consumed,  \* of these, read by the child
    child,     \* "none", "running", "exited", "reaped"
    helper,    \* a process the child started, holding its pipes
    written,   \* bytes ever written to each stream
    reader,    \* each capture thread: its state; it has read up to upto, of
               \* which it still holds what follows from
    channel,   \* the events under way to the runner
    captured,  \* the bytes the runner has of each stream
    eof,       \* the streams the runner has seen the end of
    status,    \* whether the runner has the child's exit status
    late,      \* the deadline has passed
    grace,     \* "off", "running" or "over": drain_deadline
    outcome    \* what the runner returned

process == <<input, fed, consumed, child, helper, written>>
threads == <<reader, channel>>
runner == <<captured, eof, status>>
clock == <<late, grace>>
vars == <<process, threads, runner, clock, outcome>>

Returned == outcome # "none"
Started == child # "none"
InPipe(s) == written[s] - reader[s].upto

Init ==
    /\ input \in 0 .. MaxInput
    /\ fed = 0 /\ consumed = 0
    /\ child = "none" /\ helper = "none"
    /\ written = [s \in Streams |-> 0]
    /\ reader = [s \in Streams |-> [state |-> "reading", from |-> 0, upto |-> 0]]
    /\ channel = <<>>
    /\ captured = [s \in Streams |-> 0]
    /\ eof = {} /\ status = FALSE
    /\ late = FALSE /\ grace = "off"
    /\ outcome = "none"

(* An input over the limit is refused before anything is spawned. *)
Start ==
    /\ ~Started /\ ~Returned
    /\ IF input > StdinLimit
       THEN outcome' = "refused" /\ UNCHANGED child
       ELSE child' = "running" /\ UNCHANGED outcome
    /\ UNCHANGED <<input, fed, consumed, helper, written, threads, runner, clock>>

(***************************************************************************)
(* The child and its helper.  Both may write to the pipes they hold, as    *)
(* much as fits; the child may read its input; each may exit at any time.  *)
(***************************************************************************)
Holders == {p \in {child, helper} : p = "running"}

WriteOutput(s) ==
    /\ Holders # {}
    /\ InPipe(s) < PipeBytes /\ written[s] < MaxWritten
    /\ written' = [written EXCEPT ![s] = @ + 1]
    /\ UNCHANGED <<input, fed, consumed, child, helper, threads, runner, clock, outcome>>

ReadInput ==
    /\ child = "running"
    /\ consumed < fed
    /\ consumed' = consumed + 1
    /\ UNCHANGED <<input, fed, child, helper, written, threads, runner, clock, outcome>>

StartHelper ==
    /\ child = "running" /\ helper = "none"
    /\ helper' = "running"
    /\ UNCHANGED <<input, fed, consumed, child, written, threads, runner, clock, outcome>>

ChildExits ==
    /\ child = "running"
    /\ child' = "exited"
    /\ UNCHANGED <<input, fed, consumed, helper, written, threads, runner, clock, outcome>>

HelperExits ==
    /\ helper = "running"
    /\ helper' = "gone"
    /\ UNCHANGED <<input, fed, consumed, child, written, threads, runner, clock, outcome>>

(***************************************************************************)
(* The threads of the runner's process.  A thread that feeds a child which *)
(* has gone gives up.  A capture thread reads a chunk, then waits for room *)
(* in the channel; the end of its pipe or an error is its last event.      *)
(***************************************************************************)
(* Mutant of MayCapture: stdin is written before the pipes are read. *)
MayCaptureOnceFed == Started /\ fed = input
MayCapture == Started

FeedInput ==
    /\ Started /\ fed < input
    /\ IF child = "running"
       THEN fed - consumed < PipeBytes /\ fed' = fed + 1
       ELSE fed' = input
    /\ UNCHANGED <<input, consumed, child, helper, written, threads, runner, clock, outcome>>

ReaderBecomes(s, state, from, upto) ==
    reader' = [reader EXCEPT ![s] = [state |-> state, from |-> from, upto |-> upto]]

Capture(s) ==
    /\ MayCapture
    /\ reader[s].state = "reading"
    /\ \/ \E k \in 1 .. ChunkBytes :
            /\ k <= InPipe(s)
            /\ ReaderBecomes(s, "chunk", reader[s].from, reader[s].upto + k)
       \/ /\ InPipe(s) = 0 /\ Holders = {}
          /\ ReaderBecomes(s, "eof", reader[s].from, reader[s].upto)
       \/ ReaderBecomes(s, "error", reader[s].from, reader[s].upto)
    /\ UNCHANGED <<process, channel, runner, clock, outcome>>

HasRoom == Len(channel) < ChannelCapacity

(* A send to a runner that has returned fails and ends the thread. *)
Send(s) ==
    /\ reader[s].state \in {"chunk", "eof", "error"}
    /\ Returned \/ HasRoom
    /\ channel' = IF Returned THEN channel
                  ELSE Append(channel, [stream |-> s, kind |-> reader[s].state,
                                        from |-> reader[s].from, upto |-> reader[s].upto])
    /\ ReaderBecomes(s, IF reader[s].state = "chunk" /\ ~Returned THEN "reading" ELSE "gone",
                      reader[s].upto, reader[s].upto)
    /\ UNCHANGED <<process, runner, clock, outcome>>

(***************************************************************************)
(* The runner.                                                             *)
(***************************************************************************)
(* Mutant of Kill: an error returns at once and leaves the child alone. *)
KillNot(why) == outcome' = why /\ UNCHANGED child
Kill(why) == child' = "reaped" /\ outcome' = why

(* Mutant of Overflows: the chunk that has just arrived is not counted. *)
OverflowsUncounted(s, k) ==
    \/ captured[s] > StreamLimit[s]
    \/ captured["stdout"] + captured["stderr"] > TotalLimit
Overflows(s, k) ==
    \/ captured[s] + k > StreamLimit[s]
    \/ captured["stdout"] + captured["stderr"] + k > TotalLimit

Receive ==
    /\ Started /\ ~Returned
    /\ channel # <<>>
    /\ LET e == Head(channel) IN
       /\ channel' = Tail(channel)
       /\ \/ /\ e.kind = "chunk" /\ ~Overflows(e.stream, e.upto - e.from)
             /\ captured' = [captured EXCEPT ![e.stream] = @ + (e.upto - e.from)]
             /\ UNCHANGED <<child, eof, outcome>>
          \/ /\ e.kind = "chunk" /\ Overflows(e.stream, e.upto - e.from)
             /\ Kill("overflow")
             /\ UNCHANGED <<captured, eof>>
          \/ /\ e.kind = "eof"
             /\ eof' = eof \cup {e.stream}
             /\ UNCHANGED <<child, captured, outcome>>
          \/ /\ e.kind = "error"
             /\ Kill("read error")
             /\ UNCHANGED <<captured, eof>>
    /\ UNCHANGED <<input, fed, consumed, helper, written, reader, status, clock>>

(* Mutant of Complete: the exit status alone decides. *)
CompleteOnExit(known) == known
Complete(known) == known /\ eof = Streams

(* Mutant of GraceFor: only the deadline bounds the wait for the pipes. *)
GraceForNone(learned) == grace
GraceFor(learned) == IF learned /\ eof # Streams THEN "running" ELSE grace

(* Mutant of TimedOut: a child that hangs is waited for. *)
TimedOutOnceExited == late /\ status
TimedOut == late

(***************************************************************************)
(* Once the channel is empty: reap the child if it has exited, and decide. *)
(* The capture threads end only after an event that the runner acts on, so *)
(* the check for a channel without senders never applies.                  *)
(***************************************************************************)
Poll ==
    /\ Started /\ ~Returned
    /\ channel = <<>>
    /\ LET learned == ~status /\ child = "exited"
           known == status \/ learned
       IN
       /\ status' = known
       /\ grace' = GraceFor(learned)
       /\ IF Complete(known)
          THEN outcome' = "ok" /\ child' = IF learned THEN "reaped" ELSE child
          ELSE IF TimedOut THEN Kill("deadline")
          ELSE IF grace = "over" THEN Kill("incomplete")
          ELSE /\ child' = IF learned THEN "reaped" ELSE child
               /\ UNCHANGED outcome
    /\ UNCHANGED <<input, fed, consumed, helper, written, threads, captured, eof, late>>

DeadlinePasses ==
    /\ Started /\ ~Returned /\ ~late
    /\ late' = TRUE
    /\ UNCHANGED <<process, threads, runner, grace, outcome>>

GracePasses ==
    /\ ~Returned /\ grace = "running"
    /\ grace' = "over"
    /\ UNCHANGED <<process, threads, runner, late, outcome>>

Runner == Start \/ Receive \/ Poll
Threads == FeedInput \/ \E s \in Streams : Capture(s) \/ Send(s)
Processes == ReadInput \/ StartHelper \/ ChildExits \/ HelperExits
             \/ \E s \in Streams : WriteOutput(s)

Next == Runner \/ Threads \/ Processes \/ DeadlinePasses \/ GracePasses

Spec == Init /\ [][Next]_vars

(* The runner is scheduled, and its clock moves. *)
FairSpec == Spec /\ WF_vars(Runner) /\ WF_vars(GracePasses)

-----------------------------------------------------------------------------
ProcessTypes ==
    /\ input \in 0 .. MaxInput
    /\ fed \in 0 .. input /\ consumed \in 0 .. fed
    /\ child \in {"none", "running", "exited", "reaped"}
    /\ helper \in {"none", "running", "gone"}
    /\ written \in [Streams -> 0 .. MaxWritten]

ReaderTypes ==
    reader \in [Streams -> [state : {"reading", "chunk", "eof", "error", "gone"},
                            from : 0 .. MaxWritten, upto : 0 .. MaxWritten]]

Events == [stream : Streams, kind : {"chunk", "eof", "error"},
           from : 0 .. MaxWritten, upto : 0 .. MaxWritten]
ChannelTypes == channel \in Seq(Events) /\ Len(channel) <= ChannelCapacity

RunnerTypes ==
    /\ captured \in [Streams -> Nat]
    /\ eof \subseteq Streams
    /\ status \in BOOLEAN /\ late \in BOOLEAN
    /\ grace \in {"off", "running", "over"}
    /\ outcome \in {"none", "ok", "refused", "overflow", "read error", "deadline", "incomplete"}

TypeOK == ProcessTypes /\ ReaderTypes /\ ChannelTypes /\ RunnerTypes

(* Output that is handed to a caller is all that was ever written: nothing
   is left in a pipe, a thread or the channel, and nobody can write more.
   (git.rs: "refusing to continue with incomplete output".) *)
CompleteOutput ==
    outcome = "ok" =>
        /\ captured = written
        /\ Holders = {}
        /\ status

(* What the runner keeps never exceeds its limits, however much is written
   and however the chunks of the two streams are interleaved. *)
CaptureBounded ==
    /\ \A s \in Streams : captured[s] <= StreamLimit[s]
    /\ captured["stdout"] + captured["stderr"] <= TotalLimit

(* No return leaves the child running or unreaped. *)
NothingLeftRunning == Returned => child \in {"none", "reaped"}

(* Once the child has exited the runner returns, without the deadline's
   help, even if a helper keeps the pipes open or writes endlessly. *)
ExitIsNoticed == child = "exited" ~> Returned

(* With a deadline that comes, every run of the runner ends, whatever the
   child and its helpers do. *)
Terminates == WF_vars(DeadlinePasses) => <>Returned

(* The child that full pipes hurt most: it writes all that it may before it
   reads its input, starts no helper and exits when it has read everything.
   No read fails and no clock runs out: only the pipes and the channel can
   make anybody wait. *)
AllSaid == written["stdout"] = StreamLimit["stdout"]
Plodding ==
    /\ helper = "none" /\ written["stderr"] = 0
    /\ written["stdout"] <= StreamLimit["stdout"]
    /\ consumed > 0 => AllSaid
    /\ child = "exited" => AllSaid /\ consumed = input
    /\ \A s \in Streams : reader[s].state # "error"
    /\ ~late /\ grace # "over"

(* Such a child is never deadlocked by full pipes, a full channel or input
   that is still being fed. *)
WorkIsServed ==
    /\ []Plodding
    /\ WF_vars(FeedInput)
    /\ \A s \in Streams : WF_vars(Send(s)) /\ WF_vars(Capture(s) /\ reader'[s].state # "error")
    /\ WF_vars(~AllSaid /\ WriteOutput("stdout"))
    /\ WF_vars(AllSaid /\ ReadInput)
    /\ WF_vars(AllSaid /\ consumed = input /\ ChildExits)
    => <>(outcome \in {"ok", "refused"})
=============================================================================
