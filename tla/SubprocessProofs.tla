-------------------------- MODULE SubprocessProofs --------------------------
(***************************************************************************)
(* What the runner hands to its caller: complete, bounded, and with        *)
(* nothing left running.  The capture threads, the channel and the runner  *)
(* each hold a part of a stream; Joined says that the parts meet, in       *)
(* order and without a gap.                                                *)
(***************************************************************************)
EXTENDS Subprocess, SequenceTheorems, TLAPS

(* Nobody will ever write to a stream again, and all of it has been read. *)
Ended(s) ==
    /\ InPipe(s) = 0
    /\ Holders = {}
    /\ Started

Of(s) == {i \in 1 .. Len(channel) : channel[i].stream = s}

(* What is captured, under way and in a thread's hand of one stream. *)
Joined(s) ==
    /\ Of(s) = {} => captured[s] = reader[s].from
    /\ \A i \in Of(s) : (\A k \in Of(s) : i <= k) => channel[i].from = captured[s]
    /\ \A i \in Of(s) : (\A k \in Of(s) : k <= i) => channel[i].upto = reader[s].from
    /\ \A i, j \in Of(s) :
         i < j /\ (\A k \in Of(s) : k <= i \/ j <= k) => channel[j].from = channel[i].upto

Ranges ==
    /\ \A s \in Streams :
         /\ reader[s].from <= reader[s].upto /\ reader[s].upto <= written[s]
         /\ reader[s].state # "chunk" => reader[s].from = reader[s].upto
    /\ \A i \in 1 .. Len(channel) :
         /\ channel[i].from <= channel[i].upto
         /\ channel[i].kind # "chunk" => channel[i].from = channel[i].upto

Endings ==
    /\ \A s \in Streams :
         /\ reader[s].state = "eof" => Ended(s)
         /\ s \in eof => Ended(s) /\ reader[s].state = "gone"
    /\ \A i \in 1 .. Len(channel) :
         channel[i].kind = "eof" =>
            Ended(channel[i].stream) /\ reader[channel[i].stream].state = "gone"

Reaped ==
    /\ status => child = "reaped"
    /\ Returned => child \in {"none", "reaped"}
    /\ ~Started => helper = "none" /\ channel = <<>> /\ \A s \in Streams : reader[s].state = "reading"

RunnerInv ==
    /\ TypeOK
    /\ Reaped
    /\ Ranges
    /\ ~Returned => Endings /\ \A s \in Streams : Joined(s)
    /\ CaptureBounded
    /\ CompleteOutput

LEMMA InitRunnerInv == Init => RunnerInv
<1> SUFFICES ASSUME Init PROVE RunnerInv OBVIOUS
<1> USE SubprocessAssumption DEF Init
<1>1. channel = <<>> /\ Len(channel) = 0 /\ channel \in Seq(Events)
  OBVIOUS
<1>2. ProcessTypes BY DEF ProcessTypes
<1>3. ReaderTypes BY DEF ReaderTypes
<1>4. ChannelTypes BY <1>1 DEF ChannelTypes
<1>5. RunnerTypes BY DEF RunnerTypes
<1>6. Reaped /\ Ranges /\ CompleteOutput
  BY <1>1 DEF Reaped, Ranges, Returned, Started, CompleteOutput
<1>7. CaptureBounded
  BY DEF CaptureBounded, Streams
<1>8. Endings /\ \A s \in Streams : Joined(s)
  BY <1>1 DEF Endings, Joined, Of
<1> QED BY <1>2, <1>3, <1>4, <1>5, <1>6, <1>7, <1>8 DEF RunnerInv, TypeOK

LEMMA ChannelElements ==
    ASSUME ChannelTypes
    PROVE  /\ Len(channel) \in Nat
           /\ \A i \in 1 .. Len(channel) :
                /\ channel[i].stream \in Streams
                /\ channel[i].kind \in {"chunk", "eof", "error"}
                /\ channel[i].from \in Nat /\ channel[i].upto \in Nat
<1>1. \A i \in 1 .. Len(channel) : channel[i] \in Events
  BY ElementOfSeq DEF ChannelTypes
<1>2. QED
  BY <1>1, LenProperties, SubprocessAssumption DEF ChannelTypes, Events

(* Steps that touch neither the threads nor the runner. *)
ProcessStep ==
    \/ ReadInput \/ StartHelper \/ ChildExits \/ HelperExits \/ FeedInput
    \/ \E s \in Streams : WriteOutput(s)

LEMMA ProcessStepTypes ==
    ASSUME TypeOK, ProcessStep
    PROVE  /\ TypeOK'
           /\ UNCHANGED <<reader, channel, captured, eof, status, late, grace, outcome>>
<1>1. UNCHANGED <<reader, channel, captured, eof, status, late, grace, outcome>>
  BY DEF ProcessStep, ReadInput, StartHelper, ChildExits, HelperExits, FeedInput, WriteOutput,
         threads, runner, clock
<1>2. ReaderTypes' /\ ChannelTypes' /\ RunnerTypes'
  BY <1>1 DEF TypeOK, ReaderTypes, ChannelTypes, RunnerTypes
<1>3. ProcessTypes'
  <2> USE SubprocessAssumption DEF TypeOK, ProcessTypes
  <2>1. CASE ReadInput BY <2>1 DEF ReadInput
  <2>2. CASE StartHelper BY <2>2 DEF StartHelper
  <2>3. CASE ChildExits BY <2>3 DEF ChildExits
  <2>4. CASE HelperExits BY <2>4 DEF HelperExits
  <2>5. CASE FeedInput BY <2>5 DEF FeedInput, Started
  <2>6. ASSUME NEW s \in Streams, WriteOutput(s) PROVE ProcessTypes'
    BY <2>6 DEF WriteOutput
  <2> QED BY <2>1, <2>2, <2>3, <2>4, <2>5, <2>6 DEF ProcessStep
<1> QED BY <1>1, <1>2, <1>3 DEF TypeOK

LEMMA ProcessStepEnds ==
    ASSUME TypeOK, ProcessStep, NEW s \in Streams
    PROVE  written[s] <= written'[s] /\ (Ended(s) => Ended(s)')
<1> USE DEF TypeOK, ProcessTypes, ReaderTypes
<1>1. reader' = reader
  BY ProcessStepTypes
<1>2. written[s] <= written'[s]
  BY DEF ProcessStep, ReadInput, StartHelper, ChildExits, HelperExits, FeedInput, WriteOutput
<1>3. Ended(s) => written' = written /\ Holders' = {} /\ Started'
  BY DEF Ended, Holders, Started, ProcessStep, ReadInput, StartHelper, ChildExits, HelperExits,
         FeedInput, WriteOutput
<1> QED BY <1>1, <1>2, <1>3 DEF Ended, InPipe

LEMMA ProcessStepInv ==
    ASSUME RunnerInv, ProcessStep
    PROVE  RunnerInv'
<1>0. TypeOK' /\ UNCHANGED <<reader, channel, captured, eof, status, late, grace, outcome>>
  BY ProcessStepTypes DEF RunnerInv
<1>1. \A s \in Streams : written[s] <= written'[s] /\ (Ended(s) => Ended(s)')
  BY ProcessStepEnds DEF RunnerInv
<1>2. Reaped'
  BY <1>0 DEF RunnerInv, Reaped, Returned, Started, ProcessStep, ReadInput, StartHelper, ChildExits,
         HelperExits, FeedInput, WriteOutput
<1>3. Ranges'
  BY <1>0, <1>1 DEF RunnerInv, Ranges, TypeOK, ProcessTypes, ReaderTypes
<1>4. ~Returned' => Endings'
  BY <1>0, <1>1, ChannelElements DEF RunnerInv, Endings, Returned, TypeOK
<1>5. ~Returned' => \A s \in Streams : Joined(s)'
  BY <1>0 DEF RunnerInv, Joined, Of, Returned
<1>6. CaptureBounded'
  BY <1>0 DEF RunnerInv, CaptureBounded
<1>7. CompleteOutput'
  BY <1>0 DEF RunnerInv, CompleteOutput, Reaped, Holders, Returned, ProcessStep, ReadInput, StartHelper,
         ChildExits, HelperExits, FeedInput, WriteOutput
<1> QED BY <1>0, <1>2, <1>3, <1>4, <1>5, <1>6, <1>7 DEF RunnerInv

(* Starting the child, and the clock. *)
ClockStep == Start \/ DeadlinePasses \/ GracePasses

LEMMA ClockStepInv ==
    ASSUME RunnerInv, ClockStep
    PROVE  RunnerInv'
<1>0. UNCHANGED <<input, fed, consumed, helper, written, reader, channel, captured, eof, status>>
  BY DEF ClockStep, Start, DeadlinePasses, GracePasses, process, threads, runner, clock
<1>1. TypeOK'
  <2>1. ReaderTypes' /\ ChannelTypes'
    BY <1>0 DEF RunnerInv, TypeOK, ReaderTypes, ChannelTypes
  <2>2. ProcessTypes' /\ RunnerTypes'
    <3>1. TypeOK
      BY DEF RunnerInv
    <3>2. CASE Start
      <4>1. /\ child' \in {child, "running"} /\ outcome' \in {outcome, "refused"}
            /\ UNCHANGED <<input, fed, consumed, helper, written, threads, clock, captured, eof, status>>
        BY <1>0, <3>2 DEF Start
      <4>2. ProcessTypes'
        BY <3>1, <4>1 DEF TypeOK, ProcessTypes
      <4>3. RunnerTypes'
        BY <3>1, <4>1 DEF TypeOK, RunnerTypes, clock
      <4> QED BY <4>2, <4>3
    <3>3. CASE DeadlinePasses
      BY <1>0, <3>1, <3>3 DEF TypeOK, ProcessTypes, RunnerTypes, DeadlinePasses, process, threads,
         runner
    <3>4. CASE GracePasses
      BY <1>0, <3>1, <3>4 DEF TypeOK, ProcessTypes, RunnerTypes, GracePasses, process, threads, runner
    <3> QED BY <3>2, <3>3, <3>4 DEF ClockStep
  <2> QED BY <2>1, <2>2 DEF TypeOK
<1>2. Reaped'
  BY <1>0 DEF RunnerInv, Reaped, Returned, Started, ClockStep, Start, DeadlinePasses, GracePasses,
     process, threads, runner, clock
<1>3. Ranges'
  BY <1>0 DEF RunnerInv, Ranges
<1>4. \A s \in Streams : Ended(s) => Ended(s)'
  BY <1>0 DEF Ended, InPipe, Holders, Started, ClockStep, Start, DeadlinePasses, GracePasses, process
<1>5. ~Returned' => Endings'
  BY <1>0, <1>4, ChannelElements DEF RunnerInv, Endings, TypeOK, Returned, ClockStep, Start, DeadlinePasses,
     GracePasses
<1>6. ~Returned' => \A s \in Streams : Joined(s)'
  BY <1>0 DEF RunnerInv, Joined, Of, Returned, ClockStep, Start, DeadlinePasses, GracePasses
<1>7. CaptureBounded'
  BY <1>0 DEF RunnerInv, CaptureBounded
<1>8. CompleteOutput'
  BY <1>0 DEF RunnerInv, CompleteOutput, Holders, Started, Returned, ClockStep, Start, DeadlinePasses,
     GracePasses, process
<1> QED BY <1>1, <1>2, <1>3, <1>5, <1>6, <1>7, <1>8 DEF RunnerInv

(***************************************************************************)
(* A capture thread reads.                                                 *)
(***************************************************************************)
LEMMA CaptureInv ==
    ASSUME RunnerInv, NEW s \in Streams, Capture(s)
    PROVE  RunnerInv'
<1> USE SubprocessAssumption
<1>0. /\ UNCHANGED <<input, fed, consumed, child, helper, written, channel, captured, eof, status, late,
                     grace, outcome>>
      /\ reader[s].state = "reading" /\ Started
  BY DEF Capture, MayCapture, process, runner, clock
<1>t. TypeOK
  BY DEF RunnerInv
<1>r. reader[s].upto \in 0 .. MaxWritten /\ reader[s].from = reader[s].upto /\ written[s] \in 0 .. MaxWritten
  BY <1>t, <1>0 DEF RunnerInv, Ranges, TypeOK, ReaderTypes, ProcessTypes
<1> DEFINE Reads(st, u) ==
        /\ reader' = [reader EXCEPT ![s] = [state |-> st, from |-> reader[s].from, upto |-> u]]
        /\ reader[s].upto <= u /\ u <= written[s]
        /\ st # "chunk" => u = reader[s].upto
        /\ st = "eof" => Ended(s)
<1>p. \E st \in {"chunk", "eof", "error"}, u \in 0 .. MaxWritten : Reads(st, u)
  <2>1. reader[s].upto <= written[s]
    BY DEF RunnerInv, Ranges
  <2>2. ASSUME NEW k \in 1 .. ChunkBytes, k <= InPipe(s),
               ReaderBecomes(s, "chunk", reader[s].from, reader[s].upto + k)
        PROVE  Reads("chunk", reader[s].upto + k) /\ reader[s].upto + k \in 0 .. MaxWritten
    BY <2>2, <1>r DEF ReaderBecomes, InPipe
  <2>3. ASSUME InPipe(s) = 0, Holders = {}, ReaderBecomes(s, "eof", reader[s].from, reader[s].upto)
        PROVE  Reads("eof", reader[s].upto)
    BY <2>3, <2>1, <1>r, <1>0 DEF ReaderBecomes, Ended
  <2>4. ASSUME ReaderBecomes(s, "error", reader[s].from, reader[s].upto)
        PROVE  Reads("error", reader[s].upto)
    BY <2>4, <2>1, <1>r DEF ReaderBecomes
  <2> HIDE DEF Reads
  <2> QED BY <2>2, <2>3, <2>4, <1>r DEF Capture
<1>1. PICK st \in {"chunk", "eof", "error"}, u \in 0 .. MaxWritten : Reads(st, u)
  BY <1>p
<1>2. /\ \A q \in Streams : reader'[q].from = reader[q].from
      /\ \A q \in Streams : q # s => reader'[q] = reader[q]
      /\ reader'[s] = [state |-> st, from |-> reader[s].from, upto |-> u]
  BY <1>1, <1>t DEF TypeOK, ReaderTypes
<1>3. TypeOK'
  <2>1. ProcessTypes' /\ ChannelTypes' /\ RunnerTypes'
    BY <1>0, <1>t DEF TypeOK, ProcessTypes, ChannelTypes, RunnerTypes
  <2>2. ReaderTypes'
    BY <1>1, <1>t, <1>r DEF TypeOK, ReaderTypes
  <2> QED BY <2>1, <2>2 DEF TypeOK
<1>4. Reaped'
  BY <1>0 DEF RunnerInv, Reaped, Returned, Started
<1>5. Ranges'
  BY <1>0, <1>1, <1>2, <1>r DEF RunnerInv, Ranges
<1>6. \A q \in Streams : Ended(q) => Ended(q)'
  <2>1. ASSUME NEW q \in Streams, Ended(q) PROVE InPipe(q)' = 0
    <3>1. CASE q = s
      BY <3>1, <2>1, <1>0, <1>1, <1>2, <1>r DEF Ended, InPipe
    <3>2. CASE q # s
      BY <3>2, <2>1, <1>0, <1>2 DEF Ended, InPipe
    <3> QED BY <3>1, <3>2
  <2> QED BY <2>1, <1>0 DEF Ended, Holders, Started
<1>7. ~Returned' => Endings'
  <2> SUFFICES ASSUME ~Returned' PROVE Endings' OBVIOUS
  <2>1. Endings BY <1>0 DEF RunnerInv, Returned
  <2>2. \A q \in Streams : reader'[q].state = "eof" => Ended(q)'
    BY <2>1, <1>1, <1>2, <1>6 DEF Endings
  <2>3. \A q \in Streams : reader[q].state = "gone" => reader'[q].state = "gone"
    BY <1>0, <1>2
  <2> QED BY <2>1, <2>2, <2>3, <1>0, <1>6, <1>t, ChannelElements DEF Endings, TypeOK
<1>8. ~Returned' => \A q \in Streams : Joined(q)'
  BY <1>0, <1>2 DEF RunnerInv, Joined, Of, Returned
<1>9. CaptureBounded' /\ CompleteOutput'
  BY <1>0 DEF RunnerInv, CaptureBounded, CompleteOutput, Holders
<1> QED BY <1>3, <1>4, <1>5, <1>7, <1>8, <1>9 DEF RunnerInv

(***************************************************************************)
(* A capture thread sends what it has.                                     *)
(***************************************************************************)
LEMMA SendInv ==
    ASSUME RunnerInv, NEW s \in Streams, Send(s)
    PROVE  RunnerInv'
<1> DEFINE n == Len(channel)
           e == [stream |-> s, kind |-> reader[s].state, from |-> reader[s].from, upto |-> reader[s].upto]
           st == IF reader[s].state = "chunk" /\ ~Returned THEN "reading" ELSE "gone"
<1>0. /\ UNCHANGED <<input, fed, consumed, child, helper, written, captured, eof, status, late, grace, outcome>>
      /\ reader[s].state \in {"chunk", "eof", "error"}
      /\ Returned \/ n < ChannelCapacity
      /\ channel' = IF Returned THEN channel ELSE Append(channel, e)
      /\ reader' = [reader EXCEPT ![s] = [state |-> st, from |-> reader[s].upto, upto |-> reader[s].upto]]
  BY DEF Send, ReaderBecomes, HasRoom, process, runner, clock
<1>t. TypeOK /\ n \in Nat
  BY ChannelElements DEF RunnerInv, TypeOK
<1>r. /\ reader[s].upto \in 0 .. MaxWritten /\ reader[s].from \in 0 .. MaxWritten
      /\ reader[s].from <= reader[s].upto /\ reader[s].upto <= written[s]
      /\ reader[s].state # "chunk" => reader[s].from = reader[s].upto
  BY <1>t DEF RunnerInv, Ranges, TypeOK, ReaderTypes
<1>e. e \in Events
  BY <1>0, <1>r DEF Events
<1>2. /\ \A q \in Streams : q # s => reader'[q] = reader[q]
      /\ reader'[s] = [state |-> st, from |-> reader[s].upto, upto |-> reader[s].upto]
      /\ \A q \in Streams : reader'[q].upto = reader[q].upto
  BY <1>0, <1>t DEF TypeOK, ReaderTypes
<1>c. ASSUME ~Returned
      PROVE  /\ Len(channel') = n + 1
             /\ channel'[n + 1] = e
             /\ \A i \in 1 .. n : channel'[i] = channel[i]
             /\ channel' \in Seq(Events)
  BY <1>0, <1>c, <1>t, <1>e, AppendProperties DEF TypeOK, ChannelTypes
<1> HIDE DEF e
<1>3. TypeOK'
  <2>1. ProcessTypes' /\ RunnerTypes'
    BY <1>0, <1>t DEF TypeOK, ProcessTypes, RunnerTypes
  <2>2. ReaderTypes'
    BY <1>0, <1>t, <1>r DEF TypeOK, ReaderTypes
  <2>3. ChannelTypes'
    BY <1>0, <1>t, <1>c, SubprocessAssumption DEF TypeOK, ChannelTypes
  <2> QED BY <2>1, <2>2, <2>3 DEF TypeOK
<1>4. Reaped'
  BY <1>0 DEF RunnerInv, Reaped, Returned, Started
<1>5. Ranges'
  <2>1. \A q \in Streams :
          /\ reader'[q].from <= reader'[q].upto /\ reader'[q].upto <= written'[q]
          /\ reader'[q].state # "chunk" => reader'[q].from = reader'[q].upto
    BY <1>0, <1>2, <1>r DEF RunnerInv, Ranges
  <2>2. e.from <= e.upto /\ (e.kind # "chunk" => e.from = e.upto)
    BY <1>r DEF e
  <2>3. CASE Returned
    BY <2>1, <2>3, <1>0 DEF RunnerInv, Ranges
  <2>4. CASE ~Returned
    BY <2>1, <2>2, <2>4, <1>c, <1>t DEF RunnerInv, Ranges
  <2> QED BY <2>3, <2>4
<1>6. \A q \in Streams : Ended(q) => Ended(q)'
  BY <1>0, <1>2 DEF Ended, InPipe, Holders, Started
<1>7. CaptureBounded' /\ CompleteOutput'
  BY <1>0 DEF RunnerInv, CaptureBounded, CompleteOutput, Holders
<1> QED
  <2>1. CASE Returned
    BY <2>1, <1>0, <1>3, <1>4, <1>5, <1>7 DEF RunnerInv, Returned
  <2>2. CASE ~Returned
    <3>0. Endings /\ (\A q \in Streams : Joined(q)) /\ ~Returned'
      BY <2>2, <1>0 DEF RunnerInv, Returned
    <3>1. Endings'
      <4>1. e.stream = s /\ e.kind = reader[s].state
        BY DEF e
      <4>2. st # "eof" /\ (reader[s].state # "chunk" => st = "gone")
        BY <2>2
      <4>3. \A q \in Streams : /\ reader'[q].state = "eof" => Ended(q)
                               /\ q \in eof => Ended(q) /\ reader'[q].state = "gone"
        BY <3>0, <1>2, <1>0, <4>2 DEF Endings
      <4>4. ASSUME NEW i \in 1 .. n, channel[i].kind = "eof"
            PROVE  Ended(channel[i].stream) /\ reader'[channel[i].stream].state = "gone"
        BY <4>4, <3>0, <1>2, <1>0, <1>t, ChannelElements DEF Endings, TypeOK
      <4>5. e.kind = "eof" => Ended(s) /\ reader'[s].state = "gone"
        <5>1. reader'[s].state = st BY <1>2
        <5> HIDE DEF st
        <5> QED BY <5>1, <3>0, <4>1, <4>2 DEF Endings
      <4> HIDE DEF st
      <4>6. \A i \in 1 .. n + 1 : channel'[i].kind = "eof" =>
               channel'[i].stream \in Streams
               /\ Ended(channel'[i].stream) /\ reader'[channel'[i].stream].state = "gone"
        BY <4>1, <4>4, <4>5, <1>c, <2>2, <1>t, ChannelElements DEF TypeOK
      <4> QED BY <4>3, <4>6, <1>6, <1>c, <1>0, <2>2 DEF Endings
    <3>2. ASSUME NEW q \in Streams PROVE Joined(q)'
      <4>1. /\ e.stream = s /\ e.from = reader[s].from /\ e.upto = reader[s].upto
        BY DEF e
      <4>2. CASE q # s
        <5>1. Of(q)' = Of(q)
          BY <4>1, <4>2, <1>c, <2>2, <1>t DEF Of
        <5>2. \A i \in Of(q) : channel'[i] = channel[i]
          BY <1>c, <2>2 DEF Of
        <5>3. reader'[q] = reader[q] /\ captured' = captured
          BY <4>2, <1>2, <1>0
        <5> QED BY <5>1, <5>2, <5>3, <3>0 DEF Joined
      <4>3. CASE q = s
        <5>1. Of(s)' = Of(s) \cup {n + 1}
          BY <4>1, <1>c, <2>2, <1>t DEF Of
        <5>2. \A i \in Of(s) : channel'[i] = channel[i] /\ i \in Nat /\ i < n + 1 /\ channel'[n + 1] = e
          BY <1>c, <2>2, <1>t DEF Of
        <5>3. reader'[s].from = reader[s].upto /\ captured' = captured /\ channel'[n + 1] = e /\ n + 1 \in Nat
          BY <1>2, <1>0, <1>c, <2>2, <1>t
        <5>4. Joined(s) BY <3>0
        <5>5. \A i \in Of(s)' : (\A k \in Of(s)' : i <= k) => channel'[i].from = captured'[s]
          BY <5>1, <5>2, <5>3, <5>4, <4>1 DEF Joined
        <5>6. \A i \in Of(s)' : (\A k \in Of(s)' : k <= i) => channel'[i].upto = reader'[s].from
          BY <5>1, <5>2, <5>3, <5>4, <4>1 DEF Joined
        <5>7. \A i, j \in Of(s)' :
                i < j /\ (\A k \in Of(s)' : k <= i \/ j <= k) => channel'[j].from = channel'[i].upto
          <6> SUFFICES ASSUME NEW i \in Of(s)', NEW j \in Of(s)', i < j,
                              \A k \in Of(s)' : k <= i \/ j <= k
                       PROVE  channel'[j].from = channel'[i].upto
            OBVIOUS
          <6>1. i \in Of(s) BY <5>1, <5>2, <1>t DEF Of
          <6>2. CASE j \in Of(s)
            BY <6>1, <6>2, <5>1, <5>2, <5>4 DEF Joined
          <6>3. CASE j = n + 1
            <7>1. \A k \in Of(s) : k <= i
              BY <6>3, <5>1, <5>2
            <7> QED BY <7>1, <6>1, <6>3, <5>2, <5>3, <5>4, <4>1 DEF Joined
          <6> QED BY <6>2, <6>3, <5>1
        <5>8. Of(s)' # {} BY <5>1
        <5> QED BY <5>5, <5>6, <5>7, <5>8, <4>3 DEF Joined
      <4> QED BY <4>2, <4>3
    <3> QED BY <3>0, <3>1, <3>2, <1>3, <1>4, <1>5, <1>7 DEF RunnerInv
  <2> QED BY <2>1, <2>2

(***************************************************************************)
(* The runner takes an event.                                              *)
(***************************************************************************)
LEMMA ReceiveInv ==
    ASSUME RunnerInv, Receive
    PROVE  RunnerInv'
<1> DEFINE n == Len(channel)
           e == Head(channel)
           s == e.stream
           d == e.upto - e.from
<1>0. /\ UNCHANGED <<input, fed, consumed, helper, written, reader, status, late, grace>>
      /\ Started /\ ~Returned /\ channel # <<>> /\ channel' = Tail(channel)
  BY DEF Receive, clock
<1>t. TypeOK /\ n \in Nat
  BY ChannelElements DEF RunnerInv, TypeOK
<1>1. /\ n # 0 /\ e = channel[1]
      /\ channel' \in Seq(Events) /\ Len(channel') = n - 1
      /\ \A i \in 1 .. n - 1 : channel'[i] = channel[i + 1]
  BY <1>0, <1>t, HeadTailProperties, EmptySeq, LenProperties DEF TypeOK, ChannelTypes
<1> HIDE DEF e
<1>2. s \in Streams /\ e.from \in Nat /\ e.upto \in Nat /\ e.kind \in {"chunk", "eof", "error"}
  BY <1>1, <1>t, ChannelElements DEF TypeOK
<1>3. e.from <= e.upto /\ (e.kind # "chunk" => e.from = e.upto)
  BY <1>1, <1>t DEF RunnerInv, Ranges
<1>d. d \in Nat /\ (e.kind # "chunk" => d = 0) /\ e.from + d = e.upto
  BY <1>2, <1>3
<1>c. captured \in [Streams -> Nat]
  BY <1>t DEF TypeOK, RunnerTypes
<1>i. Endings /\ \A q \in Streams : Joined(q)
  BY <1>0 DEF RunnerInv
<1> HIDE DEF s, d
<1>4. \/ /\ outcome' = outcome /\ child' = child /\ e.kind # "error"
         /\ captured' = [captured EXCEPT ![s] = @ + d]
         /\ e.kind = "chunk" => ~Overflows(s, d)
         /\ eof' = IF e.kind = "eof" THEN eof \cup {s} ELSE eof
      \/ /\ outcome' \in {"overflow", "read error"} /\ child' = "reaped" /\ captured' = captured /\ eof' = eof
  <2>1. \/ /\ e.kind = "chunk" /\ ~Overflows(s, d)
           /\ captured' = [captured EXCEPT ![s] = @ + d]
           /\ UNCHANGED <<child, eof, outcome>>
        \/ /\ outcome' \in {"overflow", "read error"} /\ child' = "reaped" /\ captured' = captured /\ eof' = eof
        \/ /\ e.kind = "eof" /\ eof' = eof \cup {s} /\ UNCHANGED <<child, captured, outcome>>
    BY <1>0 DEF Receive, Kill, e, s, d
  <2>2. ASSUME e.kind = "eof"
        PROVE  captured = [captured EXCEPT ![s] = @ + d]
    <3>1. \A q \in Streams : captured[q] + 0 = captured[q]
      BY <1>c
    <3> QED BY <2>2, <3>1, <1>d, <1>c, <1>2
  <2> QED BY <2>1, <2>2
<1>5. TypeOK'
  <2>1. ReaderTypes' /\ ProcessTypes'
    BY <1>0, <1>4, <1>t DEF TypeOK, ProcessTypes, ReaderTypes
  <2>2. ChannelTypes'
    BY <1>1, <1>t, SubprocessAssumption DEF TypeOK, ChannelTypes
  <2>3. captured' \in [Streams -> Nat]
    <3>1. captured[s] + d \in Nat BY <1>c, <1>d, <1>2
    <3> QED BY <1>4, <3>1, <1>c, <1>2
  <2>4. RunnerTypes'
    BY <1>0, <1>4, <1>2, <2>3, <1>t DEF TypeOK, RunnerTypes
  <2> QED BY <2>1, <2>2, <2>4 DEF TypeOK
<1>6. Reaped'
  BY <1>0, <1>4 DEF RunnerInv, Reaped, Returned, Started
<1>7. Ranges'
  <2>1. \A i \in 1 .. n - 1 : /\ channel[i + 1].from <= channel[i + 1].upto
                              /\ channel[i + 1].kind # "chunk" => channel[i + 1].from = channel[i + 1].upto
    BY <1>t DEF RunnerInv, Ranges
  <2> QED BY <1>0, <1>1, <2>1 DEF RunnerInv, Ranges
<1>8. CaptureBounded'
  <2>1. CASE captured' = captured
    BY <2>1 DEF RunnerInv, CaptureBounded
  <2>2. CASE captured' = [captured EXCEPT ![s] = @ + d] /\ ~Overflows(s, d)
    <3>1. captured[s] + d \in Nat /\ captured'[s] = captured[s] + d
      BY <2>2, <1>c, <1>d, <1>2
    <3>2. \A q \in Streams : q # s => captured'[q] = captured[q]
      BY <2>2, <1>c
    <3>3. captured'[s] <= StreamLimit[s] /\ captured["stdout"] + captured["stderr"] + d <= TotalLimit
      BY <2>2, <3>1, <1>c, <1>d, <1>2, SubprocessAssumption DEF Overflows, Streams
    <3>4. captured'["stdout"] + captured'["stderr"] = captured["stdout"] + captured["stderr"] + d
      <4>1. CASE s = "stdout" BY <4>1, <3>1, <3>2, <1>c, <1>d DEF Streams
      <4>2. CASE s = "stderr" BY <4>2, <3>1, <3>2, <1>c, <1>d DEF Streams
      <4> QED BY <4>1, <4>2, <1>2 DEF Streams
    <3> QED BY <3>2, <3>3, <3>4 DEF RunnerInv, CaptureBounded
  <2>3. CASE captured' = [captured EXCEPT ![s] = @ + d] /\ e.kind # "chunk"
    <3>1. \A q \in Streams : captured[q] + 0 = captured[q]
      BY <1>c
    <3>2. captured' = captured
      BY <2>3, <3>1, <1>d, <1>c, <1>2
    <3> QED BY <3>2, <2>1
  <2> QED BY <1>4, <2>1, <2>2, <2>3
<1>9. CompleteOutput'
  BY <1>0, <1>4 DEF CompleteOutput, Returned
<1>10. ~Returned' => Endings'
  <2> SUFFICES ASSUME ~Returned' PROVE Endings' OBVIOUS
  <2>1. /\ child' = child /\ eof' = (IF e.kind = "eof" THEN eof \cup {s} ELSE eof)
    BY <1>4, <1>0 DEF Returned
  <2>2. \A q \in Streams : Ended(q) => Ended(q)'
    BY <2>1, <1>0 DEF Ended, InPipe, Holders, Started
  <2>3. e.kind = "eof" => Ended(s) /\ reader[s].state = "gone"
    BY <1>i, <1>1, <1>t DEF Endings, s
  <2>4. \A i \in 1 .. n - 1 : channel'[i].kind = "eof" =>
           channel'[i].stream \in Streams
           /\ Ended(channel'[i].stream) /\ reader[channel'[i].stream].state = "gone"
    <3>1. \A i \in 1 .. n : channel[i].kind = "eof" =>
             channel[i].stream \in Streams
             /\ Ended(channel[i].stream) /\ reader[channel[i].stream].state = "gone"
      BY <1>i, <1>t, ChannelElements DEF Endings, TypeOK
    <3>2. \A i \in 1 .. n - 1 : i + 1 \in 1 .. n /\ channel'[i] = channel[i + 1]
      BY <1>1, <1>t
    <3> QED BY <3>1, <3>2
  <2>5. \A q \in Streams : q \in eof' => Ended(q) /\ reader[q].state = "gone"
    BY <2>1, <2>3, <1>i DEF Endings
  <2>6. \A q \in Streams : reader[q].state = "eof" => Ended(q)
    BY <1>i DEF Endings
  <2> QED BY <2>2, <2>4, <2>5, <2>6, <1>0, <1>1 DEF Endings
<1>11. ~Returned' => \A q \in Streams : Joined(q)'
  <2> SUFFICES ASSUME ~Returned', NEW q \in Streams PROVE Joined(q)' OBVIOUS
  <2>1. captured' = [captured EXCEPT ![s] = @ + d] /\ reader' = reader
    BY <1>4, <1>0 DEF Returned
  <2>2. \A i \in Of(q) : i \in Nat /\ (i # 1 => i - 1 \in Of(q)')
    <3>0. Of(q) \subseteq Nat BY <1>t DEF Of
    <3> SUFFICES ASSUME NEW i \in Of(q), i # 1 PROVE i - 1 \in Of(q)'
      BY <3>0
    <3>1. i \in 2 .. n /\ i - 1 \in 1 .. n - 1 /\ (i - 1) + 1 = i /\ channel[i].stream = q
      BY <1>t DEF Of
    <3>2. channel'[i - 1] = channel[(i - 1) + 1]
      BY <3>1, <1>1
    <3> QED BY <3>1, <3>2, <1>1 DEF Of
  <2>3. \A i \in Of(q)' : i \in 1 .. n - 1 /\ i + 1 \in Of(q) /\ channel'[i] = channel[i + 1]
    BY <1>1, <1>t DEF Of
  <2>4. Joined(q) BY <1>i
  <2>5. CASE q = s
    <3>1. 1 \in Of(q) /\ channel[1].from = e.from /\ channel[1].upto = e.upto
      BY <2>5, <1>1, <1>t DEF Of, s
    <3>2. captured[q] = e.from
      <4>1. \A k \in Of(q) : 1 <= k BY <1>t DEF Of
      <4> QED BY <4>1, <3>1, <2>4 DEF Joined
    <3>3. captured'[q] = e.upto
      BY <3>2, <2>1, <2>5, <1>2, <1>d, <1>c
    <3>4. Of(q)' = {} => captured'[q] = reader'[q].from
      <4> SUFFICES ASSUME Of(q)' = {} PROVE captured'[q] = reader'[q].from OBVIOUS
      <4>1. Of(q) = {1} BY <2>2, <3>1
      <4> QED BY <4>1, <2>4, <3>1, <3>3, <2>1 DEF Joined
    <3>5. \A i \in Of(q)' : (\A k \in Of(q)' : i <= k) => channel'[i].from = captured'[q]
      <4> SUFFICES ASSUME NEW i \in Of(q)', \A k \in Of(q)' : i <= k
                   PROVE  channel'[i].from = captured'[q]
        OBVIOUS
      <4>1. \A k \in Of(q) : k <= 1 \/ i + 1 <= k
        <5> SUFFICES ASSUME NEW k \in Of(q) PROVE k <= 1 \/ i + 1 <= k OBVIOUS
        <5>1. CASE k = 1 BY <5>1, <2>3
        <5>2. CASE k # 1
          <6>1. k - 1 \in Of(q)' /\ k \in Nat BY <5>2, <2>2
          <6> QED BY <6>1, <2>3
        <5> QED BY <5>1, <5>2
      <4>2. i + 1 \in Of(q) /\ 1 < i + 1 /\ channel'[i] = channel[i + 1] BY <2>3, <1>t
      <4> QED BY <4>1, <4>2, <3>1, <3>3, <2>4 DEF Joined
    <3>6. \A i \in Of(q)' : (\A k \in Of(q)' : k <= i) => channel'[i].upto = reader'[q].from
      <4> SUFFICES ASSUME NEW i \in Of(q)', \A k \in Of(q)' : k <= i
                   PROVE  channel'[i].upto = reader'[q].from
        OBVIOUS
      <4>1. \A k \in Of(q) : k <= i + 1
        <5> SUFFICES ASSUME NEW k \in Of(q) PROVE k <= i + 1 OBVIOUS
        <5>1. CASE k = 1 BY <5>1, <2>3
        <5>2. CASE k # 1
          <6>1. k - 1 \in Of(q)' /\ k \in Nat BY <5>2, <2>2
          <6> QED BY <6>1, <2>3
        <5> QED BY <5>1, <5>2
      <4> QED BY <4>1, <2>3, <2>1, <2>4 DEF Joined
    <3>7. \A i, j \in Of(q)' :
            i < j /\ (\A k \in Of(q)' : k <= i \/ j <= k) => channel'[j].from = channel'[i].upto
      <4> SUFFICES ASSUME NEW i \in Of(q)', NEW j \in Of(q)', i < j, \A k \in Of(q)' : k <= i \/ j <= k
                   PROVE  channel'[j].from = channel'[i].upto
        OBVIOUS
      <4>1. \A k \in Of(q) : k <= i + 1 \/ j + 1 <= k
        <5> SUFFICES ASSUME NEW k \in Of(q) PROVE k <= i + 1 \/ j + 1 <= k OBVIOUS
        <5>1. CASE k = 1 BY <5>1, <2>3
        <5>2. CASE k # 1
          <6>1. k - 1 \in Of(q)' /\ k \in Nat BY <5>2, <2>2
          <6> QED BY <6>1, <2>3
        <5> QED BY <5>1, <5>2
      <4>2. i + 1 < j + 1 /\ i + 1 \in Of(q) /\ j + 1 \in Of(q) BY <2>3, <1>t
      <4> QED BY <4>1, <4>2, <2>3, <2>4 DEF Joined
    <3> QED BY <3>4, <3>5, <3>6, <3>7 DEF Joined
  <2>6. CASE q # s
    <3>1. 1 \notin Of(q)
      BY <2>6, <1>1 DEF Of, s
    <3>2. captured'[q] = captured[q]
      BY <2>1, <2>6, <1>2, <1>t DEF TypeOK, RunnerTypes
    <3>3. Of(q)' = {} => captured'[q] = reader'[q].from
      BY <3>1, <3>2, <2>1, <2>2, <2>4 DEF Joined
    <3>4. \A i \in Of(q)' : (\A k \in Of(q)' : i <= k) => channel'[i].from = captured'[q]
      <4> SUFFICES ASSUME NEW i \in Of(q)', \A k \in Of(q)' : i <= k
                   PROVE  channel'[i].from = captured'[q]
        OBVIOUS
      <4>1. \A k \in Of(q) : i + 1 <= k
        <5> SUFFICES ASSUME NEW k \in Of(q) PROVE i + 1 <= k OBVIOUS
        <5>1. CASE k = 1 BY <5>1, <2>3, <3>1
        <5>2. CASE k # 1
          <6>1. k - 1 \in Of(q)' /\ k \in Nat BY <5>2, <2>2
          <6> QED BY <6>1, <2>3
        <5> QED BY <5>1, <5>2
      <4> QED BY <4>1, <2>3, <3>2, <2>4 DEF Joined
    <3>5. \A i \in Of(q)' : (\A k \in Of(q)' : k <= i) => channel'[i].upto = reader'[q].from
      <4> SUFFICES ASSUME NEW i \in Of(q)', \A k \in Of(q)' : k <= i
                   PROVE  channel'[i].upto = reader'[q].from
        OBVIOUS
      <4>1. \A k \in Of(q) : k <= i + 1
        <5> SUFFICES ASSUME NEW k \in Of(q) PROVE k <= i + 1 OBVIOUS
        <5>1. CASE k = 1 BY <5>1, <2>3
        <5>2. CASE k # 1
          <6>1. k - 1 \in Of(q)' /\ k \in Nat BY <5>2, <2>2
          <6> QED BY <6>1, <2>3
        <5> QED BY <5>1, <5>2
      <4> QED BY <4>1, <2>3, <2>1, <2>4 DEF Joined
    <3>6. \A i, j \in Of(q)' :
            i < j /\ (\A k \in Of(q)' : k <= i \/ j <= k) => channel'[j].from = channel'[i].upto
      <4> SUFFICES ASSUME NEW i \in Of(q)', NEW j \in Of(q)', i < j, \A k \in Of(q)' : k <= i \/ j <= k
                   PROVE  channel'[j].from = channel'[i].upto
        OBVIOUS
      <4>1. \A k \in Of(q) : k <= i + 1 \/ j + 1 <= k
        <5> SUFFICES ASSUME NEW k \in Of(q) PROVE k <= i + 1 \/ j + 1 <= k OBVIOUS
        <5>1. CASE k = 1 BY <5>1, <2>3, <3>1
        <5>2. CASE k # 1
          <6>1. k - 1 \in Of(q)' /\ k \in Nat BY <5>2, <2>2
          <6> QED BY <6>1, <2>3
        <5> QED BY <5>1, <5>2
      <4>2. i + 1 < j + 1 /\ i + 1 \in Of(q) /\ j + 1 \in Of(q) BY <2>3, <1>t
      <4> QED BY <4>1, <4>2, <2>3, <2>4 DEF Joined
    <3> QED BY <3>3, <3>4, <3>5, <3>6 DEF Joined
  <2> QED BY <2>5, <2>6
<1> QED BY <1>5, <1>6, <1>7, <1>8, <1>9, <1>10, <1>11 DEF RunnerInv

(***************************************************************************)
(* The runner looks at the child and the clock.  When the channel is empty *)
(* and the end of a stream was seen, all of it has been captured.          *)
(***************************************************************************)
LEMMA PollInv ==
    ASSUME RunnerInv, Poll
    PROVE  RunnerInv'
<1>0. /\ UNCHANGED <<input, fed, consumed, helper, written, reader, channel, captured, eof, late>>
      /\ Started /\ ~Returned /\ channel = <<>>
  BY DEF Poll, threads
<1>t. TypeOK BY DEF RunnerInv
<1>1. TypeOK'
  <2>1. ReaderTypes' /\ ChannelTypes'
    BY <1>0, <1>t DEF TypeOK, ReaderTypes, ChannelTypes
  <2>2. ProcessTypes'
    BY <1>0, <1>t DEF TypeOK, ProcessTypes, Poll, Kill
  <2>3. RunnerTypes'
    BY <1>0, <1>t DEF TypeOK, RunnerTypes, Poll, Kill, GraceFor
  <2> QED BY <2>1, <2>2, <2>3 DEF TypeOK
<1>2. child' # "running" \/ child' = child
  BY DEF Poll, Kill
<1>3. Reaped'
  BY <1>0, <1>t DEF RunnerInv, Reaped, Returned, Started, Poll, Kill, Complete, TypeOK, ProcessTypes, RunnerTypes
<1>4. Ranges' /\ CaptureBounded'
  BY <1>0 DEF RunnerInv, Ranges, CaptureBounded
<1>5. \A q \in Streams : Ended(q) => Ended(q)'
  <2>1. Started' BY <1>0 DEF Poll, Kill, Started
  <2> QED BY <2>1, <1>0, <1>2 DEF Ended, InPipe, Holders
<1>i. Endings /\ \A q \in Streams : Joined(q)
  BY <1>0 DEF RunnerInv
<1>6. Endings'
  BY <1>0, <1>5, <1>i, <1>t, ChannelElements DEF Endings, TypeOK
<1>7. \A q \in Streams : Joined(q)'
  BY <1>0, <1>i DEF Joined, Of
<1>8. CompleteOutput'
  <2> SUFFICES ASSUME outcome' = "ok" PROVE captured' = written' /\ Holders' = {} /\ status'
    BY DEF CompleteOutput
  <2>1. eof = Streams /\ status'
    BY <1>0 DEF Poll, Kill, Complete, Returned
  <2>2. ASSUME NEW q \in Streams PROVE captured[q] = written[q] /\ Ended(q)
    <3>1. Ended(q) /\ reader[q].state = "gone"
      BY <2>1, <1>i DEF Endings
    <3>2. Of(q) = {}
      BY <1>0 DEF Of
    <3>3. captured[q] = reader[q].from
      BY <3>2, <1>i DEF Joined
    <3>4. reader[q].from = reader[q].upto
      BY <3>1 DEF RunnerInv, Ranges
    <3> QED BY <3>1, <3>3, <3>4, <1>t DEF Ended, InPipe, TypeOK, ProcessTypes, ReaderTypes
  <2>3. captured = written
    <3>1. captured \in [Streams -> Nat] /\ written \in [Streams -> 0 .. MaxWritten]
      BY <1>t DEF TypeOK, ProcessTypes, RunnerTypes
    <3> QED BY <2>2, <3>1
  <2>4. Holders' = {}
    BY <2>2, <1>5 DEF Ended, Streams
  <2> QED BY <2>1, <2>3, <2>4, <1>0
<1> QED BY <1>1, <1>3, <1>4, <1>6, <1>7, <1>8 DEF RunnerInv

LEMMA NextRunnerInv == RunnerInv /\ [Next]_vars => RunnerInv'
<1> SUFFICES ASSUME RunnerInv, [Next]_vars PROVE RunnerInv' OBVIOUS
<1>1. CASE Start \/ DeadlinePasses \/ GracePasses
  BY <1>1, ClockStepInv DEF ClockStep
<1>2. CASE Receive
  BY <1>2, ReceiveInv
<1>3. CASE Poll
  BY <1>3, PollInv
<1>4. CASE ProcessStep
  BY <1>4, ProcessStepInv
<1>5. ASSUME NEW s \in Streams, Capture(s) PROVE RunnerInv'
  BY <1>5, CaptureInv
<1>6. ASSUME NEW s \in Streams, Send(s) PROVE RunnerInv'
  BY <1>6, SendInv
<1>7. CASE UNCHANGED vars
  <2>1. UNCHANGED <<input, fed, consumed, child, helper, written, reader, channel, captured, eof, status,
                    late, grace, outcome>>
    BY <1>7 DEF vars, process, threads, runner, clock
  <2>2. TypeOK' /\ Reaped' /\ Ranges' /\ CaptureBounded' /\ CompleteOutput'
    BY <2>1 DEF RunnerInv, TypeOK, ProcessTypes, ReaderTypes, ChannelTypes, RunnerTypes, Reaped, Ranges,
       Started, Returned, CaptureBounded, CompleteOutput, Holders
  <2>3. ~Returned' => Endings' /\ \A s \in Streams : Joined(s)'
    BY <2>1 DEF RunnerInv, Returned, Endings, Joined, Of, Ended, InPipe, Holders, Started
  <2> QED BY <2>2, <2>3 DEF RunnerInv
<1> QED BY <1>1, <1>2, <1>3, <1>4, <1>5, <1>6, <1>7 DEF Next, Runner, Threads, Processes, ProcessStep

(* Output that the runner returns is complete: both streams as the child and
   its helpers wrote them, for any pipe, chunk, channel and limit sizes. *)
THEOREM CompleteOutputHolds == Spec => []CompleteOutput
<1>1. Init => RunnerInv BY InitRunnerInv
<1>2. RunnerInv /\ [Next]_vars => RunnerInv' BY NextRunnerInv
<1>3. RunnerInv => CompleteOutput BY DEF RunnerInv
<1> QED BY <1>1, <1>2, <1>3, PTL DEF Spec

(* What the runner keeps stays within its limits and its types. *)
THEOREM RunnerBoundsHold == Spec => [](TypeOK /\ CaptureBounded)
<1>1. Init => RunnerInv BY InitRunnerInv
<1>2. RunnerInv /\ [Next]_vars => RunnerInv' BY NextRunnerInv
<1>3. RunnerInv => TypeOK /\ CaptureBounded BY DEF RunnerInv
<1> QED BY <1>1, <1>2, <1>3, PTL DEF Spec

(* Whatever way the runner ends -- output, exit status, timeout, a limit or
   an error of a pipe -- its child is not running and has been waited for. *)
THEOREM NothingLeftRunningHolds == Spec => []NothingLeftRunning
<1>1. Init => RunnerInv BY InitRunnerInv
<1>2. RunnerInv /\ [Next]_vars => RunnerInv' BY NextRunnerInv
<1>3. RunnerInv => NothingLeftRunning BY DEF RunnerInv, Reaped, NothingLeftRunning
<1> QED BY <1>1, <1>2, <1>3, PTL DEF Spec
=============================================================================
