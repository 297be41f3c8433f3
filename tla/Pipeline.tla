------------------------------ MODULE Pipeline ------------------------------
(***************************************************************************)
(* The n-stage inference pipeline of graph_*_n_pipe.cpp: one thread per    *)
(* sub-graph, frames handed from stage to stage by SenderAccessor and      *)
(* ReceiverAccessor (GraphUtils.cpp), and the gate with which the last     *)
(* stage lets the first one start the next frame (DummyAccessor).          *)
(*                                                                         *)
(* Stage s is the thread of graphs[s]; link l joins stage l to stage l+1   *)
(* and has the index both accessors use (Source_id, Destination_id - 1).   *)
(* The contents of a tensor are the number of the frame it holds, NoFrame  *)
(* before the first one, or Torn when it mixes two frames.                 *)
(***************************************************************************)
EXTENDS Integers, Sequences

CONSTANTS
  NumStages,     \* graphs.size()
  N,             \* common_params.n, the timed runs that follow the warm-up
  SenderCopies,  \* links whose sender is on CL: labels = "transfer"
  Cuts,          \* boundaries next to a '-' layer: no sender and no receiver
  DummyInput,    \* stage 0 reads a DummyAccessor(2): neither image nor '-'
  DummyOutput    \* the last stage writes a DummyAccessor(0,0): no labels

ASSUME PipelineAssumption ==
  /\ NumStages \in Nat \ {0}
  /\ N \in Nat
  /\ SenderCopies \subseteq 0 .. NumStages - 2
  /\ Cuts \subseteq 0 .. NumStages - 2
  /\ DummyInput \in BOOLEAN
  /\ DummyOutput \in BOOLEAN

Stages == 0 .. NumStages - 1
Last == NumStages - 1
Links == (0 .. NumStages - 2) \ Cuts
Frames == N + 1                    \* run() makes one warm-up run, then n

per_frame == NumStages > 1
Gated(s) == s = 0 /\ DummyInput /\ per_frame
Receives(s) == s - 1 \in Links     \* input accessor is a ReceiverAccessor
Sends(s) == s \in Links            \* output accessor is a SenderAccessor

NoFrame == 0
Torn == -1

VARIABLES
  pc,            \* where the thread of each stage stands
  frame,         \* frames whose input the stage has taken
  input,         \* contents of the stage's input tensor (Receivers[s - 1])
  output,        \* contents of its output tensor (Transmitters[s])
  seen,          \* the part already read by a copy or a task in progress
  waiting, ready, queued, buffer,  \* of each link; the queue holds queued
                                   \* pointers, all to the one buffer tensor
  start_frame,
  start,         \* the stamp, told by how many frames its stage had run; 0
                 \* before the first
  latency,       \* samples added to the latency since it was last zeroed
  delivered,     \* frames the last stage has written out, in order
  main           \* the thread in do_run

linkVars == <<waiting, ready, queued, buffer>>
timeVars == <<start, latency>>
vars == <<pc, frame, input, output, seen, linkVars, start_frame, timeVars,
          delivered, main>>

Init ==
  /\ pc = [s \in Stages |-> "launched"]
  /\ frame = [s \in Stages |-> 0]
  /\ input = [s \in Stages |-> NoFrame]
  /\ output = [s \in Stages |-> NoFrame]
  /\ seen = [s \in Stages |-> NoFrame]
  /\ waiting = [l \in Links |-> TRUE]
  /\ ready = [l \in Links |-> FALSE]
  /\ queued = [l \in Links |-> 0]
  /\ buffer = [l \in Links |-> NoFrame]
  /\ start_frame = TRUE
  /\ start = 0
  /\ latency = 0
  /\ delivered = <<>>
  /\ main = "joining"

Goto(s, place) == pc' = [pc EXCEPT ![s] = place]

\* What a reader gets whose first part came from old and the rest from new.
Read(old, new) == IF old = new THEN new ELSE Torn

(***************************************************************************)
(* The thread starts: run() zeroes the shared latency.                     *)
(***************************************************************************)
Launch(s) ==
  /\ pc[s] = "launched"
  /\ latency' = 0
  /\ Goto(s, "input")
  /\ UNCHANGED <<frame, input, output, seen, linkVars, start_frame, start,
                 delivered, main>>

(***************************************************************************)
(* Input accessors.  A thread that finds its condition false sleeps with   *)
(* the mutex released in the same step; a notified thread, or one woken    *)
(* spuriously, evaluates the condition again.                              *)
(***************************************************************************)
TakeInput(s, place) ==
  /\ frame' = [frame EXCEPT ![s] = @ + 1]
  /\ Goto(s, place)

\* An image, or what a stage after a cut finds in its tensor: never waits.
ReadFreely(s) ==
  /\ pc[s] = "input" /\ ~Gated(s) /\ ~Receives(s)
  /\ TakeInput(s, "tasks")
  /\ input' = IF s = 0 THEN [input EXCEPT ![s] = frame[s] + 1] ELSE input
  /\ UNCHANGED <<output, seen, linkVars, start_frame, timeVars, delivered,
                 main>>

LeaveGateOpen == start_frame' = start_frame               \* a mutant
CloseGate == start_frame' = FALSE

PassGate(s) ==
  /\ pc[s] \in {"input", "woken"} /\ Gated(s) /\ start_frame
  /\ CloseGate
  /\ TakeInput(s, "tasks")
  /\ input' = [input EXCEPT ![s] = frame[s] + 1]
  /\ UNCHANGED <<output, seen, linkVars, timeVars, delivered, main>>

WaitAtGate(s) ==
  /\ pc[s] \in {"input", "woken"} /\ Gated(s) /\ ~start_frame
  /\ Goto(s, "asleep")
  /\ UNCHANGED <<frame, input, output, seen, linkVars, start_frame, timeVars,
                 delivered, main>>

PopUnchecked(l) == TRUE                                   \* a mutant
CanPop(l) == queued[l] > 0

\* The queue is looked at first, and only on arrival.
ReceiveQueued(s) ==
  LET l == s - 1 IN
  /\ pc[s] = "input" /\ Receives(s)
  /\ CanPop(l)
  /\ queued' = [queued EXCEPT ![l] = @ - 1]
  /\ input' = [input EXCEPT ![s] = buffer[l]]
  /\ TakeInput(s, "tasks")
  /\ UNCHANGED <<output, seen, waiting, ready, buffer, start_frame, timeVars,
                 delivered, main>>

KeepReady(l) ==                                           \* a mutant
  waiting' = [waiting EXCEPT ![l] = FALSE] /\ UNCHANGED ready
KeepWaiting(l) ==                                         \* a mutant
  ready' = [ready EXCEPT ![l] = FALSE] /\ UNCHANGED waiting
TakeReady(l) ==
  /\ ready' = [ready EXCEPT ![l] = FALSE]
  /\ waiting' = [waiting EXCEPT ![l] = FALSE]

NoneCopies(l) == "tasks"                                  \* a mutant
WrongSideCopies(l) ==                                     \* a mutant
  IF l \in SenderCopies THEN "copy" ELSE "tasks"
AfterHandOff(l) == IF l \in SenderCopies THEN "tasks" ELSE "copy"

AtWait(s) == Receives(s) /\ \/ pc[s] = "woken"
                            \/ pc[s] = "input" /\ queued[s - 1] = 0

ReceiveDirect(s) ==
  LET l == s - 1 IN
  /\ AtWait(s)
  /\ ready[l]
  /\ TakeReady(l)
  /\ TakeInput(s, AfterHandOff(l))
  /\ UNCHANGED <<input, output, seen, queued, buffer, start_frame, timeVars,
                 delivered, main>>

WaitForSender(s) ==
  LET l == s - 1 IN
  /\ AtWait(s)
  /\ ~ready[l]
  /\ waiting' = [waiting EXCEPT ![l] = TRUE]
  /\ Goto(s, "asleep")
  /\ UNCHANGED <<frame, input, output, seen, ready, queued, buffer,
                 start_frame, timeVars, delivered, main>>

WakeSpuriously(s) ==
  /\ pc[s] = "asleep"
  /\ Goto(s, "woken")
  /\ UNCHANGED <<frame, input, output, seen, linkVars, start_frame, timeVars,
                 delivered, main>>

\* The copy from the sender's tensor, made after the mutex is released.
BeginCopy(s) ==
  /\ pc[s] = "copy"
  /\ seen' = [seen EXCEPT ![s] = output[s - 1]]
  /\ Goto(s, "copying")
  /\ UNCHANGED <<frame, input, output, linkVars, start_frame, timeVars,
                 delivered, main>>

EndCopy(s) ==
  /\ pc[s] = "copying"
  /\ input' = [input EXCEPT ![s] = Read(seen[s], output[s - 1])]
  /\ Goto(s, "tasks")
  /\ UNCHANGED <<frame, output, seen, linkVars, start_frame, timeVars,
                 delivered, main>>

(***************************************************************************)
(* The tasks of the sub-graph: from the first to the last, the input is    *)
(* being read and the output being written.                                *)
(***************************************************************************)
BeginTasks(s) ==
  /\ pc[s] = "tasks"
  /\ seen' = [seen EXCEPT ![s] = input[s]]
  /\ output' = [output EXCEPT ![s] = Torn]
  /\ Goto(s, "running")
  /\ UNCHANGED <<frame, input, linkVars, start_frame, timeVars, delivered,
                 main>>

EndTasks(s) ==
  /\ pc[s] = "running"
  /\ output' = [output EXCEPT ![s] = Read(seen[s], input[s])]
  /\ Goto(s, "output")
  /\ UNCHANGED <<frame, input, seen, linkVars, start_frame, timeVars,
                 delivered, main>>

(***************************************************************************)
(* Output accessors.                                                       *)
(***************************************************************************)
PushStale(s) ==                                           \* a mutant
  queued' = [queued EXCEPT ![s] = @ + 1] /\ UNCHANGED buffer
Push(s) ==
  /\ buffer' = [buffer EXCEPT ![s] = output[s]]
  /\ queued' = [queued EXCEPT ![s] = @ + 1]

SendQueued(s) ==
  /\ pc[s] = "output" /\ Sends(s)
  /\ ~waiting[s] \/ ready[s]
  /\ Push(s)
  /\ Goto(s, "ran")
  /\ UNCHANGED <<frame, input, output, seen, waiting, ready, start_frame,
                 timeVars, delivered, main>>

NotNotified(place) == place                               \* a mutant
Notified(place) == IF place = "asleep" THEN "woken" ELSE place

\* Stage s has run and has notified stage t.
RanAndNotified(s, t) ==
  pc' = [pc EXCEPT ![s] = "ran", ![t] = IF t = s THEN "ran" ELSE Notified(@)]

CopyDirectIfReceiverCopies(s) ==                          \* a mutant
  input' = IF s \notin SenderCopies
           THEN [input EXCEPT ![s + 1] = output[s]] ELSE input
CopyDirect(s) ==
  input' = IF s \in SenderCopies
           THEN [input EXCEPT ![s + 1] = output[s]] ELSE input

SendDirect(s) ==
  /\ pc[s] = "output" /\ Sends(s)
  /\ waiting[s] /\ ~ready[s]
  /\ CopyDirect(s)
  /\ ready' = [ready EXCEPT ![s] = TRUE]
  /\ RanAndNotified(s, s + 1)
  /\ UNCHANGED <<frame, output, seen, waiting, queued, buffer, start_frame,
                 timeVars, delivered, main>>

OpenUnnoticed(s) == start_frame' = TRUE /\ Goto(s, "ran")   \* a mutant

\* DummyAccessor(0,0): releases the gate, at which only stage 0 can sleep.
OpenGate(s) ==
  /\ start_frame' = TRUE
  /\ IF Gated(0) THEN RanAndNotified(s, 0) ELSE Goto(s, "ran")

WriteToCut(s) ==
  /\ pc[s] = "output" /\ s \in Cuts
  /\ OpenGate(s)
  /\ UNCHANGED <<frame, input, output, seen, linkVars, timeVars, delivered,
                 main>>

Deliver(s) ==
  /\ pc[s] = "output" /\ s = Last
  /\ delivered' = Append(delivered, output[s])
  /\ IF DummyOutput /\ per_frame
     THEN OpenGate(s)
     ELSE Goto(s, "ran") /\ UNCHANGED start_frame
  /\ UNCHANGED <<frame, input, output, seen, linkVars, timeVars, main>>

(***************************************************************************)
(* Between two runs of a graph (layer_time on): after the warm-up stage 0  *)
(* stamps the start of the measurement; after every later frame the last   *)
(* stage adds a sample, the time since the stamp, and takes a stamp of its *)
(* own.  Nothing keeps the other thread's write from coming in between.    *)
(***************************************************************************)
StampsLate(s) == s = 0 /\ frame[s] = 2                    \* a mutant
StampsStart(s) == s = 0 /\ frame[s] = 1

SamplesWarmUp(s) == s = Last                              \* a mutant
Samples(s) == s = Last /\ frame[s] > 1

Sample(s) ==
  /\ pc[s] = "ran" /\ Samples(s)
  /\ latency' = latency + 1
  /\ Goto(s, "sampled")
  /\ UNCHANGED <<frame, input, output, seen, linkVars, start_frame, start,
                 delivered, main>>

StampsOnlyStart(s) == StampsStart(s)                      \* a mutant
Stamps(s) == StampsStart(s) \/ pc[s] = "sampled"

EndRun(s) ==
  /\ pc[s] = "sampled" \/ (pc[s] = "ran" /\ ~Samples(s))
  /\ start' = IF Stamps(s) THEN frame[s] ELSE start
  /\ Goto(s, IF frame[s] = Frames THEN "done" ELSE "input")
  /\ UNCHANGED <<frame, input, output, seen, linkVars, start_frame, latency,
                 delivered, main>>

\* do_run joins every stage, reports and frees the links.
Report ==
  /\ main = "joining"
  /\ \A s \in Stages : pc[s] = "done"
  /\ main' = "reported"
  /\ UNCHANGED <<pc, frame, input, output, seen, linkVars, start_frame,
                 timeVars, delivered>>

Terminated == main = "reported" /\ UNCHANGED vars

StageStep(s) ==
  \/ Launch(s)
  \/ ReadFreely(s) \/ PassGate(s) \/ WaitAtGate(s)
  \/ ReceiveQueued(s) \/ ReceiveDirect(s) \/ WaitForSender(s)
  \/ BeginCopy(s) \/ EndCopy(s) \/ BeginTasks(s) \/ EndTasks(s)
  \/ SendQueued(s) \/ SendDirect(s) \/ WriteToCut(s) \/ Deliver(s)
  \/ Sample(s) \/ EndRun(s)

Next ==
  \/ \E s \in Stages : StageStep(s) \/ WakeSpuriously(s)
  \/ Report
  \/ Terminated

Spec == Init /\ [][Next]_vars

\* Every thread is scheduled by the OS; no spurious wakeup is promised.
Fairness ==
  /\ \A s \in Stages : WF_vars(StageStep(s))
  /\ WF_vars(Report)

FairSpec == Spec /\ Fairness

-----------------------------------------------------------------------------
(***************************************************************************)
(* Properties.                                                             *)
(***************************************************************************)
Place == {"launched", "input", "asleep", "woken", "copy", "copying", "tasks",
          "running", "output", "ran", "sampled", "done"}
Content == Nat \cup {Torn}

\* Every variable holds a value of the kind the program gives it.
TypeOK ==
  /\ pc \in [Stages -> Place]
  /\ frame \in [Stages -> Nat]
  /\ input \in [Stages -> Content]
  /\ output \in [Stages -> Content]
  /\ seen \in [Stages -> Content]
  /\ waiting \in [Links -> BOOLEAN]
  /\ ready \in [Links -> BOOLEAN]
  /\ queued \in [Links -> Nat]
  /\ buffer \in [Links -> Content]
  /\ start_frame \in BOOLEAN
  /\ start \in Nat
  /\ latency \in Nat
  /\ delivered \in Seq(Content)
  /\ main \in {"joining", "reported"}

Busy == {"copy", "copying", "tasks", "running", "output"}

\* Frames the stage has handed to its output accessor.
Finished(s) == IF pc[s] \in Busy THEN frame[s] - 1 ELSE frame[s]

\* A hand-off is neither lost nor invented: what the sender has sent is what
\* the receiver has taken, plus what is queued, plus the direct hand-off in
\* ready (SenderAccessor and ReceiverAccessor update these four separately).
FramesConserved ==
  \A l \in Links :
    Finished(l) = frame[l + 1] + queued[l] + (IF ready[l] THEN 1 ELSE 0)

\* Whenever the sender's test lets it write straight into the receiver's
\* tensor, the receiver is at, or has never passed, its wait: no copy or task
\* of the receiving stage is reading that tensor.
DirectWriteExclusive ==
  \A l \in Links :
    waiting[l] /\ ~ready[l] =>
      \/ pc[l + 1] \in {"asleep", "woken"}
      \/ pc[l + 1] \in {"launched", "input"} /\ frame[l + 1] = 0

\* On every link before stage s the sender's sub-graph is on CL, so that the
\* sender makes the copy, under the mutex.
SenderCopiesBefore(s) == \A l \in Links : l < s => l \in SenderCopies

\* Such a stage never works on, or hands on, a mixture of two frames.
SenderCopiesNeverTear ==
  \A s \in Stages : SenderCopiesBefore(s) =>
    input[s] # Torn /\ (pc[s] = "output" => output[s] # Torn)

\* Frames may be lost or repeated when nothing throttles stage 0, but such a
\* stage is never given an older frame than the one it has.
NeverBackwards ==
  [][\A s \in Stages : SenderCopiesBefore(s) => input'[s] >= input[s]]_vars

\* Even then the newest frame gets through: the last result the last stage
\* writes is that of the last frame.
LastFrameArrives ==
  Cuts = {} /\ main = "reported" => delivered[Len(delivered)] = Frames

\* The first sample is measured from stage 0's stamp and every later one from
\* the last stage's own after the frame before, although two threads write
\* start with no synchronisation: the samples neither overlap nor leave a gap.
MeasuredFromStart ==
  [][Cuts = {} /\ latency' > latency => start = frame[Last] - 1]_vars

\* No thread that starts late zeroes samples already added to the latency.
LatencyComplete ==
  Cuts = {} /\ main = "reported" => latency = N

\* With the gate, every frame comes out of the last stage once and in order.
InOrder ==
  Gated(0) /\ Cuts = {} => \A i \in 1 .. Len(delivered) : delivered[i] = i

\* The gate at both ends of an uncut pipeline makes it the abstract one.
Abstract == INSTANCE Lockstep WITH issued <- frame[0]

\* It takes a frame only when the last one is out, and loses none.
ImplementsLockstep == Abstract!Spec

\* Every image the first stage reads has its result among those written.
EveryImageHasResult ==
  main = "reported" =>
    \A f \in 1 .. Frames : \E i \in 1 .. Len(delivered) : delivered[i] = f

\* Every stage makes all its runs and do_run reports.
Completes == <>(main = "reported")
=============================================================================
