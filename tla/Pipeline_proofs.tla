--------------------------- MODULE Pipeline_proofs ---------------------------
(***************************************************************************)
(* Proofs about Pipeline for every number of stages, frames and cuts.      *)
(***************************************************************************)
EXTENDS Pipeline, TLAPS

\* The receiver of a link is a stage, and so is its sender.
LEMMA LinkEnds == \A l \in Links : l \in Stages /\ l + 1 \in Stages /\ l \in Int
BY PipelineAssumption DEF Links, Stages, PipelineAssumption

\* Only a stage whose receiver makes the copy ever copies.
CopiersReceive ==
  \A s \in Stages :
    pc[s] \in {"copy", "copying"} => Receives(s) /\ s - 1 \notin SenderCopies

TypeInv == TypeOK /\ CopiersReceive

LEMMA TypeInvInit == Init => TypeInv
<1> SUFFICES ASSUME Init PROVE TypeInv
  OBVIOUS
<1>1. pc \in [Stages -> Place]
  BY DEF Init, Place
<1>2. NoFrame \in Content
  BY DEF NoFrame, Content
<1>3. CopiersReceive
  BY DEF Init, CopiersReceive
<1>4. frame \in [Stages -> Nat] /\ queued \in [Links -> Nat] /\ latency \in Nat
  BY DEF Init
<1>5. delivered \in Seq(Content)
  BY DEF Init
<1>6. QED
  BY <1>1, <1>2, <1>3, <1>4, <1>5 DEF Init, TypeInv, TypeOK

LEMMA TypeInvStep == TypeInv /\ [Next]_vars => TypeInv'
<1> SUFFICES ASSUME TypeInv, [Next]_vars
             PROVE  TypeInv'
  OBVIOUS
<1> USE LinkEnds DEF TypeInv, TypeOK, CopiersReceive, Place, Goto, TakeInput,
        CloseGate, CanPop, TakeReady, AfterHandOff, Push, Notified, CopyDirect,
        StampsStart, Samples, Receives, linkVars, timeVars
<1>0. /\ \A n \in Nat : n \in Content /\ n + 1 \in Content
      /\ Torn \in Content
      /\ Stages \subseteq Int
      /\ 0 \in Stages
  BY PipelineAssumption DEF Content, Torn, Stages, PipelineAssumption
<1>00. ASSUME NEW s \in Stages, NEW place \in Place, TakeInput(s, place)
      PROVE  pc' \in [Stages -> Place] /\ frame' \in [Stages -> Nat]
  BY <1>00
<1>01. ASSUME NEW s \in Stages, NEW t \in Stages, RanAndNotified(s, t)
       PROVE  pc' \in [Stages -> Place]
  BY <1>01 DEF RanAndNotified
<1>02. ASSUME NEW s \in Stages, OpenGate(s)
       PROVE  pc' \in [Stages -> Place] /\ start_frame' \in BOOLEAN
  BY <1>0, <1>01, <1>02 DEF OpenGate
<1>1. ASSUME NEW s \in Stages, Launch(s) PROVE TypeInv'
  BY <1>1 DEF Launch
<1>2. ASSUME NEW s \in Stages, ReadFreely(s) PROVE TypeInv'
  <2>1. frame[s] + 1 \in Content
    BY <1>0
  <2>2. input' \in [Stages -> Content]
    BY <1>2, <2>1 DEF ReadFreely
  <2>3. pc' \in [Stages -> Place] /\ frame' \in [Stages -> Nat]
    BY <1>00, <1>2 DEF ReadFreely
  <2>4. QED
    BY <1>2, <2>2, <2>3 DEF ReadFreely
<1>3. ASSUME NEW s \in Stages, PassGate(s) PROVE TypeInv'
  <2>1. frame[s] + 1 \in Content
    BY <1>0
  <2>2. input' \in [Stages -> Content]
    BY <1>3, <2>1 DEF PassGate
  <2>3. pc' \in [Stages -> Place] /\ frame' \in [Stages -> Nat]
    BY <1>00, <1>3 DEF PassGate
  <2>4. QED
    BY <1>3, <2>2, <2>3 DEF PassGate
<1>4. ASSUME NEW s \in Stages, WaitAtGate(s) PROVE TypeInv'
  BY <1>4 DEF WaitAtGate
<1>5. ASSUME NEW s \in Stages, ReceiveQueued(s) PROVE TypeInv'
  <2>1. s - 1 \in Links /\ queued[s - 1] - 1 \in Nat
    BY <1>5 DEF ReceiveQueued
  <2>2. queued' \in [Links -> Nat] /\ input' \in [Stages -> Content]
    BY <1>5, <2>1 DEF ReceiveQueued
  <2>3. pc' \in [Stages -> Place] /\ frame' \in [Stages -> Nat]
    BY <1>00, <1>5 DEF ReceiveQueued
  <2>4. QED
    BY <1>5, <2>2, <2>3 DEF ReceiveQueued
<1>6. ASSUME NEW s \in Stages, ReceiveDirect(s) PROVE TypeInv'
  <2>1. pc' \in [Stages -> Place] /\ frame' \in [Stages -> Nat]
    BY <1>00, <1>6 DEF ReceiveDirect
  <2>2. QED
    BY <1>6, <2>1 DEF ReceiveDirect, AtWait
<1>7. ASSUME NEW s \in Stages, WaitForSender(s) PROVE TypeInv'
  BY <1>0, <1>7 DEF WaitForSender, AtWait
<1>8. ASSUME NEW s \in Stages, WakeSpuriously(s) PROVE TypeInv'
  BY <1>8 DEF WakeSpuriously
<1>9. ASSUME NEW s \in Stages, BeginCopy(s) PROVE TypeInv'
  BY <1>0, <1>9 DEF BeginCopy
<1>10. ASSUME NEW s \in Stages, EndCopy(s) PROVE TypeInv'
  BY <1>0, <1>10 DEF EndCopy, Read
<1>11. ASSUME NEW s \in Stages, BeginTasks(s) PROVE TypeInv'
  BY <1>0, <1>11 DEF BeginTasks
<1>12. ASSUME NEW s \in Stages, EndTasks(s) PROVE TypeInv'
  BY <1>0, <1>12 DEF EndTasks, Read
<1>13. ASSUME NEW s \in Stages, SendQueued(s) PROVE TypeInv'
  <2>1. queued[s] + 1 \in Nat
    BY <1>13 DEF SendQueued, Sends
  <2>2. queued' \in [Links -> Nat] /\ buffer' \in [Links -> Content]
    BY <1>13, <2>1 DEF SendQueued, Sends
  <2>3. QED
    BY <1>13, <2>2 DEF SendQueued
<1>14. ASSUME NEW s \in Stages, SendDirect(s) PROVE TypeInv'
  BY <1>0, <1>14 DEF SendDirect, RanAndNotified, Sends
<1>15. ASSUME NEW s \in Stages, WriteToCut(s) PROVE TypeInv'
  <2>1. CopiersReceive'
    BY <1>0, <1>15 DEF WriteToCut, OpenGate, RanAndNotified
  <2>2. QED
    BY <1>02, <1>15, <2>1 DEF WriteToCut
<1>16. ASSUME NEW s \in Stages, Deliver(s) PROVE TypeInv'
  <2>1. CopiersReceive'
    BY <1>0, <1>16 DEF Deliver, OpenGate, RanAndNotified
  <2>2. delivered' \in Seq(Content)
    BY <1>16 DEF Deliver
  <2>3. pc' \in [Stages -> Place] /\ start_frame' \in BOOLEAN
    BY <1>02, <1>16 DEF Deliver
  <2>4. QED
    BY <1>16, <2>1, <2>2, <2>3 DEF Deliver
<1>17. ASSUME NEW s \in Stages, Sample(s) \/ EndRun(s) PROVE TypeInv'
  <2>1. pc' \in [Stages -> Place] /\ CopiersReceive'
    BY <1>17 DEF Sample, EndRun
  <2>2. start' \in Nat /\ latency' \in Nat
    BY <1>17 DEF Sample, EndRun, Stamps
  <2>3. QED
    BY <1>17, <2>1, <2>2 DEF Sample, EndRun
<1>18. CASE Report
  BY <1>18 DEF Report
<1>19. CASE UNCHANGED vars
  BY <1>19 DEF vars
<1>20. QED
  BY <1>1, <1>2, <1>3, <1>4, <1>5, <1>6, <1>7, <1>8, <1>9, <1>10, <1>11,
     <1>12, <1>13, <1>14, <1>15, <1>16, <1>17, <1>18, <1>19
     DEF Next, StageStep, Terminated

\* Type correctness: no step of any stage leaves the types of the variables.
THEOREM TypeCorrect == Spec => []TypeOK
<1>1. Spec => []TypeInv
  BY TypeInvInit, TypeInvStep, PTL DEF Spec
<1>2. TypeInv => TypeOK
  BY DEF TypeInv
<1>3. QED
  BY <1>1, <1>2, PTL

\* The inductive invariant of a link: a direct hand-off is pending only while
\* the receiver is marked waiting; a receiver marked waiting with no hand-off
\* pending has an empty queue and is at its wait or has not reached it yet.
LinkInv(l) ==
  /\ ready[l] => waiting[l]
  /\ waiting[l] /\ ~ready[l] =>
       /\ queued[l] = 0
       /\ \/ pc[l + 1] \in {"asleep", "woken"}
          \/ pc[l + 1] \in {"launched", "input"} /\ frame[l + 1] = 0
  /\ pc[l + 1] \in {"asleep", "woken"} => waiting[l]
  /\ pc[l + 1] = "asleep" => ~ready[l]
  /\ Finished(l) = frame[l + 1] + queued[l] + (IF ready[l] THEN 1 ELSE 0)

LinksInv == \A l \in Links : LinkInv(l)

LEMMA LinksInvInit == Init => LinksInv
BY LinkEnds DEF Init, LinksInv, LinkInv, Finished, Busy

LEMMA LinksInvStep == TypeInv /\ LinksInv /\ [Next]_vars => LinksInv'
<1> SUFFICES ASSUME TypeInv, LinksInv, [Next]_vars, NEW l \in Links
             PROVE  LinkInv(l)'
  BY DEF LinksInv
<1> USE DEF Goto, TakeInput, CloseGate, CanPop, TakeReady, AfterHandOff, Push,
        Notified, CopyDirect, StampsStart, Samples, linkVars, Finished, Busy
<1>0. /\ l \in Stages /\ l + 1 \in Stages /\ l \in Int /\ l + 1 # l
      /\ \A s \in Stages : s \in Int /\ (s - 1 = l <=> s = l + 1)
      /\ l + 1 # 0 /\ l # Last /\ 0 \in Stages
  BY LinkEnds, PipelineAssumption DEF Stages, Links, Last, PipelineAssumption
<1>00. LinkInv(l)
  BY DEF LinksInv
<1>000. /\ pc \in [Stages -> Place] /\ frame \in [Stages -> Nat]
        /\ waiting \in [Links -> BOOLEAN] /\ ready \in [Links -> BOOLEAN]
        /\ queued \in [Links -> Nat] /\ CopiersReceive
  BY DEF TypeInv, TypeOK
<1>1. ASSUME NEW s \in Stages, Launch(s) PROVE LinkInv(l)'
  BY <1>0, <1>00, <1>000, <1>1 DEF LinkInv, Launch
<1>2. ASSUME NEW s \in Stages, ReadFreely(s) PROVE LinkInv(l)'
  BY <1>0, <1>00, <1>000, <1>2 DEF LinkInv, ReadFreely, Gated, Receives
<1>3. ASSUME NEW s \in Stages, PassGate(s) PROVE LinkInv(l)'
  BY <1>0, <1>00, <1>000, <1>3 DEF LinkInv, PassGate, Gated
<1>4. ASSUME NEW s \in Stages, WaitAtGate(s) PROVE LinkInv(l)'
  BY <1>0, <1>00, <1>000, <1>4 DEF LinkInv, WaitAtGate, Gated
<1>5. ASSUME NEW s \in Stages, ReceiveQueued(s) PROVE LinkInv(l)'
  <2>1. CASE s = l + 1
    BY <1>0, <1>00, <1>000, <1>5, <2>1 DEF LinkInv, ReceiveQueued
  <2>2. CASE s # l + 1
    BY <1>0, <1>00, <1>000, <1>5, <2>2 DEF LinkInv, ReceiveQueued
  <2>3. QED
    BY <2>1, <2>2
<1>6. ASSUME NEW s \in Stages, ReceiveDirect(s) PROVE LinkInv(l)'
  BY <1>0, <1>00, <1>000, <1>6 DEF LinkInv, ReceiveDirect, AtWait, Receives
<1>7. ASSUME NEW s \in Stages, WaitForSender(s) PROVE LinkInv(l)'
  BY <1>0, <1>00, <1>000, <1>7 DEF LinkInv, WaitForSender, AtWait, Receives
<1>8. ASSUME NEW s \in Stages, WakeSpuriously(s) PROVE LinkInv(l)'
  BY <1>0, <1>00, <1>000, <1>8 DEF LinkInv, WakeSpuriously
<1>9. ASSUME NEW s \in Stages, BeginCopy(s) PROVE LinkInv(l)'
  BY <1>0, <1>00, <1>000, <1>9 DEF LinkInv, BeginCopy
<1>10. ASSUME NEW s \in Stages, EndCopy(s) PROVE LinkInv(l)'
  BY <1>0, <1>00, <1>000, <1>10 DEF LinkInv, EndCopy
<1>11. ASSUME NEW s \in Stages, BeginTasks(s) PROVE LinkInv(l)'
  BY <1>0, <1>00, <1>000, <1>11 DEF LinkInv, BeginTasks
<1>12. ASSUME NEW s \in Stages, EndTasks(s) PROVE LinkInv(l)'
  BY <1>0, <1>00, <1>000, <1>12 DEF LinkInv, EndTasks
<1>13. ASSUME NEW s \in Stages, SendQueued(s) PROVE LinkInv(l)'
  BY <1>0, <1>00, <1>000, <1>13 DEF LinkInv, SendQueued, Sends
<1>14. ASSUME NEW s \in Stages, SendDirect(s) PROVE LinkInv(l)'
  BY <1>0, <1>00, <1>000, <1>14 DEF LinkInv, SendDirect, RanAndNotified, Sends
<1>15. ASSUME NEW s \in Stages, WriteToCut(s) PROVE LinkInv(l)'
  BY <1>0, <1>00, <1>000, <1>15
     DEF LinkInv, WriteToCut, OpenGate, RanAndNotified, Links, Gated
<1>16. ASSUME NEW s \in Stages, Deliver(s) PROVE LinkInv(l)'
  <2>1. s # l /\ pc[s] = "output" /\ frame' = frame
    BY <1>0, <1>16 DEF Deliver
  <2>2. pc' = [pc EXCEPT ![s] = "ran"] \/ RanAndNotified(s, 0)
    BY <1>16 DEF Deliver, OpenGate
  <2>3. pc'[l] = pc[l] \/ (pc[l] = "asleep" /\ pc'[l] = "woken")
    BY <1>0, <1>000, <2>1, <2>2 DEF RanAndNotified
  <2>4. pc'[l + 1] = IF l + 1 = s THEN "ran" ELSE pc[l + 1]
    BY <1>0, <1>000, <2>1, <2>2 DEF RanAndNotified
  <2>5. QED
    BY <1>0, <1>00, <1>000, <1>16, <2>1, <2>3, <2>4 DEF LinkInv, Deliver
<1>17. ASSUME NEW s \in Stages, Sample(s) \/ EndRun(s) PROVE LinkInv(l)'
  BY <1>0, <1>00, <1>000, <1>17 DEF LinkInv, Sample, EndRun
<1>18. CASE Report
  BY <1>00, <1>18 DEF Report, LinkInv
<1>19. CASE UNCHANGED vars
  BY <1>00, <1>19 DEF vars, LinkInv
<1>20. QED
  BY <1>1, <1>2, <1>3, <1>4, <1>5, <1>6, <1>7, <1>8, <1>9, <1>10, <1>11,
     <1>12, <1>13, <1>14, <1>15, <1>16, <1>17, <1>18, <1>19
     DEF Next, StageStep, Terminated

\* Every state of every pipeline satisfies both invariants.
LEMMA Invariant == Spec => [](TypeInv /\ LinksInv)
<1>1. Init => TypeInv /\ LinksInv
  BY TypeInvInit, LinksInvInit
<1>2. TypeInv /\ LinksInv /\ [Next]_vars => (TypeInv /\ LinksInv)'
  BY TypeInvStep, LinksInvStep
<1>3. QED
  BY <1>1, <1>2, PTL DEF Spec

\* No hand-off between two stages is lost or duplicated, whatever the cuts,
\* the gate and the side that copies.
THEOREM HandOffsConserved == Spec => []FramesConserved
<1>1. LinksInv => FramesConserved
  BY DEF LinksInv, LinkInv, FramesConserved
<1>2. QED
  BY <1>1, Invariant, PTL

\* The sender never writes the receiver's tensor while the receiver uses it.
THEOREM DirectWritesExclusive == Spec => []DirectWriteExclusive
<1>1. LinksInv => DirectWriteExclusive
  BY DEF LinksInv, LinkInv, DirectWriteExclusive
<1>2. QED
  BY <1>1, Invariant, PTL

\* What flows through a stage whose every upstream link is copied by its
\* sender, and over a link between two such stages: whole frames, none older
\* than the one already downstream.  The first conjunct holds everywhere: the
\* input of a stage does not change while its tasks run.
FlowStage(s) ==
  /\ pc[s] = "running" => seen[s] = input[s]
  /\ SenderCopiesBefore(s) =>
       /\ input[s] \in Nat
       /\ pc[s] = "output" => output[s] = input[s]
       /\ s = 0 => input[s] = frame[s]

FlowLink(l) ==
  SenderCopiesBefore(l + 1) =>
    /\ buffer[l] \in Nat
    /\ input[l + 1] <= input[l] /\ buffer[l] <= input[l]
    /\ queued[l] > 0 => input[l + 1] <= buffer[l]

FlowInv ==
  /\ \A s \in Stages : FlowStage(s)
  /\ \A l \in Links : FlowLink(l)

LEMMA FlowInvInit == Init => FlowInv
BY LinkEnds DEF Init, FlowInv, FlowStage, FlowLink, NoFrame

LEMMA FlowInvStep ==
  TypeInv /\ LinksInv /\ FlowInv /\ [Next]_vars => FlowInv'
<1> SUFFICES ASSUME TypeInv, LinksInv, FlowInv, [Next]_vars
             PROVE  FlowInv'
  OBVIOUS
<1> USE DEF Goto, TakeInput, CloseGate, CanPop, TakeReady, AfterHandOff, Push,
        Notified, CopyDirect, StampsStart, Samples, linkVars, FlowInv
<1>0. /\ pc \in [Stages -> Place] /\ frame \in [Stages -> Nat]
      /\ input \in [Stages -> Content] /\ output \in [Stages -> Content]
      /\ seen \in [Stages -> Content]
      /\ waiting \in [Links -> BOOLEAN] /\ ready \in [Links -> BOOLEAN]
      /\ queued \in [Links -> Nat] /\ buffer \in [Links -> Content]
      /\ CopiersReceive
  BY DEF TypeInv, TypeOK
<1>a. /\ \A l \in Links :
           /\ l \in Stages /\ l + 1 \in Stages /\ l # l + 1 /\ l + 1 # 0
           /\ SenderCopiesBefore(l + 1)
                => l \in SenderCopies /\ SenderCopiesBefore(l)
      /\ \A s \in Stages : s \in Int /\ s = (s - 1) + 1 /\ (s + 1) - 1 = s
      /\ 0 \in Stages /\ -1 \notin Links
  BY LinkEnds, PipelineAssumption
     DEF SenderCopiesBefore, Stages, Links, PipelineAssumption
\* The steps that move no frame.
<1>b. ASSUME UNCHANGED <<input, output, seen, queued, buffer>>,
             frame'[0] = frame[0],
             \A t \in Stages : pc'[t] \in {"running", "output"} => pc'[t] = pc[t]
      PROVE  FlowInv'
  BY <1>b, <1>a DEF FlowStage, FlowLink, SenderCopiesBefore
<1>1. ASSUME NEW s \in Stages, Launch(s) PROVE FlowInv'
  BY <1>0, <1>a, <1>b, <1>1 DEF Launch
<1>2. ASSUME NEW s \in Stages, ReadFreely(s) PROVE FlowInv'
  <2>1. ASSUME NEW t \in Stages PROVE FlowStage(t)'
    BY <1>0, <1>a, <1>2
       DEF FlowStage, FlowLink, SenderCopiesBefore, ReadFreely, Receives
  <2>2. ASSUME NEW l \in Links PROVE FlowLink(l)'
    BY <1>0, <1>a, <1>2
       DEF FlowStage, FlowLink, SenderCopiesBefore, ReadFreely, Receives
  <2>3. QED
    BY <2>1, <2>2
<1>3. ASSUME NEW s \in Stages, PassGate(s) PROVE FlowInv'
  <2>1. ASSUME NEW t \in Stages PROVE FlowStage(t)'
    BY <1>0, <1>a, <1>3
       DEF FlowStage, FlowLink, SenderCopiesBefore, PassGate, Gated
  <2>2. ASSUME NEW l \in Links PROVE FlowLink(l)'
    BY <1>0, <1>a, <1>3
       DEF FlowStage, FlowLink, SenderCopiesBefore, PassGate, Gated
  <2>3. QED
    BY <2>1, <2>2
<1>4. ASSUME NEW s \in Stages, WaitAtGate(s) PROVE FlowInv'
  BY <1>0, <1>a, <1>b, <1>4 DEF WaitAtGate
<1>5. ASSUME NEW s \in Stages, ReceiveQueued(s) PROVE FlowInv'
  <2>1. ASSUME NEW t \in Stages PROVE FlowStage(t)'
    BY <1>0, <1>a, <1>5
       DEF FlowStage, FlowLink, SenderCopiesBefore, ReceiveQueued, Receives
  <2>2. ASSUME NEW l \in Links PROVE FlowLink(l)'
    BY <1>0, <1>a, <1>5
       DEF FlowStage, FlowLink, SenderCopiesBefore, ReceiveQueued, Receives
  <2>3. QED
    BY <2>1, <2>2
<1>6. ASSUME NEW s \in Stages, ReceiveDirect(s) PROVE FlowInv'
  BY <1>0, <1>a, <1>b, <1>6 DEF ReceiveDirect, AtWait, Receives
<1>7. ASSUME NEW s \in Stages, WaitForSender(s) PROVE FlowInv'
  BY <1>0, <1>a, <1>b, <1>7 DEF WaitForSender, AtWait
<1>8. ASSUME NEW s \in Stages, WakeSpuriously(s) PROVE FlowInv'
  BY <1>0, <1>a, <1>b, <1>8 DEF WakeSpuriously
<1>9. ASSUME NEW s \in Stages, BeginCopy(s) PROVE FlowInv'
  <2>1. ASSUME NEW t \in Stages PROVE FlowStage(t)'
    BY <1>0, <1>a, <1>9
       DEF FlowStage, FlowLink, SenderCopiesBefore, BeginCopy, Receives,
           CopiersReceive
  <2>2. ASSUME NEW l \in Links PROVE FlowLink(l)'
    BY <1>0, <1>a, <1>9
       DEF FlowStage, FlowLink, SenderCopiesBefore, BeginCopy, Receives,
           CopiersReceive
  <2>3. QED
    BY <2>1, <2>2
<1>10. ASSUME NEW s \in Stages, EndCopy(s) PROVE FlowInv'
  <2>1. ASSUME NEW t \in Stages PROVE FlowStage(t)'
    BY <1>0, <1>a, <1>10
       DEF FlowStage, FlowLink, SenderCopiesBefore, EndCopy, Receives,
           CopiersReceive
  <2>2. ASSUME NEW l \in Links PROVE FlowLink(l)'
    BY <1>0, <1>a, <1>10
       DEF FlowStage, FlowLink, SenderCopiesBefore, EndCopy, Receives,
           CopiersReceive
  <2>3. QED
    BY <2>1, <2>2
<1>11. ASSUME NEW s \in Stages, BeginTasks(s) PROVE FlowInv'
  <2>1. ASSUME NEW t \in Stages PROVE FlowStage(t)'
    BY <1>0, <1>a, <1>11
       DEF FlowStage, FlowLink, SenderCopiesBefore, BeginTasks
  <2>2. ASSUME NEW l \in Links PROVE FlowLink(l)'
    BY <1>0, <1>a, <1>11
       DEF FlowStage, FlowLink, SenderCopiesBefore, BeginTasks
  <2>3. QED
    BY <2>1, <2>2
<1>12. ASSUME NEW s \in Stages, EndTasks(s) PROVE FlowInv'
  <2>1. ASSUME NEW t \in Stages PROVE FlowStage(t)'
    BY <1>0, <1>a, <1>12
       DEF FlowStage, FlowLink, SenderCopiesBefore, EndTasks, Read
  <2>2. ASSUME NEW l \in Links PROVE FlowLink(l)'
    BY <1>0, <1>a, <1>12
       DEF FlowStage, FlowLink, SenderCopiesBefore, EndTasks, Read
  <2>3. QED
    BY <2>1, <2>2
<1>13. ASSUME NEW s \in Stages, SendQueued(s) PROVE FlowInv'
  <2>1. ASSUME NEW t \in Stages PROVE FlowStage(t)'
    BY <1>0, <1>a, <1>13
       DEF FlowStage, FlowLink, SenderCopiesBefore, SendQueued, Sends
  <2>2. ASSUME NEW l \in Links PROVE FlowLink(l)'
    BY <1>0, <1>a, <1>13
       DEF FlowStage, FlowLink, SenderCopiesBefore, SendQueued, Sends
  <2>3. QED
    BY <2>1, <2>2
<1>14. ASSUME NEW s \in Stages, SendDirect(s) PROVE FlowInv'
  <2>1. /\ s \in Links /\ s + 1 \in Stages /\ s # s + 1 /\ s + 1 # 0
        /\ pc[s] = "output" /\ queued[s] = 0
        /\ pc[s + 1] \in {"launched", "input", "asleep", "woken"}
    BY <1>a, <1>14 DEF SendDirect, Sends, LinksInv, LinkInv
  <2>2. \A t \in Stages : pc'[t] \in {"running", "output"}
                            => pc'[t] = pc[t] /\ t # s + 1
    BY <1>0, <1>14, <2>1 DEF SendDirect, RanAndNotified
  <2>3. /\ \A t \in Stages : t # s + 1 => input'[t] = input[t]
        /\ input'[s + 1] = IF s \in SenderCopies THEN output[s] ELSE input[s + 1]
        /\ UNCHANGED <<frame, output, seen, queued, buffer>>
    BY <1>0, <1>14, <2>1 DEF SendDirect
  <2>4. SenderCopiesBefore(s + 1) =>
          /\ input'[s + 1] = input[s] /\ input[s] \in Nat
          /\ input[s + 1] \in Nat /\ input[s + 1] <= input[s]
    BY <1>a, <2>1, <2>3 DEF FlowStage, FlowLink
  <2>5. ASSUME NEW t \in Stages PROVE FlowStage(t)'
    BY <2>1, <2>2, <2>3, <2>4 DEF FlowStage, SenderCopiesBefore
  <2>6. ASSUME NEW l \in Links PROVE FlowLink(l)'
    <3> SUFFICES ASSUME SenderCopiesBefore(l + 1)
                 PROVE  FlowLink(l)'
      BY DEF FlowLink, SenderCopiesBefore
    <3>1. CASE l = s
      BY <1>0, <1>a, <2>1, <2>3, <2>4, <3>1 DEF FlowLink, FlowStage
    <3>2. CASE l = s + 1
      BY <1>0, <1>a, <2>1, <2>3, <2>4, <3>2 DEF FlowLink, FlowStage
    <3>3. CASE l # s /\ l # s + 1
      BY <1>0, <1>a, <2>1, <2>3, <2>4, <3>3 DEF FlowLink, FlowStage
    <3>4. QED
      BY <3>1, <3>2, <3>3
  <2>7. QED
    BY <2>5, <2>6
<1>15. ASSUME NEW s \in Stages, WriteToCut(s) PROVE FlowInv'
  BY <1>0, <1>a, <1>b, <1>15 DEF WriteToCut, OpenGate, RanAndNotified
<1>16. ASSUME NEW s \in Stages, Deliver(s) PROVE FlowInv'
  <2>1. (pc' = [pc EXCEPT ![s] = "ran"]) \/ RanAndNotified(s, 0)
    BY <1>16 DEF Deliver, OpenGate
  <2>2. \A t \in Stages : pc'[t] \in {"running", "output"} => pc'[t] = pc[t]
    BY <1>0, <1>a, <2>1 DEF RanAndNotified
  <2>3. QED
    BY <1>b, <1>16, <2>2 DEF Deliver
<1>17. ASSUME NEW s \in Stages, Sample(s) \/ EndRun(s) PROVE FlowInv'
  BY <1>0, <1>a, <1>b, <1>17 DEF Sample, EndRun
<1>18. CASE Report
  BY <1>b, <1>18 DEF Report
<1>19. CASE UNCHANGED vars
  BY <1>b, <1>19 DEF vars
<1>20. QED
  BY <1>1, <1>2, <1>3, <1>4, <1>5, <1>6, <1>7, <1>8, <1>9, <1>10, <1>11,
     <1>12, <1>13, <1>14, <1>15, <1>16, <1>17, <1>18, <1>19
     DEF Next, StageStep, Terminated

LEMMA FlowInvariant == Spec => [](TypeInv /\ LinksInv /\ FlowInv)
<1>1. Init => TypeInv /\ LinksInv /\ FlowInv
  BY TypeInvInit, LinksInvInit, FlowInvInit
<1>2. TypeInv /\ LinksInv /\ FlowInv /\ [Next]_vars
        => (TypeInv /\ LinksInv /\ FlowInv)'
  BY TypeInvStep, LinksInvStep, FlowInvStep
<1>3. QED
  BY <1>1, <1>2, PTL DEF Spec

\* No stage works on a mixture of two frames while every sender before it
\* makes its copy under the mutex, although nothing throttles the pipeline.
THEOREM NeverTorn == Spec => []SenderCopiesNeverTear
<1>1. FlowInv => SenderCopiesNeverTear
  BY DEF FlowInv, FlowStage, SenderCopiesNeverTear, Torn
<1>2. QED
  BY <1>1, FlowInvariant, PTL

\* Nor is such a stage given an older frame than the one it has.
THEOREM FramesNeverGoBack == Spec => NeverBackwards
<1>1. TypeInv /\ LinksInv /\ FlowInv /\ FlowInv' /\ [Next]_vars =>
        [\A s \in Stages : SenderCopiesBefore(s) => input'[s] >= input[s]]_vars
  <2> SUFFICES ASSUME TypeInv, LinksInv, FlowInv, FlowInv', Next,
                      NEW t \in Stages, SenderCopiesBefore(t)
               PROVE  input'[t] >= input[t]
    BY DEF vars
  <2> USE DEF Goto, TakeInput, CloseGate, CanPop, TakeReady, AfterHandOff, Push,
        Notified, CopyDirect, StampsStart, Samples, FlowInv
  <2>1. /\ input[t] \in Nat /\ input'[t] \in Nat
        /\ input \in [Stages -> Content] /\ frame \in [Stages -> Nat]
        /\ CopiersReceive
    BY DEF FlowStage, SenderCopiesBefore, TypeInv, TypeOK
  <2>2. CASE input'[t] = input[t]
    BY <2>1, <2>2
  <2>3. ASSUME NEW s \in Stages, ReadFreely(s) PROVE input'[t] >= input[t]
    BY <2>1, <2>2, <2>3 DEF ReadFreely, FlowStage, SenderCopiesBefore
  <2>4. ASSUME NEW s \in Stages, PassGate(s) PROVE input'[t] >= input[t]
    BY <2>1, <2>2, <2>4 DEF PassGate, Gated, FlowStage, SenderCopiesBefore
  <2>5. ASSUME NEW s \in Stages, ReceiveQueued(s) PROVE input'[t] >= input[t]
    <3>1. CASE s = t
      <4>1. s - 1 \in Links /\ s = (s - 1) + 1
        BY <2>5, LinkEnds, PipelineAssumption
           DEF ReceiveQueued, Receives, Stages, PipelineAssumption
      <4>2. FlowLink(s - 1)
        BY <4>1
      <4>3. input[s] <= buffer[s - 1] /\ buffer[s - 1] \in Nat
        BY <2>5, <3>1, <4>1, <4>2 DEF ReceiveQueued, FlowLink
      <4>4. QED
        BY <2>1, <2>5, <3>1, <4>3 DEF ReceiveQueued
    <3>2. CASE s # t
      BY <2>1, <2>2, <2>5, <3>2 DEF ReceiveQueued
    <3>3. QED
      BY <3>1, <3>2
  <2>6. ASSUME NEW s \in Stages, EndCopy(s) PROVE input'[t] >= input[t]
    <3>1. s # t
      BY <2>1, <2>6, LinkEnds, PipelineAssumption
         DEF EndCopy, CopiersReceive, Receives, SenderCopiesBefore, Stages,
             PipelineAssumption
    <3>2. QED
      BY <2>1, <2>2, <2>6, <3>1 DEF EndCopy
  <2>7. ASSUME NEW s \in Stages, SendDirect(s) PROVE input'[t] >= input[t]
    <3>1. CASE t = s + 1
      <4>1. s \in Links /\ FlowStage(s) /\ FlowLink(s) /\ pc[s] = "output"
        BY <2>7 DEF SendDirect, Sends
      <4>2. s \in SenderCopies /\ SenderCopiesBefore(s)
        BY <3>1, <4>1, LinkEnds DEF SenderCopiesBefore
      <4>3. input[t] <= input[s] /\ output[s] = input[s] /\ input[s] \in Nat
        BY <3>1, <4>1, <4>2 DEF FlowLink, FlowStage
      <4>4. input'[t] = output[s]
        BY <2>1, <2>7, <3>1, <4>2 DEF SendDirect
      <4>5. QED
        BY <2>1, <4>3, <4>4
    <3>2. CASE t # s + 1
      BY <2>1, <2>2, <2>7, <3>2 DEF SendDirect
    <3>3. QED
      BY <3>1, <3>2
  <2>8. CASE UNCHANGED input
    BY <2>2, <2>8
  <2>9. QED
    BY <2>3, <2>4, <2>5, <2>6, <2>7, <2>8
       DEF Next, StageStep, Terminated, vars, Launch, WaitAtGate,
           ReceiveDirect, WaitForSender, WakeSpuriously, BeginCopy,
           BeginTasks, EndTasks, SendQueued, WriteToCut, Deliver, Sample,
           EndRun, Report
<1>2. QED
  BY <1>1, FlowInvariant, PTL DEF Spec, NeverBackwards

-----------------------------------------------------------------------------
(* How far the stages of an uncut pipeline have come.                      *)

Uncut == Cuts = {}

\* Where a stage that does not hold a frame, and has not just run, may be.
Between == {"launched", "input", "asleep", "woken", "done"}

\* No stage is ahead of one before it; a stage is done when it has made all
\* its runs, and none is when do_run reports.
FramesOrdered ==
  /\ \A s, t \in Stages : s < t => frame[t] <= frame[s]
  /\ \A s \in Stages :
       /\ frame[s] <= Frames
       /\ pc[s] = "launched" => frame[s] = 0
       /\ pc[s] \in {"launched", "input", "asleep", "woken"} => frame[s] < Frames
       /\ pc[s] = "done" => frame[s] = Frames
  /\ main = "reported" => \A s \in Stages : pc[s] = "done"

\* Where the last stage is once the sample of its run has been added.
Sampled == Between \cup {"sampled"}

\* Until the last stage is past its warm-up the stamp is the one stage 0 takes
\* after its own; from then on it is the last stage's, which takes a new one
\* after each sample.  The samples are those of the runs it has ended.
TimesInv ==
  /\ frame[Last] <= 1 /\ (frame[0] > 1 \/ (frame[0] = 1 /\ pc[0] \in Between))
       => start = 1
  /\ frame[Last] > 1
       => start = IF pc[Last] \in Between THEN frame[Last] ELSE frame[Last] - 1
  /\ latency = IF frame[Last] <= 1 THEN 0
               ELSE IF pc[Last] \in Sampled THEN frame[Last] - 1 ELSE frame[Last] - 2
  /\ \A s \in Stages : pc[s] = "sampled" => s = Last /\ frame[s] > 1

LEMMA Ends == /\ 0 \in Stages /\ Last \in Stages /\ Frames \in Nat /\ Frames > 0
              /\ \A s \in Stages : s \in Int /\ 0 <= s /\ s <= Last
              /\ Uncut => \A s \in Stages : /\ s # Last => s \in Links
                                            /\ s # 0 => s - 1 \in Links
BY PipelineAssumption DEF Uncut, Stages, Last, Frames, Links, PipelineAssumption

\* What a step does to the place and the frame of each stage.
Onward(s) ==
  \/ pc'[s] = pc[s] /\ frame'[s] = frame[s]
  \/ pc[s] = "asleep" /\ pc'[s] = "woken" /\ frame'[s] = frame[s]
  \/ pc[s] \in {"input", "woken"} /\ pc'[s] = "asleep" /\ frame'[s] = frame[s]
  \/ pc[s] = "launched" /\ pc'[s] = "input" /\ frame'[s] = frame[s]
  \/ /\ pc[s] \in {"input", "woken"} /\ pc'[s] \in {"copy", "tasks"}
     /\ frame'[s] = frame[s] + 1
     /\ Receives(s) => frame[s] < frame[s - 1]
  \/ pc[s] \in Busy \ {"output"} /\ pc'[s] \in Busy /\ frame'[s] = frame[s]
  \/ pc[s] = "output" /\ pc'[s] = "ran" /\ frame'[s] = frame[s]
  \/ pc[s] = "ran" /\ pc'[s] = "sampled" /\ frame'[s] = frame[s]
  \/ /\ pc[s] \in {"ran", "sampled"} /\ frame'[s] = frame[s]
     /\ pc'[s] = IF frame[s] = Frames THEN "done" ELSE "input"

LEMMA StepsOnward == TypeInv /\ LinksInv /\ [Next]_vars => \A s \in Stages : Onward(s)
<1> SUFFICES ASSUME TypeInv, LinksInv, [Next]_vars, NEW t \in Stages PROVE Onward(t)
  OBVIOUS
<1>0. /\ pc \in [Stages -> Place] /\ frame \in [Stages -> Nat]
      /\ ready \in [Links -> BOOLEAN] /\ queued \in [Links -> Nat]
  BY DEF TypeInv, TypeOK
<1>a. \A s \in Stages : s \in Int /\ (s - 1) + 1 = s
  BY Ends
<1>b. 0 \in Stages /\ \A l \in Links : l + 1 \in Stages
  BY LinkEnds, Ends
<1> USE <1>0, <1>a, <1>b DEF Goto, TakeInput, Busy
<1>1. ASSUME NEW s \in Stages, frame' = frame, pc' = [pc EXCEPT ![s] = pc'[s]], Onward(s)
      PROVE  Onward(t)
  BY <1>1 DEF Onward
<1>2. ASSUME NEW s \in Stages, NEW u \in Stages, pc[s] = "output", RanAndNotified(s, u),
             frame' = frame
      PROVE  Onward(t)
  BY <1>2 DEF Onward, RanAndNotified, Notified
<1>3. ASSUME NEW s \in Stages,
             ReadFreely(s) \/ PassGate(s) \/ ReceiveQueued(s) \/ ReceiveDirect(s)
      PROVE  Onward(t)
  <2>1. \E place \in {"tasks", "copy"} : TakeInput(s, place)
    BY <1>3 DEF ReadFreely, PassGate, ReceiveQueued, ReceiveDirect, AfterHandOff
  <2>2. /\ frame'[s] = frame[s] + 1 /\ pc'[s] \in {"copy", "tasks"}
        /\ t # s => pc'[t] = pc[t] /\ frame'[t] = frame[t]
    BY <2>1
  <2>3. pc[s] \in {"input", "woken"}
    BY <1>3 DEF ReadFreely, PassGate, ReceiveQueued, ReceiveDirect, AtWait
  <2>4. Receives(s) => frame[s] < frame[s - 1]
    <3> SUFFICES ASSUME Receives(s) PROVE frame[s] < frame[s - 1]
      OBVIOUS
    <3>1. ReceiveQueued(s) \/ ReceiveDirect(s)
      BY <1>3, LinkEnds, Ends DEF ReadFreely, PassGate, Gated, Receives
    <3>2. queued[s - 1] > 0 \/ ready[s - 1]
      BY <3>1 DEF ReceiveQueued, ReceiveDirect, CanPop
    <3>3. /\ Finished(s - 1) = frame[s] + queued[s - 1] + (IF ready[s - 1] THEN 1 ELSE 0)
          /\ s - 1 \in Stages /\ s - 1 \in Links
      BY LinkEnds DEF Receives, LinksInv, LinkInv
    <3> QED
      BY <3>2, <3>3 DEF Finished
  <2> QED
    BY <2>2, <2>3, <2>4 DEF Onward
<1>4. ASSUME NEW s \in Stages,
             \/ Launch(s) \/ WaitAtGate(s) \/ WaitForSender(s) \/ WakeSpuriously(s)
             \/ BeginCopy(s) \/ EndCopy(s) \/ BeginTasks(s) \/ EndTasks(s)
             \/ SendQueued(s) \/ Sample(s) \/ EndRun(s)
      PROVE  Onward(t)
  BY <1>1, <1>4
     DEF Launch, WaitAtGate, WaitForSender, AtWait, WakeSpuriously, BeginCopy, EndCopy,
         BeginTasks, EndTasks, SendQueued, Sample, EndRun, Onward
<1>5. ASSUME NEW s \in Stages, SendDirect(s) PROVE Onward(t)
  BY <1>2, <1>5 DEF SendDirect, Sends
<1>6. ASSUME NEW s \in Stages, WriteToCut(s) \/ Deliver(s) PROVE Onward(t)
  <2>1. RanAndNotified(s, 0) \/ pc' = [pc EXCEPT ![s] = "ran"]
    BY <1>6 DEF WriteToCut, Deliver, OpenGate
  <2>2. pc[s] = "output" /\ frame' = frame
    BY <1>6 DEF WriteToCut, Deliver
  <2> QED
    BY <1>2, <2>1, <2>2 DEF Onward
<1>7. CASE UNCHANGED <<pc, frame>>
  BY <1>7 DEF Onward
<1> QED
  BY <1>3, <1>4, <1>5, <1>6, <1>7 DEF Next, StageStep, Terminated, vars, Report

\* do_run reports when every stage is done; so do steps on which it waits.
LEMMA Reports == [Next]_vars => \/ main' = main
                                \/ \A s \in Stages : pc[s] = "done" /\ pc'[s] = "done"
BY DEF Next, StageStep, Terminated, vars, Report, Launch, ReadFreely, PassGate, WaitAtGate,
       ReceiveQueued, ReceiveDirect, WaitForSender, WakeSpuriously, BeginCopy, EndCopy,
       BeginTasks, EndTasks, SendQueued, SendDirect, WriteToCut, Deliver, Sample, EndRun

LEMMA FramesOrderedStep ==
  ASSUME Uncut, TypeInv, LinksInv, FramesOrdered, [Next]_vars PROVE FramesOrdered'
<1>0. frame \in [Stages -> Nat] /\ pc \in [Stages -> Place]
  BY DEF TypeInv, TypeOK
<1>1. \A s \in Stages : Onward(s)
  BY StepsOnward
<1>2. \A s \in Stages : frame'[s] = frame[s] \/ frame'[s] = frame[s] + 1
  BY <1>1 DEF Onward
<1>3. ASSUME NEW s \in Stages, NEW t \in Stages, s < t PROVE frame'[t] <= frame'[s]
  <2>1. t - 1 \in Links /\ t - 1 \in Stages /\ s <= t - 1
    BY <1>3, Ends, LinkEnds
  <2>2. frame[t] <= frame[s] /\ frame[t - 1] <= frame[s]
    BY <1>0, <1>3, <2>1, Ends DEF FramesOrdered
  <2>3. frame'[t] = frame[t] \/ frame'[t] <= frame[t - 1]
    BY <1>0, <1>1, <2>1, Ends DEF Onward, Receives
  <2> QED
    BY <1>0, <1>2, <2>1, <2>2, <2>3
<1>4. ASSUME NEW s \in Stages
      PROVE  /\ frame'[s] <= Frames
             /\ pc'[s] = "launched" => frame'[s] = 0
             /\ pc'[s] \in {"launched", "input", "asleep", "woken"} => frame'[s] < Frames
             /\ pc'[s] = "done" => frame'[s] = Frames
  BY <1>0, <1>1, Ends DEF Onward, FramesOrdered, Busy
<1>5. main' = "reported" => \A s \in Stages : pc'[s] = "done"
  <2>1. \A s \in Stages : pc[s] = "done" => pc'[s] = "done"
    BY <1>1 DEF Onward, Busy
  <2> QED
    BY <2>1, Reports DEF FramesOrdered
<1> QED
  BY <1>3, <1>4, <1>5 DEF FramesOrdered

LEMMA FramesOrderedInit == Init => FramesOrdered
BY Ends DEF Init, FramesOrdered

\* The samples and the stamp.
LEMMA TimesStep ==
  ASSUME TypeInv, LinksInv, FramesOrdered, FramesOrdered', TimesInv, [Next]_vars
  PROVE  TimesInv'
<1>0. /\ frame \in [Stages -> Nat] /\ pc \in [Stages -> Place]
      /\ start \in Nat /\ latency \in Nat
      /\ frame[0] \in Nat /\ frame[Last] \in Nat
  BY Ends DEF TypeInv, TypeOK
<1>1. \A s \in Stages : Onward(s)
  BY StepsOnward
<1>2. ASSUME NEW s \in Stages, Launch(s) PROVE TimesInv'
  <2>1. frame[s] = 0 /\ frame' = frame /\ latency' = 0 /\ start' = start
    BY <1>2 DEF Launch, FramesOrdered
  <2>2. frame[Last] = 0
    BY <1>0, <2>1, Ends DEF FramesOrdered
  <2>3. pc'[0] = pc[0] \/ frame[0] = 0
    BY <1>0, <1>2, <2>1, Ends DEF Launch, Goto
  <2>4. \A t \in Stages : pc'[t] = "sampled" => pc[t] = "sampled"
    BY <1>0, <1>2 DEF Launch, Goto
  <2> QED
    BY <2>1, <2>2, <2>3, <2>4 DEF TimesInv
<1>3. ASSUME NEW s \in Stages, Sample(s) PROVE TimesInv'
  <2>1. /\ s = Last /\ frame[Last] > 1 /\ pc[Last] = "ran"
        /\ frame' = frame /\ latency' = latency + 1 /\ start' = start
        /\ \A t \in Stages : pc'[t] = IF t = Last THEN "sampled" ELSE pc[t]
    BY <1>0, <1>3 DEF Sample, Samples, Goto
  <2>2. pc'[Last] = "sampled"
    BY <2>1, Ends
  <2>3. start' = frame[Last] - 1 /\ latency' = frame[Last] - 1
    BY <1>0, <2>1 DEF TimesInv, Between, Sampled
  <2>4. \A t \in Stages : pc'[t] = "sampled" => t = Last /\ frame'[t] > 1
    BY <2>1 DEF TimesInv
  <2> QED
    BY <1>0, <2>1, <2>2, <2>3, <2>4 DEF TimesInv, Between, Sampled
<1>4. ASSUME NEW s \in Stages, EndRun(s) PROVE TimesInv'
  <2> DEFINE next == IF frame[s] = Frames THEN "done" ELSE "input"
  <2>1. /\ pc[s] = "sampled" \/ (pc[s] = "ran" /\ ~(s = Last /\ frame[s] > 1))
        /\ frame' = frame /\ latency' = latency
        /\ \A t \in Stages : pc'[t] = IF t = s THEN next ELSE pc[t]
        /\ start' = IF (s = 0 /\ frame[s] = 1) \/ pc[s] = "sampled" THEN frame[s] ELSE start
    BY <1>0, <1>4 DEF EndRun, Samples, Stamps, StampsStart, Goto
  <2>2. pc'[s] \in Between /\ next # "sampled"
    BY <2>1 DEF Between
  <2>3. \A t \in Stages : pc'[t] = "sampled" => t = Last /\ frame'[t] > 1
    BY <2>1, <2>2 DEF TimesInv
  <2>4. CASE pc[s] = "sampled"
    <3>1. s = Last /\ frame[Last] > 1 /\ pc[Last] = "sampled" /\ pc'[Last] \in Between
      BY <2>2, <2>4 DEF TimesInv
    <3>2. start' = frame[Last] /\ latency' = frame[Last] - 1
      BY <1>0, <2>1, <2>4, <3>1 DEF TimesInv, Sampled
    <3> QED
      BY <1>0, <2>1, <2>3, <3>1, <3>2 DEF TimesInv, Sampled
  <2>5. CASE pc[s] = "ran" /\ frame[Last] <= 1
    <3>1. latency' = 0
      BY <2>1, <2>5 DEF TimesInv
    <3>2. frame[0] > 1 \/ (frame[0] = 1 /\ pc'[0] \in Between) => start' = 1
      BY <1>0, <2>1, <2>5, Ends DEF TimesInv
    <3> QED
      BY <1>0, <2>1, <2>3, <2>5, <3>1, <3>2 DEF TimesInv
  <2>6. CASE pc[s] = "ran" /\ frame[Last] > 1
    <3>1. s # Last /\ frame[Last] <= frame[0]
      BY <2>1, <2>6, Ends DEF FramesOrdered
    <3>2. start' = start /\ pc'[Last] = pc[Last]
      BY <1>0, <2>1, <2>6, <3>1, Ends
    <3> QED
      BY <1>0, <2>1, <2>3, <2>6, <3>2 DEF TimesInv
  <2> QED
    BY <1>0, <2>1, <2>4, <2>5, <2>6
<1>5. ASSUME UNCHANGED timeVars,
             \A s \in Stages : pc[s] \in {"ran", "sampled"} => pc'[s] = pc[s]
      PROVE  TimesInv'
  <2>1. Onward(0) /\ Onward(Last) /\ start' = start /\ latency' = latency
    BY <1>1, <1>5, Ends DEF timeVars
  <2>2. /\ pc[0] \in {"ran", "sampled"} => pc'[0] = pc[0]
        /\ pc[Last] \in {"ran", "sampled"} => pc'[Last] = pc[Last]
    BY <1>5, Ends
  <2>3. /\ frame'[0] = frame[0] \/ frame'[0] = frame[0] + 1
        /\ frame'[0] \in Nat
        /\ frame'[0] = frame[0] /\ pc'[0] \in Between => pc[0] \in Between
        /\ frame'[0] # frame[0] => pc[0] \in Between /\ pc'[0] \notin Between
    BY <1>0, <2>1, <2>2 DEF Onward, Between, Busy
  <2>4. /\ frame'[Last] = frame[Last] \/ frame'[Last] = frame[Last] + 1
        /\ frame'[Last] \in Nat
        /\ frame'[Last] = frame[Last] => /\ pc'[Last] \in Between <=> pc[Last] \in Between
                                         /\ pc'[Last] \in Sampled <=> pc[Last] \in Sampled
        /\ frame'[Last] # frame[Last] => pc[Last] \in Between /\ pc'[Last] \notin Sampled
    BY <1>0, <2>1, <2>2 DEF Onward, Between, Sampled, Busy
  <2>5. frame'[Last] <= 1 /\ (frame'[0] > 1 \/ (frame'[0] = 1 /\ pc'[0] \in Between))
          => start = 1
    BY <1>0, <2>3, <2>4 DEF TimesInv
  <2>6. frame'[Last] > 1
          => start = IF pc'[Last] \in Between THEN frame'[Last] ELSE frame'[Last] - 1
    <3>1. CASE frame'[Last] = frame[Last]
      BY <1>0, <2>4, <3>1 DEF TimesInv
    <3>2. CASE frame'[Last] = frame[Last] + 1 /\ frame[Last] > 1
      BY <1>0, <2>4, <3>2 DEF TimesInv, Sampled
    <3>3. CASE frame'[Last] = frame[Last] + 1 /\ frame[Last] = 1
      <4>1. frame'[0] > 1 /\ pc'[Last] \notin Between
        BY <1>0, <2>3, <2>4, <3>3, Ends DEF FramesOrdered, Sampled
      <4>2. frame[0] > 1 \/ (frame[0] = 1 /\ pc[0] \in Between)
        BY <1>0, <2>3, <4>1
      <4> QED
        BY <3>3, <4>1, <4>2 DEF TimesInv
    <3> QED
      BY <1>0, <2>4, <3>1, <3>2, <3>3
  <2>7. latency = IF frame'[Last] <= 1 THEN 0
                  ELSE IF pc'[Last] \in Sampled THEN frame'[Last] - 1 ELSE frame'[Last] - 2
    BY <1>0, <2>4 DEF TimesInv, Sampled
  <2>8. \A s \in Stages : pc'[s] = "sampled" => s = Last /\ frame'[s] > 1
    <3> SUFFICES ASSUME NEW s \in Stages, pc'[s] = "sampled"
                 PROVE  s = Last /\ frame'[s] > 1
      OBVIOUS
    <3>1. pc[s] = "sampled" /\ frame'[s] = frame[s]
      BY <1>1, <1>5 DEF Onward, Busy
    <3> QED
      BY <3>1 DEF TimesInv
  <2> QED
    BY <2>1, <2>5, <2>6, <2>7, <2>8 DEF TimesInv
<1>6. (\A s \in Stages : ~Sample(s) /\ ~EndRun(s) /\ ~Launch(s)) =>
        /\ UNCHANGED timeVars
        /\ \A s \in Stages : pc[s] \in {"ran", "sampled"} => pc'[s] = pc[s]
  <2> DEFINE Stay == \A s \in Stages : pc[s] \in {"ran", "sampled"} => pc'[s] = pc[s]
  <2> SUFFICES ASSUME \A s \in Stages : ~Sample(s) /\ ~EndRun(s) /\ ~Launch(s)
               PROVE  UNCHANGED timeVars /\ Stay
    OBVIOUS
  <2>1. UNCHANGED timeVars
    BY DEF Next, StageStep, Terminated, vars, Report, ReadFreely, PassGate, WaitAtGate,
       ReceiveQueued, ReceiveDirect, WaitForSender, WakeSpuriously, BeginCopy, EndCopy,
       BeginTasks, EndTasks, SendQueued, SendDirect, WriteToCut, Deliver
  <2>2. ASSUME NEW s \in Stages, pc' = [pc EXCEPT ![s] = pc'[s]],
               pc[s] \notin {"ran", "sampled"}
        PROVE  Stay
    BY <1>0, <2>2
  <2>3. ASSUME NEW s \in Stages, NEW u \in Stages, RanAndNotified(s, u), pc[s] = "output"
        PROVE  Stay
    BY <1>0, <2>3 DEF RanAndNotified, Notified
  <2>4. ASSUME NEW s \in Stages, SendDirect(s) \/ WriteToCut(s) \/ Deliver(s)
        PROVE  Stay
    <3>1. /\ pc[s] = "output"
          /\ \/ \E u \in Stages : RanAndNotified(s, u)
             \/ Goto(s, "ran")
      BY <2>4, LinkEnds, Ends DEF SendDirect, WriteToCut, Deliver, OpenGate, Sends
    <3>2. Goto(s, "ran") => pc' = [pc EXCEPT ![s] = pc'[s]]
      BY <1>0 DEF Goto
    <3> QED
      BY <2>2, <2>3, <3>1, <3>2
  <2>5. ASSUME NEW s \in Stages,
               \/ WaitAtGate(s) \/ WaitForSender(s) \/ WakeSpuriously(s) \/ ReadFreely(s)
               \/ PassGate(s) \/ ReceiveQueued(s) \/ ReceiveDirect(s)
               \/ BeginCopy(s) \/ EndCopy(s) \/ BeginTasks(s) \/ EndTasks(s) \/ SendQueued(s)
        PROVE  Stay
    <3>1. pc[s] \notin {"ran", "sampled"} /\ \E place \in Place : Goto(s, place)
      BY <2>5
         DEF ReadFreely, PassGate, WaitAtGate, ReceiveQueued, ReceiveDirect, WaitForSender,
             AtWait, WakeSpuriously, BeginCopy, EndCopy, BeginTasks, EndTasks, SendQueued,
             TakeInput, AfterHandOff, Place
    <3>2. pc' = [pc EXCEPT ![s] = pc'[s]]
      BY <1>0, <3>1 DEF Goto
    <3> QED
      BY <2>2, <3>1, <3>2
  <2>6. ASSUME pc' = pc PROVE Stay
    BY <2>6
  <2> QED
    BY <2>1, <2>4, <2>5, <2>6 DEF Next, StageStep, Terminated, vars, Report
<1> QED
  BY <1>2, <1>3, <1>4, <1>5, <1>6

LEMMA TimesInit == Init => TimesInv
BY Ends DEF Init, TimesInv

LEMMA UncutInvariant ==
  ASSUME Uncut PROVE Spec => [](TypeInv /\ LinksInv /\ FramesOrdered /\ TimesInv)
<1>1. Init => FramesOrdered /\ TimesInv
  BY FramesOrderedInit, TimesInit
<1>2. TypeInv /\ LinksInv /\ FramesOrdered /\ TimesInv /\ [Next]_vars
        => (FramesOrdered /\ TimesInv)'
  BY FramesOrderedStep, TimesStep
<1> QED
  BY <1>1, <1>2, Invariant, PTL DEF Spec

\* The latency that do_run reports is the sum of as many samples as there were
\* timed runs: no thread that starts late wipes one out.
THEOREM SamplesComplete == Spec => []LatencyComplete
<1>1. CASE Uncut
  <2>1. FramesOrdered /\ TimesInv => LatencyComplete
    BY Ends, PipelineAssumption
       DEF FramesOrdered, TimesInv, LatencyComplete, Between, Sampled, Frames, PipelineAssumption
  <2> QED
    BY <1>1, <2>1, UncutInvariant, PTL
<1>2. CASE ~Uncut
  <2>1. LatencyComplete
    BY <1>2 DEF LatencyComplete, Uncut
  <2> QED
    BY <2>1, PTL
<1> QED
  BY <1>1, <1>2

\* The samples join: the first is measured from stage 0's stamp, each later one
\* from the stamp the last stage took after the frame before.
THEOREM SamplesJoin == Spec => MeasuredFromStart
<1>1. CASE Uncut
  <2>1. TypeInv /\ LinksInv /\ FramesOrdered /\ TimesInv /\ [Next]_vars
          => [Uncut /\ latency' > latency => start = frame[Last] - 1]_vars
    <3> SUFFICES ASSUME TypeInv, FramesOrdered, TimesInv, Next, latency' > latency
                 PROVE  start = frame[Last] - 1
      BY DEF vars
    <3>1. frame[Last] \in Nat /\ latency \in Nat
      BY Ends DEF TypeInv, TypeOK
    <3>2. \E s \in Stages : Sample(s)
      <4>1. latency' # latency /\ latency' # 0
        BY <3>1
      <4> QED
        BY <4>1 DEF Next, StageStep, Terminated, vars, Report, Launch, ReadFreely, PassGate,
           WaitAtGate, ReceiveQueued, ReceiveDirect, WaitForSender, WakeSpuriously,
           BeginCopy, EndCopy, BeginTasks, EndTasks, SendQueued, SendDirect, WriteToCut,
           Deliver, timeVars, EndRun
    <3>3. frame[Last] > 1 /\ pc[Last] = "ran"
      BY <3>2 DEF Sample, Samples
    <3> QED
      BY <3>1, <3>3 DEF TimesInv, Between
  <2> QED
    BY <1>1, <2>1, UncutInvariant, PTL DEF MeasuredFromStart, Uncut, Spec
<1>2. CASE ~Uncut
  <2>1. [Next]_vars => [Cuts = {} /\ latency' > latency => start = frame[Last] - 1]_vars
    BY <1>2 DEF Uncut
  <2> QED
    BY <2>1, PTL DEF Spec, MeasuredFromStart
<1> QED
  BY <1>1, <1>2

-----------------------------------------------------------------------------
(* A pipeline with a dummy at its first end only.                          *)

\* When only the first end of the pipeline has a dummy (no --image, --labels
\* given) and no cut replaces the last one, nobody opens the gate again: stage
\* 0 starts the warm-up frame, no other, and do_run never reports.
StaysAtGate ==
  Gated(0) /\ ~DummyOutput /\ Cuts = {} /\ N > 0 =>
    frame[0] <= 1 /\ main = "joining"

Mismatched == Gated(0) /\ ~DummyOutput /\ Cuts = {}

\* The gate is open until stage 0 has passed it once, and never after that.
GateInv == (start_frame <=> frame[0] = 0) /\ frame[0] <= 1

LEMMA GateStep == Mismatched /\ TypeInv /\ GateInv /\ [Next]_vars => GateInv'
<1> SUFFICES ASSUME Mismatched, TypeInv, GateInv, [Next]_vars PROVE GateInv'
  OBVIOUS
<1>0. /\ frame \in [Stages -> Nat] /\ start_frame \in BOOLEAN
      /\ 0 \in Stages /\ 0 - 1 \notin Links /\ Cuts = {}
  BY Ends, LinkEnds, PipelineAssumption
     DEF TypeInv, TypeOK, Links, Mismatched, PipelineAssumption
<1>1. ASSUME UNCHANGED <<frame[0], start_frame>> PROVE GateInv'
  BY <1>1 DEF GateInv
<1>2. ASSUME NEW s \in Stages, PassGate(s) PROVE GateInv'
  <2>1. s = 0 /\ start_frame /\ start_frame' = FALSE /\ frame'[0] = frame[0] + 1
    BY <1>0, <1>2 DEF PassGate, Gated, CloseGate, TakeInput
  <2> QED
    BY <1>0, <2>1 DEF GateInv
<1>3. ASSUME NEW s \in Stages, ReadFreely(s) \/ ReceiveQueued(s) \/ ReceiveDirect(s)
      PROVE  GateInv'
  <2>1. s # 0
    BY <1>0, <1>3
       DEF ReadFreely, ReceiveQueued, ReceiveDirect, AtWait, Receives, Mismatched
  <2> QED
    BY <1>0, <1>1, <1>3, <2>1 DEF ReadFreely, ReceiveQueued, ReceiveDirect, TakeInput
<1>4. ASSUME NEW s \in Stages, WriteToCut(s) \/ Deliver(s) PROVE GateInv'
  BY <1>0, <1>1, <1>4 DEF WriteToCut, Deliver, Mismatched
<1>5. CASE UNCHANGED <<frame, start_frame>>
  BY <1>1, <1>5
<1> QED
  BY <1>2, <1>3, <1>4, <1>5
     DEF Next, StageStep, Terminated, vars, Launch, WaitAtGate, WaitForSender,
         WakeSpuriously, BeginCopy, EndCopy, BeginTasks, EndTasks, SendQueued,
         SendDirect, Sample, EndRun, Report

\* With --labels but no --image, whatever the number of stages and of runs, the
\* pipeline never gets past its warm-up frame and do_run never reports.
THEOREM GateStaysShut == Spec => []StaysAtGate
<1>1. CASE Mismatched
  <2>1. Init => GateInv
    BY Ends DEF Init, GateInv
  <2>2. TypeInv /\ FramesOrdered /\ GateInv => StaysAtGate
    <3> SUFFICES ASSUME TypeInv, FramesOrdered, GateInv, N > 0
                 PROVE  frame[0] <= 1 /\ main = "joining"
      BY DEF StaysAtGate
    <3>1. frame[0] # Frames /\ 0 \in Stages
      BY Ends, PipelineAssumption DEF GateInv, Frames, PipelineAssumption
    <3>2. pc[0] # "done"
      BY <3>1 DEF FramesOrdered
    <3> QED
      BY <3>1, <3>2 DEF GateInv, FramesOrdered, TypeInv, TypeOK
  <2>3. Uncut
    BY <1>1 DEF Mismatched, Uncut
  <2> QED
    <3>1. TypeInv /\ GateInv /\ [Next]_vars => GateInv'
      BY <1>1, GateStep
    <3>2. Spec => [](TypeInv /\ FramesOrdered)
      BY <2>3, UncutInvariant, PTL
    <3> QED
      BY <2>1, <2>2, <3>1, <3>2, PTL DEF Spec
<1>2. CASE ~Mismatched
  <2>1. StaysAtGate
    BY <1>2 DEF StaysAtGate, Mismatched
  <2> QED
    BY <2>1, PTL
<1> QED
  BY <1>1, <1>2

-----------------------------------------------------------------------------
(* The last frame.  Frames may be lost on the way, but nothing comes after *)
(* the last one to overwrite it.                                           *)

LastFrameStage(s) ==
  frame[s] = Frames =>
    /\ pc[s] \notin {"copy", "copying"} => input[s] = Frames
    /\ pc[s] \in {"copying", "running"} => seen[s] = Frames
    /\ pc[s] \in {"output", "ran", "sampled", "done"} => output[s] = Frames

\* A link over which the sender has made all its hand-offs.
LastFrameLink(l) ==
  Finished(l) = Frames =>
    /\ queued[l] > 0 => buffer[l] = Frames
    /\ ready[l] /\ queued[l] = 0 /\ l \in SenderCopies => input[l + 1] = Frames

LastFrameOut ==
  frame[Last] = Frames /\ pc[Last] \in {"ran", "sampled", "done"} =>
    Len(delivered) > 0 /\ delivered[Len(delivered)] = Frames

LastFrameInv ==
  /\ \A s \in Stages : LastFrameStage(s)
  /\ \A l \in Links : LastFrameLink(l)
  /\ LastFrameOut

LEMMA LastFrameInit == Init => LastFrameInv
BY Ends, LinkEnds DEF Init, LastFrameInv, LastFrameStage, LastFrameLink, LastFrameOut,
                      Finished, Busy

\* Once the receiver has taken the last frame, the sender has handed it over.
LEMMA TakenWasSent ==
  ASSUME Uncut, TypeInv, LinksInv, FramesOrdered, NEW l \in Links,
         frame[l + 1] + queued[l] + (IF ready[l] THEN 1 ELSE 0) >= Frames
  PROVE  /\ Finished(l) = Frames /\ frame[l] = Frames /\ pc[l] \in {"ran", "sampled", "done"}
         /\ frame[l + 1] + queued[l] + (IF ready[l] THEN 1 ELSE 0) = Frames
<1>1. /\ l \in Stages /\ frame[l] \in Nat /\ pc[l] \in Place
      /\ Finished(l) = frame[l + 1] + queued[l] + (IF ready[l] THEN 1 ELSE 0)
  BY LinkEnds DEF TypeInv, TypeOK, LinksInv, LinkInv
<1>2. Finished(l) = Frames /\ frame[l] = Frames /\ pc[l] \notin Busy
  BY <1>1, Ends DEF Finished, FramesOrdered
<1> QED
  BY <1>1, <1>2, Ends DEF FramesOrdered, Place, Busy

LEMMA LastFrameStep ==
  ASSUME Uncut, TypeInv, LinksInv, FramesOrdered, LinksInv', FramesOrdered', TypeInv',
         LastFrameInv, [Next]_vars
  PROVE  LastFrameInv'
<1> USE DEF Goto, TakeInput, LastFrameInv
<1>0. /\ pc \in [Stages -> Place] /\ frame \in [Stages -> Nat]
      /\ input \in [Stages -> Content] /\ output \in [Stages -> Content]
      /\ seen \in [Stages -> Content]
      /\ waiting \in [Links -> BOOLEAN] /\ ready \in [Links -> BOOLEAN]
      /\ queued \in [Links -> Nat] /\ buffer \in [Links -> Content]
      /\ CopiersReceive /\ delivered \in Seq(Content)
  BY DEF TypeInv, TypeOK
<1>a. /\ \A l \in Links : l \in Stages /\ l + 1 \in Stages /\ l # l + 1 /\ l # Last
      /\ \A s \in Stages : s \in Int /\ s = (s - 1) + 1 /\ (s + 1) - 1 = s
  BY LinkEnds, Ends, PipelineAssumption DEF Links, Last, PipelineAssumption
<1>b. \A s \in Stages : Onward(s)
  BY StepsOnward
<1>c. ASSUME NEW l \in Links
      PROVE  Finished(l)' = Finished(l) \/ (pc[l] = "output" /\ pc'[l] = "ran")
  <2>1. l \in Stages /\ Onward(l) /\ frame[l] \in Nat
    BY <1>0, <1>a, <1>b
  <2> QED
    BY <2>1 DEF Onward, Finished, Busy
\* What stays as it was: a stage whose tensors a step leaves alone, a link whose
\* queue and flags it does, the output when the last stage does not move.
<1>1. ASSUME NEW s \in Stages, input'[s] = input[s], output'[s] = output[s], seen'[s] = seen[s],
             frame'[s] = frame[s], pc'[s] = pc[s] \/ pc[s] \notin Busy \ {"output"}
      PROVE  LastFrameStage(s)'
  BY <1>0, <1>1, <1>b, Ends, ZenonT(60) DEF LastFrameStage, Onward, Busy, FramesOrdered
<1>2. ASSUME NEW l \in Links, queued'[l] = queued[l], buffer'[l] = buffer[l],
             ready'[l] = ready[l], input'[l + 1] = input[l + 1], Finished(l)' = Finished(l)
      PROVE  LastFrameLink(l)'
  BY <1>2 DEF LastFrameLink
<1>3. ASSUME delivered' = delivered, pc'[Last] = pc[Last] \/ pc'[Last] # "ran"
      PROVE  LastFrameOut'
  <2>1. Last \in Stages
    BY Ends
  <2>2. frame'[Last] = Frames /\ pc'[Last] \in {"ran", "sampled", "done"}
          => frame[Last] = Frames /\ pc[Last] \in {"ran", "sampled", "done"}
    BY <2>1, <1>0, <1>3, <1>b DEF Onward, Busy
  <2> QED
    BY <2>2, <1>3 DEF LastFrameOut
\* A step that leaves the contents and the links alone.
<1>4. ASSUME NEW s \in Stages, pc' = [pc EXCEPT ![s] = pc'[s]], pc[s] \notin Busy,
             UNCHANGED <<frame, input, output, seen, ready, queued, buffer, delivered>>,
             pc'[s] # "ran" \/ pc'[s] = pc[s]
      PROVE  LastFrameInv'
  <2>1. \A t \in Stages : pc'[t] = pc[t] \/ (t = s /\ pc[t] \notin Busy)
    BY <1>0, <1>4
  <2>2. \A l \in Links : Finished(l)' = Finished(l)
    BY <1>a, <1>c, <2>1, <1>4 DEF Busy
  <2>3. \A t \in Stages : LastFrameStage(t)'
    BY <1>1, <1>4, <2>1
  <2>4. \A l \in Links : LastFrameLink(l)'
    BY <1>2, <1>4, <2>2
  <2>5. LastFrameOut'
    BY <1>3, <1>4, <2>1, Ends
  <2> QED
    BY <2>3, <2>4, <2>5
<1>5. ASSUME NEW s \in Stages,
             \/ Launch(s) \/ WaitAtGate(s) \/ WaitForSender(s) \/ WakeSpuriously(s)
             \/ Sample(s) \/ EndRun(s)
      PROVE  LastFrameInv'
  <2>1. /\ pc' = [pc EXCEPT ![s] = pc'[s]] /\ pc[s] \notin Busy /\ pc'[s] # "ran"
        /\ UNCHANGED <<frame, input, output, seen, ready, queued, buffer, delivered>>
    BY <1>0, <1>5 DEF Launch, WaitAtGate, WaitForSender, WakeSpuriously, Sample, EndRun,
                      AtWait, linkVars, Busy
  <2> QED
    BY <2>1, <1>4
\* A step of a stage that is not the last part of a hand-off: the others, and the
\* links, are as they were.
<1>6. ASSUME NEW s \in Stages, pc' = [pc EXCEPT ![s] = pc'[s]], delivered' = delivered,
             pc'[s] # "ran" \/ pc[s] = "ran",
             \A t \in Stages \ {s} : /\ input'[t] = input[t] /\ output'[t] = output[t]
                                     /\ seen'[t] = seen[t] /\ frame'[t] = frame[t]
      PROVE  /\ \A t \in Stages \ {s} : LastFrameStage(t)'
             /\ LastFrameOut'
             /\ \A l \in Links : Finished(l)' = Finished(l)
             /\ \A l \in Links : /\ l + 1 # s \/ input'[s] = input[s]
                                 /\ queued'[l] = queued[l]
                                 /\ buffer'[l] = buffer[l] /\ ready'[l] = ready[l]
                                 => LastFrameLink(l)'
  <2>1. \A t \in Stages : pc'[t] = pc[t] \/ t = s
    BY <1>0, <1>6
  <2>2. \A l \in Links : Finished(l)' = Finished(l)
    <3>1. \A l \in Links : pc[l] # "output" \/ pc'[l] # "ran"
      BY <1>6, <1>a, <2>1
    <3> QED
      BY <1>c, <3>1
  <2>3. LastFrameOut'
    BY <1>3, <1>6, <2>1, Ends
  <2>4. \A t \in Stages \ {s} : LastFrameStage(t)'
    BY <1>1, <1>6, <2>1
  <2>5. ASSUME NEW l \in Links, l + 1 # s \/ input'[s] = input[s], queued'[l] = queued[l],
               buffer'[l] = buffer[l], ready'[l] = ready[l]
        PROVE  LastFrameLink(l)'
    <3>1. input'[l + 1] = input[l + 1]
      BY <1>6, <1>a, <2>5
    <3> QED
      BY <1>2, <2>2, <2>5, <3>1
  <2> QED
    BY <2>2, <2>3, <2>4, <2>5
<1>7. ASSUME NEW s \in Stages, ReadFreely(s) \/ PassGate(s) PROVE LastFrameInv'
  <2>1. s = 0
    BY <1>7, Ends DEF ReadFreely, PassGate, Gated, Receives
  <2>2. /\ pc' = [pc EXCEPT ![s] = "tasks"] /\ frame' = [frame EXCEPT ![s] = @ + 1]
        /\ input' = [input EXCEPT ![s] = frame[s] + 1] /\ pc[s] \in {"input", "woken"}
        /\ UNCHANGED <<output, seen, linkVars, delivered>>
    BY <1>7, <2>1 DEF ReadFreely, PassGate
  <2>3. LastFrameStage(s)'
    BY <1>0, <2>2 DEF LastFrameStage
  <2>4. \A l \in Links : l + 1 # s
    BY <2>1, LinkEnds, PipelineAssumption DEF Links, PipelineAssumption
  <2> QED
    BY <1>0, <1>6, <2>2, <2>3, <2>4 DEF linkVars
<1>8. ASSUME NEW s \in Stages, ReceiveQueued(s) PROVE LastFrameInv'
  <2> DEFINE l == s - 1
  <2>1. /\ pc' = [pc EXCEPT ![s] = "tasks"] /\ frame' = [frame EXCEPT ![s] = @ + 1]
        /\ input' = [input EXCEPT ![s] = buffer[l]] /\ queued' = [queued EXCEPT ![l] = @ - 1]
        /\ queued[l] > 0 /\ l \in Links /\ pc[s] = "input"
        /\ UNCHANGED <<output, seen, ready, buffer, delivered>>
    BY <1>8 DEF ReceiveQueued, CanPop, Receives
  <2>2. input'[s] = buffer[l] /\ l + 1 = s /\ queued[l] \in Nat /\ queued'[l] = queued[l] - 1
    BY <1>0, <1>a, <2>1
  <2>3. Finished(l) = Frames => buffer[l] = Frames
    BY <2>1 DEF LastFrameLink
  <2>4. frame'[s] = Frames => Finished(l) = Frames
    <3>1. frame'[s] = Frames => frame[l + 1] + queued[l] + (IF ready[l] THEN 1 ELSE 0) >= Frames
      BY <1>0, <2>1, <2>2, Ends
    <3> QED
      BY <3>1, <2>1, TakenWasSent
  <2>5. LastFrameStage(s)'
    BY <1>0, <2>1, <2>2, <2>3, <2>4 DEF LastFrameStage
  <2>6. LastFrameLink(l)'
    <3>1. Finished(l)' = Finished(l)
      BY <1>0, <1>6, <2>1
    <3> QED
      BY <2>1, <2>2, <2>3, <3>1 DEF LastFrameLink
  <2>7. \A k \in Links : k # l => LastFrameLink(k)'
    BY <1>0, <1>6, <1>a, <2>1, <2>2
  <2> QED
    BY <1>0, <1>6, <2>1, <2>5, <2>6, <2>7
<1>9. ASSUME NEW s \in Stages, ReceiveDirect(s) PROVE LastFrameInv'
  <2> DEFINE l == s - 1
  <2>1. /\ pc' = [pc EXCEPT ![s] = AfterHandOff(l)] /\ frame' = [frame EXCEPT ![s] = @ + 1]
        /\ ready' = [ready EXCEPT ![l] = FALSE] /\ ready[l] /\ l \in Links
        /\ AfterHandOff(l) \in {"tasks", "copy"} /\ pc[s] \in {"input", "woken"}
        /\ UNCHANGED <<input, output, seen, queued, buffer, delivered>>
    BY <1>9 DEF ReceiveDirect, TakeReady, AtWait, Receives, AfterHandOff
  <2>2. l + 1 = s
    BY <1>a
  <2>3. frame'[s] = Frames => Finished(l) = Frames /\ queued[l] = 0
    <3>1. frame'[s] = frame[s] + 1
      BY <1>0, <2>1
    <3>2. frame'[s] = Frames => frame[l + 1] + queued[l] + (IF ready[l] THEN 1 ELSE 0) >= Frames
      BY <1>0, <2>1, <2>2, <3>1, Ends
    <3> QED
      BY <1>0, <2>1, <2>2, <3>1, <3>2, TakenWasSent, Ends
  <2>4. LastFrameStage(s)'
    <3>1. frame'[s] = Frames /\ l \in SenderCopies => input[s] = Frames
      BY <2>1, <2>2, <2>3 DEF LastFrameLink
    <3> QED
      BY <1>0, <2>1, <3>1 DEF LastFrameStage, AfterHandOff
  <2>5. LastFrameLink(l)'
    <3>1. Finished(l)' = Finished(l)
      BY <1>0, <1>6, <2>1
    <3> QED
      BY <1>0, <2>1, <3>1 DEF LastFrameLink
  <2>6. \A k \in Links : k # l => LastFrameLink(k)'
    BY <1>0, <1>6, <1>a, <2>1, <2>2
  <2> QED
    BY <1>0, <1>6, <2>1, <2>4, <2>5, <2>6
\* A receiver that copies the last frame reads a tensor its sender has left.
<1>10. ASSUME NEW s \in Stages, BeginCopy(s) \/ EndCopy(s) PROVE LastFrameInv'
  <2>1. s - 1 \in Links /\ s - 1 \notin SenderCopies
    BY <1>0, <1>10 DEF CopiersReceive, BeginCopy, EndCopy, Receives
  <2>2. frame[s] = Frames => output[s - 1] = Frames
    <3>1. frame[s] = Frames =>
            frame[(s - 1) + 1] + queued[s - 1] + (IF ready[s - 1] THEN 1 ELSE 0) >= Frames
      <4>1. (s - 1) + 1 = s /\ frame[s] \in Nat /\ queued[s - 1] \in Nat
        BY <1>0, <1>a, <2>1
      <4> QED
        BY <4>1, Ends
    <3>2. frame[s] = Frames => frame[s - 1] = Frames /\ pc[s - 1] \in {"ran", "sampled", "done"}
      BY <2>1, <3>1, TakenWasSent
    <3> QED
      BY <1>a, <2>1, <3>2 DEF LastFrameStage
  <2>3. CASE BeginCopy(s)
    <3>1. LastFrameStage(s)'
      BY <1>0, <2>2, <2>3 DEF LastFrameStage, BeginCopy
    <3> QED
      BY <1>0, <1>6, <2>3, <3>1 DEF BeginCopy, linkVars
  <2>4. CASE EndCopy(s)
    <3>1. LastFrameStage(s)'
      BY <1>0, <2>2, <2>4 DEF LastFrameStage, EndCopy, Read
    <3>2. LastFrameLink(s - 1)'
      <4>1. Finished(s - 1)' = Finished(s - 1)
        BY <1>0, <1>6, <2>1, <2>4 DEF EndCopy
      <4> QED
        BY <2>1, <2>4, <4>1 DEF LastFrameLink, EndCopy, linkVars
    <3>3. \A k \in Links : k # s - 1 => LastFrameLink(k)'
      BY <1>0, <1>6, <1>a, <2>4 DEF EndCopy, linkVars
    <3> QED
      BY <1>0, <1>6, <2>4, <3>1, <3>2, <3>3 DEF EndCopy
  <2> QED
    BY <1>10, <2>3, <2>4
<1>11. ASSUME NEW s \in Stages, BeginTasks(s) \/ EndTasks(s) PROVE LastFrameInv'
  <2>1. LastFrameStage(s)'
    BY <1>0, <1>11 DEF LastFrameStage, BeginTasks, EndTasks, Read
  <2> QED
    BY <1>0, <1>6, <1>11, <2>1 DEF BeginTasks, EndTasks, linkVars
\* The sender hands on what its tasks have made of the last frame.
<1>12. ASSUME NEW s \in Stages, pc[s] = "output", frame'[s] = frame[s] PROVE
             Finished(s)' = Frames => output[s] = Frames
  <2>1. Finished(s)' = Frames => frame[s] = Frames
    BY <1>0, <1>12, <1>b, Ends DEF Finished, Onward, Busy, FramesOrdered
  <2> QED
    BY <1>12, <2>1 DEF LastFrameStage
<1>13. ASSUME NEW s \in Stages, SendQueued(s) PROVE LastFrameInv'
  <2>1. /\ pc[s] = "output" /\ s \in Links /\ frame' = frame /\ s # Last
        /\ pc' = [pc EXCEPT ![s] = "ran"]
        /\ buffer' = [buffer EXCEPT ![s] = output[s]] /\ queued' = [queued EXCEPT ![s] = @ + 1]
        /\ UNCHANGED <<input, output, seen, ready, delivered>>
    BY <1>13, <1>a DEF SendQueued, Sends, Push
  <2>2. \A t \in Stages : LastFrameStage(t)'
    BY <1>0, <1>1, <2>1, <1>13 DEF Busy
  <2>3. LastFrameLink(s)'
    BY <1>0, <1>12, <2>1 DEF LastFrameLink
  <2>4. \A l \in Links : l # s => LastFrameLink(l)'
    BY <1>0, <1>a, <1>c, <1>2, <2>1
  <2>5. LastFrameOut'
    BY <1>0, <1>3, <2>1, Ends
  <2> QED
    BY <2>2, <2>3, <2>4, <2>5
<1>14. ASSUME NEW s \in Stages, SendDirect(s) PROVE LastFrameInv'
  <2>1. /\ pc[s] = "output" /\ s \in Links /\ frame' = frame /\ s # Last /\ queued[s] = 0
        /\ RanAndNotified(s, s + 1)
        /\ ready' = [ready EXCEPT ![s] = TRUE]
        /\ input' = IF s \in SenderCopies THEN [input EXCEPT ![s + 1] = output[s]] ELSE input
        /\ UNCHANGED <<output, seen, queued, buffer, delivered>>
    BY <1>14, <1>a DEF SendDirect, Sends, CopyDirect, LinksInv, LinkInv
  <2>x. s + 1 \in Stages /\ s + 1 # s
    BY <1>a, <2>1
  <2>2. /\ s + 1 \in Stages /\ s + 1 # s
        /\ \A t \in Stages : t # s => pc'[t] = pc[t] \/ (pc[t] = "asleep" /\ pc'[t] = "woken")
        /\ pc'[s] = "ran"
    BY <1>0, <2>x, <2>1 DEF RanAndNotified, Notified
  <2>3. frame[s + 1] # Frames
    <3>1. frame[s + 1] = Frames =>
            frame[s + 1] + queued[s] + (IF ready[s] THEN 1 ELSE 0) >= Frames
      BY <1>0, <2>1, <2>2, Ends
    <3> QED
      BY <2>1, <3>1, TakenWasSent
  <2>4. \A t \in Stages : LastFrameStage(t)'
    <3>1. LastFrameStage(s + 1)'
      BY <2>1, <2>3 DEF LastFrameStage
    <3>2. ASSUME NEW t \in Stages, t # s + 1 PROVE LastFrameStage(t)'
      <4>1. input'[t] = input[t]
        BY <1>0, <2>1, <3>2
      <4> QED
        BY <1>1, <2>1, <2>2, <4>1 DEF Busy
    <3> QED
      BY <3>1, <3>2
  <2>5. LastFrameLink(s)'
    <3>1. s \in SenderCopies => input'[s + 1] = output[s]
      BY <1>0, <2>1, <2>2
    <3> QED
      BY <1>0, <1>12, <2>1, <3>1 DEF LastFrameLink
  <2>6. ASSUME NEW l \in Links, l # s PROVE LastFrameLink(l)'
    <3>1. l \in Stages /\ l + 1 # s + 1 /\ l + 1 \in Stages
      BY <1>a, <2>6, Ends
    <3>2. input'[l + 1] = input[l + 1] /\ ready'[l] = ready[l] /\ Finished(l)' = Finished(l)
      BY <1>0, <1>c, <2>1, <2>2, <2>6, <3>1
    <3> QED
      BY <1>2, <2>1, <3>2
  <2>7. LastFrameOut'
    BY <1>3, <2>1, <2>2, Ends
  <2> QED
    BY <2>4, <2>5, <2>6, <2>7
<1>15. ASSUME NEW s \in Stages, Deliver(s) PROVE LastFrameInv'
  <2>1. /\ pc[s] = "output" /\ s = Last /\ delivered' = Append(delivered, output[s])
        /\ UNCHANGED <<frame, input, output, seen, linkVars>>
        /\ pc' = [pc EXCEPT ![s] = "ran"] \/ RanAndNotified(s, 0)
    BY <1>15 DEF Deliver, OpenGate
  <2>2. /\ \A t \in Stages : t # s => pc'[t] = pc[t] \/ (pc[t] = "asleep" /\ pc'[t] = "woken")
        /\ pc'[s] = "ran"
    <3>1. CASE RanAndNotified(s, 0)
      BY <1>0, <3>1, Ends DEF RanAndNotified, Notified
    <3>2. CASE pc' = [pc EXCEPT ![s] = "ran"]
      BY <1>0, <3>2
    <3> QED
      BY <2>1, <3>1, <3>2
  <2>3. \A t \in Stages : LastFrameStage(t)'
    BY <1>1, <2>1, <2>2 DEF Busy
  <2>4. \A l \in Links : LastFrameLink(l)'
    BY <1>2, <1>a, <1>c, <2>1, <2>2 DEF linkVars
  <2>5. LastFrameOut'
    <3>1. output[s] \in Content /\ (frame[s] = Frames => output[s] = Frames)
      BY <1>0, <2>1 DEF LastFrameStage
    <3>2. Len(delivered') > 0 /\ delivered'[Len(delivered')] = output[s]
      BY <1>0, <2>1, <3>1
    <3> QED
      BY <2>1, <3>1, <3>2 DEF LastFrameOut
  <2> QED
    BY <2>3, <2>4, <2>5
<1>16. ASSUME Report \/ UNCHANGED vars PROVE LastFrameInv'
  BY <1>16 DEF Report, vars, linkVars, LastFrameStage, LastFrameLink, LastFrameOut, Finished
<1>17. \A s \in Stages : ~WriteToCut(s)
  BY DEF WriteToCut, Uncut
<1> QED
  BY <1>5, <1>7, <1>8, <1>9, <1>10, <1>11, <1>13, <1>14, <1>15, <1>16, <1>17
     DEF Next, StageStep, Terminated

\* However many frames are lost on the way to it, the last result that the last
\* stage of an uncut pipeline writes is that of the last frame.
THEOREM NewestFrameArrives == Spec => []LastFrameArrives
<1>1. CASE Uncut
  <2>1. TypeInv /\ LinksInv /\ FramesOrdered /\ TimesInv /\ LastFrameInv /\ [Next]_vars
          /\ (TypeInv /\ LinksInv /\ FramesOrdered /\ TimesInv)' => LastFrameInv'
    BY <1>1, LastFrameStep
  <2>2. Init => LastFrameInv
    BY LastFrameInit
  <2>3. FramesOrdered /\ LastFrameInv => LastFrameArrives
    BY Ends DEF FramesOrdered, LastFrameInv, LastFrameOut, LastFrameArrives
  <2> QED
    BY <1>1, <2>1, <2>2, <2>3, UncutInvariant, PTL DEF Spec
<1>2. CASE ~Uncut
  <2>1. LastFrameArrives
    BY <1>2 DEF LastFrameArrives, Uncut
  <2> QED
    BY <2>1, PTL
<1> QED
  BY <1>1, <1>2

-----------------------------------------------------------------------------
(***************************************************************************)
(* The gated, uncut pipeline implements Lockstep, for every number of      *)
(* stages and frames and whichever side of each link copies.               *)
(*                                                                         *)
(* The argument: one token is always somewhere - in the open gate, with    *)
(* the one stage that holds a frame, or on the one link it is on - so that *)
(* nothing else writes what its holder reads.                              *)
(***************************************************************************)

LockstepConfig == Gated(0) /\ Cuts = {}

Working(s) == pc[s] \in Busy
Full(l) == queued[l] > 0 \/ ready[l]

\* The token is in one place.
OneHolder ==
  /\ \A s, t \in Stages : Working(s) /\ Working(t) => s = t
  /\ \A s \in Stages, l \in Links : ~(Working(s) /\ Full(l))
  /\ \A l, m \in Links : Full(l) /\ Full(m) => l = m
  /\ start_frame => /\ \A s \in Stages : ~Working(s)
                    /\ \A l \in Links : ~Full(l)
  /\ \A l \in Links : queued[l] <= 1 /\ (ready[l] => queued[l] = 0)

\* The stages after the token are one frame behind the first.
Behind(p, s) == IF p < s THEN frame[0] - 1 ELSE frame[0]

Counts ==
  /\ \A s, t \in Stages : Working(t) => frame[s] = Behind(t, s)
  /\ \A l \in Links, s \in Stages : Full(l) => frame[s] = Behind(l, s)
  /\ start_frame => /\ \A s \in Stages : frame[s] = frame[0]
                    /\ Len(delivered) = frame[0]
  /\ Len(delivered) = Finished(Last)
  /\ \A s \in Stages :
       /\ frame[s] <= Frames
       /\ pc[s] \in {"launched", "input", "asleep", "woken"} => frame[s] < Frames

\* Whoever has the token has the frame it stands for.
Contents ==
  /\ \A s \in Stages :
       /\ pc[s] \in {"tasks", "running", "output"} => input[s] = frame[s]
       /\ pc[s] = "running" => seen[s] = frame[s]
       /\ pc[s] = "output" => output[s] = frame[s]
       /\ pc[s] \in {"copy", "copying"} => output[s - 1] = frame[s]
       /\ pc[s] = "copying" => seen[s] = frame[s]
  /\ \A l \in Links :
       /\ queued[l] > 0 => buffer[l] = frame[l]
       /\ ready[l] => IF l \in SenderCopies THEN input[l + 1] = frame[l]
                                            ELSE output[l] = frame[l]

ResultsInOrder == \A i \in 1 .. Len(delivered) : delivered[i] = i

LockInv == OneHolder /\ Counts /\ Contents /\ ResultsInOrder

LEMMA LockInvInit == LockstepConfig /\ Init => LockInv
<1> SUFFICES ASSUME LockstepConfig, Init PROVE LockInv
  OBVIOUS
<1>0. Last \in Stages /\ 0 \in Stages /\ Frames \in Nat /\ Frames > 0
  BY PipelineAssumption DEF Stages, Last, Frames, PipelineAssumption
<1>1. OneHolder
  BY LinkEnds DEF Init, OneHolder, Working, Full, Busy
<1>2. Counts
  BY <1>0, LinkEnds DEF Init, Counts, Working, Full, Busy, Finished
<1>3. Contents /\ ResultsInOrder
  BY LinkEnds DEF Init, Contents, ResultsInOrder
<1>4. QED
  BY <1>1, <1>2, <1>3 DEF LockInv

LEMMA LockInvStep ==
  LockstepConfig /\ TypeInv /\ LinksInv /\ LockInv /\ [Next]_vars => LockInv'
<1> SUFFICES ASSUME LockstepConfig, TypeInv, LinksInv, LockInv, [Next]_vars
             PROVE  LockInv'
  OBVIOUS
<1> USE DEF Goto, TakeInput, CloseGate, CanPop, TakeReady, AfterHandOff, Push,
        Notified, CopyDirect, StampsStart, Samples, linkVars, timeVars, Working, Full, Busy
<1>0. /\ pc \in [Stages -> Place] /\ frame \in [Stages -> Nat]
      /\ input \in [Stages -> Content] /\ output \in [Stages -> Content]
      /\ seen \in [Stages -> Content] /\ start_frame \in BOOLEAN
      /\ waiting \in [Links -> BOOLEAN] /\ ready \in [Links -> BOOLEAN]
      /\ queued \in [Links -> Nat] /\ buffer \in [Links -> Content]
      /\ delivered \in Seq(Content)
      /\ CopiersReceive
  BY DEF TypeInv, TypeOK
<1>a. /\ \A l \in Links : l \in Stages /\ l + 1 \in Stages /\ l # Last
      /\ \A s \in Stages :
           /\ s \in Nat
           /\ s # 0 => s - 1 \in Links
           /\ s # Last => s \in Links
           /\ s <= Last
      /\ 0 \in Stages /\ Last \in Stages /\ -1 \notin Links /\ Cuts = {}
      /\ Gated(0) /\ Frames \in Nat
  BY LinkEnds, PipelineAssumption
     DEF Stages, Links, Last, Frames, PipelineAssumption, LockstepConfig
<1>b. OneHolder /\ Counts /\ Contents /\ ResultsInOrder
  BY DEF LockInv
\* A receive moves the token from its link to its stage.
<1>c. ASSUME NEW l \in Links, Full(l)
      PROVE  /\ \A m \in Links : m # l => queued[m] = 0 /\ ~ready[m]
             /\ \A t \in Stages : pc[t] \notin Busy
             /\ ~start_frame
             /\ queued[l] = 0 \/ (queued[l] = 1 /\ ~ready[l])
  BY <1>0, <1>b, <1>c DEF OneHolder
<1>d. ASSUME NEW l \in Links, Full(l), NEW place \in Busy, TakeInput(l + 1, place),
             \A m \in Links : queued'[m] = 0 /\ ready'[m] = FALSE,
             UNCHANGED <<start_frame, delivered>>
      PROVE  OneHolder' /\ Counts'
  <2>1. \A t \in Stages : pc'[t] \in Busy => t = l + 1
    BY <1>0, <1>a, <1>c, <1>d
  <2>2. OneHolder'
    BY <1>c, <1>d, <2>1 DEF OneHolder
  <2>3. \A t \in Stages : frame'[t] = Behind(l + 1, t)'
    <3>1. /\ l + 1 \in Stages /\ l + 1 # 0 /\ l \in Int
          /\ \A t \in Stages : frame[t] = Behind(l, t)
      BY <1>a, <1>b, <1>d, LinkEnds DEF Counts
    <3>2. frame'[0] = frame[0] /\ frame'[l + 1] = frame[0] /\ frame[0] \in Nat
      BY <1>0, <1>a, <1>d, <3>1 DEF Behind
    <3>3. ASSUME NEW t \in Stages PROVE frame'[t] = Behind(l + 1, t)'
      <4>1. t \in Int /\ (t # l + 1 => frame'[t] = frame[t])
        BY <1>0, <1>a, <1>d
      <4>2. QED
        BY <3>1, <3>2, <4>1 DEF Behind
    <3>4. QED
      BY <3>3
  <2>4. Len(delivered') = Finished(Last)'
    BY <1>0, <1>a, <1>b, <1>c, <1>d, <2>1, SMTT(60) DEF Counts, Finished
  <2>5. \A t \in Stages :
          /\ frame'[t] <= Frames
          /\ pc'[t] \in {"launched", "input", "asleep", "woken"} => frame'[t] < Frames
    BY <1>0, <1>a, <1>b, <1>d, <2>3 DEF Counts, Behind
  <2>6. Counts'
    BY <1>c, <1>d, <2>1, <2>3, <2>4, <2>5 DEF Counts
  <2>7. QED
    BY <2>2, <2>6
<1>1. ASSUME NEW s \in Stages, ReadFreely(s) \/ WriteToCut(s) PROVE LockInv'
  BY <1>a, <1>1 DEF ReadFreely, WriteToCut, Receives, Gated
<1>2. ASSUME NEW s \in Stages, Launch(s) PROVE LockInv'
  <2>1. OneHolder'
    BY <1>0, <1>a, <1>b, <1>2 DEF OneHolder, Launch
  <2>2. Counts'
    BY <1>0, <1>a, <1>b, <1>2 DEF OneHolder, Counts, Behind, Finished, Launch
  <2>3. Contents'
    BY <1>0, <1>a, <1>b, <1>2 DEF OneHolder, Contents, Launch
  <2>4. ResultsInOrder'
    BY <1>0, <1>b, <1>2 DEF ResultsInOrder, Launch
  <2>5. QED
    BY <2>1, <2>2, <2>3, <2>4 DEF LockInv
<1>3. ASSUME NEW s \in Stages, WaitAtGate(s) PROVE LockInv'
  <2>1. OneHolder'
    BY <1>0, <1>a, <1>b, <1>3 DEF OneHolder, WaitAtGate
  <2>2. Counts'
    BY <1>0, <1>a, <1>b, <1>3
       DEF OneHolder, Counts, Behind, Finished, WaitAtGate
  <2>3. Contents'
    BY <1>0, <1>a, <1>b, <1>3 DEF OneHolder, Contents, WaitAtGate
  <2>4. ResultsInOrder'
    BY <1>0, <1>b, <1>3 DEF ResultsInOrder, WaitAtGate
  <2>5. QED
    BY <2>1, <2>2, <2>3, <2>4 DEF LockInv
<1>4. ASSUME NEW s \in Stages, WaitForSender(s) PROVE LockInv'
  <2>1. OneHolder'
    BY <1>0, <1>a, <1>b, <1>4 DEF OneHolder, WaitForSender, AtWait
  <2>2. Counts'
    BY <1>0, <1>a, <1>b, <1>4, SMTT(60)
       DEF OneHolder, Counts, Behind, Finished, WaitForSender, AtWait
  <2>3. Contents'
    BY <1>0, <1>a, <1>b, <1>4 DEF OneHolder, Contents, WaitForSender, AtWait
  <2>4. ResultsInOrder'
    BY <1>0, <1>b, <1>4 DEF ResultsInOrder, WaitForSender
  <2>5. QED
    BY <2>1, <2>2, <2>3, <2>4 DEF LockInv
<1>5. ASSUME NEW s \in Stages, WakeSpuriously(s) PROVE LockInv'
  <2>1. OneHolder'
    BY <1>0, <1>a, <1>b, <1>5 DEF OneHolder, WakeSpuriously
  <2>2. Counts'
    BY <1>0, <1>a, <1>b, <1>5
       DEF OneHolder, Counts, Behind, Finished, WakeSpuriously
  <2>3. Contents'
    BY <1>0, <1>a, <1>b, <1>5 DEF OneHolder, Contents, WakeSpuriously
  <2>4. ResultsInOrder'
    BY <1>0, <1>b, <1>5 DEF ResultsInOrder, WakeSpuriously
  <2>5. QED
    BY <2>1, <2>2, <2>3, <2>4 DEF LockInv
<1>6. ASSUME NEW s \in Stages, Sample(s) \/ EndRun(s) PROVE LockInv'
  <2>1. /\ UNCHANGED <<frame, queued, ready, start_frame, delivered>>
        /\ UNCHANGED <<input, output, seen, buffer>>
        /\ \A t \in Stages : pc'[t] = pc[t] \/ (pc[t] \notin Busy /\ pc'[t] \notin Busy)
        /\ \A t \in Stages : pc'[t] \in {"launched", "input", "asleep", "woken"}
             => pc[t] \in {"launched", "input", "asleep", "woken"} \/ frame[t] # Frames
    BY <1>0, <1>6 DEF Sample, EndRun
  <2>2. /\ \A t \in Stages : Working(t)' <=> Working(t)
        /\ \A l \in Links : Full(l)' <=> Full(l)
        /\ Finished(Last)' = Finished(Last)
    BY <1>a, <2>1 DEF Finished
  <2>3. OneHolder'
    BY <1>b, <2>1, <2>2 DEF OneHolder
  <2>4. \A t \in Stages :
          /\ frame'[t] <= Frames
          /\ pc'[t] \in {"launched", "input", "asleep", "woken"} => frame'[t] < Frames
    BY <1>0, <1>a, <1>b, <2>1 DEF Counts
  <2>5. Counts'
    <3>1. \A t, u \in Stages : Working(t)' => frame'[u] = Behind(t, u)'
      BY <1>b, <2>1, <2>2 DEF Counts, Behind
    <3>2. \A l \in Links, u \in Stages : Full(l)' => frame'[u] = Behind(l, u)'
      BY <1>b, <2>1, <2>2 DEF Counts, Behind
    <3>3. start_frame' => /\ \A t \in Stages : frame'[t] = frame'[0]
                          /\ Len(delivered') = frame'[0]
      BY <1>b, <2>1 DEF Counts
    <3>4. Len(delivered') = Finished(Last)'
      BY <1>b, <2>1, <2>2 DEF Counts
    <3> QED
      BY <2>4, <3>1, <3>2, <3>3, <3>4 DEF Counts
  <2>6. Contents'
    <3>1. \A t \in Stages :
            /\ pc'[t] \in {"tasks", "running", "output"} => input'[t] = frame'[t]
            /\ pc'[t] = "running" => seen'[t] = frame'[t]
            /\ pc'[t] = "output" => output'[t] = frame'[t]
            /\ pc'[t] \in {"copy", "copying"} => output'[t - 1] = frame'[t]
            /\ pc'[t] = "copying" => seen'[t] = frame'[t]
      BY <1>b, <2>1 DEF Contents
    <3> QED
      BY <1>b, <2>1, <3>1 DEF Contents
  <2>7. ResultsInOrder'
    BY <1>b, <2>1 DEF ResultsInOrder
  <2> QED
    BY <2>3, <2>5, <2>6, <2>7 DEF LockInv
<1>7. ASSUME NEW s \in Stages, PassGate(s) PROVE LockInv'
  <2>1. OneHolder'
    BY <1>0, <1>a, <1>b, <1>7 DEF OneHolder, PassGate, Gated
  <2>2. Counts'
    BY <1>0, <1>a, <1>b, <1>7
       DEF OneHolder, Counts, Behind, Finished, PassGate, Gated
  <2>3. Contents'
    BY <1>0, <1>a, <1>b, <1>7 DEF OneHolder, Contents, PassGate, Gated
  <2>4. ResultsInOrder'
    BY <1>0, <1>b, <1>7 DEF ResultsInOrder, PassGate
  <2>5. QED
    BY <2>1, <2>2, <2>3, <2>4 DEF LockInv
<1>8. ASSUME NEW s \in Stages, ReceiveQueued(s) PROVE LockInv'
  <2>1. PICK l \in Links : s = l + 1 /\ s - 1 = l
    BY <1>a, <1>8 DEF ReceiveQueued, Receives
  <2>2. Full(l) /\ queued[l] = 1 /\ ~ready[l]
    BY <1>0, <1>8, <1>c, <2>1 DEF ReceiveQueued
  <2>3. \A m \in Links : queued'[m] = 0 /\ ready'[m] = FALSE
    BY <1>0, <1>8, <1>c, <2>1, <2>2 DEF ReceiveQueued
  <2>4. OneHolder' /\ Counts'
    BY <1>8, <1>d, <2>1, <2>2, <2>3 DEF ReceiveQueued
  <2>5. input'[s] = frame'[s]
    BY <1>0, <1>8, <1>a, <1>b, <2>1, <2>2, SMTT(60)
       DEF ReceiveQueued, Contents, Counts, Behind
  <2>6. pc'[s] = "tasks" /\ \A t \in Stages : t # s => pc'[t] \notin Busy
    BY <1>0, <1>8, <1>c, <2>2 DEF ReceiveQueued
  <2>7. Contents'
    BY <2>3, <2>5, <2>6 DEF Contents
  <2>8. ResultsInOrder'
    BY <1>b, <1>8 DEF ResultsInOrder, ReceiveQueued
  <2>9. QED
    BY <2>4, <2>7, <2>8 DEF LockInv
<1>9. ASSUME NEW s \in Stages, ReceiveDirect(s) PROVE LockInv'
  <2>1. PICK l \in Links : s = l + 1 /\ s - 1 = l
    BY <1>a, <1>9 DEF ReceiveDirect, AtWait, Receives
  <2>2. Full(l) /\ queued[l] = 0 /\ ready[l]
    BY <1>0, <1>9, <1>b, <2>1 DEF ReceiveDirect, OneHolder
  <2>3. \A m \in Links : queued'[m] = 0 /\ ready'[m] = FALSE
    BY <1>0, <1>9, <1>c, <2>1, <2>2 DEF ReceiveDirect
  <2>4. OneHolder' /\ Counts'
    <3>1. CASE l \in SenderCopies
      BY <1>9, <1>d, <2>1, <2>2, <2>3, <3>1 DEF ReceiveDirect
    <3>2. CASE l \notin SenderCopies
      BY <1>9, <1>d, <2>1, <2>2, <2>3, <3>2 DEF ReceiveDirect
    <3>3. QED
      BY <3>1, <3>2
  <2>5. frame'[s] = frame[l]
    BY <1>0, <1>9, <1>a, <1>b, <2>1, <2>2 DEF ReceiveDirect, Counts, Behind
  <2>6. IF l \in SenderCopies THEN pc'[s] = "tasks" /\ input[s] = frame[l]
                              ELSE pc'[s] = "copy" /\ output[l] = frame[l]
    BY <1>0, <1>9, <1>b, <2>1, <2>2 DEF ReceiveDirect, Contents
  <2>7. \A t \in Stages : t # s => pc'[t] \notin Busy
    BY <1>0, <1>9, <1>c, <2>2 DEF ReceiveDirect
  <2>8. Contents'
    BY <1>9, <2>1, <2>3, <2>5, <2>6, <2>7 DEF ReceiveDirect, Contents
  <2>9. ResultsInOrder'
    BY <1>b, <1>9 DEF ResultsInOrder, ReceiveDirect
  <2>10. QED
    BY <2>4, <2>8, <2>9 DEF LockInv
<1>10. ASSUME NEW s \in Stages, BeginCopy(s) PROVE LockInv'
  <2>1. OneHolder'
    BY <1>0, <1>a, <1>b, <1>10, SMTT(60)
       DEF OneHolder, BeginCopy, Receives, CopiersReceive
  <2>2. Counts'
    BY <1>0, <1>a, <1>b, <1>10
       DEF OneHolder, Counts, Behind, Finished, BeginCopy, Receives,
           CopiersReceive
  <2>3. Contents'
    BY <1>0, <1>a, <1>b, <1>10
       DEF OneHolder, Contents, BeginCopy, Receives, CopiersReceive
  <2>4. ResultsInOrder'
    BY <1>0, <1>b, <1>10 DEF ResultsInOrder, BeginCopy
  <2>5. QED
    BY <2>1, <2>2, <2>3, <2>4 DEF LockInv
<1>11. ASSUME NEW s \in Stages, EndCopy(s) PROVE LockInv'
  <2>1. OneHolder'
    BY <1>0, <1>a, <1>b, <1>11
       DEF OneHolder, EndCopy, Read, Receives, CopiersReceive
  <2>2. Counts'
    BY <1>0, <1>a, <1>b, <1>11
       DEF OneHolder, Counts, Behind, Finished, EndCopy, Read, Receives,
           CopiersReceive
  <2>3. Contents'
    BY <1>0, <1>a, <1>b, <1>11
       DEF OneHolder, Contents, EndCopy, Read, Receives, CopiersReceive
  <2>4. ResultsInOrder'
    BY <1>0, <1>b, <1>11 DEF ResultsInOrder, EndCopy
  <2>5. QED
    BY <2>1, <2>2, <2>3, <2>4 DEF LockInv
<1>12. ASSUME NEW s \in Stages, BeginTasks(s) PROVE LockInv'
  <2>1. OneHolder'
    BY <1>0, <1>a, <1>b, <1>12 DEF OneHolder, BeginTasks
  <2>2. Counts'
    BY <1>0, <1>a, <1>b, <1>12
       DEF OneHolder, Counts, Behind, Finished, BeginTasks
  <2>3. Contents'
    BY <1>0, <1>a, <1>b, <1>12 DEF OneHolder, Contents, BeginTasks
  <2>4. ResultsInOrder'
    BY <1>0, <1>b, <1>12 DEF ResultsInOrder, BeginTasks
  <2>5. QED
    BY <2>1, <2>2, <2>3, <2>4 DEF LockInv
<1>13. ASSUME NEW s \in Stages, EndTasks(s) PROVE LockInv'
  <2>1. OneHolder'
    BY <1>0, <1>a, <1>b, <1>13 DEF OneHolder, EndTasks, Read
  <2>2. Counts'
    BY <1>0, <1>a, <1>b, <1>13
       DEF OneHolder, Counts, Behind, Finished, EndTasks, Read
  <2>3. Contents'
    BY <1>0, <1>a, <1>b, <1>13 DEF OneHolder, Contents, EndTasks, Read
  <2>4. ResultsInOrder'
    BY <1>0, <1>b, <1>13 DEF ResultsInOrder, EndTasks
  <2>5. QED
    BY <2>1, <2>2, <2>3, <2>4 DEF LockInv
<1>14. ASSUME NEW s \in Stages, SendQueued(s) PROVE LockInv'
  <2>1. OneHolder'
    BY <1>0, <1>a, <1>b, <1>14 DEF OneHolder, SendQueued, Sends
  <2>2. Counts'
    BY <1>0, <1>a, <1>b, <1>14
       DEF OneHolder, Counts, Behind, Finished, SendQueued, Sends
  <2>3. Contents'
    BY <1>0, <1>a, <1>b, <1>14 DEF OneHolder, Contents, SendQueued, Sends
  <2>4. ResultsInOrder'
    BY <1>0, <1>b, <1>14 DEF ResultsInOrder, SendQueued
  <2>5. QED
    BY <2>1, <2>2, <2>3, <2>4 DEF LockInv
<1>15. ASSUME NEW s \in Stages, SendDirect(s) PROVE LockInv'
  <2>1. /\ \A t \in Stages : pc[t] \in Busy => t = s
        /\ \A m \in Links : queued[m] = 0 /\ ~ready[m]
        /\ ~start_frame
    BY <1>0, <1>b, <1>15 DEF OneHolder, SendDirect
  <2>2. \A t \in Stages : pc'[t] \notin Busy
    BY <1>0, <1>a, <1>15, <2>1 DEF SendDirect, RanAndNotified, Sends
  <2>3. OneHolder'
    BY <1>0, <1>15, <2>1, <2>2 DEF OneHolder, SendDirect
  <2>4. Counts'
    BY <1>0, <1>a, <1>b, <1>15, SMTT(60)
       DEF OneHolder, Counts, Behind, Finished, SendDirect, RanAndNotified,
           Sends
  <2>5. Contents'
    BY <1>0, <1>a, <1>b, <1>15
       DEF OneHolder, Contents, SendDirect, RanAndNotified, Sends
  <2>6. ResultsInOrder'
    BY <1>0, <1>b, <1>15 DEF ResultsInOrder, SendDirect
  <2>7. QED
    BY <2>3, <2>4, <2>5, <2>6 DEF LockInv
<1>16. ASSUME NEW s \in Stages, Deliver(s) PROVE LockInv'
  <2>0. /\ \A t \in Stages : pc[t] \in Busy => t = s
        /\ \A m \in Links : queued[m] = 0 /\ ~ready[m]
        /\ pc[s] = "output" /\ s = Last /\ output[s] = frame[s]
        /\ UNCHANGED <<frame, queued, ready>>
    BY <1>0, <1>b, <1>16 DEF OneHolder, Contents, Deliver
  <2>1. (pc' = [pc EXCEPT ![s] = "ran"]) \/ RanAndNotified(s, 0)
    BY <1>16 DEF Deliver, OpenGate
  <2>2. \A t \in Stages : pc'[t] \notin Busy
    BY <1>0, <1>a, <2>0, <2>1, ZenonT(60) DEF RanAndNotified
  <2>3. OneHolder'
    BY <1>0, <2>0, <2>2 DEF OneHolder
  <2>4. Counts'
    BY <1>0, <1>a, <1>b, <1>16, SMTT(60)
       DEF OneHolder, Counts, Behind, Finished, Deliver, OpenGate, RanAndNotified
  <2>5. Contents'
    BY <2>0, <2>2 DEF Contents
  <2>6. frame[s] = Len(delivered) + 1
    BY <1>0, <1>b, <2>0 DEF Counts, Finished
  <2>7. ResultsInOrder'
    BY <1>0, <1>b, <1>16, <2>0, <2>6 DEF ResultsInOrder, Deliver
  <2>8. QED
    BY <2>3, <2>4, <2>5, <2>7 DEF LockInv
<1>17. CASE UNCHANGED vars \/ Report
  BY <1>b, <1>17
     DEF vars, Report, LockInv, OneHolder, Counts, Behind, Finished,
                    Contents, ResultsInOrder
<1>18. QED
  BY <1>1, <1>2, <1>3, <1>4, <1>5, <1>6, <1>7, <1>8, <1>9, <1>10,
     <1>11, <1>12, <1>13, <1>14, <1>15, <1>16, <1>17
     DEF Next, StageStep, Terminated

LEMMA LockInvariant ==
  ASSUME LockstepConfig
  PROVE  Spec => [](TypeInv /\ LinksInv /\ LockInv)
<1>1. Init => TypeInv /\ LinksInv /\ LockInv
  BY TypeInvInit, LinksInvInit, LockInvInit
<1>2. TypeInv /\ LinksInv /\ LockInv /\ [Next]_vars
        => (TypeInv /\ LinksInv /\ LockInv)'
  BY TypeInvStep, LinksInvStep, LockInvStep
<1>3. QED
  BY <1>1, <1>2, PTL DEF Spec

\* With the gate every result is that of the next frame: none is lost,
\* repeated, overtaken or mixed with another.
THEOREM DeliversInOrder == Spec => []InOrder
<1>1. CASE LockstepConfig
  <2>1. LockInv => InOrder
    BY DEF LockInv, ResultsInOrder, InOrder
  <2>2. QED
    BY <1>1, <2>1, LockInvariant, PTL
<1>2. CASE ~LockstepConfig
  <2>1. InOrder
    BY <1>2 DEF InOrder, LockstepConfig
  <2>2. QED
    BY <2>1, PTL
<1>3. QED
  BY <1>1, <1>2

\* The gated, uncut pipeline implements Lockstep: each frame is taken only
\* after the result of the one before it is out.
THEOREM RefinesLockstep ==
  ASSUME LockstepConfig
  PROVE  Spec => ImplementsLockstep
<1>0. Gated(0) /\ Cuts = {} /\ 0 \in Stages /\ Last \in Stages
  BY PipelineAssumption
     DEF LockstepConfig, Stages, Last, PipelineAssumption
<1>1. Init => Abstract!Init
  BY <1>0 DEF Init, Abstract!Init
<1>2. TypeInv /\ LinksInv /\ LockInv /\ [Next]_vars => [Abstract!Next]_(Abstract!vars)
  <2> SUFFICES ASSUME TypeInv, LinksInv, LockInv, [Next]_vars
               PROVE  Abstract!Next \/ UNCHANGED <<frame[0], delivered>>
    BY DEF Abstract!vars
  <2> USE <1>0 DEF Goto, TakeInput, CloseGate, CanPop, TakeReady, AfterHandOff,
        Push, Notified, CopyDirect, StampsStart, Samples
  <2>0. /\ frame \in [Stages -> Nat] /\ delivered \in Seq(Content)
        /\ OneHolder /\ Counts /\ Contents
    BY DEF TypeInv, TypeOK, LockInv
  <2>1. ASSUME NEW s \in Stages, PassGate(s) PROVE Abstract!Issue
    BY <2>0, <2>1 DEF PassGate, Gated, Counts, Abstract!Issue
  <2>2. ASSUME NEW s \in Stages, Deliver(s) PROVE Abstract!Deliver
    <3>1. /\ s = Last /\ pc[s] = "output" /\ frame' = frame
          /\ delivered' = Append(delivered, output[s])
      BY <2>2 DEF Deliver
    <3>2. frame[s] = frame[0] /\ output[s] = frame[s]
      <4>1. Working(s)
        BY <3>1 DEF Working, Busy
      <4>2. QED
        BY <2>0, <3>1, <4>1, PipelineAssumption
           DEF Counts, Contents, Behind, Last, PipelineAssumption
    <3>3. Len(delivered) = frame[0] - 1
      BY <2>0, <3>1, <3>2 DEF Counts, Finished, Busy
    <3>4. QED
      BY <2>0, <3>1, <3>2, <3>3 DEF Abstract!Deliver
  <2>3. ASSUME NEW s \in Stages, ReceiveQueued(s) \/ ReceiveDirect(s)
        PROVE  UNCHANGED <<frame[0], delivered>>
    <3>1. s # 0
      BY <2>3, LinkEnds
         DEF ReceiveQueued, ReceiveDirect, AtWait, Receives, Stages
    <3>2. QED
      BY <2>0, <2>3, <3>1 DEF ReceiveQueued, ReceiveDirect
  <2>4. ASSUME NEW s \in Stages PROVE ~ReadFreely(s)
    BY PipelineAssumption
       DEF ReadFreely, Receives, Stages, Links, Gated, PipelineAssumption
  <2>5. CASE UNCHANGED <<frame, delivered>>
    BY <2>5
  <2>6. QED
    BY <2>1, <2>2, <2>3, <2>4, <2>5
       DEF Next, StageStep, Terminated, vars, Launch, WaitAtGate,
           WaitForSender, WakeSpuriously, BeginCopy, EndCopy, BeginTasks,
           EndTasks, SendQueued, SendDirect, WriteToCut, Sample, EndRun, Report,
           Abstract!Next
<1>3. QED
  BY <1>1, <1>2, LockInvariant, PTL
     DEF Spec, ImplementsLockstep, Abstract!Spec, LockstepConfig
=============================================================================
