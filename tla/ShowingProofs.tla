--------------------------- MODULE ShowingProofs ---------------------------
(***************************************************************************)
(* Proofs about Pipeline, for any number of media, chains and runs; and    *)
(* about Showing: the processing of a showing implements what its delivery *)
(* assumes of it, so that all that is proved of Pipeline and of Delivery   *)
(* holds of the two together.                                              *)
(*                                                                         *)
(* Pipeline rests on what a chain finds stored when it comes to a step     *)
(* (OnlyChain), which holds until finish is accepted over earlier          *)
(* processing, and on little that holds ever after (RunsKnown, ReportKept, *)
(* StartIsKnown).                                                          *)
(*                                                                         *)
(* In Showing each needs the other.  That a chain finds what it needs is   *)
(* Pipeline's invariant; that a showing whose review ended is never a      *)
(* draft again, and that a draft showing has no report but a pending one,  *)
(* is Delivery's.  SInv therefore joins both invariants, and adds what     *)
(* they say of the rows that the two share.  What was proved of Delivery   *)
(* comes in as D, with the same chains in the place of its own as in Seen. *)
(***************************************************************************)
EXTENDS Showing, FiniteSetTheorems, TLAPS

\* The steps of the current run, from the given one on, are still to be done.
Later == [transcribe |-> Steps,
          zone_detection |-> Steps \ {"transcribe"},
          observation_extraction |-> {"observation_extraction", "report_generation"},
          report_generation |-> {"report_generation"},
          none |-> {}]

\* What a chain finds stored when it comes to a step: the output of the earlier
\* steps, once, and nothing of the later ones.
Stored(step) ==
  /\ \A a \in Audio : transcripts[a] \in 0..1
  /\ step = "transcribe" => \A a \in Audio : transcripts[a] = 0
  /\ step # "transcribe" => \A a \in finished : transcripts[a] = 1
  /\ zones = IF step \in {"transcribe", "zone_detection"} THEN 0 ELSE 1
  /\ findings = IF step \in {"report_generation", "none"} THEN 1 ELSE 0

Active(k) == task[k].step # "none"

\* The statuses a task can find in the row of its own run.
Matching(t) ==
  status \in CASE t.phase = "committed" -> {"queued"}
               [] t.phase = "queued" ->
                    (CASE t.step = "transcribe" -> {"queued"}
                       [] t.step = "zone_detection" -> {"queued", "transcribing"}
                       [] t.step = "observation_extraction" -> {"queued", "structuring"}
                       [] OTHER -> {"queued", "generating"})
               [] OTHER ->
                    (CASE t.step = "transcribe" -> {"transcribing"}
                       [] t.step = "zone_detection" -> {"structuring"}
                       [] t.step = "observation_extraction" -> {"queued", "structuring"}
                       [] OTHER -> {"queued", "generating"})

OnlyChain ==
  /\ finished \subseteq uploaded
  /\ \A a \in Audio : transcripts[a] \in 0..1
  /\ zones \in 0..1 /\ findings \in 0..1
  /\ \A j, k \in Chains : Active(j) /\ Active(k) => j = k
  /\ status \in {"not_started", "failed", "ready"} => \A k \in Chains : ~Active(k)
  /\ status = "not_started" => Stored("transcribe")
  /\ status = "failed" => Stored(failedStep)
  /\ status = "ready" => Stored("none")
  /\ \A k \in Chains : Active(k) =>
       /\ Stored(task[k].step)
       /\ Matching(task[k])
       /\ \A s \in Later[task[k].step] : <<run, s>> \notin succeeded
       /\ task[k].step = "transcribe" /\ task[k].phase = "working" =>
            finished \subseteq task[k].media \cup task[k].made

\* Runs that succeeded, or that a task works for, are not newer than the row's.
RunsKnown ==
  /\ \A r \in 1..MaxRuns : \A s \in Steps : <<r, s>> \in succeeded => r <= run
  /\ \A k \in Chains : /\ Active(k) => run >= 1
                       /\ task[k].run <= run
                       /\ task[k].phase = "working" => task[k].run >= 1

\* A draft showing has the report its run, or its status, says it has.
ReportKept ==
  draft /\ (status = "ready" \/ <<run, "report_generation">> \in succeeded) => reports = 1

FailedIsKnown == status = "failed" => failedStep # "none"

\* A showing that was never finished has neither tasks nor reports.
StartIsKnown ==
  status = "not_started" => draft /\ reports = 0 /\ \A k \in Chains : ~Active(k)

\* A report is there for review once its chain is through, and then only until
\* it is confirmed.
ReviewFollows ==
  /\ reports = 1 => status = "ready"
  /\ ~draft => status = "ready" /\ reports = 0

IInv ==
  /\ TypeOK /\ FailedIsKnown /\ StartIsKnown
  /\ RunsKnown /\ ReportKept
  /\ (~retried => OnlyChain /\ ReviewFollows)

-----------------------------------------------------------------------------
(* Types                                                                   *)

\* The tasks that actions store are well-formed.
LEMMA TaskShapes ==
  /\ \A step \in Steps \cup {"none"}, phase \in {"committed", "queued"} :
       At(step, phase) \in Task
  /\ \A step \in Steps, r \in 0..MaxRuns, m, n \in SUBSET Audio :
       Working(step, r, m, n) \in Task
  /\ \A t \in Task : t.step # "none" => t.step \in Steps
  /\ \A step \in Steps : Following[step] \in Steps \cup {"none"}
  BY PipelineAssumption DEF At, Working, Task, Steps, Following

\* Storing a task at one chain.
LEMMA TaskStored ==
  ASSUME task \in [Chains -> Task], NEW k \in Chains, NEW t \in Task,
         task' = [task EXCEPT ![k] = t]
  PROVE  task' \in [Chains -> Task]
  OBVIOUS

\* The chains' tasks stay well-formed under a step of one of them.
LEMMA TypeOfTask ==
  ASSUME TypeOK, NEW k \in Chains, RunStep(k)
  PROVE  task' \in [Chains -> Task]
<1>1. task \in [Chains -> Task] /\ run \in 0..MaxRuns /\ uploaded \subseteq Audio
  BY DEF TypeOK
<1>2. task[k] \in Task
  BY <1>1
<1>3. ASSUME Advance(k), task[k].step \in Steps PROVE task' \in [Chains -> Task]
  <2>1. Queued(Following[task[k].step]) \in Task
    BY <1>3, TaskShapes DEF Queued
  <2> QED BY <1>1, <1>3, <2>1 DEF Advance
<1>4. ASSUME NEW m \in SUBSET Audio, Begin(k, m), task[k].step \in Steps
      PROVE  task' \in [Chains -> Task]
  <2>1. Working(task[k].step, run, m, {}) \in Task
    BY <1>1, <1>4, TaskShapes
  <2> QED BY <1>1, <1>4, <2>1 DEF Begin
<1>5. CASE BrokerAccepts(k)
  <2>1. Queued(task[k].step) \in Task
    BY <1>2, <1>5, TaskShapes DEF BrokerAccepts, Queued
  <2> QED BY <1>1, <1>5, <2>1 DEF BrokerAccepts
<1>6. CASE SkipStep(k)
  BY <1>3, <1>6 DEF SkipStep, Starts, Steps
<1>7. CASE BeginTranscribe(k)
  BY <1>1, <1>4, <1>7 DEF BeginTranscribe, Starts, Steps
<1>8. ASSUME NEW a \in Audio, TranscribeMedium(k, a) PROVE task' \in [Chains -> Task]
  <2> DEFINE t == Working("transcribe", task[k].run, task[k].media \ {a},
                 IF transcripts[a] = 0 THEN task[k].made \cup {a} ELSE task[k].made)
  <2>1. t \in Task
    BY <1>2 DEF Working, Task, Steps
  <2>2. task' = [task EXCEPT ![k] = t]
    BY <1>8 DEF TranscribeMedium
  <2> QED BY <1>1, <2>1, <2>2
<1>9. CASE CommitTranscribe(k)
  BY <1>3, <1>9 DEF CommitTranscribe, Works, Steps
<1>10. CASE BeginZones(k)
  BY <1>4, <1>10 DEF BeginZones, Starts, Steps, WithSegments
<1>11. CASE CommitZones(k)
  BY <1>3, <1>11 DEF CommitZones, Works, Steps
<1>12. CASE BeginExtraction(k)
  BY <1>4, <1>12 DEF BeginExtraction, Starts, Steps, WithSegments
<1>13. CASE CommitExtraction(k)
  BY <1>3, <1>13 DEF CommitExtraction, Works, Steps
<1>14. CASE BeginReport(k)
  BY <1>4, <1>14 DEF BeginReport, Starts, Steps
<1>15. CASE CommitReport(k)
  BY <1>3, <1>15 DEF CommitReport, Works, Steps
<1>16. CASE StepFails(k)
  BY <1>1, <1>16, TaskShapes DEF StepFails, Queued
<1> QED BY <1>5, <1>6, <1>7, <1>8, <1>9, <1>10, <1>11, <1>12, <1>13, <1>14, <1>15, <1>16
     DEF RunStep, InnerStep

\* The run and step a commit adds to pipeline_runs.
LEMMA TypeOfRecord ==
  ASSUME TypeOK, RunsKnown, NEW k \in Chains, task[k].phase = "working",
         task[k].step # "none", Record(k)
  PROVE  succeeded' \subseteq (1..MaxRuns) \X Steps
<1>1. task[k] \in Task /\ task[k].run >= 1
  BY DEF TypeOK, RunsKnown
<1>2. task[k].run \in 1..MaxRuns /\ task[k].step \in Steps
  BY <1>1, PipelineAssumption, TaskShapes DEF Task
<1> QED BY <1>2 DEF TypeOK, Record

\* Types of everything else under a step of a chain.
LEMMA TypeStep ==
  ASSUME TypeOK, RunsKnown, NEW k \in Chains, RunStep(k)
  PROVE  TypeOK'
<1>1. task' \in [Chains -> Task]
  BY TypeOfTask
<1>2. task[k] \in Task
  BY DEF TypeOK
<1>3. CASE BrokerAccepts(k)
  BY <1>1, <1>3 DEF BrokerAccepts, TypeOK, visitVars, outputVars, historyVars
<1>4. CASE SkipStep(k)
  BY <1>1, <1>4 DEF SkipStep, TypeOK, Status, Busy, outputVars, historyVars
<1>5. CASE BeginTranscribe(k)
  BY <1>1, <1>5 DEF BeginTranscribe, TypeOK, Status, Busy, outputVars, historyVars
<1>6. ASSUME NEW a \in Audio, TranscribeMedium(k, a) PROVE TypeOK'
  BY <1>1, <1>6 DEF TranscribeMedium, TypeOK, visitVars, outputVars, historyVars
<1>7. CASE CommitTranscribe(k)
  BY <1>1, <1>7 DEF CommitTranscribe, TypeOK, visitVars, historyVars
<1>8. CASE BeginZones(k)
  BY <1>1, <1>8 DEF BeginZones, TypeOK, Status, Busy, outputVars, historyVars
<1>9. CASE CommitZones(k)
  BY <1>1, <1>9, TypeOfRecord DEF CommitZones, Works, TypeOK, visitVars, historyVars
<1>10. CASE BeginExtraction(k)
  BY <1>1, <1>10 DEF BeginExtraction, TypeOK, visitVars, outputVars, historyVars
<1>11. CASE CommitExtraction(k)
  BY <1>1, <1>11, TypeOfRecord
     DEF CommitExtraction, Works, TypeOK, Status, Busy, historyVars
<1>12. CASE BeginReport(k)
  BY <1>1, <1>12 DEF BeginReport, TypeOK, visitVars, outputVars, historyVars
<1>13. CASE CommitReport(k)
  BY <1>1, <1>13, TypeOfRecord
     DEF CommitReport, Works, TypeOK, Status, historyVars
<1>14. CASE StepFails(k)
  BY <1>1, <1>2, <1>14, TaskShapes DEF StepFails, TypeOK, Status, outputVars, historyVars
<1> QED BY <1>3, <1>4, <1>5, <1>6, <1>7, <1>8, <1>9, <1>10, <1>11, <1>12, <1>13, <1>14
     DEF RunStep, InnerStep

\* Types under the other actions.
LEMMA TypeOther ==
  ASSUME TypeOK,
         \/ \E a \in Audio : UploadAudio(a)
         \/ \E k \in Chains : FinishShowing(k) \/ ReprocessShowing(k) \/ ProcessDies(k)
         \/ ConfirmShowing
         \/ UNCHANGED vars
  PROVE  TypeOK'
<1>1. ASSUME NEW k \in Chains, NEW step \in Steps, Enqueue(k, step)
      PROVE  /\ task' \in [Chains -> Task] /\ run' \in 0..MaxRuns
             /\ status' \in Status /\ failedStep' \in Steps \cup {"none"}
  <2>1. At(step, "committed") \in Task
    BY TaskShapes
  <2> QED BY <1>1, <2>1, PipelineAssumption DEF Enqueue, TypeOK, Status, Busy
<1>2. ASSUME NEW a \in Audio, UploadAudio(a) PROVE TypeOK'
  BY <1>2 DEF UploadAudio, TypeOK, outputVars, historyVars
<1>3. ASSUME NEW k \in Chains, FinishShowing(k) PROVE TypeOK'
  <2>1. Enqueue(k, "transcribe") /\ "transcribe" \in Steps
    BY <1>3 DEF FinishShowing, Steps
  <2>2. retried' \in BOOLEAN
    BY <1>3 DEF FinishShowing
  <2> QED BY <1>1, <1>3, <2>1, <2>2 DEF FinishShowing, TypeOK, outputVars
<1>4. ASSUME NEW k \in Chains, ReprocessShowing(k) PROVE TypeOK'
  <2>1. Enqueue(k, failedStep) /\ failedStep \in Steps
    BY <1>4 DEF ReprocessShowing, TypeOK
  <2>2. transcripts' \in [Audio -> Nat]
    BY <1>4 DEF ReprocessShowing, TypeOK
  <2>3. zones' \in Nat /\ findings' \in Nat /\ reports' \in 0..1
    BY <1>4 DEF ReprocessShowing, TypeOK
  <2> QED BY <1>1, <1>4, <2>1, <2>2, <2>3 DEF ReprocessShowing, TypeOK, historyVars
<1>5. ASSUME NEW k \in Chains, ProcessDies(k) PROVE TypeOK'
  BY <1>5, TaskShapes DEF ProcessDies, TypeOK, Queued, visitVars, outputVars
<1>6. CASE ConfirmShowing
  <2>1. reports' \in 0..1
    BY <1>6 DEF ConfirmShowing
  <2>2. draft' \in BOOLEAN
    BY <1>6 DEF ConfirmShowing
  <2> QED BY <1>6, <2>1, <2>2 DEF ConfirmShowing, TypeOK, historyVars
<1>7. CASE UNCHANGED vars
  BY <1>7 DEF vars, TypeOK, visitVars, outputVars, historyVars
<1> QED BY <1>2, <1>3, <1>4, <1>5, <1>6, <1>7

-----------------------------------------------------------------------------
(* What overlapping chains cannot break                                    *)

\* A failed showing knows its step, a ready one has its report.
LEMMA KeptStep ==
  ASSUME TypeOK, FailedIsKnown, RunsKnown, ReportKept, NEW k \in Chains, RunStep(k)
  PROVE  FailedIsKnown' /\ RunsKnown' /\ ReportKept'
<1> DEFINE Known == FailedIsKnown' /\ RunsKnown' /\ ReportKept'
<1>1. /\ run \in Nat /\ task \in [Chains -> Task]
      /\ succeeded \subseteq (1..MaxRuns) \X Steps
  BY PipelineAssumption DEF TypeOK
<1>2. task[k].step # "none" => run >= 1
  BY DEF RunsKnown, Active
<1>3. ASSUME NEW step, run' = run, succeeded' = succeeded, task[k].step # "none",
             task' = [task EXCEPT ![k] = Queued(step)]
      PROVE  RunsKnown'
  BY <1>1, <1>2, <1>3 DEF Queued, At, RunsKnown, Active
<1>4. ASSUME NEW m, Begin(k, m), run' = run, succeeded' = succeeded, task[k].step # "none"
      PROVE  RunsKnown'
  BY <1>1, <1>2, <1>4 DEF Begin, Working, RunsKnown, Active
<1>5. ASSUME NEW step, Record(k), run' = run, task[k].step # "none",
             task[k].phase = "working", task' = [task EXCEPT ![k] = Queued(step)]
      PROVE  RunsKnown'
  <2>1. task[k].run <= run
    BY DEF RunsKnown
  <2>2. \A r \in 1..MaxRuns : \A s \in Steps : <<r, s>> \in succeeded' => r <= run
    BY <1>5, <2>1 DEF Record, RunsKnown
  <2> QED BY <1>1, <1>2, <1>5, <2>2 DEF Queued, At, RunsKnown, Active
<1>6. CASE BrokerAccepts(k)
  BY <1>3, <1>6 DEF BrokerAccepts, FailedIsKnown, ReportKept, visitVars, outputVars
<1>7. CASE SkipStep(k)
  <2>1. RunsKnown'
    BY <1>3, <1>7 DEF SkipStep, Advance, Starts, outputVars
  <2>2. FailedIsKnown'
    BY <1>7 DEF SkipStep, FailedIsKnown
  <2>3. ReportKept'
    BY <1>7 DEF SkipStep, ReportKept, Done, outputVars
  <2> QED BY <2>1, <2>2, <2>3
<1>8. CASE BeginTranscribe(k)
  BY <1>4, <1>8 DEF BeginTranscribe, Starts, FailedIsKnown, ReportKept, outputVars
<1>9. ASSUME NEW a \in Audio, TranscribeMedium(k, a) PROVE Known
  <2>1. RunsKnown'
    BY <1>1, <1>9
       DEF TranscribeMedium, Works, Working, RunsKnown, Active, visitVars, outputVars
  <2> QED BY <1>9, <2>1 DEF TranscribeMedium, FailedIsKnown, ReportKept, visitVars,
                        outputVars
<1>10. CASE CommitTranscribe(k)
  BY <1>3, <1>10
     DEF CommitTranscribe, Works, Advance, FailedIsKnown, ReportKept, visitVars
<1>11. CASE BeginZones(k)
  BY <1>4, <1>11 DEF BeginZones, Starts, FailedIsKnown, ReportKept, outputVars
<1>12. CASE CommitZones(k)
  <2>1. RunsKnown'
    BY <1>5, <1>12 DEF CommitZones, Works, Advance, visitVars
  <2> QED BY <1>12, <2>1
          DEF CommitZones, Works, Record, FailedIsKnown, ReportKept, visitVars
<1>13. CASE BeginExtraction(k)
  BY <1>4, <1>13
     DEF BeginExtraction, Starts, FailedIsKnown, ReportKept, visitVars, outputVars
<1>14. CASE CommitExtraction(k)
  <2>1. RunsKnown'
    BY <1>5, <1>14 DEF CommitExtraction, Works, Advance
  <2> QED BY <1>14, <2>1 DEF CommitExtraction, Works, Record, FailedIsKnown, ReportKept
<1>15. CASE BeginReport(k)
  BY <1>4, <1>15
     DEF BeginReport, Starts, FailedIsKnown, ReportKept, visitVars, outputVars
<1>16. CASE CommitReport(k)
  <2>1. RunsKnown'
    BY <1>5, <1>16 DEF CommitReport, Works, Advance
  <2> QED BY <1>16, <2>1 DEF CommitReport, FailedIsKnown, ReportKept
<1>17. CASE StepFails(k)
  BY <1>3, <1>17 DEF StepFails, FailedIsKnown, ReportKept, outputVars
<1> QED BY <1>6, <1>7, <1>8, <1>9, <1>10, <1>11, <1>12, <1>13, <1>14, <1>15, <1>16, <1>17
     DEF RunStep, InnerStep

\* The same under the other actions.
LEMMA KeptOther ==
  ASSUME TypeOK, FailedIsKnown, RunsKnown, ReportKept,
         \/ \E a \in Audio : UploadAudio(a)
         \/ \E k \in Chains : FinishShowing(k) \/ ReprocessShowing(k) \/ ProcessDies(k)
         \/ ConfirmShowing
         \/ UNCHANGED vars
  PROVE  FailedIsKnown' /\ RunsKnown' /\ ReportKept'
<1> DEFINE Known == FailedIsKnown' /\ RunsKnown' /\ ReportKept'
<1>1. /\ run \in Nat /\ task \in [Chains -> Task]
      /\ succeeded \subseteq (1..MaxRuns) \X Steps
  BY PipelineAssumption DEF TypeOK
<1>2. ASSUME NEW k \in Chains, NEW step, Enqueue(k, step), succeeded' = succeeded
      PROVE  Known
  <2>1. \A j \in Chains : task[j].run \in Nat
    BY <1>1 DEF Task
  <2>2. RunsKnown'
    <3>1. \A r \in 1..MaxRuns : \A s \in Steps : <<r, s>> \in succeeded' => r <= run'
      BY <1>1, <1>2 DEF Enqueue, RunsKnown
    <3>2. ASSUME NEW j \in Chains
          PROVE  /\ run' >= 1
                 /\ task'[j].run <= run'
                 /\ task'[j].phase = "working" => task'[j].run >= 1
      BY <1>1, <1>2, <2>1 DEF Enqueue, At, RunsKnown
    <3> QED BY <3>1, <3>2 DEF RunsKnown
  <2>3. <<run + 1, "report_generation">> \notin succeeded
    <3>1. run + 1 \in 1..MaxRuns /\ ~(run + 1 <= run) /\ "report_generation" \in Steps
      BY <1>1, <1>2, PipelineAssumption DEF Steps, Enqueue
    <3> QED BY <3>1 DEF RunsKnown
  <2> QED BY <1>2, <2>2, <2>3 DEF Enqueue, FailedIsKnown, ReportKept
<1>3. ASSUME NEW a \in Audio, UploadAudio(a) PROVE Known
  BY <1>3 DEF UploadAudio, FailedIsKnown, RunsKnown, Active, ReportKept, outputVars
<1>4. ASSUME NEW k \in Chains, FinishShowing(k) PROVE Known
  BY <1>2, <1>4 DEF FinishShowing, outputVars
<1>5. ASSUME NEW k \in Chains, ReprocessShowing(k) PROVE Known
  BY <1>2, <1>5 DEF ReprocessShowing
<1>6. ASSUME NEW k \in Chains, ProcessDies(k) PROVE Known
  <2>1. RunsKnown'
    BY <1>1, <1>6
       DEF ProcessDies, Queued, At, RunsKnown, Active, visitVars, outputVars
  <2> QED BY <1>6, <2>1 DEF ProcessDies, FailedIsKnown, ReportKept, visitVars, outputVars
<1>7. CASE ConfirmShowing
  BY <1>7 DEF ConfirmShowing, FailedIsKnown, RunsKnown, Active, ReportKept
<1>8. CASE UNCHANGED vars
  BY <1>8 DEF vars, visitVars, outputVars, FailedIsKnown, RunsKnown, Active, ReportKept
<1> QED BY <1>3, <1>4, <1>5, <1>6, <1>7, <1>8

-----------------------------------------------------------------------------
(* What holds while finish is not accepted over earlier processing         *)

\* Only one chain exists: a step of it finds what the earlier steps stored, and
\* stores its own output once.
LEMMA OnlyStep ==
  ASSUME IInv, ~retried, NEW k \in Chains, RunStep(k)
  PROVE  OnlyChain'
<1>1. /\ TypeOK /\ FailedIsKnown /\ RunsKnown /\ ReportKept /\ OnlyChain
  BY DEF IInv
<1>2. /\ task \in [Chains -> Task] /\ task[k] \in Task
      /\ transcripts \in [Audio -> Nat] /\ zones \in Nat /\ findings \in Nat
      /\ uploaded \subseteq Audio /\ finished \subseteq Audio /\ finished \subseteq uploaded
  BY <1>1 DEF TypeOK, OnlyChain
<1>3. Active(k)
  BY DEF RunStep, InnerStep, BrokerAccepts, SkipStep, BeginTranscribe, TranscribeMedium,
         CommitTranscribe, BeginZones, CommitZones, BeginExtraction, CommitExtraction,
         BeginReport, CommitReport, StepFails, Starts, Works, Active
<1>4. /\ \A j \in Chains : j # k => ~Active(j)
      /\ status \notin {"not_started", "failed", "ready"}
      /\ Stored(task[k].step)
      /\ Matching(task[k])
      /\ \A s \in Later[task[k].step] : <<run, s>> \notin succeeded
      /\ task[k].step = "transcribe" /\ task[k].phase = "working" =>
            finished \subseteq task[k].media \cup task[k].made
  BY <1>1, <1>3 DEF OnlyChain
<1>5. task[k].step \in Steps
  BY <1>2, <1>3, TaskShapes DEF Active
<1>6. ASSUME NEW t, task' = [task EXCEPT ![k] = t],
             finished' = finished, uploaded' = uploaded,
             \A a \in Audio : transcripts'[a] \in 0..1,
             zones' \in 0..1, findings' \in 0..1,
             status' \notin {"not_started", "failed", "ready"},
             t.step # "none" =>
               /\ Stored(t.step)'
               /\ Matching(t)'
               /\ \A s \in Later[t.step] : <<run', s>> \notin succeeded'
               /\ t.step = "transcribe" /\ t.phase = "working" =>
                     finished \subseteq t.media \cup t.made
      PROVE  OnlyChain'
  BY <1>2, <1>4, <1>6 DEF OnlyChain, Active
<1>7. ASSUME NEW t, task' = [task EXCEPT ![k] = t], t.step = "none",
             finished' = finished, uploaded' = uploaded,
             \A a \in Audio : transcripts'[a] \in 0..1,
             zones' \in 0..1, findings' \in 0..1,
             \/ status' = "failed" /\ Stored(failedStep)'
             \/ status' = "ready" /\ Stored("none")'
      PROVE  OnlyChain'
  BY <1>2, <1>4, <1>7 DEF OnlyChain, Active
<1>8. /\ \A a \in Audio : transcripts[a] \in 0..1
      /\ zones \in 0..1 /\ findings \in 0..1
  BY <1>1 DEF OnlyChain
<1>9. CASE BrokerAccepts(k)
  <2>1. PICK t : t = Queued(task[k].step)
    OBVIOUS
  <2>2. t.step = task[k].step /\ t.phase = "queued" /\ task' = [task EXCEPT ![k] = t]
    BY <1>9, <2>1 DEF Queued, At, BrokerAccepts
  <2>3. Stored(t.step)'
    BY <1>4, <1>9, <2>2 DEF BrokerAccepts, Stored, outputVars, historyVars
  <2>4. Matching(t)'
    BY <1>4, <1>5, <1>9, <2>2 DEF BrokerAccepts, Matching, visitVars
  <2> QED BY <1>4, <1>6, <1>8, <1>9, <2>2, <2>3, <2>4
          DEF BrokerAccepts, visitVars, outputVars, historyVars
<1>10. ~SkipStep(k)
  BY <1>4 DEF SkipStep, Starts, Matching, Done, Later, Steps
<1>11. CASE BeginTranscribe(k)
  <2>1. PICK t : t = Working("transcribe", run, uploaded, {})
    OBVIOUS
  <2>2. /\ t.step = "transcribe" /\ t.phase = "working" /\ t.media = uploaded
        /\ task' = [task EXCEPT ![k] = t] /\ task[k].step = "transcribe"
    BY <1>11, <2>1 DEF Working, BeginTranscribe, Begin, Starts
  <2>3. Stored(t.step)'
    BY <1>4, <1>11, <2>2 DEF BeginTranscribe, Stored, outputVars, historyVars
  <2>4. Matching(t)'
    BY <1>11, <2>2 DEF BeginTranscribe, Matching
  <2> QED BY <1>2, <1>4, <1>6, <1>8, <1>11, <2>2, <2>3, <2>4
          DEF BeginTranscribe, outputVars, historyVars
<1>12. ASSUME NEW a \in Audio, TranscribeMedium(k, a) PROVE OnlyChain'
  <2>1. PICK t : t = Working("transcribe", task[k].run, task[k].media \ {a},
                 IF transcripts[a] = 0 THEN task[k].made \cup {a} ELSE task[k].made)
    OBVIOUS
  <2>2. /\ t.step = "transcribe" /\ t.phase = "working"
        /\ task' = [task EXCEPT ![k] = t]
        /\ task[k].step = "transcribe" /\ task[k].phase = "working"
    BY <1>12, <2>1 DEF Working, TranscribeMedium, Works
  <2>3. task[k].media \cup task[k].made \subseteq t.media \cup t.made
    BY <1>4, <2>1, <2>2 DEF Working, Stored
  <2>4. Stored(t.step)'
    BY <1>4, <1>12, <2>2 DEF TranscribeMedium, Stored, outputVars, historyVars
  <2>5. Matching(t)'
    BY <1>4, <1>12, <2>2 DEF TranscribeMedium, Matching, visitVars
  <2> QED BY <1>4, <1>6, <1>8, <1>12, <2>2, <2>3, <2>4, <2>5
          DEF TranscribeMedium, visitVars, outputVars, historyVars
<1>13. CASE CommitTranscribe(k)
  <2>1. PICK t : t = Queued("zone_detection")
    OBVIOUS
  <2>2. /\ t.step = "zone_detection" /\ t.phase = "queued"
        /\ task' = [task EXCEPT ![k] = t]
        /\ task[k].step = "transcribe" /\ task[k].phase = "working"
    BY <1>13, <2>1 DEF Queued, At, CommitTranscribe, Works, Advance, Following
  <2>3. finished \subseteq task[k].made
    BY <1>4, <1>13, <2>2 DEF CommitTranscribe
  <2>4. /\ \A a \in Audio : transcripts[a] = 0
        /\ \A a \in Audio : transcripts'[a] = IF a \in task[k].made THEN 1 ELSE 0
    BY <1>4, <1>13, <2>2 DEF CommitTranscribe, Stored
  <2>5. Stored(t.step)'
    BY <1>2, <1>4, <1>13, <2>2, <2>3, <2>4 DEF CommitTranscribe, Stored, historyVars
  <2>6. Matching(t)'
    BY <1>4, <1>13, <2>2 DEF CommitTranscribe, Matching, visitVars
  <2>7. \A s \in Later["zone_detection"] : s \in Later["transcribe"]
    BY DEF Later
  <2>8. \A s \in Later[t.step] : <<run', s>> \notin succeeded'
    BY <1>4, <1>13, <2>2, <2>7 DEF CommitTranscribe, visitVars
  <2>9. /\ \A a \in Audio : transcripts'[a] \in 0..1
        /\ zones' \in 0..1 /\ findings' \in 0..1
    BY <1>8, <1>13, <2>4 DEF CommitTranscribe
  <2>10. /\ finished' = finished /\ uploaded' = uploaded /\ status' = status
    BY <1>13 DEF CommitTranscribe, visitVars, historyVars
  <2> QED BY <1>4, <1>6, <2>2, <2>5, <2>6, <2>8, <2>9, <2>10
<1>14. CASE BeginZones(k)
  <2>1. PICK t : t = Working("zone_detection", run, WithSegments, {})
    OBVIOUS
  <2>2. /\ t.step = "zone_detection" /\ t.phase = "working"
        /\ task' = [task EXCEPT ![k] = t] /\ task[k].step = "zone_detection"
    BY <1>14, <2>1 DEF Working, BeginZones, Begin, Starts
  <2>3. Stored(t.step)'
    BY <1>4, <1>14, <2>2 DEF BeginZones, Stored, outputVars, historyVars
  <2>4. Matching(t)'
    BY <1>14, <2>2 DEF BeginZones, Matching
  <2> QED BY <1>4, <1>6, <1>8, <1>14, <2>2, <2>3, <2>4
          DEF BeginZones, outputVars, historyVars
<1>15. ASSUME task[k].step # "transcribe", task[k].phase = "working", Record(k), run' = run
       PROVE  \A s \in Later[Following[task[k].step]] : <<run', s>> \notin succeeded'
  <2>1. /\ \A s \in Later[Following[task[k].step]] : s \in Later[task[k].step]
        /\ task[k].step \notin Later[Following[task[k].step]]
    BY <1>5, <1>15 DEF Later, Following, Steps
  <2> QED BY <1>4, <1>15, <2>1 DEF Record
<1>16. CASE CommitZones(k)
  <2>1. PICK t : t = Queued("observation_extraction")
    OBVIOUS
  <2>2. /\ t.step = "observation_extraction" /\ t.phase = "queued"
        /\ task' = [task EXCEPT ![k] = t]
        /\ task[k].step = "zone_detection" /\ task[k].phase = "working"
        /\ Following[task[k].step] = t.step
    BY <1>16, <2>1 DEF Queued, At, CommitZones, Works, Advance, Following
  <2>3. Stored(t.step)'
    BY <1>2, <1>4, <1>16, <2>2 DEF CommitZones, Stored, historyVars
  <2>4. Matching(t)'
    BY <1>4, <1>16, <2>2 DEF CommitZones, Matching, visitVars
  <2>5. zones' \in 0..1
    BY <2>2, <2>3 DEF Stored
  <2> QED BY <1>4, <1>6, <1>8, <1>15, <1>16, <2>2, <2>3, <2>4, <2>5
          DEF CommitZones, visitVars, historyVars
<1>17. CASE BeginExtraction(k)
  <2>1. PICK t : t = Working("observation_extraction", run, WithSegments, {})
    OBVIOUS
  <2>2. /\ t.step = "observation_extraction" /\ t.phase = "working"
        /\ task' = [task EXCEPT ![k] = t]
        /\ task[k].step = "observation_extraction" /\ task[k].phase = "queued"
    BY <1>17, <2>1 DEF Working, BeginExtraction, Begin, Starts
  <2>3. Stored(t.step)'
    BY <1>4, <1>17, <2>2 DEF BeginExtraction, Stored, outputVars, historyVars
  <2>4. Matching(t)'
    BY <1>4, <1>17, <2>2 DEF BeginExtraction, Matching, visitVars
  <2> QED BY <1>4, <1>6, <1>8, <1>17, <2>2, <2>3, <2>4
          DEF BeginExtraction, visitVars, outputVars, historyVars
<1>18. CASE CommitExtraction(k)
  <2>1. PICK t : t = Queued("report_generation")
    OBVIOUS
  <2>2. /\ t.step = "report_generation" /\ t.phase = "queued"
        /\ task' = [task EXCEPT ![k] = t]
        /\ task[k].step = "observation_extraction" /\ task[k].phase = "working"
        /\ Following[task[k].step] = t.step
    BY <1>18, <2>1 DEF Queued, At, CommitExtraction, Works, Advance, Following
  <2>3. Stored(t.step)'
    BY <1>2, <1>4, <1>18, <2>2 DEF CommitExtraction, Stored, historyVars
  <2>4. Matching(t)'
    BY <1>18, <2>2 DEF CommitExtraction, Matching
  <2>5. findings' \in 0..1
    BY <2>2, <2>3 DEF Stored
  <2> QED BY <1>4, <1>6, <1>8, <1>15, <1>18, <2>2, <2>3, <2>4, <2>5
          DEF CommitExtraction, historyVars
<1>19. CASE BeginReport(k)
  <2>1. PICK t : t = Working("report_generation", run, {}, {})
    OBVIOUS
  <2>2. /\ t.step = "report_generation" /\ t.phase = "working"
        /\ task' = [task EXCEPT ![k] = t]
        /\ task[k].step = "report_generation" /\ task[k].phase = "queued"
    BY <1>19, <2>1 DEF Working, BeginReport, Begin, Starts
  <2>3. Stored(t.step)'
    BY <1>4, <1>19, <2>2 DEF BeginReport, Stored, outputVars, historyVars
  <2>4. Matching(t)'
    BY <1>4, <1>19, <2>2 DEF BeginReport, Matching, visitVars
  <2> QED BY <1>4, <1>6, <1>8, <1>19, <2>2, <2>3, <2>4
          DEF BeginReport, visitVars, outputVars, historyVars
<1>20. CASE CommitReport(k)
  <2>1. PICK t : t = Queued("none")
    OBVIOUS
  <2>2. t.step = "none" /\ task' = [task EXCEPT ![k] = t] /\ task[k].step = "report_generation"
    BY <1>20, <2>1 DEF Queued, At, CommitReport, Works, Advance, Following
  <2>3. Stored("none")'
    BY <1>4, <1>20, <2>2 DEF CommitReport, Stored, historyVars
  <2> QED BY <1>7, <1>8, <1>20, <2>2, <2>3 DEF CommitReport, historyVars
<1>21. CASE StepFails(k)
  <2>1. PICK t : t = Queued("none")
    OBVIOUS
  <2>2. t.step = "none" /\ task' = [task EXCEPT ![k] = t]
    BY <1>21, <2>1 DEF Queued, At, StepFails
  <2>3. Stored(failedStep)'
    BY <1>4, <1>21 DEF StepFails, Stored, outputVars, historyVars
  <2> QED BY <1>7, <1>8, <1>21, <2>2, <2>3 DEF StepFails, outputVars, historyVars
<1> QED BY <1>9, <1>10, <1>11, <1>12, <1>13, <1>14, <1>16, <1>17, <1>18, <1>19, <1>20, <1>21
     DEF RunStep, InnerStep

\* The same for the requests and for deaths.
LEMMA OnlyOther ==
  ASSUME IInv, ~retried, ~retried',
         \/ \E a \in Audio : UploadAudio(a)
         \/ \E k \in Chains : FinishShowing(k) \/ ReprocessShowing(k) \/ ProcessDies(k)
         \/ ConfirmShowing
         \/ UNCHANGED vars
  PROVE  OnlyChain'
<1>1. TypeOK /\ RunsKnown /\ OnlyChain
  BY DEF IInv
<1>2. /\ task \in [Chains -> Task] /\ transcripts \in [Audio -> Nat]
      /\ uploaded \subseteq Audio /\ finished \subseteq uploaded
      /\ succeeded \subseteq (1..MaxRuns) \X Steps /\ run \in Nat
  BY <1>1, PipelineAssumption DEF TypeOK, OnlyChain
<1>3. ASSUME NEW k \in Chains, NEW step \in Steps, Enqueue(k, step), succeeded' = succeeded,
             \A j \in Chains : ~Active(j), finished' \subseteq uploaded',
             Stored(step)'
      PROVE  OnlyChain'
  <2>1. PICK t : t = At(step, "committed")
    OBVIOUS
  <2>2. /\ t.step = step /\ t.phase = "committed" /\ task' = [task EXCEPT ![k] = t]
        /\ status' = "queued" /\ run' = run + 1
    BY <1>3, <2>1 DEF At, Enqueue
  <2>3. \A s \in Later[step] : <<run', s>> \notin succeeded'
    <3>1. run + 1 \in 1..MaxRuns /\ ~(run + 1 <= run)
      BY <1>2, <1>3, PipelineAssumption DEF Enqueue
    <3>2. \A s \in Later[step] : s \in Steps
      BY DEF Later, Steps
    <3> QED BY <1>1, <1>3, <2>2, <3>1, <3>2 DEF RunsKnown
  <2>4. Matching(t)'
    BY <2>2 DEF Matching
  <2>5. \A j \in Chains : (task'[j].step # "none" => j = k) /\ task'[k] = t
    BY <1>2, <1>3, <2>2 DEF Active
  <2>6. /\ \A a \in Audio : transcripts'[a] \in 0..1
        /\ zones' \in 0..1 /\ findings' \in 0..1
    BY <1>3 DEF Stored
  <2> QED BY <1>3, <2>2, <2>3, <2>4, <2>5, <2>6 DEF OnlyChain, Active
<1>4. ASSUME NEW a \in Audio, UploadAudio(a) PROVE OnlyChain'
  <2>1. /\ uploaded \subseteq uploaded' /\ transcripts' = transcripts /\ zones' = zones
        /\ findings' = findings /\ status' = status /\ failedStep' = failedStep
        /\ run' = run /\ task' = task /\ finished' = finished /\ succeeded' = succeeded
    BY <1>4 DEF UploadAudio, outputVars, historyVars
  <2> QED BY <1>1, <2>1 DEF OnlyChain, Active, Stored, Matching
<1>5. ASSUME NEW k \in Chains, FinishShowing(k) PROVE OnlyChain'
  <2>1. FirstFinish
    BY <1>5 DEF FinishShowing
  <2>2. Stored("transcribe") /\ \A j \in Chains : ~Active(j)
    BY <1>1, <2>1 DEF FirstFinish, OnlyChain
  <2>3. Stored("transcribe")'
    BY <1>5, <2>2 DEF FinishShowing, Stored, outputVars
  <2>4. "transcribe" \in Steps /\ finished' \subseteq uploaded'
    BY <1>5 DEF FinishShowing, Steps
  <2> QED BY <1>3, <1>5, <2>2, <2>3, <2>4 DEF FinishShowing, outputVars
<1>6. ASSUME NEW k \in Chains, ReprocessShowing(k) PROVE OnlyChain'
  <2>1. /\ \A j \in Chains : ~Active(j)
        /\ Stored(failedStep) /\ failedStep \in Steps
    BY <1>1, <1>6 DEF ReprocessShowing, OnlyChain, TypeOK
  <2>2. PICK step : step = failedStep
    OBVIOUS
  <2>3. Stored(step)'
    BY <1>2, <1>6, <2>1, <2>2 DEF ReprocessShowing, Stored, Steps, historyVars
  <2> QED BY <1>2, <1>3, <1>6, <2>1, <2>2, <2>3 DEF ReprocessShowing, historyVars
<1>7. ASSUME NEW k \in Chains, ProcessDies(k) PROVE OnlyChain'
  <2>1. \A j \in Chains : task'[j].step = "none"
    BY <1>1, <1>2, <1>7 DEF ProcessDies, Queued, At, OnlyChain, Active
  <2>2. status' = status /\ status \notin {"not_started", "failed", "ready"}
    BY <1>1, <1>7 DEF ProcessDies, OnlyChain, Active, visitVars
  <2>3. /\ finished' = finished /\ uploaded' = uploaded /\ transcripts' = transcripts
        /\ zones' = zones /\ findings' = findings
    BY <1>7 DEF ProcessDies, visitVars, outputVars
  <2> QED BY <1>1, <2>1, <2>2, <2>3 DEF OnlyChain, Active
<1>8. CASE ConfirmShowing
  <2>1. /\ uploaded' = uploaded /\ transcripts' = transcripts /\ zones' = zones
        /\ findings' = findings /\ status' = status /\ failedStep' = failedStep
        /\ run' = run /\ task' = task /\ finished' = finished /\ succeeded' = succeeded
    BY <1>8 DEF ConfirmShowing, historyVars
  <2> QED BY <1>1, <2>1 DEF OnlyChain, Active, Stored, Matching
<1>9. CASE UNCHANGED vars
  BY <1>1, <1>9 DEF vars, visitVars, outputVars, historyVars, OnlyChain, Active, Stored,
                    Matching
<1> QED BY <1>4, <1>5, <1>6, <1>7, <1>8, <1>9

\* A showing that was started stays so.
LEMMA StartStep ==
  ASSUME StartIsKnown, [Next]_vars
  PROVE  StartIsKnown'
<1>1. ASSUME NEW k \in Chains, RunStep(k) PROVE StartIsKnown'
  <2>1. status # "not_started"
    BY <1>1 DEF RunStep, InnerStep, BrokerAccepts, SkipStep, BeginTranscribe,
         TranscribeMedium, CommitTranscribe, BeginZones, CommitZones, BeginExtraction,
         CommitExtraction, BeginReport, CommitReport, StepFails, Starts, Works,
         StartIsKnown, Active
  <2>2. status' # "not_started"
    BY <1>1, <2>1 DEF RunStep, InnerStep, BrokerAccepts, SkipStep, BeginTranscribe,
         TranscribeMedium, CommitTranscribe, BeginZones, CommitZones, BeginExtraction,
         CommitExtraction, BeginReport, CommitReport, StepFails, visitVars
  <2> QED BY <2>2 DEF StartIsKnown
<1>2. ASSUME NEW a \in Audio, UploadAudio(a) PROVE StartIsKnown'
  BY <1>2 DEF UploadAudio, StartIsKnown, Active, outputVars
<1>3. ASSUME NEW k \in Chains, FinishShowing(k) \/ ReprocessShowing(k)
      PROVE  StartIsKnown'
  BY <1>3 DEF FinishShowing, ReprocessShowing, Enqueue, StartIsKnown
<1>4. ASSUME NEW k \in Chains, ProcessDies(k) PROVE StartIsKnown'
  BY <1>4 DEF ProcessDies, StartIsKnown, Active, visitVars
<1>5. CASE ConfirmShowing
  BY <1>5 DEF ConfirmShowing, StartIsKnown
<1>6. CASE UNCHANGED vars
  BY <1>6 DEF vars, visitVars, outputVars, StartIsKnown, Active
<1> QED BY <1>1, <1>2, <1>3, <1>4, <1>5, <1>6 DEF Next

\* While finish is not accepted over earlier processing, no task is left once the
\* report is there.
LEMMA ReviewStep ==
  ASSUME IInv, ~retried, ~retried', [Next]_vars
  PROVE  ReviewFollows'
<1>1. OnlyChain /\ ReviewFollows /\ TypeOK /\ ReportKept
  BY DEF IInv
<1>2. reports \in 0..1 /\ draft \in BOOLEAN
  BY <1>1 DEF TypeOK
<1>3. ASSUME NEW k \in Chains, RunStep(k) PROVE ReviewFollows'
  <2>1. Active(k)
    BY <1>3 DEF RunStep, InnerStep, BrokerAccepts, SkipStep, BeginTranscribe,
         TranscribeMedium, CommitTranscribe, BeginZones, CommitZones, BeginExtraction,
         CommitExtraction, BeginReport, CommitReport, StepFails, Starts, Works, Active
  <2>2. status # "ready"
    BY <1>1, <2>1 DEF OnlyChain
  <2>3. draft /\ reports = 0
    BY <1>1, <1>2, <2>2 DEF ReviewFollows
  <2>4. draft' = draft
    BY <1>3 DEF RunStep, InnerStep, BrokerAccepts, SkipStep, BeginTranscribe,
         TranscribeMedium, CommitTranscribe, BeginZones, CommitZones, BeginExtraction,
         CommitExtraction, BeginReport, CommitReport, StepFails, visitVars
  <2>5. reports' = 0 \/ status' = "ready"
    BY <1>3, <2>3 DEF RunStep, InnerStep, BrokerAccepts, SkipStep, BeginTranscribe,
         TranscribeMedium, CommitTranscribe, BeginZones, CommitZones, BeginExtraction,
         CommitExtraction, BeginReport, CommitReport, StepFails, outputVars
  <2> QED BY <2>3, <2>4, <2>5 DEF ReviewFollows
<1>4. ASSUME NEW a \in Audio, UploadAudio(a) PROVE ReviewFollows'
  BY <1>1, <1>4 DEF UploadAudio, ReviewFollows, outputVars
<1>5. ASSUME NEW k \in Chains, FinishShowing(k) PROVE ReviewFollows'
  <2>1. status # "ready" /\ draft /\ draft' = draft /\ reports' = reports
    BY <1>5 DEF FinishShowing, FirstFinish, outputVars
  <2> QED BY <1>1, <1>2, <2>1 DEF ReviewFollows
<1>6. ASSUME NEW k \in Chains, ReprocessShowing(k) PROVE ReviewFollows'
  BY <1>6 DEF ReprocessShowing, ReviewFollows
<1>7. ASSUME NEW k \in Chains, ProcessDies(k) PROVE ReviewFollows'
  BY <1>1, <1>7 DEF ProcessDies, ReviewFollows, visitVars, outputVars
<1>8. CASE ConfirmShowing
  BY <1>1, <1>8 DEF ConfirmShowing, ReviewFollows
<1>9. CASE UNCHANGED vars
  BY <1>1, <1>9 DEF vars, visitVars, outputVars, ReviewFollows
<1> QED BY <1>3, <1>4, <1>5, <1>6, <1>7, <1>8, <1>9 DEF Next

-----------------------------------------------------------------------------
(* The theorems about Pipeline                                             *)

\* The inductive invariant holds initially and is preserved by every step.
LEMMA IInvInit == Init => IInv
<1> SUFFICES ASSUME Init PROVE IInv
  OBVIOUS
<1>1. task = [k \in Chains |-> Queued("none")] /\ Queued("none") \in Task
  BY TaskShapes DEF Init, Queued
<1>2. TypeOK
  <2>1. /\ run \in 0..MaxRuns /\ status \in Status /\ failedStep \in Steps \cup {"none"}
        /\ transcripts \in [Audio -> Nat] /\ reports \in 0..1
        /\ zones \in Nat /\ findings \in Nat
    BY PipelineAssumption DEF Init, Status
  <2>2. draft \in BOOLEAN /\ retried \in BOOLEAN /\ died \in BOOLEAN
    BY DEF Init
  <2> QED BY <1>1, <2>1, <2>2 DEF Init, TypeOK
<1>3. FailedIsKnown /\ ReportKept
  BY DEF Init, FailedIsKnown, ReportKept
<1>4. \A k \in Chains : task[k].step = "none" /\ task[k].phase = "queued" /\ task[k].run = 0
  BY <1>1 DEF Queued, At
<1>5. RunsKnown
  BY <1>4 DEF Init, RunsKnown, Active
<1>6. OnlyChain
  BY <1>4 DEF Init, OnlyChain, Active, Stored
<1>7. StartIsKnown /\ ReviewFollows
  BY <1>4 DEF Init, StartIsKnown, ReviewFollows, Active
<1> QED BY <1>2, <1>3, <1>5, <1>6, <1>7 DEF IInv

LEMMA IInvStep == IInv /\ [Next]_vars => IInv'
<1> SUFFICES ASSUME IInv, [Next]_vars PROVE IInv'
  OBVIOUS
<1>1. TypeOK /\ FailedIsKnown /\ RunsKnown /\ ReportKept
  BY DEF IInv
<1>4. StartIsKnown'
  BY StartStep DEF IInv
<1>2. ASSUME NEW k \in Chains, RunStep(k) PROVE IInv'
  <2>1. TypeOK' /\ FailedIsKnown' /\ RunsKnown' /\ ReportKept'
    BY <1>1, <1>2, TypeStep, KeptStep
  <2>2. retried' = retried
    BY <1>2 DEF RunStep, InnerStep, BrokerAccepts, SkipStep, BeginTranscribe,
                TranscribeMedium,
         CommitTranscribe, BeginZones, CommitZones, BeginExtraction, CommitExtraction,
         BeginReport, CommitReport, StepFails, historyVars
  <2>3. ~retried' => OnlyChain' /\ ReviewFollows'
    BY <1>2, <2>2, OnlyStep, ReviewStep
  <2> QED BY <1>4, <2>1, <2>3 DEF IInv
<1>3. ASSUME \/ \E a \in Audio : UploadAudio(a)
             \/ \E k \in Chains : FinishShowing(k) \/ ReprocessShowing(k) \/ ProcessDies(k)
             \/ ConfirmShowing
             \/ UNCHANGED vars
      PROVE  IInv'
  <2>1. TypeOK' /\ FailedIsKnown' /\ RunsKnown' /\ ReportKept'
    BY <1>1, <1>3, TypeOther, KeptOther
  <2>2. ~retried' => ~retried
    BY <1>3 DEF UploadAudio, FinishShowing, ReprocessShowing, ProcessDies, ConfirmShowing,
                vars, historyVars
  <2>3. ~retried' => OnlyChain' /\ ReviewFollows'
    BY <1>3, <2>2, OnlyOther, ReviewStep
  <2> QED BY <1>4, <2>1, <2>3 DEF IInv
<1> QED BY <1>2, <1>3 DEF Next

\* Every reachable state satisfies the inductive invariant.
THEOREM Invariance == Spec => []IInv
  BY IInvInit, IInvStep, PTL DEF Spec

\* Every reachable state has the declared types.
THEOREM TypeCorrectness == Spec => []TypeOK
<1>1. IInv => TypeOK
  BY DEF IInv
<1> QED BY <1>1, Invariance, PTL

\* However chains overlap and fail, a draft showing whose processing_status is
\* "ready" has a pending report (generate_report, reprocess_showing).
THEOREM ReadyHasItsReport == Spec => []ReadyHasReport
<1>1. IInv => ReadyHasReport
  BY DEF IInv, ReportKept, ReadyHasReport
<1> QED BY <1>1, Invariance, PTL

\* A failed showing names the step to resume from, and, unless finish was
\* accepted over earlier processing, none of its tasks runs any more.
THEOREM FailureStops == Spec => []FailedHasStopped
<1>1. IInv => FailedHasStopped
  BY DEF IInv, FailedIsKnown, OnlyChain, Active, FailedHasStopped
<1> QED BY <1>1, Invariance, PTL

\* Through any number of failures and reprocessings every medium has at most one
\* transcript and the showing at most one set of zones and of observations.
THEOREM NoSecondSet == Spec => []OneSetUnlessRetried
<1>1. ASSUME IInv PROVE OneSetUnlessRetried
  <2>1. ASSUME ~retried PROVE OneSetOfEvidence
    <3>1. /\ \A a \in Audio : transcripts[a] \in 0..1
          /\ zones \in 0..1 /\ findings \in 0..1
      BY <1>1, <2>1 DEF IInv, OnlyChain
    <3> QED BY <3>1 DEF OneSetOfEvidence
  <2> QED BY <2>1 DEF OneSetUnlessRetried
<1> QED BY <1>1, Invariance, PTL

\* reprocess_showing finds the output of every step before the failed one.
THEOREM ResumptionHasInputs == Spec => []ResumeHasInputs
<1>1. ASSUME IInv, ~retried, status = "failed" PROVE Stored(failedStep) /\ failedStep \in Steps
  BY <1>1 DEF IInv, TypeOK, FailedIsKnown, OnlyChain
<1>2. IInv => ResumeHasInputs
  BY <1>1 DEF ResumeHasInputs, Stored, Steps
<1> QED BY <1>2, Invariance, PTL

\* A showing that is ready, or that the agent confirmed, was processed completely.
THEOREM ReadyIsWhole == Spec => []ReadyIsComplete
<1>1. ASSUME IInv, ~retried, status = "ready" \/ ~draft PROVE Stored("none")
  BY <1>1 DEF IInv, OnlyChain, ReviewFollows
<1>2. IInv => ReadyIsComplete
  BY <1>1 DEF ReadyIsComplete, Stored
<1> QED BY <1>2, Invariance, PTL

\* To the phone, the showing's processing does only what CaptureApi says.
LEMMA PhoneStep ==
  ASSUME IInv, [Next]_vars
  PROVE  [ \/ \E a \in Audio : Phone!CompleteMedia(a)
           \/ Phone!FinishShowing \/ Phone!Process \/ Phone!ConfirmShowing ]_(Phone!apiVars)
<1> DEFINE Goal == [ \/ \E a \in Audio : Phone!CompleteMedia(a)
                     \/ Phone!FinishShowing \/ Phone!Process
                     \/ Phone!ConfirmShowing ]_(Phone!apiVars)
<1>1. TypeOK /\ StartIsKnown
  BY DEF IInv
<1>2. uploaded \subseteq Audio /\ draft \in BOOLEAN /\ status \in Status
  BY <1>1 DEF TypeOK
<1>3. ASSUME draft' = draft, uploaded' = uploaded, status' = status PROVE Goal
  BY <1>3 DEF Phone!apiVars, ProcessingSeen, VisitSeen, MediaSeen
<1>4. ASSUME draft' = draft, uploaded' = uploaded, status # "not_started",
             \/ status' \in {"transcribing", "structuring", "generating", "ready", "failed"}
             \/ status = "failed" /\ draft /\ status' = "queued"
      PROVE  Phone!Process
  <2>1. VisitSeen' = VisitSeen /\ MediaSeen' = MediaSeen
    BY <1>4 DEF VisitSeen, MediaSeen
  <2>2. ProcessingSeen # "not_started"
    BY <1>4 DEF ProcessingSeen, Busy
  <2>3. \/ ProcessingSeen' \in {"running", "ready", "failed"}
        \/ ProcessingSeen = "failed" /\ VisitSeen = "draft" /\ ProcessingSeen' = "queued"
    BY <1>4 DEF ProcessingSeen, VisitSeen, Busy
  <2> QED BY <2>1, <2>2, <2>3 DEF Phone!Process
<1>5. ASSUME NEW k \in Chains, RunStep(k) PROVE Goal
  <2>1. status # "not_started"
    BY <1>1, <1>5 DEF RunStep, InnerStep, BrokerAccepts, SkipStep, BeginTranscribe,
         TranscribeMedium, CommitTranscribe, BeginZones, CommitZones, BeginExtraction,
         CommitExtraction, BeginReport, CommitReport, StepFails, Starts, Works,
         StartIsKnown, Active
  <2>2. draft' = draft /\ uploaded' = uploaded
    BY <1>5 DEF RunStep, InnerStep, BrokerAccepts, SkipStep, BeginTranscribe,
         TranscribeMedium, CommitTranscribe, BeginZones, CommitZones, BeginExtraction,
         CommitExtraction, BeginReport, CommitReport, StepFails, visitVars
  <2>3. \/ status' = status
        \/ status' \in {"transcribing", "structuring", "generating", "ready", "failed"}
    BY <1>5 DEF RunStep, InnerStep, BrokerAccepts, SkipStep, BeginTranscribe,
         TranscribeMedium, CommitTranscribe, BeginZones, CommitZones, BeginExtraction,
         CommitExtraction, BeginReport, CommitReport, StepFails, visitVars
  <2> HIDE DEF Goal
  <2>4. CASE status' = status
    BY <1>3, <2>2, <2>4
  <2>5. CASE status' \in {"transcribing", "structuring", "generating", "ready", "failed"}
    BY <1>4, <2>1, <2>2, <2>5 DEF Goal
  <2> QED BY <2>3, <2>4, <2>5
<1>6. ASSUME NEW a \in Audio, UploadAudio(a) PROVE Goal
  <2>1. Phone!CompleteMedia(a)
    <3>1. MediaSeen' = [MediaSeen EXCEPT ![a] = "uploaded"]
      BY <1>6 DEF UploadAudio, MediaSeen
    <3>2. VisitSeen = "draft" /\ MediaSeen[a] # "none"
      BY <1>6 DEF UploadAudio, MediaSeen, VisitSeen
    <3>3. VisitSeen' = VisitSeen /\ ProcessingSeen' = ProcessingSeen
      BY <1>6 DEF UploadAudio, VisitSeen, ProcessingSeen
    <3> QED BY <3>1, <3>2, <3>3 DEF Phone!CompleteMedia, Phone!CompleteAccepts
  <2> QED BY <2>1
<1>7. ASSUME NEW k \in Chains, FinishShowing(k) PROVE Goal
  <2>1. VisitSeen = "draft" /\ \E a \in Audio : MediaSeen[a] = "uploaded"
    BY <1>2, <1>7 DEF FinishShowing, VisitSeen, MediaSeen
  <2>2. /\ ProcessingSeen' = "queued"
        /\ VisitSeen' = VisitSeen /\ MediaSeen' = MediaSeen
    BY <1>7 DEF FinishShowing, Enqueue, ProcessingSeen, VisitSeen, MediaSeen, Busy
  <2>3. Phone!FinishShowing
    BY <2>1, <2>2 DEF Phone!FinishShowing, Phone!FinishAccepts
  <2> QED BY <2>3
<1>8. ASSUME NEW k \in Chains, ReprocessShowing(k) PROVE Goal
  <2>1. /\ draft' = draft /\ uploaded' = uploaded /\ draft
        /\ status = "failed" /\ status' = "queued"
    BY <1>8 DEF ReprocessShowing, Enqueue
  <2> QED BY <1>4, <2>1
<1>9. ASSUME NEW k \in Chains, ProcessDies(k) PROVE Goal
  BY <1>3, <1>9 DEF ProcessDies, visitVars
<1>10. CASE ConfirmShowing
  <2>1. /\ uploaded' = uploaded /\ status' = status /\ draft' = FALSE
        /\ draft => reports = 1
    BY <1>10 DEF ConfirmShowing
  <2>2. CASE ~draft
    <3>1. draft' = draft
      BY <1>2, <2>1, <2>2
    <3> QED BY <1>3, <2>1, <3>1
  <2>3. CASE draft
    <3>1. status # "not_started"
      BY <1>1, <2>1, <2>3 DEF StartIsKnown
    <3>2. /\ VisitSeen = "draft" /\ VisitSeen' = "confirmed"
          /\ ProcessingSeen # "not_started" /\ ProcessingSeen' = ProcessingSeen
          /\ MediaSeen' = MediaSeen
      BY <2>1, <2>3, <3>1 DEF VisitSeen, ProcessingSeen, MediaSeen, Busy
    <3>3. Phone!ConfirmShowing
      BY <3>2 DEF Phone!ConfirmShowing
    <3> QED BY <3>3
  <2> QED BY <2>2, <2>3
<1>11. CASE UNCHANGED vars
  BY <1>3, <1>11 DEF vars, visitVars
<1> QED BY <1>5, <1>6, <1>7, <1>8, <1>9, <1>10, <1>11 DEF Next

\* The pipeline does to the rows the phone reads only what CaptureApi lets happen:
\* captures arrive while the showing is a draft, finish queues it, and processing
\* moves behind the phone's back only once it was started.
THEOREM PhoneSeesNoMore == Spec => PhoneSeesProcessing
  BY Invariance, PhoneStep, PTL DEF Spec, PhoneSeesProcessing

-----------------------------------------------------------------------------
(* Showing                                                                 *)

D == INSTANCE DeliveryProofs WITH chain <- ChainSeen, failed <- FailureSeen

\* The showing's status, and whether its newest report waits for review, are the
\* same in both views.
StatusShared == draft <=> visit = "draft"

ReportShared ==
  reports = IF last # 0 /\ report[last].status = "pending_review" THEN 1 ELSE 0

SInv ==
  /\ IInv
  /\ D!IInv
  /\ StatusShared /\ ReportShared
  /\ ~Refinish => ~retried

-----------------------------------------------------------------------------
(* The two instances of Delivery are one                                   *)

\* They begin alike,
LEMMA SameInit == Seen!Init = D!Init
BY DEF Seen!Init, D!Init, Seen!LifecycleInit, D!LifecycleInit, Seen!ReportIds, D!ReportIds,
    Seen!Absent, D!Absent, Seen!Idle, D!Idle

\* speak of the same state,
LEMMA SameVars == Seen!vars = D!vars
BY DEF Seen!vars, D!vars, Seen!lifecycleVars, D!lifecycleVars, Seen!deliveryVars,
       D!deliveryVars

\* and take the same steps: nothing in either names the instance.
LEMMA SameNext == Seen!Next = D!Next
BY DEF Seen!Next, D!Next, Seen!lifecycleVars, D!lifecycleVars, Seen!ReportIds, D!ReportIds,
       Seen!Report,
    D!Report, Seen!Revision, D!Revision, Seen!Absent, D!Absent, Seen!Pending, D!Pending,
    Seen!Confirmed, D!Confirmed, Seen!LifecycleInit, D!LifecycleInit,
    Seen!DeletePending, D!DeletePending, Seen!RemainingRevisions, D!RemainingRevisions,
    Seen!DiscardReports, D!DiscardReports, Seen!ForgetObservations,
    D!ForgetObservations, Seen!StoreObservations, D!StoreObservations, Seen!StoreDraft,
    D!StoreDraft, Seen!Startable, D!Startable, Seen!FinishShowing, D!FinishShowing,
    Seen!ReprocessShowing, D!ReprocessShowing, Seen!ChainGoesOn, D!ChainGoesOn,
    Seen!ExtractObservations, D!ExtractObservations, Seen!BeginDraft, D!BeginDraft,
    Seen!CommitDraft, D!CommitDraft, Seen!ChainStops, D!ChainStops, Seen!Editable,
    D!Editable, Seen!AssessObservation, D!AssessObservation, Seen!EditObservation,
    D!EditObservation, Seen!AddObservation, D!AddObservation, Seen!AttachSubject,
    D!AttachSubject, Seen!Edited, D!Edited, Seen!UpdateReport, D!UpdateReport,
    Seen!Reviewed, D!Reviewed, Seen!ReviewComplete, D!ReviewComplete,
    Seen!ConfirmShowing, D!ConfirmShowing, Seen!LifecycleNext, D!LifecycleNext,
    Seen!deliveryVars, D!deliveryVars, Seen!Idle, D!Idle, Seen!Deliverable,
    D!Deliverable, Seen!NewShareLink, D!NewShareLink, Seen!CreateShareLink,
    D!CreateShareLink, Seen!RevokeShareLink, D!RevokeShareLink, Seen!SendLinkOnly,
    D!SendLinkOnly, Seen!BeginAttempt, D!BeginAttempt, Seen!SendEmail, D!SendEmail,
    Seen!Retryable, D!Retryable, Seen!RetryEmail, D!RetryEmail, Seen!GoesTo, D!GoesTo,
    Seen!RenderPdf, D!RenderPdf, Seen!CallProvider, D!CallProvider,
    Seen!ProviderDecides, D!ProviderDecides, Seen!Learned, D!Learned,
    Seen!ProviderAnswers, D!ProviderAnswers, Seen!Recorded, D!Recorded,
    Seen!FinishEmail, D!FinishEmail, Seen!Crash, D!Crash, Seen!LeaseExpires,
    D!LeaseExpires, Seen!RecoverStalePending, D!RecoverStalePending, Seen!DeliveryNext,
    D!DeliveryNext

\* So Delivery's invariant is kept by what Seen does.
LEMMA SeenKeeps == D!IInv /\ [Seen!Next]_(Seen!vars) => D!IInv'
<1>1. D!IInv /\ [D!Next]_(D!vars) => D!IInv'
  BY D!StepIInv, ShowingAssumption
<1>2. (Seen!vars' = Seen!vars) = (D!vars' = D!vars)
  BY DEF Seen!vars, D!vars, Seen!lifecycleVars, D!lifecycleVars, Seen!deliveryVars,
         D!deliveryVars
<1> QED BY <1>1, <1>2, SameNext

-----------------------------------------------------------------------------
(* What the two invariants say of the shared rows                          *)

\* The rows that both views read have their types.
LEMMA SharedTypes ==
  ASSUME D!IInv
  PROVE  /\ report \in [1..MaxReports -> D!Report]
         /\ last \in 0..MaxReports
         /\ obs \in [Obs -> D!ObsStatus]
         /\ \A i \in 1..MaxReports :
              /\ report[i].status = "pending_review" => i = last
              /\ visit = "draft" => report[i].status # "confirmed"
              /\ report[i].status \in {"absent", "pending_review", "confirmed"}
         /\ last # 0 => last \in 1..MaxReports /\ report[last].status # "absent"
<1>1. D!TypeOK /\ D!ReportFacts
  BY DEF D!IInv
<1>2. /\ report \in [1..MaxReports -> D!Report]
      /\ last \in 0..MaxReports
      /\ obs \in [Obs -> D!ObsStatus]
  BY <1>1 DEF D!TypeOK, D!LifecycleTypeOK, D!ReportIds
<1>3. \A i \in 1..MaxReports :
        /\ report[i].status = "pending_review" => i = last
        /\ visit = "draft" => report[i].status # "confirmed"
        /\ report[i].status \in {"absent", "pending_review", "confirmed"}
  BY <1>1, <1>2 DEF D!ReportFacts, D!ReportIds, D!Report, D!ReportStatus
<1>4. last # 0 => last \in 1..MaxReports /\ report[last].status # "absent"
  BY <1>1, <1>2, ShowingAssumption DEF D!ReportFacts
<1> QED BY <1>2, <1>3, <1>4

\* A draft showing without a pending report has none at all.
LEMMA DraftWithoutReport ==
  ASSUME SInv, draft, reports # 1
  PROVE  last = 0
BY SharedTypes DEF SInv, StatusShared, ReportShared

\* An e-mail request is never under way for a draft showing.
LEMMA NoRequestYet ==
  ASSUME SInv, visit = "draft", NEW r \in Requests
  PROVE  request[r].step = "idle"
<1>1. D!EmailFacts /\ D!RequestFacts /\ D!LinkInv
  BY DEF SInv, D!IInv, D!EmailInv
<1>3. DOMAIN links = {}
  BY <1>1 DEF D!LinkInv
<1>4. email.status = "none"
  BY <1>1, <1>3 DEF D!EmailFacts
<1> QED BY <1>1, <1>4 DEF D!RequestFacts

-----------------------------------------------------------------------------
(* The showing does only what Pipeline lets it do                          *)

\* An edit that ends the review of a report is Pipeline's ConfirmShowing, once the
\* showing is no longer a draft.
LEMMA PipelineStepOf ==
  ASSUME SInv, [ShowingNext]_showingVars
  PROVE  [Next]_vars
<1>1. TypeOK /\ StatusShared
  BY DEF SInv, IInv
<1>2. draft \in BOOLEAN
  BY <1>1 DEF TypeOK
<1>3. CASE PipelineStep
  BY <1>3 DEF PipelineStep, Finish, Reprocess, Extract, Generate, Next, RunStep
<1>4. CASE Confirm
  BY <1>4 DEF Confirm, Next
<1>5. ASSUME NEW i \in 1..MaxReports, NEW c \in Contents, Edit(i, c) PROVE [Next]_vars
  <2>1. /\ UNCHANGED <<visitVars, succeeded, transcripts, zones, findings, task, historyVars>>
        /\ \/ reports' = reports
           \/ visit = "confirmed" /\ reports' = 0
    BY <1>5 DEF Edit
  <2>2. CASE reports' = reports
    BY <2>1, <2>2 DEF vars, outputVars
  <2>3. CASE visit = "confirmed" /\ reports' = 0
    <3>1. draft = FALSE
      BY <1>1, <1>2, <2>3 DEF StatusShared
    <3>2. draft' = FALSE /\ (draft => reports = 1)
      BY <2>1, <3>1 DEF visitVars
    <3>3. ConfirmShowing
      BY <2>1, <2>3, <3>2 DEF ConfirmShowing, visitVars
    <3> QED BY <3>3 DEF Next
  <2> QED BY <2>1, <2>2, <2>3
<1>6. CASE Review
  BY <1>6 DEF Review
<1>7. CASE Deliver
  BY <1>7 DEF Deliver
<1>8. CASE UNCHANGED showingVars
  BY <1>8 DEF showingVars
<1> QED BY <1>3, <1>4, <1>5, <1>6, <1>7, <1>8 DEF ShowingNext

-----------------------------------------------------------------------------
(* And only what Delivery lets it do                                       *)

\* Storing a task at one chain, as the agent sees it.
LEMMA SeenTask ==
  ASSUME task \in [Chains -> Task], NEW k \in Chains, NEW t,
         task' = [task EXCEPT ![k] = t]
  PROVE  /\ ChainSeen' = [ChainSeen EXCEPT ![k] = Phase(t)]
         /\ ChainSeen[k] = Phase(task[k])
         /\ Phase(t) = Phase(task[k]) => ChainSeen' = ChainSeen
BY DEF ChainSeen

\* What the agent sees of the tasks that actions store.
LEMMA Phases ==
  /\ \A t : t.step = "none" => Phase(t) = "idle"
  /\ \A t : t.step \in Steps \ {"report_generation"} => Phase(t) = "extracting"
  /\ \A t : t.step = "report_generation" /\ t.phase = "working" => Phase(t) = "drafting"
  /\ \A t : t.step = "report_generation" /\ t.phase # "working" => Phase(t) = "extracted"
BY DEF Phase, Steps

\* What InnerStep does to what the agent sees.
LEMMA InnerStepSeen ==
  ASSUME SInv, NEW k \in Chains, InnerStep(k), UNCHANGED <<reviewVars, sendVars>>
  PROVE  [Seen!Next]_(Seen!vars)
<1>1. TypeOK
  BY DEF SInv, IInv
<1>2. task \in [Chains -> Task] /\ task[k] \in Task
  BY <1>1 DEF TypeOK
<1>3. /\ UNCHANGED <<visit, subject, report, last, revisions, obs>>
      /\ UNCHANGED Seen!deliveryVars
  BY DEF reviewVars, sendVars, Seen!deliveryVars
<1>4. ASSUME ChainSeen' = ChainSeen, status' = status PROVE [Seen!Next]_(Seen!vars)
  BY <1>3, <1>4 DEF Seen!vars, Seen!lifecycleVars, FailureSeen
<1>5. ASSUME \/ Seen!ChainGoesOn(k) \/ Seen!ExtractObservations(k)
             \/ Seen!BeginDraft(k) \/ Seen!ChainStops(k)
      PROVE  Seen!Next
  BY <1>3, <1>5 DEF Seen!Next, Seen!LifecycleNext
<1>6. CASE BrokerAccepts(k)
  <2>1. PICK t : t = Queued(task[k].step)
    OBVIOUS
  <2>2. /\ task' = [task EXCEPT ![k] = t] /\ t.step = task[k].step
        /\ t.phase = "queued" /\ task[k].phase = "committed" /\ status' = status
    BY <1>6, <2>1 DEF BrokerAccepts, Queued, At, visitVars
  <2>3. Phase(t) = Phase(task[k])
    BY <2>2 DEF Phase
  <2> QED BY <1>2, <1>4, <2>2, <2>3, SeenTask
<1>7. CASE SkipStep(k)
  <2>1. PICK t : t = Queued(Following[task[k].step])
    OBVIOUS
  <2>2. /\ task' = [task EXCEPT ![k] = t] /\ t.step = Following[task[k].step]
        /\ t.phase = "queued" /\ task[k].phase = "queued"
    BY <1>7, <2>1 DEF SkipStep, Starts, Advance, Queued, At
  <2>6. /\ ChainSeen' = [ChainSeen EXCEPT ![k] = Phase(t)]
        /\ ChainSeen[k] = Phase(task[k])
    BY <1>2, <2>2, SeenTask
  <2>3. CASE task[k].step \in {"transcribe", "zone_detection"}
    <3>1. Phase(t) = "extracting" /\ Phase(task[k]) = "extracting"
      BY <2>2, <2>3, Phases DEF Following, Steps
    <3>2. status' = status
      BY <1>7, <2>3 DEF SkipStep, Starts
    <3> QED BY <1>2, <1>4, <2>2, <3>1, <3>2, SeenTask
  <2>4. CASE task[k].step = "observation_extraction"
    <3>1. Phase(t) = "extracted" /\ Phase(task[k]) = "extracting"
      BY <2>2, <2>4, Phases DEF Following, Steps
    <3>2. status' # "failed"
      BY <1>7, <2>4 DEF SkipStep, Starts
    <3>3. obs' = [o \in Obs |-> IF o \in {} THEN "pending" ELSE obs[o]]
      BY <1>3, SharedTypes DEF SInv
    <3>4. Seen!StoreObservations
      <4>1. {} \in SUBSET {o \in Obs : obs[o] = "absent"}
        OBVIOUS
      <4> QED BY <3>3, <4>1 DEF Seen!StoreObservations
    <3>5. /\ ChainSeen[k] = "extracting"
          /\ ChainSeen' = [ChainSeen EXCEPT ![k] = "extracted"]
      BY <2>6, <3>1
    <3>6. FailureSeen' = FALSE
      BY <3>2 DEF FailureSeen
    <3> QED BY <1>3, <1>5, <3>4, <3>5, <3>6 DEF Seen!ExtractObservations
  <2>5. CASE task[k].step = "report_generation"
    <3>1. Phase(t) = "idle" /\ Phase(task[k]) = "extracted"
      BY <2>2, <2>5, Phases DEF Following, Steps
    <3>2. /\ ChainSeen[k] = "extracted"
          /\ ChainSeen' = [ChainSeen EXCEPT ![k] = "idle"]
      BY <2>6, <3>1
    <3>3. FailureSeen' \in BOOLEAN
      BY DEF FailureSeen
    <3> QED BY <1>3, <1>5, <3>2, <3>3 DEF Seen!ChainStops
  <2> QED BY <1>7, <2>3, <2>4, <2>5 DEF SkipStep, Starts
<1>8. CASE BeginTranscribe(k) \/ BeginZones(k)
  <2>1. PICK m : Begin(k, m)
    BY <1>8 DEF BeginTranscribe, BeginZones
  <2>2. PICK t : t = Working(task[k].step, run, m, {})
    OBVIOUS
  <2>3. /\ task' = [task EXCEPT ![k] = t] /\ t.step = task[k].step
        /\ task[k].step \in Steps \ {"report_generation"} /\ status' # "failed"
    BY <1>8, <2>1, <2>2 DEF BeginTranscribe, BeginZones, Begin, Working, Starts, Steps
  <2>4. Phase(t) = "extracting" /\ Phase(task[k]) = "extracting"
    BY <2>3, Phases
  <2>5. ChainSeen[k] = "extracting" /\ ChainSeen' = ChainSeen
    BY <1>2, <2>3, <2>4, SeenTask
  <2>6. FailureSeen' = FALSE
    BY <2>3 DEF FailureSeen
  <2> QED BY <1>3, <1>5, <2>5, <2>6 DEF Seen!ChainGoesOn
<1>9. ASSUME NEW a \in Audio, TranscribeMedium(k, a) PROVE [Seen!Next]_(Seen!vars)
  <2>1. PICK t : t = Working("transcribe", task[k].run, task[k].media \ {a},
                     IF transcripts[a] = 0 THEN task[k].made \cup {a} ELSE task[k].made)
    OBVIOUS
  <2>2. task' = [task EXCEPT ![k] = t] /\ status' = status
    BY <1>9, <2>1 DEF TranscribeMedium, visitVars
  <2>3. Phase(t) = "extracting" /\ Phase(task[k]) = "extracting"
    BY <1>9, <2>1, Phases DEF TranscribeMedium, Works, Working, Steps
  <2> QED BY <1>2, <1>4, <2>2, <2>3, SeenTask
<1>10. CASE CommitTranscribe(k) \/ CommitZones(k)
  <2>1. PICK t : t = Queued(Following[task[k].step])
    OBVIOUS
  <2>2. /\ task' = [task EXCEPT ![k] = t] /\ t.step = Following[task[k].step]
        /\ task[k].step \in {"transcribe", "zone_detection"} /\ status' = status
    BY <1>10, <2>1 DEF CommitTranscribe, CommitZones, Works, Advance, Queued, At, visitVars
  <2>3. Phase(t) = "extracting" /\ Phase(task[k]) = "extracting"
    BY <2>2, Phases DEF Following, Steps
  <2> QED BY <1>2, <1>4, <2>2, <2>3, SeenTask
<1>11. CASE BeginExtraction(k)
  <2>1. PICK t : t = Working(task[k].step, run, WithSegments, {})
    OBVIOUS
  <2>2. /\ task' = [task EXCEPT ![k] = t] /\ t.step = task[k].step
        /\ task[k].step = "observation_extraction" /\ status' = status
    BY <1>11, <2>1 DEF BeginExtraction, Begin, Working, Starts, visitVars
  <2>3. Phase(t) = "extracting" /\ Phase(task[k]) = "extracting"
    BY <2>2, Phases DEF Steps
  <2> QED BY <1>2, <1>4, <2>2, <2>3, SeenTask
<1>12. CASE BeginReport(k)
  <2>1. PICK t : t = Working(task[k].step, run, {}, {})
    OBVIOUS
  <2>2. /\ task' = [task EXCEPT ![k] = t] /\ t.step = "report_generation"
        /\ t.phase = "working" /\ task[k].phase = "queued"
        /\ task[k].step = "report_generation" /\ status' = status /\ draft
    BY <1>12, <2>1 DEF BeginReport, Begin, Working, Starts, visitVars
  <2>3. Phase(t) = "drafting" /\ Phase(task[k]) = "extracted"
    BY <2>2, Phases
  <2>4. ChainSeen[k] = "extracted" /\ ChainSeen' = [ChainSeen EXCEPT ![k] = "drafting"]
    <3>1. task' = [task EXCEPT ![k] = t]
      BY <2>2
    <3> QED BY <1>2, <2>3, <3>1, SeenTask
  <2>5. visit = "draft" /\ FailureSeen' = FailureSeen
    BY <2>2 DEF SInv, StatusShared, FailureSeen
  <2> QED BY <1>3, <1>5, <2>4, <2>5 DEF Seen!BeginDraft
<1>13. CASE StepFails(k)
  <2>1. PICK t : t = Queued("none")
    OBVIOUS
  <2>2. task' = [task EXCEPT ![k] = t] /\ t.step = "none" /\ task[k].step # "none"
    BY <1>13, <2>1 DEF StepFails, Queued, At
  <2>3. Phase(t) = "idle" /\ Phase(task[k]) # "idle"
    BY <1>2, <2>2, Phases, TaskShapes DEF Phase, Steps
  <2>4. ChainSeen[k] # "idle" /\ ChainSeen' = [ChainSeen EXCEPT ![k] = "idle"]
    <3>1. task' = [task EXCEPT ![k] = t]
      BY <2>2
    <3> QED BY <1>2, <2>3, <3>1, SeenTask
  <2>5. FailureSeen' \in BOOLEAN
    BY DEF FailureSeen
  <2> QED BY <1>3, <1>5, <2>4, <2>5 DEF Seen!ChainStops
<1> QED BY <1>6, <1>7, <1>8, <1>9, <1>10, <1>11, <1>12, <1>13 DEF InnerStep

\* What finish_showing and reprocess_showing need to find, in the agent's view.
LEMMA StartSeen ==
  ASSUME SInv, NEW k \in Chains, task[k].step = "none", draft,
         Refinish \/ FirstFinish \/ status = "failed"
  PROVE  Seen!Startable(k)
<1>1. TypeOK /\ StatusShared /\ (~Refinish => OnlyChain)
  BY DEF SInv, IInv
<1>2. ChainSeen[k] = "idle"
  BY Phases DEF ChainSeen
<1>3. visit = "draft"
  BY <1>1 DEF StatusShared
<1>4. ASSUME ~Refinish PROVE \A j \in Chains : ChainSeen[j] = "idle"
  <2>1. \A j \in Chains : task[j].step = "none"
    BY <1>1, <1>4 DEF OnlyChain, Active, FirstFinish
  <2> QED BY <2>1, Phases DEF ChainSeen
<1> QED BY <1>2, <1>3, <1>4 DEF Seen!Startable

\* Every step of the showing is one that Delivery takes, or changes nothing of it.
LEMMA SeenStepOf ==
  ASSUME SInv, [ShowingNext]_showingVars
  PROVE  [Seen!Next]_(Seen!vars)
<1>1. TypeOK /\ StatusShared /\ ReportShared
  BY DEF SInv, IInv
<1>2. task \in [Chains -> Task]
  BY <1>1 DEF TypeOK
<1>3. ASSUME NEW k \in Chains, UNCHANGED sendVars,
             \/ Seen!FinishShowing(k) \/ Seen!ReprocessShowing(k)
             \/ Seen!ExtractObservations(k) \/ Seen!CommitDraft(k) \/ Seen!ChainStops(k)
      PROVE  Seen!Next
  BY <1>3 DEF Seen!Next, Seen!LifecycleNext, Seen!deliveryVars, sendVars
<1>4. ASSUME UNCHANGED <<reviewVars, sendVars>>, ChainSeen' = ChainSeen, status' = status
      PROVE  UNCHANGED Seen!vars
  BY <1>4 DEF reviewVars, sendVars, Seen!vars, Seen!lifecycleVars, Seen!deliveryVars,
              FailureSeen
<1>5. ASSUME UNCHANGED vars PROVE UNCHANGED <<ChainSeen, FailureSeen>>
  BY <1>5 DEF vars, visitVars, ChainSeen, FailureSeen
<1>6. ASSUME NEW a \in Audio, UploadAudio(a), UNCHANGED <<reviewVars, sendVars>>
      PROVE  UNCHANGED Seen!vars
  <2>1. ChainSeen' = ChainSeen /\ status' = status
    BY <1>6 DEF UploadAudio, ChainSeen
  <2> QED BY <1>4, <1>6, <2>1
<1>7. ASSUME NEW k \in Chains, ProcessDies(k), UNCHANGED <<reviewVars, sendVars>>
      PROVE  Seen!Next
  <2>1. PICK t : t = Queued("none")
    OBVIOUS
  <2>2. task' = [task EXCEPT ![k] = t] /\ t.step = "none" /\ task[k].step # "none"
    BY <1>7, <2>1 DEF ProcessDies, Queued, At
  <2>3. Phase(t) = "idle" /\ Phase(task[k]) # "idle"
    BY <1>2, <2>2, Phases, TaskShapes DEF Phase, Steps
  <2>4. ChainSeen[k] # "idle" /\ ChainSeen' = [ChainSeen EXCEPT ![k] = "idle"]
    <3>1. task' = [task EXCEPT ![k] = t]
      BY <2>2
    <3> QED BY <1>2, <2>3, <3>1, SeenTask
  <2>5. FailureSeen' \in BOOLEAN
    BY DEF FailureSeen
  <2>6. Seen!ChainStops(k)
    BY <1>7, <2>4, <2>5 DEF Seen!ChainStops, reviewVars
  <2> QED BY <1>3, <1>7, <2>6
<1>8. ASSUME NEW k \in Chains, Finish(k) PROVE Seen!Next
  <2>1. PICK t : t = At("transcribe", "committed")
    OBVIOUS
  <2>2. /\ task' = [task EXCEPT ![k] = t] /\ t.step = "transcribe"
        /\ task[k].step = "none" /\ draft /\ status' = "queued"
        /\ Refinish \/ FirstFinish
        /\ UNCHANGED <<reviewVars, sendVars>>
    BY <1>8, <2>1 DEF Finish, FinishShowing, Enqueue, At
  <2>3. Phase(t) = "extracting"
    BY <2>2, Phases DEF Steps
  <2>4. ChainSeen' = [ChainSeen EXCEPT ![k] = "extracting"]
    <3>1. task' = [task EXCEPT ![k] = t]
      BY <2>2
    <3> QED BY <1>2, <2>3, <3>1, SeenTask
  <2>5. Seen!Startable(k)
    BY <2>2, StartSeen
  <2>6. Refinish \/ last = 0
    <3>1. ASSUME ~Refinish PROVE last = 0
      <4>1. status # "ready" /\ ReviewFollows
        BY <2>2, <3>1 DEF FirstFinish, SInv, IInv
      <4>2. reports # 1
        BY <4>1 DEF ReviewFollows
      <4> QED BY <2>2, <4>2, DraftWithoutReport
    <3> QED BY <3>1
  <2>7. FailureSeen' = FALSE
    BY <2>2 DEF FailureSeen
  <2>8. Seen!FinishShowing(k)
    BY <2>2, <2>4, <2>5, <2>6, <2>7 DEF Seen!FinishShowing, reviewVars
  <2> QED BY <1>3, <2>2, <2>8
<1>9. ASSUME NEW k \in Chains, Reprocess(k) PROVE Seen!Next
  <2>1. PICK t : t = At(failedStep, "committed")
    OBVIOUS
  <2>2. /\ task' = [task EXCEPT ![k] = t] /\ t.step = failedStep /\ t.phase = "committed"
        /\ task[k].step = "none" /\ draft /\ status = "failed" /\ status' = "queued"
        /\ failedStep \in Steps
    BY <1>1, <1>9, <2>1 DEF Reprocess, ReprocessShowing, Enqueue, At, TypeOK
  <2>7. task' = [task EXCEPT ![k] = t]
    BY <2>2
  <2>3. Seen!Startable(k)
    BY <2>2, StartSeen
  <2>4. FailureSeen /\ FailureSeen' = FALSE
    BY <2>2 DEF FailureSeen
  <2>5. \/ /\ ChainSeen' = [ChainSeen EXCEPT ![k] = "extracting"]
           /\ Seen!ForgetObservations
        \/ /\ ChainSeen' = [ChainSeen EXCEPT ![k] = "extracted"]
           /\ UNCHANGED obs
    <3>1. CASE failedStep = "report_generation"
      <4>1. Phase(t) = "extracted"
        BY <2>2, <3>1, Phases
      <4>2. ChainSeen' = [ChainSeen EXCEPT ![k] = "extracted"]
        BY <1>2, <2>7, <4>1, SeenTask
      <4> QED BY <1>9, <3>1, <4>2 DEF Reprocess
    <3>2. CASE failedStep # "report_generation"
      <4>1. Phase(t) = "extracting"
        BY <2>2, <3>2, Phases
      <4>2. ChainSeen' = [ChainSeen EXCEPT ![k] = "extracting"]
        BY <1>2, <2>7, <4>1, SeenTask
      <4> QED BY <1>9, <3>2, <4>2 DEF Reprocess
    <3> QED BY <3>1, <3>2
  <2>6. Seen!ReprocessShowing(k)
    BY <1>9, <2>3, <2>4, <2>5 DEF Reprocess, Seen!ReprocessShowing
  <2> QED BY <1>3, <1>9, <2>6 DEF Reprocess
<1>10. ASSUME NEW k \in Chains, Extract(k) PROVE Seen!Next
  <2>1. PICK t : t = Queued("report_generation")
    OBVIOUS
  <2>2. /\ task' = [task EXCEPT ![k] = t]
        /\ t.step = "report_generation" /\ t.phase = "queued"
        /\ task[k].step = "observation_extraction" /\ status' = "generating"
    BY <1>10, <2>1
       DEF Extract, CommitExtraction, Works, Advance, Following, Queued, At
  <2>3. Phase(t) = "extracted" /\ Phase(task[k]) = "extracting"
    BY <2>2, Phases DEF Steps
  <2>4. ChainSeen[k] = "extracting" /\ ChainSeen' = [ChainSeen EXCEPT ![k] = "extracted"]
    <3>1. task' = [task EXCEPT ![k] = t]
      BY <2>2
    <3> QED BY <1>2, <2>3, <3>1, SeenTask
  <2>5. FailureSeen' = FALSE
    BY <2>2 DEF FailureSeen
  <2>6. Seen!ExtractObservations(k)
    BY <1>10, <2>4, <2>5 DEF Extract, Seen!ExtractObservations
  <2> QED BY <1>3, <1>10, <2>6 DEF Extract
<1>11. ASSUME NEW k \in Chains, Generate(k) PROVE Seen!Next
  <2>1. PICK t : t = Queued("none")
    OBVIOUS
  <2>2. /\ task' = [task EXCEPT ![k] = t] /\ t.step = "none"
        /\ task[k].step = "report_generation" /\ task[k].phase = "working"
        /\ status' = "ready"
    BY <1>11, <2>1 DEF Generate, CommitReport, Works, Advance, Following, Queued, At
  <2>3. Phase(t) = "idle" /\ Phase(task[k]) = "drafting"
    BY <2>2, Phases
  <2>4. ChainSeen[k] = "drafting" /\ ChainSeen' = [ChainSeen EXCEPT ![k] = "idle"]
    <3>1. task' = [task EXCEPT ![k] = t]
      BY <2>2
    <3> QED BY <1>2, <2>3, <3>1, SeenTask
  <2>5. FailureSeen' = FALSE
    BY <2>2 DEF FailureSeen
  <2>6. Seen!CommitDraft(k)
    BY <1>11, <2>4, <2>5 DEF Generate, Seen!CommitDraft
  <2> QED BY <1>3, <1>11, <2>6 DEF Generate
<1>12. CASE PipelineStep
  <2>1. CASE /\ \/ \E a \in Audio : UploadAudio(a)
                \/ \E k \in Chains : InnerStep(k) \/ ProcessDies(k)
             /\ UNCHANGED <<reviewVars, sendVars>>
    BY <1>6, <1>7, <2>1, InnerStepSeen
  <2> QED BY <1>8, <1>9, <1>10, <1>11, <1>12, <2>1 DEF PipelineStep
<1>13. CASE Confirm
  BY <1>13 DEF Confirm, Seen!Next, Seen!LifecycleNext, Seen!deliveryVars, sendVars
<1>14. ASSUME NEW i \in 1..MaxReports, NEW c \in Contents, Edit(i, c) PROVE Seen!Next
  BY <1>14 DEF Edit, Seen!Next, Seen!LifecycleNext, Seen!deliveryVars, Seen!ReportIds,
               sendVars
<1>15. CASE Review
  BY <1>15 DEF Review, Seen!Next, Seen!LifecycleNext, Seen!deliveryVars, sendVars
<1>16. CASE Deliver
  BY <1>16 DEF Deliver, Seen!Next
<1>17. CASE UNCHANGED showingVars
  BY <1>4, <1>17 DEF showingVars, vars, visitVars, ChainSeen
<1> QED BY <1>12, <1>13, <1>14, <1>15, <1>16, <1>17 DEF ShowingNext

-----------------------------------------------------------------------------
(* The shared rows stay the same in both views                             *)

\* What a pipeline step leaves alone.
LEMMA PipelineFrame ==
  ASSUME PipelineStep
  PROVE  /\ UNCHANGED <<draft, visit, subject, sendVars>>
         /\ \/ UNCHANGED <<reports, reviewVars, retried>>
            \/ \E k \in Chains : Finish(k) \/ Reprocess(k) \/ Extract(k) \/ Generate(k)
<1>1. ASSUME NEW a \in Audio, UploadAudio(a), UNCHANGED <<reviewVars, sendVars>>
      PROVE  UNCHANGED <<draft, visit, subject, sendVars, reports, reviewVars, retried>>
  BY <1>1 DEF UploadAudio, reviewVars, outputVars, historyVars
<1>2. ASSUME NEW k \in Chains, InnerStep(k), UNCHANGED <<reviewVars, sendVars>>
      PROVE  UNCHANGED <<draft, visit, subject, sendVars, reports, reviewVars, retried>>
  BY <1>2 DEF InnerStep, BrokerAccepts, SkipStep, BeginTranscribe, TranscribeMedium,
         CommitTranscribe, BeginZones, CommitZones, BeginExtraction, BeginReport, StepFails,
         visitVars, outputVars, historyVars, reviewVars
<1>3. ASSUME NEW k \in Chains, ProcessDies(k), UNCHANGED <<reviewVars, sendVars>>
      PROVE  UNCHANGED <<draft, visit, subject, sendVars, reports, reviewVars, retried>>
  BY <1>3 DEF ProcessDies, visitVars, outputVars, reviewVars
<1>4. ASSUME NEW k \in Chains, Finish(k) \/ Reprocess(k) \/ Extract(k) \/ Generate(k)
      PROVE  UNCHANGED <<draft, visit, subject, sendVars>>
  BY <1>4 DEF Finish, Reprocess, Extract, Generate, FinishShowing, ReprocessShowing,
         CommitExtraction, CommitReport, reviewVars
<1> QED BY <1>1, <1>2, <1>3, <1>4 DEF PipelineStep

\* Delivery moves a showing on only when it is no longer a draft.
LEMMA DeliverFrame ==
  ASSUME SInv, Deliver
  PROVE  /\ UNCHANGED <<vars, subject, report, last, revisions, obs>>
         /\ visit # "draft" \/ visit' = visit
         /\ visit' \in {visit, "sent_to_client"}
<1>1. Seen!DeliveryNext /\ UNCHANGED vars
  BY DEF Deliver
<1>2. ASSUME NEW r \in Requests, Seen!FinishEmail(r)
      PROVE  visit # "draft"
  BY <1>2, NoRequestYet DEF Seen!FinishEmail
<1>3. /\ UNCHANGED <<subject, report, last, revisions, obs>>
      /\ visit' \in {visit, "sent_to_client"}
  BY <1>1 DEF Seen!DeliveryNext, Seen!CreateShareLink, Seen!RevokeShareLink,
       Seen!SendLinkOnly, Seen!SendEmail, Seen!RetryEmail, Seen!RenderPdf, Seen!CallProvider,
       Seen!ProviderDecides, Seen!ProviderAnswers, Seen!FinishEmail, Seen!Crash,
       Seen!LeaseExpires, Seen!RecoverStalePending, Seen!lifecycleVars
<1>4. visit' = visit \/ visit # "draft"
  BY <1>1, <1>2 DEF Seen!DeliveryNext, Seen!CreateShareLink, Seen!RevokeShareLink,
       Seen!SendLinkOnly, Seen!Deliverable, Seen!SendEmail, Seen!RetryEmail, Seen!RenderPdf,
       Seen!CallProvider, Seen!ProviderDecides, Seen!ProviderAnswers, Seen!Crash,
       Seen!LeaseExpires, Seen!RecoverStalePending, Seen!lifecycleVars
<1> QED BY <1>1, <1>3, <1>4

\* The other review requests leave the status and the reports alone.
LEMMA ReviewFrame ==
  ASSUME Review
  PROVE  UNCHANGED <<vars, visit, report, last, revisions>>
BY DEF Review, Seen!AssessObservation, Seen!EditObservation, Seen!AddObservation,
       Seen!AttachSubject

\* confirm_showing ends the draft in both views.
LEMMA StatusSharedStep ==
  ASSUME SInv, [ShowingNext]_showingVars
  PROVE  StatusShared'
<1>1. StatusShared
  BY DEF SInv
<1>2. CASE PipelineStep
  BY <1>1, <1>2, PipelineFrame DEF StatusShared
<1>3. CASE Confirm
  BY <1>3 DEF Confirm, ConfirmShowing, Seen!ConfirmShowing, StatusShared
<1>4. ASSUME NEW i \in 1..MaxReports, NEW c \in Contents, Edit(i, c) PROVE StatusShared'
  BY <1>1, <1>4 DEF Edit, Seen!UpdateReport, visitVars, StatusShared
<1>5. CASE Review
  BY <1>1, <1>5, ReviewFrame DEF vars, visitVars, StatusShared
<1>6. CASE Deliver
  <2>1. draft' = draft
    BY <1>6, DeliverFrame DEF vars, visitVars
  <2> QED BY <1>1, <1>6, <2>1, DeliverFrame DEF StatusShared
<1>7. CASE UNCHANGED showingVars
  BY <1>1, <1>7 DEF showingVars, vars, visitVars, reviewVars, StatusShared
<1> QED BY <1>2, <1>3, <1>4, <1>5, <1>6, <1>7 DEF ShowingNext

\* generate_report adds, confirm_showing and an edit of a confirmed showing review, and
\* reprocess_showing deletes the pending report in both views.
LEMMA ReportSharedStep ==
  ASSUME SInv, [ShowingNext]_showingVars
  PROVE  ReportShared'
<1> DEFINE Waits == last # 0 /\ report[last].status = "pending_review"
<1>1. ReportShared /\ D!IInv
  BY DEF SInv
<1>2. /\ report \in [1..MaxReports -> D!Report] /\ last \in 0..MaxReports
      /\ last # 0 => last \in 1..MaxReports /\ report[last].status # "absent"
      /\ \A i \in 1..MaxReports :
           /\ report[i].status = "pending_review" => i = last
           /\ visit = "draft" => report[i].status # "confirmed"
           /\ report[i].status \in {"absent", "pending_review", "confirmed"}
  BY <1>1, SharedTypes
<1>3. ASSUME UNCHANGED <<reports, report, last>> PROVE ReportShared'
  BY <1>1, <1>3 DEF ReportShared
<1>4. ASSUME NEW k \in Chains, Finish(k) \/ Extract(k) PROVE ReportShared'
  BY <1>3, <1>4 DEF Finish, Extract, FinishShowing, CommitExtraction, outputVars, reviewVars
<1>5. ASSUME NEW k \in Chains, Reprocess(k) PROVE ReportShared'
  BY <1>5 DEF Reprocess, ReprocessShowing, Seen!DiscardReports, ReportShared
<1>6. ASSUME NEW k \in Chains, Generate(k) PROVE ReportShared'
  <2>1. reports' = 1 /\ last < MaxReports /\ last' = last + 1
    BY <1>6 DEF Generate, CommitReport, Seen!StoreDraft
  <2>2. last' \in 1..MaxReports /\ last' # 0
    BY <1>2, <2>1, ShowingAssumption
  <2>3. report'[last'].status = "pending_review"
    <3>1. PICK c \in Drafts :
            report' = [i \in Seen!ReportIds |->
                         IF i = last + 1 THEN Seen!Pending(c)
                         ELSE IF Seen!DeletePending(i) THEN Seen!Absent ELSE report[i]]
      BY <1>6 DEF Generate, Seen!StoreDraft
    <3> QED BY <2>1, <2>2, <3>1 DEF Seen!ReportIds, Seen!Pending
  <2> QED BY <2>1, <2>2, <2>3 DEF ReportShared
<1>7. CASE Confirm
  <2>1. reports' = 0 /\ last' = last
    BY <1>7 DEF Confirm, ConfirmShowing, Seen!ConfirmShowing
  <2>2. last # 0 => report'[last].status = "confirmed"
    BY <1>2, <1>7 DEF Confirm, Seen!ConfirmShowing, Seen!Confirmed
  <2> QED BY <2>1, <2>2 DEF ReportShared
<1>8. ASSUME NEW i \in 1..MaxReports, NEW c \in Contents, Edit(i, c) PROVE ReportShared'
  <2>1. /\ last' = last
        /\ report[i].status # "absent" /\ visit # "sent_to_client"
        /\ report' = [report EXCEPT ![i] = Seen!Edited(c)]
    BY <1>8 DEF Edit, Seen!UpdateReport, Seen!Editable
  <2>2. /\ \A j \in 1..MaxReports : j # i => report'[j] = report[j]
        /\ report'[i] = Seen!Edited(c)
    BY <1>2, <2>1
  <2>3. CASE visit = "confirmed"
    <3>1. report'[i].status = "confirmed"
      BY <2>2, <2>3 DEF Seen!Edited, Seen!Confirmed
    <3>2. CASE report[i].status = "pending_review"
      <4>1. reports' = 0 /\ i = last
        BY <1>2, <1>8, <2>3, <3>2 DEF Edit
      <4> QED BY <2>1, <3>1, <4>1 DEF ReportShared
    <3>3. CASE report[i].status # "pending_review"
      <4>1. reports' = reports
        BY <1>8, <3>3 DEF Edit
      <4>2. CASE i = last
        BY <1>1, <2>1, <3>1, <3>3, <4>1, <4>2 DEF ReportShared
      <4>3. CASE i # last
        BY <1>1, <1>2, <2>1, <2>2, <4>1, <4>3 DEF ReportShared
      <4> QED BY <4>2, <4>3
    <3> QED BY <3>2, <3>3
  <2>4. CASE visit # "confirmed"
    <3>1. visit = "draft"
      BY <1>1, <2>1, <2>4 DEF D!IInv, D!TypeOK, D!LifecycleTypeOK, D!VisitStatus
    <3>2. report[i].status = "pending_review" /\ i = last
      BY <1>2, <2>1, <3>1
    <3>3. report'[i].status = "pending_review"
      BY <2>2, <2>4 DEF Seen!Edited, Seen!Pending
    <3>4. reports' = reports
      BY <1>8, <2>4 DEF Edit
    <3> QED BY <1>1, <2>1, <3>2, <3>3, <3>4 DEF ReportShared
  <2> QED BY <2>3, <2>4
<1>9. CASE PipelineStep
  BY <1>3, <1>4, <1>5, <1>6, <1>9, PipelineFrame DEF reviewVars
<1>10. CASE Review
  BY <1>3, <1>10, ReviewFrame DEF vars, outputVars
<1>11. CASE Deliver
  BY <1>3, <1>11, DeliverFrame DEF vars, outputVars
<1>12. CASE UNCHANGED showingVars
  BY <1>3, <1>12 DEF showingVars, vars, outputVars, reviewVars
<1> QED BY <1>7, <1>8, <1>9, <1>10, <1>11, <1>12 DEF ShowingNext

\* Earlier processing is retried only where the app may repeat finish.
LEMMA RetriedStep ==
  ASSUME [ShowingNext]_showingVars, ~Refinish, ~retried
  PROVE  ~retried'
<1>1. ASSUME NEW k \in Chains, Finish(k) PROVE ~retried'
  BY <1>1 DEF Finish, FinishShowing
<1>2. ASSUME NEW k \in Chains, Reprocess(k) \/ Extract(k) \/ Generate(k) PROVE ~retried'
  BY <1>2 DEF Reprocess, Extract, Generate, ReprocessShowing, CommitExtraction,
              CommitReport,
              historyVars
<1>3. CASE PipelineStep
  BY <1>1, <1>2, <1>3, PipelineFrame
<1>4. CASE Confirm \/ Review \/ Deliver \/ UNCHANGED showingVars
  BY <1>4 DEF Confirm, Review, Deliver, ConfirmShowing, showingVars, vars, historyVars
<1>5. ASSUME NEW i \in 1..MaxReports, NEW c \in Contents, Edit(i, c) PROVE ~retried'
  BY <1>5 DEF Edit, historyVars
<1> QED BY <1>3, <1>4, <1>5 DEF ShowingNext

-----------------------------------------------------------------------------
(* The theorems about Showing                                              *)

\* The joint invariant holds initially and is preserved by every step.
LEMMA SInvInit == ShowingInit => SInv
<1> SUFFICES ASSUME ShowingInit PROVE SInv
  OBVIOUS
<1>1. IInv
  BY IInvInit DEF ShowingInit
<1>2. D!IInv
  BY SameInit, D!InitIInv, ShowingAssumption DEF ShowingInit
<1>3. StatusShared /\ ReportShared
  BY DEF ShowingInit, Init, Seen!Init, Seen!LifecycleInit, StatusShared, ReportShared
<1>4. ~retried
  BY DEF ShowingInit, Init
<1> QED BY <1>1, <1>2, <1>3, <1>4 DEF SInv

LEMMA SInvStep == SInv /\ [ShowingNext]_showingVars => SInv'
<1> SUFFICES ASSUME SInv, [ShowingNext]_showingVars PROVE SInv'
  OBVIOUS
<1>1. IInv'
  BY PipelineStepOf, IInvStep DEF SInv
<1>2. D!IInv'
  BY SeenStepOf, SeenKeeps DEF SInv
<1>3. ~Refinish => ~retried'
  BY RetriedStep DEF SInv
<1> QED BY <1>1, <1>2, <1>3, StatusSharedStep, ReportSharedStep DEF SInv

\* Every reachable state of a showing satisfies the joint invariant.
THEOREM ShowingInvariance == ShowingSpec => []SInv
  BY SInvInit, SInvStep, PTL DEF ShowingSpec

\* The agent's and the client's requests do nothing to the processing that Pipeline
\* does not: what is proved of Pipeline holds of the showing.
THEOREM ShowingIsPipeline == ShowingSpec => Spec
<1>1. ShowingInit => Init
  BY DEF ShowingInit
<1>2. SInv /\ [ShowingNext]_showingVars => [Next]_vars
  BY PipelineStepOf
<1> QED BY <1>1, <1>2, ShowingInvariance, PTL DEF ShowingSpec, Spec

\* The tasks do to the agent's rows nothing that Delivery does not expect of its
\* chains: what is proved of Delivery holds of the showing.
THEOREM ChainsAre == ShowingSpec => ChainsAreAsAssumed
<1>1. ShowingInit => Seen!Init
  BY DEF ShowingInit
<1>2. SInv /\ [ShowingNext]_showingVars => [Seen!Next]_(Seen!vars)
  BY SeenStepOf
<1> QED BY <1>1, <1>2, ShowingInvariance, PTL DEF ShowingSpec, ChainsAreAsAssumed, Seen!Spec

\* The report that waits for review is the newest one, which is the one that
\* confirm_showing confirms, and the processing's view of it is the agent's.
THEOREM PendingIsTheNewest == ShowingSpec => []PendingIsNewest
<1>1. ASSUME SInv PROVE PendingIsNewest
  <2>1. /\ StatusShared /\ ReportShared
        /\ \A i \in 1..MaxReports : report[i].status = "pending_review" => i = last
        /\ last # 0 => last \in 1..MaxReports
    BY <1>1, SharedTypes DEF SInv
  <2>2. PICK P : P = {i \in 1..MaxReports : report[i].status = "pending_review"}
    OBVIOUS
  <2>3. CASE last # 0 /\ report[last].status = "pending_review"
    <3>1. P = {last} /\ reports = 1
      BY <2>1, <2>2, <2>3 DEF ReportShared
    <3>2. Cardinality(P) = 1
      BY <3>1, FS_Singleton
    <3> QED BY <2>1, <2>2, <3>1, <3>2 DEF PendingIsNewest, StatusShared
  <2>4. CASE ~(last # 0 /\ report[last].status = "pending_review")
    <3>1. P = {} /\ reports = 0
      BY <2>1, <2>2, <2>4 DEF ReportShared
    <3>2. Cardinality(P) = 0
      BY <3>1, FS_EmptySet
    <3> QED BY <2>1, <2>2, <3>1, <3>2 DEF PendingIsNewest, StatusShared
  <2> QED BY <2>3, <2>4
<1> QED BY <1>1, ShowingInvariance, PTL

\* Unless finish was accepted over earlier processing, no task is left that could
\* work on the showing once its review has ended.
LEMMA NoTaskAfterReview ==
  ASSUME SInv, ~retried, visit # "draft"
  PROVE  /\ \A k \in Chains : task[k].step = "none"
         /\ reports = 0 /\ ~draft
<1>1. OnlyChain /\ ReviewFollows /\ ~draft
  BY DEF SInv, IInv, StatusShared
<1>2. status = "ready" /\ reports = 0
  BY <1>1 DEF ReviewFollows
<1> QED BY <1>1, <1>2 DEF OnlyChain, Active

\* The observations of a confirmed showing stay reviewed.
LEMMA SensitiveStep ==
  ASSUME SInv, SensitiveFirst, [ShowingNext]_showingVars
  PROVE  SensitiveFirst'
<1> SUFFICES ASSUME ~retried', visit' # "draft", NEW o \in SensitiveObs
             PROVE  obs'[o] # "pending"
  BY DEF SensitiveFirst, Seen!SensitiveReviewed
<1>1. /\ o \in Obs /\ obs \in [Obs -> D!ObsStatus]
  BY SharedTypes, ShowingAssumption DEF SInv
<1>2. ASSUME obs' = obs, visit # "draft", ~retried PROVE obs'[o] # "pending"
  BY <1>2 DEF SensitiveFirst, Seen!SensitiveReviewed
<1>3. CASE PipelineStep
  <2>1. visit # "draft"
    BY <1>3, PipelineFrame
  <2>2. ~draft
    BY <2>1 DEF SInv, StatusShared
  <2>3. \A k \in Chains : ~Finish(k) /\ ~Reprocess(k)
    BY <2>2 DEF Finish, Reprocess, FinishShowing, ReprocessShowing
  <2>4. ~retried
    <3>1. \A k \in Chains : Extract(k) \/ Generate(k) => retried' = retried
      BY DEF Extract, Generate, CommitExtraction, CommitReport, historyVars
    <3> QED BY <1>3, <2>3, <3>1, PipelineFrame
  <2>5. \A k \in Chains : ~Extract(k) /\ ~Generate(k)
    BY <2>1, <2>4, NoTaskAfterReview
       DEF Extract, Generate, CommitExtraction, CommitReport, Works
  <2>6. obs' = obs
    BY <1>3, <2>3, <2>5, PipelineFrame DEF reviewVars
  <2> QED BY <1>2, <2>1, <2>4, <2>6
<1>4. CASE Confirm
  BY <1>4 DEF Confirm, Seen!ConfirmShowing, Seen!ReviewComplete
<1>5. ASSUME NEW i \in 1..MaxReports, NEW c \in Contents, Edit(i, c)
      PROVE  obs'[o] # "pending"
  BY <1>2, <1>5 DEF Edit, Seen!UpdateReport, historyVars
<1>6. CASE Review
  <2>1. visit # "draft" /\ ~retried
    BY <1>6, ReviewFrame DEF vars, historyVars
  <2>2. obs[o] # "pending"
    BY <2>1 DEF SensitiveFirst, Seen!SensitiveReviewed
  <2>3. \/ obs' = obs
        \/ \E p \in Obs : \/ obs' = [obs EXCEPT ![p] =
                                            IF @ = "edited" THEN "edited" ELSE "assessed"]
                          \/ obs' = [obs EXCEPT ![p] = "edited"]
    BY <1>6 DEF Review, Seen!AssessObservation, Seen!EditObservation, Seen!AddObservation,
                Seen!AttachSubject
  <2> QED BY <1>1, <2>2, <2>3
<1>7. CASE Deliver
  <2>1. obs' = obs /\ visit # "draft" /\ ~retried
    BY <1>7, DeliverFrame DEF vars, historyVars
  <2> QED BY <1>2, <2>1
<1>8. CASE UNCHANGED showingVars
  BY <1>2, <1>8 DEF showingVars, vars, historyVars, reviewVars
<1> QED BY <1>3, <1>4, <1>5, <1>6, <1>7, <1>8 DEF ShowingNext

\* No confirmed showing has a sensitive observation that nobody reviewed, unless
\* finish was accepted over earlier processing.
THEOREM SensitiveAreFirst == ShowingSpec => []SensitiveFirst
<1>1. ShowingInit => SensitiveFirst
  BY DEF ShowingInit, Seen!Init, Seen!LifecycleInit, SensitiveFirst, Seen!SensitiveReviewed
<1>2. SInv /\ SensitiveFirst /\ [ShowingNext]_showingVars => SensitiveFirst'
  BY SensitiveStep
<1> QED BY <1>1, <1>2, ShowingInvariance, PTL DEF ShowingSpec

\* What confirms a report is confirm_showing.
LEMMA ConfirmStep ==
  ASSUME SInv, [ShowingNext]_showingVars, ~retried, NEW i \in 1..MaxReports, Confirms(i)
  PROVE  AgentConfirms(i)
<1>1. report[i].status = "pending_review" /\ report'[i].status = "confirmed"
  BY DEF Confirms
<1>2. report' # report
  BY <1>1
<1>3. /\ i = last /\ report \in [1..MaxReports -> D!Report] /\ last \in 0..MaxReports
      /\ StatusShared /\ ReportShared
  BY <1>1, SharedTypes DEF SInv
<1>4. ASSUME NEW k \in Chains, Reprocess(k) PROVE FALSE
  <2>1. report'[i] = Seen!Absent
    BY <1>1, <1>4 DEF Reprocess, Seen!DiscardReports, Seen!DeletePending, Seen!ReportIds
  <2> QED BY <1>1, <2>1 DEF Seen!Absent
<1>5. ASSUME NEW k \in Chains, Generate(k) PROVE FALSE
  <2>1. PICK c \in Drafts :
          report' = [j \in Seen!ReportIds |->
                       IF j = last + 1 THEN Seen!Pending(c)
                       ELSE IF Seen!DeletePending(j) THEN Seen!Absent ELSE report[j]]
    BY <1>5 DEF Generate, Seen!StoreDraft
  <2>2. report'[i] \in {Seen!Pending(c), Seen!Absent}
    BY <1>1, <2>1 DEF Seen!ReportIds, Seen!DeletePending
  <2> QED BY <1>1, <2>2 DEF Seen!Pending, Seen!Absent
<1>6. ~PipelineStep
  BY <1>2, <1>4, <1>5, PipelineFrame DEF Finish, Extract, reviewVars
<1>7. CASE Confirm
  BY <1>1, <1>3, <1>7 DEF Confirm, Seen!ConfirmShowing, AgentConfirms
<1>8. ASSUME NEW j \in 1..MaxReports, NEW c \in Contents, Edit(j, c) PROVE FALSE
  <2>1. report' = [report EXCEPT ![j] = Seen!Edited(c)]
    BY <1>8 DEF Edit, Seen!UpdateReport
  <2>2. j = i /\ Seen!Edited(c).status = "confirmed"
    BY <1>1, <1>3, <2>1
  <2>3. visit = "confirmed"
    BY <2>2 DEF Seen!Edited, Seen!Pending
  <2>4. reports = 0
    BY <2>3, NoTaskAfterReview
  <2>5. reports = 1
    BY <1>1, <1>3 DEF ReportShared
  <2> QED BY <2>4, <2>5
<1>9. ~Review /\ ~Deliver
  BY <1>2, ReviewFrame, DeliverFrame
<1>10. ~UNCHANGED showingVars
  BY <1>2 DEF showingVars, reviewVars
<1> QED BY <1>6, <1>7, <1>8, <1>9, <1>10 DEF ShowingNext

\* A report becomes confirmed only by confirm_showing, on the agent's review of what
\* is there, unless finish was accepted over earlier processing.
THEOREM OnlyTheAgent == ShowingSpec => OnlyTheAgentUnlessRetried
<1>1. SInv /\ [ShowingNext]_showingVars =>
        [~retried => \A i \in 1..MaxReports : Confirms(i) => AgentConfirms(i)]_showingVars
  BY ConfirmStep
<1> QED BY <1>1, ShowingInvariance, PTL DEF ShowingSpec, OnlyTheAgentUnlessRetried

\* So the client of a showing that is really processed gets one e-mail at most, what
\* the e-mail's row says for certain is true, and every link leads to a confirmed
\* report rendered from its current document.
THEOREM DeliveryHolds ==
  ShowingSpec => [](/\ Seen!AtMostOneEmail
                    /\ Seen!RecordedOutcomeIsTrue
                    /\ Seen!LinksLeadToCurrentReports)
<1>1. ShowingSpec => D!Spec
  <2>1. ShowingInit => D!Init
    BY SameInit DEF ShowingInit
  <2>2. SInv /\ [ShowingNext]_showingVars => [D!Next]_(D!vars)
    <3>1. (Seen!vars' = Seen!vars) = (D!vars' = D!vars)
      BY DEF Seen!vars, D!vars, Seen!lifecycleVars, D!lifecycleVars, Seen!deliveryVars,
             D!deliveryVars
    <3> QED BY <3>1, SeenStepOf, SameNext
  <2> QED BY <2>1, <2>2, ShowingInvariance, PTL DEF ShowingSpec, D!Spec
<1>2. /\ D!Spec => []D!AtMostOneEmail
      /\ D!Spec => []D!RecordedOutcomeIsTrue
      /\ D!Spec => []D!LinksLeadToCurrentReports
  BY D!NoSecondEmail, D!TruthfulOutcome, D!LinksAreCurrent, ShowingAssumption
<1>3. /\ D!AtMostOneEmail => Seen!AtMostOneEmail
      /\ D!RecordedOutcomeIsTrue => Seen!RecordedOutcomeIsTrue
      /\ D!LinksLeadToCurrentReports => Seen!LinksLeadToCurrentReports
  BY DEF D!AtMostOneEmail, D!RecordedOutcomeIsTrue, D!LinksLeadToCurrentReports,
         Seen!AtMostOneEmail, Seen!RecordedOutcomeIsTrue, Seen!LinksLeadToCurrentReports
<1> QED BY <1>1, <1>2, <1>3, PTL

\* And its evidence exists once, what a failed step resumes from is there, and what
\* the agent confirms was processed completely.
THEOREM PipelineHolds ==
  ShowingSpec => [](OneSetUnlessRetried /\ ResumeHasInputs /\ ReadyIsComplete)
  BY ShowingIsPipeline, NoSecondSet, ResumptionHasInputs, ReadyIsWhole, PTL

=============================================================================
