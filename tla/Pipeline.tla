------------------------------ MODULE Pipeline ------------------------------
(***************************************************************************)
(* The processing of one showing: finish_showing and reprocess_showing put *)
(* a chain of Celery tasks on the queue, and workers run its steps one by  *)
(* one (backend pipeline service).  A step reads the visit row, calls a    *)
(* model for minutes without holding anything, and writes its result in    *)
(* the transaction that ends it.  Nothing ties a step to the run that      *)
(* queued it: it works for whatever run the visit row names when it begins. *)
(***************************************************************************)
EXTENDS Naturals, FiniteSets

CONSTANTS
  Audio,     \* audio media of the showing
  Chains,    \* Celery chains that can be under way at once
  MaxRuns    \* bound: processing runs ever started

ASSUME PipelineAssumption == MaxRuns \in Nat

VARIABLES
  draft,        \* visits.status = "draft"
  uploaded,     \* audio media with status "uploaded"
  status,       \* visits.processing_status
  failedStep,   \* visits.processing_failed_step, "none" if null
  run,          \* visits.processing_run_id; run ids are numbered, 0 is null
  succeeded,    \* pipeline_runs of the last three steps with status "success"
  transcripts,  \* transcripts of each audio medium
  zones,        \* zone sets stored, one for each zone detection
  findings,     \* sets of AI observations stored, one for each extraction
  reports,      \* pending reports, at most one
  task,         \* the Celery task each chain is at
  finished,     \* history: audio uploaded when finish was last accepted
  retried,      \* history: TRUE once finish was accepted over earlier processing
  died          \* history: TRUE once a process died and work was lost

visitVars == <<draft, uploaded, status, failedStep, run>>
outputVars == <<succeeded, transcripts, zones, findings, reports>>
historyVars == <<finished, retried, died>>
vars == <<visitVars, outputVars, task, historyVars>>

Steps == {"transcribe", "zone_detection", "observation_extraction", "report_generation"}
Busy == {"queued", "transcribing", "structuring", "generating"}
Status == Busy \cup {"not_started", "ready", "failed"}

Following == [transcribe |-> "zone_detection",
              zone_detection |-> "observation_extraction",
              observation_extraction |-> "report_generation",
              report_generation |-> "none"]

\* A task is committed (its run is in the database, its message not yet at the
\* broker), queued or working.  `run` and `media` are what it read when it began:
\* the media it has to transcribe, or those with segments.  `made` are the media
\* transcribed in the transaction it has open.
Task == [step : Steps \cup {"none"}, phase : {"committed", "queued", "working"},
         run : 0..MaxRuns, media : SUBSET Audio, made : SUBSET Audio]
At(step, phase) ==
  [step |-> step, phase |-> phase, run |-> 0, media |-> {}, made |-> {}]
Queued(step) == At(step, "queued")
Working(step, r, media, made) ==
  [step |-> step, phase |-> "working", run |-> r, media |-> media, made |-> made]

TypeOK ==
  /\ draft \in BOOLEAN
  /\ uploaded \subseteq Audio
  /\ status \in Status
  /\ failedStep \in Steps \cup {"none"}
  /\ run \in 0..MaxRuns
  /\ succeeded \subseteq (1..MaxRuns) \X Steps
  /\ transcripts \in [Audio -> Nat]
  /\ zones \in Nat /\ findings \in Nat /\ reports \in 0..1
  /\ task \in [Chains -> Task]
  /\ finished \subseteq Audio
  /\ retried \in BOOLEAN /\ died \in BOOLEAN

Init ==
  /\ draft = TRUE
  /\ uploaded = {}
  /\ status = "not_started" /\ failedStep = "none" /\ run = 0
  /\ succeeded = {}
  /\ transcripts = [a \in Audio |-> 0]
  /\ zones = 0 /\ findings = 0 /\ reports = 0
  /\ task = [k \in Chains |-> Queued("none")]
  /\ finished = {} /\ retried = FALSE /\ died = FALSE

-----------------------------------------------------------------------------
(* Starting a chain                                                        *)

\* Fault: the check for a draft showing is dropped.
UploadAnyTime(a) ==
  /\ uploaded' = uploaded \cup {a}
  /\ UNCHANGED <<draft, status, failedStep, run, outputVars, task, historyVars>>

\* complete_media of an audio medium; a draft showing takes new media at any time.
UploadAudio(a) ==
  /\ draft
  /\ uploaded' = uploaded \cup {a}
  /\ UNCHANGED <<draft, status, failedStep, run, outputVars, task, historyVars>>

\* The end of finish_showing and reprocess_showing: a new run is committed as
\* queued, and then its chain goes to the broker.
Enqueue(k, step) ==
  /\ run < MaxRuns
  /\ task[k].step = "none"
  /\ run' = run + 1
  /\ task' = [task EXCEPT ![k] = At(step, "committed")]
  /\ status' = "queued" /\ failedStep' = "none"

\* Fault: a chain the broker refuses is given up without a trace.
BrokerAcceptsOrNot(k) ==
  /\ task[k].step # "none" /\ task[k].phase = "committed"
  /\ task' \in {[task EXCEPT ![k] = Queued(@.step)], [task EXCEPT ![k] = Queued("none")]}
  /\ UNCHANGED <<visitVars, outputVars, historyVars>>

\* The broker takes the chain; if it refuses it, StepFails.
BrokerAccepts(k) ==
  /\ task[k].step # "none" /\ task[k].phase = "committed"
  /\ task' = [task EXCEPT ![k] = Queued(@.step)]
  /\ UNCHANGED <<visitVars, outputVars, historyVars>>

\* Nothing was processed before, or nothing that left a trace.
FirstFinish == status = "not_started" \/ (status = "failed" /\ failedStep = "transcribe")

\* finish_showing: only "queued" makes it a no-op.
FinishShowing(k) ==
  /\ draft
  /\ uploaded # {}
  /\ status # "queued"
  /\ Enqueue(k, "transcribe")
  /\ finished' = uploaded
  /\ retried' = (retried \/ ~FirstFinish)
  /\ UNCHANGED <<draft, uploaded, outputVars, died>>

\* Fault: the chain starts again at its first step.
ReprocessFromStart(k) ==
  /\ draft
  /\ status = "failed" /\ failedStep # "none"
  /\ Enqueue(k, "transcribe")
  /\ reports' = 0
  /\ findings' = IF failedStep = "report_generation" THEN findings ELSE 0
  /\ zones' = IF failedStep \in {"transcribe", "zone_detection"} THEN 0 ELSE zones
  /\ transcripts' = IF failedStep = "transcribe"
                    THEN [a \in Audio |-> 0] ELSE transcripts
  /\ UNCHANGED <<draft, uploaded, succeeded, historyVars>>

\* Fault: every reprocessing starts from an empty transcript.
ReprocessWipesTranscripts(k) ==
  /\ draft
  /\ status = "failed" /\ failedStep # "none"
  /\ Enqueue(k, failedStep)
  /\ reports' = 0
  /\ findings' = IF failedStep = "report_generation" THEN findings ELSE 0
  /\ zones' = IF failedStep \in {"transcribe", "zone_detection"} THEN 0 ELSE zones
  /\ transcripts' = [a \in Audio |-> 0]
  /\ UNCHANGED <<draft, uploaded, succeeded, historyVars>>

\* reprocess_showing: what the failed step and the later ones produced is
\* deleted, and the chain starts again at the failed step.
ReprocessShowing(k) ==
  /\ draft
  /\ status = "failed" /\ failedStep # "none"
  /\ Enqueue(k, failedStep)
  /\ reports' = 0
  /\ findings' = IF failedStep = "report_generation" THEN findings ELSE 0
  /\ zones' = IF failedStep \in {"transcribe", "zone_detection"} THEN 0 ELSE zones
  /\ transcripts' = IF failedStep = "transcribe"
                    THEN [a \in Audio |-> 0] ELSE transcripts
  /\ UNCHANGED <<draft, uploaded, succeeded, historyVars>>

-----------------------------------------------------------------------------
(* The steps of a chain                                                    *)

\* Fault: a step does not ask whether the showing is still a draft.
StartsAnyway(k, step) == task[k].step = step /\ task[k].phase = "queued"

\* A worker takes the task; _require_draft_visit.
Starts(k, step) == task[k].step = step /\ task[k].phase = "queued" /\ draft
Works(k, step) == task[k].step = step /\ task[k].phase = "working"

\* Fault: a success of any run counts.
DoneOnce(step) == \E r \in 1..run : <<r, step>> \in succeeded

\* has_successful_run, for the run the visit row names now.
Done(step) == <<run, step>> \in succeeded

Begin(k, media) ==
  task' = [task EXCEPT ![k] = Working(@.step, run, media, {})]

WithSegments == {a \in Audio : transcripts[a] > 0}

Advance(k) == task' = [task EXCEPT ![k] = Queued(Following[@.step])]

Record(k) == succeeded' = succeeded \cup {<<task[k].run, task[k].step>>}

\* A step whose work the row or its run says is done returns at once, and the
\* chain goes on to the next.
SkipStep(k) ==
  /\ \/ /\ Starts(k, "transcribe")
        /\ status \in {"structuring", "generating", "ready"}
        /\ UNCHANGED status
     \/ /\ Starts(k, "zone_detection")
        /\ status \in {"generating", "ready"} \/ Done("zone_detection")
        /\ UNCHANGED status
     \/ /\ Starts(k, "observation_extraction")
        /\ status \in {"generating", "ready"} \/ Done("observation_extraction")
        /\ status' = IF status = "ready" THEN "ready" ELSE "generating"
     \/ /\ Starts(k, "report_generation")
        /\ status = "ready" \/ Done("report_generation")
        /\ status' = "ready"
  /\ Advance(k)
  /\ UNCHANGED <<draft, uploaded, failedStep, run, outputVars, historyVars>>

\* transcribe, up to its first commit.
BeginTranscribe(k) ==
  /\ Starts(k, "transcribe")
  /\ status \notin {"structuring", "generating", "ready"}
  /\ status' = "transcribing"
  /\ failedStep' = "none"
  /\ Begin(k, uploaded)
  /\ UNCHANGED <<draft, uploaded, run, outputVars, historyVars>>

\* One turn of its loop: a medium that has a transcript by now is passed over.
TranscribeMedium(k, a) ==
  /\ Works(k, "transcribe") /\ a \in task[k].media
  /\ task' = [task EXCEPT ![k] =
       Working("transcribe", @.run, @.media \ {a},
               IF transcripts[a] = 0 THEN @.made \cup {a} ELSE @.made)]
  /\ UNCHANGED <<visitVars, outputVars, historyVars>>

\* The transcripts are committed together, at the end.
CommitTranscribe(k) ==
  /\ Works(k, "transcribe") /\ task[k].media = {}
  /\ transcripts' = [a \in Audio |-> transcripts[a] + IF a \in task[k].made THEN 1 ELSE 0]
  /\ Advance(k)
  /\ UNCHANGED <<visitVars, succeeded, zones, findings, reports, historyVars>>

\* detect_zones, up to its first commit.
BeginZones(k) ==
  /\ Starts(k, "zone_detection")
  /\ status \notin {"generating", "ready"} /\ ~Done("zone_detection")
  /\ status' = "structuring"
  /\ Begin(k, WithSegments)
  /\ UNCHANGED <<draft, uploaded, failedStep, run, outputVars, historyVars>>

CommitZones(k) ==
  /\ Works(k, "zone_detection") /\ task[k].media # {}
  /\ zones' = zones + 1
  /\ Record(k)
  /\ Advance(k)
  /\ UNCHANGED <<visitVars, transcripts, findings, reports, historyVars>>

\* extract_observations commits nothing before its end.
BeginExtraction(k) ==
  /\ Starts(k, "observation_extraction")
  /\ status \notin {"generating", "ready"} /\ ~Done("observation_extraction")
  /\ WithSegments # {}
  /\ Begin(k, WithSegments)
  /\ UNCHANGED <<visitVars, outputVars, historyVars>>

CommitExtraction(k) ==
  /\ Works(k, "observation_extraction")
  /\ findings' = findings + 1
  /\ status' = "generating"
  /\ Record(k)
  /\ Advance(k)
  /\ UNCHANGED <<draft, uploaded, failedStep, run, transcripts, zones, reports, historyVars>>

\* generate_report
BeginReport(k) ==
  /\ Starts(k, "report_generation")
  /\ status # "ready" /\ ~Done("report_generation")
  /\ Begin(k, {})
  /\ UNCHANGED <<visitVars, outputVars, historyVars>>

\* Fault: earlier pending reports stay.
CommitReportBeside(k) ==
  /\ Works(k, "report_generation")
  /\ reports' = reports + 1
  /\ status' = "ready" /\ failedStep' = "none"
  /\ Record(k)
  /\ Advance(k)
  /\ UNCHANGED <<draft, uploaded, run, transcripts, zones, findings, historyVars>>

\* Pending reports are replaced by the new one.
CommitReport(k) ==
  /\ Works(k, "report_generation")
  /\ reports' = 1
  /\ status' = "ready" /\ failedStep' = "none"
  /\ Record(k)
  /\ Advance(k)
  /\ UNCHANGED <<draft, uploaded, run, transcripts, zones, findings, historyVars>>

\* Fault: the exception is recorded but does not stop the chain.
StepFailsOnward(k) ==
  /\ task[k].step # "none"
  /\ status' = "failed" /\ failedStep' = task[k].step
  /\ task' = [task EXCEPT ![k] = Queued(Following[@.step])]
  /\ UNCHANGED <<draft, uploaded, run, outputVars, historyVars>>

\* A step that raises (also because the showing is no longer a draft) is rolled
\* back and marked failed, whatever run the row names by then; the chain ends.
\* The caller of enqueue writes the same when the broker refuses the chain.
StepFails(k) ==
  /\ task[k].step # "none"
  /\ status' = "failed" /\ failedStep' = task[k].step
  /\ task' = [task EXCEPT ![k] = Queued("none")]
  /\ UNCHANGED <<draft, uploaded, run, outputVars, historyVars>>

\* A worker acknowledges a message before it runs it: if it dies, the rest of
\* the chain is lost.  So it is if the API process dies between commit and enqueue.
\* (Bound: nothing dies in the last run.)
ProcessDies(k) ==
  /\ task[k].step # "none"
  /\ run < MaxRuns
  /\ task' = [task EXCEPT ![k] = Queued("none")]
  /\ died' = TRUE
  /\ UNCHANGED <<visitVars, outputVars, finished, retried>>

\* confirm_showing: processing_status is not looked at.  A showing that is not
\* sent yet can be confirmed again, and then an edit confirms as well: both end
\* the review of a report that a chain still added.
ConfirmShowing ==
  /\ draft => reports = 1
  /\ draft' = FALSE
  /\ reports' = 0
  /\ UNCHANGED <<uploaded, status, failedStep, run, task, historyVars>>
  /\ UNCHANGED <<succeeded, transcripts, zones, findings>>

\* What a chain does that leaves the agent's rows as they are.
InnerStep(k) ==
  \/ BrokerAccepts(k)
  \/ SkipStep(k)
  \/ BeginTranscribe(k) \/ CommitTranscribe(k)
  \/ \E a \in Audio : TranscribeMedium(k, a)
  \/ BeginZones(k) \/ CommitZones(k)
  \/ BeginExtraction(k)
  \/ BeginReport(k)
  \/ StepFails(k)

RunStep(k) == InnerStep(k) \/ CommitExtraction(k) \/ CommitReport(k)

Next ==
  \/ \E a \in Audio : UploadAudio(a)
  \/ \E k \in Chains :
       FinishShowing(k) \/ ReprocessShowing(k) \/ RunStep(k) \/ ProcessDies(k)
  \/ ConfirmShowing

Spec == Init /\ [][Next]_vars

\* Workers take the tasks that are queued and finish or fail them.
FairSpec == Spec /\ \A k \in Chains : WF_vars(RunStep(k))

\* And an agent who sees the showing stuck calls finish and reprocess again.
InsistentSpec ==
  FairSpec /\ \A k \in Chains : WF_vars(FinishShowing(k)) /\ WF_vars(ReprocessShowing(k))

-----------------------------------------------------------------------------
(* Properties                                                              *)

\* However chains overlap, a showing that is said to be ready has a report to
\* review: reprocessing never takes it away behind that status.
ReadyHasReport == status = "ready" /\ draft => reports = 1

\* A failed showing can be reprocessed, and no task of the failed run is left that
\* would run beside the new one.
FailedHasStopped ==
  status = "failed" =>
    /\ failedStep # "none"
    /\ retried \/ \A k \in Chains : task[k].step = "none"

\* Each step's output exists at most once, through any number of failures and
\* reprocessings: "each step idempotent and resumable"
\* (docs/Homean_Build_Plan_v1.md:236).
OneSetOfEvidence ==
  /\ \A a \in Audio : transcripts[a] <= 1
  /\ zones <= 1
  /\ findings <= 1

\* The same, as long as finish_showing is not accepted again over earlier work.
OneSetUnlessRetried == retried \/ OneSetOfEvidence

\* Reprocessing from the failed step finds what the earlier steps produced.
ResumeHasInputs ==
  ~retried /\ status = "failed" =>
    /\ failedStep # "transcribe" => \A a \in finished : transcripts[a] = 1
    /\ failedStep \in {"observation_extraction", "report_generation"} => zones = 1
    /\ failedStep = "report_generation" => findings = 1

\* A report that is ready, or that the agent confirmed, was made from a transcript
\* of everything that was recorded before the agent finished, in zones, with
\* observations.
ReadyIsComplete ==
  ~retried /\ (status = "ready" \/ ~draft) =>
    /\ \A a \in finished : transcripts[a] = 1
    /\ zones = 1 /\ findings = 1

\* What the phone sees of the showing (CaptureApi) changes only as that module
\* says: by a capture, by a call of finish, or behind its back.
ProcessingSeen == IF status \in Busy \ {"queued"} THEN "running" ELSE status

VisitSeen == IF draft THEN "draft" ELSE "confirmed"

MediaSeen == [a \in Audio |-> IF a \in uploaded THEN "uploaded" ELSE "pending"]

Phone == INSTANCE CaptureApi WITH
  Media <- Audio, Large <- {}, Tags <- {}, oversized <- {}, marked <- {}, stored <- Audio,
  visit <- VisitSeen, received <- MediaSeen, processing <- ProcessingSeen

PhoneSeesProcessing ==
  [][ \/ \E a \in Audio : Phone!CompleteMedia(a)
      \/ Phone!FinishShowing \/ Phone!Process \/ Phone!ConfirmShowing ]_(Phone!apiVars)

\* Processing ends as "ready" or "failed": "processing_status transitions queued
\* -> transcribing -> structuring -> generating -> ready, or failed"
\* (docs/Homean_Build_Plan_v1.md:237-238).
ProcessingSettles == status \in Busy ~> status \in {"ready", "failed"}

\* It does, if no process dies at the wrong moment.
SettlesUnlessWorkIsLost == []~died => ProcessingSettles

=============================================================================
