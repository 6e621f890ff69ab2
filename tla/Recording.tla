------------------------------ MODULE Recording ------------------------------
(***************************************************************************)
(* The phone's recording screen (RecordingScreen.tsx) for one showing: the *)
(* recorder and its segments, the row of recording_sessions that names the *)
(* segment being recorded, its recovery after the app died, the end of the *)
(* showing, and the camera.  startSegment and finishShowing are processes, *)
(* both of which close the segment, and every await in them is a step.     *)
(*                                                                         *)
(* Elapsed time is counted in segments: a segment's first tick adds one.   *)
(***************************************************************************)
EXTENDS Naturals

CONSTANTS
  Shots,       \* photos and videos that may be under way together
  MaxSegments, \* bound: files the recorder opens
  MaxDeaths    \* bound: deaths of the app

VARIABLES
  capture,  \* the local database: the showing, its session row, its queued audio
  screen,   \* what the screen shows, and its recovery
  recorder, \* the file the recorder holds, and whether it records
  tape,     \* the files: those recorded to, those that are gone
  proc,     \* startSegment and finishShowing
  camera,   \* the camera and the shots taken with it
  rough     \* history: whether audio or shots may have been mislaid, see below

recordingVars == <<capture, screen, recorder, tape, proc, camera, rough>>

Segments == 1..MaxSegments
Offsets == 0..MaxSegments
NoSession == [file |-> 0, offset |-> 0]
SessionRows == [file : 0..MaxSegments, offset : Offsets]
Processes == {"start", "end"}

\* Audio rows of local_media.  copy is 2 in rows beside another one of the same file.
Queued == [file : Segments, offset : Offsets, copy : {1, 2}]

RecordingTypeOK ==
  /\ capture \in [showing : {"none", "active", "ended"}, elapsed : Offsets,
                  session : SessionRows, queue : SUBSET Queued]
  /\ screen \in [open : BOOLEAN,
                 phase : {"idle", "preparing", "recording", "interrupted", "stopping",
                          "stopped", "error"},
                 started : Offsets, recovery : {"pending", "found", "ready", "failed"},
                 found : SessionRows, deaths : 0..MaxDeaths]
  /\ recorder \in [file : 0..MaxSegments, on : BOOLEAN]
  /\ tape \in [opened : 0..MaxSegments, recorded : SUBSET Segments, gone : SUBSET Segments]
  /\ proc \in [Processes -> [at : {"idle", "asked", "wait", "stop", "enqueue", "clear",
                                   "permission", "prepare", "save", "record", "finish"},
                             offset : Offsets]]
  /\ camera \in [mode : {"closed", "photo", "video", "filming"},
                 shot : [Shots -> {"none", "photo", "film"}],
                 late : BOOLEAN]
  /\ rough \in [audio : {"kept", "repeated", "lost"}, hurried : BOOLEAN]

Idle == [at |-> "idle", offset |-> 0]
NoRecorder == [file |-> 0, on |-> FALSE]
NoCamera == [mode |-> "closed", shot |-> [s \in Shots |-> "none"], late |-> FALSE]
Home(deaths) == [open |-> FALSE, phase |-> "idle", started |-> 0, recovery |-> "ready",
                 found |-> NoSession, deaths |-> deaths]

RecordingInit ==
  /\ capture = [showing |-> "none", elapsed |-> 0, session |-> NoSession, queue |-> {}]
  /\ screen = Home(0)
  /\ recorder = NoRecorder
  /\ tape = [opened |-> 0, recorded |-> {}, gone |-> {}]
  /\ proc = [p \in Processes |-> Idle]
  /\ camera = NoCamera
  /\ rough = [audio |-> "kept", hurried |-> FALSE]

Closing == {"stop", "enqueue", "clear"}
Ending == proc["end"].at \in Closing \cup {"finish"}
Starting == proc["start"].at # "idle"
Halted == screen.phase \in {"interrupted", "error"}
At(p, step) == proc[p].at = step
To(p, step) == [proc EXCEPT ![p].at = step]

\* A segment may be queued again; a segment may be lost; a shot may come too late.
MayRepeat == [rough EXCEPT !.audio = IF @ = "lost" THEN @ ELSE "repeated"]
MayLose == [rough EXCEPT !.audio = "lost"]
Hurried == [rough EXCEPT !.hurried = TRUE]

-----------------------------------------------------------------------------
(* A segment starts.                                                       *)

\* begin and createShowing; the screen starts the first segment when it opens.
Begin ==
  /\ capture.showing = "none" /\ ~screen.open
  /\ capture' = [capture EXCEPT !.showing = "active"]
  /\ screen' = [screen EXCEPT !.open = TRUE, !.phase = "preparing"]
  /\ proc' = To("start", "permission")
  /\ UNCHANGED <<recorder, tape, camera, rough>>

\* The button is there after an interruption or an error.  An alert or
\* the camera covers it.
Resume ==
  /\ screen.open /\ Halted /\ screen.recovery = "ready" /\ camera.mode = "closed"
  /\ At("start", "idle") /\ ~At("end", "asked")
  /\ screen' = [screen EXCEPT !.phase = "preparing"]
  /\ proc' = [proc EXCEPT !["start"] = [at |-> "stop", offset |-> screen.started]]
  /\ rough' = IF Ending THEN MayLose ELSE rough
  /\ UNCHANGED <<capture, recorder, tape, camera>>

Granted ==
  /\ At("start", "permission")
  /\ proc' = To("start", "prepare")
  /\ UNCHANGED <<capture, screen, recorder, tape, camera, rough>>

\* prepareToRecordAsync opens the next file.
Prepare ==
  /\ At("start", "prepare") /\ screen.open /\ tape.opened < MaxSegments
  /\ tape' = [tape EXCEPT !.opened = @ + 1]
  /\ recorder' = [file |-> tape.opened + 1, on |-> FALSE]
  /\ proc' = To("start", "save")
  /\ UNCHANGED <<capture, screen, camera, rough>>

SaveRecordingSession ==
  /\ At("start", "save") /\ screen.open
  /\ capture' = [capture EXCEPT !.session = [file |-> recorder.file,
                                             offset |-> capture.elapsed]]
  /\ proc' = To("start", "record")
  /\ UNCHANGED <<screen, recorder, tape, camera, rough>>

\* recorder.record() and READY.
Record ==
  /\ At("start", "record") /\ screen.open
  /\ recorder' = [recorder EXCEPT !.on = TRUE]
  /\ tape' = [tape EXCEPT !.recorded = @ \cup {recorder.file}]
  /\ screen' = [screen EXCEPT !.phase = "recording", !.started = capture.elapsed]
  /\ proc' = To("start", "idle")
  /\ rough' = IF At("end", "asked") \/ At("end", "wait") THEN MayRepeat ELSE rough
  /\ UNCHANGED <<capture, camera>>

\* A permission refused, or any step of startSegment that throws.
StartFails ==
  /\ proc["start"].at \notin {"idle", "stop"}
  /\ proc' = [proc EXCEPT !["start"] = Idle]
  /\ screen' = IF screen.open THEN [screen EXCEPT !.phase = "error"] ELSE screen
  /\ rough' = MayRepeat
  /\ UNCHANGED <<capture, recorder, tape, camera>>

TickElapsed ==
  /\ screen.open /\ screen.phase = "recording" /\ recorder.on
  /\ capture.elapsed = screen.started
  /\ capture' = [capture EXCEPT !.elapsed = screen.started + 1]
  /\ UNCHANGED <<screen, recorder, tape, proc, camera, rough>>

\* The recorder reports an error, which may or may not have stopped it.
Interrupted ==
  /\ screen.open /\ recorder.file # 0 /\ screen.phase # "interrupted"
  /\ screen' = [screen EXCEPT !.phase = "interrupted"]
  /\ \E on \in {FALSE, recorder.on} : recorder' = [recorder EXCEPT !.on = on]
  /\ UNCHANGED <<capture, tape, proc, camera, rough>>

-----------------------------------------------------------------------------
(* closeSegment, on behalf of startSegment or of finishShowing.            *)

StopRecorder(p) ==
  /\ At(p, "stop")
  /\ recorder' = [recorder EXCEPT !.on = FALSE]
  /\ proc' = To(p, "enqueue")
  /\ UNCHANGED <<capture, screen, tape, camera, rough>>

Enqueue(file, offset, queue) ==
  queue \cup {[file |-> file, offset |-> offset,
              copy |-> IF \E q \in queue : q.file = file THEN 2 ELSE 1]}

EnqueueMedia(p) ==
  /\ At(p, "enqueue") /\ screen.open
  /\ capture' = IF recorder.file = 0 \/ recorder.file \in tape.gone THEN capture
                ELSE [capture EXCEPT !.queue = Enqueue(recorder.file, proc[p].offset, @)]
  /\ proc' = [proc EXCEPT ![p] = [at |-> "clear", offset |-> 0]]
  /\ UNCHANGED <<screen, recorder, tape, camera, rough>>

ClearRecordingSession(p) ==
  /\ At(p, "clear")
  /\ capture' = [capture EXCEPT !.session = NoSession]
  /\ proc' = To(p, IF p = "start" THEN "permission" ELSE "finish")
  /\ UNCHANGED <<screen, recorder, tape, camera, rough>>

-----------------------------------------------------------------------------
(* The end of the showing.                                                 *)

\* The alert keeps the state of the moment the button was pressed.
PressEnd ==
  /\ screen.open /\ camera.mode = "closed" /\ At("end", "idle")
  /\ proc' = [proc EXCEPT !["end"] = [at |-> "asked", offset |-> screen.started]]
  /\ UNCHANGED <<capture, screen, recorder, tape, camera, rough>>

AnswerAlert ==
  /\ screen.open /\ At("end", "asked")
  /\ \/ proc' = To("end", "wait")
     \/ proc' = [proc EXCEPT !["end"] = Idle]
  /\ UNCHANGED <<capture, screen, recorder, tape, camera, rough>>

\* Fault: End does not wait for the recovery.
RecoveredOrNot ==
  /\ At("end", "wait")
  /\ screen' = [screen EXCEPT !.phase = "stopping"]
  /\ proc' = To("end", "stop")
  /\ rough' = IF Starting THEN MayLose ELSE rough
  /\ UNCHANGED <<capture, recorder, tape, camera>>

\* waitForRecovery.
Recovered ==
  /\ At("end", "wait") /\ screen.recovery \in {"ready", "failed"}
  /\ IF screen.recovery = "ready"
     THEN /\ screen' = [screen EXCEPT !.phase = "stopping"]
          /\ proc' = To("end", "stop")
          /\ rough' = IF Starting THEN MayLose ELSE rough
     ELSE /\ proc' = [proc EXCEPT !["end"] = Idle]
          /\ UNCHANGED <<screen, rough>>
  /\ UNCHANGED <<capture, recorder, tape, camera>>

\* finish, STOPPED and onFinished, which opens the home screen.
Finish ==
  /\ At("end", "finish")
  /\ capture' = [capture EXCEPT !.showing = "ended"]
  /\ screen' = Home(screen.deaths)
  /\ recorder' = NoRecorder
  /\ camera' = [camera EXCEPT !.mode = "closed"]
  /\ proc' = [proc EXCEPT !["end"] = Idle]
  /\ UNCHANGED <<tape, rough>>

EndFails ==
  /\ proc["end"].at \in {"enqueue", "clear", "finish"}
  /\ proc' = [proc EXCEPT !["end"] = Idle]
  /\ rough' = MayRepeat
  /\ UNCHANGED <<capture, screen, recorder, tape, camera>>

-----------------------------------------------------------------------------
(* The app dies, or its session expires; the recovery when it opens again. *)

\* The next start shows the active showing.  The session's file may be gone by then.
AppDies ==
  /\ screen.deaths < MaxDeaths
  /\ screen' = IF capture.showing = "active"
               THEN [open |-> TRUE, phase |-> "interrupted", started |-> capture.elapsed,
                     recovery |-> "pending", found |-> NoSession,
                     deaths |-> screen.deaths + 1]
               ELSE Home(screen.deaths + 1)
  /\ \E gone \in SUBSET ({capture.session.file} \ {0}) :
       tape' = [tape EXCEPT !.gone = @ \cup gone]
  /\ recorder' = NoRecorder
  /\ proc' = [p \in Processes |-> Idle]
  /\ camera' = [NoCamera EXCEPT !.late = camera.late]
  /\ UNCHANGED <<capture, rough>>

\* onSessionExpired closes the screen, which releases the recorder; what it had
\* under way goes on without it.
SessionExpires ==
  /\ screen.open
  /\ screen' = Home(screen.deaths)
  /\ recorder' = NoRecorder
  /\ camera' = [camera EXCEPT !.mode = "closed"]
  /\ proc' = IF proc["end"].at \in {"asked", "wait"} THEN [proc EXCEPT !["end"] = Idle]
             ELSE proc
  /\ UNCHANGED <<capture, tape, rough>>

RecoverInterruptedSegment ==
  /\ screen.open /\ screen.recovery = "pending"
  /\ LET s == capture.session IN
     screen' = IF s = NoSession THEN [screen EXCEPT !.recovery = "ready"]
               ELSE IF s.file \in tape.gone
               THEN [screen EXCEPT !.recovery = "failed", !.phase = "error"]
               ELSE [screen EXCEPT !.recovery = "found", !.found = s]
  /\ UNCHANGED <<capture, recorder, tape, proc, camera, rough>>

\* The rows of the session's audio: those of the same file and offset are its own.
Adopted(session, queue) ==
  IF \E q \in queue : q.file = session.file /\ q.offset = session.offset THEN queue
  ELSE Enqueue(session.file, session.offset, queue)

RecoverInterruptedAudio ==
  /\ screen.open /\ screen.recovery = "found"
  /\ IF capture.session \in {NoSession, screen.found}
     THEN screen' = [screen EXCEPT !.recovery = "ready", !.found = NoSession]
     ELSE screen' = [screen EXCEPT !.recovery = "failed", !.found = NoSession,
                                   !.phase = "error"]
  /\ capture' = IF capture.session = screen.found
                THEN [capture EXCEPT !.queue = Adopted(screen.found, @),
                                     !.session = NoSession]
                ELSE capture
  /\ UNCHANGED <<recorder, tape, proc, camera, rough>>

-----------------------------------------------------------------------------
(* The camera.                                                             *)

\* Shots under way.
ShotsTaken == {s \in Shots : camera.shot[s] # "none"}

\* The buttons are there unless the recording is interrupted, while it ends too.
OpenCamera ==
  /\ screen.open /\ ~Halted /\ camera.mode = "closed" /\ ~At("end", "asked")
  /\ \E mode \in {"photo", "video"} : camera' = [camera EXCEPT !.mode = mode]
  /\ rough' = IF At("end", "idle") THEN rough ELSE Hurried
  /\ UNCHANGED <<capture, screen, recorder, tape, proc>>

\* Fault: the camera closes while it films.
CloseCameraAnyTime ==
  /\ camera.mode # "closed"
  /\ camera' = [camera EXCEPT !.mode = "closed"]
  /\ rough' = IF ShotsTaken = {} \/ camera.mode = "filming" THEN rough
              ELSE Hurried
  /\ UNCHANGED <<capture, screen, recorder, tape, proc>>

CloseCamera ==
  /\ camera.mode \in {"photo", "video"}
  /\ camera' = [camera EXCEPT !.mode = "closed"]
  /\ rough' = IF ShotsTaken = {} THEN rough ELSE Hurried
  /\ UNCHANGED <<capture, screen, recorder, tape, proc>>

TakePhoto(s) ==
  /\ camera.mode = "photo" /\ camera.shot[s] = "none"
  /\ camera' = [camera EXCEPT !.shot[s] = "photo"]
  /\ UNCHANGED <<capture, screen, recorder, tape, proc, rough>>

StartVideo(s) ==
  /\ camera.mode = "video" /\ camera.shot[s] = "none"
  /\ camera' = [camera EXCEPT !.mode = "filming", !.shot[s] = "film"]
  /\ UNCHANGED <<capture, screen, recorder, tape, proc, rough>>

\* The photo was taken, or the film was stopped or is as long or as large as it may
\* be: it is copied and queued, and the camera closes.
ShotQueued(s) ==
  /\ camera.shot[s] # "none"
  /\ camera' = [camera EXCEPT !.shot[s] = "none", !.mode = "closed",
                              !.late = @ \/ capture.showing = "ended"]
  /\ rough' = IF ShotsTaken = {s} THEN rough ELSE Hurried
  /\ UNCHANGED <<capture, screen, recorder, tape, proc>>

ShotFails(s) ==
  /\ camera.shot[s] # "none"
  /\ camera' = [camera EXCEPT !.shot[s] = "none",
                              !.mode = IF @ = "filming" THEN "video" ELSE @]
  /\ UNCHANGED <<capture, screen, recorder, tape, proc, rough>>

RecordingNext ==
  \/ Begin \/ Resume \/ Granted \/ Prepare \/ SaveRecordingSession \/ Record
  \/ StartFails \/ TickElapsed \/ Interrupted
  \/ \E p \in Processes : StopRecorder(p) \/ EnqueueMedia(p) \/ ClearRecordingSession(p)
  \/ PressEnd \/ AnswerAlert \/ Recovered \/ Finish \/ EndFails
  \/ AppDies \/ SessionExpires \/ RecoverInterruptedSegment \/ RecoverInterruptedAudio
  \/ OpenCamera \/ CloseCamera
  \/ \E s \in Shots : TakePhoto(s) \/ StartVideo(s) \/ ShotQueued(s)
                     \/ ShotFails(s)

RecordingSpec == RecordingInit /\ [][RecordingNext]_recordingVars

-----------------------------------------------------------------------------
(* Properties.                                                             *)

Has(file) == {q \in capture.queue : q.file = file}

\* Whatever was recorded would survive the app's death at this moment: it is in the
\* queue, or the session row names its file; and once the showing is ended it is in
\* the queue.  Except that End, confirmed while a segment starts, or Resume, pressed
\* while the showing ends, may lose a segment (RecordingScreen.tsx 79-126).
RecordedIsKept ==
  rough.audio # "lost" =>
    \A f \in tape.recorded \ tape.gone :
      Has(f) # {} \/ (capture.showing # "ended" /\ capture.session.file = f)

\* No file is queued twice, also when the app dies between queueing a segment and
\* clearing its session row.  Except after a start or an end that failed half-way,
\* which closes the same segment again, after an overlap, and when End was pressed
\* while a segment started, which queues it under an outdated offset.
RecordedIsQueuedOnce ==
  rough.audio = "kept" => \A q \in capture.queue : q.copy = 1

\* Neither audio nor a shot is lost or queued twice.
RecordingsAreQueuedOnce == RecordedIsKept /\ RecordedIsQueuedOnce

\* No photo or video joins a showing that is already ended, unless the camera was
\* opened while the showing ended, or closed while a photo was being saved.
CapturesPrecedeTheEnd == camera.late => rough.hurried
=============================================================================
