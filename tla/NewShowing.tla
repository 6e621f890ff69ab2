----------------------------- MODULE NewShowing -----------------------------
(***************************************************************************)
(* The dashboard's form for a showing recorded elsewhere                   *)
(* (new-showing-form.tsx and uploadWithProgress in api.ts): the files      *)
(* listed, the choices, and submit, a coroutine that creates the showing,  *)
(* presigns, uploads and completes one file after another and ends the     *)
(* showing.  Nothing of a failed submit is undone or reused.               *)
(*                                                                         *)
(* Each request is carried out in one step and answered in another; it or  *)
(* its answer may be lost.                                                 *)
(***************************************************************************)
EXTENDS Naturals, Sequences, SequencesExt

CONSTANTS
  Files,       \* what may be added to the form
  Recordings,  \* the audio files among them
  MaxShowings  \* bound: showings created

VARIABLES
  form,   \* uploads and the choices
  run,    \* where submit is, and the state it closed over
  stored  \* the showings of the server: what was uploaded, completed, ended

formVars == <<form, run, stored>>

Steps == {"idle", "create", "presign", "upload", "complete", "finish", "left"}
Showing == [property : BOOLEAN, uploaded : SUBSET Files, complete : SUBSET Files,
            ended : BOOLEAN]

FormTypeOK ==
  /\ form \in [uploads : Seq([file : Files, done : BOOLEAN]),
               property : {"missing", "given", "none"}, consent : BOOLEAN,
               pending : BOOLEAN]
  /\ run \in [step : Steps, served : BOOLEAN, files : Seq(Files), property : BOOLEAN,
              index : Nat, showing : 0..MaxShowings]
  /\ stored \in Seq(Showing)

FormInit ==
  /\ form = [uploads |-> <<>>, property |-> "missing", consent |-> FALSE,
             pending |-> FALSE]
  /\ run = [step |-> "idle", served |-> FALSE, files |-> <<>>, property |-> FALSE,
            index |-> 1, showing |-> 0]
  /\ stored = <<>>

Listed == {form.uploads[i].file : i \in DOMAIN form.uploads}

-----------------------------------------------------------------------------
(* The form; it stays open to all but removals while submit runs.          *)

Open == run.step # "left"

\* addFiles, from the picker or a drop.
AddFile(f) ==
  /\ Open
  /\ f \notin Listed
  /\ form' = [form EXCEPT !.uploads = Append(@, [file |-> f, done |-> FALSE])]
  /\ UNCHANGED <<run, stored>>

\* Fault: a file can be removed while submit runs.
RemoveAnyTime(i) ==
  /\ Open
  /\ ~form.uploads[i].done
  /\ form' = [form EXCEPT !.uploads = RemoveAt(@, i)]
  /\ UNCHANGED <<run, stored>>

RemoveFile(i) ==
  /\ Open
  /\ ~form.uploads[i].done /\ ~form.pending
  /\ form' = [form EXCEPT !.uploads = RemoveAt(@, i)]
  /\ UNCHANGED <<run, stored>>

\* An address is typed or picked, or emptied, or left out on purpose.
ChooseProperty(p) ==
  /\ Open
  /\ form' = [form EXCEPT !.property = p]
  /\ UNCHANGED <<run, stored>>

Attest ==
  /\ Open
  /\ form' = [form EXCEPT !.consent = ~@]
  /\ UNCHANGED <<run, stored>>

\* submit, past its checks; what it reads from now on is what it saw here.
SubmitForm ==
  /\ Open /\ ~form.pending
  /\ form.property # "missing" /\ form.consent
  /\ Listed \cap Recordings # {}
  /\ form' = [form EXCEPT !.pending = TRUE]
  /\ run' = [step |-> "create", served |-> FALSE, index |-> 1, showing |-> 0,
             files |-> [i \in DOMAIN form.uploads |-> form.uploads[i].file],
             property |-> form.property = "given"]
  /\ UNCHANGED stored

-----------------------------------------------------------------------------
(* The requests of submit.                                                 *)

Asked(step) == run.step = step /\ ~run.served
AnswerReady(step) == run.step = step /\ run.served
File == run.files[run.index]

ServeCreate ==
  /\ Asked("create")
  /\ Len(stored) < MaxShowings
  /\ stored' = Append(stored, [property |-> run.property, uploaded |-> {},
                               complete |-> {}, ended |-> FALSE])

ServeUpload ==
  /\ Asked("upload")
  /\ stored' = [stored EXCEPT ![run.showing].uploaded = @ \cup {File}]

\* complete accepts a file that is in storage.
ServeComplete ==
  /\ Asked("complete")
  /\ File \in stored[run.showing].uploaded
  /\ stored' = [stored EXCEPT ![run.showing].complete = @ \cup {File}]

ServeFinish ==
  /\ Asked("finish")
  /\ stored' = [stored EXCEPT ![run.showing].ended = TRUE]

ServeForm ==
  /\ \/ ServeCreate \/ ServeUpload \/ ServeComplete \/ ServeFinish
     \/ Asked("presign") /\ UNCHANGED stored
  /\ run' = [run EXCEPT !.served = TRUE]
  /\ UNCHANGED form

Onward(step) == [run EXCEPT !.step = step, !.served = FALSE]

\* The showing that was just created is the newest.
Created ==
  /\ AnswerReady("create")
  /\ run' = [Onward("presign") EXCEPT !.showing = Len(stored)]
  /\ UNCHANGED form

\* presign is answered, or the file is in storage.
Halfway ==
  /\ AnswerReady("presign") \/ AnswerReady("upload")
  /\ run' = Onward(IF run.step = "presign" THEN "upload" ELSE "complete")
  /\ UNCHANGED form

\* The loop takes every file it closed over, in order.
NextIndex(i) == i + 1

\* The entry with the same index is marked done in the list as it is now.
Completed ==
  /\ AnswerReady("complete")
  /\ form' = IF run.index \in DOMAIN form.uploads
             THEN [form EXCEPT !.uploads[run.index].done = TRUE] ELSE form
  /\ run' = IF NextIndex(run.index) <= Len(run.files)
            THEN [Onward("presign") EXCEPT !.index = NextIndex(run.index)]
            ELSE Onward("finish")

\* The showing's page opens; the form is gone.
Finished ==
  /\ AnswerReady("finish")
  /\ run' = Onward("left")
  /\ UNCHANGED form

\* Any error, and a request or an answer that is lost.
SubmitFails ==
  /\ run.step \notin {"idle", "left"}
  /\ form' = [form EXCEPT !.pending = FALSE]
  /\ run' = [run EXCEPT !.step = "idle", !.served = FALSE]

SubmitProceeds ==
  (Created \/ Halfway \/ Completed \/ Finished \/ SubmitFails) /\ UNCHANGED stored

FormNext ==
  \/ \E f \in Files : AddFile(f)
  \/ \E i \in DOMAIN form.uploads : RemoveFile(i)
  \/ \E p \in {"missing", "given", "none"} : ChooseProperty(p)
  \/ Attest \/ SubmitForm \/ ServeForm \/ SubmitProceeds

FormSpec == FormInit /\ [][FormNext]_formVars

-----------------------------------------------------------------------------
\* When the form gives way to the showing's page, that showing is ended and has
\* every file that was listed when the button was pressed, whatever earlier
\* attempts had already uploaded (files added later are not in it).
OpenedShowingIsComplete ==
  run.step = "left" =>
    /\ stored[run.showing].ended
    /\ Range(run.files) \subseteq stored[run.showing].complete

\* A file that is shown as complete is complete in some showing.
DoneIsComplete ==
  \A i \in DOMAIN form.uploads : form.uploads[i].done =>
    \E s \in DOMAIN stored : form.uploads[i].file \in stored[s].complete

\* What the form tells of the uploads is true, when it opens the showing and before.
FormTellsTheTruth == OpenedShowingIsComplete /\ DoneIsComplete

=============================================================================
