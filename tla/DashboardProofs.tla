-------------------------- MODULE DashboardProofs ---------------------------
(***************************************************************************)
(* Proofs about the dashboard's forms and lists, its delivery panel, the   *)
(* place of the review, and its session.                                   *)
(*                                                                         *)
(* NewShowing, for any files and any number of attempts to submit.  The    *)
(* page that opens is complete because the loop's invariant holds across   *)
(* its awaits: while submit runs, the list it closed over is still the     *)
(* beginning of the list on the screen (SameList), so the entry that an    *)
(* index marks done is the file the loop has just completed.               *)
(*                                                                         *)
(* ShowingsList, for any number of showings, pages and changes.  Pages     *)
(* that were read one after the other are Sound: their cursors descend,    *)
(* and what matched all along is in them down to the last cursor.          *)
(*                                                                         *)
(* DeliveryPanel, for any number of links and requests.  What the panel    *)
(* read of a link is never ahead of the server (Behind), and the link in   *)
(* the box is not revoked but for the named exceptions (BoxFacts).         *)
(*                                                                         *)
(* ReviewWorkspace, for any number of observations and requests.  A card   *)
(* that is not loose has one request at most, which is what its last       *)
(* button asks for (CardFacts).                                            *)
(*                                                                         *)
(* WebSession, for any number of sign-ins and of calls under way together. *)
(* The cookies rest on nothing but their types: each answer that sets or   *)
(* clears them is of the last sign-in, or says that it overtook it.  That  *)
(* a call takes effect once rests on Unsettled: a call the proxy may still *)
(* send has had no effect, because only a refused one is sent again.       *)
(***************************************************************************)
EXTENDS NewShowing, ShowingsList, DeliveryPanel, ReviewWorkspace, WebSession,
  SequenceTheorems, FiniteSetTheorems, WellFoundedInduction, TLAPS

FormConstants == MaxShowings \in Nat

Running == run.step \notin {"idle", "left"}

\* While submit runs nothing is removed, so its files are where they were.
SameList ==
  Running =>
    /\ form.pending
    /\ \A i \in DOMAIN run.files :
         i \in DOMAIN form.uploads /\ form.uploads[i].file = run.files[i]

\* The showing submit works on.
ItsShowing ==
  /\ run.step = "create" => run.index = 1 /\ run.files # <<>>
  /\ run.step = "create" /\ run.served => stored # <<>>
  /\ run.step \notin {"idle", "create"} => run.showing \in DOMAIN stored

\* Every file before the index is complete, then every file.
LoopInv ==
  /\ run.step \in {"presign", "upload", "complete"} =>
       /\ run.index \in DOMAIN run.files
       /\ \A i \in DOMAIN run.files :
            i < run.index => run.files[i] \in stored[run.showing].complete
  /\ run.step = "complete" /\ run.served => File \in stored[run.showing].complete
  /\ run.step \in {"finish", "left"} =>
       \A i \in DOMAIN run.files : run.files[i] \in stored[run.showing].complete
  /\ run.step = "left" \/ (run.step = "finish" /\ run.served) =>
       stored[run.showing].ended

Bounded == Len(stored) <= MaxShowings

FormInv == FormTypeOK /\ Bounded /\ SameList /\ ItsShowing /\ LoopInv /\ DoneIsComplete

Entry == [file : Files, done : BOOLEAN]
FormSet == [uploads : Seq(Entry), property : {"missing", "given", "none"},
            consent : BOOLEAN, pending : BOOLEAN]
RunSet == [step : Steps, served : BOOLEAN, files : Seq(Files), property : BOOLEAN,
           index : Nat, showing : 0..MaxShowings]

LEMMA FormTyped == FormTypeOK <=> form \in FormSet /\ run \in RunSet /\ stored \in Seq(Showing)
BY DEF FormTypeOK, FormSet, RunSet, Entry

\* What is left of a sequence was in it.
LEMMA Removal ==
  ASSUME NEW S, NEW s \in Seq(S), NEW k \in DOMAIN s
  PROVE  /\ RemoveAt(s, k) \in Seq(S)
         /\ \A i \in DOMAIN RemoveAt(s, k) : \E j \in DOMAIN s : RemoveAt(s, k)[i] = s[j]
<1> DEFINE a == SubSeq(s, 1, k - 1)
           b == SubSeq(s, k + 1, Len(s))
<1>1. Len(s) \in Nat /\ k \in 1..Len(s) /\ DOMAIN s = 1..Len(s)
  OBVIOUS
<1>2. \A i \in 1..Len(s) : s[i] \in S
  OBVIOUS
<1>3. /\ a \in Seq(S) /\ Len(a) = k - 1
      /\ \A i \in 1..(k - 1) : a[i] = s[i]
  <2>1. \A i \in 1..(k - 1) : s[i] \in S
    BY <1>1, <1>2
  <2>2. /\ a \in Seq(S) /\ Len(a) = IF 1 <= k - 1 THEN (k - 1) - 1 + 1 ELSE 0
        /\ \A i \in 1..((k - 1) - 1 + 1) : a[i] = s[1 + i - 1]
    BY <1>1, <2>1, SubSeqProperties
  <2> HIDE DEF a
  <2> QED  BY <1>1, <2>2
<1>4. /\ b \in Seq(S) /\ Len(b) = Len(s) - k
      /\ \A i \in 1..(Len(s) - k) : b[i] = s[k + i]
  <2>1. \A i \in (k + 1)..Len(s) : s[i] \in S
    BY <1>1, <1>2
  <2>2. /\ b \in Seq(S) /\ Len(b) = IF k + 1 <= Len(s) THEN Len(s) - (k + 1) + 1 ELSE 0
        /\ \A i \in 1..(Len(s) - (k + 1) + 1) : b[i] = s[(k + 1) + i - 1]
    BY <1>1, <2>1, SubSeqProperties
  <2> HIDE DEF b
  <2>3. b \in Seq(S) /\ Len(b) = Len(s) - k
    BY <1>1, <2>2
  <2>4. ASSUME NEW i \in 1..(Len(s) - k)
        PROVE  b[i] = s[k + i]
    <3>1. i \in 1..(Len(s) - (k + 1) + 1) /\ (k + 1) + i - 1 = k + i
      BY <1>1
    <3> QED  BY <2>2, <3>1
  <2> QED  BY <2>3, <2>4
<1>5. RemoveAt(s, k) = a \o b
  BY DEF RemoveAt
<1> HIDE DEF a, b
<1>6. /\ a \o b \in Seq(S) /\ Len(a \o b) = Len(s) - 1
      /\ \A i \in 1..(Len(s) - 1) : (a \o b)[i] = IF i <= k - 1 THEN a[i] ELSE b[i - (k - 1)]
  <2>1. /\ a \o b \in Seq(S) /\ Len(a \o b) = Len(a) + Len(b)
        /\ \A i \in 1..(Len(a) + Len(b)) :
             (a \o b)[i] = IF i <= Len(a) THEN a[i] ELSE b[i - Len(a)]
    BY <1>3, <1>4, ConcatProperties
  <2>2. Len(a) + Len(b) = Len(s) - 1
    BY <1>1, <1>3, <1>4
  <2> QED  BY <1>3, <2>1, <2>2
<1>7. ASSUME NEW i \in DOMAIN (a \o b)
      PROVE  \E j \in DOMAIN s : (a \o b)[i] = s[j]
  <2>1. i \in 1..(Len(s) - 1)
    BY <1>6, <1>7
  <2>2. CASE i <= k - 1
    <3>1. (a \o b)[i] = s[i] /\ i \in DOMAIN s
      BY <1>1, <1>3, <1>6, <2>1, <2>2
    <3> QED  BY <3>1
  <2>3. CASE ~(i <= k - 1)
    <3>1. /\ i - (k - 1) \in 1..(Len(s) - k) /\ k + (i - (k - 1)) = i + 1
          /\ i + 1 \in DOMAIN s
      BY <1>1, <2>1, <2>3
    <3>2. (a \o b)[i] = b[i - (k - 1)]
      BY <1>6, <2>1, <2>3
    <3> QED  BY <1>4, <3>1, <3>2
  <2> QED  BY <2>2, <2>3
<1> QED  BY <1>5, <1>6, <1>7

LEMMA FormBegins == ASSUME FormConstants, FormInit PROVE FormInv
BY DEF FormConstants, FormInit, FormInv, FormTypeOK, Bounded, SameList, Running, ItsShowing,
       LoopInv, DoneIsComplete, Steps

-----------------------------------------------------------------------------
(* The form.                                                               *)

LEMMA KeepsAdd == ASSUME FormInv, NEW f \in Files, AddFile(f) PROVE FormInv'
<1> DEFINE e == [file |-> f, done |-> FALSE]
<1>1. /\ form \in FormSet /\ run \in RunSet /\ stored \in Seq(Showing)
      /\ UNCHANGED <<run, stored>>
      /\ form' = [form EXCEPT !.uploads = Append(form.uploads, e)]
  BY FormTyped DEF FormInv, AddFile
<1>2. form.uploads \in Seq(Entry) /\ e \in Entry
  BY <1>1 DEF FormSet, Entry
<1>3. /\ form' \in FormSet /\ form'.uploads = Append(form.uploads, e)
      /\ form'.pending = form.pending
  BY <1>1, <1>2, AppendProperties DEF FormSet
<1> HIDE DEF e
<1>4. /\ DOMAIN form'.uploads = 1..(Len(form.uploads) + 1)
      /\ DOMAIN form.uploads = 1..Len(form.uploads) /\ Len(form.uploads) \in Nat
      /\ \A i \in DOMAIN form.uploads : form'.uploads[i] = form.uploads[i]
      /\ form'.uploads[Len(form.uploads) + 1] = e
  BY <1>2, <1>3
<1>5. ~e.done
  BY DEF e
<1>6. FormTypeOK'
  BY <1>1, <1>3, FormTyped DEF FormTypeOK, FormSet, RunSet, Entry
<1>7. Bounded' /\ ItsShowing' /\ LoopInv'
  BY <1>1 DEF FormInv, Bounded, ItsShowing, LoopInv, File
<1>8. SameList'
  BY <1>1, <1>3, <1>4 DEF FormInv, SameList, Running
<1>9. DoneIsComplete'
  <2> SUFFICES ASSUME NEW i \in DOMAIN form'.uploads, form'.uploads[i].done
               PROVE  \E s \in DOMAIN stored : form'.uploads[i].file \in stored[s].complete
    BY <1>1 DEF DoneIsComplete
  <2>1. i \in DOMAIN form.uploads
    BY <1>4, <1>5
  <2> QED  BY <2>1, <1>4 DEF FormInv, DoneIsComplete
<1> QED  BY <1>6, <1>7, <1>8, <1>9 DEF FormInv

LEMMA KeepsRemove ==
  ASSUME FormInv, NEW k \in DOMAIN form.uploads, RemoveFile(k) PROVE FormInv'
<1> DEFINE rest == RemoveAt(form.uploads, k)
<1>1. /\ form \in FormSet /\ run \in RunSet /\ stored \in Seq(Showing)
      /\ UNCHANGED <<run, stored>> /\ ~form.pending
      /\ form' = [form EXCEPT !.uploads = rest]
  BY FormTyped DEF FormInv, RemoveFile
<1>2. form.uploads \in Seq(Entry)
  BY <1>1 DEF FormSet
<1>3. /\ rest \in Seq(Entry)
      /\ \A i \in DOMAIN rest : \E j \in DOMAIN form.uploads : rest[i] = form.uploads[j]
  BY <1>2, Removal
<1> HIDE DEF rest
<1>4. form' \in FormSet /\ form'.uploads = rest
  BY <1>1, <1>3 DEF FormSet
<1>5. FormTypeOK'
  BY <1>1, <1>4 DEF FormTypeOK, FormSet, RunSet, Entry
<1>6. Bounded' /\ ItsShowing' /\ LoopInv'
  BY <1>1 DEF FormInv, Bounded, ItsShowing, LoopInv, File
<1>7. SameList'
  BY <1>1 DEF FormInv, SameList, Running
<1>8. DoneIsComplete'
  BY <1>1, <1>3, <1>4 DEF FormInv, DoneIsComplete
<1> QED  BY <1>5, <1>6, <1>7, <1>8 DEF FormInv

LEMMA KeepsChoices ==
  ASSUME FormInv, Attest \/ \E p \in {"missing", "given", "none"} : ChooseProperty(p)
  PROVE  FormInv'
<1>1. /\ form \in FormSet /\ run \in RunSet /\ stored \in Seq(Showing)
      /\ UNCHANGED <<run, stored>>
  BY FormTyped DEF FormInv, Attest, ChooseProperty
<1>2. /\ form' \in FormSet /\ form'.uploads = form.uploads
      /\ form'.pending = form.pending
  BY <1>1 DEF Attest, ChooseProperty, FormSet
<1>3. FormTypeOK'
  BY <1>1, <1>2 DEF FormTypeOK, FormSet, RunSet, Entry
<1>4. Bounded' /\ ItsShowing' /\ LoopInv' /\ SameList' /\ DoneIsComplete'
  BY <1>1, <1>2
     DEF FormInv, Bounded, ItsShowing, LoopInv, File, SameList, Running, DoneIsComplete
<1> QED  BY <1>3, <1>4 DEF FormInv

LEMMA KeepsSubmit == ASSUME FormConstants, FormInv, SubmitForm PROVE FormInv'
<1> DEFINE files == [i \in DOMAIN form.uploads |-> form.uploads[i].file]
<1>1. /\ form \in FormSet /\ run \in RunSet /\ stored \in Seq(Showing)
      /\ UNCHANGED stored
      /\ form' = [form EXCEPT !.pending = TRUE]
      /\ run' = [step |-> "create", served |-> FALSE, index |-> 1, showing |-> 0,
                 files |-> files, property |-> form.property = "given"]
      /\ Listed # {}
  BY FormTyped DEF FormInv, SubmitForm
<1>2. form.uploads \in Seq(Entry)
  BY <1>1 DEF FormSet
<1>3. files \in Seq(Files) /\ DOMAIN files = DOMAIN form.uploads
  <2>1. Len(form.uploads) \in Nat /\ DOMAIN form.uploads = 1..Len(form.uploads)
    BY <1>2
  <2>2. ASSUME NEW i \in 1..Len(form.uploads)
        PROVE  form.uploads[i].file \in Files
    <3>1. form.uploads[i] \in Entry
      BY <1>2
    <3> QED  BY ONLY <3>1 DEF Entry
  <2>3. files \in [1..Len(form.uploads) -> Files]
    BY <2>1, <2>2
  <2> HIDE DEF files
  <2>4. files \in Seq(Files)
    BY ONLY <2>1, <2>3
  <2> QED  BY <2>1, <2>3, <2>4
<1>4. files # <<>>
  <2>1. PICK i \in DOMAIN form.uploads : TRUE
    BY <1>1 DEF Listed
  <2> QED  BY <1>3, <2>1
<1>5. \A i \in DOMAIN files : files[i] = form.uploads[i].file
  OBVIOUS
<1> HIDE DEF files
<1>6. /\ form' \in FormSet /\ form'.uploads = form.uploads /\ form'.pending
      /\ run' \in RunSet
  <2>1. form' \in FormSet /\ form'.uploads = form.uploads /\ form'.pending
    BY <1>1 DEF FormSet
  <2>2. run' \in RunSet
    BY <1>1, <1>3 DEF RunSet, Steps, FormConstants
  <2> QED  BY <2>1, <2>2
<1>7. FormTypeOK'
  BY <1>1, <1>6 DEF FormTypeOK, FormSet, RunSet, Entry
<1>8. SameList'
  BY <1>1, <1>3, <1>5, <1>6 DEF SameList, Running
<1>9. ItsShowing' /\ LoopInv' /\ Bounded' /\ DoneIsComplete'
  BY <1>1, <1>4, <1>6 DEF FormInv, ItsShowing, LoopInv, File, Bounded, DoneIsComplete
<1> QED  BY <1>7, <1>8, <1>9 DEF FormInv

-----------------------------------------------------------------------------
(* The requests of submit.                                                 *)

\* What the server does keeps every showing it has, and what is complete in it.
Grows ==
  \A s \in DOMAIN stored :
    /\ s \in DOMAIN stored'
    /\ stored[s].complete \subseteq stored'[s].complete
    /\ stored[s].ended => stored'[s].ended

LEMMA Served ==
  ASSUME FormConstants, FormInv, ServeForm
  PROVE  /\ stored' \in Seq(Showing) /\ Bounded' /\ Grows
         /\ run.step = "create" => stored' # <<>>
         /\ run.step = "complete" => File \in stored'[run.showing].complete
         /\ run.step = "finish" => stored'[run.showing].ended
<1>1. /\ form \in FormSet /\ run \in RunSet /\ stored \in Seq(Showing)
      /\ Len(stored) \in Nat /\ DOMAIN stored = 1..Len(stored)
      /\ MaxShowings \in Nat
  BY FormTyped DEF FormInv, FormConstants
<1>2. CASE ServeCreate
  <2> DEFINE new == [property |-> run.property, uploaded |-> {}, complete |-> {},
                     ended |-> FALSE]
  <2>1. /\ stored' = Append(stored, new) /\ Len(stored) < MaxShowings
        /\ run.step = "create"
    BY <1>2 DEF ServeCreate, Asked
  <2>2. new \in Showing
    BY <1>1 DEF Showing, RunSet
  <2> HIDE DEF new
  <2>3. /\ stored' \in Seq(Showing) /\ Len(stored') = Len(stored) + 1
        /\ DOMAIN stored' = 1..(Len(stored) + 1)
        /\ \A s \in DOMAIN stored : stored'[s] = stored[s]
    BY <1>1, <2>1, <2>2
  <2> QED  BY <1>1, <2>1, <2>3 DEF Bounded, Grows
<1>3. CASE ServeUpload \/ ServeComplete \/ ServeFinish
  <2>1. /\ run.showing \in DOMAIN stored
        /\ run.step \in {"upload", "complete", "finish"}
    BY <1>3 DEF FormInv, ItsShowing, ServeUpload, ServeComplete, ServeFinish, Asked
  <2>2. run.step \in {"upload", "complete"} => File \in Files
    BY <1>1 DEF FormInv, LoopInv, File, RunSet
  <2>3. PICK new \in Showing :
          /\ stored' = [stored EXCEPT ![run.showing] = new]
          /\ stored[run.showing].complete \subseteq new.complete
          /\ stored[run.showing].ended => new.ended
          /\ run.step = "complete" => File \in new.complete
          /\ run.step = "finish" => new.ended
    <3>1. stored[run.showing] \in Showing
      BY <1>1, <2>1
    <3>2. CASE ServeUpload
      <4> DEFINE new == [stored[run.showing] EXCEPT !.uploaded = @ \cup {File}]
      <4>1. run.step = "upload" /\ stored' = [stored EXCEPT ![run.showing] = new]
        BY <3>2 DEF ServeUpload, Asked
      <4>2. /\ new \in Showing /\ new.complete = stored[run.showing].complete
            /\ new.ended = stored[run.showing].ended
        BY <2>2, <3>1, <4>1 DEF Showing
      <4> HIDE DEF new
      <4> QED  BY <4>1, <4>2
    <3>3. CASE ServeComplete
      <4> DEFINE new == [stored[run.showing] EXCEPT !.complete = @ \cup {File}]
      <4>1. run.step = "complete" /\ stored' = [stored EXCEPT ![run.showing] = new]
        BY <3>3 DEF ServeComplete, Asked
      <4>2. /\ new \in Showing /\ new.complete = stored[run.showing].complete \cup {File}
            /\ new.ended = stored[run.showing].ended
        BY <2>2, <3>1, <4>1 DEF Showing
      <4> HIDE DEF new
      <4> QED  BY <4>1, <4>2
    <3>4. CASE ServeFinish
      <4> DEFINE new == [stored[run.showing] EXCEPT !.ended = TRUE]
      <4>1. run.step = "finish" /\ stored' = [stored EXCEPT ![run.showing] = new]
        BY <3>4 DEF ServeFinish, Asked
      <4>2. /\ new \in Showing /\ new.complete = stored[run.showing].complete
            /\ new.ended
        BY <3>1 DEF Showing
      <4> HIDE DEF new
      <4> QED  BY <4>1, <4>2
    <3> QED  BY <1>3, <3>2, <3>3, <3>4
  <2>4. /\ stored' \in Seq(Showing) /\ Len(stored') = Len(stored)
        /\ DOMAIN stored' = DOMAIN stored /\ stored'[run.showing] = new
        /\ \A s \in DOMAIN stored : s # run.showing => stored'[s] = stored[s]
    BY <1>1, <2>1, <2>3
  <2>5. Grows
    BY <2>3, <2>4 DEF Grows
  <2> QED  BY <1>1, <2>1, <2>3, <2>4, <2>5 DEF FormInv, Bounded
<1>4. CASE Asked("presign") /\ UNCHANGED stored
  BY <1>1, <1>4 DEF FormInv, Asked, Bounded, Grows
<1> QED  BY <1>2, <1>3, <1>4 DEF ServeForm

LEMMA KeepsServe == ASSUME FormConstants, FormInv, ServeForm PROVE FormInv'
<1>1. /\ form \in FormSet /\ run \in RunSet
      /\ run' = [run EXCEPT !.served = TRUE] /\ UNCHANGED form
  BY FormTyped DEF FormInv, ServeForm
<1>2. /\ run' \in RunSet /\ run'.served
      /\ run'.step = run.step /\ run'.files = run.files /\ run'.index = run.index
      /\ run'.showing = run.showing
  BY <1>1 DEF RunSet
<1>3. /\ stored' \in Seq(Showing) /\ Bounded' /\ Grows
      /\ run.step = "create" => stored' # <<>>
      /\ run.step = "complete" => File \in stored'[run.showing].complete
      /\ run.step = "finish" => stored'[run.showing].ended
  BY Served
<1>4. FormTypeOK'
  BY <1>1, <1>2, <1>3 DEF FormTypeOK, FormSet, RunSet, Entry
<1>5. SameList'
  BY <1>1, <1>2 DEF FormInv, SameList, Running
<1>6. run.step \notin {"idle", "create"} => run.showing \in DOMAIN stored
  BY DEF FormInv, ItsShowing
<1>7. ItsShowing'
  BY <1>2, <1>3, <1>6 DEF FormInv, ItsShowing, Grows
<1>8. LoopInv'
  <2>1. run.step \notin {"idle", "create"} =>
          /\ stored[run.showing].complete \subseteq stored'[run.showing].complete
          /\ stored[run.showing].ended => stored'[run.showing].ended
    BY <1>3, <1>6 DEF Grows
  <2>2. LoopInv /\ File' = File
    BY <1>2 DEF FormInv, File
  <2> QED  BY <1>2, <1>3, <2>1, <2>2 DEF LoopInv
<1>9. DoneIsComplete'
  BY <1>1, <1>3 DEF FormInv, DoneIsComplete, Grows
<1> QED  BY <1>3, <1>4, <1>5, <1>7, <1>8, <1>9 DEF FormInv

LEMMA KeepsCreated ==
  ASSUME FormConstants, FormInv, Created, UNCHANGED stored PROVE FormInv'
<1>1. /\ form \in FormSet /\ run \in RunSet /\ stored \in Seq(Showing)
      /\ UNCHANGED <<form, stored>> /\ run.step = "create" /\ run.served
      /\ run' = [[run EXCEPT !.step = "presign", !.served = FALSE]
                   EXCEPT !.showing = Len(stored)]
  BY FormTyped DEF FormInv, Created, AnswerReady, Onward
<1>2. Len(stored) \in DOMAIN stored /\ Len(stored) \in 0..MaxShowings
  BY <1>1 DEF FormInv, ItsShowing, Bounded, FormConstants
<1>3. /\ run' \in RunSet /\ run'.step = "presign" /\ ~run'.served
      /\ run'.files = run.files /\ run'.index = run.index /\ run'.showing = Len(stored)
  BY <1>1, <1>2 DEF RunSet, Steps
<1>4. FormTypeOK'
  BY <1>1, <1>3 DEF FormTypeOK, FormSet, RunSet, Entry
<1>5. run.index = 1 /\ 1 \in DOMAIN run.files /\ \A i \in DOMAIN run.files : ~(i < 1)
  BY <1>1 DEF FormInv, ItsShowing, RunSet
<1>6. SameList' /\ Bounded' /\ ItsShowing' /\ LoopInv' /\ DoneIsComplete'
  BY <1>1, <1>2, <1>3, <1>5
     DEF FormInv, SameList, Running, Bounded, ItsShowing, LoopInv, DoneIsComplete
<1> QED  BY <1>4, <1>6 DEF FormInv

LEMMA KeepsHalfway ==
  ASSUME FormConstants, FormInv, Halfway, UNCHANGED stored PROVE FormInv'
<1>1. /\ form \in FormSet /\ run \in RunSet /\ stored \in Seq(Showing)
      /\ UNCHANGED <<form, stored>> /\ run.step \in {"presign", "upload"}
  BY FormTyped DEF FormInv, Halfway, AnswerReady
<1>2. /\ run' \in RunSet /\ run'.step \in {"upload", "complete"} /\ ~run'.served
      /\ run'.files = run.files /\ run'.index = run.index /\ run'.showing = run.showing
  BY <1>1 DEF Halfway, Onward, RunSet, Steps
<1>3. FormTypeOK'
  BY <1>1, <1>2 DEF FormTypeOK, FormSet, RunSet, Entry
<1>4. SameList' /\ Bounded' /\ ItsShowing' /\ LoopInv' /\ DoneIsComplete'
  BY <1>1, <1>2
     DEF FormInv, SameList, Running, Bounded, ItsShowing, LoopInv, DoneIsComplete
<1> QED  BY <1>3, <1>4 DEF FormInv

LEMMA KeepsCompleted ==
  ASSUME FormConstants, FormInv, Completed, UNCHANGED stored PROVE FormInv'
<1>1. /\ form \in FormSet /\ run \in RunSet /\ stored \in Seq(Showing)
      /\ UNCHANGED stored /\ run.step = "complete" /\ run.served
  BY FormTyped DEF FormInv, Completed, AnswerReady
<1>2. /\ run.index \in DOMAIN run.files /\ run.showing \in DOMAIN stored
      /\ run.files[run.index] \in stored[run.showing].complete
      /\ run.index \in DOMAIN form.uploads
      /\ form.uploads[run.index].file = run.files[run.index]
  BY <1>1 DEF FormInv, LoopInv, File, ItsShowing, SameList, Running
<1>3. form.uploads \in Seq(Entry) /\ form.uploads[run.index] \in Entry
  BY <1>1, <1>2 DEF FormSet
<1> DEFINE done == [form.uploads[run.index] EXCEPT !.done = TRUE]
           ticked == [form.uploads EXCEPT ![run.index] = done]
<1>4. form' = [form EXCEPT !.uploads = ticked]
  BY <1>1, <1>2 DEF Completed
<1>5. done \in Entry /\ done.file = form.uploads[run.index].file
  BY <1>3 DEF Entry
<1> HIDE DEF done
<1>6. /\ ticked \in Seq(Entry) /\ DOMAIN ticked = DOMAIN form.uploads
      /\ ticked[run.index] = done
      /\ \A i \in DOMAIN form.uploads : i # run.index => ticked[i] = form.uploads[i]
  BY <1>2, <1>3, <1>5
<1> HIDE DEF ticked
<1>7. form' \in FormSet /\ form'.uploads = ticked /\ form'.pending = form.pending
  BY <1>1, <1>4, <1>6 DEF FormSet
<1>8. /\ run' \in RunSet /\ ~run'.served
      /\ run'.files = run.files /\ run'.showing = run.showing
      /\ \/ /\ run'.step = "presign" /\ run'.index = run.index + 1
            /\ run.index + 1 <= Len(run.files)
         \/ run'.step = "finish" /\ ~(run.index + 1 <= Len(run.files))
  <2>1. CASE run.index + 1 <= Len(run.files)
    <3>1. run' = [[run EXCEPT !.step = "presign", !.served = FALSE]
                    EXCEPT !.index = run.index + 1]
      BY <2>1 DEF Completed, Onward, NextIndex
    <3>2. run.index + 1 \in Nat
      BY <1>1 DEF RunSet
    <3> QED  BY ONLY <1>1, <2>1, <3>1, <3>2 DEF RunSet, Steps
  <2>2. CASE ~(run.index + 1 <= Len(run.files))
    <3>1. run' = [run EXCEPT !.step = "finish", !.served = FALSE]
      BY <2>2 DEF Completed, Onward, NextIndex
    <3> QED  BY ONLY <1>1, <2>2, <3>1 DEF RunSet, Steps
  <2> QED  BY <2>1, <2>2
<1>9. FormTypeOK'
  BY <1>1, <1>7, <1>8 DEF FormTypeOK, FormSet, RunSet, Entry
<1>10. SameList'
  BY <1>1, <1>2, <1>5, <1>6, <1>7, <1>8 DEF FormInv, SameList, Running
<1>11. Bounded' /\ ItsShowing'
  BY <1>1, <1>2, <1>8 DEF FormInv, Bounded, ItsShowing
<1>12. LoopInv'
  <2>1. /\ run.files \in Seq(Files) /\ Len(run.files) \in Nat
        /\ DOMAIN run.files = 1..Len(run.files) /\ run.index \in Nat
    BY <1>1 DEF RunSet
  <2>2. \A i \in DOMAIN run.files :
          i <= run.index => run.files[i] \in stored[run.showing].complete
    BY <1>1, <1>2, <2>1 DEF FormInv, LoopInv
  <2> QED  BY <1>1, <1>2, <1>8, <2>1, <2>2 DEF LoopInv
<1>13. DoneIsComplete'
  BY <1>1, <1>2, <1>5, <1>6, <1>7 DEF FormInv, DoneIsComplete
<1> QED  BY <1>9, <1>10, <1>11, <1>12, <1>13 DEF FormInv

LEMMA KeepsEnds ==
  ASSUME FormInv, Finished \/ SubmitFails, UNCHANGED stored PROVE FormInv'
<1>1. /\ form \in FormSet /\ run \in RunSet /\ stored \in Seq(Showing)
      /\ UNCHANGED stored
  BY FormTyped DEF FormInv
<1>2. form' \in FormSet /\ form'.uploads = form.uploads
  BY <1>1 DEF Finished, SubmitFails, FormSet
<1>3. /\ run' \in RunSet /\ ~run'.served
      /\ run'.files = run.files /\ run'.showing = run.showing
      /\ \/ run'.step = "idle"
         \/ run'.step = "left" /\ run.step = "finish" /\ run.served
  BY <1>1 DEF Finished, SubmitFails, AnswerReady, Onward, RunSet, Steps
<1>4. FormTypeOK'
  BY <1>1, <1>2, <1>3 DEF FormTypeOK, FormSet, RunSet, Entry
<1>5. SameList' /\ Bounded' /\ ItsShowing' /\ LoopInv' /\ DoneIsComplete'
  BY <1>1, <1>2, <1>3
     DEF FormInv, SameList, Running, Bounded, ItsShowing, LoopInv, DoneIsComplete
<1> QED  BY <1>4, <1>5 DEF FormInv

-----------------------------------------------------------------------------
LEMMA KeepsForm == ASSUME FormConstants, FormInv, [FormNext]_formVars PROVE FormInv'
<1>1. CASE UNCHANGED formVars
  BY <1>1 DEF formVars, FormInv, FormTypeOK, Bounded, SameList, Running, ItsShowing, LoopInv,
              File, DoneIsComplete
<1>2. CASE \E f \in Files : AddFile(f)
  BY <1>2, KeepsAdd
<1>3. CASE \E i \in DOMAIN form.uploads : RemoveFile(i)
  BY <1>3, KeepsRemove
<1>4. CASE Attest \/ \E p \in {"missing", "given", "none"} : ChooseProperty(p)
  BY <1>4, KeepsChoices
<1>5. CASE SubmitForm
  BY <1>5, KeepsSubmit
<1>6. CASE ServeForm
  BY <1>6, KeepsServe
<1>7. CASE SubmitProceeds
  BY <1>7, KeepsCreated, KeepsHalfway, KeepsCompleted, KeepsEnds DEF SubmitProceeds
<1> QED  BY <1>1, <1>2, <1>3, <1>4, <1>5, <1>6, <1>7 DEF FormNext

\* The invariant of the form: what submit has done of the list it closed over is
\* done in its showing, and the list on the screen still begins with that list.
THEOREM FormInvariance == FormConstants => (FormSpec => []FormInv)
<1> SUFFICES ASSUME FormConstants PROVE FormSpec => []FormInv
  OBVIOUS
<1>1. FormInit => FormInv
  BY FormBegins
<1>2. FormInv /\ [FormNext]_formVars => FormInv'
  BY KeepsForm
<1> QED  BY <1>1, <1>2, PTL DEF FormSpec

\* For any number of files, attempts and lost answers: the page that opens is of an
\* ended showing that has every file listed when the button was pressed, and a
\* file shown as complete is complete in some showing.
THEOREM FormIsTruthful == FormConstants => (FormSpec => []FormTellsTheTruth)
<1> SUFFICES ASSUME FormConstants PROVE FormSpec => []FormTellsTheTruth
  OBVIOUS
<1>1. FormInv => FormTellsTheTruth
  <2> SUFFICES ASSUME FormInv PROVE FormTellsTheTruth
    OBVIOUS
  <2>1. run \in RunSet
    BY FormTyped DEF FormInv
  <2>2. run.step = "left" => Range(run.files) \subseteq stored[run.showing].complete
    BY <2>1 DEF FormInv, LoopInv, RunSet, Range
  <2> QED
    BY <2>2 DEF FormInv, LoopInv, FormTellsTheTruth, OpenedShowingIsComplete, DoneIsComplete
<1>2. FormSpec => []FormInv
  BY FormInvariance
<1> QED  BY <1>1, <1>2, PTL

-----------------------------------------------------------------------------
(* ShowingsList: one page.                                                 *)

ListConstants ==
  MaxShowing \in Nat /\ PageSize \in Nat \ {0} /\ MaxReads \in Nat /\ Filters # {}

LEMMA Least ==
  ASSUME NEW S, S \subseteq Nat, S # {}
  PROVE  Min(S) \in S /\ \A i \in S : Min(S) <= i
<1> DEFINE R == OpToRel(<, Nat)
<1>1. \E m \in S : \A i \in S : <<i, m>> \notin R
  BY NatLessThanWellFounded, WFMin
<1>2. \A i, j \in Nat : i < j => <<i, j>> \in R
  BY DEF OpToRel
<1> HIDE DEF R
<1>3. \E m \in S : \A i \in S : m <= i
  <2>1. PICK m \in S : \A i \in S : <<i, m>> \notin R
    BY <1>1
  <2>2. ASSUME NEW i \in S PROVE m <= i
    <3>1. i \in Nat /\ m \in Nat
      OBVIOUS
    <3>2. ~(i < m)
      BY <1>2, <2>1, <3>1, Zenon
    <3> QED  BY <3>1, <3>2
  <2> QED  BY <2>2
<1> QED  BY <1>3 DEF Min

LEMMA Greatest ==
  ASSUME MaxShowing \in Nat, NEW S, S \subseteq Showings, S # {}
  PROVE  \E m \in S : \A i \in S : i <= m
<1> DEFINE T == {MaxShowing - i : i \in S}
<1>1. T \subseteq Nat /\ T # {}
  <2>1. ASSUME NEW i \in S PROVE MaxShowing - i \in Nat
    BY i \in 1..MaxShowing DEF Showings
  <2> QED  BY <2>1
<1>2. Min(T) \in T /\ \A t \in T : Min(T) <= t
  <2> HIDE DEF T
  <2> QED  BY <1>1, Least
<1>3. PICK m \in S : Min(T) = MaxShowing - m
  BY <1>2
<1>4. ASSUME NEW i \in S PROVE i <= m
  <2>1. MaxShowing - m <= MaxShowing - i
    BY <1>2, <1>3
  <2>2. i \in Nat /\ m \in Nat
    BY DEF Showings
  <2> QED  BY <2>1, <2>2
<1> QED  BY <1>4

\* A page has everything below its cursor down to the cursor of the next, which is
\* lower.
LEMMA OnePage ==
  ASSUME ListConstants, NEW k, matching[k] \subseteq Showings,
         NEW cursor \in {NoCursor} \cup Showings
  PROVE  LET p == PageOf(k, cursor)
         IN /\ p \in Page /\ p.param = cursor
            /\ p.next # NoCursor /\ cursor # NoCursor => p.next < cursor
            /\ \A i \in matching[k] :
                 /\ cursor = NoCursor \/ i < cursor
                 /\ p.next = NoCursor \/ i >= p.next
                 => i \in p.items
<1> DEFINE rest == {i \in matching[k] : cursor = NoCursor \/ i < cursor}
           Above(i) == {j \in rest : j > i}
           items == {i \in rest : Cardinality(Above(i)) < PageSize}
           p == PageOf(k, cursor)
<1>1. p = [param |-> cursor, items |-> items,
           next |-> IF items # rest THEN Min(items) ELSE NoCursor]
  BY DEF PageOf
<1>2. /\ rest \subseteq Showings /\ Showings \subseteq Nat /\ IsFiniteSet(rest)
      /\ items \subseteq rest /\ 0 \notin Showings
  <2>1. rest \subseteq Showings /\ Showings = 1..MaxShowing
    BY DEF Showings
  <2>2. IsFiniteSet(1..MaxShowing)
    BY FS_Interval DEF ListConstants
  <2> QED  BY <2>1, <2>2, FS_Subset DEF ListConstants
<1>3. \A i \in rest : IsFiniteSet(Above(i)) /\ Cardinality(Above(i)) \in Nat
  BY <1>2, FS_Subset, FS_CardinalityType
<1>4. ASSUME items # rest
      PROVE  Min(items) \in items /\ \A i \in items : Min(items) <= i
  <2>1. PICK m \in rest : \A i \in rest : i <= m
    BY <1>2, <1>4, Greatest DEF ListConstants
  <2>2. Above(m) = {}
    <3>1. ASSUME NEW i \in rest PROVE ~(i > m)
      <4>1. i \in Nat /\ m \in Nat /\ i <= m
        BY <1>2, <2>1
      <4> QED  BY ONLY <4>1
    <3> QED  BY <3>1
  <2>3. m \in items
    BY <2>2, FS_EmptySet DEF ListConstants
  <2> HIDE DEF items
  <2> QED  BY <1>2, <2>3, Least
<1>5. ASSUME items # rest, NEW i \in rest, i >= Min(items)
      PROVE  i \in items
  <2>1. Min(items) \in rest /\ Cardinality(Above(Min(items))) < PageSize
    BY <1>4, <1>5
  <2>2. Above(i) \subseteq Above(Min(items))
    <3>1. ASSUME NEW j \in rest, j > i PROVE j > Min(items)
      <4>1. j \in Nat /\ i \in Nat /\ Min(items) \in Nat
        BY <1>2, <1>5, <2>1
      <4> QED  BY ONLY <4>1, <1>5, <3>1
    <3> QED  BY <3>1
  <2>3. Cardinality(Above(i)) <= Cardinality(Above(Min(items)))
    BY <1>3, <2>1, <2>2, FS_Subset
  <2>4. /\ Cardinality(Above(i)) \in Nat /\ Cardinality(Above(Min(items))) \in Nat
        /\ PageSize \in Nat
    BY <1>3, <1>5, <2>1 DEF ListConstants
  <2> QED  BY <2>1, <2>3, <2>4
<1> HIDE DEF rest, items, Above, p
<1>6. CASE items # rest
  <2>1. /\ p.param = cursor /\ p.items = items /\ p.next = Min(items)
        /\ p = [param |-> cursor, items |-> items, next |-> Min(items)]
    BY <1>1, <1>6
  <2>2. Min(items) \in rest
    BY <1>2, <1>4, <1>6
  <2>3. p \in Page
    BY <1>2, <2>1, <2>2 DEF Page
  <2>4. cursor # NoCursor => p.next < cursor
    BY <2>1, <2>2 DEF rest
  <2>5. ASSUME NEW i \in matching[k], cursor = NoCursor \/ i < cursor,
               p.next = NoCursor \/ i >= p.next
        PROVE  i \in p.items
    <3>1. i \in rest
      BY <2>5 DEF rest
    <3>2. p.next # NoCursor
      BY <1>2, <2>1, <2>2 DEF NoCursor
    <3> QED  BY <1>5, <1>6, <2>1, <2>5, <3>1, <3>2
  <2> QED  BY <2>1, <2>3, <2>4, <2>5 DEF p
<1>7. CASE items = rest
  <2>1. /\ p.param = cursor /\ p.items = rest /\ p.next = NoCursor
        /\ p = [param |-> cursor, items |-> items, next |-> NoCursor]
    BY <1>1, <1>7
  <2>2. p \in Page
    BY <1>2, <1>7, <2>1 DEF Page
  <2> QED  BY <2>1, <2>2 DEF p, rest
<1> QED  BY <1>6, <1>7

-----------------------------------------------------------------------------
(* ShowingsList: pages read one after the other.                           *)

\* Every cursor is above the one that would be next, and the pages have all that
\* is required of them down to there.
Sound(required, pages) ==
  LET next == Last(pages).next
  IN /\ \A j \in DOMAIN pages :
          next # NoCursor /\ pages[j].param # NoCursor => next < pages[j].param
     /\ \A i \in required : next = NoCursor \/ i >= next =>
          \E j \in DOMAIN pages : i \in pages[j].items

\* What matched all along.
Kept(k) == matching[k] \ moved

LEMMA LastOf ==
  ASSUME NEW pages \in Seq(Page), pages # <<>>
  PROVE  /\ Len(pages) \in Nat \ {0} /\ DOMAIN pages = 1..Len(pages)
         /\ Last(pages) = pages[Len(pages)] /\ Last(pages) \in Page
         /\ Last(pages).next \in {NoCursor} \cup Showings
<1>1. /\ Len(pages) \in Nat \ {0} /\ DOMAIN pages = 1..Len(pages)
      /\ pages[Len(pages)] \in Page
  OBVIOUS
<1>2. Last(pages) = pages[Len(pages)]
  BY DEF Last
<1> QED  BY ONLY <1>1, <1>2 DEF Page

LEMMA AppendPage ==
  ASSUME NEW pages \in Seq(Page), NEW p \in Page
  PROVE  /\ Append(pages, p) \in Seq(Page) /\ Append(pages, p) # <<>>
         /\ Last(Append(pages, p)) = p
         /\ Len(pages) \in Nat
         /\ DOMAIN Append(pages, p) = 1..(Len(pages) + 1) /\ DOMAIN pages = 1..Len(pages)
         /\ Append(pages, p)[Len(pages) + 1] = p
         /\ \A j \in DOMAIN pages : Append(pages, p)[j] = pages[j]
BY DEF Last

\* A cursor never comes back, so that the next page is the one the last page names.
LEMMA NoCursorReturns ==
  ASSUME ListConstants, NEW required, NEW pages \in Seq(Page), pages # <<>>,
         Sound(required, pages)
  PROVE  ~Repeats(pages) /\ NextCursor(pages) = Last(pages).next
<1>1. Last(pages).next \in {NoCursor} \cup Showings
  BY LastOf
<1>2. ASSUME NEW j \in DOMAIN pages, pages[j].param # NoCursor,
             Last(pages).next = pages[j].param
      PROVE  FALSE
  <2>1. Last(pages).next < pages[j].param
    BY <1>2 DEF Sound
  <2>2. Last(pages).next \in Nat
    BY <1>1, <1>2 DEF Showings
  <2> QED  BY ONLY <1>2, <2>1, <2>2
<1>3. ~Repeats(pages)
  BY <1>2 DEF Repeats
<1> QED  BY <1>3 DEF NextCursor

LEMMA FirstPage ==
  ASSUME ListConstants, NEW k, matching[k] \subseteq Showings
  PROVE  LET p == PageOf(k, NoCursor)
         IN p \in Page /\ Sound(Kept(k), Append(<<>>, p))
<1> DEFINE p == PageOf(k, NoCursor)
<1>1. /\ p \in Page /\ p.param = NoCursor
      /\ \A i \in matching[k] : p.next = NoCursor \/ i >= p.next => i \in p.items
  BY OnePage
<1> HIDE DEF p
<1> DEFINE pages == Append(<<>>, p)
<1>2. Last(pages) = p /\ DOMAIN pages = {1} /\ pages[1] = p
  <2>1. <<>> \in Seq(Page)
    OBVIOUS
  <2>2. Last(pages) = p
    BY <1>1, <2>1, AppendPage
  <2>3. DOMAIN pages = {1} /\ pages[1] = p
    OBVIOUS
  <2> QED  BY <2>2, <2>3
<1> HIDE DEF pages
<1>3. Sound(Kept(k), pages)
  BY <1>1, <1>2 DEF Sound, Kept
<1> QED  BY <1>1, <1>3 DEF p, pages

LEMMA FurtherPage ==
  ASSUME ListConstants, NEW k, matching[k] \subseteq Showings,
         NEW pages \in Seq(Page), pages # <<>>, Sound(Kept(k), pages),
         Last(pages).next # NoCursor
  PROVE  LET p == PageOf(k, Last(pages).next)
         IN p \in Page /\ Sound(Kept(k), Append(pages, p))
<1> DEFINE cursor == Last(pages).next
           p == PageOf(k, cursor)
           more == Append(pages, p)
<1>1. cursor \in Showings /\ cursor \in Nat /\ cursor # NoCursor
  BY LastOf DEF Showings
<1>2. Sound(Kept(k), pages) /\ cursor = Last(pages).next
  OBVIOUS
<1> HIDE DEF cursor
<1>3. /\ p \in Page /\ p.param = cursor
      /\ p.next # NoCursor => p.next < cursor
      /\ \A i \in matching[k] :
           i < cursor /\ (p.next = NoCursor \/ i >= p.next) => i \in p.items
  BY <1>1, OnePage
<1>4. p.next \in Nat
  BY <1>3 DEF Page, NoCursor, Showings
<1> HIDE DEF p
<1>5. /\ Last(more) = p /\ Len(pages) \in Nat
      /\ DOMAIN more = 1..(Len(pages) + 1) /\ DOMAIN pages = 1..Len(pages)
      /\ more[Len(pages) + 1] = p
      /\ \A j \in DOMAIN pages : more[j] = pages[j]
  BY <1>3, AppendPage
<1> HIDE DEF more
<1>6. ASSUME NEW j \in DOMAIN more, p.next # NoCursor, more[j].param # NoCursor
      PROVE  p.next < more[j].param
  <2>1. CASE j = Len(pages) + 1
    BY <1>3, <1>5, <1>6, <2>1
  <2>2. CASE j # Len(pages) + 1
    <3>1. j \in DOMAIN pages /\ more[j] = pages[j]
      BY <1>5, <2>2
    <3>2. cursor < pages[j].param
      BY <1>1, <1>2, <1>6, <3>1 DEF Sound
    <3>3. pages[j].param \in Nat
      <4>1. pages[j] \in Page
        BY <3>1
      <4> QED  BY <4>1 DEF Page, NoCursor, Showings
    <3> QED  BY <1>1, <1>3, <1>4, <1>6, <3>1, <3>2, <3>3
  <2> QED  BY <2>1, <2>2
<1>7. ASSUME NEW i \in Kept(k), p.next = NoCursor \/ i >= p.next
      PROVE  \E j \in DOMAIN more : i \in more[j].items
  <2>1. i \in matching[k] /\ i \in Nat
    BY DEF Kept, Showings
  <2>2. CASE i >= cursor
    <3>1. PICK j \in DOMAIN pages : i \in pages[j].items
      BY <1>2, <1>7, <2>2 DEF Sound
    <3> QED  BY <1>5, <3>1
  <2>3. CASE ~(i >= cursor)
    <3>1. i \in p.items
      BY <1>1, <1>3, <1>7, <2>1, <2>3
    <3> QED  BY <1>5, <3>1
  <2> QED  BY <2>2, <2>3
<1>8. Sound(Kept(k), more)
  BY <1>5, <1>6, <1>7 DEF Sound
<1> QED  BY <1>3, <1>8 DEF more, p, cursor

-----------------------------------------------------------------------------
(* ShowingsList: the pages shown and the pages being read.                 *)

PagesSound(k) == list.pages[k] # <<>> => Sound(Kept(k), list.pages[k])

\* A fetch of everything begins anew; a fetch of the next page goes on where the pages
\* shown end, which stay as they are meanwhile.
FetchSound(k) ==
  /\ fetch[k].kind = "all" /\ fetch[k].got # <<>> => Sound(Kept(k), fetch[k].got)
  /\ fetch[k].kind = "next" =>
       /\ list.pages[k] # <<>> /\ Last(list.pages[k]).next # NoCursor
       /\ fetch[k].got # <<>> =>
            \E p \in Page : /\ fetch[k].got = <<p>>
                            /\ Sound(Kept(k), Append(list.pages[k], p))

ListInv == ListTypeOK /\ \A k \in Keys : PagesSound(k) /\ FetchSound(k)

ListSet == [shown : Keys, pages : [Keys -> Seq(Page)], failed : [Keys -> BOOLEAN],
            busy : BOOLEAN, reads : 0..MaxReads]
FetchSet == [kind : Kinds, got : Seq(Page)]

LEMMA ListTyped ==
  ListTypeOK <=> /\ matching \in [Keys -> SUBSET Showings] /\ moved \subseteq Showings
                 /\ list \in ListSet /\ fetch \in [Keys -> FetchSet]
BY DEF ListTypeOK, ListSet, FetchSet

LEMMA ListBegins == ASSUME ListConstants, ListInit PROVE ListInv
<1>1. (CHOOSE k \in Filters : TRUE) \in Keys
  BY DEF ListConstants, Keys
<1>2. /\ matching \in [Keys -> SUBSET Showings] /\ moved \subseteq Showings
      /\ fetch \in [Keys -> FetchSet]
  BY DEF ListInit, FetchSet, NoFetch, Kinds
<1>3. list \in ListSet
  BY <1>1 DEF ListInit, ListSet, ListConstants
<1>4. \A k \in Keys : PagesSound(k) /\ FetchSound(k)
  BY DEF ListInit, PagesSound, FetchSound, NoFetch
<1> QED  BY <1>2, <1>3, <1>4, ListTyped DEF ListInv

\* What an action leaves alone of a query stays sound.
LEMMA SameQuery ==
  ASSUME ListInv, NEW k \in Keys, UNCHANGED <<matching, moved>>,
         list'.pages[k] = list.pages[k], fetch'[k] = fetch[k]
  PROVE  PagesSound(k)' /\ FetchSound(k)'
<1>1. PagesSound(k) /\ FetchSound(k) /\ Kept(k)' = Kept(k)
  BY DEF ListInv, Kept
<1> QED  BY <1>1 DEF PagesSound, FetchSound

LEMMA KeepsAsking ==
  ASSUME ListConstants, ListInv, LoadMore \/ Refetch \/ \E k \in Keys : Show(k)
  PROVE  ListInv'
<1>1. /\ matching \in [Keys -> SUBSET Showings] /\ moved \subseteq Showings
      /\ list \in ListSet /\ fetch \in [Keys -> FetchSet]
      /\ UNCHANGED <<matching, moved>>
  BY ListTyped DEF ListInv, LoadMore, Refetch, Show
<1> DEFINE L == Read
<1>2. MayRead => L \in ListSet /\ L.pages = list.pages
  <2> SUFFICES ASSUME MayRead PROVE L \in ListSet /\ L.pages = list.pages
    OBVIOUS
  <2>1. list.reads + 1 \in 0..MaxReads
    BY <1>1 DEF MayRead, ListSet, ListConstants
  <2>2. L = [list EXCEPT !.reads = list.reads + 1]
    BY DEF Read
  <2> HIDE DEF L
  <2> QED  BY ONLY <1>1, <2>1, <2>2 DEF ListSet
<1>3. ASSUME MayRead, NEW q \in Keys, NEW busy \in BOOLEAN, NEW shown \in Keys,
             list' = [L EXCEPT !.shown = shown, !.busy = busy, !.failed[q] = FALSE]
      PROVE  list' \in ListSet /\ list'.pages = list.pages
  <2> HIDE DEF L
  <2>1. L \in ListSet /\ L.pages = list.pages
    BY <1>2, <1>3
  <2>2. [L.failed EXCEPT ![q] = FALSE] \in [Keys -> BOOLEAN]
    BY <2>1 DEF ListSet
  <2>3. list' = [L EXCEPT !.shown = shown, !.busy = busy,
                          !.failed = [L.failed EXCEPT ![q] = FALSE]]
    BY <1>3
  <2> QED  BY ONLY <2>1, <2>2, <2>3 DEF ListSet
<1>4. ASSUME MayRead, NEW q \in Keys, NEW busy \in BOOLEAN,
             list' = [L EXCEPT !.busy = busy, !.failed[q] = FALSE]
      PROVE  list' \in ListSet /\ list'.pages = list.pages
  <2> HIDE DEF L
  <2>1. L \in ListSet /\ L.pages = list.pages
    BY <1>2, <1>4
  <2>2. [L.failed EXCEPT ![q] = FALSE] \in [Keys -> BOOLEAN]
    BY <2>1 DEF ListSet
  <2>3. list' = [L EXCEPT !.busy = busy, !.failed = [L.failed EXCEPT ![q] = FALSE]]
    BY <1>4
  <2> QED  BY ONLY <2>1, <2>2, <2>3 DEF ListSet
<1>5. PICK k \in Keys, kind \in {"all", "next"} :
        /\ fetch' \in {fetch, StartFetch(k, kind)}
        /\ list' \in ListSet /\ list'.pages = list.pages
        /\ kind = "next" => HasNextPage(k)
  <2>1. CASE LoadMore
    <3>1. /\ list.shown \in Keys /\ fetch' = StartFetch(list.shown, "next")
          /\ HasNextPage(list.shown)
      BY <1>1, <2>1 DEF LoadMore, ListSet
    <3>2. list' \in ListSet /\ list'.pages = list.pages
      <4>1. /\ MayRead /\ list.shown \in Keys
            /\ list' = [L EXCEPT !.busy = ~list.failed[list.shown], !.failed[list.shown] = FALSE]
        BY <2>1, <3>1 DEF LoadMore
      <4>2. (~list.failed[list.shown]) \in BOOLEAN
        OBVIOUS
      <4> HIDE DEF L
      <4> QED  BY <1>4, <4>1, <4>2
    <3> QED  BY <3>1, <3>2
  <2>2. CASE Refetch
    <3>1. list.shown \in Keys /\ fetch' = StartFetch(list.shown, "all")
      BY <1>1, <2>2 DEF Refetch, ListSet
    <3>2. list' \in ListSet /\ list'.pages = list.pages
      <4> DEFINE busy == L.busy /\ fetch[list.shown].kind # "next"
      <4>1. /\ MayRead /\ list.shown \in Keys
            /\ list' = [L EXCEPT !.failed[list.shown] = FALSE, !.busy = busy]
        BY <2>2, <3>1 DEF Refetch
      <4>2. list' = [L EXCEPT !.busy = busy, !.failed[list.shown] = FALSE]
        BY <4>1
      <4>3. busy \in BOOLEAN
        OBVIOUS
      <4> HIDE DEF L, busy
      <4> QED  BY <1>4, <4>1, <4>2, <4>3
    <3> QED  BY <3>1, <3>2
  <2>3. ASSUME NEW k \in Keys, Show(k)
        PROVE  /\ fetch' \in {fetch, StartFetch(k, "all")}
               /\ list' \in ListSet /\ list'.pages = list.pages
    <3>1. fetch' \in {fetch, StartFetch(k, "all")}
      BY <2>3 DEF Show
    <3>2. list' \in ListSet /\ list'.pages = list.pages
      <4>1. MayRead /\ list' = [L EXCEPT !.shown = k, !.busy = FALSE, !.failed[k] = FALSE]
        BY <2>3 DEF Show
      <4> HIDE DEF L
      <4> QED  BY <1>3, <4>1
    <3> QED  BY <3>1, <3>2
  <2> QED  BY <2>1, <2>2, <2>3
<1>6. StartFetch(k, kind) \in [Keys -> FetchSet]
  BY <1>1 DEF StartFetch, FetchSet, Kinds
<1>7. ListTypeOK'
  BY <1>1, <1>5, <1>6 DEF ListTypeOK, ListSet, FetchSet
<1>8. ASSUME NEW q \in Keys PROVE PagesSound(q)' /\ FetchSound(q)'
  <2>1. CASE fetch'[q] = fetch[q]
    BY <1>1, <1>5, <2>1, SameQuery
  <2>2. CASE fetch'[q] # fetch[q]
    <3>1. q = k /\ fetch'[q] = [kind |-> kind, got |-> <<>>]
      BY <1>1, <1>5, <2>2 DEF StartFetch
    <3>2. PagesSound(q) /\ Kept(q)' = Kept(q)
      BY <1>1 DEF ListInv, Kept
    <3>3. PagesSound(q)'
      BY <1>5, <3>2 DEF PagesSound
    <3>4. kind = "next" => list.pages[q] # <<>> /\ Last(list.pages[q]).next # NoCursor
      BY <1>5, <3>1 DEF HasNextPage, NextCursor
    <3> QED  BY <1>5, <3>1, <3>3, <3>4 DEF FetchSound
  <2> QED  BY <2>1, <2>2
<1> QED  BY <1>7, <1>8 DEF ListInv

LEMMA KeepsServing ==
  ASSUME ListConstants, ListInv, NEW k \in Keys, ServePage(k) PROVE ListInv'
<1>1. /\ matching \in [Keys -> SUBSET Showings] /\ moved \subseteq Showings
      /\ list \in ListSet /\ fetch \in [Keys -> FetchSet]
      /\ UNCHANGED <<matching, moved, list>>
      /\ fetch[k] \in FetchSet /\ list.pages[k] \in Seq(Page)
      /\ matching[k] \subseteq Showings
  BY ListTyped DEF ListInv, ServePage, ListSet
<1> DEFINE cursor == IF fetch[k].kind = "next" THEN NextCursor(list.pages[k])
                     ELSE IF fetch[k].got = <<>> THEN NoCursor ELSE NextCursor(fetch[k].got)
           p == PageOf(k, cursor)
           got == Append(fetch[k].got, p)
<1>2. /\ fetch' = [fetch EXCEPT ![k] = [fetch[k] EXCEPT !.got = got]]
      /\ fetch[k].kind # "none" /\ ~Complete(k)
  BY <1>1 DEF ServePage
<1>3. fetch[k].kind \in {"all", "next"} /\ fetch[k].got \in Seq(Page)
  BY <1>1, <1>2 DEF FetchSet, Kinds
<1>4. PagesSound(k) /\ FetchSound(k) /\ Kept(k)' = Kept(k)
  BY <1>1 DEF ListInv, Kept
<1>5. CASE fetch[k].kind = "next"
  <2>1. fetch[k].got = <<>>
    BY <1>2, <1>5 DEF Complete
  <2>2. /\ list.pages[k] # <<>> /\ Last(list.pages[k]).next # NoCursor
        /\ Sound(Kept(k), list.pages[k])
    BY <1>4, <1>5 DEF FetchSound, PagesSound
  <2>3. cursor = Last(list.pages[k]).next
    BY <1>1, <1>5, <2>2, NoCursorReturns
  <2>4. p \in Page /\ Sound(Kept(k), Append(list.pages[k], p))
    <3> HIDE DEF cursor
    <3> QED  BY <1>1, <2>2, <2>3, FurtherPage
  <2> HIDE DEF cursor, p
  <2>5. got = <<p>> /\ got \in Seq(Page)
    BY <2>1, <2>4
  <2> HIDE DEF got
  <2>6. fetch'[k] = [kind |-> "next", got |-> got]
    BY <1>1, <1>2, <1>5 DEF FetchSet
  <2>7. FetchSound(k)' /\ PagesSound(k)'
    BY <1>1, <1>4, <2>2, <2>4, <2>5, <2>6 DEF FetchSound, PagesSound
  <2>8. ListTypeOK'
    <3>1. [fetch[k] EXCEPT !.got = got] \in FetchSet
      BY <1>1, <2>5 DEF FetchSet
    <3>2. fetch' \in [Keys -> FetchSet]
      BY <1>1, <1>2, <3>1
    <3> QED  BY <1>1, <3>2 DEF ListTypeOK, ListSet, FetchSet
  <2>9. ASSUME NEW q \in Keys, q # k PROVE PagesSound(q)' /\ FetchSound(q)'
    BY <1>1, <1>2, <2>9, SameQuery
  <2> QED  BY <2>7, <2>8, <2>9 DEF ListInv
<1>6. CASE fetch[k].kind = "all"
  <2>1. p \in Page /\ Sound(Kept(k), got)
    <3>1. CASE fetch[k].got = <<>>
      <4>1. cursor = NoCursor
        BY <1>6, <3>1
      <4> HIDE DEF cursor
      <4> QED  BY <1>1, <3>1, <4>1, FirstPage
    <3>2. CASE fetch[k].got # <<>>
      <4>1. Sound(Kept(k), fetch[k].got)
        BY <1>4, <1>6, <3>2 DEF FetchSound
      <4>2. cursor = Last(fetch[k].got).next /\ NextCursor(fetch[k].got) = cursor
        BY <1>3, <1>6, <3>2, <4>1, NoCursorReturns
      <4>3. cursor # NoCursor
        BY <1>2, <3>2, <4>2 DEF Complete
      <4> HIDE DEF cursor
      <4> QED  BY <1>1, <1>3, <3>2, <4>1, <4>2, <4>3, FurtherPage
    <3> QED  BY <3>1, <3>2
  <2> HIDE DEF cursor, p
  <2>2. got \in Seq(Page)
    BY <1>3, <2>1
  <2> HIDE DEF got
  <2>3. fetch'[k] = [kind |-> "all", got |-> got]
    BY <1>1, <1>2, <1>6 DEF FetchSet
  <2>4. FetchSound(k)' /\ PagesSound(k)'
    BY <1>1, <1>4, <2>1, <2>3 DEF FetchSound, PagesSound
  <2>5. ListTypeOK'
    <3>1. [fetch[k] EXCEPT !.got = got] \in FetchSet
      BY <1>1, <2>2 DEF FetchSet
    <3>2. fetch' \in [Keys -> FetchSet]
      BY <1>1, <1>2, <3>1
    <3> QED  BY <1>1, <3>2 DEF ListTypeOK, ListSet, FetchSet
  <2>6. ASSUME NEW q \in Keys, q # k PROVE PagesSound(q)' /\ FetchSound(q)'
    BY <1>1, <1>2, <2>6, SameQuery
  <2> QED  BY <2>4, <2>5, <2>6 DEF ListInv
<1> QED  BY <1>3, <1>5, <1>6

LEMMA KeepsReading ==
  ASSUME ListConstants, ListInv, NEW k \in Keys, PagesAnswered(k) \/ FetchFails(k)
  PROVE  ListInv'
<1>1. /\ matching \in [Keys -> SUBSET Showings] /\ moved \subseteq Showings
      /\ list \in ListSet /\ fetch \in [Keys -> FetchSet]
      /\ UNCHANGED <<matching, moved>>
      /\ fetch[k] \in FetchSet /\ list.pages[k] \in Seq(Page)
      /\ fetch' = [fetch EXCEPT ![k] = NoFetch] /\ NoFetch \in FetchSet
  BY ListTyped DEF ListInv, PagesAnswered, FetchFails, ListSet, NoFetch, FetchSet, Kinds
<1>2. PICK pages \in Seq(Page) :
        /\ list' \in ListSet /\ list'.pages = [list.pages EXCEPT ![k] = pages]
        /\ pages # <<>> => Sound(Kept(k), pages)
  <2>1. CASE FetchFails(k)
    <3>1. list'.pages = list.pages /\ list' \in ListSet
      BY <1>1, <2>1 DEF FetchFails, Released, ListSet
    <3>2. list.pages = [list.pages EXCEPT ![k] = list.pages[k]]
      BY <1>1 DEF ListSet
    <3>3. PagesSound(k)
      BY DEF ListInv
    <3> QED  BY <1>1, <3>1, <3>2, <3>3 DEF PagesSound
  <2>2. CASE PagesAnswered(k)
    <3> DEFINE pages == IF fetch[k].kind = "next" THEN list.pages[k] \o fetch[k].got
                        ELSE fetch[k].got
    <3>1. /\ list' = [list EXCEPT !.busy = Released(k),
                                  !.pages = [list.pages EXCEPT ![k] = pages]]
          /\ fetch[k].kind # "none" /\ fetch[k].got # <<>>
      BY <1>1, <2>2 DEF PagesAnswered, Complete
    <3>2. FetchSound(k)
      BY DEF ListInv
    <3>3. pages \in Seq(Page) /\ Sound(Kept(k), pages)
      <4>1. CASE fetch[k].kind = "next"
        <5>1. PICK p \in Page : /\ fetch[k].got = <<p>>
                                /\ Sound(Kept(k), Append(list.pages[k], p))
          BY <3>1, <3>2, <4>1 DEF FetchSound
        <5>2. list.pages[k] \o <<p>> = Append(list.pages[k], p)
          BY <1>1
        <5>3. Append(list.pages[k], p) \in Seq(Page)
          BY <1>1
        <5> QED  BY <4>1, <5>1, <5>2, <5>3
      <4>2. CASE fetch[k].kind # "next"
        BY <1>1, <3>1, <3>2, <4>2 DEF FetchSound, FetchSet, Kinds
      <4> QED  BY <4>1, <4>2
    <3> HIDE DEF pages
    <3>4. [list.pages EXCEPT ![k] = pages] \in [Keys -> Seq(Page)]
      BY <1>1, <3>3 DEF ListSet
    <3>5. /\ list' \in ListSet /\ list'.pages = [list.pages EXCEPT ![k] = pages]
      BY <1>1, <3>1, <3>4 DEF ListSet, Released
    <3> QED  BY <3>3, <3>5
  <2> QED  BY <2>1, <2>2
<1>3. ListTypeOK'
  <2>1. fetch' \in [Keys -> FetchSet]
    BY <1>1
  <2> QED  BY <1>1, <1>2, <2>1 DEF ListTypeOK, ListSet, FetchSet
<1>4. PagesSound(k)' /\ FetchSound(k)'
  <2>1. list'.pages[k] = pages /\ fetch'[k] = NoFetch /\ Kept(k)' = Kept(k)
    BY <1>1, <1>2 DEF ListSet, Kept
  <2> QED  BY <1>2, <2>1 DEF PagesSound, FetchSound, NoFetch
<1>5. ASSUME NEW q \in Keys, q # k PROVE PagesSound(q)' /\ FetchSound(q)'
  <2>1. list'.pages[q] = list.pages[q] /\ fetch'[q] = fetch[q]
    BY <1>1, <1>2, <1>5 DEF ListSet
  <2> QED  BY <1>1, <2>1, SameQuery
<1> QED  BY <1>3, <1>4, <1>5 DEF ListInv

\* What is required of the pages only gets less.
LEMMA KeepsChange == ASSUME ListInv, MatchingChanges PROVE ListInv'
<1>1. /\ matching \in [Keys -> SUBSET Showings] /\ moved \subseteq Showings
      /\ list \in ListSet /\ fetch \in [Keys -> FetchSet]
      /\ UNCHANGED <<list, fetch>>
  BY ListTyped DEF ListInv, MatchingChanges
<1>2. PICK q \in Keys, i \in Showings :
        /\ moved' = moved \cup {i}
        /\ matching' = [matching EXCEPT ![q] =
             IF i \in matching[q] THEN matching[q] \ {i} ELSE matching[q] \cup {i}]
  BY DEF MatchingChanges
<1>3. matching' \in [Keys -> SUBSET Showings] /\ moved' \subseteq Showings
  BY <1>1, <1>2
<1>4. \A k \in Keys : Kept(k)' \subseteq Kept(k)
  BY <1>1, <1>2 DEF Kept
<1>5. ASSUME NEW k \in Keys, NEW pages, Sound(Kept(k), pages)
      PROVE  Sound(Kept(k)', pages)
  BY <1>4, <1>5 DEF Sound
<1>6. ASSUME NEW k \in Keys PROVE PagesSound(k)' /\ FetchSound(k)'
  <2>1. PagesSound(k) /\ FetchSound(k)
    BY DEF ListInv
  <2>2. PagesSound(k)'
    BY <1>1, <1>5, <2>1 DEF PagesSound
  <2>3. FetchSound(k)'
    BY <1>1, <1>5, <2>1 DEF FetchSound
  <2> QED  BY <2>2, <2>3
<1>7. ListTypeOK'
  BY <1>1, <1>3 DEF ListTypeOK, ListSet, FetchSet
<1> QED  BY <1>6, <1>7 DEF ListInv

LEMMA KeepsList == ASSUME ListConstants, ListInv, [ListNext]_listVars PROVE ListInv'
<1>1. CASE UNCHANGED listVars
  <2>1. UNCHANGED <<matching, moved, list, fetch>>
    BY <1>1 DEF listVars
  <2>2. ListTypeOK'
    BY <2>1 DEF ListInv, ListTypeOK
  <2> QED  BY <2>1, <2>2, SameQuery DEF ListInv
<1>2. CASE LoadMore \/ Refetch \/ \E k \in Keys : Show(k)
  BY <1>2, KeepsAsking
<1>3. CASE \E k \in Keys : ServePage(k)
  BY <1>3, KeepsServing
<1>4. CASE \E k \in Keys : PagesAnswered(k) \/ FetchFails(k)
  BY <1>4, KeepsReading
<1>5. CASE MatchingChanges
  BY <1>5, KeepsChange
<1> QED  BY <1>1, <1>2, <1>3, <1>4, <1>5 DEF ListNext

\* The invariant of the paged lists: what is shown and what is being read are pages
\* read one after the other, with all that matched while they were read.
THEOREM ListInvariance == ListConstants => (ListSpec => []ListInv)
<1> SUFFICES ASSUME ListConstants PROVE ListSpec => []ListInv
  OBVIOUS
<1>1. ListInit => ListInv
  BY ListBegins
<1>2. ListInv /\ [ListNext]_listVars => ListInv'
  BY KeepsList
<1> QED  BY <1>1, <1>2, PTL DEF ListSpec

\* For any number of showings, page size and changes: a list that offers no further
\* page has every showing that matched all along, and no cursor comes back.
THEOREM ListsLeaveOutNothing == ListConstants => (ListSpec => []ListsAreComplete)
<1> SUFFICES ASSUME ListConstants PROVE ListSpec => []ListsAreComplete
  OBVIOUS
<1>1. ListInv => ListsAreComplete
  <2> SUFFICES ASSUME ListInv, NEW k \in Keys, list.pages[k] # <<>>
               PROVE  /\ ~PaginationIntegrityError(k)
                      /\ HasNextPage(k) \/ matching[k] \ moved \subseteq LoadedShowings(k)
    BY DEF ListsAreComplete
  <2>1. list.pages[k] \in Seq(Page) /\ Sound(Kept(k), list.pages[k])
    BY ListTyped DEF ListInv, PagesSound, ListSet
  <2>2. ~Repeats(list.pages[k]) /\ NextCursor(list.pages[k]) = Last(list.pages[k]).next
    BY <2>1, NoCursorReturns
  <2>3. ASSUME ~HasNextPage(k), NEW i \in Kept(k) PROVE i \in LoadedShowings(k)
    <3>1. Last(list.pages[k]).next = NoCursor
      BY <2>2, <2>3 DEF HasNextPage
    <3>2. \E j \in DOMAIN list.pages[k] : i \in list.pages[k][j].items
      BY <2>1, <3>1 DEF Sound
    <3> QED  BY <3>2 DEF LoadedShowings
  <2> QED  BY <2>2, <2>3 DEF PaginationIntegrityError, Kept
<1>2. ListSpec => []ListInv
  BY ListInvariance
<1> QED  BY <1>1, <1>2, PTL

-----------------------------------------------------------------------------
(* DeliveryPanel.                                                          *)

PanelConstants == MaxLinks \in Nat /\ MaxPresses \in Nat

DeskSet == [revoked : Seq(BOOLEAN), late : SUBSET Links, email : EmailStatus,
            status : VisitStatus]
PanelSet == [list : Listing, read : BOOLEAN, late : SUBSET Links, box : 0..MaxLinks,
             status : VisitStatus]
PostsSet == [create : {"none", "link", "replacement", "made"}, made : 0..MaxLinks,
             revoke : {"none", "asked", "revoked", "settling"}, link : 0..MaxLinks,
             send : {"none", "asked", "refused", "running", "settling"},
             list : {"none", "asked", "read"}, answer : Listing, status : BOOLEAN,
             presses : 0..MaxPresses]

LEMMA PanelTyped ==
  PanelTypeOK <=> /\ desk \in DeskSet /\ panel \in PanelSet /\ posts \in PostsSet
                  /\ excused \subseteq Links
BY DEF PanelTypeOK, DeskSet, PanelSet, PostsSet

\* A list that was read is of links there are, and calls revoked what is.
IsBehind(listing) ==
  \A l \in DOMAIN listing.revoked :
    l \in DOMAIN desk.revoked /\ (listing.revoked[l] => desk.revoked[l])

Behind == IsBehind(panel.list) /\ IsBehind(posts.answer)

\* Requests are about links there are.
LinkFacts ==
  /\ Len(desk.revoked) <= MaxLinks
  /\ posts.create = "made" => posts.made \in DOMAIN desk.revoked
  /\ posts.revoke # "none" => posts.link \in DOMAIN desk.revoked

\* The link in the box, if it is revoked, is excused or about to leave the box.
BoxFacts ==
  panel.box # 0 =>
    /\ panel.box \in DOMAIN desk.revoked
    /\ desk.revoked[panel.box] =>
         panel.box \in excused \/ (posts.revoke # "none" /\ posts.link = panel.box)

PanelInv == PanelTypeOK /\ Behind /\ LinkFacts /\ BoxFacts

LEMMA PanelBegins == ASSUME PanelConstants, PanelInit PROVE PanelInv
<1>1. NoList \in Listing /\ NoList.revoked = <<>>
  BY DEF NoList, Listing, EmailStatus
<1>2. desk \in DeskSet /\ panel \in PanelSet /\ posts \in PostsSet /\ excused \subseteq Links
  BY <1>1 DEF PanelInit, DeskSet, PanelSet, PostsSet, EmailStatus, VisitStatus, PanelConstants
<1>3. Behind /\ LinkFacts /\ BoxFacts
  BY <1>1 DEF PanelInit, Behind, IsBehind, LinkFacts, BoxFacts, PanelConstants
<1> QED  BY <1>2, <1>3, PanelTyped DEF PanelInv

\* The links of the server after a step: there are no fewer, and none is revoked but
\* the one a request names.
LEMMA LinksGrow ==
  ASSUME PanelConstants, PanelInv, UNCHANGED <<panel, excused>>,
         desk' \in DeskSet, posts' \in PostsSet,
         Len(desk'.revoked) <= MaxLinks,
         \A l \in DOMAIN desk.revoked :
           /\ l \in DOMAIN desk'.revoked
           /\ desk.revoked[l] => desk'.revoked[l]
           /\ desk'.revoked[l] => desk.revoked[l] \/ (posts.revoke # "none" /\ posts.link = l),
         posts'.create = "made" => posts'.made \in DOMAIN desk'.revoked,
         posts.revoke = "none" <=> posts'.revoke = "none", posts'.link = posts.link,
         posts'.answer = posts.answer
  PROVE  PanelInv'
<1>1. PanelTypeOK'
  BY PanelTyped DEF PanelInv, PanelTypeOK, DeskSet, PanelSet, PostsSet
<1>2. Behind'
  BY DEF PanelInv, Behind, IsBehind
<1>3. LinkFacts'
  BY DEF PanelInv, LinkFacts
<1>4. BoxFacts'
  BY DEF PanelInv, BoxFacts
<1> QED  BY <1>1, <1>2, <1>3, <1>4 DEF PanelInv

\* One more item, and another in the place of one.
LEMMA Appended ==
  ASSUME NEW S, NEW s \in Seq(S), NEW e \in S
  PROVE  /\ Append(s, e) \in Seq(S) /\ Len(s) \in Nat
         /\ Len(Append(s, e)) = Len(s) + 1
         /\ DOMAIN Append(s, e) = 1..(Len(s) + 1) /\ DOMAIN s = 1..Len(s)
         /\ \A l \in DOMAIN s : Append(s, e)[l] = s[l]
OBVIOUS

LEMMA Replaced ==
  ASSUME NEW S, NEW s \in Seq(S), NEW k \in DOMAIN s, NEW e \in S
  PROVE  /\ [s EXCEPT ![k] = e] \in Seq(S)
         /\ Len([s EXCEPT ![k] = e]) = Len(s)
         /\ DOMAIN [s EXCEPT ![k] = e] = DOMAIN s
         /\ [s EXCEPT ![k] = e][k] = e
         /\ \A l \in DOMAIN s : l # k => [s EXCEPT ![k] = e][l] = s[l]
OBVIOUS

\* Another link.
LEMMA OneMore ==
  ASSUME PanelConstants, PanelInv, NewLink
  PROVE  /\ Linked \in Seq(BOOLEAN) /\ Len(Linked) <= MaxLinks
         /\ Len(Linked) \in DOMAIN Linked /\ Len(Linked) \in 0..MaxLinks
         /\ \A l \in DOMAIN desk.revoked :
              l \in DOMAIN Linked /\ Linked[l] = desk.revoked[l]
<1>1. desk.revoked \in Seq(BOOLEAN) /\ Len(desk.revoked) < MaxLinks
  BY PanelTyped DEF PanelInv, NewLink, DeskSet
<1>2. /\ Linked \in Seq(BOOLEAN) /\ Len(desk.revoked) \in Nat
      /\ Len(Linked) = Len(desk.revoked) + 1
      /\ DOMAIN Linked = 1..(Len(desk.revoked) + 1)
      /\ DOMAIN desk.revoked = 1..Len(desk.revoked)
      /\ \A l \in DOMAIN desk.revoked : Linked[l] = desk.revoked[l]
  BY ONLY <1>1, FALSE \in BOOLEAN, Appended DEF Linked
<1> QED  BY <1>1, <1>2 DEF PanelConstants

LEMMA KeepsDesk ==
  ASSUME PanelConstants, PanelInv,
         ServeLink \/ ServeRevoke \/ ServeSend \/ EmailSettles \/ LinkExpires
  PROVE  PanelInv'
<1>1. /\ desk \in DeskSet /\ panel \in PanelSet /\ posts \in PostsSet
      /\ UNCHANGED <<panel, excused>>
      /\ desk.revoked \in Seq(BOOLEAN) /\ Len(desk.revoked) <= MaxLinks
  BY PanelTyped DEF PanelInv, LinkFacts, ServeLink, ServeRevoke, ServeSend, EmailSettles,
                    LinkExpires, DeskSet
<1>2. CASE ServeLink
  <2>1. /\ NewLink
        /\ desk' = [desk EXCEPT !.revoked = Linked, !.status = "sent_to_client"]
        /\ posts' = [posts EXCEPT !.create = "made", !.made = Len(Linked)]
    BY <1>2 DEF ServeLink
  <2>2. /\ Linked \in Seq(BOOLEAN) /\ Len(Linked) <= MaxLinks
        /\ Len(Linked) \in DOMAIN Linked /\ Len(Linked) \in 0..MaxLinks
        /\ \A l \in DOMAIN desk.revoked :
             l \in DOMAIN Linked /\ Linked[l] = desk.revoked[l]
    BY <2>1, OneMore
  <2>3. desk' \in DeskSet /\ desk'.revoked = Linked
    BY <1>1, <2>1, <2>2 DEF DeskSet, VisitStatus
  <2>4. /\ posts' \in PostsSet /\ posts'.made = Len(Linked)
        /\ posts'.revoke = posts.revoke /\ posts'.link = posts.link
        /\ posts'.answer = posts.answer
    BY <1>1, <2>1, <2>2 DEF PostsSet
  <2> QED  BY <1>1, <2>2, <2>3, <2>4, LinksGrow
<1>3. CASE ServeRevoke
  <2>1. /\ posts.revoke = "asked" /\ posts.link \in DOMAIN desk.revoked
        /\ desk' = [desk EXCEPT !.revoked = [desk.revoked EXCEPT ![posts.link] = TRUE]]
        /\ posts' = [posts EXCEPT !.revoke = "revoked"]
    BY <1>3 DEF ServeRevoke, PanelInv, LinkFacts
  <2> DEFINE withdrawn == [desk.revoked EXCEPT ![posts.link] = TRUE]
  <2>2. /\ withdrawn \in Seq(BOOLEAN) /\ Len(withdrawn) = Len(desk.revoked)
        /\ DOMAIN withdrawn = DOMAIN desk.revoked /\ withdrawn[posts.link] = TRUE
        /\ \A l \in DOMAIN desk.revoked : l # posts.link => withdrawn[l] = desk.revoked[l]
    BY ONLY <1>1, <2>1, TRUE \in BOOLEAN, Replaced
  <2> HIDE DEF withdrawn
  <2>3. desk' \in DeskSet /\ desk'.revoked = withdrawn
    BY <1>1, <2>1, <2>2 DEF DeskSet, withdrawn
  <2>4. /\ posts' \in PostsSet /\ posts'.create = posts.create /\ posts'.made = posts.made
        /\ posts'.revoke = "revoked" /\ posts'.link = posts.link
        /\ posts'.answer = posts.answer
    BY <1>1, <2>1 DEF PostsSet
  <2>5. posts.create = "made" => posts.made \in DOMAIN desk.revoked
    BY DEF PanelInv, LinkFacts
  <2> QED  BY <1>1, <2>1, <2>2, <2>3, <2>4, <2>5, LinksGrow
<1>4. CASE ServeSend \/ EmailSettles \/ LinkExpires
  <2>1. posts.create = "made" => posts.made \in DOMAIN desk.revoked
    BY DEF PanelInv, LinkFacts
  <2>2. /\ posts' \in PostsSet /\ posts'.create = posts.create /\ posts'.made = posts.made
        /\ posts'.revoke = posts.revoke /\ posts'.link = posts.link
        /\ posts'.answer = posts.answer
    BY <1>1, <1>4 DEF ServeSend, EmailSettles, LinkExpires, PostsSet
  <2>3. /\ desk' \in DeskSet
        /\ desk'.revoked = desk.revoked \/ (NewLink /\ desk'.revoked = Linked)
    <3>1. CASE ServeSend
      <4>1. NewLink => Linked \in Seq(BOOLEAN)
        BY OneMore
      <4>2. \/ /\ desk.email = "none" /\ NewLink
               /\ desk' = [desk EXCEPT !.email = "pending", !.revoked = Linked]
            \/ desk' = [desk EXCEPT !.email = "pending", !.revoked = desk.revoked]
            \/ desk' = desk
        BY <3>1 DEF ServeSend
      <4> QED  BY <1>1, <4>1, <4>2 DEF DeskSet, EmailStatus
    <3>2. CASE EmailSettles
      BY <1>1, <3>2 DEF EmailSettles, DeskSet, EmailStatus, VisitStatus
    <3>3. CASE LinkExpires
      <4>1. PICK l \in DOMAIN desk.revoked : desk' = [desk EXCEPT !.late = @ \cup {l}]
        BY <3>3 DEF LinkExpires
      <4>2. l \in Links
        BY <1>1, <4>1 DEF Links, PanelConstants
      <4> QED  BY <1>1, <4>1, <4>2 DEF DeskSet
    <3> QED  BY <1>4, <3>1, <3>2, <3>3
  <2>4. CASE desk'.revoked = desk.revoked
    BY <1>1, <2>1, <2>2, <2>3, <2>4, LinksGrow
  <2>5. CASE NewLink /\ desk'.revoked = Linked
    BY <1>1, <2>1, <2>2, <2>3, <2>5, OneMore, LinksGrow
  <2> QED  BY <2>3, <2>4, <2>5
<1> QED  BY <1>2, <1>3, <1>4

-----------------------------------------------------------------------------
(* What the panel does leaves the server as it is.                         *)

\* The box is emptied or stays, and so does the request that revokes its link.
LEMMA BoxStays ==
  ASSUME PanelInv, UNCHANGED desk,
         panel' \in PanelSet, posts' \in PostsSet, excused' \subseteq Links,
         excused \subseteq excused',
         panel'.list = panel.list \/ panel'.list = posts.answer,
         IsBehind(posts'.answer),
         posts'.create = "made" => posts.create = "made" /\ posts'.made = posts.made,
         posts'.revoke # "none" => posts'.link \in DOMAIN desk.revoked,
         \/ panel'.box = 0
         \/ /\ panel'.box = panel.box
            /\ posts.revoke # "none" =>
                 \/ posts'.revoke # "none" /\ posts'.link = posts.link
                 \/ desk.revoked[posts.link] => posts.link \in excused'
  PROVE  PanelInv'
<1>1. PanelTypeOK'
  BY PanelTyped DEF PanelInv, PanelTypeOK, DeskSet, PanelSet, PostsSet
<1>2. Behind'
  BY DEF PanelInv, Behind, IsBehind
<1>3. LinkFacts'
  BY DEF PanelInv, LinkFacts
<1>4. BoxFacts'
  BY DEF PanelInv, BoxFacts
<1> QED  BY <1>1, <1>2, <1>3, <1>4 DEF PanelInv

LEMMA NoLink == PanelConstants => 0 \in 0..MaxLinks
BY DEF PanelConstants

LEMMA SettleIs ==
  ASSUME PanelConstants, NEW c \in PostsSet
  PROVE  /\ Settle(c) \in PostsSet
         /\ Settle(c).create = c.create /\ Settle(c).made = c.made
         /\ Settle(c).answer = c.answer
         /\ c.revoke = "settling" => Settle(c).revoke = "none"
         /\ c.revoke # "settling" =>
              Settle(c).revoke = c.revoke /\ Settle(c).link = c.link
<1>1. CASE c.revoke = "settling"
  <2>1. PICK s \in {"none", "asked", "refused", "running"} :
          Settle(c) = [c EXCEPT !.revoke = "none", !.link = 0, !.send = s]
    BY <1>1 DEF Settle, PostsSet
  <2> QED  BY <1>1, <2>1, NoLink DEF PostsSet
<1>2. CASE c.revoke # "settling"
  <2>1. PICK s \in {"none", "asked", "refused", "running"} :
          Settle(c) = [c EXCEPT !.revoke = c.revoke, !.link = c.link, !.send = s]
    BY <1>2 DEF Settle, PostsSet
  <2> QED  BY <1>2, <2>1 DEF PostsSet
<1> QED  BY <1>1, <1>2

LEMMA Refreshed ==
  ASSUME PanelConstants, NEW c \in PostsSet
  PROVE  /\ RefreshLinks(c) \in PostsSet
         /\ RefreshLinks(c).create = c.create /\ RefreshLinks(c).made = c.made
         /\ RefreshLinks(c).answer = c.answer
         /\ GivenUp /\ c.revoke = "settling" => RefreshLinks(c).revoke = "none"
         /\ ~(GivenUp /\ c.revoke = "settling") =>
              RefreshLinks(c).revoke = c.revoke /\ RefreshLinks(c).link = c.link
<1> DEFINE d == IF GivenUp THEN Settle(c) ELSE c
<1>1. /\ d \in PostsSet /\ d.create = c.create /\ d.made = c.made /\ d.answer = c.answer
      /\ GivenUp /\ c.revoke = "settling" => d.revoke = "none"
      /\ ~(GivenUp /\ c.revoke = "settling") => d.revoke = c.revoke /\ d.link = c.link
  BY SettleIs
<1>2. RefreshLinks(c) = Reread(d)
  BY DEF RefreshLinks
<1> HIDE DEF d
<1>3. /\ Reread(d) \in PostsSet
      /\ Reread(d).create = d.create /\ Reread(d).made = d.made
      /\ Reread(d).answer = d.answer
      /\ Reread(d).revoke = d.revoke /\ Reread(d).link = d.link
  BY <1>1 DEF Reread, PostsSet
<1> QED  BY <1>1, <1>2, <1>3

LEMMA KeepsPress ==
  ASSUME PanelConstants, PanelInv,
         \/ PressLink \/ PressReplacement \/ PressSend
         \/ \E l \in Links : PressRevoke(l)
  PROVE  PanelInv'
<1>1. /\ panel \in PanelSet /\ posts \in PostsSet /\ excused \subseteq Links
      /\ UNCHANGED <<desk, panel, excused>> /\ MayPress
  BY PanelTyped DEF PanelInv, PressLink, PressReplacement, PressSend, PressRevoke
<1>2. /\ Press \in PostsSet /\ Press.create = posts.create /\ Press.made = posts.made
      /\ Press.revoke = posts.revoke /\ Press.link = posts.link
      /\ Press.answer = posts.answer
  BY <1>1 DEF Press, MayPress, PostsSet, PanelConstants
<1>3. IsBehind(posts.answer) /\ (posts.revoke # "none" => posts.link \in DOMAIN desk.revoked)
  BY DEF PanelInv, Behind, LinkFacts
<1>4. CASE PressLink \/ PressReplacement \/ PressSend
  <2>1. /\ posts' \in PostsSet /\ posts'.revoke = posts.revoke /\ posts'.link = posts.link
        /\ posts'.answer = posts.answer
        /\ posts'.create = "made" => posts.create = "made" /\ posts'.made = posts.made
    BY <1>2, <1>4 DEF PressLink, PressReplacement, PressSend, PostsSet
  <2> QED  BY <1>1, <1>3, <2>1, BoxStays
<1>5. ASSUME NEW l \in Links, PressRevoke(l) PROVE PanelInv'
  <2>1. l \in DOMAIN desk.revoked
    BY <1>5 DEF PanelInv, Behind, IsBehind, PressRevoke, ActiveLinks
  <2>2. l \in 0..MaxLinks
    BY DEF Links, PanelConstants
  <2>3. posts' = [Press EXCEPT !.revoke = "asked", !.link = l] /\ posts.revoke = "none"
    BY <1>5 DEF PressRevoke
  <2>4. /\ posts' \in PostsSet /\ posts'.revoke = "asked" /\ posts'.link = l
        /\ posts'.answer = posts.answer /\ posts'.create = posts.create
        /\ posts'.made = posts.made
    BY <1>2, <2>2, <2>3 DEF PostsSet
  <2> QED  BY <1>1, <1>3, <2>1, <2>3, <2>4, BoxStays
<1> QED  BY <1>4, <1>5

LEMMA KeepsNewLink == ASSUME PanelConstants, PanelInv, LinkCreated PROVE PanelInv'
<1> DEFINE c == [posts EXCEPT !.create = "none", !.made = 0, !.status = TRUE]
           box == IF GivenUp /\ posts.revoke = "settling" THEN 0 ELSE posts.made
<1>1. /\ panel \in PanelSet /\ posts \in PostsSet /\ excused \subseteq Links
      /\ UNCHANGED desk /\ posts.create = "made"
      /\ panel' = [panel EXCEPT !.box = box] /\ posts' = RefreshLinks(c)
      /\ excused' = excused \cup {l \in {posts.made} : desk.revoked[l]}
  BY PanelTyped DEF PanelInv, LinkCreated
<1>2. posts.made \in DOMAIN desk.revoked /\ posts.made \in Links
  <2>1. desk.revoked \in Seq(BOOLEAN) /\ Len(desk.revoked) <= MaxLinks
    BY PanelTyped DEF PanelInv, LinkFacts, DeskSet
  <2>2. posts.made \in DOMAIN desk.revoked
    BY <1>1 DEF PanelInv, LinkFacts
  <2>3. Len(desk.revoked) \in Nat /\ DOMAIN desk.revoked = 1..Len(desk.revoked)
    BY <2>1
  <2> QED  BY <2>1, <2>2, <2>3 DEF Links, PanelConstants
<1>3. /\ c \in PostsSet /\ c.create = "none" /\ c.revoke = posts.revoke
      /\ c.link = posts.link /\ c.answer = posts.answer
  BY <1>1, NoLink DEF PostsSet
<1> HIDE DEF c
<1>4. /\ posts' \in PostsSet /\ posts'.create = "none" /\ posts'.answer = posts.answer
      /\ posts'.revoke # "none" => posts'.revoke = posts.revoke /\ posts'.link = posts.link
  BY <1>1, <1>3, Refreshed
<1>5. box = 0 \/ box = posts.made
  OBVIOUS
<1> HIDE DEF box
<1>6. /\ panel' \in PanelSet /\ panel'.box = box /\ panel'.list = panel.list
  BY <1>1, <1>5 DEF PanelSet, PostsSet, PanelConstants
<1>7. PanelTypeOK'
  BY <1>1, <1>2, <1>4, <1>6, PanelTyped DEF PanelInv, PanelTypeOK, DeskSet, PanelSet, PostsSet
<1>8. Behind' /\ LinkFacts'
  BY <1>1, <1>4, <1>6 DEF PanelInv, Behind, IsBehind, LinkFacts
<1>9. BoxFacts'
  BY <1>1, <1>2, <1>5, <1>6 DEF BoxFacts
<1> QED  BY <1>7, <1>8, <1>9 DEF PanelInv

\* The list is read again, and those who waited for a fetch given up go on.
LEMMA KeepsReread ==
  ASSUME PanelConstants, PanelInv, UNCHANGED <<desk, excused>>,
         panel' = [panel EXCEPT !.box = IF GivenUp THEN SettledBox ELSE @],
         posts' \in PostsSet, posts'.create = posts.create, posts'.made = posts.made,
         posts'.answer = posts.answer, posts'.link = RefreshLinks(posts).link,
         \/ posts'.revoke = RefreshLinks(posts).revoke
         \/ posts.revoke = "revoked" /\ posts'.revoke = "settling"
  PROVE  PanelInv'
<1>1. panel \in PanelSet /\ posts \in PostsSet /\ excused \subseteq Links
  BY PanelTyped DEF PanelInv
<1>2. /\ IsBehind(posts.answer)
      /\ posts.revoke # "none" => posts.link \in DOMAIN desk.revoked
  BY DEF PanelInv, Behind, LinkFacts
<1>3. CASE GivenUp /\ posts.revoke = "settling"
  <2>1. posts'.revoke = "none"
    BY <1>1, <1>3, Refreshed
  <2>2. panel' \in PanelSet /\ panel'.box = 0 /\ panel'.list = panel.list
    BY <1>1, <1>3 DEF SettledBox, PanelSet, PanelConstants
  <2> QED  BY <1>1, <1>2, <2>1, <2>2, BoxStays
<1>4. CASE ~(GivenUp /\ posts.revoke = "settling")
  <2>1. posts'.link = posts.link /\ (posts.revoke # "none" <=> posts'.revoke # "none")
    BY <1>1, <1>4, Refreshed
  <2>2. panel' \in PanelSet /\ panel'.box = panel.box /\ panel'.list = panel.list
    BY <1>1, <1>4 DEF SettledBox, PanelSet
  <2> QED  BY <1>1, <1>2, <2>1, <2>2, BoxStays
<1> QED  BY <1>3, <1>4

LEMMA KeepsAnswered ==
  ASSUME PanelConstants, PanelInv, LinkRevoked \/ SendAnswered
  PROVE  PanelInv'
<1> DEFINE c == RefreshLinks(posts)
<1>1. /\ posts \in PostsSet /\ UNCHANGED <<desk, excused>>
      /\ panel' = [panel EXCEPT !.box = IF GivenUp THEN SettledBox ELSE @]
  BY PanelTyped DEF PanelInv, LinkRevoked, SendAnswered
<1>2. /\ c \in PostsSet /\ c.create = posts.create /\ c.made = posts.made
      /\ c.answer = posts.answer
  BY <1>1, Refreshed
<1>3. \/ posts.revoke = "revoked" /\ posts' = [c EXCEPT !.revoke = "settling"]
      \/ \E more \in BOOLEAN : posts' = [c EXCEPT !.send = "settling", !.status = more]
  <2>1. c.status \in BOOLEAN
    BY <1>2 DEF PostsSet
  <2> HIDE DEF c
  <2>2. CASE LinkRevoked
    BY <2>2 DEF LinkRevoked, c
  <2>3. CASE SendAnswered
    <3> DEFINE more == c.status \/ (posts.send = "running" /\ desk.email = "sent")
    <3>1. posts' = [c EXCEPT !.send = "settling", !.status = more]
      BY <2>3 DEF SendAnswered, c
    <3>2. more \in BOOLEAN
      BY <2>1
    <3> HIDE DEF more
    <3> QED  BY <3>1, <3>2
  <2> QED  BY <2>2, <2>3
<1>4. /\ posts' \in PostsSet /\ posts'.create = posts.create /\ posts'.made = posts.made
      /\ posts'.answer = posts.answer /\ posts'.link = c.link
      /\ \/ posts'.revoke = c.revoke
         \/ posts.revoke = "revoked" /\ posts'.revoke = "settling"
  <2> HIDE DEF c
  <2> QED  BY <1>2, <1>3 DEF PostsSet
<1> QED  BY <1>1, <1>4, KeepsReread

LEMMA KeepsRead ==
  ASSUME PanelConstants, PanelInv, ListAnswered \/ ListFails
  PROVE  PanelInv'
<1> DEFINE c == Settle(posts)
<1>1. /\ panel \in PanelSet /\ posts \in PostsSet /\ excused \subseteq Links
      /\ UNCHANGED <<desk, excused>>
      /\ posts' = [c EXCEPT !.list = "none", !.answer = NoList]
  BY PanelTyped DEF PanelInv, ListAnswered, ListFails
<1>2. /\ c \in PostsSet /\ c.create = posts.create /\ c.made = posts.made
      /\ posts.revoke = "settling" => c.revoke = "none"
      /\ posts.revoke # "settling" => c.revoke = posts.revoke /\ c.link = posts.link
  BY <1>1, SettleIs
<1> HIDE DEF c
<1>3. NoList \in Listing /\ IsBehind(NoList)
  BY DEF NoList, Listing, EmailStatus, IsBehind
<1>4. /\ posts' \in PostsSet /\ posts'.create = posts.create /\ posts'.made = posts.made
      /\ posts'.answer = NoList /\ posts'.revoke = c.revoke /\ posts'.link = c.link
  BY <1>1, <1>2, <1>3 DEF PostsSet
<1>5. posts.revoke # "none" => posts.link \in DOMAIN desk.revoked
  BY DEF PanelInv, LinkFacts
<1>6. /\ panel' \in PanelSet /\ panel'.box = SettledBox
      /\ panel'.list = panel.list \/ panel'.list = posts.answer
  <2>1. SettledBox \in 0..MaxLinks /\ posts.answer \in Listing
    BY <1>1 DEF SettledBox, PanelSet, PostsSet, PanelConstants
  <2>2. CASE ListFails
    BY <1>1, <2>1, <2>2 DEF ListFails, PanelSet
  <2>3. CASE ListAnswered
    BY <1>1, <2>1, <2>3 DEF ListAnswered, PanelSet
  <2> QED  BY <2>2, <2>3
<1>7. CASE posts.revoke = "settling"
  BY <1>1, <1>2, <1>3, <1>4, <1>6, <1>7, BoxStays DEF SettledBox
<1>8. CASE posts.revoke # "settling"
  BY <1>1, <1>2, <1>3, <1>4, <1>5, <1>6, <1>8, BoxStays DEF SettledBox
<1> QED  BY <1>7, <1>8

LEMMA KeepsServeList == ASSUME PanelConstants, PanelInv, ServeList PROVE PanelInv'
<1>1. /\ desk \in DeskSet /\ panel \in PanelSet /\ posts \in PostsSet
      /\ excused \subseteq Links /\ UNCHANGED <<desk, panel, excused>>
      /\ posts' = [posts EXCEPT !.list = "read",
                     !.answer = [revoked |-> desk.revoked, email |-> desk.email]]
  BY PanelTyped DEF PanelInv, ServeList
<1>2. [revoked |-> desk.revoked, email |-> desk.email] \in Listing
  BY <1>1 DEF DeskSet, Listing
<1>3. /\ posts' \in PostsSet /\ posts'.create = posts.create /\ posts'.made = posts.made
      /\ posts'.revoke = posts.revoke /\ posts'.link = posts.link
      /\ posts'.answer.revoked = desk.revoked
  BY <1>1, <1>2 DEF PostsSet
<1>4. IsBehind(posts'.answer) /\ (posts.revoke # "none" => posts.link \in DOMAIN desk.revoked)
  BY <1>3 DEF IsBehind, PanelInv, LinkFacts
<1> QED  BY <1>1, <1>3, <1>4, BoxStays

LEMMA KeepsScreen ==
  ASSUME PanelConstants, PanelInv, StatusAnswered \/ Tick
  PROVE  PanelInv'
<1>1. /\ desk \in DeskSet /\ panel \in PanelSet /\ posts \in PostsSet
      /\ excused \subseteq Links /\ UNCHANGED <<desk, excused>>
  BY PanelTyped DEF PanelInv, StatusAnswered, Tick
<1>2. panel' \in PanelSet /\ panel'.box = panel.box /\ panel'.list = panel.list
  <2>1. desk.late \in SUBSET Links /\ desk.status \in VisitStatus
    BY <1>1 DEF DeskSet
  <2>2. CASE StatusAnswered
    BY <1>1, <2>1, <2>2 DEF StatusAnswered, PanelSet
  <2>3. CASE Tick
    BY <1>1, <2>1, <2>3 DEF Tick, PanelSet
  <2> QED  BY <2>2, <2>3
<1>3. /\ posts' \in PostsSet /\ posts'.create = posts.create /\ posts'.made = posts.made
      /\ posts'.revoke = posts.revoke /\ posts'.link = posts.link
      /\ posts'.answer = posts.answer
  BY <1>1 DEF StatusAnswered, Tick, PostsSet
<1>4. IsBehind(posts.answer) /\ (posts.revoke # "none" => posts.link \in DOMAIN desk.revoked)
  BY DEF PanelInv, Behind, LinkFacts
<1> QED  BY <1>1, <1>2, <1>3, <1>4, BoxStays

LEMMA KeepsLost == ASSUME PanelConstants, PanelInv, CallLost PROVE PanelInv'
<1>1. /\ desk \in DeskSet /\ panel \in PanelSet /\ posts \in PostsSet
      /\ excused \subseteq Links /\ UNCHANGED desk
  BY PanelTyped DEF PanelInv, CallLost
<1>2. IsBehind(posts.answer) /\ (posts.revoke # "none" => posts.link \in DOMAIN desk.revoked)
  BY DEF PanelInv, Behind, LinkFacts
<1>3. CASE posts' = [posts EXCEPT !.create = "none", !.made = 0] /\ UNCHANGED <<panel, excused>>
  <2>1. /\ posts' \in PostsSet /\ posts'.create = "none"
        /\ posts'.revoke = posts.revoke /\ posts'.link = posts.link
        /\ posts'.answer = posts.answer
    BY <1>1, <1>3, NoLink DEF PostsSet
  <2> QED  BY <1>1, <1>2, <1>3, <2>1, BoxStays
<1>4. CASE /\ posts.revoke \in {"asked", "revoked"}
           /\ posts' = [posts EXCEPT !.revoke = "none", !.link = 0]
           /\ excused' = excused \cup {l \in {posts.link} : desk.revoked[l]}
           /\ UNCHANGED panel
  <2>1. /\ posts' \in PostsSet /\ posts'.create = posts.create /\ posts'.made = posts.made
        /\ posts'.revoke = "none" /\ posts'.answer = posts.answer
    BY <1>1, <1>4, NoLink DEF PostsSet
  <2>2. posts.link \in Links
    <3>1. desk.revoked \in Seq(BOOLEAN) /\ Len(desk.revoked) <= MaxLinks
      BY <1>1 DEF PanelInv, LinkFacts, DeskSet
    <3>2. Len(desk.revoked) \in Nat /\ DOMAIN desk.revoked = 1..Len(desk.revoked)
      BY <3>1
    <3> QED  BY <1>2, <1>4, <3>1, <3>2 DEF Links, PanelConstants
  <2>3. /\ excused \subseteq excused' /\ excused' \subseteq Links
        /\ desk.revoked[posts.link] => posts.link \in excused'
    BY <1>1, <1>4, <2>2
  <2> QED  BY <1>1, <1>2, <1>4, <2>1, <2>3, BoxStays
<1>5. CASE /\ posts' = [RefreshLinks(posts) EXCEPT !.send = "settling"]
           /\ panel' = [panel EXCEPT !.box = IF GivenUp THEN SettledBox ELSE @]
           /\ UNCHANGED excused
  <2> DEFINE c == RefreshLinks(posts)
  <2>1. /\ c \in PostsSet /\ c.create = posts.create /\ c.made = posts.made
        /\ c.answer = posts.answer
    BY <1>1, Refreshed
  <2>2. posts' = [c EXCEPT !.send = "settling"]
    BY <1>5
  <2> HIDE DEF c
  <2>3. /\ posts' \in PostsSet /\ posts'.create = posts.create /\ posts'.made = posts.made
        /\ posts'.answer = posts.answer /\ posts'.link = c.link /\ posts'.revoke = c.revoke
    BY <2>1, <2>2 DEF PostsSet
  <2> QED  BY <1>1, <1>5, <2>3, KeepsReread DEF c
<1> QED  BY <1>3, <1>4, <1>5 DEF CallLost

LEMMA KeepsPanel ==
  ASSUME PanelConstants, PanelInv, [PanelNext]_panelVars
  PROVE  PanelInv'
<1>1. CASE UNCHANGED panelVars
  BY <1>1 DEF panelVars, PanelInv, PanelTypeOK, Behind, IsBehind, LinkFacts, BoxFacts
<1>2. CASE ServeLink \/ ServeRevoke \/ ServeSend \/ EmailSettles \/ LinkExpires
  BY <1>2, KeepsDesk
<1>3. CASE PressLink \/ PressReplacement \/ PressSend \/ \E l \in Links : PressRevoke(l)
  BY <1>3, KeepsPress
<1>4. CASE LinkRevoked \/ SendAnswered \/ ListAnswered \/ ListFails
  BY <1>4, KeepsAnswered, KeepsRead
<1>5. CASE LinkCreated \/ ServeList \/ StatusAnswered \/ Tick \/ CallLost
  BY <1>5, KeepsNewLink, KeepsServeList, KeepsScreen, KeepsLost
<1> QED  BY <1>1, <1>2, <1>3, <1>4, <1>5 DEF PanelNext

\* The invariant of the panel: it never knows of a link what is not so on the server,
\* and a revoked link in its box has a reason to be there.
THEOREM PanelInvariance == PanelConstants => (PanelSpec => []PanelInv)
<1> SUFFICES ASSUME PanelConstants PROVE PanelSpec => []PanelInv
  OBVIOUS
<1>1. PanelInit => PanelInv
  BY PanelBegins
<1>2. PanelInv /\ [PanelNext]_panelVars => PanelInv'
  BY KeepsPanel
<1> QED  BY <1>1, <1>2, PTL DEF PanelSpec

\* For any number of links, requests and lost answers: a link the list shows as revoked
\* is not offered by the box above it, but for the exceptions the property names.
THEOREM RevokedLinksLeave == PanelConstants => (PanelSpec => []RevokedLinksAreWithdrawn)
<1> SUFFICES ASSUME PanelConstants PROVE PanelSpec => []RevokedLinksAreWithdrawn
  OBVIOUS
<1>1. PanelInv => RevokedLinksAreWithdrawn
  <2> SUFFICES ASSUME PanelInv, NEW l \in Offered \cap DOMAIN panel.list.revoked,
                      panel.list.revoked[l]
               PROVE  l \in excused \/ (posts.revoke # "none" /\ posts.link = l)
    BY DEF RevokedLinksAreWithdrawn
  <2>1. l = panel.box /\ panel.box # 0
    BY DEF Offered, ActiveLinks, Box
  <2>2. desk.revoked[l]
    BY DEF PanelInv, Behind, IsBehind
  <2> QED  BY <2>1, <2>2 DEF PanelInv, BoxFacts
<1>2. PanelSpec => []PanelInv
  BY PanelInvariance
<1> QED  BY <1>1, <1>2, PTL

-----------------------------------------------------------------------------
(* ReviewWorkspace.                                                        *)

ReviewConstants == NoObs \notin Obs /\ MaxPressed \in Nat

ViewSet == [cache : ShowingRows, failed : BOOLEAN, confirmError : BOOLEAN,
            tab : {"report", "observations", "transcript"}, editing : SUBSET Obs]

LEMMA ReviewTyped ==
  ReviewTypeOK <=> /\ db \in ShowingRows /\ own \subseteq Obs /\ view \in ViewSet
                   /\ net \subseteq ReviewRequests /\ pressed \in 0..MaxPressed
                   /\ want \in [Obs -> CardOps \cup {NoObs}] /\ loose \subseteq Obs
BY DEF ReviewTypeOK, ViewSet

Confirmable(rows) == rows.report /\ ReadyToConfirm(rows)

\* A request is of a card or of none, keeps the rows it is to go back to, and
\* an answered one has what it found; a refused confirmation was offered.
Proper(r) ==
  /\ r.op \in CardOps => r.o \in Obs
  /\ r.op \notin CardOps => r.o = NoObs
  /\ r.op \in {"confirmed", "dismissed"} => r.before \in ShowingRows
  /\ r.op = "confirm" => Confirmable(r.before)
  /\ r.op = "get" /\ r.answer # "none" => r.found \in ShowingRows
  /\ r.op = "confirm" /\ r.answer \in {"invalid", "refused"} => ~Confirmable(r.found)

OnCard(o) == {r \in net : r.o = o}

\* The server did what the card's last button asks for; reprocessing may have deleted
\* the observation since, unless the agent wrote it.
Done(o) ==
  /\ db.obs[o] \in {want[o], "deleted"}
  /\ want[o] = "edited" => o \in own

\* A card whose requests cannot overtake each other has one at most, which is what
\* its last button asks for.
CardFacts(o) ==
  /\ \A r, q \in OnCard(o) : r = q
  /\ \A r \in OnCard(o) : r.attached /\ r.op = want[o] /\ (r.answer = "ok" => Done(o))
  /\ want[o] # NoObs /\ OnCard(o) = {} => Done(o)

ReviewInv ==
  /\ ReviewTypeOK /\ own \subseteq Drawn(db)
  /\ \A r \in net : Proper(r)
  /\ \A o \in Obs \ loose : CardFacts(o)

LEMMA ReviewBegins == ASSUME ReviewConstants, ReviewInit PROVE ReviewInv
<1>1. PICK located \in BOOLEAN, p \in {"failed", "ready"}, s \in {"absent", "pending", "edited"} :
        /\ db = [property |-> located, processing |-> p, report |-> s # "absent",
                 confirmed |-> FALSE, obs |-> [o \in Obs |-> s]]
        /\ own = IF s = "edited" THEN Obs ELSE {}
  BY DEF ReviewInit
<1>2. [o \in Obs |-> s] \in [Obs -> Status] /\ p \in Processing /\ (s # "absent") \in BOOLEAN
  BY DEF Status, Processing
<1>3. db \in ShowingRows
  BY <1>1, <1>2 DEF ShowingRows
<1>4. own \subseteq Drawn(db) /\ own \subseteq Obs
  BY <1>1 DEF Drawn
<1>5. /\ view \in ViewSet /\ net = {} /\ pressed \in 0..MaxPressed
      /\ want \in [Obs -> CardOps \cup {NoObs}] /\ loose = {}
      /\ \A o \in Obs : want[o] = NoObs
  BY <1>3 DEF ReviewInit, ViewSet, ReviewConstants
<1>6. ReviewTypeOK
  BY <1>3, <1>4, <1>5, ReviewTyped
<1>7. \A o \in Obs : CardFacts(o)
  BY <1>5 DEF CardFacts, OnCard
<1> QED  BY <1>4, <1>5, <1>6, <1>7 DEF ReviewInv

\* A card whose requests stay as they are; others may add it or delete it, but not
\* change it.
LEMMA SameCard ==
  ASSUME ReviewInv, NEW o \in Obs \ loose, OnCard(o)' = OnCard(o), want'[o] = want[o],
         db.obs[o] # "absent" => db'.obs[o] \in {db.obs[o], "deleted"}, own \subseteq own'
  PROVE  CardFacts(o)'
<1>1. CardFacts(o) /\ want[o] \in CardOps \cup {NoObs}
  BY ReviewTyped DEF ReviewInv
<1>2. \A r \in OnCard(o) : r \in ReviewRequests /\ Proper(r) /\ r.o = o
  BY ReviewTyped DEF ReviewInv, OnCard
<1>3. want[o] # NoObs /\ Done(o) => Done(o)'
  BY <1>1 DEF CardOps, Done
<1>4. \A r \in OnCard(o) : r.attached /\ r.op = want'[o] /\ (r.answer = "ok" => Done(o)')
  <2> SUFFICES ASSUME NEW r \in OnCard(o)
               PROVE  r.attached /\ r.op = want'[o] /\ (r.answer = "ok" => Done(o)')
    OBVIOUS
  <2>1. r.attached /\ r.op = want[o] /\ (r.answer = "ok" => Done(o))
    BY <1>1 DEF CardFacts
  <2>2. want[o] # NoObs
    BY <1>2, <2>1 DEF ReviewRequests, ReviewOps, CardOps, NoObs
  <2> QED  BY <1>3, <2>1, <2>2
<1> QED  BY <1>1, <1>3, <1>4 DEF CardFacts

\* A new request.
LEMMA Asking ==
  ASSUME ReviewConstants, ReviewInv, NEW op \in ReviewOps, NEW o \in Obs \cup {NoObs},
         op \in CardOps => o \in Obs, op \notin CardOps => o = NoObs,
         op = "confirm" => Confirmable(view.cache)
  PROVE  /\ AskFor(op, o) \in ReviewRequests /\ Proper(AskFor(op, o))
         /\ AskFor(op, o).op = op /\ AskFor(op, o).o = o /\ AskFor(op, o).attached = TRUE
         /\ AskFor(op, o).answer = "none"
<1>1. view.cache \in ShowingRows
  BY ReviewTyped DEF ReviewInv, ViewSet
<1> QED  BY <1>1 DEF AskFor, ReviewRequests, Proper

\* A button that is not a card's.
LEMMA KeepsOther ==
  ASSUME ReviewConstants, ReviewInv, NEW op \in ReviewOps \ CardOps,
         op = "confirm" => Confirmable(view.cache),
         PressButton(net \cup {AskFor(op, NoObs)}), UNCHANGED <<view, want, loose>>
  PROVE  ReviewInv'
<1>1. /\ db \in ShowingRows /\ own \subseteq Obs /\ view \in ViewSet
      /\ net \subseteq ReviewRequests /\ pressed \in 0..MaxPressed
      /\ want \in [Obs -> CardOps \cup {NoObs}] /\ loose \subseteq Obs
      /\ UNCHANGED <<db, own>> /\ pressed' \in 0..MaxPressed
      /\ net' = net \cup {AskFor(op, NoObs)}
  BY ReviewTyped DEF ReviewInv, PressButton, ReviewConstants
<1>2. /\ AskFor(op, NoObs) \in ReviewRequests /\ Proper(AskFor(op, NoObs))
      /\ AskFor(op, NoObs).o = NoObs
  BY Asking
<1>3. ReviewTypeOK'
  BY <1>1, <1>2 DEF ReviewTypeOK, ViewSet
<1>4. \A r \in net' : Proper(r)
  BY <1>1, <1>2 DEF ReviewInv
<1>5. \A o \in Obs : OnCard(o)' = OnCard(o)
  BY <1>1, <1>2 DEF OnCard, ReviewConstants
<1>6. \A o \in Obs \ loose : CardFacts(o)'
  BY <1>1, <1>5, SameCard
<1>7. own' \subseteq Drawn(db')
  BY <1>1 DEF ReviewInv
<1> QED  BY <1>1, <1>3, <1>4, <1>6, <1>7 DEF ReviewInv, Proper, Confirmable, ReadyToConfirm,
            SomeReviewed, NoneSensitivePending

\* What is drawn changes: a card that no request was forgotten of has the same ones.
LEMMA Redrawn ==
  ASSUME NEW v \in ViewSet, NEW requests \in SUBSET ReviewRequests,
         \A r \in requests : Proper(r), NEW gone, NEW ops, Redraw(v, requests, gone, ops)
  PROVE  /\ view' \in ViewSet /\ net' \subseteq ReviewRequests
         /\ \A r \in net' : Proper(r)
         /\ \A o \in Obs \ Forgotten' : OnCard(o)' = {r \in requests : r.o = o}
<1> DEFINE off(r) == IF r.o \in gone \/ r.op \in ops THEN [r EXCEPT !.attached = FALSE] ELSE r
<1>1. view' = [v EXCEPT !.editing = v.editing \ gone] /\ net' = {off(r) : r \in requests}
  BY DEF Redraw
<1>2. view' \in ViewSet
  BY <1>1 DEF ViewSet
<1>3. ASSUME NEW r \in requests
      PROVE  /\ off(r) \in ReviewRequests /\ Proper(off(r)) /\ off(r).o = r.o
             /\ off(r) = r \/ off(r).attached = FALSE
  <2>1. r \in ReviewRequests /\ Proper(r)
    OBVIOUS
  <2> QED  BY <2>1 DEF ReviewRequests, Proper
<1> HIDE DEF off
<1>4. ASSUME NEW o \in Obs \ Forgotten' PROVE OnCard(o)' = {r \in requests : r.o = o}
  <2>1. \A r \in requests : r.o = o => off(r) = r
    BY <1>1, <1>3, <1>4 DEF Forgotten
  <2>2. ASSUME NEW q \in net', q.o = o PROVE q \in requests
    <3>1. PICK r \in requests : q = off(r)
      BY <1>1
    <3> QED  BY <1>3, <2>1, <2>2, <3>1
  <2>3. ASSUME NEW r \in requests, r.o = o PROVE r \in net'
    <3>1. off(r) \in net'
      BY <1>1
    <3> QED  BY <2>1, <2>3, <3>1
  <2>4. OnCard(o)' = {r \in net' : r.o = o}
    BY DEF OnCard
  <2> QED  BY <2>2, <2>3, <2>4
<1> QED  BY <1>1, <1>2, <1>3, <1>4

LEMMA Drawing ==
  ASSUME NEW v \in ViewSet, NEW requests \in SUBSET ReviewRequests,
         \A r \in requests : Proper(r), Draw(v, requests)
  PROVE  /\ view' \in ViewSet /\ net' \subseteq ReviewRequests
         /\ \A r \in net' : Proper(r)
         /\ \A o \in Obs \ Forgotten' : OnCard(o)' = {r \in requests : r.o = o}
<1>1. \E gone, ops : Redraw(v, requests, gone, ops)
  BY DEF Draw
<1> QED  BY <1>1, Redrawn

LEMMA KeepsSwitch ==
  ASSUME ReviewInv, NEW t \in {"report", "observations", "transcript"}, SwitchTab(t)
  PROVE  ReviewInv'
<1> DEFINE v == [view EXCEPT !.tab = t]
<1>1. /\ db \in ShowingRows /\ own \subseteq Obs /\ view \in ViewSet
      /\ net \subseteq ReviewRequests /\ pressed \in 0..MaxPressed
      /\ want \in [Obs -> CardOps \cup {NoObs}] /\ loose \subseteq Obs
      /\ UNCHANGED <<db, own, pressed, want>>
      /\ Redraw(v, net, Obs, {"add", "correct"})
      /\ loose' = loose \cup Forgotten'
  BY ReviewTyped DEF ReviewInv, SwitchTab
<1>2. v \in ViewSet /\ \A r \in net : Proper(r)
  BY <1>1 DEF ViewSet, ReviewInv
<1> HIDE DEF v
<1>3. /\ view' \in ViewSet /\ net' \subseteq ReviewRequests /\ \A r \in net' : Proper(r)
      /\ \A o \in Obs \ Forgotten' : OnCard(o)' = OnCard(o)
  BY <1>1, <1>2, Redrawn DEF OnCard
<1>4. ReviewTypeOK'
  BY <1>1, <1>3 DEF ReviewTypeOK, ViewSet, Forgotten
<1>5. \A o \in Obs \ loose' : CardFacts(o)'
  BY <1>1, <1>3, SameCard
<1>6. own' \subseteq Drawn(db')
  BY <1>1 DEF ReviewInv
<1> QED  BY <1>3, <1>4, <1>5, <1>6 DEF ReviewInv, Proper, Confirmable, ReadyToConfirm,
            SomeReviewed, NoneSensitivePending

LEMMA KeepsEditors ==
  ASSUME ReviewInv, NEW o \in Obs, EditCard(o) \/ CancelEdit(o)
  PROVE  ReviewInv'
<1>1. /\ view \in ViewSet /\ UNCHANGED <<db, own, net, pressed, want, loose>>
      /\ \/ view' = [view EXCEPT !.editing = @ \cup {o}]
         \/ view' = [view EXCEPT !.editing = @ \ {o}]
  BY ReviewTyped DEF ReviewInv, EditCard, CancelEdit
<1>2. view' \in ViewSet
  BY <1>1 DEF ViewSet
<1>3. ReviewTypeOK' /\ own' \subseteq Drawn(db')
  BY <1>1, <1>2 DEF ReviewInv, ReviewTypeOK, ViewSet
<1>4. \A r \in net' : Proper(r)
  BY <1>1 DEF ReviewInv
<1>5. \A x \in Obs \ loose : CardFacts(x)'
  BY <1>1, SameCard DEF OnCard
<1> QED  BY <1>1, <1>3, <1>4, <1>5 DEF ReviewInv, Proper, Confirmable, ReadyToConfirm,
            SomeReviewed, NoneSensitivePending

\* A card's button: the only request of the card, or the card is loose.
LEMMA OneOnCard ==
  ASSUME ReviewConstants, ReviewInv, NEW o \in Obs, NEW op \in CardOps,
         NEW kept, kept = net \/ kept = {r \in net : r.op # "get"},
         PressButton(kept \cup {AskFor(op, o)}), view' \in ViewSet,
         want' = [want EXCEPT ![o] = op],
         loose' = loose \/ loose' = loose \cup {o},
         o \in loose' \/ OnCard(o) = {}
  PROVE  ReviewInv'
<1>1. /\ db \in ShowingRows /\ own \subseteq Obs /\ view \in ViewSet
      /\ net \subseteq ReviewRequests /\ pressed \in 0..MaxPressed
      /\ want \in [Obs -> CardOps \cup {NoObs}] /\ loose \subseteq Obs
      /\ UNCHANGED <<db, own>> /\ pressed' \in 0..MaxPressed
      /\ net' = kept \cup {AskFor(op, o)} /\ kept \subseteq net
  BY ReviewTyped DEF ReviewInv, PressButton, ReviewConstants
<1>2. /\ AskFor(op, o) \in ReviewRequests /\ Proper(AskFor(op, o))
      /\ AskFor(op, o).op = op /\ AskFor(op, o).o = o /\ AskFor(op, o).attached = TRUE
      /\ AskFor(op, o).answer = "none"
  <2>1. op \in ReviewOps /\ op # "confirm"
    BY DEF CardOps, ReviewOps
  <2>2. op \in CardOps /\ o \in Obs \cup {NoObs} /\ o \in Obs
    OBVIOUS
  <2> QED  BY ONLY ReviewConstants, ReviewInv, <2>1, <2>2, Asking
<1>3. /\ want' \in [Obs -> CardOps \cup {NoObs}] /\ want'[o] = op
      /\ \A x \in Obs : x # o => want'[x] = want[x]
  BY <1>1
<1>4. ReviewTypeOK'
  BY <1>1, <1>2, <1>3 DEF ReviewTypeOK, ViewSet
<1>5. (\A r \in net' : Proper(r)) /\ own' \subseteq Drawn(db')
  BY <1>1, <1>2 DEF ReviewInv
<1>6. ASSUME NEW x \in Obs \ loose' PROVE CardFacts(x)'
  <2>1. CASE x # o
    <3>1. OnCard(x)' = {r \in kept : r.o = x}
      BY <1>1, <1>2, <2>1 DEF OnCard
    <3>2. \A r \in net : r.op = "get" => r.o # x
      BY DEF ReviewInv, Proper, ReviewConstants, CardOps
    <3>3. OnCard(x)' = OnCard(x)
      BY <1>1, <3>1, <3>2 DEF OnCard
    <3> QED  BY <1>1, <1>3, <1>6, <2>1, <3>3, SameCard
  <2>2. CASE x = o
    <3>1. OnCard(o) = {}
      BY <1>6, <2>2
    <3>2. OnCard(o)' = {AskFor(op, o)}
      BY <1>1, <1>2, <3>1 DEF OnCard
    <3> QED  BY <1>2, <1>3, <2>2, <3>2 DEF CardFacts
  <2> QED  BY <2>1, <2>2
<1> QED  BY <1>4, <1>5, <1>6 DEF ReviewInv, Proper, Confirmable, ReadyToConfirm, SomeReviewed,
            NoneSensitivePending

LEMMA KeepsReview ==
  ASSUME ReviewConstants, ReviewInv, NEW o \in Obs, NEW s \in {"confirmed", "dismissed"},
         ReviewCard(o, s)
  PROVE  ReviewInv'
<1>1. /\ view \in ViewSet /\ s \in CardOps /\ s \in Status
      /\ PressButton({r \in net : r.op # "get"} \cup {AskFor(s, o)})
      /\ view' = [view EXCEPT !.cache = [view.cache EXCEPT !.obs[o] = s]]
      /\ want' = [want EXCEPT ![o] = s]
      /\ Beside(o, {"edited"}) /\ ~Reviewing(o)
  BY ReviewTyped DEF ReviewInv, ReviewCard, Optimistic, CardOps, Status
<1>2. view' \in ViewSet
  <2>1. view.cache \in ShowingRows
    BY <1>1 DEF ViewSet
  <2>2. [view.cache.obs EXCEPT ![o] = s] \in [Obs -> Status]
    BY <1>1, <2>1 DEF ShowingRows
  <2>3. [view.cache EXCEPT !.obs[o] = s] \in ShowingRows
    BY <2>1, <2>2 DEF ShowingRows
  <2> QED  BY <1>1, <2>3 DEF ViewSet
<1>3. loose' = loose \/ loose' = loose \cup {o}
  BY <1>1 DEF Beside
<1>4. o \in loose' \/ OnCard(o) = {}
  <2> SUFFICES ASSUME o \notin loose', NEW r \in OnCard(o) PROVE FALSE
    OBVIOUS
  <2>1. r \in net /\ r.o = o /\ Proper(r) /\ r.op \in ReviewOps
    BY ReviewTyped DEF ReviewInv, OnCard, ReviewRequests
  <2>2. r.op \in CardOps
    BY <2>1 DEF Proper, ReviewConstants
  <2>3. r.attached
    BY <1>3 DEF ReviewInv, CardFacts
  <2>4. r.op # "edited"
    BY <1>1, <1>3, <2>1 DEF Beside
  <2> QED  BY <1>1, <2>1, <2>2, <2>3, <2>4 DEF Reviewing, UnderWay, CardOps
<1> QED  BY <1>1, <1>2, <1>3, <1>4, OneOnCard

LEMMA KeepsSaveCard ==
  ASSUME ReviewConstants, ReviewInv, NEW o \in Obs, SaveCard(o)
  PROVE  ReviewInv'
<1>1. /\ view' \in ViewSet /\ PressButton(net \cup {AskFor("edited", o)})
      /\ want' = [want EXCEPT ![o] = "edited"] /\ Beside(o, CardOps)
  BY ReviewTyped DEF ReviewInv, SaveCard
<1>2. loose' = loose \/ loose' = loose \cup {o}
  BY <1>1 DEF Beside
<1>3. o \in loose' \/ OnCard(o) = {}
  <2> SUFFICES ASSUME o \notin loose', NEW r \in OnCard(o) PROVE FALSE
    OBVIOUS
  <2>1. r \in net /\ r.o = o /\ Proper(r)
    BY DEF ReviewInv, OnCard
  <2>2. r.op \in CardOps
    BY <2>1 DEF Proper, ReviewConstants
  <2> QED  BY <1>1, <2>1, <2>2 DEF Beside
<1>4. "edited" \in CardOps
  BY DEF CardOps
<1> QED  BY <1>1, <1>2, <1>3, <1>4, OneOnCard

\* What a request does to the rows: a card's only to its own observation, the
\* others to no observation there is, but that reprocessing deletes what the agent
\* did not write.
LEMMA RowsAfter ==
  ASSUME ReviewInv, NEW r \in net, db' \in After(r), own' = own \cup Wrote(r)
  PROVE  /\ db' \in ShowingRows /\ own' \subseteq Drawn(db')
         /\ r.op \in CardOps =>
              /\ r.o \in Drawn(db) => /\ db'.obs[r.o] = r.op
                                      /\ r.op = "edited" => r.o \in own'
              /\ \A o \in Obs : o # r.o => db'.obs[o] = db.obs[o]
         /\ r.op \notin CardOps =>
              \A o \in Obs : db.obs[o] # "absent" => db'.obs[o] \in {db.obs[o], "deleted"}
<1>1. /\ db \in ShowingRows /\ r \in ReviewRequests /\ Proper(r) /\ db.obs \in [Obs -> Status]
      /\ own \subseteq Drawn(db) /\ own' = own \cup Wrote(r)
  BY ReviewTyped DEF ReviewInv, ShowingRows
<1>2. CASE r.op \in CardOps /\ r.o \in Drawn(db)
  <2>1. r.o \in Obs /\ r.op \in Status \ {"absent", "deleted"} /\ r.op # "add"
    BY <1>2 DEF Drawn, CardOps, Status
  <2>2. db' = [db EXCEPT !.obs = [db.obs EXCEPT ![r.o] = r.op]]
    BY <1>2 DEF After, CardOps
  <2>3. [db.obs EXCEPT ![r.o] = r.op] \in [Obs -> Status]
    BY <1>1, <2>1
  <2>4. db' \in ShowingRows /\ db'.obs = [db.obs EXCEPT ![r.o] = r.op]
    BY <1>1, <2>2, <2>3 DEF ShowingRows
  <2>5. own' = IF r.op = "edited" THEN own \cup {r.o} ELSE own
    BY <1>1, <1>2, <2>1 DEF Wrote
  <2>6. /\ db'.obs[r.o] = r.op /\ \A o \in Obs : o # r.o => db'.obs[o] = db.obs[o]
    BY <1>1, <2>1, <2>4
  <2>7. Drawn(db') = Drawn(db)
    BY <1>2, <2>1, <2>6 DEF Drawn
  <2> QED  BY <1>1, <1>2, <2>4, <2>5, <2>6, <2>7
<1>3. CASE r.op = "add"
  <2>1. r.op \notin CardOps
    BY <1>3 DEF CardOps
  <2>2. own' = own \cup {o \in Obs : db'.obs[o] # db.obs[o]}
    BY <1>1, <1>3 DEF Wrote
  <2>3. db' \in {[db EXCEPT !.obs[o] = "edited"] :
                   o \in {x \in Obs \ Sensitive : db.obs[x] = "absent"}} \cup {db}
    BY <1>3, <2>1 DEF After
  <2>4. CASE db' = db
    BY <1>1, <2>1, <2>2, <2>4
  <2>5. CASE db' # db
    <3>1. PICK o \in Obs : /\ db.obs[o] = "absent"
                           /\ db' = [db EXCEPT !.obs = [db.obs EXCEPT ![o] = "edited"]]
      BY <2>3, <2>5
    <3>2. [db.obs EXCEPT ![o] = "edited"] \in [Obs -> Status]
      BY <1>1 DEF Status
    <3>3. db' \in ShowingRows /\ db'.obs = [db.obs EXCEPT ![o] = "edited"]
      BY <1>1, <3>1, <3>2 DEF ShowingRows
    <3>4. db'.obs[o] = "edited" /\ \A x \in Obs : x # o => db'.obs[x] = db.obs[x]
      BY <1>1, <3>3
    <3>5. own' \subseteq own \cup {o}
      BY <2>2, <3>4
    <3>6. own' \subseteq Drawn(db')
      BY <1>1, <3>4, <3>5 DEF Drawn
    <3> QED  BY <2>1, <3>1, <3>3, <3>4, <3>6
  <2> QED  BY <2>4, <2>5
<1>4. CASE r.op = "reprocess" /\ Failed(db) /\ ~db.confirmed
  <2>1. r.op \notin CardOps /\ own' = own
    BY <1>1, <1>4 DEF CardOps, Wrote
  <2>2. db' = Reprocessed
    BY <1>4, <2>1 DEF After
  <2>3. CASE db.processing = "unwritten"
    <3>1. db' = [db EXCEPT !.processing = "generating", !.report = FALSE]
      BY <2>2, <2>3 DEF Reprocessed
    <3>2. db' \in ShowingRows /\ db'.obs = db.obs
      BY <1>1, <3>1 DEF ShowingRows, Processing
    <3> QED  BY <1>1, <2>1, <3>2 DEF Drawn
  <2>4. CASE db.processing # "unwritten"
    <3> DEFINE obs == [o \in Obs |-> IF o \in Drawn(db) \ own THEN "deleted" ELSE db.obs[o]]
    <3>1. db' = [db EXCEPT !.processing = "extracting", !.report = FALSE, !.obs = obs]
      BY <2>2, <2>4 DEF Reprocessed
    <3>2. /\ obs \in [Obs -> Status]
          /\ \A o \in Obs : obs[o] = IF o \in Drawn(db) \ own THEN "deleted" ELSE db.obs[o]
      BY <1>1 DEF Status
    <3> HIDE DEF obs
    <3>3. db' \in ShowingRows /\ db'.obs = obs
      BY <1>1, <3>1, <3>2 DEF ShowingRows, Processing
    <3>4. own' \subseteq Drawn(db')
      BY <1>1, <2>1, <3>2, <3>3 DEF Drawn
    <3> QED  BY <2>1, <3>2, <3>3, <3>4
  <2> QED  BY <2>3, <2>4
<1>5. CASE /\ ~(r.op \in CardOps /\ r.o \in Drawn(db)) /\ r.op # "add"
           /\ ~(r.op = "reprocess" /\ Failed(db) /\ ~db.confirmed)
  <2>1. \/ db' = db
        \/ r.op \notin CardOps /\ db' = [db EXCEPT !.property = TRUE]
        \/ r.op \notin CardOps /\ db' = [db EXCEPT !.confirmed = TRUE]
    BY <1>5 DEF After, CardOps
  <2>2. db' \in ShowingRows /\ db'.obs = db.obs
    BY <1>1, <2>1 DEF ShowingRows
  <2>3. own' = own
    BY <1>1, <1>5 DEF Wrote, CardOps
  <2> QED  BY <1>1, <1>5, <2>2, <2>3 DEF Drawn
<1> QED  BY <1>2, <1>3, <1>4, <1>5

LEMMA KeepsReviewServed ==
  ASSUME ReviewConstants, ReviewInv, NEW r \in net, ServeReview(r)
  PROVE  ReviewInv'
<1> DEFINE found == IF r.op \in {"get", "confirm"} THEN db ELSE NoRows
           a == [r EXCEPT !.answer = ReviewAnswer(r), !.found = found]
<1>1. /\ db \in ShowingRows /\ own \subseteq Obs /\ view \in ViewSet
      /\ net \subseteq ReviewRequests /\ pressed \in 0..MaxPressed
      /\ want \in [Obs -> CardOps \cup {NoObs}] /\ loose \subseteq Obs
      /\ UNCHANGED <<view, pressed, want, loose>> /\ own' = own \cup Wrote(r)
      /\ r.answer = "none" /\ net' = (net \ {r}) \cup {a}
      /\ r \in ReviewRequests /\ Proper(r)
  BY ReviewTyped DEF ReviewInv, ServeReview
<1>2. /\ db' \in ShowingRows /\ own' \subseteq Drawn(db')
      /\ r.op \in CardOps =>
           /\ r.o \in Drawn(db) => /\ db'.obs[r.o] = r.op
                                   /\ r.op = "edited" => r.o \in own'
           /\ \A o \in Obs : o # r.o => db'.obs[o] = db.obs[o]
      /\ r.op \notin CardOps =>
           \A o \in Obs : db.obs[o] # "absent" => db'.obs[o] \in {db.obs[o], "deleted"}
  BY RowsAfter DEF ServeReview
<1>3. /\ ReviewAnswer(r) \in {"ok", "invalid", "refused"}
      /\ r.op = "confirm" /\ ReviewAnswer(r) # "ok" => ~Confirmable(db)
      /\ ReviewAnswer(r) = "ok" /\ r.op \in CardOps => r.o \in Drawn(db)
  BY DEF ReviewAnswer, Confirmable, ReadyToConfirm, Accepts, CardOps
<1>4. /\ a \in ReviewRequests /\ a.op = r.op /\ a.o = r.o /\ a.attached = r.attached
      /\ a.before = r.before /\ a.answer = ReviewAnswer(r) /\ a.found = found
  <2>1. found \in ShowingRows \cup {NoRows}
    BY <1>1
  <2> HIDE DEF found
  <2> QED  BY <1>1, <1>3, <2>1 DEF ReviewRequests
<1> HIDE DEF a
<1>5. Proper(a)
  BY <1>1, <1>3, <1>4 DEF Proper
<1> HIDE DEF found
<1>6. ReviewTypeOK'
  BY <1>1, <1>2, <1>4 DEF ReviewTypeOK, ViewSet, Drawn
<1>7. \A q \in net' : Proper(q)
  BY <1>1, <1>5 DEF ReviewInv
<1>8. ASSUME NEW o \in Obs \ loose' PROVE CardFacts(o)'
  <2>1. CASE r.o # o
    <3>1. OnCard(o)' = OnCard(o)
      BY <1>1, <1>4, <2>1 DEF OnCard
    <3>2. db.obs[o] # "absent" => db'.obs[o] \in {db.obs[o], "deleted"}
      BY <1>2, <2>1
    <3> QED  BY <1>1, <1>8, <3>1, <3>2, SameCard
  <2>2. CASE r.o = o
    <3>1. r.op \in CardOps
      BY <1>1, <2>2 DEF Proper, ReviewConstants
    <3>2. CardFacts(o) /\ r \in OnCard(o)
      BY <1>1, <1>8, <2>2 DEF ReviewInv, OnCard
    <3>3. OnCard(o)' = {a}
      BY <1>1, <1>4, <2>2, <3>2 DEF CardFacts, OnCard
    <3>4. r.attached /\ r.op = want'[o]
      BY <1>1, <3>2 DEF CardFacts
    <3>5. a.answer = "ok" => Done(o)'
      BY <1>2, <1>3, <1>4, <2>2, <3>1, <3>4 DEF Done
    <3> QED  BY <1>4, <3>3, <3>4, <3>5 DEF CardFacts
  <2> QED  BY <2>1, <2>2
<1> QED  BY <1>2, <1>6, <1>7, <1>8 DEF ReviewInv, Proper, Confirmable, ReadyToConfirm,
            SomeReviewed, NoneSensitivePending

\* A request that leaves, with or without the page asking again.
LEMMA Leaves ==
  ASSUME ReviewConstants, ReviewInv, NEW r \in net, NEW v \in ViewSet, NEW requests,
         \/ requests = net \ {r}
         \/ requests = {q \in net \ {r} : q.op # "get"} \cup {AskFor("get", NoObs)},
         Draw(v, requests), UNCHANGED <<db, own, pressed, want>>,
         loose \cup Forgotten' \subseteq loose', loose' \subseteq Obs,
         r.answer = "ok" \/ r.o = NoObs \/ r.o \in loose'
  PROVE  ReviewInv'
<1>1. /\ db \in ShowingRows /\ own \subseteq Obs /\ view \in ViewSet
      /\ net \subseteq ReviewRequests /\ pressed \in 0..MaxPressed
      /\ want \in [Obs -> CardOps \cup {NoObs}] /\ loose \subseteq Obs
  BY ReviewTyped DEF ReviewInv
<1>2. /\ AskFor("get", NoObs) \in ReviewRequests /\ Proper(AskFor("get", NoObs))
      /\ AskFor("get", NoObs).o = NoObs
  BY Asking, ZenonT(30) DEF ReviewOps, CardOps
<1>3. requests \in SUBSET ReviewRequests /\ \A q \in requests : Proper(q)
  BY <1>1, <1>2 DEF ReviewInv
<1>4. /\ view' \in ViewSet /\ net' \subseteq ReviewRequests /\ \A q \in net' : Proper(q)
      /\ \A o \in Obs \ Forgotten' : OnCard(o)' = {q \in requests : q.o = o}
  BY <1>3, Drawing
<1>5. ReviewTypeOK' /\ own' \subseteq Drawn(db')
  BY <1>1, <1>4 DEF ReviewInv, ReviewTypeOK, ViewSet
<1>6. ASSUME NEW o \in Obs \ loose' PROVE CardFacts(o)'
  <2>1. OnCard(o)' = OnCard(o) \ {r}
    <3>1. \A q \in net : q.op = "get" => q.o # o
      BY DEF ReviewInv, Proper, ReviewConstants, CardOps
    <3>2. OnCard(o)' = {q \in requests : q.o = o}
      BY <1>4, <1>6
    <3> QED  BY <1>2, <3>1, <3>2 DEF OnCard, ReviewConstants
  <2>2. CASE r \notin OnCard(o)
    BY <1>6, <2>1, <2>2, SameCard
  <2>3. CASE r \in OnCard(o)
    <3>1. CardFacts(o) /\ r.answer = "ok"
      BY <1>6, <2>3 DEF ReviewInv, OnCard, ReviewConstants
    <3>2. OnCard(o)' = {} /\ Done(o)'
      BY <2>1, <2>3, <3>1 DEF CardFacts, Done
    <3> QED  BY <3>2 DEF CardFacts
  <2> QED  BY <2>2, <2>3
<1> QED  BY <1>4, <1>5, <1>6 DEF ReviewInv, Proper, Confirmable, ReadyToConfirm,
            SomeReviewed, NoneSensitivePending

\* What the page shows after an answer.
LEMMA ShowsAView ==
  ASSUME ReviewInv, NEW r \in net, r.answer = "ok" PROVE Shows(r) \in ViewSet
<1>1. /\ view \in ViewSet /\ r \in ReviewRequests /\ Proper(r)
      /\ view.cache \in ShowingRows
  BY ReviewTyped DEF ReviewInv, ViewSet
<1>2. CASE r.op = "get"
  <2>1. r.found \in ShowingRows
    BY <1>1, <1>2 DEF Proper
  <2>2. Shows(r) = [view EXCEPT !.cache = r.found, !.failed = FALSE]
    BY <1>2 DEF Shows, CardOps
  <2> QED  BY <1>1, <2>1, <2>2 DEF ViewSet
<1>3. CASE r.op \in CardOps
  <2> DEFINE obs == [view.cache.obs EXCEPT ![r.o] =
                       IF r.o \in Drawn(view.cache) THEN r.op ELSE view.cache.obs[r.o]]
             cache == [view.cache EXCEPT !.obs = obs]
             editing == IF r.op = "edited" /\ r.attached THEN view.editing \ {r.o} ELSE view.editing
  <2>1. view.cache.obs \in [Obs -> Status] /\ r.o \in Obs /\ r.op \in Status
    BY <1>1, <1>3 DEF ShowingRows, Proper, CardOps, Status
  <2>2. obs \in [Obs -> Status]
    BY <2>1
  <2>3. Shows(r) = [view EXCEPT !.cache = cache, !.editing = editing]
    BY <1>3 DEF Shows, CardOps
  <2>4. editing \in SUBSET Obs
    BY <1>1 DEF ViewSet
  <2> HIDE DEF obs
  <2>5. cache \in ShowingRows
    BY <1>1, <2>2 DEF ShowingRows
  <2> HIDE DEF cache, editing
  <2> QED  BY <1>1, <2>3, <2>4, <2>5 DEF ViewSet
<1>4. CASE r.op = "attach"
  <2>1. [view.cache EXCEPT !.property = TRUE] \in ShowingRows
    BY <1>1 DEF ShowingRows
  <2>2. Shows(r) = [view EXCEPT !.cache = [view.cache EXCEPT !.property = TRUE],
                                !.confirmError = FALSE]
    BY <1>4 DEF Shows, CardOps
  <2> QED  BY <1>1, <2>1, <2>2 DEF ViewSet
<1>5. CASE r.op \notin CardOps \cup {"get", "attach"}
  <2>1. Shows(r) = view \/ Shows(r) = [view EXCEPT !.confirmError = FALSE]
    BY <1>5 DEF Shows
  <2> QED  BY <1>1, <2>1 DEF ViewSet
<1> QED  BY <1>2, <1>3, <1>4, <1>5

LEMMA KeepsSucceeds ==
  ASSUME ReviewConstants, ReviewInv, NEW r \in net, Succeeds(r)
  PROVE  ReviewInv'
<1> DEFINE requests == IF r.op \in Invalidates
                       THEN {q \in net \ {r} : q.op # "get"} \cup {AskFor("get", NoObs)}
                       ELSE net \ {r}
<1>1. /\ r.answer = "ok" /\ Draw(Shows(r), requests) /\ UNCHANGED <<db, own, pressed, want>>
      /\ loose' = loose \cup Forgotten'
  BY DEF Succeeds
<1>2. Shows(r) \in ViewSet
  BY <1>1, ShowsAView
<1>3. loose' \subseteq Obs
  BY <1>1, ReviewTyped DEF ReviewInv, Forgotten
<1>4. \/ requests = net \ {r}
      \/ requests = {q \in net \ {r} : q.op # "get"} \cup {AskFor("get", NoObs)}
  OBVIOUS
<1> HIDE DEF requests
<1> QED  BY <1>1, <1>2, <1>3, <1>4, Leaves

LEMMA KeepsFails ==
  ASSUME ReviewConstants, ReviewInv, NEW r \in net, Fails(r)
  PROVE  ReviewInv'
<1> DEFINE v == IF r.op \in {"confirmed", "dismissed"}
                THEN [view EXCEPT !.cache = r.before]
                ELSE [view EXCEPT !.failed = view.failed \/ r.op = "get",
                                  !.confirmError = view.confirmError \/ r.answer = "invalid"]
<1>1. /\ view \in ViewSet /\ r \in ReviewRequests /\ Proper(r)
      /\ UNCHANGED <<db, own, pressed, want>> /\ Draw(v, net \ {r})
      /\ loose \subseteq Obs
      /\ loose' = loose \cup Forgotten' \cup ({r.o} \ {NoObs})
  BY ReviewTyped DEF ReviewInv, Fails
<1>2. v \in ViewSet
  <2>1. CASE r.op \in {"confirmed", "dismissed"}
    <3>1. r.before \in ShowingRows /\ v = [view EXCEPT !.cache = r.before]
      BY <1>1, <2>1 DEF Proper
    <3> HIDE DEF v
    <3> QED  BY <1>1, <3>1 DEF ViewSet
  <2>2. CASE r.op \notin {"confirmed", "dismissed"}
    <3> DEFINE failed == view.failed \/ r.op = "get"
               confirmError == view.confirmError \/ r.answer = "invalid"
    <3>1. v = [view EXCEPT !.failed = failed, !.confirmError = confirmError]
      BY <2>2
    <3>2. failed \in BOOLEAN /\ confirmError \in BOOLEAN
      <4>1. view.failed \in BOOLEAN /\ view.confirmError \in BOOLEAN
        BY <1>1 DEF ViewSet
      <4> QED  BY <4>1
    <3> HIDE DEF failed, confirmError, v
    <3> QED  BY <1>1, <3>1, <3>2 DEF ViewSet
  <2> QED  BY <2>1, <2>2
<1> HIDE DEF v
<1>3. /\ loose \cup Forgotten' \subseteq loose' /\ loose' \subseteq Obs
      /\ r.o = NoObs \/ r.o \in loose'
  BY <1>1 DEF ReviewRequests, Forgotten
<1> QED  BY <1>1, <1>2, <1>3, Leaves

\* A step of the processing: observations are added, none is changed or deleted.
LEMMA KeepsRuns ==
  ASSUME ReviewInv, ExtractObservations \/ WriteReport \/ RunFails \/ FinishAgain
  PROVE  ReviewInv'
<1>1. db \in ShowingRows /\ own \subseteq Drawn(db)
  BY ReviewTyped DEF ReviewInv
<1>2. /\ db' \in ShowingRows /\ UNCHANGED <<own, view, net, pressed, want, loose>>
      /\ \A o \in Obs : db.obs[o] # "absent" => db'.obs[o] = db.obs[o]
  <2>1. CASE ExtractObservations
    <3>1. PICK new \in SUBSET {o \in Obs : db.obs[o] = "absent"} :
            /\ db' = [db EXCEPT !.processing = "generating",
                        !.obs = [o \in Obs |-> IF o \in new THEN "pending" ELSE db.obs[o]]]
            /\ UNCHANGED <<own, view, net, pressed, want, loose>>
      BY <2>1 DEF ExtractObservations, Process
    <3> DEFINE obs == [o \in Obs |-> IF o \in new THEN "pending" ELSE db.obs[o]]
    <3>2. db.obs \in [Obs -> Status]
      BY <1>1 DEF ShowingRows
    <3>3. obs \in [Obs -> Status] /\ \A o \in Obs : db.obs[o] # "absent" => obs[o] = db.obs[o]
      BY <3>2 DEF Status
    <3>4. db' = [db EXCEPT !.processing = "generating", !.obs = obs]
      BY <3>1
    <3> HIDE DEF obs
    <3> QED  BY <1>1, <3>1, <3>3, <3>4 DEF ShowingRows, Processing
  <2>2. CASE WriteReport
    BY <1>1, <2>2 DEF WriteReport, Process, ShowingRows, Processing
  <2>3. CASE RunFails
    BY <1>1, <2>3 DEF RunFails, Process, ShowingRows, Processing
  <2>4. CASE FinishAgain
    BY <1>1, <2>4 DEF FinishAgain, Process, ShowingRows, Processing
  <2> QED  BY <2>1, <2>2, <2>3, <2>4
<1>3. ReviewTypeOK'
  BY <1>2 DEF ReviewInv, ReviewTypeOK
<1>4. own' \subseteq Drawn(db')
  BY <1>1, <1>2 DEF Drawn
<1>5. \A r \in net' : Proper(r)
  BY <1>2 DEF ReviewInv
<1>6. \A o \in Obs \ loose' : CardFacts(o)'
  BY <1>2, SameCard DEF OnCard
<1> QED  BY <1>3, <1>4, <1>5, <1>6 DEF ReviewInv, Proper, Confirmable, ReadyToConfirm,
            SomeReviewed, NoneSensitivePending

LEMMA KeepsWorkspace ==
  ASSUME ReviewConstants, ReviewInv, [ReviewNext]_reviewVars
  PROVE  ReviewInv'
<1>1. CASE UNCHANGED reviewVars
  <2>1. UNCHANGED <<db, own, view, net, pressed, want, loose>>
    BY <1>1 DEF reviewVars
  <2>2. ReviewTypeOK' /\ own' \subseteq Drawn(db') /\ \A r \in net' : Proper(r)
    BY <2>1 DEF ReviewInv, ReviewTypeOK
  <2>3. \A o \in Obs \ loose' : CardFacts(o)'
    BY <2>1, SameCard DEF OnCard
  <2> QED  BY <2>2, <2>3 DEF ReviewInv, Proper, Confirmable, ReadyToConfirm, SomeReviewed,
              NoneSensitivePending
<1>2. CASE \/ FetchShowing \/ AddObservation \/ CorrectTranscript \/ AttachProperty
           \/ ReprocessShowing \/ ConfirmReport
  <2>1. PICK op \in {"get", "add", "correct", "attach", "reprocess", "confirm"} :
          /\ op = "confirm" => Confirmable(view.cache)
          /\ PressButton(net \cup {AskFor(op, NoObs)}) /\ UNCHANGED <<view, want, loose>>
    BY <1>2 DEF FetchShowing, AddObservation, CorrectTranscript, AttachProperty,
                ReprocessShowing, ConfirmReport, PressOther, Confirmable
  <2>2. op \in ReviewOps \ CardOps
    BY <2>1 DEF ReviewOps, CardOps
  <2> QED  BY <2>1, <2>2, KeepsOther
<1>3. CASE \E t \in {"report", "observations", "transcript"} : SwitchTab(t)
  BY <1>3, KeepsSwitch
<1>4. CASE \E o \in Obs : EditCard(o) \/ CancelEdit(o)
  BY <1>4, KeepsEditors
<1>5. CASE \E o \in Obs : SaveCard(o) \/ \E s \in {"confirmed", "dismissed"} : ReviewCard(o, s)
  BY <1>5, KeepsSaveCard, KeepsReview
<1>6. CASE \E r \in net : ServeReview(r) \/ Succeeds(r) \/ Fails(r)
  BY <1>6, KeepsReviewServed, KeepsSucceeds, KeepsFails
<1>7. CASE ExtractObservations \/ WriteReport \/ RunFails \/ FinishAgain
  BY <1>7, KeepsRuns
<1> QED  BY <1>1, <1>2, <1>3, <1>4, <1>5, <1>6, <1>7 DEF ReviewNext

\* The invariant of the review: a card's only request is what its last button asks for.
THEOREM ReviewInvariance == ReviewConstants => (ReviewSpec => []ReviewInv)
<1> SUFFICES ASSUME ReviewConstants PROVE ReviewSpec => []ReviewInv
  OBVIOUS
<1>1. ReviewInit => ReviewInv
  BY ReviewBegins
<1>2. ReviewInv /\ [ReviewNext]_reviewVars => ReviewInv'
  BY KeepsWorkspace
<1> QED  BY <1>1, <1>2, PTL DEF ReviewSpec

\* For any number of observations, requests (lost or not) and runs of the processing:
\* once a card's requests are answered the server keeps what its last button asked for,
\* unless they overtook each other in a way the property names, or reprocessing deleted
\* what the agent did not write.
THEOREM LastButtonWins == ReviewConstants => (ReviewSpec => []LastReviewWins)
<1> SUFFICES ASSUME ReviewConstants PROVE ReviewSpec => []LastReviewWins
  OBVIOUS
<1>1. ReviewInv => LastReviewWins
  BY DEF ReviewInv, LastReviewWins, CardFacts, OnCard, Done, Drawn
<1>2. ReviewSpec => []ReviewInv
  BY ReviewInvariance
<1> QED  BY <1>1, <1>2, PTL

\* For any of them: a confirmation that the page offered is refused only when the rows
\* changed after the page read them.
THEOREM OfferedIsAccepted == ReviewConstants => (ReviewSpec => []RefusedOnlyWhenStale)
<1> SUFFICES ASSUME ReviewConstants PROVE ReviewSpec => []RefusedOnlyWhenStale
  OBVIOUS
<1>1. ReviewInv => RefusedOnlyWhenStale
  BY DEF ReviewInv, Proper, RefusedOnlyWhenStale
<1>2. ReviewSpec => []ReviewInv
  BY ReviewInvariance
<1> QED  BY <1>1, <1>2, PTL

-----------------------------------------------------------------------------
(* WebSession                                                              *)

\* A call that is still to be sent, for the first or for the second time, has had
\* no effect, and was refused if it was sent.
Unsettled ==
  \A c \in Calls :
    /\ call[c].step \in {"idle", "forward", "refresh", "again"} => call[c].effects = 0
    /\ call[c].step = "refresh" => call[c].result = "refused"
    /\ call[c].step = "answer" =>
         /\ call[c].effects \in {0, 1}
         /\ call[c].result = "ok" => call[c].effects = 1
         /\ call[c].result = "refused" => call[c].effects = 0

WebInv == WebTypeOK /\ CookiesAreOfTheLastSignIn /\ Unsettled

SessionOK == session \in [opened : 0..MaxSignIns, live : SUBSET SignIns]
AuthOK == auth \in [step : {"idle", "login", "opened", "logout", "closed"},
                    session : {None} \cup SignIns]
CallSet == [step : {"idle", "forward", "refresh", "again", "answer"},
            jar : Cookies, cookies : {"keep", "set", "clear"},
            result : Results, effects : Nat]

LEMMA NoCallOK == NoCall \in CallSet
BY DEF NoCall, CallSet, Results, NoCookies, Cookies

LEMMA WebBegins == ASSUME MaxSignIns \in Nat, WebInit PROVE WebInv
<1> USE DEF WebInit, None, Cookies, NoCookies
<1>1. WebTypeOK
  <2>1. jar \in Cookies /\ SessionOK /\ AuthOK
    BY DEF SessionOK, AuthOK, NoAuth
  <2>2. call \in [Calls -> CallSet]
    BY NoCallOK
  <2> QED  BY <2>1, <2>2 DEF WebTypeOK, SessionOK, AuthOK, CallSet
<1>2. CookiesAreOfTheLastSignIn
  BY DEF CookiesAreOfTheLastSignIn
<1>3. Unsettled
  BY DEF Unsettled, NoCall
<1> QED  BY <1>1, <1>2, <1>3 DEF WebInv

\* What an action does to the call it is about is all it does to the calls.
LEMMA OneCall ==
  ASSUME call \in [Calls -> CallSet], Unsettled, NEW c \in Calls, NEW k \in CallSet,
         call' = [call EXCEPT ![c] = k],
         k.step \in {"idle", "forward", "refresh", "again"} => k.effects = 0,
         k.step = "refresh" => k.result = "refused",
         k.step = "answer" => /\ k.effects \in {0, 1}
                              /\ k.result = "ok" => k.effects = 1
                              /\ k.result = "refused" => k.effects = 0
  PROVE  call' \in [Calls -> CallSet] /\ Unsettled'
<1>1. call' \in [Calls -> CallSet]
  OBVIOUS
<1>2. \A d \in Calls : call'[d] = IF d = c THEN k ELSE call[d]
  OBVIOUS
<1>3. Unsettled'
  BY <1>2 DEF Unsettled
<1> QED  BY <1>1, <1>3

LEMMA AskStep ==
  ASSUME WebInv, NEW c \in Calls, AskBackend(c) PROVE WebInv'
<1> USE DEF WebInv, AskBackend
<1>1. PICK n : n = NoCall
  OBVIOUS
<1>2. n \in CallSet /\ n.effects = 0
  BY <1>1, NoCallOK DEF NoCall
<1> DEFINE k == [n EXCEPT !.step = "forward", !.jar = jar]
<1>3. k \in CallSet /\ k.step = "forward" /\ k.effects = 0
  BY <1>2 DEF CallSet, WebTypeOK
<1>4. call' = [call EXCEPT ![c] = k]
  BY <1>1
<1> HIDE DEF k
<1>5. call' \in [Calls -> CallSet] /\ Unsettled'
  BY <1>3, <1>4, OneCall, ZenonT(30) DEF WebTypeOK, CallSet
<1>6. WebTypeOK'
  BY <1>5 DEF WebTypeOK, CallSet
<1>7. CookiesAreOfTheLastSignIn'
  BY DEF CookiesAreOfTheLastSignIn
<1> QED  BY <1>5, <1>6, <1>7

\* What the backend's answer makes of a call that had no effect before.
LEMMA ForwardedCall ==
  ASSUME NEW f \in CallSet, f.effects = 0, NEW result \in Results, NEW effect \in {0, 1},
         NEW step \in {"refresh", "answer"}
  PROVE  \E k \in CallSet : /\ k = [Forwarded(f, result, effect) EXCEPT !.step = step]
                            /\ k.result = result /\ k.effects = effect /\ k.step = step
<1>1. PICK g : g = Forwarded(f, result, effect)
  OBVIOUS
<1>2. /\ g.step = f.step /\ g.jar = f.jar /\ g.cookies = f.cookies
      /\ g.result = result /\ g.effects = effect
  BY <1>1 DEF CallSet, Forwarded
<1>3. g = [step |-> g.step, jar |-> g.jar, cookies |-> g.cookies,
           result |-> g.result, effects |-> g.effects]
  BY <1>1 DEF CallSet, Forwarded
<1>4. g \in CallSet
  BY <1>2, <1>3 DEF CallSet
<1>5. PICK k : k = [g EXCEPT !.step = step]
  OBVIOUS
<1>6. k \in CallSet
  BY <1>4, <1>5 DEF CallSet
<1>7. k.step = step /\ k.result = result /\ k.effects = effect
  BY <1>2, <1>4, <1>5 DEF CallSet
<1> QED  BY <1>1, <1>5, <1>6, <1>7

LEMMA ForwardStep ==
  ASSUME WebInv, NEW c \in Calls, Forward(c) PROVE WebInv'
<1> USE DEF WebInv, Forward
<1> DEFINE step(result) == IF /\ call[c].step = "forward" /\ call[c].jar.refresh # None
                              /\ TriesAgain(result)
                           THEN "refresh" ELSE "answer"
<1>1. PICK result \in {"ok", "refused", "unavailable"}, effect \in {0, 1} :
        /\ result = "ok" => effect = 1
        /\ result = "refused" => effect = 0
        /\ call' = [call EXCEPT ![c] =
             [Forwarded(call[c], result, effect) EXCEPT !.step = step(result)]]
  OBVIOUS
<1>2. call[c] \in CallSet /\ call[c].effects = 0
  BY <1>1 DEF WebTypeOK, CallSet, Unsettled
<1>3. PICK t : t = step(result)
  OBVIOUS
<1>4. t \in {"refresh", "answer"} /\ (t = "refresh" => result = "refused")
  BY <1>3 DEF TriesAgain
<1>5. PICK f : f = call[c]
  OBVIOUS
<1>6. result \in Results
  BY DEF Results
<1>7. PICK k \in CallSet :
        /\ k = [Forwarded(f, result, effect) EXCEPT !.step = t]
        /\ k.result = result /\ k.effects = effect /\ k.step = t
  BY <1>2, <1>4, <1>5, <1>6, ForwardedCall, SMTT(20)
<1>8. call' = [call EXCEPT ![c] = k]
  BY <1>1, <1>3, <1>5, <1>7
<1>9. /\ k.step \in {"refresh", "answer"} /\ (k.step = "refresh" => k.result = "refused")
      /\ k.effects \in {0, 1} /\ (k.result = "ok" => k.effects = 1)
      /\ k.result = "refused" => k.effects = 0
  BY <1>1, <1>4, <1>7
<1>10. call \in [Calls -> CallSet]
  BY DEF WebTypeOK, CallSet
<1>11. k.step = "refresh" => k.effects = 0
  BY <1>9
<1>12. call' \in [Calls -> CallSet] /\ Unsettled'
  <2> HIDE DEF WebInv, Forward
  <2>1. Unsettled
    BY DEF WebInv
  <2> QED  BY <1>8, <1>9, <1>10, <1>11, <2>1, OneCall
<1>13. WebTypeOK'
  BY <1>12 DEF WebTypeOK, CallSet
<1>14. CookiesAreOfTheLastSignIn'
  BY DEF CookiesAreOfTheLastSignIn
<1> QED  BY <1>12, <1>13, <1>14

LEMMA RefreshStep ==
  ASSUME WebInv, NEW c \in Calls, Refresh(c) PROVE WebInv'
<1> USE DEF WebInv
<1>1. PICK f : f = call[c]
  OBVIOUS
<1>2. f \in CallSet /\ f.effects = 0 /\ f.result = "refused"
  BY <1>1 DEF WebTypeOK, CallSet, Unsettled, Refresh
<1> DEFINE again == [f EXCEPT !.step = "again", !.cookies = "set", !.jar.access = f.jar.refresh]
           clear == [f EXCEPT !.step = "answer", !.cookies = "clear"]
           away == [f EXCEPT !.step = "answer", !.result = "unavailable"]
<1>3. again \in CallSet /\ again.effects = 0 /\ again.step = "again"
  BY <1>2 DEF CallSet, Cookies
<1>4. clear \in CallSet /\ clear.effects = 0 /\ clear.step = "answer" /\ clear.result = "refused"
  BY <1>2 DEF CallSet
<1>5. away \in CallSet /\ away.effects = 0 /\ away.step = "answer" /\ away.result = "unavailable"
  BY <1>2 DEF CallSet, Results
<1>6. \/ call' = [call EXCEPT ![c] = again]
      \/ call' = [call EXCEPT ![c] = clear]
      \/ call' = [call EXCEPT ![c] = away]
  <2>1. /\ c \in DOMAIN call
        /\ call \in [Calls -> CallSet]
    BY DEF WebTypeOK, CallSet
  <2>2. \/ call' = [call EXCEPT ![c].step = "again", ![c].cookies = "set",
                                ![c].jar.access = call[c].jar.refresh]
        \/ call' = [call EXCEPT ![c].step = "answer", ![c].cookies = "clear"]
        \/ call' = [call EXCEPT ![c].step = "answer", ![c].result = "unavailable"]
    BY DEF Refresh
  <2> QED  BY <1>1, <2>1, <2>2
<1> HIDE DEF again, clear, away
<1>7. call' \in [Calls -> CallSet] /\ Unsettled'
  BY <1>3, <1>4, <1>5, <1>6, OneCall DEF WebTypeOK, CallSet
<1>8. WebTypeOK'
  BY <1>7 DEF WebTypeOK, CallSet, Refresh
<1>9. CookiesAreOfTheLastSignIn'
  BY DEF CookiesAreOfTheLastSignIn, Refresh
<1> QED  BY <1>7, <1>8, <1>9
LEMMA AnsweredStep ==
  ASSUME WebInv, NEW c \in Calls, CallAnswered(c) PROVE WebInv'
<1> USE DEF WebInv, CallAnswered
<1>1. NoCall \in CallSet
  BY NoCallOK
<1>2. call' \in [Calls -> CallSet] /\ Unsettled'
  BY <1>1, OneCall DEF WebTypeOK, CallSet, NoCall
<1>3. call[c] \in CallSet
  BY DEF WebTypeOK, CallSet
<1>4. CASE UNCHANGED <<jar, overtaken>>
  <2>1. WebTypeOK'
    BY <1>2, <1>4 DEF WebTypeOK, CallSet
  <2>2. CookiesAreOfTheLastSignIn'
    BY <1>4 DEF CookiesAreOfTheLastSignIn
  <2> QED  BY <1>2, <2>1, <2>2
<1>5. CASE ~ UNCHANGED <<jar, overtaken>>
  <2> DEFINE s == call[c].jar.refresh
  <2>1. s \in {None} \cup SignIns /\ call[c].cookies \in {"keep", "set", "clear"}
    BY <1>3 DEF CallSet, Cookies
  <2>2. /\ call[c].cookies = "keep" => jar' = jar
        /\ call[c].cookies = "set" => jar' = [access |-> s, refresh |-> s]
        /\ call[c].cookies = "clear" => jar' = NoCookies
        /\ overtaken' = (overtaken \/ (call[c].cookies # "keep" /\ s # signed))
    BY <1>5, <2>1
  <2>3. jar' \in Cookies
    BY <2>1, <2>2 DEF WebTypeOK, Cookies, NoCookies
  <2>4. WebTypeOK'
    BY <1>2, <2>2, <2>3 DEF WebTypeOK, CallSet
  <2>5. CookiesAreOfTheLastSignIn'
    <3> SUFFICES ASSUME ~overtaken' PROVE {jar'.access, jar'.refresh} \subseteq {signed, None}
      BY DEF CookiesAreOfTheLastSignIn
    <3>1. ~overtaken /\ (call[c].cookies # "keep" => s = signed)
      BY <2>2
    <3>2. {jar.access, jar.refresh} \subseteq {signed, None}
      BY <3>1 DEF CookiesAreOfTheLastSignIn
    <3> HIDE DEF s
    <3>3. CASE call[c].cookies = "keep"
      BY <2>2, <3>2, <3>3
    <3>4. CASE call[c].cookies = "set"
      BY <2>2, <3>1, <3>4
    <3>5. CASE call[c].cookies = "clear"
      BY <2>2, <3>5 DEF NoCookies
    <3> QED  BY <2>1, <3>3, <3>4, <3>5
  <2> QED  BY <1>2, <2>4, <2>5
<1> QED  BY <1>4, <1>5

\* The actions of the sign-in form, the shell and the clock leave the calls alone.
LEMMA OtherSteps ==
  ASSUME MaxSignIns \in Nat, WebInv,
         \/ SubmitAuth \/ ServeLogin \/ SignedIn \/ PressLogout \/ ServeLogout \/ LogoutAnswered
         \/ AuthFails \/ TokenExpires \/ SessionRevoked
  PROVE  WebInv'
<1> USE DEF WebInv
<1>1. call' = call
  BY DEF SubmitAuth, ServeLogin, SignedIn, PressLogout, ServeLogout, LogoutAnswered, AuthFails,
         TokenExpires, SessionRevoked
<1>2. call' \in [Calls -> CallSet] /\ Unsettled'
  BY <1>1 DEF WebTypeOK, CallSet, Unsettled
<1>3. SessionOK /\ AuthOK /\ jar \in Cookies
  BY DEF WebTypeOK, SessionOK, AuthOK
<1>4. SessionOK'
  BY <1>3 DEF SubmitAuth, ServeLogin, SignedIn, PressLogout, ServeLogout, LogoutAnswered, AuthFails,
              TokenExpires, SessionRevoked, SessionOK, SignIns
<1>5. AuthOK'
  <2>1. CASE ServeLogin
    BY <1>3, <2>1 DEF ServeLogin, AuthOK, SessionOK, SignIns, None
  <2>2. CASE PressLogout
    BY <1>3, <2>2 DEF PressLogout, AuthOK, Cookies
  <2>3. CASE ServeLogout
    BY <1>3, <2>3 DEF ServeLogout, AuthOK
  <2> QED
    BY <1>3, <2>1, <2>2, <2>3 DEF SubmitAuth, SignedIn, LogoutAnswered, AuthFails, TokenExpires,
                                  SessionRevoked, AuthOK, NoAuth
<1>6. jar' \in Cookies
  BY <1>3 DEF SubmitAuth, ServeLogin, SignedIn, PressLogout, ServeLogout, LogoutAnswered, AuthFails,
              TokenExpires, SessionRevoked, AuthOK, Cookies, NoCookies
<1>7. signed' \in {None} \cup SignIns
  BY <1>3 DEF SubmitAuth, ServeLogin, SignedIn, PressLogout, ServeLogout, LogoutAnswered, AuthFails,
              TokenExpires, SessionRevoked, AuthOK, WebTypeOK
<1>8. overtaken' \in BOOLEAN
  BY DEF SubmitAuth, ServeLogin, SignedIn, PressLogout, ServeLogout, LogoutAnswered, AuthFails,
         TokenExpires, SessionRevoked, WebTypeOK
<1>9. WebTypeOK'
  BY <1>2, <1>4, <1>5, <1>6, <1>7, <1>8 DEF WebTypeOK, CallSet, SessionOK, AuthOK
<1>10. CookiesAreOfTheLastSignIn'
  <2>1. CASE TokenExpires
    BY <1>3, <2>1 DEF TokenExpires, CookiesAreOfTheLastSignIn, Cookies
  <2>2. CASE SignedIn \/ LogoutAnswered
    BY <2>2 DEF SignedIn, LogoutAnswered, CookiesAreOfTheLastSignIn, NoCookies
  <2> QED
    BY <2>1, <2>2 DEF SubmitAuth, ServeLogin, PressLogout, ServeLogout, AuthFails, SessionRevoked,
                      CookiesAreOfTheLastSignIn
<1> QED  BY <1>2, <1>9, <1>10

LEMMA WebContinues ==
  ASSUME MaxSignIns \in Nat, WebInv, [WebNext]_webVars PROVE WebInv'
<1>1. CASE UNCHANGED webVars
  BY <1>1 DEF webVars, WebInv, WebTypeOK, CookiesAreOfTheLastSignIn, Unsettled
<1>2. CASE \E c \in Calls : AskBackend(c) \/ Forward(c) \/ Refresh(c) \/ CallAnswered(c)
  BY <1>2, AskStep, ForwardStep, RefreshStep, AnsweredStep
<1>3. CASE \/ SubmitAuth \/ ServeLogin \/ SignedIn \/ PressLogout \/ ServeLogout \/ LogoutAnswered
           \/ AuthFails \/ TokenExpires \/ SessionRevoked
  BY <1>3, OtherSteps
<1> QED  BY <1>1, <1>2, <1>3 DEF WebNext

\* The inductive invariant.
THEOREM WebInvariance == MaxSignIns \in Nat => (WebSpec => []WebInv)
<1> SUFFICES ASSUME MaxSignIns \in Nat PROVE WebSpec => []WebInv
  OBVIOUS
<1>1. WebInit => WebInv
  BY WebBegins
<1>2. WebInv /\ [WebNext]_webVars => WebInv'
  BY WebContinues
<1> QED  BY <1>1, <1>2, PTL DEF WebSpec

\* Whatever signs in, signs out, is refreshed and expires while calls of earlier
\* sessions are under way, the browser's cookies are of the last sign-in or gone,
\* unless the proxy answers such a call with cookies of its own (route.ts).
THEOREM CookiesFollowTheSignIn ==
  MaxSignIns \in Nat => (WebSpec => []CookiesAreOfTheLastSignIn)
<1> SUFFICES ASSUME MaxSignIns \in Nat PROVE WebSpec => []CookiesAreOfTheLastSignIn
  OBVIOUS
<1>1. WebInv => CookiesAreOfTheLastSignIn
  BY DEF WebInv
<1> QED  BY <1>1, WebInvariance, PTL

\* The proxy's second attempt (route.ts) never makes a call take effect twice, and
\* what a call is answered with says whether it did.
THEOREM CallsAreNotRepeated ==
  MaxSignIns \in Nat => (WebSpec => []CallsTakeEffectOnce)
<1> SUFFICES ASSUME MaxSignIns \in Nat PROVE WebSpec => []CallsTakeEffectOnce
  OBVIOUS
<1>1. WebInv => CallsTakeEffectOnce
  <2> SUFFICES ASSUME WebInv, NEW c \in Calls
               PROVE  /\ call[c].effects <= 1
                      /\ call[c].step = "answer" =>
                           /\ call[c].result = "ok" => call[c].effects = 1
                           /\ call[c].result = "refused" => call[c].effects = 0
    BY DEF CallsTakeEffectOnce
  <2>1. call[c].step \in {"idle", "forward", "refresh", "again", "answer"}
    BY DEF WebInv, WebTypeOK
  <2> QED  BY <2>1 DEF WebInv, Unsettled
<1> QED  BY <1>1, WebInvariance, PTL

=============================================================================
