---------------------------- MODULE CaptureSync ----------------------------
(***************************************************************************)
(* The phone's durable capture queue and the refreshes that drain it       *)
(* (mobile sync engine, capture database, App).  A refresh runs the engine *)
(* and then copies the server's processing status into the local row.      *)
(* Refreshes overlap: a timer, the foreground and the end of a recording   *)
(* start them, and the recording screen writes to the same rows meanwhile. *)
(*                                                                         *)
(* Every `await` is a step of its own, with one exception: the answer of a *)
(* request and the local write that follows it are one step.  A crash      *)
(* between the two is the same as a lost answer.                           *)
(*                                                                         *)
(* local_showings.generation, which every write of the row increments and  *)
(* writers compare, is modelled by what the comparison tells: `fresh` says *)
(* of a refresh that the row was not written since it read the generation. *)
(***************************************************************************)
EXTENDS CaptureApi

CONSTANT Refreshes  \* refreshes that can be under way at once

VARIABLES
  showing,   \* the row of local_showings
  media,     \* rows of local_media
  tags,      \* rows of voice_tags
  running,   \* SyncEngine.running
  refresh,   \* control state of each refresh
  masked     \* history: TRUE once a refresh hid work that was queued meanwhile

phoneVars == <<showing, media, tags>>
vars == <<apiVars, phoneVars, running, refresh, masked>>

\* sync_state; "local" stands for "syncing" too, no code tells them apart.
Sync == {"local", "failed", "synced", "processing", "ready"}

\* Fault: a showing whose run failed is not looked at again.
OnlyUntried == {"local"}

Pending == {"local", "failed"}  \* pendingShowings

\* state "pending" stands for queued, presigned, uploading and failed, which the
\* engine treats alike; tried says that an attempt failed, so that next_attempt_at
\* may be in the future.
Medium == [state : {"none", "pending", "uploaded", "completed", "rejected"},
           url : {"none", "live", "expired"}, tried : BOOLEAN]
Tag == [state : {"none", "pending", "synced"}, tried : BOOLEAN]

Row == [sync : Sync, remote : BOOLEAN, processing : Processing \cup {"none"}]
Showing == [sync : Sync, remote : BOOLEAN, processing : Processing \cup {"none"},
            finish : BOOLEAN]

\* Where a refresh has come to: the engine, then the App.
Places ==
  {"idle", "online", "claim", "claimed", "create", "media", "presign", "upload",
   "complete", "tags", "review", "closing", "children", "synced",
   "missing_audio", "finish", "failing", "ended", "fetch", "patch"}
Listings == UNION {[S -> Medium] : S \in SUBSET Media}

\* What a refresh remembers: the media rows it has listed and still to handle, the
\* tags alike, whether it has asked for a new URL, and the local row and the remote
\* status it is about to compare.
Refresh ==
  [at : Places, fresh : BOOLEAN, items : Listings, again : BOOLEAN,
   marks : SUBSET Tags, seen : Row, remote : Processing]

NoMedium == [state |-> "none", url |-> "none", tried |-> FALSE]
NoRow == [sync |-> "local", remote |-> FALSE, processing |-> "none"]
NoItems == [m \in {} |-> NoMedium]
Idle == [at |-> "idle", fresh |-> FALSE, items |-> NoItems, again |-> FALSE,
         marks |-> {}, seen |-> NoRow, remote |-> "not_started"]

TypeOK ==
  /\ ApiTypeOK
  /\ showing \in Showing
  /\ media \in [Media -> Medium]
  /\ tags \in [Tags -> Tag]
  /\ running \in BOOLEAN
  /\ refresh \in [Refreshes -> Refresh]
  /\ masked \in BOOLEAN

Init ==
  /\ ApiInit
  /\ showing = [sync |-> "local", remote |-> FALSE, processing |-> "none", finish |-> FALSE]
  /\ media = [m \in Media |-> NoMedium]
  /\ tags = [t \in Tags |-> [state |-> "none", tried |-> FALSE]]
  /\ running = FALSE
  /\ refresh = [r \in Refreshes |-> Idle]
  /\ masked = FALSE

-----------------------------------------------------------------------------
(* Steps of a refresh                                                      *)

At(r, place) == refresh[r].at = place
Go(r, place) == refresh' = [refresh EXCEPT ![r].at = place]

\* What was listed is forgotten when the loop over it is left.
Leave(r, place) ==
  refresh' = [refresh EXCEPT ![r] = [Idle EXCEPT !.at = place, !.fresh = refresh[r].fresh]]
End(r) == refresh' = [refresh EXCEPT ![r] = [Idle EXCEPT !.at = "ended"]]

\* A write of the row makes every generation that was read an old one.
AllStale == refresh' = [q \in Refreshes |-> [refresh[q] EXCEPT !.fresh = FALSE]]
Stale(r, place) ==
  refresh' = [q \in Refreshes |->
    IF q = r THEN [Idle EXCEPT !.at = place] ELSE [refresh[q] EXCEPT !.fresh = FALSE]]

\* Fault: the generation is not compared.
PatchBlindly(r, new, place) == showing' = new /\ Stale(r, place)

\* patchShowing with the generation r has read: it writes and goes on, or it finds
\* a newer row, leaves it alone and gives up.
PatchShowing(r, new, place) ==
  \/ refresh[r].fresh /\ showing' = new /\ Stale(r, place)
  \/ ~refresh[r].fresh /\ UNCHANGED showing /\ End(r)

\* After the engine the App lists the local rows, to compare them with the server's.
ListLocal(r) ==
  refresh' = [refresh EXCEPT ![r] = [Idle EXCEPT !.at = "fetch", !.fresh = TRUE,
    !.seen = [f \in {"sync", "remote", "processing"} |-> showing[f]]]]

\* run: the flag is tested, then the network is asked, then the flag is set.
StartRefresh(r) ==
  /\ At(r, "idle")
  /\ IF running THEN ListLocal(r) ELSE Go(r, "online")
  /\ UNCHANGED <<apiVars, phoneVars, running, masked>>

FindOnline(r) ==
  /\ At(r, "online")
  /\ running' = TRUE
  /\ IF showing.sync \in Pending
     THEN refresh' = [refresh EXCEPT ![r].at = "claim", ![r].fresh = TRUE]
     ELSE End(r)
  /\ UNCHANGED <<apiVars, phoneVars, masked>>

FindOffline(r) ==
  /\ At(r, "online")
  /\ ListLocal(r)
  /\ UNCHANGED <<apiVars, phoneVars, running, masked>>

Claim(r) ==
  /\ At(r, "claim")
  /\ PatchShowing(r, [showing EXCEPT !.sync = "local"], "claimed")
  /\ UNCHANGED <<apiVars, media, tags, running, masked>>

Reread(r) ==
  /\ At(r, "claimed")
  /\ refresh' = [refresh EXCEPT ![r].at = IF showing.remote THEN "media" ELSE "create",
                                ![r].fresh = TRUE]
  /\ UNCHANGED <<apiVars, phoneVars, running, masked>>

CreateRemote(r) ==
  /\ At(r, "create")
  /\ CreateShowing
  /\ PatchShowing(r, [showing EXCEPT !.remote = TRUE], "claimed")
  /\ UNCHANGED <<media, tags, running, masked>>

CreateLost(r) ==
  /\ At(r, "create")
  /\ CreateShowing \/ UNCHANGED apiVars
  /\ Go(r, "failing")
  /\ UNCHANGED <<phoneVars, running, masked>>

\* Fault: a medium whose object was put is not looked at again.
UploadedIsSettled(m) == media[m].state \in {"none", "uploaded", "completed", "rejected"}

Settled(m) == media[m].state \in {"none", "completed", "rejected"}

Items(r) == DOMAIN refresh[r].items

\* syncPendingMedia: pass after pass over the media pending at its start.
ListMedia(r) ==
  /\ At(r, "media") /\ Items(r) = {}
  /\ LET todo == {m \in Media : ~Settled(m)} IN
       refresh' = [refresh EXCEPT ![r].items = [m \in todo |-> media[m]],
                                  ![r].at = IF todo = {} THEN "tags" ELSE @]
  /\ UNCHANGED <<apiVars, phoneVars, running, masked>>

\* One order is as good as another here.
Item(r) == CHOOSE m \in Items(r) : TRUE

\* The row as it was listed decides, whatever another run did to it since.
TakeMedia(r) ==
  /\ At(r, "media") /\ Items(r) # {}
  /\ LET known == refresh[r].items[Item(r)] IN
       Go(r, IF \/ known.url = "none"
                \/ known.state # "uploaded" /\ "expired" \in {known.url, media[Item(r)].url}
             THEN "presign"
             ELSE IF known.state = "uploaded" THEN "complete" ELSE "upload")
  /\ UNCHANGED <<apiVars, phoneVars, running, masked>>

\* The backoff of the next medium is not over.
Defer(r) ==
  /\ At(r, "media") /\ Items(r) # {}
  /\ refresh[r].items[Item(r)].tried
  /\ Leave(r, "failing")
  /\ UNCHANGED <<apiVars, phoneVars, running, masked>>

Now(m, state, url) ==
  media' = [media EXCEPT ![m] = [state |-> state, url |-> url, tried |-> @.tried]]

\* The next item of the pass.
Done(r) ==
  refresh' = [refresh EXCEPT ![r] = [@ EXCEPT !.at = "media", !.again = FALSE,
    !.items = [m \in Items(r) \ {Item(r)} |-> refresh[r].items[m]]]]

Settle(r, m, state) ==
  /\ media' = [media EXCEPT ![m] = [state |-> state, url |-> @.url, tried |-> FALSE]]
  /\ Done(r)

\* Fault: a failed attempt is taken for a refusal.
FailsAsRejected(r, m) == Settle(r, m, "rejected")

\* The medium is to be tried again later, and the showing's run fails.
FailsLater(r, m) ==
  /\ media' = [media EXCEPT ![m] = [state |-> "pending", url |-> @.url, tried |-> TRUE]]
  /\ Leave(r, "failing")

PresignItem(r) ==
  /\ At(r, "presign")
  /\ LET m == Item(r) IN
       \/ PresignMedia(m) /\ Now(m, "pending", "live") /\ Go(r, "upload")
       \/ ~PresignAccepts(m) /\ Settle(r, m, "rejected") /\ UNCHANGED apiVars
  /\ UNCHANGED <<showing, tags, running, masked>>

\* A PUT to an expired URL makes it ask for another one, once.  The URL in hand is
\* taken to be the row's.
UploadItem(r) ==
  /\ At(r, "upload")
  /\ LET m == Item(r) IN
       \/ /\ media[m].url = "live"
          /\ PutObject(m) /\ Now(m, "uploaded", "live") /\ Go(r, "complete")
       \/ /\ media[m].url = "expired" /\ ~refresh[r].again
          /\ Now(m, "pending", "expired")
          /\ refresh' = [refresh EXCEPT ![r].at = "presign", ![r].again = TRUE]
          /\ UNCHANGED apiVars
       \/ /\ media[m].url = "expired" /\ refresh[r].again
          /\ FailsLater(r, m) /\ UNCHANGED apiVars
  /\ UNCHANGED <<showing, tags, running, masked>>

CompleteItem(r) ==
  /\ At(r, "complete")
  /\ LET m == Item(r) IN
       \/ CompleteMedia(m) /\ Settle(r, m, "completed")
       \/ ~CompleteAccepts(m) /\ Settle(r, m, "rejected") /\ UNCHANGED apiVars
  /\ UNCHANGED <<showing, tags, running, masked>>

\* The request or its answer is lost.  Here and below, a request that fails anyway
\* is left to the action of its failure, so that no step counts as both.
ItemLost(r) ==
  /\ refresh[r].at \in {"presign", "upload", "complete"}
  /\ LET m == Item(r) IN
       /\ ~(At(r, "upload") /\ media[m].url = "expired" /\ refresh[r].again)
       /\ \/ At(r, "presign") /\ PresignMedia(m)
          \/ At(r, "upload") /\ PutObject(m)
          \/ At(r, "complete") /\ CompleteMedia(m)
          \/ UNCHANGED apiVars
       /\ FailsLater(r, m)
  /\ UNCHANGED <<showing, tags, running, masked>>

\* syncPendingMarkers
ListTags(r) ==
  /\ At(r, "tags") /\ refresh[r].marks = {}
  /\ LET todo == {t \in Tags : tags[t].state = "pending"} IN
       refresh' = [refresh EXCEPT ![r].marks = todo,
                                  ![r].at = IF todo = {} THEN "review" ELSE @]
  /\ UNCHANGED <<apiVars, phoneVars, running, masked>>

MarkItem(r) ==
  /\ At(r, "tags")
  /\ \E t \in refresh[r].marks :
       /\ CreateMarker(t)
       /\ tags' = [tags EXCEPT ![t] = [state |-> "synced", tried |-> FALSE]]
       /\ refresh' = [refresh EXCEPT ![r].marks = @ \ {t}]
  /\ UNCHANGED <<showing, media, running, masked>>

TagFails(t) == tags' = [tags EXCEPT ![t] = [state |-> "pending", tried |-> TRUE]]

\* A refusal is tried again later, like a lost request.
MarkRefused(r) ==
  /\ At(r, "tags") /\ visit # "draft"
  /\ \E t \in refresh[r].marks : TagFails(t)
  /\ Leave(r, "failing")
  /\ UNCHANGED <<apiVars, showing, media, running, masked>>

MarkLost(r) ==
  /\ At(r, "tags") /\ visit = "draft"
  /\ \E t \in refresh[r].marks :
       /\ CreateMarker(t) \/ UNCHANGED apiVars
       /\ TagFails(t)
  /\ Leave(r, "failing")
  /\ UNCHANGED <<showing, media, running, masked>>

DeferTag(r) ==
  /\ At(r, "tags")
  /\ \E t \in refresh[r].marks : tags[t].tried
  /\ Leave(r, "failing")
  /\ UNCHANGED <<apiVars, phoneVars, running, masked>>

TagsSettled == \A t \in Tags : tags[t].state # "pending"

AllSettled == TagsSettled /\ \A m \in Media : Settled(m)

\* The row is read again after the work on its children.
Review(r) ==
  /\ At(r, "review")
  /\ IF refresh[r].fresh
     THEN Go(r, IF showing.finish THEN "closing" ELSE "children")
     ELSE End(r)
  /\ UNCHANGED <<apiVars, phoneVars, running, masked>>

\* Then its children are.
ReviewChildren(r) ==
  /\ \/ ~AllSettled /\ refresh[r].at \in {"closing", "children"} /\ End(r)
     \/ AllSettled /\ At(r, "children") /\ Go(r, "synced")
     \/ /\ AllSettled /\ At(r, "closing")
        /\ Go(r, IF \E a \in Audio : media[a].state = "completed"
                 THEN "finish" ELSE "missing_audio")
  /\ UNCHANGED <<apiVars, phoneVars, running, masked>>

Synced(r) ==
  /\ \/ At(r, "synced") /\ PatchShowing(r, [showing EXCEPT !.sync = "synced"], "ended")
     \/ At(r, "missing_audio") /\ PatchShowing(r, [showing EXCEPT !.sync = "failed"], "ended")
  /\ UNCHANGED <<apiVars, media, tags, running, masked>>

FinishRemote(r) ==
  /\ At(r, "finish")
  /\ \/ /\ FinishShowing
        /\ PatchShowing(r, [showing EXCEPT !.sync = "processing", !.processing = "queued"],
                        "ended")
     \/ ~FinishAccepts /\ Go(r, "failing") /\ UNCHANGED <<apiVars, showing>>
  /\ UNCHANGED <<media, tags, running, masked>>

FinishLost(r) ==
  /\ At(r, "finish") /\ FinishAccepts
  /\ FinishShowing \/ UNCHANGED apiVars
  /\ Go(r, "failing")
  /\ UNCHANGED <<phoneVars, running, masked>>

\* The catch of syncShowing.
RunFails(r) ==
  /\ At(r, "failing")
  /\ PatchShowing(r, [showing EXCEPT !.sync = "failed"], "ended")
  /\ UNCHANGED <<apiVars, media, tags, running, masked>>

EndRun(r) ==
  /\ At(r, "ended")
  /\ running' = FALSE
  /\ ListLocal(r)
  /\ UNCHANGED <<apiVars, phoneVars, masked>>

-----------------------------------------------------------------------------
(* After the engine: the server's status is copied                         *)

\* The request fails, the showing is not among the answers, or it is.
Fetch(r) ==
  /\ At(r, "fetch")
  /\ \/ refresh' = [refresh EXCEPT ![r] = Idle]
     \/ /\ refresh[r].seen.remote
        /\ refresh' = [refresh EXCEPT ![r].remote = processing, ![r].at = "patch"]
  /\ UNCHANGED <<apiVars, phoneVars, running, masked>>

\* Fault: the server's status becomes the local one.
SyncCopies(remote, fallback) == remote

\* syncStateFromProcessing
SyncState(remote, fallback) ==
  CASE remote = "ready" -> "ready"
    [] remote = "failed" -> "failed"
    [] remote \in Running -> "processing"
    [] OTHER -> fallback

\* The row is written without its generation, from what was seen of it earlier.
CopyStatus(r) ==
  /\ At(r, "patch")
  /\ LET seen == refresh[r].seen
         remote == refresh[r].remote
         sync == SyncState(remote, seen.sync) IN
       IF sync = seen.sync /\ remote = seen.processing
       THEN refresh' = [refresh EXCEPT ![r] = Idle] /\ UNCHANGED <<showing, masked>>
       ELSE /\ showing' = [showing EXCEPT !.sync = sync, !.processing = remote]
            /\ Stale(r, "idle")
            /\ masked' = (masked \/ (/\ ~refresh[r].fresh
                                     /\ showing.sync \in Pending /\ sync \notin Pending))
  /\ UNCHANGED <<apiVars, media, tags, running>>

-----------------------------------------------------------------------------
(* The recording screen, time, and crashes                                 *)

\* enqueueMedia
Capture(m) ==
  /\ ~showing.finish /\ media[m].state = "none"
  /\ media' = [media EXCEPT ![m].state = "pending"]
  /\ showing' = [showing EXCEPT !.sync = "local"] /\ AllStale
  /\ UNCHANGED <<apiVars, tags, running, masked>>

AddVoiceTag(t) ==
  /\ ~showing.finish /\ tags[t].state = "none"
  /\ tags' = [tags EXCEPT ![t].state = "pending"]
  /\ showing' = [showing EXCEPT !.sync = "local"] /\ AllStale
  /\ UNCHANGED <<apiVars, media, running, masked>>

UpdateElapsed ==
  /\ ~showing.finish
  /\ AllStale
  /\ UNCHANGED <<apiVars, phoneVars, running, masked>>

Finish ==
  /\ ~showing.finish
  /\ showing' = [showing EXCEPT !.finish = TRUE, !.sync = "local"] /\ AllStale
  /\ UNCHANGED <<apiVars, media, tags, running, masked>>

UrlExpires(m) ==
  /\ media[m].url = "live"
  /\ media' = [media EXCEPT ![m].url = "expired"]
  /\ UNCHANGED <<apiVars, showing, tags, running, refresh, masked>>

\* The app is killed; its database survives.
AppDies ==
  /\ refresh' = [r \in Refreshes |-> Idle]
  /\ running' = FALSE
  /\ UNCHANGED <<apiVars, phoneVars, masked>>

Server ==
  /\ Process \/ ConfirmShowing
  /\ UNCHANGED <<phoneVars, running, refresh, masked>>

Advances(r) ==
  \/ StartRefresh(r) \/ FindOnline(r) \/ Claim(r) \/ Reread(r) \/ CreateRemote(r)
  \/ ListMedia(r) \/ TakeMedia(r) \/ PresignItem(r) \/ UploadItem(r) \/ CompleteItem(r)
  \/ ListTags(r) \/ MarkItem(r) \/ MarkRefused(r) \/ Review(r) \/ ReviewChildren(r) \/ Synced(r)
  \/ FinishRemote(r) \/ RunFails(r) \/ EndRun(r)
  \/ Fetch(r) \/ CopyStatus(r)

\* What postpones a refresh: no network, a backoff, a lost request or answer.
Loses(r) ==
  \/ FindOffline(r) \/ Defer(r) \/ DeferTag(r)
  \/ CreateLost(r) \/ ItemLost(r) \/ MarkLost(r) \/ FinishLost(r)

Next ==
  \/ \E r \in Refreshes : Advances(r) \/ Loses(r)
  \/ \E m \in Media : Capture(m) \/ UrlExpires(m)
  \/ \E t \in Tags : AddVoiceTag(t)
  \/ UpdateElapsed \/ Finish \/ AppDies \/ Server

Spec == Init /\ [][Next]_vars

\* A death after the engine's work is no more than a status that is not copied.
Disturbs ==
  \/ \E r \in Refreshes : Loses(r)
  \/ \E m \in Media : UrlExpires(m)
  \/ AppDies /\ \E r \in Refreshes : refresh[r].at \notin {"idle", "fetch", "patch"}

\* The timer of the App keeps refreshing, and some day nothing disturbs it any more.
FairSpec ==
  /\ Spec
  /\ \A r \in Refreshes : WF_vars(Advances(r))
  /\ <>[][~Disturbs]_vars

-----------------------------------------------------------------------------
(* Properties                                                              *)

Captured(m) == media[m].state # "none"

\* Something the server would take is not there, or the finish has not arrived.
LeftBehind ==
  \/ \E m \in Media \ oversized : Captured(m) /\ received[m] # "uploaded"
  \/ \E t \in Tags : tags[t].state # "none" /\ t \notin marked
  \/ showing.finish /\ processing = "not_started"

\* The engine will look at a showing as long as it has something to bring to the
\* server.  The code asks for it in two places: no queued row may be left that "the
\* sync query will never revisit" (mobile/src/storage/database.ts:178), and no
\* late write may mask "a concurrent media/marker/finish mutation"
\* (mobile/src/sync/engine.ts:100).
WorkIsQueued == LeftBehind => showing.sync \in Pending

\* It does, unless the status an App refresh copied has hidden the work.
WorkIsQueuedUnlessMasked == masked \/ WorkIsQueued

\* Processing begins when every tag and every capture the server would take are
\* there: "processing begins only after all media completes" (mobile/README.md:140).
ProcessingHasEverything ==
  processing # "not_started" =>
    /\ \A m \in Media \ oversized :
         Captured(m) => received[m] = "uploaded" /\ m \in stored
    /\ \A t \in Tags : tags[t].state # "none" => t \in marked

\* The end of a showing reaches the server in the end, whatever was lost on the
\* way, unless its work was hidden or no audio is left to process.
FinishArrives ==
  showing.finish ~>
    \/ processing # "not_started"
    \/ masked
    \/ \A a \in Audio : media[a].state \in {"none", "rejected"}

\* "Anything the server refused is absent from the report"
\* (mobile/src/sync/engine.ts:107): a rejected capture is not among those the
\* server will process.
RejectedIsAbsent == \A m \in Media : media[m].state = "rejected" => received[m] # "uploaded"

=============================================================================
