------------------------- MODULE CaptureSyncProofs -------------------------
(***************************************************************************)
(* Proofs about CaptureSync, for any captures, tags and number of          *)
(* refreshes under way.                                                    *)
(*                                                                         *)
(* IInv says what the phone may conclude from its rows (RowFacts), what is *)
(* there once processing has begun (ApiFacts), and what each refresh knows *)
(* at the place it has come to (Good).  Everything but the generation bit  *)
(* only ever grows (Grows), so what a refresh knows stays true while       *)
(* others work (KeepsGood).                                                *)
(***************************************************************************)
EXTENDS CaptureSync, TLAPS

Tagged(t) == tags[t].state # "none"

\* What the server would take of the captures, and the tags, are there.
AllIn ==
  /\ \A m \in Media \ oversized : Captured(m) => received[m] = "uploaded"
  /\ \A t \in Tags : Tagged(t) => t \in marked

RowFacts ==
  /\ \A m \in Media :
       /\ media[m].url # "none" => received[m] # "none"
       /\ media[m].state = "uploaded" => m \in stored
       /\ media[m].state = "completed" => received[m] = "uploaded"
       /\ media[m].state = "rejected" /\ m \notin oversized => received[m] = "uploaded"
       /\ received[m] = "uploaded" => m \in stored
  /\ \A t \in Tags : tags[t].state = "synced" => t \in marked
  /\ showing.remote => visit # "none"

ApiFacts ==
  /\ visit = "confirmed" => processing # "not_started"
  /\ processing # "not_started" => showing.finish /\ AllIn

\* What r knows of the media and tags it has listed.
Listed(r) ==
  /\ \A m \in Items(r) :
       /\ m \in Media /\ Captured(m)
       /\ refresh[r].items[m].url # "none" => received[m] # "none"
       /\ refresh[r].items[m].state = "uploaded" => m \in stored
  /\ \A t \in refresh[r].marks : t \in Tags /\ Tagged(t)

\* What it knows at the place it has come to, and of the row it has read.
Reached(r) ==
  /\ refresh[r].at \in {"media", "presign", "upload", "complete"} => visit # "none"
  /\ refresh[r].at \in {"presign", "upload", "complete"} => Items(r) # {}
  /\ refresh[r].at \in {"upload", "complete"} => received[Item(r)] # "none"
  /\ refresh[r].at = "complete" => Item(r) \in stored
  /\ refresh[r].at = "closing" => showing.finish
  /\ refresh[r].at \in {"children", "synced"} /\ refresh[r].fresh => ~showing.finish
  /\ refresh[r].at = "synced" /\ refresh[r].fresh => AllIn
  /\ refresh[r].at = "finish" => showing.finish /\ AllIn
  /\ refresh[r].remote # "not_started" => processing # "not_started"
  /\ refresh[r].at \in {"fetch", "patch"} /\ refresh[r].fresh =>
       refresh[r].seen.sync = showing.sync

IInv ==
  /\ TypeOK
  /\ RowFacts /\ ApiFacts
  /\ \A r \in Refreshes : Listed(r) /\ Reached(r)
  /\ WorkIsQueuedUnlessMasked

-----------------------------------------------------------------------------
(* What only grows                                                         *)

NothingNew ==
  /\ \A m \in Media : Captured(m)' => Captured(m)
  /\ \A t \in Tags : Tagged(t)' => Tagged(t)

\* No step of any actor takes back what was brought to the server or captured, and
\* nothing is captured after the end.
Grows ==
  /\ oversized' = oversized
  /\ visit # "none" => visit' # "none"
  /\ \A m \in Media :
       /\ received[m] # "none" => received'[m] # "none"
       /\ received[m] = "uploaded" => received'[m] = "uploaded"
       /\ Captured(m) => Captured(m)'
  /\ stored \subseteq stored' /\ marked \subseteq marked'
  /\ \A t \in Tags : Tagged(t) => Tagged(t)'
  /\ processing # "not_started" => processing' # "not_started"
  /\ showing.finish => showing'.finish /\ NothingNew

\* The row says what it said, and has no new children.
SameRow ==
  showing'.finish = showing.finish /\ showing'.sync = showing.sync /\ NothingNew

\* r goes on from where it was; its generation may have become old.
Kept(r) ==
  /\ refresh'[r].at = refresh[r].at /\ refresh'[r].items = refresh[r].items
  /\ refresh'[r].marks = refresh[r].marks /\ refresh'[r].remote = refresh[r].remote
  /\ refresh'[r].seen = refresh[r].seen
  /\ refresh'[r].fresh => refresh[r].fresh /\ SameRow

\* What was listed is still there.
LEMMA KeepsListed ==
  ASSUME NEW r \in Refreshes, Listed(r), Grows,
         refresh'[r].items = refresh[r].items, refresh'[r].marks = refresh[r].marks
  PROVE Listed(r)'
BY DEF Listed, Grows, Items

\* All that was in stays in, as long as nothing is captured.
LEMMA KeepsAllIn == ASSUME AllIn, Grows, NothingNew PROVE AllIn'
BY DEF AllIn, Grows, NothingNew

\* What is known at a place stays true there.
LEMMA KeepsReached ==
  ASSUME TypeOK, NEW r \in Refreshes, Listed(r), Reached(r), Grows, Kept(r)
  PROVE Reached(r)'
<1>1. Items(r)' = Items(r) /\ Item(r)' = Item(r)
  BY DEF Kept, Items, Item
<1>2. Items(r) # {} => Item(r) \in Media
  <2>1. Items(r) # {} => Item(r) \in Items(r)
    BY DEF Item
  <2> QED
    BY <2>1 DEF Listed
<1>3. refresh[r].at = "finish" => AllIn' /\ showing'.finish
  BY KeepsAllIn DEF Reached, Grows
<1>4. refresh'[r].at = "synced" /\ refresh'[r].fresh => AllIn'
  BY KeepsAllIn DEF Kept, Reached, SameRow
<1> QED
  BY <1>1, <1>2, <1>3, <1>4 DEF Kept, Reached, Grows, SameRow

\* A refresh that rests remembers nothing.
LEMMA Rests ==
  ASSUME NEW r \in Refreshes, refresh'[r].items = NoItems, refresh'[r].marks = {},
         refresh'[r].remote = "not_started",
         refresh'[r].at \in {"idle", "claimed", "failing", "ended"}
  PROVE Listed(r)' /\ Reached(r)'
BY DEF Listed, Reached, Items, NoItems

-----------------------------------------------------------------------------
(* The pieces of the steps                                                 *)

\* No listing, or one of known media, is a listing.
LEMMA ListingTypes ==
  /\ NoItems \in Listings
  /\ \A S \in SUBSET Media : \A f \in [S -> Medium] : f \in Listings
  /\ \A f \in Listings : DOMAIN f \in SUBSET Media /\ f \in [DOMAIN f -> Medium]
<1>1. NoItems \in [{} -> Medium]
  BY DEF NoItems
<1> QED
  BY <1>1 DEF Listings

\* A refresh that remembers nothing, at a place.
LEMMA RestingParts ==
  ASSUME NEW place \in Places, NEW fresh \in BOOLEAN, NEW seen \in Row, NEW f,
         f = [at |-> place, fresh |-> fresh, items |-> NoItems, again |-> FALSE,
              marks |-> {}, seen |-> seen, remote |-> "not_started"]
  PROVE /\ f \in Refresh
        /\ f.at = place /\ f.fresh = fresh /\ f.items = NoItems /\ f.marks = {}
        /\ f.seen = seen /\ f.remote = "not_started"
<1>1. NoItems \in Listings
  BY ListingTypes
<1>2. "not_started" \in Processing
  BY DEF Processing
<1> QED
  BY <1>1, <1>2 DEF Refresh

\* Nothing is known of the row.
LEMMA NoRowType == NoRow \in Row
BY DEF NoRow, Row, Sync, Processing

\* An idle refresh, moved to a place.
LEMMA IdleParts ==
  ASSUME NEW place \in Places, NEW f, f = [Idle EXCEPT !.at = place]
  PROVE /\ f \in Refresh /\ f.at = place /\ f.items = NoItems /\ f.marks = {}
        /\ f.remote = "not_started"
<1>1. f = [at |-> place, fresh |-> FALSE, items |-> NoItems, again |-> FALSE,
           marks |-> {}, seen |-> NoRow, remote |-> "not_started"]
  BY DEF Idle
<1>2. NoItems \in Listings
  BY ListingTypes
<1>3. "not_started" \in Processing
  BY DEF Processing
<1>4. f.at = place /\ f.items = NoItems /\ f.marks = {} /\ f.remote = "not_started"
  BY <1>1
<1>5. ASSUME NEW fresh \in BOOLEAN, NEW again \in BOOLEAN
      PROVE [at |-> place, fresh |-> fresh, items |-> NoItems, again |-> again,
             marks |-> {}, seen |-> NoRow, remote |-> "not_started"] \in Refresh
  BY <1>2, <1>3, NoRowType DEF Refresh
<1> QED
  BY <1>1, <1>4, <1>5

\* One refresh changes.
LEMMA OneChanges ==
  ASSUME TypeOK, NEW r \in Refreshes, NEW f \in Refresh, refresh' = [refresh EXCEPT ![r] = f]
  PROVE /\ refresh' \in [Refreshes -> Refresh] /\ refresh'[r] = f
        /\ \A q \in Refreshes : q # r => refresh'[q] = refresh[q]
BY DEF TypeOK

\* It goes to another place.
LEMMA GoParts ==
  ASSUME TypeOK, NEW r \in Refreshes, NEW place \in Places, Go(r, place)
  PROVE /\ refresh' \in [Refreshes -> Refresh]
        /\ refresh'[r] = [refresh[r] EXCEPT !.at = place]
        /\ refresh'[r].at = place /\ refresh'[r].items = refresh[r].items
        /\ refresh'[r].marks = refresh[r].marks /\ refresh'[r].remote = refresh[r].remote
        /\ refresh'[r].seen = refresh[r].seen /\ refresh'[r].fresh = refresh[r].fresh
        /\ \A q \in Refreshes : q # r => refresh'[q] = refresh[q]
<1>1. refresh[r] \in Refresh
  BY DEF TypeOK
<1>2. PICK f : f = [refresh[r] EXCEPT !.at = place]
  OBVIOUS
<1>3. /\ f \in Refresh /\ f.at = place /\ f.items = refresh[r].items
      /\ f.marks = refresh[r].marks /\ f.remote = refresh[r].remote
      /\ f.seen = refresh[r].seen /\ f.fresh = refresh[r].fresh
  BY <1>1, <1>2 DEF Refresh
<1>4. refresh' = [refresh EXCEPT ![r] = f]
  BY <1>2 DEF Go
<1> QED
  BY <1>2, <1>3, <1>4, OneChanges

\* It rests at another place.
LEMMA LeaveParts ==
  ASSUME TypeOK, NEW r \in Refreshes, NEW place \in Places, Leave(r, place)
  PROVE /\ refresh' \in [Refreshes -> Refresh]
        /\ refresh'[r].at = place /\ refresh'[r].items = NoItems /\ refresh'[r].marks = {}
        /\ refresh'[r].remote = "not_started"
        /\ \A q \in Refreshes : q # r => refresh'[q] = refresh[q]
<1>1. refresh[r].fresh \in BOOLEAN
  BY DEF TypeOK, Refresh
<1>2. PICK f : f = [Idle EXCEPT !.at = place, !.fresh = refresh[r].fresh]
  OBVIOUS
<1>3. f = [at |-> place, fresh |-> refresh[r].fresh, items |-> NoItems, again |-> FALSE,
           marks |-> {}, seen |-> NoRow, remote |-> "not_started"]
  BY <1>2 DEF Idle
<1>4. refresh' = [refresh EXCEPT ![r] = f]
  BY <1>2 DEF Leave
<1>5. /\ f \in Refresh /\ f.at = place /\ f.items = NoItems /\ f.marks = {}
      /\ f.remote = "not_started"
  BY <1>1, <1>3, RestingParts, NoRowType
<1> QED
  BY <1>4, <1>5, OneChanges

\* Its run ends.
LEMMA EndParts ==
  ASSUME TypeOK, NEW r \in Refreshes, End(r)
  PROVE /\ refresh' \in [Refreshes -> Refresh]
        /\ refresh'[r].at = "ended" /\ refresh'[r].items = NoItems /\ refresh'[r].marks = {}
        /\ refresh'[r].remote = "not_started"
        /\ \A q \in Refreshes : q # r => refresh'[q] = refresh[q]
<1>1. PICK f : f = [Idle EXCEPT !.at = "ended"]
  OBVIOUS
<1>3. "ended" \in Places
  BY DEF Places
<1>4. /\ f \in Refresh /\ f.at = "ended" /\ f.items = NoItems /\ f.marks = {}
      /\ f.remote = "not_started"
  BY <1>1, <1>3, IdleParts
<1>5. refresh' = [refresh EXCEPT ![r] = f]
  BY <1>1 DEF End
<1> QED
  BY <1>4, <1>5, OneChanges

\* The row was written, by r if anybody's refresh.
LEMMA StaleParts ==
  ASSUME TypeOK, NEW r \in Refreshes, NEW place \in Places, Stale(r, place)
  PROVE /\ refresh' \in [Refreshes -> Refresh]
        /\ refresh'[r].at = place /\ refresh'[r].items = NoItems /\ refresh'[r].marks = {}
        /\ refresh'[r].remote = "not_started"
        /\ \A q \in Refreshes : q # r => Kept(q)
<1>1. PICK f : f = [Idle EXCEPT !.at = place]
  OBVIOUS
<1>3. f \in Refresh /\ f.at = place /\ f.items = NoItems /\ f.marks = {}
      /\ f.remote = "not_started"
  BY <1>1, IdleParts
<1>4. refresh \in [Refreshes -> Refresh]
  BY DEF TypeOK
<1>5. \A q \in Refreshes : LET g == [refresh[q] EXCEPT !.fresh = FALSE] IN
        /\ g \in Refresh /\ g.at = refresh[q].at /\ g.items = refresh[q].items
        /\ g.marks = refresh[q].marks /\ g.remote = refresh[q].remote
        /\ g.seen = refresh[q].seen /\ g.fresh = FALSE
  BY <1>4 DEF Refresh
<1>6. refresh' = [q \in Refreshes |-> IF q = r THEN f ELSE [refresh[q] EXCEPT !.fresh = FALSE]]
  BY <1>1 DEF Stale
<1> QED
  BY <1>3, <1>5, <1>6 DEF Kept

\* The row was written by the recording screen.
LEMMA AllStaleParts ==
  ASSUME TypeOK, AllStale
  PROVE refresh' \in [Refreshes -> Refresh] /\ \A q \in Refreshes : Kept(q)
<1>1. refresh \in [Refreshes -> Refresh]
  BY DEF TypeOK
<1>2. \A q \in Refreshes : LET g == [refresh[q] EXCEPT !.fresh = FALSE] IN
        /\ g \in Refresh /\ g.at = refresh[q].at /\ g.items = refresh[q].items
        /\ g.marks = refresh[q].marks /\ g.remote = refresh[q].remote
        /\ g.seen = refresh[q].seen /\ g.fresh = FALSE
  BY <1>1 DEF Refresh
<1> QED
  BY <1>2 DEF AllStale, Kept

\* The App lists the local rows.
LEMMA ListLocalParts ==
  ASSUME TypeOK, NEW r \in Refreshes, ListLocal(r)
  PROVE /\ refresh' \in [Refreshes -> Refresh]
        /\ refresh'[r].at = "fetch" /\ refresh'[r].items = NoItems /\ refresh'[r].marks = {}
        /\ refresh'[r].remote = "not_started" /\ refresh'[r].seen.sync = showing.sync
        /\ refresh'[r].seen.remote = showing.remote
        /\ refresh'[r].seen.processing = showing.processing
        /\ \A q \in Refreshes : q # r => refresh'[q] = refresh[q]
<1>1. PICK seen : seen = [f \in {"sync", "remote", "processing"} |-> showing[f]]
  OBVIOUS
<1>2. seen = [sync |-> showing.sync, remote |-> showing.remote,
              processing |-> showing.processing]
  BY <1>1
<1>3. seen \in Row /\ seen.sync = showing.sync /\ seen.remote = showing.remote
      /\ seen.processing = showing.processing
  BY <1>2 DEF Row, TypeOK, Showing
<1>4. PICK f : f = [Idle EXCEPT !.at = "fetch", !.fresh = TRUE, !.seen = seen]
  OBVIOUS
<1>5. f = [at |-> "fetch", fresh |-> TRUE, items |-> NoItems, again |-> FALSE,
           marks |-> {}, seen |-> seen, remote |-> "not_started"]
  BY <1>4 DEF Idle
<1>9. NoItems \in Listings /\ "not_started" \in Processing
  BY ListingTypes DEF Processing
<1>6. "fetch" \in Places
  BY DEF Places
<1>7. /\ f \in Refresh /\ f.at = "fetch" /\ f.items = NoItems /\ f.marks = {}
      /\ f.remote = "not_started" /\ f.seen = seen
  BY <1>3, <1>5, <1>6, <1>9 DEF Refresh
<1>8. refresh' = [refresh EXCEPT ![r] = f]
  BY <1>1, <1>4 DEF ListLocal
<1> QED
  BY <1>3, <1>7, <1>8, OneChanges

-----------------------------------------------------------------------------
(* What a step has to show                                                 *)

\* Work stays queued by a step that makes none.
LEMMA KeepsQueued ==
  ASSUME WorkIsQueuedUnlessMasked, Grows, NothingNew, showing'.finish = showing.finish,
         showing'.sync = showing.sync \/ showing'.sync \in Pending, masked => masked'
  PROVE WorkIsQueuedUnlessMasked'
<1>1. LeftBehind' => LeftBehind
  BY DEF LeftBehind, Grows, NothingNew, Tagged
<1> QED
  BY <1>1 DEF WorkIsQueuedUnlessMasked, WorkIsQueued, Pending

\* What processing rests on stays by a step that neither starts it nor confirms.
LEMMA KeepsApi ==
  ASSUME ApiFacts, Grows, visit' = "confirmed" => visit = "confirmed",
         processing' # "not_started" => processing # "not_started"
  PROVE ApiFacts'
BY KeepsAllIn DEF ApiFacts, Grows

\* A step of r: others go on from where they were.
LEMMA StepIInv ==
  ASSUME IInv, NEW r \in Refreshes, Grows, TypeOK', RowFacts', ApiFacts',
         WorkIsQueuedUnlessMasked', \A q \in Refreshes : q # r => Kept(q),
         Listed(r)', Reached(r)'
  PROVE IInv'
<1>1. ASSUME NEW q \in Refreshes, q # r PROVE Listed(q)' /\ Reached(q)'
  <2>1. Listed(q) /\ Reached(q) /\ TypeOK /\ Kept(q)
    BY <1>1 DEF IInv
  <2>2. Listed(q)'
    BY <2>1, KeepsListed DEF Kept
  <2>3. Reached(q)'
    BY <2>1, KeepsReached
  <2> QED
    BY <2>2, <2>3
<1> QED
  BY <1>1 DEF IInv

\* A step that leaves everything but its refresh alone.
LEMMA ControlIInv ==
  ASSUME IInv, NEW r \in Refreshes, UNCHANGED <<apiVars, phoneVars, masked>>,
         running' \in BOOLEAN, refresh' \in [Refreshes -> Refresh],
         \A q \in Refreshes : q # r => refresh'[q] = refresh[q],
         Listed(r)', Reached(r)'
  PROVE IInv'
<1>1. /\ oversized' = oversized /\ visit' = visit /\ received' = received /\ stored' = stored
      /\ marked' = marked /\ processing' = processing /\ showing' = showing
      /\ media' = media /\ tags' = tags /\ masked' = masked
  BY DEF apiVars, phoneVars
<1>2. Grows /\ SameRow
  BY <1>1 DEF Grows, SameRow, NothingNew, Captured, Tagged
<1>3. TypeOK'
  BY <1>1 DEF IInv, TypeOK, ApiTypeOK
<1>4. RowFacts' /\ ApiFacts'
  BY <1>1 DEF IInv, RowFacts, ApiFacts, AllIn, Captured, Tagged
<1>5. WorkIsQueuedUnlessMasked'
  BY <1>1, <1>2, KeepsQueued DEF IInv, SameRow
<1>6. \A q \in Refreshes : q # r => Kept(q)
  BY <1>2 DEF Kept
<1> QED
  BY <1>2, <1>3, <1>4, <1>5, <1>6, StepIInv

-----------------------------------------------------------------------------
(* Steps that only move their refresh                                      *)

\* The queue is looked at, or the local rows are listed.
LEMMA StartIInv ==
  ASSUME IInv, NEW r \in Refreshes, StartRefresh(r) \/ FindOffline(r) \/ EndRun(r)
  PROVE IInv'
<1> USE DEF Places
<1>1. TypeOK /\ Listed(r) /\ Reached(r) /\ running \in BOOLEAN
  BY DEF IInv, TypeOK
<1>2. /\ UNCHANGED <<apiVars, phoneVars, masked>> /\ running' \in BOOLEAN
      /\ ListLocal(r) \/ (At(r, "idle") /\ Go(r, "online"))
  BY <1>1 DEF StartRefresh, FindOffline, EndRun
<1>3. /\ UNCHANGED <<received, stored, tags, media, showing, visit, processing>>
  BY <1>2 DEF apiVars, phoneVars
<1>4. CASE ListLocal(r)
  <2>1. /\ refresh' \in [Refreshes -> Refresh]
        /\ refresh'[r].at = "fetch" /\ refresh'[r].items = NoItems /\ refresh'[r].marks = {}
        /\ refresh'[r].remote = "not_started" /\ refresh'[r].seen.sync = showing.sync
        /\ \A q \in Refreshes : q # r => refresh'[q] = refresh[q]
    BY <1>1, <1>4, ListLocalParts
  <2>2. Listed(r)' /\ Reached(r)'
    BY <1>3, <2>1 DEF Listed, Reached, Items, NoItems
  <2> QED
    BY <1>2, <2>1, <2>2, ControlIInv
<1>5. CASE At(r, "idle") /\ Go(r, "online")
  <2>1. /\ refresh' \in [Refreshes -> Refresh]
        /\ refresh'[r].at = "online" /\ refresh'[r].items = refresh[r].items
        /\ refresh'[r].marks = refresh[r].marks /\ refresh'[r].remote = refresh[r].remote
        /\ \A q \in Refreshes : q # r => refresh'[q] = refresh[q]
    BY <1>1, <1>5, GoParts
  <2>2. Listed(r)' /\ Reached(r)'
    BY <1>1, <1>3, <2>1 DEF Listed, Reached, Items, Captured, Tagged
  <2> QED
    BY <1>2, <2>1, <2>2, ControlIInv
<1> QED
  BY <1>2, <1>4, <1>5

\* It reads the row, and its generation.
LEMMA ReadParts ==
  ASSUME TypeOK, NEW r \in Refreshes, NEW place \in Places,
         refresh' = [refresh EXCEPT ![r].at = place, ![r].fresh = TRUE]
  PROVE /\ refresh' \in [Refreshes -> Refresh]
        /\ refresh'[r].at = place /\ refresh'[r].items = refresh[r].items
        /\ refresh'[r].marks = refresh[r].marks /\ refresh'[r].remote = refresh[r].remote
        /\ refresh'[r].seen = refresh[r].seen
        /\ \A q \in Refreshes : q # r => refresh'[q] = refresh[q]
<1>1. refresh[r] \in Refresh /\ refresh \in [Refreshes -> Refresh]
  BY DEF TypeOK
<1>2. PICK f : f = [refresh[r] EXCEPT !.at = place, !.fresh = TRUE]
  OBVIOUS
<1>3. f = [at |-> place, fresh |-> TRUE, items |-> refresh[r].items,
           again |-> refresh[r].again, marks |-> refresh[r].marks,
           seen |-> refresh[r].seen, remote |-> refresh[r].remote]
  BY <1>1, <1>2 DEF Refresh
<1>4. /\ f \in Refresh /\ f.at = place /\ f.items = refresh[r].items
      /\ f.marks = refresh[r].marks /\ f.remote = refresh[r].remote
      /\ f.seen = refresh[r].seen
  BY <1>1, <1>3 DEF Refresh
<1>5. refresh' = [refresh EXCEPT ![r] = f]
  BY <1>1, <1>2
<1> QED
  BY <1>4, <1>5, OneChanges

\* A showing is picked from the queue, or there is none.
LEMMA FindOnlineIInv == ASSUME IInv, NEW r \in Refreshes, FindOnline(r) PROVE IInv'
<1> USE DEF Places
<1>1. TypeOK /\ Listed(r) /\ Reached(r)
  BY DEF IInv
<1>2. /\ UNCHANGED <<apiVars, phoneVars, masked>> /\ running' \in BOOLEAN
      /\ UNCHANGED <<received, stored, tags, media, showing, visit, processing>>
      /\ End(r) \/ refresh' = [refresh EXCEPT ![r].at = "claim", ![r].fresh = TRUE]
  BY DEF FindOnline, apiVars, phoneVars
<1>3. CASE End(r)
  BY <1>1, <1>2, <1>3, EndParts, Rests, ControlIInv
<1>4. CASE refresh' = [refresh EXCEPT ![r].at = "claim", ![r].fresh = TRUE]
  <2>1. /\ refresh' \in [Refreshes -> Refresh]
        /\ refresh'[r].at = "claim" /\ refresh'[r].items = refresh[r].items
        /\ refresh'[r].marks = refresh[r].marks /\ refresh'[r].remote = refresh[r].remote
        /\ \A q \in Refreshes : q # r => refresh'[q] = refresh[q]
    BY <1>1, <1>4, ReadParts
  <2>2. Listed(r)' /\ Reached(r)'
    BY <1>1, <1>2, <2>1 DEF Listed, Reached, Items, Captured, Tagged
  <2> QED
    BY <1>2, <2>1, <2>2, ControlIInv
<1> QED
  BY <1>2, <1>3, <1>4

\* The claimed row tells whether the showing exists at the server.
LEMMA RereadIInv == ASSUME IInv, NEW r \in Refreshes, Reread(r) PROVE IInv'
<1> USE DEF Places
<1>1. TypeOK /\ Listed(r) /\ Reached(r) /\ running \in BOOLEAN
      /\ (showing.remote => visit # "none")
  BY DEF IInv, TypeOK, RowFacts
<1>2. /\ UNCHANGED <<apiVars, phoneVars, masked>> /\ running' \in BOOLEAN
      /\ UNCHANGED <<received, stored, tags, media, showing, visit, processing>>
      /\ At(r, "claimed")
  BY <1>1 DEF Reread, apiVars, phoneVars
<1>3. PICK place \in {"media", "create"} :
        /\ place = "media" => showing.remote
        /\ refresh' = [refresh EXCEPT ![r].at = place, ![r].fresh = TRUE]
  BY DEF Reread
<1>4. /\ refresh' \in [Refreshes -> Refresh]
      /\ refresh'[r].at = place /\ refresh'[r].items = refresh[r].items
      /\ refresh'[r].marks = refresh[r].marks /\ refresh'[r].remote = refresh[r].remote
      /\ \A q \in Refreshes : q # r => refresh'[q] = refresh[q]
  BY <1>1, <1>3, ReadParts
<1>5. Listed(r)'
  BY <1>1, <1>2, <1>4 DEF Listed, Items, Captured, Tagged
<1>6. Reached(r)'
  BY <1>1, <1>2, <1>3, <1>4 DEF Reached, Items
<1> QED
  BY <1>2, <1>4, <1>5, <1>6, ControlIInv

\* The media to be sent are listed.
LEMMA ListMediaIInv == ASSUME IInv, NEW r \in Refreshes, ListMedia(r) PROVE IInv'
<1> USE DEF Places
<1>1. TypeOK /\ Listed(r) /\ Reached(r) /\ running \in BOOLEAN /\ RowFacts
      /\ refresh[r] \in Refresh /\ refresh \in [Refreshes -> Refresh]
      /\ media \in [Media -> Medium]
  BY DEF IInv, TypeOK
<1>2. /\ UNCHANGED <<apiVars, phoneVars, masked>> /\ running' \in BOOLEAN
      /\ UNCHANGED <<received, stored, tags, media, showing, visit, processing>>
      /\ At(r, "media")
  BY <1>1 DEF ListMedia, apiVars, phoneVars
<1> DEFINE todo == {m \in Media : ~Settled(m)}
<1>3. PICK items : items = [m \in todo |-> media[m]]
  OBVIOUS
<1>4. PICK place \in {"media", "tags"} :
        refresh' = [refresh EXCEPT ![r].items = items, ![r].at = place]
  <2>1. refresh[r].at = "media"
    BY <1>2 DEF At
  <2>2. refresh' = [refresh EXCEPT ![r].items = items,
                                   ![r].at = IF todo = {} THEN "tags" ELSE @]
    BY <1>3 DEF ListMedia
  <2>3. CASE todo = {}
    BY <2>2, <2>3
  <2>4. CASE todo # {}
    BY <1>1, <2>1, <2>2, <2>4
  <2> QED
    BY <2>3, <2>4
<1>5. items \in [todo -> Medium] /\ todo \in SUBSET Media
  BY <1>1, <1>3
<1>6. items \in Listings
  BY <1>5, ListingTypes
<1>7. DOMAIN items = todo /\ \A m \in todo : items[m] = media[m]
  BY <1>3
<1>8. PICK f : f = [refresh[r] EXCEPT !.items = items, !.at = place]
  OBVIOUS
<1>9. f = [at |-> place, fresh |-> refresh[r].fresh, items |-> items,
           again |-> refresh[r].again, marks |-> refresh[r].marks,
           seen |-> refresh[r].seen, remote |-> refresh[r].remote]
  BY <1>1, <1>8 DEF Refresh
<1>10. /\ f \in Refresh /\ f.at = place /\ f.items = items
       /\ f.marks = refresh[r].marks /\ f.remote = refresh[r].remote
  BY <1>1, <1>6, <1>9 DEF Refresh
<1>11. refresh' = [refresh EXCEPT ![r] = f]
  BY <1>1, <1>4, <1>8
<1>12. /\ refresh' \in [Refreshes -> Refresh] /\ refresh'[r] = f
       /\ \A q \in Refreshes : q # r => refresh'[q] = refresh[q]
  BY <1>1, <1>10, <1>11, OneChanges
<1>13. Listed(r)'
  <2>1. \A m \in todo : Captured(m)
    BY DEF Settled, Captured
  <2> HIDE DEF todo
  <2> QED
    BY <1>1, <1>2, <1>5, <1>7, <1>10, <1>12, <2>1 DEF Listed, Items, RowFacts, Captured, Tagged
<1>14. Reached(r)'
  BY <1>1, <1>2, <1>10, <1>12 DEF Reached, At, Items
<1> QED
  BY <1>2, <1>12, <1>13, <1>14, ControlIInv

\* What was listed of a medium tells what is to be done with it.
LEMMA TakeMediaIInv == ASSUME IInv, NEW r \in Refreshes, TakeMedia(r) PROVE IInv'
<1> USE DEF Places
<1>1. TypeOK /\ Listed(r) /\ Reached(r) /\ running \in BOOLEAN
  BY DEF IInv, TypeOK
<1>2. /\ UNCHANGED <<apiVars, phoneVars, masked>> /\ running' \in BOOLEAN
      /\ UNCHANGED <<received, stored, tags, media, showing, visit, processing>>
      /\ At(r, "media") /\ Items(r) # {}
  BY <1>1 DEF TakeMedia, apiVars, phoneVars
<1>3. PICK known : known = refresh[r].items[Item(r)]
  OBVIOUS
<1>4. PICK place \in {"presign", "complete", "upload"} :
        /\ place \in {"upload", "complete"} => known.url # "none"
        /\ place = "complete" => known.state = "uploaded"
        /\ Go(r, place)
  BY <1>3 DEF TakeMedia
<1>5. Item(r) \in Items(r)
  BY <1>2 DEF Item
<1>6. /\ refresh' \in [Refreshes -> Refresh]
      /\ refresh'[r].at = place /\ refresh'[r].items = refresh[r].items
      /\ refresh'[r].marks = refresh[r].marks /\ refresh'[r].remote = refresh[r].remote
      /\ \A q \in Refreshes : q # r => refresh'[q] = refresh[q]
  BY <1>1, <1>4, GoParts
<1>7. Listed(r)'
  BY <1>1, <1>2, <1>6 DEF Listed, Items, Captured, Tagged
<1>8. Items(r)' = Items(r) /\ Item(r)' = Item(r)
  BY <1>6 DEF Items, Item
<1>9. Reached(r)'
  BY <1>1, <1>2, <1>3, <1>4, <1>5, <1>6, <1>8 DEF Reached, Listed, At
<1> QED
  BY <1>2, <1>6, <1>7, <1>9, ControlIInv

\* A backoff ends the run.
LEMMA DeferIInv == ASSUME IInv, NEW r \in Refreshes, Defer(r) \/ DeferTag(r) PROVE IInv'
<1>1. TypeOK /\ running \in BOOLEAN
  BY DEF IInv, TypeOK
<1>2. UNCHANGED <<apiVars, phoneVars, masked>> /\ running' \in BOOLEAN /\ Leave(r, "failing")
  BY <1>1 DEF Defer, DeferTag
<1>3. "failing" \in Places
  BY DEF Places
<1> QED
  BY <1>1, <1>2, <1>3, LeaveParts, Rests, ControlIInv

\* A step of nobody's refresh: all go on from where they were.
LEMMA KeptIInv ==
  ASSUME IInv, Grows, TypeOK', RowFacts', ApiFacts', WorkIsQueuedUnlessMasked',
         \A q \in Refreshes : Kept(q)
  PROVE IInv'
<1>1. ASSUME NEW q \in Refreshes PROVE Listed(q)' /\ Reached(q)'
  <2>1. Listed(q) /\ Reached(q) /\ TypeOK /\ Kept(q)
    BY DEF IInv
  <2>2. Listed(q)'
    BY <2>1, KeepsListed DEF Kept
  <2>3. Reached(q)'
    BY <2>1, KeepsReached
  <2> QED
    BY <2>2, <2>3
<1> QED
  BY <1>1 DEF IInv

\* The tags to be sent are listed.
LEMMA ListTagsIInv == ASSUME IInv, NEW r \in Refreshes, ListTags(r) PROVE IInv'
<1> USE DEF Places
<1>1. TypeOK /\ Listed(r) /\ Reached(r) /\ running \in BOOLEAN
      /\ refresh[r] \in Refresh /\ refresh \in [Refreshes -> Refresh]
  BY DEF IInv, TypeOK
<1>2. /\ UNCHANGED <<apiVars, phoneVars, masked>> /\ running' \in BOOLEAN
      /\ UNCHANGED <<received, stored, tags, media, showing, visit, processing>>
      /\ At(r, "tags")
  BY <1>1 DEF ListTags, apiVars, phoneVars
<1>3. PICK todo \in SUBSET Tags : todo = {t \in Tags : tags[t].state = "pending"}
  OBVIOUS
<1>4. PICK place \in {"tags", "review"} :
        refresh' = [refresh EXCEPT ![r].marks = todo, ![r].at = place]
  <2>1. refresh[r].at = "tags"
    BY <1>2 DEF At
  <2>2. refresh' = [refresh EXCEPT ![r].marks = todo,
                                   ![r].at = IF todo = {} THEN "review" ELSE @]
    BY <1>3 DEF ListTags
  <2>3. CASE todo = {}
    BY <2>2, <2>3
  <2>4. CASE todo # {}
    BY <1>1, <2>1, <2>2, <2>4
  <2> QED
    BY <2>3, <2>4
<1>5. PICK f : f = [refresh[r] EXCEPT !.marks = todo, !.at = place]
  OBVIOUS
<1>6. f = [at |-> place, fresh |-> refresh[r].fresh, items |-> refresh[r].items,
           again |-> refresh[r].again, marks |-> todo,
           seen |-> refresh[r].seen, remote |-> refresh[r].remote]
  BY <1>1, <1>5 DEF Refresh
<1>7. /\ f \in Refresh /\ f.at = place /\ f.items = refresh[r].items
      /\ f.marks = todo /\ f.remote = refresh[r].remote
  BY <1>1, <1>6 DEF Refresh
<1>8. refresh' = [refresh EXCEPT ![r] = f]
  BY <1>1, <1>4, <1>5
<1>9. /\ refresh' \in [Refreshes -> Refresh] /\ refresh'[r] = f
      /\ \A q \in Refreshes : q # r => refresh'[q] = refresh[q]
  BY <1>1, <1>7, <1>8, OneChanges
<1>10. Listed(r)'
  <2>1. \A t \in todo : t \in Tags /\ Tagged(t)
    BY <1>3 DEF Tagged
  <2> QED
    BY <1>1, <1>2, <1>7, <1>9, <2>1 DEF Listed, Items, Captured, Tagged
<1>11. Reached(r)'
  BY <1>1, <1>2, <1>7, <1>9 DEF Reached, At, Items
<1> QED
  BY <1>2, <1>9, <1>10, <1>11, ControlIInv

\* The row is read again; a newer one ends the run.
LEMMA ReviewIInv == ASSUME IInv, NEW r \in Refreshes, Review(r) PROVE IInv'
<1> USE DEF Places
<1>1. TypeOK /\ Listed(r) /\ Reached(r) /\ running \in BOOLEAN
  BY DEF IInv, TypeOK
<1>2. /\ UNCHANGED <<apiVars, phoneVars, masked>> /\ running' \in BOOLEAN
      /\ UNCHANGED <<received, stored, tags, media, showing, visit, processing>>
  BY <1>1 DEF Review, apiVars, phoneVars
<1>3. CASE End(r)
  BY <1>1, <1>2, <1>3, EndParts, Rests, ControlIInv
<1>4. ASSUME NEW place \in {"closing", "children"}, Go(r, place),
             showing.finish <=> place = "closing"
      PROVE IInv'
  <2>1. /\ refresh' \in [Refreshes -> Refresh]
        /\ refresh'[r].at = place /\ refresh'[r].items = refresh[r].items
        /\ refresh'[r].marks = refresh[r].marks /\ refresh'[r].remote = refresh[r].remote
        /\ \A q \in Refreshes : q # r => refresh'[q] = refresh[q]
    BY <1>1, <1>4, GoParts
  <2>2. Listed(r)'
    BY <1>1, <1>2, <2>1 DEF Listed, Items, Captured, Tagged
  <2>3. Reached(r)'
    BY <1>1, <1>2, <1>4, <2>1 DEF Reached, Items
  <2> QED
    BY <1>2, <2>1, <2>2, <2>3, ControlIInv
<1> QED
  BY <1>3, <1>4 DEF Review

\* When all children are settled, all is in.
LEMMA SettledIn == ASSUME TypeOK, RowFacts, AllSettled PROVE AllIn
<1>1. \A m \in Media \ oversized : Captured(m) => received[m] = "uploaded"
  BY DEF RowFacts, AllSettled, Settled, Captured
<1>2. \A t \in Tags : tags[t].state \in {"none", "pending", "synced"}
  BY DEF TypeOK, Tag
<1>3. \A t \in Tags : Tagged(t) => t \in marked
  BY <1>2 DEF RowFacts, AllSettled, TagsSettled, Tagged
<1> QED
  BY <1>1, <1>3 DEF AllIn

\* Its children decide whether the row can be settled.
LEMMA ReviewChildrenIInv == ASSUME IInv, NEW r \in Refreshes, ReviewChildren(r) PROVE IInv'
<1> USE DEF Places
<1>1. TypeOK /\ Listed(r) /\ Reached(r) /\ running \in BOOLEAN /\ RowFacts
  BY DEF IInv, TypeOK
<1>2. /\ UNCHANGED <<apiVars, phoneVars, masked>> /\ running' \in BOOLEAN
      /\ UNCHANGED <<received, stored, tags, media, showing, visit, processing>>
      /\ UNCHANGED <<oversized, marked>>
  BY <1>1 DEF ReviewChildren, apiVars, phoneVars
<1>3. CASE End(r)
  BY <1>1, <1>2, <1>3, EndParts, Rests, ControlIInv
<1>4. ASSUME NEW place \in {"synced", "finish", "missing_audio"}, Go(r, place), AllSettled,
             At(r, "children") \/ At(r, "closing"),
             place = "synced" => At(r, "children"),
             place = "finish" => At(r, "closing")
      PROVE IInv'
  <2>1. /\ refresh' \in [Refreshes -> Refresh]
        /\ refresh'[r].at = place /\ refresh'[r].items = refresh[r].items
        /\ refresh'[r].marks = refresh[r].marks /\ refresh'[r].remote = refresh[r].remote
        /\ refresh'[r].fresh = refresh[r].fresh
        /\ \A q \in Refreshes : q # r => refresh'[q] = refresh[q]
    BY <1>1, <1>4, GoParts
  <2>2. Listed(r)'
    BY <1>1, <1>2, <2>1 DEF Listed, Items, Captured, Tagged
  <2>3. AllIn'
    BY <1>1, <1>2, <1>4, SettledIn DEF AllIn, Captured, Tagged
  <2>4. Reached(r)'
    BY <1>1, <1>2, <1>4, <2>1, <2>3 DEF Reached, Items, At
  <2> QED
    BY <1>2, <2>1, <2>2, <2>4, ControlIInv
<1> QED
  BY <1>3, <1>4 DEF ReviewChildren

\* The server's status arrives, or the refresh is over.
LEMMA FetchIInv == ASSUME IInv, NEW r \in Refreshes, Fetch(r) PROVE IInv'
<1> USE DEF Places
<1>1. TypeOK /\ Listed(r) /\ Reached(r) /\ running \in BOOLEAN
      /\ refresh[r] \in Refresh /\ refresh \in [Refreshes -> Refresh]
      /\ processing \in Processing
  BY DEF IInv, TypeOK, ApiTypeOK
<1>2. /\ UNCHANGED <<apiVars, phoneVars, masked>> /\ running' \in BOOLEAN
      /\ UNCHANGED <<received, stored, tags, media, showing, visit, processing>>
      /\ At(r, "fetch")
  BY <1>1 DEF Fetch, apiVars, phoneVars
<1>3. CASE refresh' = [refresh EXCEPT ![r] = Idle]
  <2>1. Idle \in Refresh /\ Idle.at = "idle" /\ Idle.items = NoItems /\ Idle.marks = {}
        /\ Idle.remote = "not_started"
    BY ListingTypes, NoRowType DEF Idle, Refresh, Processing
  <2>2. /\ refresh' \in [Refreshes -> Refresh] /\ refresh'[r] = Idle
        /\ \A q \in Refreshes : q # r => refresh'[q] = refresh[q]
    BY <1>1, <1>3, <2>1, OneChanges
  <2> QED
    BY <1>2, <2>1, <2>2, Rests, ControlIInv
<1>4. CASE refresh' = [refresh EXCEPT ![r].remote = processing, ![r].at = "patch"]
  <2>1. PICK f : f = [refresh[r] EXCEPT !.remote = processing, !.at = "patch"]
    OBVIOUS
  <2>2. f = [at |-> "patch", fresh |-> refresh[r].fresh, items |-> refresh[r].items,
             again |-> refresh[r].again, marks |-> refresh[r].marks,
             seen |-> refresh[r].seen, remote |-> processing]
    BY <1>1, <2>1 DEF Refresh
  <2>3. /\ f \in Refresh /\ f.at = "patch" /\ f.items = refresh[r].items
        /\ f.marks = refresh[r].marks /\ f.remote = processing
        /\ f.seen = refresh[r].seen /\ f.fresh = refresh[r].fresh
    BY <1>1, <2>2 DEF Refresh
  <2>4. refresh' = [refresh EXCEPT ![r] = f]
    BY <1>1, <1>4, <2>1
  <2>5. /\ refresh' \in [Refreshes -> Refresh] /\ refresh'[r] = f
        /\ \A q \in Refreshes : q # r => refresh'[q] = refresh[q]
    BY <1>1, <2>3, <2>4, OneChanges
  <2>6. Listed(r)'
    BY <1>1, <1>2, <2>3, <2>5 DEF Listed, Items, Captured, Tagged
  <2>7. Reached(r)'
    BY <1>1, <1>2, <2>3, <2>5 DEF Reached, At, Items
  <2> QED
    BY <1>2, <2>5, <2>6, <2>7, ControlIInv
<1> QED
  BY <1>3, <1>4 DEF Fetch


-----------------------------------------------------------------------------
(* The recording screen, time, crashes and the server                      *)

\* Only the control state of the refreshes is lost.
LEMMA AppDiesIInv == ASSUME IInv, AppDies PROVE IInv'
<1>1. /\ UNCHANGED <<apiVars, phoneVars, masked>> /\ running' = FALSE
      /\ refresh' = [r \in Refreshes |-> Idle]
  BY DEF AppDies
<1>2. /\ oversized' = oversized /\ visit' = visit /\ received' = received /\ stored' = stored
      /\ marked' = marked /\ processing' = processing /\ showing' = showing
      /\ media' = media /\ tags' = tags /\ masked' = masked
  BY <1>1 DEF apiVars, phoneVars
<1>3. Grows /\ SameRow
  BY <1>2 DEF Grows, SameRow, NothingNew, Captured, Tagged
<1>4. Idle \in Refresh /\ Idle.at = "idle" /\ Idle.items = NoItems /\ Idle.marks = {}
      /\ Idle.remote = "not_started"
  BY ListingTypes, NoRowType DEF Idle, Refresh, Processing, Places
<1>5. refresh' \in [Refreshes -> Refresh] /\ \A r \in Refreshes : refresh'[r] = Idle
  BY <1>1, <1>4
<1>6. TypeOK'
  BY <1>1, <1>2, <1>5 DEF IInv, TypeOK, ApiTypeOK
<1>7. RowFacts' /\ ApiFacts'
  BY <1>2 DEF IInv, RowFacts, ApiFacts, AllIn, Captured, Tagged
<1>8. WorkIsQueuedUnlessMasked'
  BY <1>2, <1>3, KeepsQueued DEF IInv, SameRow
<1>9. \A r \in Refreshes : Listed(r)' /\ Reached(r)'
  BY <1>4, <1>5, Rests
<1> QED
  BY <1>6, <1>7, <1>8, <1>9 DEF IInv

\* The clock of the recording makes every generation an old one.
LEMMA UpdateElapsedIInv == ASSUME IInv, UpdateElapsed PROVE IInv'
<1>1. UNCHANGED <<apiVars, phoneVars, running, masked>> /\ AllStale
  BY DEF UpdateElapsed
<1>2. /\ oversized' = oversized /\ visit' = visit /\ received' = received /\ stored' = stored
      /\ marked' = marked /\ processing' = processing /\ showing' = showing
      /\ media' = media /\ tags' = tags /\ masked' = masked /\ running' = running
  BY <1>1 DEF apiVars, phoneVars
<1>3. Grows /\ SameRow
  BY <1>2 DEF Grows, SameRow, NothingNew, Captured, Tagged
<1>4. refresh' \in [Refreshes -> Refresh] /\ \A q \in Refreshes : Kept(q)
  BY <1>1, AllStaleParts DEF IInv
<1>5. TypeOK'
  BY <1>2, <1>4 DEF IInv, TypeOK, ApiTypeOK
<1>6. RowFacts' /\ ApiFacts'
  BY <1>2 DEF IInv, RowFacts, ApiFacts, AllIn, Captured, Tagged
<1>7. WorkIsQueuedUnlessMasked'
  BY <1>2, <1>3, KeepsQueued DEF IInv, SameRow
<1> QED
  BY <1>3, <1>4, <1>5, <1>6, <1>7, KeptIInv

\* What a write of the row makes of it.
LEMMA ShowingParts ==
  ASSUME showing \in Showing
  PROVE /\ LET new == [showing EXCEPT !.sync = "local"] IN
             /\ new \in Showing /\ new.sync = "local"
             /\ new.finish = showing.finish /\ new.remote = showing.remote
        /\ LET new == [showing EXCEPT !.finish = TRUE, !.sync = "local"] IN
             /\ new \in Showing /\ new.sync = "local"
             /\ new.finish = TRUE /\ new.remote = showing.remote
BY DEF Showing, Sync

\* New work, on a showing that has not ended, is queued.
LEMMA NewWorkIInv ==
  ASSUME IInv, AllStale, UNCHANGED <<apiVars, running, masked>>, ~showing.finish,
         showing' \in Showing, showing'.remote = showing.remote, showing'.sync = "local",
         media' \in [Media -> Medium], tags' \in [Tags -> Tag],
         \A m \in Media : media'[m] = media[m] \/ (media'[m].state = "pending"
                                                   /\ media'[m].url = media[m].url),
         \A t \in Tags : tags'[t] = tags[t] \/ tags'[t].state = "pending"
  PROVE IInv'
<1>1. /\ oversized' = oversized /\ visit' = visit /\ received' = received /\ stored' = stored
      /\ marked' = marked /\ processing' = processing /\ masked' = masked /\ running' = running
  BY DEF apiVars
<1>2. Grows
  BY <1>1 DEF Grows, Captured, Tagged
<1>3. refresh' \in [Refreshes -> Refresh] /\ \A q \in Refreshes : Kept(q)
  BY AllStaleParts DEF IInv
<1>4. TypeOK'
  BY <1>1, <1>3 DEF IInv, TypeOK, ApiTypeOK
<1>5. RowFacts'
  BY <1>1 DEF IInv, RowFacts
<1>6. ApiFacts'
  BY <1>1 DEF IInv, ApiFacts
<1>7. WorkIsQueuedUnlessMasked'
  BY DEF WorkIsQueuedUnlessMasked, WorkIsQueued, Pending
<1> QED
  BY <1>2, <1>3, <1>4, <1>5, <1>6, <1>7, KeptIInv

LEMMA CaptureIInv == ASSUME IInv, NEW m \in Media, Capture(m) PROVE IInv'
<1>1. showing \in Showing /\ media \in [Media -> Medium] /\ tags \in [Tags -> Tag]
  BY DEF IInv, TypeOK
<1>2. /\ AllStale /\ UNCHANGED <<apiVars, running, masked>> /\ ~showing.finish
      /\ tags' = tags /\ showing' = [showing EXCEPT !.sync = "local"]
      /\ media' = [media EXCEPT ![m].state = "pending"]
  BY DEF Capture
<1>3. PICK new : new = [media[m] EXCEPT !.state = "pending"]
  OBVIOUS
<1>4. new \in Medium /\ new.state = "pending" /\ new.url = media[m].url
  BY <1>1, <1>3 DEF Medium
<1>5. media' = [media EXCEPT ![m] = new]
  BY <1>2, <1>3
<1>6. media' \in [Media -> Medium] /\ media'[m] = new
      /\ \A n \in Media : n # m => media'[n] = media[n]
  BY <1>1, <1>4, <1>5
<1> QED
  BY <1>1, <1>2, <1>4, <1>6, ShowingParts, NewWorkIInv

LEMMA AddVoiceTagIInv == ASSUME IInv, NEW t \in Tags, AddVoiceTag(t) PROVE IInv'
<1>1. showing \in Showing /\ media \in [Media -> Medium] /\ tags \in [Tags -> Tag]
  BY DEF IInv, TypeOK
<1>2. /\ AllStale /\ UNCHANGED <<apiVars, running, masked>> /\ ~showing.finish
      /\ media' = media /\ showing' = [showing EXCEPT !.sync = "local"]
      /\ tags' = [tags EXCEPT ![t].state = "pending"]
  BY DEF AddVoiceTag
<1>3. PICK new : new = [tags[t] EXCEPT !.state = "pending"]
  OBVIOUS
<1>4. new \in Tag /\ new.state = "pending"
  BY <1>1, <1>3 DEF Tag
<1>5. tags' = [tags EXCEPT ![t] = new]
  BY <1>2, <1>3
<1>6. tags' \in [Tags -> Tag] /\ tags'[t] = new
      /\ \A u \in Tags : u # t => tags'[u] = tags[u]
  BY <1>1, <1>4, <1>5
<1> QED
  BY <1>1, <1>2, <1>4, <1>6, ShowingParts, NewWorkIInv

LEMMA FinishIInv == ASSUME IInv, Finish PROVE IInv'
<1>1. showing \in Showing /\ media \in [Media -> Medium] /\ tags \in [Tags -> Tag]
  BY DEF IInv, TypeOK
<1>2. /\ AllStale /\ UNCHANGED <<apiVars, running, masked>> /\ ~showing.finish
      /\ media' = media /\ tags' = tags
      /\ showing' = [showing EXCEPT !.finish = TRUE, !.sync = "local"]
  BY DEF Finish
<1> QED
  BY <1>1, <1>2, ShowingParts, NewWorkIInv


\* A URL grows old.
LEMMA UrlExpiresIInv == ASSUME IInv, NEW m \in Media, UrlExpires(m) PROVE IInv'
<1>1. media \in [Media -> Medium]
  BY DEF IInv, TypeOK
<1>2. /\ UNCHANGED <<apiVars, showing, tags, running, refresh, masked>>
      /\ media[m].url = "live" /\ media' = [media EXCEPT ![m].url = "expired"]
  BY DEF UrlExpires
<1>3. /\ oversized' = oversized /\ visit' = visit /\ received' = received /\ stored' = stored
      /\ marked' = marked /\ processing' = processing /\ showing' = showing
      /\ tags' = tags /\ masked' = masked /\ running' = running /\ refresh' = refresh
  BY <1>2 DEF apiVars
<1>4. PICK new : new = [media[m] EXCEPT !.url = "expired"]
  OBVIOUS
<1>5. new \in Medium /\ new.state = media[m].state
  BY <1>1, <1>4 DEF Medium
<1>6. media' = [media EXCEPT ![m] = new]
  BY <1>2, <1>4
<1>7. /\ media' \in [Media -> Medium]
      /\ \A n \in Media : media'[n].state = media[n].state
                          /\ (media'[n].url # "none" => media[n].url # "none")
  BY <1>1, <1>2, <1>5, <1>6
<1>8. Grows /\ SameRow
  BY <1>3, <1>7 DEF Grows, SameRow, NothingNew, Captured, Tagged
<1>9. \A q \in Refreshes : Kept(q)
  BY <1>3, <1>8 DEF Kept
<1>10. TypeOK'
  BY <1>3, <1>7 DEF IInv, TypeOK, ApiTypeOK
<1>11. RowFacts'
  BY <1>3, <1>7 DEF IInv, RowFacts
<1>12. ApiFacts'
  BY <1>3, <1>8, KeepsApi DEF IInv
<1>13. WorkIsQueuedUnlessMasked'
  BY <1>3, <1>8, KeepsQueued DEF IInv, SameRow
<1> QED
  BY <1>8, <1>9, <1>10, <1>11, <1>12, <1>13, KeptIInv

\* The server works on what it has, or the agent confirms it.
LEMMA ServerIInv == ASSUME IInv, Server PROVE IInv'
<1>1. /\ UNCHANGED <<phoneVars, running, refresh, masked>>
      /\ UNCHANGED <<oversized, received, stored, marked>>
      /\ processing # "not_started" /\ processing' # "not_started"
      /\ visit # "none" => visit' # "none"
  BY DEF Server, Process, ConfirmShowing
<1>2. ApiTypeOK'
  BY DEF IInv, TypeOK, ApiTypeOK, Server, Process, ConfirmShowing, Processing, Running
<1>3. /\ oversized' = oversized /\ received' = received /\ stored' = stored
      /\ marked' = marked /\ showing' = showing /\ media' = media
      /\ tags' = tags /\ masked' = masked /\ running' = running /\ refresh' = refresh
  BY <1>1 DEF phoneVars
<1>4. Grows /\ SameRow
  BY <1>1, <1>3 DEF Grows, SameRow, NothingNew, Captured, Tagged
<1>5. \A q \in Refreshes : Kept(q)
  BY <1>3, <1>4 DEF Kept
<1>6. TypeOK'
  BY <1>2, <1>3 DEF IInv, TypeOK
<1>7. RowFacts'
  BY <1>1, <1>3 DEF IInv, RowFacts
<1>8. ApiFacts'
  BY <1>1, <1>3 DEF IInv, ApiFacts, AllIn, Captured, Tagged
<1>9. WorkIsQueuedUnlessMasked'
  BY <1>3, <1>4, KeepsQueued DEF IInv, SameRow
<1> QED
  BY <1>4, <1>5, <1>6, <1>7, <1>8, <1>9, KeptIInv

-----------------------------------------------------------------------------
(* Steps that write the row with the generation that was read              *)

\* The showing's own requests: they create it, or end it with everything in.
ShowingMoves ==
  /\ UNCHANGED <<oversized, received, stored, marked>>
  /\ ApiTypeOK'
  /\ visit # "none" => visit' # "none"
  /\ visit' = "confirmed" => visit = "confirmed"
  /\ processing # "not_started" => processing' # "not_started"
  /\ processing' # "not_started" => processing # "not_started" \/ (showing.finish /\ AllIn)

\* The row is written and the refresh goes on, or it is not and the run ends.
LEMMA PatchIInv ==
  ASSUME IInv, NEW r \in Refreshes, NEW place \in {"claimed", "ended"}, NEW new \in Showing,
         PatchShowing(r, new, place), ShowingMoves, UNCHANGED <<media, tags, running, masked>>,
         new.finish = showing.finish, new.remote => visit' # "none",
         \/ new.sync \in Pending \cup {showing.sync}
         \/ refresh[r].fresh /\ showing' = new => ~LeftBehind'
  PROVE IInv'
<1> USE DEF Places
<1>1. TypeOK /\ RowFacts /\ ApiFacts /\ WorkIsQueuedUnlessMasked /\ showing \in Showing
  BY DEF IInv, TypeOK
<1>2. CASE refresh[r].fresh /\ showing' = new /\ Stale(r, place)
  <2>1. /\ refresh' \in [Refreshes -> Refresh]
        /\ refresh'[r].at = place /\ refresh'[r].items = NoItems /\ refresh'[r].marks = {}
        /\ refresh'[r].remote = "not_started" /\ \A q \in Refreshes : q # r => Kept(q)
    BY <1>1, <1>2, StaleParts
  <2>2. Listed(r)' /\ Reached(r)'
    BY <2>1, Rests
  <2>3. NothingNew /\ showing'.finish = showing.finish
    BY <1>2 DEF NothingNew, Captured, Tagged
  <2>4. Grows
    BY <1>2, <2>3 DEF Grows, NothingNew, Captured, Tagged, ShowingMoves
  <2>5. TypeOK'
    BY <1>1, <1>2, <2>1 DEF TypeOK, ShowingMoves
  <2>6. RowFacts'
    BY <1>1, <1>2 DEF RowFacts, ShowingMoves
  <2>7. ApiFacts'
    BY <1>1, <2>3, <2>4, KeepsAllIn DEF ApiFacts, ShowingMoves
  <2>8. WorkIsQueuedUnlessMasked'
    <3>1. CASE new.sync \in Pending \cup {showing.sync}
      BY <1>1, <1>2, <2>3, <2>4, <3>1, KeepsQueued
    <3>2. CASE ~LeftBehind'
      BY <3>2 DEF WorkIsQueuedUnlessMasked, WorkIsQueued
    <3> QED
      BY <1>2, <3>1, <3>2
  <2> QED
    BY <2>1, <2>2, <2>4, <2>5, <2>6, <2>7, <2>8, StepIInv
<1>3. CASE ~refresh[r].fresh /\ UNCHANGED showing /\ End(r)
  <2>1. /\ refresh' \in [Refreshes -> Refresh]
        /\ refresh'[r].at = "ended" /\ refresh'[r].items = NoItems /\ refresh'[r].marks = {}
        /\ refresh'[r].remote = "not_started"
        /\ \A q \in Refreshes : q # r => refresh'[q] = refresh[q]
    BY <1>1, <1>3, EndParts
  <2>2. Listed(r)' /\ Reached(r)'
    BY <2>1, Rests
  <2>3. NothingNew /\ SameRow
    BY <1>3 DEF NothingNew, Captured, Tagged, SameRow
  <2>4. Grows
    BY <1>3, <2>3 DEF Grows, NothingNew, Captured, Tagged, ShowingMoves
  <2>5. TypeOK'
    BY <1>1, <1>3, <2>1 DEF TypeOK, ShowingMoves
  <2>6. RowFacts'
    BY <1>1, <1>3 DEF RowFacts, ShowingMoves
  <2>7. ApiFacts'
    BY <1>1, <1>3, <2>3, <2>4, KeepsAllIn DEF ApiFacts, ShowingMoves
  <2>8. WorkIsQueuedUnlessMasked'
    BY <1>1, <2>3, <2>4, KeepsQueued DEF SameRow
  <2>9. \A q \in Refreshes : q # r => Kept(q)
    BY <2>1, <2>3 DEF Kept
  <2> QED
    BY <2>2, <2>4, <2>5, <2>6, <2>7, <2>8, <2>9, StepIInv
<1> QED
  BY <1>2, <1>3 DEF PatchShowing

\* The request or its answer is lost, and the run fails.
LEMMA LostIInv ==
  ASSUME IInv, NEW r \in Refreshes, Go(r, "failing"), ShowingMoves,
         UNCHANGED <<phoneVars, running, masked>>
  PROVE IInv'
<1> USE DEF Places
<1>1. TypeOK /\ RowFacts /\ ApiFacts /\ WorkIsQueuedUnlessMasked /\ Listed(r) /\ Reached(r)
  BY DEF IInv
<1>2. UNCHANGED <<media, tags, showing, running, masked>>
  BY DEF phoneVars
<1>3. NothingNew /\ SameRow
  BY <1>2 DEF NothingNew, Captured, Tagged, SameRow
<1>4. Grows
  BY <1>2, <1>3 DEF Grows, NothingNew, Captured, Tagged, ShowingMoves
<1>5. /\ refresh' \in [Refreshes -> Refresh]
      /\ refresh'[r].at = "failing" /\ refresh'[r].items = refresh[r].items
      /\ refresh'[r].marks = refresh[r].marks /\ refresh'[r].remote = refresh[r].remote
      /\ \A q \in Refreshes : q # r => refresh'[q] = refresh[q]
  BY <1>1, GoParts
<1>6. Listed(r)'
  BY <1>1, <1>4, <1>5, KeepsListed
<1>7. Reached(r)'
  BY <1>1, <1>4, <1>5 DEF Reached, Grows
<1>8. TypeOK'
  BY <1>1, <1>2, <1>5 DEF TypeOK, ShowingMoves
<1>9. RowFacts'
  BY <1>1, <1>2 DEF RowFacts, ShowingMoves
<1>10. ApiFacts'
  BY <1>1, <1>2, <1>3, <1>4, KeepsAllIn DEF ApiFacts, ShowingMoves
<1>11. WorkIsQueuedUnlessMasked'
  BY <1>1, <1>2, <1>3, <1>4, KeepsQueued DEF SameRow
<1>12. \A q \in Refreshes : q # r => Kept(q)
  BY <1>3, <1>5 DEF Kept
<1> QED
  BY <1>4, <1>6, <1>7, <1>8, <1>9, <1>10, <1>11, <1>12, StepIInv

\* No request of the showing's own.
LEMMA NoMoves == ASSUME IInv, UNCHANGED apiVars PROVE ShowingMoves
BY DEF IInv, TypeOK, ApiTypeOK, apiVars, ShowingMoves

LEMMA CreateMoves == ASSUME IInv, CreateShowing PROVE ShowingMoves /\ visit' # "none"
BY DEF IInv, TypeOK, ApiTypeOK, CreateShowing, ShowingMoves

LEMMA FinishMoves ==
  ASSUME IInv, FinishShowing, showing.finish, AllIn PROVE ShowingMoves /\ visit' # "none"
BY DEF IInv, TypeOK, ApiTypeOK, FinishShowing, FinishAccepts, Processing, Running, ShowingMoves

\* The row as the engine writes it.
LEMMA PatchParts ==
  ASSUME showing \in Showing
  PROVE /\ \A sync \in Sync : LET new == [showing EXCEPT !.sync = sync] IN
             /\ new \in Showing /\ new.sync = sync
             /\ new.finish = showing.finish /\ new.remote = showing.remote
        /\ LET new == [showing EXCEPT !.remote = TRUE] IN
             /\ new \in Showing /\ new.sync = showing.sync /\ new.finish = showing.finish
        /\ LET new == [showing EXCEPT !.sync = "processing", !.processing = "queued"] IN
             /\ new \in Showing /\ new.finish = showing.finish
             /\ new.remote = showing.remote
BY DEF Showing, Sync, Processing, Running


\* The row is claimed.
LEMMA ClaimIInv == ASSUME IInv, NEW r \in Refreshes, Claim(r) PROVE IInv'
<1>1. showing \in Showing /\ (showing.remote => visit # "none")
  BY DEF IInv, TypeOK, RowFacts
<1>2. PICK new : new = [showing EXCEPT !.sync = "local"]
  OBVIOUS
<1>3. /\ PatchShowing(r, new, "claimed") /\ UNCHANGED apiVars
      /\ UNCHANGED <<media, tags, running, masked>>
  BY <1>2 DEF Claim
<1>4. new \in Showing /\ new.sync = "local" /\ new.finish = showing.finish
      /\ new.remote = showing.remote
  BY <1>1, <1>2, PatchParts DEF Sync
<1>5. ShowingMoves
  BY <1>3, NoMoves
<1> QED
  BY <1>1, <1>3, <1>4, <1>5, PatchIInv DEF ShowingMoves, Pending

\* The showing is created, and the row says so.
LEMMA CreateRemoteIInv == ASSUME IInv, NEW r \in Refreshes, CreateRemote(r) PROVE IInv'
<1>1. showing \in Showing
  BY DEF IInv, TypeOK
<1>2. PICK new : new = [showing EXCEPT !.remote = TRUE]
  OBVIOUS
<1>3. /\ PatchShowing(r, new, "claimed") /\ CreateShowing
      /\ UNCHANGED <<media, tags, running, masked>>
  BY <1>2 DEF CreateRemote
<1>4. new \in Showing /\ new.sync = showing.sync /\ new.finish = showing.finish
  BY <1>1, <1>2, PatchParts
<1>5. ShowingMoves /\ visit' # "none"
  BY <1>3, CreateMoves
<1> QED
  BY <1>3, <1>4, <1>5, PatchIInv DEF Pending

\* The run settles the row, knowing what is in.
LEMMA SyncedIInv == ASSUME IInv, NEW r \in Refreshes, Synced(r) PROVE IInv'
<1>1. showing \in Showing /\ (showing.remote => visit # "none") /\ Reached(r)
  BY DEF IInv, TypeOK, RowFacts
<1>2. UNCHANGED apiVars /\ UNCHANGED <<media, tags, running, masked>>
  BY DEF Synced
<1>3. ShowingMoves
  BY <1>2, NoMoves
<1>4. ASSUME At(r, "synced"), PatchShowing(r, [showing EXCEPT !.sync = "synced"], "ended")
      PROVE IInv'
  <2>1. PICK new : new = [showing EXCEPT !.sync = "synced"]
    OBVIOUS
  <2>2. new \in Showing /\ new.finish = showing.finish /\ new.remote = showing.remote
    BY <1>1, <2>1, PatchParts DEF Sync
  <2>3. PatchShowing(r, new, "ended")
    BY <1>4, <2>1
  <2>4. refresh[r].fresh /\ showing' = new => ~LeftBehind'
    <3>1. refresh[r].fresh => AllIn /\ ~showing.finish
      BY <1>1, <1>4 DEF Reached, At
    <3> QED
      BY <1>2, <2>2, <3>1 DEF AllIn, LeftBehind, Captured, Tagged, apiVars
  <2> QED
    BY <1>1, <1>2, <1>3, <2>2, <2>3, <2>4, PatchIInv DEF ShowingMoves
<1>5. ASSUME PatchShowing(r, [showing EXCEPT !.sync = "failed"], "ended") PROVE IInv'
  <2>1. PICK new : new = [showing EXCEPT !.sync = "failed"]
    OBVIOUS
  <2>2. new \in Showing /\ new.sync = "failed" /\ new.finish = showing.finish
        /\ new.remote = showing.remote
    BY <1>1, <2>1, PatchParts DEF Sync
  <2>3. PatchShowing(r, new, "ended")
    BY <1>5, <2>1
  <2> QED
    BY <1>1, <1>2, <1>3, <2>2, <2>3, PatchIInv DEF ShowingMoves, Pending
<1> QED
  BY <1>4, <1>5 DEF Synced

\* The catch of a run leaves the row in the queue.
LEMMA RunFailsIInv == ASSUME IInv, NEW r \in Refreshes, RunFails(r) PROVE IInv'
<1>1. showing \in Showing /\ (showing.remote => visit # "none")
  BY DEF IInv, TypeOK, RowFacts
<1>2. PICK new : new = [showing EXCEPT !.sync = "failed"]
  OBVIOUS
<1>3. /\ PatchShowing(r, new, "ended") /\ UNCHANGED apiVars
      /\ UNCHANGED <<media, tags, running, masked>>
  BY <1>2 DEF RunFails
<1>4. new \in Showing /\ new.sync = "failed" /\ new.finish = showing.finish
      /\ new.remote = showing.remote
  BY <1>1, <1>2, PatchParts DEF Sync
<1>5. ShowingMoves
  BY <1>3, NoMoves
<1> QED
  BY <1>1, <1>3, <1>4, <1>5, PatchIInv DEF ShowingMoves, Pending

\* The showing is ended at the server, with everything in, or refused.
LEMMA FinishRemoteIInv == ASSUME IInv, NEW r \in Refreshes, FinishRemote(r) PROVE IInv'
<1>1. showing \in Showing /\ Reached(r)
  BY DEF IInv, TypeOK
<1>2. At(r, "finish") /\ UNCHANGED <<media, tags, running, masked>>
  BY DEF FinishRemote
<1>3. showing.finish /\ AllIn
  BY <1>1, <1>2 DEF Reached, At
<1>4. ASSUME FinishShowing, PatchShowing(r, [showing EXCEPT !.sync = "processing",
                                                            !.processing = "queued"], "ended")
      PROVE IInv'
  <2>1. PICK new : new = [showing EXCEPT !.sync = "processing", !.processing = "queued"]
    OBVIOUS
  <2>2. new \in Showing /\ new.finish = showing.finish /\ new.remote = showing.remote
    BY <1>1, <2>1, PatchParts DEF Sync, Processing, Running
  <2>3. PatchShowing(r, new, "ended")
    BY <1>4, <2>1
  <2>4. ShowingMoves /\ visit' # "none"
    BY <1>3, <1>4, FinishMoves
  <2>5. ~LeftBehind'
    BY <1>2, <1>3, <1>4 DEF FinishShowing, AllIn, LeftBehind, Captured, Tagged
  <2> QED
    BY <1>2, <2>2, <2>3, <2>4, <2>5, PatchIInv
<1>5. ASSUME Go(r, "failing"), UNCHANGED <<apiVars, showing>> PROVE IInv'
  BY <1>2, <1>5, NoMoves, LostIInv DEF phoneVars
<1> QED
  BY <1>4, <1>5 DEF FinishRemote

\* The answer, or the request, is lost.
LEMMA CreateLostIInv == ASSUME IInv, NEW r \in Refreshes, CreateLost(r) PROVE IInv'
BY CreateMoves, NoMoves, LostIInv DEF CreateLost

LEMMA FinishLostIInv == ASSUME IInv, NEW r \in Refreshes, FinishLost(r) PROVE IInv'
<1>1. showing.finish /\ AllIn
  BY DEF IInv, Reached, FinishLost, At
<1> QED
  BY <1>1, FinishMoves, NoMoves, LostIInv DEF FinishLost


-----------------------------------------------------------------------------
(* Steps that handle a medium                                              *)

\* The requests for a medium.
ItemMoves ==
  /\ UNCHANGED <<oversized, visit, marked, processing>>
  /\ received' \in [Media -> {"none", "pending", "uploaded"}]
  /\ stored' \subseteq Media /\ stored \subseteq stored'
  /\ \A n \in Media :
       /\ received[n] # "none" => received'[n] # "none"
       /\ received[n] = "uploaded" => received'[n] = "uploaded"
       /\ received'[n] = "uploaded" => n \in stored'

LEMMA NoItemMoves == ASSUME IInv, UNCHANGED apiVars PROVE ItemMoves
BY DEF IInv, TypeOK, ApiTypeOK, RowFacts, apiVars, ItemMoves

LEMMA PresignMoves ==
  ASSUME IInv, NEW m \in Media, PresignMedia(m) PROVE ItemMoves /\ received'[m] # "none"
BY DEF IInv, TypeOK, ApiTypeOK, RowFacts, PresignMedia, PresignAccepts, ItemMoves

LEMMA PutMoves ==
  ASSUME IInv, NEW m \in Media, PutObject(m)
  PROVE ItemMoves /\ m \in stored' /\ received' = received
BY DEF IInv, TypeOK, ApiTypeOK, RowFacts, PutObject, ItemMoves

LEMMA CompleteMoves ==
  ASSUME IInv, NEW m \in Media, CompleteMedia(m)
  PROVE ItemMoves /\ received'[m] = "uploaded"
BY DEF IInv, TypeOK, ApiTypeOK, RowFacts, CompleteMedia, CompleteAccepts, ItemMoves

\* The row of a medium tells no more than the server has.
Tells(new, m) ==
  /\ new.state # "none"
  /\ new.url # "none" => received'[m] # "none"
  /\ new.state = "uploaded" => m \in stored'
  /\ new.state = "completed" => received'[m] = "uploaded"
  /\ new.state = "rejected" /\ m \notin oversized => received'[m] = "uploaded"

\* What may be assumed of the medium in hand.
LEMMA ItemFacts ==
  ASSUME IInv, NEW r \in Refreshes, Items(r) # {}
  PROVE /\ Item(r) \in Items(r) /\ Item(r) \in Media /\ Captured(Item(r))
        /\ media[Item(r)] \in Medium
        /\ media[Item(r)].url # "none" => received[Item(r)] # "none"
BY DEF IInv, TypeOK, RowFacts, Listed, Item

\* Nothing is taken back by it.
LEMMA ItemGrows ==
  ASSUME IInv, NEW m \in Media, Captured(m), ItemMoves,
         NEW new \in Medium, media' = [media EXCEPT ![m] = new], Tells(new, m),
         UNCHANGED <<showing, tags>>
  PROVE /\ media' \in [Media -> Medium] /\ media'[m] = new
        /\ \A n \in Media : n # m => media'[n] = media[n]
        /\ Grows /\ SameRow
<1>1. media \in [Media -> Medium]
  BY DEF IInv, TypeOK
<1>2. /\ media' \in [Media -> Medium] /\ media'[m] = new
      /\ \A n \in Media : n # m => media'[n] = media[n]
  BY <1>1
<1>3. NothingNew /\ \A n \in Media : Captured(n) => Captured(n)'
  BY <1>2 DEF NothingNew, Captured, Tagged, Tells
<1>4. Grows /\ SameRow
  BY <1>3 DEF Grows, SameRow, Tagged, ItemMoves
<1> QED
  BY <1>2, <1>4

\* Its row is written, and only this refresh moves.
LEMMA ItemIInv ==
  ASSUME IInv, NEW r \in Refreshes, NEW m \in Media, Captured(m), ItemMoves,
         NEW new \in Medium, media' = [media EXCEPT ![m] = new], Tells(new, m),
         UNCHANGED <<showing, tags, running, masked>>,
         refresh' \in [Refreshes -> Refresh],
         \A q \in Refreshes : q # r => refresh'[q] = refresh[q],
         Grows /\ SameRow => Listed(r)' /\ Reached(r)'
  PROVE IInv'
<1>1. TypeOK /\ RowFacts /\ ApiFacts /\ WorkIsQueuedUnlessMasked
  BY DEF IInv
<1>2. /\ media' \in [Media -> Medium] /\ media'[m] = new
      /\ \A n \in Media : n # m => media'[n] = media[n]
  BY ItemGrows
<1>3. Grows /\ SameRow
  BY ItemGrows
<1>4. TypeOK'
  BY <1>1, <1>2 DEF TypeOK, ApiTypeOK, ItemMoves
<1>5. RowFacts'
  <2>1. ASSUME NEW n \in Media
        PROVE /\ media'[n].url # "none" => received'[n] # "none"
              /\ media'[n].state = "uploaded" => n \in stored'
              /\ media'[n].state = "completed" => received'[n] = "uploaded"
              /\ media'[n].state = "rejected" /\ n \notin oversized =>
                   received'[n] = "uploaded"
              /\ received'[n] = "uploaded" => n \in stored'
    <3>1. CASE n = m
      BY <1>2, <3>1 DEF Tells, ItemMoves
    <3>2. CASE n # m
      BY <1>1, <1>2, <3>2 DEF RowFacts, ItemMoves
    <3> QED
      BY <3>1, <3>2
  <2> QED
    BY <1>1, <2>1 DEF RowFacts, ItemMoves
<1>6. ApiFacts'
  BY <1>1, <1>3, KeepsApi DEF ItemMoves
<1>7. WorkIsQueuedUnlessMasked'
  BY <1>1, <1>3, KeepsQueued DEF SameRow
<1>8. \A q \in Refreshes : q # r => Kept(q)
  BY <1>3 DEF Kept
<1> QED
  BY <1>3, <1>4, <1>5, <1>6, <1>7, <1>8, StepIInv

\* The refresh goes to the next request for its medium.
LEMMA ItemGoes ==
  ASSUME IInv, NEW r \in Refreshes, Items(r) # {}, NEW place \in {"upload", "complete"},
         Go(r, place), Grows, visit' # "none", received'[Item(r)] # "none",
         place = "complete" => Item(r) \in stored'
  PROVE /\ refresh' \in [Refreshes -> Refresh]
        /\ \A q \in Refreshes : q # r => refresh'[q] = refresh[q]
        /\ Listed(r)' /\ Reached(r)'
<1> USE DEF Places
<1>1. TypeOK /\ Listed(r) /\ Reached(r)
  BY DEF IInv
<1>2. /\ refresh' \in [Refreshes -> Refresh]
      /\ refresh'[r].at = place /\ refresh'[r].items = refresh[r].items
      /\ refresh'[r].marks = refresh[r].marks /\ refresh'[r].remote = refresh[r].remote
      /\ \A q \in Refreshes : q # r => refresh'[q] = refresh[q]
  BY <1>1, GoParts
<1>3. Listed(r)'
  BY <1>1, <1>2, KeepsListed
<1>4. Items(r)' = Items(r) /\ Item(r)' = Item(r)
  BY <1>2 DEF Items, Item
<1>5. Reached(r)'
  BY <1>1, <1>2, <1>4 DEF Reached, Grows
<1> QED
  BY <1>2, <1>3, <1>5

\* Or to the next medium of its listing.
LEMMA ItemDone ==
  ASSUME IInv, NEW r \in Refreshes, Items(r) # {}, Done(r), Grows, visit' # "none"
  PROVE /\ refresh' \in [Refreshes -> Refresh]
        /\ \A q \in Refreshes : q # r => refresh'[q] = refresh[q]
        /\ Listed(r)' /\ Reached(r)'
<1> USE DEF Places
<1>1. TypeOK /\ Listed(r) /\ Reached(r) /\ refresh[r] \in Refresh
      /\ refresh \in [Refreshes -> Refresh]
  BY DEF IInv, TypeOK
<1>2. PICK known : known = refresh[r].items
  OBVIOUS
<1>3. known \in Listings /\ Items(r) = DOMAIN known
  BY <1>1, <1>2 DEF Refresh, Items
<1>4. DOMAIN known \in SUBSET Media /\ known \in [DOMAIN known -> Medium]
  BY <1>3, ListingTypes
<1>5. PICK rest \in SUBSET (DOMAIN known) : rest = Items(r) \ {Item(r)}
  BY <1>3
<1>6. PICK items : items = [m \in rest |-> known[m]]
  OBVIOUS
<1>7. items \in [rest -> Medium] /\ rest \in SUBSET Media
  BY <1>4, <1>5, <1>6
<1>8. items \in Listings /\ DOMAIN items = rest /\ \A m \in rest : items[m] = known[m]
  BY <1>6, <1>7, ListingTypes
<1>9. PICK f : f = [refresh[r] EXCEPT !.at = "media", !.again = FALSE, !.items = items]
  OBVIOUS
<1>10. f = [at |-> "media", fresh |-> refresh[r].fresh, items |-> items,
            again |-> FALSE, marks |-> refresh[r].marks,
            seen |-> refresh[r].seen, remote |-> refresh[r].remote]
  BY <1>1, <1>9 DEF Refresh
<1>11. /\ f \in Refresh /\ f.at = "media" /\ f.items = items
       /\ f.marks = refresh[r].marks /\ f.remote = refresh[r].remote
  <2>1. refresh[r].fresh \in BOOLEAN /\ refresh[r].seen \in Row
        /\ refresh[r].remote \in Processing /\ refresh[r].marks \in SUBSET Tags
    BY <1>1 DEF Refresh
  <2> QED
    BY <1>8, <1>10, <2>1 DEF Refresh
<1>12. refresh' = [refresh EXCEPT ![r] = f]
  <2>1. items = [m \in Items(r) \ {Item(r)} |-> refresh[r].items[m]]
    BY <1>2, <1>5, <1>6
  <2> QED
    BY <1>1, <1>9, <2>1 DEF Done
<1>13. /\ refresh' \in [Refreshes -> Refresh] /\ refresh'[r] = f
       /\ \A q \in Refreshes : q # r => refresh'[q] = refresh[q]
  BY <1>1, <1>11, <1>12, OneChanges
<1>14. Listed(r)'
  <2>1. \A m \in rest : m \in Media /\ Captured(m)
                        /\ (items[m].url # "none" => received[m] # "none")
                        /\ (items[m].state = "uploaded" => m \in stored)
    BY <1>1, <1>2, <1>3, <1>5, <1>8 DEF Listed
  <2> QED
    BY <1>1, <1>8, <1>11, <1>13, <2>1 DEF Listed, Items, Grows
<1>15. Reached(r)'
  BY <1>1, <1>11, <1>13 DEF Reached, Grows
<1> QED
  BY <1>13, <1>14, <1>15


\* Or it stops, to try again later.
LEMMA ItemLeaves ==
  ASSUME IInv, NEW r \in Refreshes, Leave(r, "failing")
  PROVE /\ refresh' \in [Refreshes -> Refresh]
        /\ \A q \in Refreshes : q # r => refresh'[q] = refresh[q]
        /\ Listed(r)' /\ Reached(r)'
<1>1. TypeOK /\ "failing" \in Places
  BY DEF IInv, Places
<1> QED
  BY <1>1, LeaveParts, Rests

\* What is refused is with the server already, or can never be.
LEMMA RefusedIsIn ==
  ASSUME IInv, NEW m \in Media, Captured(m), m \notin oversized, visit = "confirmed"
  PROVE received[m] = "uploaded"
BY DEF IInv, ApiFacts, AllIn

\* A medium that failed waits for another run.
LEMMA FailsIInv ==
  ASSUME IInv, NEW r \in Refreshes, Items(r) # {}, ItemMoves, FailsLater(r, Item(r)),
         UNCHANGED <<showing, tags, running, masked>>
  PROVE IInv'
<1>1. PICK m \in Media : m = Item(r)
  BY ItemFacts
<1>2. media[m] \in Medium /\ Captured(m) /\ (media[m].url # "none" => received[m] # "none")
  BY <1>1, ItemFacts
<1>3. PICK new : new = [state |-> "pending", url |-> media[m].url, tried |-> TRUE]
  OBVIOUS
<1>4. new \in Medium /\ new.state = "pending" /\ new.url = media[m].url
  BY <1>2, <1>3 DEF Medium
<1>5. media' = [media EXCEPT ![m] = new]
  BY <1>1, <1>3 DEF FailsLater
<1>6. Tells(new, m)
  BY <1>2, <1>4 DEF Tells, ItemMoves
<1>7. /\ refresh' \in [Refreshes -> Refresh]
      /\ \A q \in Refreshes : q # r => refresh'[q] = refresh[q]
      /\ Listed(r)' /\ Reached(r)'
  BY ItemLeaves DEF FailsLater
<1> QED
  BY <1>2, <1>4, <1>5, <1>6, <1>7, ItemIInv

\* A medium that is settled is not looked at again.
LEMMA SettleIInv ==
  ASSUME IInv, NEW r \in Refreshes, Items(r) # {}, visit # "none", ItemMoves,
         NEW state \in {"completed", "rejected"}, Settle(r, Item(r), state),
         state = "completed" \/ Item(r) \notin oversized => received'[Item(r)] = "uploaded",
         UNCHANGED <<showing, tags, running, masked>>
  PROVE IInv'
<1>1. PICK m \in Media : m = Item(r)
  BY ItemFacts
<1>2. media[m] \in Medium /\ Captured(m) /\ (media[m].url # "none" => received[m] # "none")
  BY <1>1, ItemFacts
<1>3. PICK new : new = [state |-> state, url |-> media[m].url, tried |-> FALSE]
  OBVIOUS
<1>4. new \in Medium /\ new.state = state /\ new.url = media[m].url
  BY <1>2, <1>3 DEF Medium
<1>5. media' = [media EXCEPT ![m] = new]
  BY <1>1, <1>3 DEF Settle
<1>6. Tells(new, m)
  BY <1>1, <1>2, <1>4 DEF Tells, ItemMoves
<1>7. Grows => /\ refresh' \in [Refreshes -> Refresh]
               /\ \A q \in Refreshes : q # r => refresh'[q] = refresh[q]
               /\ Listed(r)' /\ Reached(r)'
  BY ItemDone DEF Settle, ItemMoves
<1>8. Grows
  BY <1>2, <1>4, <1>5, <1>6, ItemGrows
<1> QED
  BY <1>2, <1>4, <1>5, <1>6, <1>7, <1>8, ItemIInv

\* A URL is had, or the server refuses.
LEMMA PresignItemIInv == ASSUME IInv, NEW r \in Refreshes, PresignItem(r) PROVE IInv'
<1>1. PICK m : m = Item(r)
  OBVIOUS
<1>2. At(r, "presign") /\ UNCHANGED <<showing, tags, running, masked>>
  BY DEF PresignItem
<1>3. visit # "none" /\ Items(r) # {}
  BY <1>2 DEF IInv, Reached, At
<1>4. m \in Media /\ media[m] \in Medium /\ Captured(m)
  BY <1>1, <1>3, ItemFacts
<1>5. ASSUME PresignMedia(m), Now(m, "pending", "live"), Go(r, "upload") PROVE IInv'
  <2>1. ItemMoves /\ received'[m] # "none"
    BY <1>4, <1>5, PresignMoves
  <2>2. PICK new : new = [state |-> "pending", url |-> "live", tried |-> media[m].tried]
    OBVIOUS
  <2>3. new \in Medium /\ new.state = "pending"
    BY <1>4, <2>2 DEF Medium
  <2>4. media' = [media EXCEPT ![m] = new]
    BY <1>5, <2>2 DEF Now
  <2>5. Tells(new, m)
    BY <2>1, <2>3 DEF Tells
  <2>6. Grows
    BY <1>2, <1>4, <2>1, <2>3, <2>4, <2>5, ItemGrows
  <2>7. /\ refresh' \in [Refreshes -> Refresh]
        /\ \A q \in Refreshes : q # r => refresh'[q] = refresh[q]
        /\ Listed(r)' /\ Reached(r)'
    BY <1>1, <1>3, <1>5, <2>1, <2>6, ItemGoes DEF ItemMoves
  <2> QED
    BY <1>2, <1>4, <2>1, <2>3, <2>4, <2>5, <2>7, ItemIInv
<1>6. ASSUME ~PresignAccepts(m), Settle(r, m, "rejected"), UNCHANGED apiVars PROVE IInv'
  <2>1. m \notin oversized => received[m] = "uploaded"
    BY <1>3, <1>4, <1>6, RefusedIsIn DEF PresignAccepts, IInv, TypeOK, ApiTypeOK
  <2>2. received' = received /\ ItemMoves
    BY <1>6, NoItemMoves DEF apiVars
  <2> QED
    BY <1>1, <1>2, <1>3, <1>6, <2>1, <2>2, SettleIInv
<1> QED
  BY <1>1, <1>5, <1>6 DEF PresignItem

\* The object is put, or the URL is old: another one is asked for, once.
LEMMA UploadItemIInv == ASSUME IInv, NEW r \in Refreshes, UploadItem(r) PROVE IInv'
<1> USE DEF Places
<1>1. PICK m : m = Item(r)
  OBVIOUS
<1>2. At(r, "upload") /\ UNCHANGED <<showing, tags, running, masked>>
  BY DEF UploadItem
<1>3. visit # "none" /\ Items(r) # {} /\ received[m] # "none"
  BY <1>1, <1>2 DEF IInv, Reached, At
<1>4. m \in Media /\ media[m] \in Medium /\ Captured(m)
  BY <1>1, <1>3, ItemFacts
<1>5. ASSUME PutObject(m), Now(m, "uploaded", "live"), Go(r, "complete") PROVE IInv'
  <2>1. ItemMoves /\ m \in stored' /\ received' = received
    BY <1>4, <1>5, PutMoves
  <2>2. PICK new : new = [state |-> "uploaded", url |-> "live", tried |-> media[m].tried]
    OBVIOUS
  <2>3. new \in Medium /\ new.state = "uploaded"
    BY <1>4, <2>2 DEF Medium
  <2>4. media' = [media EXCEPT ![m] = new]
    BY <1>5, <2>2 DEF Now
  <2>5. Tells(new, m)
    BY <1>3, <2>1, <2>3 DEF Tells
  <2>6. Grows
    BY <1>2, <1>4, <2>1, <2>3, <2>4, <2>5, ItemGrows
  <2>7. /\ refresh' \in [Refreshes -> Refresh]
        /\ \A q \in Refreshes : q # r => refresh'[q] = refresh[q]
        /\ Listed(r)' /\ Reached(r)'
    BY <1>1, <1>3, <1>5, <2>1, <2>6, ItemGoes DEF ItemMoves
  <2> QED
    BY <1>2, <1>4, <2>1, <2>3, <2>4, <2>5, <2>7, ItemIInv
<1>6. ASSUME Now(m, "pending", "expired"), UNCHANGED apiVars,
             refresh' = [refresh EXCEPT ![r].at = "presign", ![r].again = TRUE]
      PROVE IInv'
  <2>1. ItemMoves /\ received' = received /\ visit' = visit
    BY <1>6, NoItemMoves DEF apiVars
  <2>2. PICK new : new = [state |-> "pending", url |-> "expired", tried |-> media[m].tried]
    OBVIOUS
  <2>3. new \in Medium /\ new.state = "pending"
    BY <1>4, <2>2 DEF Medium
  <2>4. media' = [media EXCEPT ![m] = new]
    BY <1>6, <2>2 DEF Now
  <2>5. Tells(new, m)
    BY <1>3, <2>1, <2>3 DEF Tells
  <2>6. TypeOK /\ Listed(r) /\ Reached(r) /\ refresh[r] \in Refresh
        /\ refresh \in [Refreshes -> Refresh]
    BY DEF IInv, TypeOK
  <2>7. PICK f : f = [refresh[r] EXCEPT !.at = "presign", !.again = TRUE]
    OBVIOUS
  <2>8. f = [at |-> "presign", fresh |-> refresh[r].fresh, items |-> refresh[r].items,
             again |-> TRUE, marks |-> refresh[r].marks,
             seen |-> refresh[r].seen, remote |-> refresh[r].remote]
    BY <2>6, <2>7 DEF Refresh
  <2>9. /\ f \in Refresh /\ f.at = "presign" /\ f.items = refresh[r].items
        /\ f.marks = refresh[r].marks /\ f.remote = refresh[r].remote
    BY <2>6, <2>8 DEF Refresh
  <2>10. refresh' = [refresh EXCEPT ![r] = f]
    BY <1>6, <2>6, <2>7
  <2>11. /\ refresh' \in [Refreshes -> Refresh] /\ refresh'[r] = f
         /\ \A q \in Refreshes : q # r => refresh'[q] = refresh[q]
    BY <2>6, <2>9, <2>10, OneChanges
  <2>12. Grows => Listed(r)' /\ Reached(r)'
    <3>1. Grows => Listed(r)'
      BY <2>6, <2>9, <2>11, KeepsListed
    <3>2. Items(r)' = Items(r) /\ Item(r)' = Item(r)
      BY <2>9, <2>11 DEF Items, Item
    <3>3. Grows => Reached(r)'
      BY <1>3, <2>1, <2>6, <2>9, <2>11, <3>2 DEF Reached, Grows
    <3> QED
      BY <3>1, <3>3
  <2> QED
    BY <1>2, <1>4, <2>1, <2>3, <2>4, <2>5, <2>11, <2>12, ItemIInv
<1>7. ASSUME FailsLater(r, m), UNCHANGED apiVars PROVE IInv'
  BY <1>1, <1>2, <1>3, <1>7, NoItemMoves, FailsIInv
<1> QED
  BY <1>1, <1>5, <1>6, <1>7 DEF UploadItem

\* The medium is complete, or the server refuses it.
LEMMA CompleteItemIInv == ASSUME IInv, NEW r \in Refreshes, CompleteItem(r) PROVE IInv'
<1>1. PICK m : m = Item(r)
  OBVIOUS
<1>2. At(r, "complete") /\ UNCHANGED <<showing, tags, running, masked>>
  BY DEF CompleteItem
<1>3. visit # "none" /\ Items(r) # {} /\ received[m] # "none" /\ m \in stored
  BY <1>1, <1>2 DEF IInv, Reached, At
<1>4. m \in Media /\ Captured(m)
  BY <1>1, <1>3, ItemFacts
<1>5. ASSUME CompleteMedia(m), Settle(r, m, "completed") PROVE IInv'
  BY <1>1, <1>2, <1>3, <1>4, <1>5, CompleteMoves, SettleIInv
<1>6. ASSUME ~CompleteAccepts(m), Settle(r, m, "rejected"), UNCHANGED apiVars PROVE IInv'
  <2>1. m \notin oversized => received[m] = "uploaded"
    BY <1>3, <1>4, <1>6, RefusedIsIn DEF CompleteAccepts, IInv, TypeOK, ApiTypeOK
  <2>2. received' = received /\ ItemMoves
    BY <1>6, NoItemMoves DEF apiVars
  <2> QED
    BY <1>1, <1>2, <1>3, <1>6, <2>1, <2>2, SettleIInv
<1> QED
  BY <1>1, <1>5, <1>6 DEF CompleteItem

\* The request or its answer is lost.
LEMMA ItemLostIInv == ASSUME IInv, NEW r \in Refreshes, ItemLost(r) PROVE IInv'
<1>1. PICK m : m = Item(r)
  OBVIOUS
<1>2. refresh[r].at \in {"presign", "upload", "complete"} /\ FailsLater(r, m)
      /\ UNCHANGED <<showing, tags, running, masked>>
  BY <1>1 DEF ItemLost
<1>3. Items(r) # {}
  BY <1>2 DEF IInv, Reached
<1>4. m \in Media
  BY <1>1, <1>3, ItemFacts
<1>5. PresignMedia(m) \/ PutObject(m) \/ CompleteMedia(m) \/ UNCHANGED apiVars
  BY <1>1 DEF ItemLost
<1>6. ItemMoves
  BY <1>4, <1>5, PresignMoves, PutMoves, CompleteMoves, NoItemMoves
<1> QED
  BY <1>1, <1>2, <1>3, <1>6, FailsIInv


-----------------------------------------------------------------------------
(* Steps that handle a tag                                                 *)

\* Its row is written, and only this refresh moves.
LEMMA TagIInv ==
  ASSUME IInv, NEW r \in Refreshes, NEW t \in Tags, Tagged(t), NEW new \in Tag,
         tags' = [tags EXCEPT ![t] = new], new.state # "none",
         new.state = "synced" => t \in marked',
         UNCHANGED <<oversized, visit, received, stored, processing>>,
         marked \subseteq marked', marked' \subseteq Tags,
         UNCHANGED <<showing, media, running, masked>>,
         refresh' \in [Refreshes -> Refresh],
         \A q \in Refreshes : q # r => refresh'[q] = refresh[q],
         Grows => Listed(r)' /\ Reached(r)'
  PROVE IInv'
<1>1. TypeOK /\ RowFacts /\ ApiFacts /\ WorkIsQueuedUnlessMasked /\ tags \in [Tags -> Tag]
  BY DEF IInv, TypeOK
<1>2. /\ tags' \in [Tags -> Tag] /\ tags'[t] = new
      /\ \A u \in Tags : u # t => tags'[u] = tags[u]
  BY <1>1
<1>3. NothingNew /\ \A u \in Tags : Tagged(u) => Tagged(u)'
  BY <1>2 DEF NothingNew, Captured, Tagged
<1>4. Grows /\ SameRow
  BY <1>3 DEF Grows, SameRow, Captured
<1>5. TypeOK'
  BY <1>1, <1>2 DEF TypeOK, ApiTypeOK
<1>6. RowFacts'
  <2>1. ASSUME NEW u \in Tags, tags'[u].state = "synced" PROVE u \in marked'
    BY <1>1, <1>2, <2>1 DEF RowFacts
  <2> QED
    BY <1>1, <2>1 DEF RowFacts
<1>7. ApiFacts'
  BY <1>1, <1>4, KeepsApi
<1>8. WorkIsQueuedUnlessMasked'
  BY <1>1, <1>4, KeepsQueued DEF SameRow
<1>9. \A q \in Refreshes : q # r => Kept(q)
  BY <1>4 DEF Kept
<1> QED
  BY <1>4, <1>5, <1>6, <1>7, <1>8, <1>9, StepIInv

\* The tag is with the server.
LEMMA MarkItemIInv == ASSUME IInv, NEW r \in Refreshes, MarkItem(r) PROVE IInv'
<1>1. TypeOK /\ Listed(r) /\ Reached(r) /\ refresh[r] \in Refresh
      /\ refresh \in [Refreshes -> Refresh] /\ marked \subseteq Tags
  BY DEF IInv, TypeOK, ApiTypeOK
<1>2. PICK t \in refresh[r].marks :
        /\ CreateMarker(t)
        /\ tags' = [tags EXCEPT ![t] = [state |-> "synced", tried |-> FALSE]]
        /\ refresh' = [refresh EXCEPT ![r].marks = @ \ {t}]
  BY DEF MarkItem
<1>3. At(r, "tags") /\ UNCHANGED <<showing, media, running, masked>>
  BY DEF MarkItem
<1>4. t \in Tags /\ Tagged(t)
  BY <1>1 DEF Listed
<1>5. PICK new : new = [state |-> "synced", tried |-> FALSE]
  OBVIOUS
<1>6. new \in Tag /\ new.state = "synced"
  BY <1>5 DEF Tag
<1>7. PICK rest : rest = refresh[r].marks \ {t}
  OBVIOUS
<1>8. PICK f : f = [refresh[r] EXCEPT !.marks = rest]
  OBVIOUS
<1>9. /\ f \in Refresh /\ f.at = refresh[r].at /\ f.items = refresh[r].items
      /\ f.marks = rest /\ f.remote = refresh[r].remote /\ f.seen = refresh[r].seen
      /\ f.fresh = refresh[r].fresh
  BY <1>1, <1>7, <1>8 DEF Refresh
<1>10. refresh' = [refresh EXCEPT ![r] = f]
  BY <1>1, <1>2, <1>7, <1>8
<1>11. /\ refresh' \in [Refreshes -> Refresh] /\ refresh'[r] = f
       /\ \A q \in Refreshes : q # r => refresh'[q] = refresh[q]
  BY <1>1, <1>9, <1>10, OneChanges
<1>12. Grows => Listed(r)'
  BY <1>1, <1>7, <1>9, <1>11 DEF Listed, Grows, Items
<1>13. Grows => Reached(r)'
  BY <1>1, <1>3, <1>9, <1>11 DEF Reached, Grows, At
<1>14. /\ UNCHANGED <<oversized, visit, received, stored, processing>>
       /\ marked' = marked \cup {t}
  BY <1>2 DEF CreateMarker
<1> QED
  BY <1>1, <1>2, <1>3, <1>4, <1>5, <1>6, <1>11, <1>12, <1>13, <1>14, TagIInv

\* It is refused, or a request or answer is lost: the tag waits for another run.
LEMMA MarkFailsIInv ==
  ASSUME IInv, NEW r \in Refreshes, MarkRefused(r) \/ MarkLost(r) PROVE IInv'
<1>1. PICK t \in refresh[r].marks :
        /\ CreateMarker(t) \/ UNCHANGED apiVars
        /\ TagFails(t)
  BY DEF MarkRefused, MarkLost
<1>2. Leave(r, "failing") /\ UNCHANGED <<showing, media, running, masked>>
  BY DEF MarkRefused, MarkLost
<1>3. t \in Tags /\ Tagged(t) /\ marked \subseteq Tags
  BY DEF IInv, Listed, TypeOK, ApiTypeOK
<1>4. PICK new : new = [state |-> "pending", tried |-> TRUE]
  OBVIOUS
<1>5. new \in Tag /\ new.state = "pending" /\ tags' = [tags EXCEPT ![t] = new]
  BY <1>1, <1>4 DEF Tag, TagFails
<1>6. /\ UNCHANGED <<oversized, visit, received, stored, processing>>
      /\ marked \subseteq marked' /\ marked' \subseteq Tags
  BY <1>1, <1>3 DEF CreateMarker, apiVars
<1>7. /\ refresh' \in [Refreshes -> Refresh]
      /\ \A q \in Refreshes : q # r => refresh'[q] = refresh[q]
      /\ Listed(r)' /\ Reached(r)'
  BY <1>2, ItemLeaves
<1> QED
  BY <1>2, <1>3, <1>5, <1>6, <1>7, TagIInv

-----------------------------------------------------------------------------
(* The status that is copied                                               *)

\* When all is in and the server has begun to process it, no work is left.
LEMMA NothingLeft ==
  ASSUME ApiFacts, processing # "not_started" PROVE ~LeftBehind
BY DEF ApiFacts, AllIn, LeftBehind, Captured, Tagged

\* The status hides no work but what it is recorded to have hidden.
LEMMA CopyStatusIInv == ASSUME IInv, NEW r \in Refreshes, CopyStatus(r) PROVE IInv'
<1> USE DEF Places
<1>1. /\ TypeOK /\ RowFacts /\ ApiFacts /\ WorkIsQueuedUnlessMasked
      /\ Listed(r) /\ Reached(r) /\ showing \in Showing /\ masked \in BOOLEAN
      /\ refresh[r].seen \in Row /\ refresh[r].remote \in Processing
      /\ refresh[r].fresh \in BOOLEAN
  BY DEF IInv, TypeOK, Refresh
<1>2. PICK seen : seen = refresh[r].seen
  OBVIOUS
<1>3. PICK remote : remote = refresh[r].remote
  OBVIOUS
<1>4. PICK sync : sync = SyncState(remote, seen.sync)
  OBVIOUS
<1>5. sync \in Sync
  BY <1>1, <1>2, <1>4 DEF SyncState, Sync, Row
<1>6. At(r, "patch") /\ UNCHANGED <<apiVars, media, tags, running>>
  BY DEF CopyStatus
<1>7. ASSUME refresh' = [refresh EXCEPT ![r] = Idle], UNCHANGED <<showing, masked>>
      PROVE IInv'
  <2>1. Idle \in Refresh /\ Idle.at = "idle" /\ Idle.items = NoItems /\ Idle.marks = {}
        /\ Idle.remote = "not_started"
    BY ListingTypes, NoRowType DEF Idle, Refresh, Processing
  <2>2. /\ refresh' \in [Refreshes -> Refresh] /\ refresh'[r] = Idle
        /\ \A q \in Refreshes : q # r => refresh'[q] = refresh[q]
    BY <1>1, <1>7, <2>1, OneChanges
  <2>3. running' \in BOOLEAN
    BY <1>1, <1>6 DEF TypeOK
  <2>4. Listed(r)' /\ Reached(r)'
    BY <2>1, <2>2, Rests
  <2> QED
    BY <1>6, <1>7, <2>2, <2>3, <2>4, ControlIInv DEF phoneVars
<1>8. ASSUME showing' = [showing EXCEPT !.sync = sync, !.processing = remote],
             Stale(r, "idle"),
             masked' = (masked \/ (/\ ~refresh[r].fresh
                                   /\ showing.sync \in Pending /\ sync \notin Pending))
      PROVE IInv'
  <2>1. PICK new : new = [showing EXCEPT !.sync = sync, !.processing = remote]
    OBVIOUS
  <2>2. new \in Showing /\ new.sync = sync /\ new.finish = showing.finish
        /\ new.remote = showing.remote
    <3>1. remote \in Processing
      BY <1>1, <1>3
    <3>2. new = [sync |-> sync, remote |-> showing.remote, processing |-> remote,
                 finish |-> showing.finish]
      BY <1>1, <2>1 DEF Showing
    <3> QED
      BY <1>1, <1>5, <3>1, <3>2 DEF Showing
  <2>3. showing' = new
    BY <1>8, <2>1
  <2>4. /\ UNCHANGED <<oversized, visit, received, stored, marked, processing>>
        /\ UNCHANGED <<media, tags, running>>
    BY <1>6 DEF apiVars
  <2>5. NothingNew /\ Grows
    BY <2>2, <2>3, <2>4 DEF NothingNew, Grows, Captured, Tagged
  <2>6. /\ refresh' \in [Refreshes -> Refresh]
        /\ refresh'[r].at = "idle" /\ refresh'[r].items = NoItems /\ refresh'[r].marks = {}
        /\ refresh'[r].remote = "not_started" /\ \A q \in Refreshes : q # r => Kept(q)
    BY <1>1, <1>8, StaleParts
  <2>7. Listed(r)' /\ Reached(r)'
    BY <2>6, Rests
  <2>8. masked' \in BOOLEAN
    BY <1>8
  <2>9. TypeOK'
    BY <1>1, <2>2, <2>3, <2>4, <2>6, <2>8 DEF TypeOK, ApiTypeOK
  <2>10. RowFacts'
    BY <1>1, <2>2, <2>3, <2>4 DEF RowFacts
  <2>11. ApiFacts'
    BY <1>1, <2>4, <2>5, KeepsApi
  <2>12. WorkIsQueuedUnlessMasked'
    <3>1. CASE sync \in Pending
      BY <2>2, <2>3, <3>1 DEF WorkIsQueuedUnlessMasked, WorkIsQueued, Pending
    <3>2. CASE masked'
      BY <3>2 DEF WorkIsQueuedUnlessMasked
    <3>3. CASE sync \notin Pending /\ ~masked'
      <4>1. ~masked /\ (refresh[r].fresh \/ showing.sync \notin Pending)
        BY <1>8, <3>3
      <4>2. refresh[r].fresh => seen.sync = showing.sync
        BY <1>1, <1>2, <1>6 DEF Reached, At
      <4>3. remote # "not_started" => processing # "not_started"
        BY <1>1, <1>3 DEF Reached
      <4>4. ~LeftBehind
        <5>1. CASE remote # "not_started"
          BY <1>1, <4>3, <5>1, NothingLeft
        <5>2. CASE remote = "not_started"
          <6>1. sync = seen.sync
            BY <1>4, <5>2 DEF SyncState, Running
          <6> QED
            BY <1>1, <3>3, <4>1, <4>2, <6>1 DEF WorkIsQueuedUnlessMasked, WorkIsQueued
        <5> QED
          BY <5>1, <5>2
      <4>5. ~LeftBehind'
        BY <2>2, <2>3, <2>4, <4>4 DEF LeftBehind, Captured
      <4> QED
        BY <4>5 DEF WorkIsQueuedUnlessMasked, WorkIsQueued
    <3> QED
      BY <3>1, <3>2, <3>3
  <2> QED
    BY <2>5, <2>6, <2>7, <2>9, <2>10, <2>11, <2>12, StepIInv
<1> QED
  BY <1>2, <1>3, <1>4, <1>7, <1>8 DEF CopyStatus

-----------------------------------------------------------------------------
(* The theorems                                                            *)

LEMMA InitIInv == ASSUME Init PROVE IInv
<1> USE DEF Init, ApiInit
<1>1. Idle \in Refresh /\ Idle.at = "idle" /\ Idle.items = NoItems /\ Idle.marks = {}
      /\ Idle.remote = "not_started"
  BY ListingTypes, NoRowType DEF Idle, Refresh, Processing, Places
<1>2. \A r \in Refreshes : refresh[r] = Idle
  OBVIOUS
<1>3. NoMedium \in Medium /\ NoMedium.state = "none" /\ NoMedium.url = "none"
  BY DEF NoMedium, Medium
<1>4. ApiTypeOK
  BY DEF ApiTypeOK, Processing
<1>5. TypeOK
  BY <1>1, <1>3, <1>4 DEF TypeOK, Showing, Tag, Sync
<1>6. RowFacts /\ ApiFacts
  BY <1>3 DEF RowFacts, ApiFacts
<1>7. \A r \in Refreshes : Listed(r) /\ Reached(r)
  BY <1>1, <1>2 DEF Listed, Reached, Items, NoItems
<1>8. ~LeftBehind
  BY <1>3 DEF LeftBehind, Captured
<1> QED
  BY <1>5, <1>6, <1>7, <1>8 DEF IInv, WorkIsQueuedUnlessMasked, WorkIsQueued

LEMMA NextIInv == ASSUME IInv, [Next]_vars PROVE IInv'
<1>1. ASSUME NEW r \in Refreshes, Advances(r) PROVE IInv'
  BY <1>1, StartIInv, FindOnlineIInv, ClaimIInv, RereadIInv, CreateRemoteIInv, ListMediaIInv,
     TakeMediaIInv, PresignItemIInv, UploadItemIInv, CompleteItemIInv, ListTagsIInv,
     MarkItemIInv, MarkFailsIInv, ReviewIInv, ReviewChildrenIInv, SyncedIInv,
     FinishRemoteIInv, RunFailsIInv, FetchIInv, CopyStatusIInv
  DEF Advances
<1>2. ASSUME NEW r \in Refreshes, Loses(r) PROVE IInv'
  BY <1>2, StartIInv, DeferIInv, CreateLostIInv, ItemLostIInv, MarkFailsIInv, FinishLostIInv
  DEF Loses
<1>3. ASSUME NEW m \in Media, Capture(m) \/ UrlExpires(m) PROVE IInv'
  BY <1>3, CaptureIInv, UrlExpiresIInv
<1>4. ASSUME NEW t \in Tags, AddVoiceTag(t) PROVE IInv'
  BY <1>4, AddVoiceTagIInv
<1>5. ASSUME UpdateElapsed \/ Finish \/ AppDies \/ Server PROVE IInv'
  BY <1>5, UpdateElapsedIInv, FinishIInv, AppDiesIInv, ServerIInv
<1>6. CASE UNCHANGED vars
  <2>1. /\ oversized' = oversized /\ visit' = visit /\ received' = received
        /\ stored' = stored /\ marked' = marked /\ processing' = processing
        /\ showing' = showing /\ media' = media /\ tags' = tags /\ masked' = masked
        /\ running' = running /\ refresh' = refresh
    BY <1>6 DEF vars, apiVars, phoneVars
  <2>2. Grows /\ SameRow
    BY <2>1 DEF Grows, SameRow, NothingNew, Captured, Tagged
  <2>3. \A q \in Refreshes : Kept(q)
    BY <2>1, <2>2 DEF Kept
  <2>4. TypeOK'
    BY <2>1 DEF IInv, TypeOK, ApiTypeOK
  <2>5. RowFacts' /\ ApiFacts'
    BY <2>1 DEF IInv, RowFacts, ApiFacts, AllIn, Captured, Tagged
  <2>6. WorkIsQueuedUnlessMasked'
    BY <2>1, <2>2, KeepsQueued DEF IInv, SameRow
  <2> QED
    BY <2>2, <2>3, <2>4, <2>5, <2>6, KeptIInv
<1> QED
  BY <1>1, <1>2, <1>3, <1>4, <1>5, <1>6 DEF Next

\* IInv holds in every reachable state of the phone's queue.
THEOREM SyncInvariance == Spec => []IInv
BY InitIInv, NextIInv, PTL DEF Spec

\* The rows, the server's state and what the refreshes remember have their types
\* (mobile/src/storage/database.ts and mobile/src/sync/engine.ts).
THEOREM SyncTypeCorrect == Spec => []TypeOK
<1>1. IInv => TypeOK
  BY DEF IInv
<1> QED
  BY <1>1, SyncInvariance, PTL

\* However many refreshes overlap, and whatever is lost, captured or written
\* meanwhile, the engine will look at a showing again as long as something is left
\* to bring to the server, unless the status an App refresh copied has hidden it
\* (the generations of mobile/src/storage/database.ts, syncShowing of engine.ts).
THEOREM WorkStaysQueued == Spec => []WorkIsQueuedUnlessMasked
<1>1. IInv => WorkIsQueuedUnlessMasked
  BY DEF IInv
<1> QED
  BY <1>1, SyncInvariance, PTL

\* Processing begins when every tag and every capture the server would take are
\* there (syncShowing of mobile/src/sync/engine.ts).
THEOREM ProcessingIsWhole == Spec => []ProcessingHasEverything
<1>1. IInv => ProcessingHasEverything
  BY DEF IInv, RowFacts, ApiFacts, AllIn, ProcessingHasEverything, Tagged
<1> QED
  BY <1>1, SyncInvariance, PTL


=============================================================================
