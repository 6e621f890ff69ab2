---------------------------- MODULE ShowingsList ----------------------------
(***************************************************************************)
(* The paged list of showings (showings-dashboard.tsx) and the comparison  *)
(* page that reads every page at once (listAllShowings in api.ts).  Each   *)
(* choice of filters is a query of its own, with its cached pages and its  *)
(* fetch; the server pages by the key it sorts by, so a page starts after  *)
(* the last showing of the page before, whatever was added meanwhile.      *)
(***************************************************************************)
EXTENDS Naturals, Sequences, FiniteSets, FiniteSetsExt, SequencesExt

CONSTANTS
  Filters,     \* choices of the filters
  Everything,  \* the query of the comparison page
  MaxShowing,  \* bound: showings, numbered in the order of the list's key
  PageSize,    \* showings on a page
  MaxChanges,  \* bound: showings that come to match a filter or cease to
  MaxReads     \* bound: readings the page asks for

VARIABLES
  matching,  \* the server: the showings each query matches
  moved,     \* history: showings whose matching has changed
  list,      \* the page: the query shown, its pages, the ref that stops clicks
  fetch      \* the fetch of each query

listVars == <<matching, moved, list, fetch>>

Keys == Filters \cup {Everything}
Showings == 1..MaxShowing
NoCursor == 0
Page == [param : {NoCursor} \cup Showings, items : SUBSET Showings,
         next : {NoCursor} \cup Showings]
Kinds == {"none", "next", "all"}

ListTypeOK ==
  /\ matching \in [Keys -> SUBSET Showings]
  /\ moved \subseteq Showings
  /\ list \in [shown : Keys, pages : [Keys -> Seq(Page)], failed : [Keys -> BOOLEAN],
               busy : BOOLEAN, reads : 0..MaxReads]
  /\ fetch \in [Keys -> [kind : Kinds, got : Seq(Page)]]

NoFetch == [kind |-> "none", got |-> <<>>]

ListInit ==
  /\ matching = [k \in Keys |-> Showings]
  /\ moved = {}
  /\ list = [shown |-> CHOOSE k \in Filters : TRUE, pages |-> [k \in Keys |-> <<>>],
             failed |-> [k \in Keys |-> FALSE], busy |-> FALSE, reads |-> 0]
  /\ fetch = [k \in Keys |-> NoFetch]

-----------------------------------------------------------------------------
(* The server's page, and what the client makes of its pages.              *)

\* Fault: the cursor is not of the key the list is sorted by.
PageByAnotherKey(k, cursor) ==
  LET rest == {i \in matching[k] : cursor = NoCursor \/ i < cursor}
      items == {i \in rest : Cardinality({j \in rest : j > i}) < PageSize}
  IN [param |-> cursor, items |-> items,
      next |-> IF items # rest THEN Min(rest) ELSE NoCursor]

PageOf(k, cursor) ==
  LET rest == {i \in matching[k] : cursor = NoCursor \/ i < cursor}
      items == {i \in rest : Cardinality({j \in rest : j > i}) < PageSize}
  IN [param |-> cursor, items |-> items,
      next |-> IF items # rest THEN Min(items) ELSE NoCursor]

Repeats(pages) == Last(pages).next \in {pages[i].param : i \in DOMAIN pages} \ {NoCursor}

\* getNextPageParam; a cursor that was already used ends the paging.
NextCursor(pages) == IF Repeats(pages) THEN NoCursor ELSE Last(pages).next

\* dedupeShowingsById over the pages, of which the groups are made.
LoadedShowings(k) == UNION {list.pages[k][i].items : i \in DOMAIN list.pages[k]}

HasNextPage(k) == list.pages[k] # <<>> /\ NextCursor(list.pages[k]) # NoCursor

PaginationIntegrityError(k) == list.pages[k] # <<>> /\ Repeats(list.pages[k])

-----------------------------------------------------------------------------
(* The page.                                                               *)

MayRead == list.reads < MaxReads
Read == [list EXCEPT !.reads = @ + 1]
StartFetch(k, kind) == [fetch EXCEPT ![k] = [kind |-> kind, got |-> <<>>]]

\* A filter is chosen, or the comparison page opened: what was cached is shown,
\* and read again.  The fetch of the query left goes on.
Show(k) ==
  /\ k # list.shown \/ (list.pages[k] = <<>> /\ fetch[k].kind = "none")
  /\ MayRead
  /\ list' = [Read EXCEPT !.shown = k, !.busy = FALSE, !.failed[k] = FALSE]
  /\ fetch' = IF fetch[k].kind = "none" THEN StartFetch(k, "all") ELSE fetch
  /\ UNCHANGED <<matching, moved>>

\* loadMore, or the retry after it failed; a refetch under way is aborted.
LoadMore ==
  LET k == list.shown
  IN /\ k # Everything /\ HasNextPage(k)
     /\ fetch[k].kind # "next"
     /\ ~list.busy \/ list.failed[k]
     /\ MayRead
     /\ list' = [Read EXCEPT !.busy = ~list.failed[k], !.failed[k] = FALSE]
     /\ fetch' = StartFetch(k, "next")
     /\ UNCHANGED <<matching, moved>>

\* Another part of the page invalidates ["showings"], or the window is focused.
\* What was being read is given up.
Refetch ==
  LET k == list.shown
  IN /\ list.pages[k] # <<>> /\ MayRead
     /\ list' = [Read EXCEPT !.failed[k] = FALSE,
                             !.busy = @ /\ fetch[k].kind # "next"]
     /\ fetch' = StartFetch(k, "all")
     /\ UNCHANGED <<matching, moved>>

-----------------------------------------------------------------------------
(* The fetches.                                                            *)

\* The comparison reads to the end; a refetch as many pages as it had.
Complete(k) ==
  LET f == fetch[k]
  IN /\ f.got # <<>>
     /\ \/ f.kind = "next"
        \/ NextCursor(f.got) = NoCursor
        \/ k # Everything /\ Len(f.got) >= Len(list.pages[k])

ServePage(k) ==
  LET f == fetch[k]
      cursor == IF f.kind = "next" THEN NextCursor(list.pages[k])
                ELSE IF f.got = <<>> THEN NoCursor ELSE NextCursor(f.got)
  IN /\ f.kind # "none" /\ ~Complete(k)
     /\ fetch' = [fetch EXCEPT ![k].got = Append(@, PageOf(k, cursor))]
     /\ UNCHANGED <<matching, moved, list>>

\* The ref is let go by whichever fetch of a next page ends.
Released(k) == list.busy /\ fetch[k].kind # "next"

\* listAllShowings throws if a cursor came back.
PagesAnswered(k) ==
  /\ fetch[k].kind # "none" /\ Complete(k)
  /\ k = Everything => ~Repeats(fetch[k].got)
  /\ list' = [list EXCEPT !.busy = Released(k), !.pages[k] =
       IF fetch[k].kind = "next" THEN @ \o fetch[k].got ELSE fetch[k].got]
  /\ fetch' = [fetch EXCEPT ![k] = NoFetch]
  /\ UNCHANGED <<matching, moved>>

\* The pages shown stay; a next page that failed can be asked for again.
FetchFails(k) ==
  /\ fetch[k].kind # "none"
  /\ list' = [list EXCEPT !.busy = Released(k), !.failed[k] = fetch[k].kind = "next"]
  /\ fetch' = [fetch EXCEPT ![k] = NoFetch]
  /\ UNCHANGED <<matching, moved>>

\* A showing is created, edited or reviewed; a capture may be older than others.
MatchingChanges ==
  /\ \E k \in Keys, i \in Showings :
       /\ Cardinality(moved \cup {i}) <= MaxChanges
       /\ moved' = moved \cup {i}
       /\ matching' = [matching EXCEPT ![k] = IF i \in @ THEN @ \ {i} ELSE @ \cup {i}]
  /\ UNCHANGED <<list, fetch>>

ListNext ==
  \/ LoadMore \/ Refetch \/ MatchingChanges
  \/ \E k \in Keys : Show(k) \/ ServePage(k) \/ PagesAnswered(k) \/ FetchFails(k)

ListSpec == ListInit /\ [][ListNext]_listVars

-----------------------------------------------------------------------------
\* When a list offers no further page, every showing that matched all along is in
\* it, though the pages were read at different times, read again or given up; and
\* no cursor ever comes back.
ListsAreComplete ==
  \A k \in Keys : list.pages[k] # <<>> =>
    /\ ~PaginationIntegrityError(k)
    /\ HasNextPage(k) \/ matching[k] \ moved \subseteq LoadedShowings(k)

=============================================================================
