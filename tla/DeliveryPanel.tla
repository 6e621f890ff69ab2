--------------------------- MODULE DeliveryPanel ---------------------------
(***************************************************************************)
(* The panel of the dashboard that shares a confirmed report               *)
(* (DeliveryPanel in showing-workspace.tsx): the list of links and sends   *)
(* it last read, the box that keeps a link just created within reach, and  *)
(* the timer that takes expired links off the screen.  The server is       *)
(* Delivery.tla's, reduced to what the panel reads.                        *)
(*                                                                         *)
(* A request is carried out in one step and its answer arrives in another. *)
(* Invalidating the list aborts a fetch under way, if the list was ever    *)
(* read, and starts a new one; whoever waited for the old one goes on.     *)
(***************************************************************************)
EXTENDS Naturals, Sequences

CONSTANTS
  MaxLinks,   \* bound: links of the showing
  MaxPresses  \* bound: requests the agent makes

VARIABLES
  desk,    \* the server: revoked flag of each link, expired links, e-mail row, status
  panel,   \* what the panel shows
  posts,   \* its requests
  excused  \* history: links whose box may outlive their revocation

panelVars == <<desk, panel, posts, excused>>

Links == 1..MaxLinks
EmailStatus == {"none", "pending", "sent", "failed", "outcome_unknown"}
VisitStatus == {"confirmed", "sent_to_client"}
Listing == [revoked : Seq(BOOLEAN), email : EmailStatus]
NoList == [revoked |-> <<>>, email |-> "none"]

PanelTypeOK ==
  /\ desk \in [revoked : Seq(BOOLEAN), late : SUBSET Links, email : EmailStatus,
               status : VisitStatus]
  /\ panel \in [list : Listing, read : BOOLEAN, late : SUBSET Links, box : 0..MaxLinks,
                status : VisitStatus]
  /\ posts \in [create : {"none", "link", "replacement", "made"}, made : 0..MaxLinks,
                revoke : {"none", "asked", "revoked", "settling"}, link : 0..MaxLinks,
                send : {"none", "asked", "refused", "running", "settling"},
                list : {"none", "asked", "read"}, answer : Listing, status : BOOLEAN,
                presses : 0..MaxPresses]
  /\ excused \subseteq Links

PanelInit ==
  /\ desk = [revoked |-> <<>>, late |-> {}, email |-> "none", status |-> "confirmed"]
  /\ panel = [list |-> NoList, read |-> FALSE, late |-> {}, box |-> 0,
              status |-> "confirmed"]
  /\ posts = [create |-> "none", made |-> 0, revoke |-> "none", link |-> 0,
              send |-> "none", list |-> "asked", answer |-> NoList, status |-> FALSE, presses |-> 0]
  /\ excused = {}

\* isActiveShareLink, of the links the panel has read.
ActiveLinks == {l \in DOMAIN panel.list.revoked :
                  ~panel.list.revoked[l] /\ l \notin panel.late}

\* The first active link has its own box; the box of a new link hides then.
Box == IF panel.box # 0 /\ ~(panel.box \in ActiveLinks /\ \A l \in ActiveLinks : panel.box >= l)
       THEN {panel.box} ELSE {}

\* Links the panel offers to copy or to open.
Offered == ActiveLinks \cup Box

-----------------------------------------------------------------------------
(* The server.                                                             *)

NewLink == Len(desk.revoked) < MaxLinks
Linked == Append(desk.revoked, FALSE)

\* A link sends a confirmed report; a replacement is for one that was sent.
ServeLink ==
  /\ \/ posts.create = "link" /\ desk.status = "confirmed"
     \/ posts.create = "replacement"
  /\ NewLink
  /\ desk' = [desk EXCEPT !.revoked = Linked, !.status = "sent_to_client"]
  /\ posts' = [posts EXCEPT !.create = "made", !.made = Len(Linked)]
  /\ UNCHANGED <<panel, excused>>

ServeRevoke ==
  /\ posts.revoke = "asked"
  /\ desk' = [desk EXCEPT !.revoked[posts.link] = TRUE]
  /\ posts' = [posts EXCEPT !.revoke = "revoked"]
  /\ UNCHANGED <<panel, excused>>

\* A first attempt makes a link of its own; only a failed one is retried.
ServeSend ==
  /\ posts.send = "asked"
  /\ IF desk.status = "confirmed" /\ desk.email \in {"none", "failed"}
     THEN /\ desk.email = "none" => NewLink
          /\ desk' = [desk EXCEPT !.email = "pending",
                                  !.revoked = IF desk.email = "none" THEN Linked ELSE @]
          /\ posts' = [posts EXCEPT !.send = "running"]
     ELSE /\ posts' = [posts EXCEPT !.send = "refused"]
          /\ UNCHANGED desk
  /\ UNCHANGED <<panel, excused>>

EmailSettles ==
  /\ desk.email = "pending"
  /\ \E outcome \in {"sent", "failed", "outcome_unknown"} :
       desk' = [desk EXCEPT !.email = outcome,
                            !.status = IF outcome = "sent" THEN "sent_to_client" ELSE @]
  /\ UNCHANGED <<panel, posts, excused>>

ServeList ==
  /\ posts.list = "asked"
  /\ posts' = [posts EXCEPT !.list = "read",
                            !.answer = [revoked |-> desk.revoked, email |-> desk.email]]
  /\ UNCHANGED <<desk, panel, excused>>

LinkExpires ==
  /\ \E l \in DOMAIN desk.revoked : desk' = [desk EXCEPT !.late = @ \cup {l}]
  /\ UNCHANGED <<panel, posts, excused>>

-----------------------------------------------------------------------------
(* The panel.                                                              *)

\* With links c to come: those who wait for the list are told that it was read,
\* has failed or was given up.  A revocation empties the box, whichever link is
\* in it.
Settle(c) == [c EXCEPT !.revoke = IF @ = "settling" THEN "none" ELSE @,
                       !.link = IF c.revoke = "settling" THEN 0 ELSE @,
                       !.send = IF @ = "settling" THEN "none" ELSE @]
SettledBox == IF posts.revoke = "settling" THEN 0 ELSE panel.box

\* The list is read again; the first reading is never aborted.
Reread(c) == IF posts.list = "none" \/ panel.read THEN [c EXCEPT !.list = "asked"] ELSE c
GivenUp == panel.read /\ posts.list # "none"
RefreshLinks(c) == Reread(IF GivenUp THEN Settle(c) ELSE c)

Press == [posts EXCEPT !.presses = @ + 1]
MayPress == posts.presses < MaxPresses

\* Link and replacement: one at a time, for a showing in the right state.
PressLink ==
  /\ posts.create = "none" /\ MayPress
  /\ panel.status = "confirmed"
  /\ posts' = [Press EXCEPT !.create = "link"]
  /\ UNCHANGED <<desk, panel, excused>>

PressReplacement ==
  /\ posts.create = "none" /\ MayPress
  /\ panel.status = "sent_to_client" /\ panel.read /\ ActiveLinks = {}
  /\ posts' = [Press EXCEPT !.create = "replacement"]
  /\ UNCHANGED <<desk, panel, excused>>

\* handleCreatedLink; the last of the old waiters may empty the box after it.
LinkCreated ==
  /\ posts.create = "made"
  /\ panel' = [panel EXCEPT !.box = IF GivenUp /\ posts.revoke = "settling"
                                    THEN 0 ELSE posts.made]
  /\ posts' = RefreshLinks([posts EXCEPT !.create = "none", !.made = 0, !.status = TRUE])
  /\ excused' = excused \cup {l \in {posts.made} : desk.revoked[l]}
  /\ UNCHANGED desk

\* The row's button looks at the clock again.
PressRevoke(l) ==
  /\ l \in ActiveLinks \ desk.late
  /\ posts.revoke = "none" /\ MayPress
  /\ posts' = [Press EXCEPT !.revoke = "asked", !.link = l]
  /\ UNCHANGED <<desk, panel, excused>>

LinkRevoked ==
  /\ posts.revoke = "revoked"
  /\ posts' = [RefreshLinks(posts) EXCEPT !.revoke = "settling"]
  /\ panel' = [panel EXCEPT !.box = IF GivenUp THEN SettledBox ELSE @]
  /\ UNCHANGED <<desk, excused>>

PressSend ==
  /\ posts.send = "none" /\ MayPress
  /\ panel.list.email \notin {"pending", "outcome_unknown"}
  /\ panel.status = "confirmed"
  /\ posts' = [Press EXCEPT !.send = "asked"]
  /\ UNCHANGED <<desk, panel, excused>>

\* Either outcome reads the list again; success the showing too.
SendAnswered ==
  /\ \/ posts.send = "refused"
     \/ posts.send = "running" /\ desk.email # "pending"
  /\ posts' = [RefreshLinks(posts) EXCEPT !.send = "settling",
       !.status = @ \/ (posts.send = "running" /\ desk.email = "sent")]
  /\ panel' = [panel EXCEPT !.box = IF GivenUp THEN SettledBox ELSE @]
  /\ UNCHANGED <<desk, excused>>

\* Fault: the box stays when its link was revoked.
ListAnsweredKeepsBox ==
  /\ posts.list = "read"
  /\ panel' = [panel EXCEPT !.list = posts.answer, !.read = TRUE]
  /\ posts' = [Settle(posts) EXCEPT !.list = "none", !.answer = NoList]
  /\ UNCHANGED <<desk, excused>>

ListAnswered ==
  /\ posts.list = "read"
  /\ panel' = [panel EXCEPT !.list = posts.answer, !.read = TRUE,
                            !.box = SettledBox]
  /\ posts' = [Settle(posts) EXCEPT !.list = "none", !.answer = NoList]
  /\ UNCHANGED <<desk, excused>>

\* The showing's own query, which other parts of the page refresh too.
StatusAnswered ==
  /\ posts.status
  /\ panel' = [panel EXCEPT !.status = desk.status]
  /\ posts' = [posts EXCEPT !.status = FALSE]
  /\ UNCHANGED <<desk, excused>>

\* setNow, at the next expiry or after a minute, whichever is sooner.
Tick ==
  /\ ActiveLinks # {}
  /\ panel' = [panel EXCEPT !.late = desk.late]
  /\ UNCHANGED <<desk, posts, excused>>

\* The list's fetch fails; the old list stays and whoever waited goes on.
ListFails ==
  /\ posts.list # "none"
  /\ panel' = [panel EXCEPT !.box = SettledBox]
  /\ posts' = [Settle(posts) EXCEPT !.list = "none", !.answer = NoList]
  /\ UNCHANGED <<desk, excused>>

\* A request is refused, or it or its answer is lost; an e-mail's error reads the list again.
CallLost ==
  /\ \/ /\ posts.create # "none"
        /\ posts' = [posts EXCEPT !.create = "none", !.made = 0]
        /\ UNCHANGED <<panel, excused>>
     \/ /\ posts.revoke \in {"asked", "revoked"}
        /\ posts' = [posts EXCEPT !.revoke = "none", !.link = 0]
        /\ excused' = excused \cup {l \in {posts.link} : desk.revoked[l]}
        /\ UNCHANGED panel
     \/ /\ posts.send \in {"asked", "running"}
        /\ posts' = [RefreshLinks(posts) EXCEPT !.send = "settling"]
        /\ panel' = [panel EXCEPT !.box = IF GivenUp THEN SettledBox ELSE @]
        /\ UNCHANGED excused
  /\ UNCHANGED desk

PanelNext ==
  \/ ServeLink \/ ServeRevoke \/ ServeSend \/ EmailSettles \/ ServeList \/ LinkExpires
  \/ PressLink \/ PressReplacement \/ LinkCreated \/ PressSend \/ SendAnswered
  \/ \E l \in Links : PressRevoke(l)
  \/ LinkRevoked \/ ListAnswered \/ StatusAnswered \/ Tick \/ ListFails \/ CallLost

PanelSpec == PanelInit /\ [][PanelNext]_panelVars

-----------------------------------------------------------------------------
\* The box never offers a link that the list below it shows as revoked, unless its
\* revocation is still to be answered, that answer was lost, or the answer that
\* created the link came after it was revoked.
RevokedLinksAreWithdrawn ==
  \A l \in Offered \cap DOMAIN panel.list.revoked : panel.list.revoked[l] =>
    l \in excused \/ (posts.revoke # "none" /\ posts.link = l)

=============================================================================
