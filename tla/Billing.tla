------------------------------- MODULE Billing -------------------------------
(***************************************************************************)
(* The subscription of one workspace (services/billing.py): the checkout   *)
(* that the agent is offered, the subscriptions that come of it at Stripe, *)
(* and the webhook that copies their state into the workspace's row.       *)
(*                                                                         *)
(* Stripe delivers an event until it is answered, late, in any order and   *)
(* more than once.  The webhook is one transaction: an event that was      *)
(* recorded does nothing, and a delivery that overlaps another of the same *)
(* event waits for it.  It asks Stripe for the subscription, reads the row *)
(* and writes it under a condition of its own, and other events' webhooks  *)
(* come between.  A webhook that fails leaves no trace, and Stripe tries   *)
(* again.                                                                  *)
(***************************************************************************)
EXTENDS Naturals, Sequences

CONSTANTS
  MaxSubs,   \* bound: subscriptions that are paid for
  MaxEvents, \* bound: events
  MaxTime    \* bound: seconds

VARIABLES
  stripe,  \* Stripe: the status of each subscription, the clock
  events,  \* what Stripe has to tell, and the webhook that handles each
  row,     \* the workspace's subscription row
  paying,  \* checkout sessions by the row's state that named them
  astray   \* history: a checkout was paid too many, or written late

billingVars == <<stripe, events, row, paying, astray>>

Subs == 1..MaxSubs
Unbound == 0
Live == {"incomplete", "active", "past_due"}
Terminal == {"canceled", "incomplete_expired"}
Types == {"completed", "updated", "deleted"}
RowStates == [sub : {Unbound} \cup Subs, status : {"trialing"} \cup Live \cup Terminal,
              event : 0..MaxEvents, at : 0..MaxTime]
EventNames == 0..2 \* of the events of one subscription in one second, in their order

BillingTypeOK ==
  /\ stripe \in [status : [Subs -> {"none"} \cup Live \cup Terminal], now : 1..MaxTime]
  /\ events \in Seq([type : Types, sub : Subs, at : 1..MaxTime, name : EventNames,
                     step : {"sent", "fetched", "wanted", "done"},
                     got : {"none"} \cup Live \cup Terminal])
  /\ row \in RowStates
  /\ paying \in [open : SUBSET RowStates, paid : SUBSET RowStates]
  /\ astray \in BOOLEAN

BillingInit ==
  /\ stripe = [status |-> [s \in Subs |-> "none"], now |-> 1]
  /\ events = <<>>
  /\ row = [sub |-> Unbound, status |-> "trialing", event |-> 0, at |-> 0]
  /\ paying = [open |-> {}, paid |-> {}]
  /\ astray = FALSE

LiveSubs == {s \in Subs : stripe.status[s] \in Live}
NonTerminal == row.sub # Unbound /\ row.status \notin Terminal

-----------------------------------------------------------------------------
(* The agent and Stripe.                                                   *)

\* create_checkout: its idempotency key is the state of the row, so that the same
\* state leads to the same session.
CreateCheckout ==
  /\ ~NonTerminal
  /\ row \notin paying.open \cup paying.paid
  /\ paying' = [paying EXCEPT !.open = @ \cup {row}]
  /\ UNCHANGED <<stripe, events, row, astray>>

\* Events of a subscription that have the same timestamp.
Twins(s, at) == {i \in DOMAIN events : events[i].sub = s /\ events[i].at = at}

\* A change of s at Stripe, and the event that tells of it.  The order of its name
\* among its twins' says nothing of the order of the changes.
Changes(s, status, type, at) ==
  /\ Len(events) < MaxEvents /\ at <= MaxTime
  /\ stripe' = [status |-> [stripe.status EXCEPT ![s] = status], now |-> at]
  /\ \E name \in IF Twins(s, at) = {} THEN {1}
                 ELSE EventNames \ {events[i].name : i \in Twins(s, at)} :
       events' = Append(events, [type |-> type, sub |-> s, at |-> at, name |-> name,
                                 step |-> "sent", got |-> "none"])
ThisSecondOrNext == {stripe.now, stripe.now + 1}

\* The agent pays; the first payment may be still to be confirmed.  It is one too
\* many while another subscription is live, at Stripe or by the row: two checkouts
\* were opened for different states of the row then.
Pay ==
  /\ \E session \in paying.open :
       paying' = [open |-> paying.open \ {session}, paid |-> paying.paid \cup {session}]
  /\ \E s \in Subs, status \in {"active", "incomplete"} :
       /\ stripe.status[s] = "none"
       /\ \A t \in 1..s - 1 : stripe.status[t] # "none"
       /\ \E at \in ThisSecondOrNext : Changes(s, status, "completed", at)
  /\ astray' = (astray \/ LiveSubs # {} \/ NonTerminal)
  /\ UNCHANGED row

\* Payments are confirmed, fail, are made good, or, hours later, have never come.
Updates ==
  /\ \E s \in LiveSubs :
       \/ /\ stripe.status[s] # "active"
          /\ \E at \in ThisSecondOrNext : Changes(s, "active", "updated", at)
       \/ /\ stripe.status[s] = "active"
          /\ \E at \in ThisSecondOrNext : Changes(s, "past_due", "updated", at)
       \/ /\ stripe.status[s] = "incomplete"
          /\ Changes(s, "incomplete_expired", "updated", stripe.now + 1)
  /\ UNCHANGED <<row, paying, astray>>

\* The agent cancels in Stripe's portal.
Cancels ==
  /\ \E s \in LiveSubs, at \in ThisSecondOrNext : Changes(s, "canceled", "deleted", at)
  /\ UNCHANGED <<row, paying, astray>>

-----------------------------------------------------------------------------
(* The webhook.                                                            *)

\* The event is recorded and the subscription asked for.
ProcessWebhook(i) ==
  /\ events[i].step = "sent"
  /\ events' = [events EXCEPT ![i].step = "fetched",
                              ![i].got = stripe.status[events[i].sub]]
  /\ UNCHANGED <<stripe, row, paying, astray>>

SameOrUnbound(e) == row.sub \in {Unbound, e.sub}

\* A later name among those of one second.
LaterName(e) == row.event = 0 \/ events[row.event].name < e.name

\* _is_newer
IsNewer(e) ==
  IF row.sub # e.sub
  THEN row.sub = Unbound \/ (e.type = "completed" /\ row.status = "canceled")
  ELSE \/ e.at > row.at /\ (row.status # "canceled" \/ e.type = "deleted")
       \/ /\ e.at = row.at
          /\ e.type = "deleted" \/ (row.status # "canceled" /\ LaterName(e))

\* What the event would change, given the row as it is read.
Wanted(e) ==
  IF e.type = "completed"
  THEN IF row.sub = e.sub THEN IsNewer(e) ELSE row.status \notin {"active", "past_due"}
  ELSE SameOrUnbound(e) /\ IsNewer(e)

ReadSubscription(i) ==
  /\ events[i].step = "fetched"
  /\ events' = [events EXCEPT ![i].step = IF Wanted(events[i]) THEN "wanted" ELSE "done"]
  /\ UNCHANGED <<stripe, row, paying, astray>>

\* Fault: the row is written as it was decided when it was read.
AppliesAnyway(e) == TRUE

\* The condition of the write, which sees what was committed since.
Applies(e) ==
  LET newer == row.at < e.at \/ (row.at = e.at /\ LaterName(e))
      revivable == row.status # "canceled" \/ row.sub = Unbound
  IN CASE e.type = "completed" ->
            \/ row.status = "canceled" /\ row.sub # e.sub
            \/ SameOrUnbound(e) /\ revivable /\ newer
       [] e.type = "deleted" -> SameOrUnbound(e) /\ row.at <= e.at
       [] OTHER -> SameOrUnbound(e) /\ revivable /\ newer

\* A checkout that takes the row from another subscription while its webhook, or
\* one of another event of the same subscription, holds a status that has changed
\* since it was asked for: the event of the change may have been ignored, as one
\* of a subscription that is not the row's.
Outdated(s) ==
  \E i \in DOMAIN events : /\ events[i].sub = s /\ events[i].step \in {"fetched", "wanted"}
                           /\ events[i].got # stripe.status[s]
LateReplacement(e) == e.type = "completed" /\ ~SameOrUnbound(e) /\ Outdated(e.sub)

UpsertSubscription(i) ==
  /\ events[i].step = "wanted"
  /\ LET e == events[i] IN
       row' = IF Applies(e)
              THEN [sub |-> e.sub, event |-> i, at |-> e.at,
                    status |-> IF e.type = "deleted" THEN "canceled" ELSE e.got]
              ELSE row
  /\ astray' = (astray \/ LateReplacement(events[i]))
  /\ events' = [events EXCEPT ![i].step = "done"]
  /\ UNCHANGED <<stripe, paying>>

\* Stripe cannot be asked, or the process dies; Stripe sends the event again.
WebhookFails(i) ==
  /\ events[i].step \in {"fetched", "wanted"}
  /\ events' = [events EXCEPT ![i].step = "sent", ![i].got = "none"]
  /\ UNCHANGED <<stripe, row, paying, astray>>

BillingNext ==
  \/ CreateCheckout \/ Pay \/ Updates \/ Cancels
  \/ \E i \in DOMAIN events : \/ ProcessWebhook(i) \/ ReadSubscription(i)
                              \/ UpsertSubscription(i) \/ WebhookFails(i)

BillingSpec == BillingInit /\ [][BillingNext]_billingVars

-----------------------------------------------------------------------------
Settled == \A i \in DOMAIN events : events[i].step = "done"

\* Events of one subscription in one second, other than its end, are ordered by
\* their names alone, which say nothing of what happened last.
Tied == Twins(row.sub, row.at) \ {row.event} # {}

\* Once every event was handled, in whatever order and however often they arrived,
\* the row has the status of its subscription, unless two of its events are tied;
\* and a subscription that is live is the row's, unless the row keeps one whose
\* first payment never came (the write lets a checkout replace a canceled
\* subscription only).  Neither holds after a checkout too many was paid, or after a
\* LateReplacement.
RowFollowsStripe ==
  Settled /\ ~astray =>
    /\ row.sub # Unbound => row.status = stripe.status[row.sub] \/ Tied
    /\ LiveSubs \subseteq {row.sub} \/ row.status = "incomplete_expired"
=============================================================================
