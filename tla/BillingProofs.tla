---------------------------- MODULE BillingProofs ----------------------------
(***************************************************************************)
(* Proofs about Billing, for any number of subscriptions, events and       *)
(* seconds.                                                                *)
(*                                                                         *)
(* The newest event of a subscription is the one that counts: whoever      *)
(* handles it, asks Stripe after it and so learns the final status.        *)
(*   EventFacts    what an event and its webhook know of the subscription  *)
(*   RowFacts      where the row's contents are from                       *)
(*   CheckoutFacts an unbound row leads to one payment                     *)
(* and, as long as nothing went astray:                                    *)
(*   Followed      the row has the status of its subscription, or the      *)
(*                 newest event is still to come or tied with the row's    *)
(*   Informed      once the newest event was passed over, every webhook    *)
(*                 holds the final status                                  *)
(*   OneLive, Superseded, Coming                                           *)
(*                 a live subscription other than the row's is on its way  *)
(*                 to it                                                   *)
(***************************************************************************)
EXTENDS Billing, TLAPS

Statuses == {"none"} \cup Live \cup Terminal
Event == [type : Types, sub : Subs, at : Nat, name : EventNames,
          step : {"sent", "fetched", "wanted", "done"}, got : Statuses]
Row == [sub : {Unbound} \cup Subs, status : {"trialing"} \cup Statuses,
        event : Nat, at : Nat]
FirstRow == [sub |-> Unbound, status |-> "trialing", event |-> 0, at |-> 0]

Shape ==
  /\ stripe \in [status : [Subs -> Statuses], now : Nat]
  /\ events \in Seq(Event)
  /\ row \in Row
  /\ paying \in [open : SUBSET Row, paid : SUBSET Row]
  /\ astray \in BOOLEAN

Now(s) == stripe.status[s]
InHand(i) == events[i].step \in {"fetched", "wanted"}
IsLast(i) == \A j \in DOMAIN events : events[j].sub = events[i].sub => j <= i

\* What is known of one event.
EventFact(i) ==
  /\ events[i].at <= stripe.now
  /\ Now(events[i].sub) # "none"
  /\ events[i].type = "deleted" => Now(events[i].sub) = "canceled"
  /\ InHand(i) /\ events[i].got \in Terminal => Now(events[i].sub) = events[i].got
  /\ IsLast(i) =>
       /\ Now(events[i].sub) = "canceled" => events[i].type = "deleted"
       /\ InHand(i) => events[i].got = Now(events[i].sub)

\* Events have the order of their timestamps; each subscription has a newest one, and
\* one that expired ended in a second of its own.
Ordered ==
  \A i, j \in DOMAIN events :
    /\ i <= j => events[i].at <= events[j].at
    /\ IsLast(j) /\ i # j /\ events[i].sub = events[j].sub
         /\ Now(events[j].sub) = "incomplete_expired" => events[i].at < events[j].at
HasLast ==
  \A i \in DOMAIN events : \E l \in DOMAIN events : IsLast(l) /\ events[l].sub = events[i].sub

EventFacts == (\A i \in DOMAIN events : EventFact(i)) /\ Ordered /\ HasLast

\* An unbound row is the trial's, and no event was handled.  A bound one is of the
\* event it names, and says that the subscription has ended only if it has.
RowFacts ==
  /\ row.sub = Unbound => row = FirstRow /\ \A i \in DOMAIN events : events[i].step # "done"
  /\ row.sub # Unbound =>
       /\ row.event \in DOMAIN events
       /\ events[row.event].sub = row.sub /\ events[row.event].at = row.at
       /\ row.status \in Terminal => Now(row.sub) = row.status

\* While the row is unbound there is one checkout, and one subscription when it is paid.
CheckoutFacts ==
  row.sub = Unbound =>
    /\ paying.open \cup paying.paid \subseteq {row}
    /\ paying.open = {} \/ paying.paid = {}
    /\ paying.paid = {} => \A s \in Subs : Now(s) = "none"
    /\ \A s, t \in Subs : Now(s) # "none" /\ Now(t) # "none" => s = t

Followed ==
  row.sub # Unbound =>
    \/ row.status = Now(row.sub)
    \/ \E l \in DOMAIN events :
         /\ IsLast(l) /\ events[l].sub = row.sub
         /\ \/ events[l].step # "done" /\ events[l].at > row.at
            \/ events[l].at = row.at /\ l # row.event

Informed ==
  row.sub # Unbound =>
    \A l \in DOMAIN events :
      IsLast(l) /\ events[l].sub = row.sub /\ events[l].step = "done" /\ events[l].at > row.at =>
        \A i \in DOMAIN events :
          events[i].sub = row.sub /\ InHand(i) => events[i].got = Now(row.sub)

OneLive == \A s, t \in LiveSubs : s = t

\* A bound row that is not of the live subscription can be replaced, but for the one case.
Superseded ==
  \A t \in LiveSubs : row.sub \notin {Unbound, t} =>
    row.status = "canceled" \/ Now(row.sub) = "incomplete_expired"

\* The event of its checkout is still to be handled.
Due(t) ==
  \E i \in DOMAIN events :
    events[i].sub = t /\ events[i].type = "completed" /\ events[i].step # "done"

Coming ==
  \A t \in LiveSubs \ {row.sub} :
    \/ Due(t)
    \/ row.sub # Unbound /\ Now(row.sub) = "incomplete_expired"

OnTrack == Followed /\ Informed /\ OneLive /\ Superseded /\ Coming

BillingInv == Shape /\ EventFacts /\ RowFacts /\ CheckoutFacts /\ (~astray => OnTrack)

-----------------------------------------------------------------------------
(* A step of a webhook.                                                    *)

LEMMA BillingBegins == ASSUME BillingInit PROVE BillingInv
<1> USE DEF BillingInit
<1>1. row = FirstRow /\ FirstRow \in Row /\ events = <<>>
  BY DEF FirstRow, Row, Unbound
<1>2. \A s \in Subs : stripe.status[s] = "none"
  OBVIOUS
<1>3. Shape
  <2>1. stripe \in [status : [Subs -> Statuses], now : Nat]
    BY DEF Statuses
  <2>2. events \in Seq(Event)
    BY <1>1
  <2> QED  BY <1>1, <2>1, <2>2 DEF Shape
<1>4. DOMAIN events = {}
  BY <1>1
<1>5. EventFacts /\ RowFacts
  BY <1>1, <1>4 DEF EventFacts, Ordered, HasLast, RowFacts, FirstRow, Unbound
<1>6. CheckoutFacts
  BY <1>1, <1>2 DEF CheckoutFacts, Now
<1>7. LiveSubs = {} /\ row.sub = Unbound
  BY <1>1, <1>2 DEF LiveSubs, Live, FirstRow
<1>8. OnTrack
  BY <1>7 DEF OnTrack, Followed, Informed, OneLive, Superseded, Coming
<1> QED  BY <1>3, <1>5, <1>6, <1>8 DEF BillingInv

\* What a webhook's step on event i, which becomes k, keeps of the events.
LEMMA Handling ==
  ASSUME Shape, EventFacts, NEW i \in DOMAIN events, NEW k \in Event,
         events' = [events EXCEPT ![i] = k], UNCHANGED stripe,
         k.type = events[i].type, k.sub = events[i].sub, k.at = events[i].at,
         k.step \in {"fetched", "wanted"} =>
           k.got = Now(events[i].sub) \/ (InHand(i) /\ k.got = events[i].got)
  PROVE  /\ events' \in Seq(Event) /\ DOMAIN events' = DOMAIN events
         /\ events'[i] = k
         /\ \A j \in DOMAIN events : j # i => events'[j] = events[j]
         /\ \A j \in DOMAIN events : /\ events'[j].type = events[j].type
                                     /\ events'[j].sub = events[j].sub
                                     /\ events'[j].at = events[j].at
         /\ \A j \in DOMAIN events : IsLast(j)' <=> IsLast(j)
         /\ \A s \in Subs : Now(s)' = Now(s)
         /\ EventFacts'
<1>1. events \in Seq(Event)
  BY DEF Shape
<1>2. DOMAIN events = 1..Len(events) /\ Len(events) \in Nat
  BY <1>1
<1>3. events' \in Seq(Event) /\ DOMAIN events' = DOMAIN events
  BY <1>1
<1>4. events'[i] = k /\ \A j \in DOMAIN events : j # i => events'[j] = events[j]
  BY <1>1
<1>5. \A j \in DOMAIN events : /\ events'[j].type = events[j].type
                               /\ events'[j].sub = events[j].sub
                               /\ events'[j].at = events[j].at
  BY <1>4
<1>6. \A j \in DOMAIN events : IsLast(j)' <=> IsLast(j)
  BY <1>3, <1>5 DEF IsLast
<1>7. \A s : Now(s)' = Now(s)
  BY DEF Now
<1>8. \A j \in DOMAIN events : EventFact(j)'
  <2> SUFFICES ASSUME NEW j \in DOMAIN events PROVE EventFact(j)'
    OBVIOUS
  <2>1. EventFact(j)
    BY DEF EventFacts
  <2>2. CASE j # i
    BY <1>3, <1>4, <1>6, <1>7, <2>1, <2>2 DEF EventFact, InHand
  <2>3. CASE j = i
    <3>1. InHand(j)' =>
            \/ events'[j].got = Now(events[j].sub)
            \/ InHand(j) /\ events'[j].got = events[j].got
      BY <1>4, <2>3 DEF InHand
    <3> QED  BY <1>5, <1>6, <1>7, <2>1, <3>1 DEF EventFact
  <2> QED  BY <2>2, <2>3
<1>9. Ordered'
  BY <1>3, <1>5, <1>6, <1>7 DEF EventFacts, Ordered
<1>10. HasLast'
  BY <1>3, <1>5, <1>6 DEF EventFacts, HasLast
<1>11. EventFacts'
  BY <1>3, <1>8, <1>9, <1>10 DEF EventFacts
<1> QED  BY <1>3, <1>4, <1>5, <1>6, <1>7, <1>11

\* A change at Stripe, and what event n, which tells of it, makes of the rest.
News(n, s, status, type, at) ==
  /\ n = Len(events) + 1 /\ DOMAIN events' = DOMAIN events \cup {n}
  /\ events' \in Seq(Event) /\ n \in Nat /\ n \notin DOMAIN events
  /\ \A j \in DOMAIN events : events'[j] = events[j]
  /\ events'[n].sub = s /\ events'[n].type = type /\ events'[n].at = at
  /\ events'[n].step = "sent" /\ IsLast(n)'
  /\ \A j \in DOMAIN events : IsLast(j)' <=> (IsLast(j) /\ events[j].sub # s)
  /\ stripe' \in [status : [Subs -> Statuses], now : Nat]
  /\ Now(s)' = status /\ \A t \in Subs \ {s} : Now(t)' = Now(t)
  /\ at \in Nat /\ stripe.now <= at
  /\ EventFacts'

LEMMA Telling ==
  ASSUME Shape, EventFacts, NEW s \in Subs, NEW status \in Live \cup Terminal,
         NEW type \in Types, NEW at \in {stripe.now, stripe.now + 1},
         Changes(s, status, type, at), Now(s) \notin Terminal,
         status = "canceled" <=> type = "deleted",
         status = "incomplete_expired" => at = stripe.now + 1
  PROVE  \E n : News(n, s, status, type, at)
<1>1. /\ events \in Seq(Event) /\ DOMAIN events = 1..Len(events) /\ Len(events) \in Nat
      /\ stripe.status \in [Subs -> Statuses] /\ stripe.now \in Nat
  BY DEF Shape
<1>2. PICK n : n = Len(events) + 1
  OBVIOUS
<1>3. PICK name \in EventNames :
        events' = Append(events, [type |-> type, sub |-> s, at |-> at, name |-> name,
                                  step |-> "sent", got |-> "none"])
  BY DEF Changes, EventNames
<1>4. at \in Nat /\ stripe.now <= at /\ (status = "incomplete_expired" => stripe.now < at)
  BY <1>1
<1>5. PICK e : e = [type |-> type, sub |-> s, at |-> at, name |-> name,
                    step |-> "sent", got |-> "none"]
  OBVIOUS
<1>6. e \in Event
  BY <1>4, <1>5 DEF Event, Statuses
<1>7. /\ events' \in Seq(Event) /\ DOMAIN events' = DOMAIN events \cup {n}
      /\ n \in Nat /\ n \notin DOMAIN events /\ events'[n] = e
      /\ \A j \in DOMAIN events : events'[j] = events[j]
  BY <1>1, <1>2, <1>3, <1>5, <1>6
<1>8. /\ events'[n].sub = s /\ events'[n].type = type /\ events'[n].at = at
      /\ events'[n].step = "sent"
  BY <1>5, <1>7
<1>9. stripe' = [status |-> [stripe.status EXCEPT ![s] = status], now |-> at]
  BY DEF Changes
<1>10. /\ stripe' \in [status : [Subs -> Statuses], now : Nat]
       /\ stripe'.now = at
  BY <1>1, <1>4, <1>9 DEF Statuses
<1>11. Now(s)' = status /\ \A t \in Subs \ {s} : Now(t)' = Now(t)
  BY <1>1, <1>9 DEF Now
<1>12. \A j \in DOMAIN events : j < n /\ j \in Nat
  BY <1>1, <1>2
<1>13. IsLast(n)'
  BY <1>7, <1>12 DEF IsLast
<1>14. \A j \in DOMAIN events : IsLast(j)' <=> (IsLast(j) /\ events[j].sub # s)
  BY <1>7, <1>8, <1>12 DEF IsLast
<1>15. \A j \in DOMAIN events : events[j] \in Event
  BY <1>1
<1>16. EventFact(n)'
  BY <1>4, <1>8, <1>10, <1>11 DEF EventFact, InHand, Live, Terminal
<1>17. ASSUME NEW j \in DOMAIN events PROVE EventFact(j)'
  <2>1. EventFact(j) /\ events'[j] = events[j] /\ events[j].sub \in Subs /\ events[j].at \in Nat
    BY <1>7, <1>15 DEF EventFacts, Event
  <2>2. events'[j].at <= stripe'.now
    BY <1>1, <1>4, <1>10, <2>1 DEF EventFact
  <2>3. CASE events[j].sub # s
    <3>1. Now(events[j].sub)' = Now(events[j].sub)
      BY <1>11, <2>1, <2>3
    <3> QED  BY <1>14, <2>1, <2>2, <2>3, <3>1 DEF EventFact, InHand
  <2>4. CASE events[j].sub = s
    <3>1. ~IsLast(j)' /\ Now(s)' # "none"
      BY <1>11, <1>14, <2>4 DEF Live, Terminal
    <3>2. /\ events[j].type # "deleted"
          /\ InHand(j) => events[j].got \notin Terminal
      BY <2>1, <2>4 DEF EventFact, Terminal
    <3> QED  BY <2>1, <2>2, <2>4, <3>1, <3>2 DEF EventFact, InHand
  <2> QED  BY <2>3, <2>4
<1>18. Ordered'
  <2> SUFFICES ASSUME NEW i \in DOMAIN events', NEW j \in DOMAIN events'
               PROVE  /\ i <= j => events'[i].at <= events'[j].at
                      /\ IsLast(j)' /\ i # j /\ events'[i].sub = events'[j].sub
                           /\ Now(events[j].sub)' = "incomplete_expired" =>
                         events'[i].at < events'[j].at
    BY DEF Ordered
  <2>1. \A l \in DOMAIN events : events'[l].at \in Nat /\ events'[l].at <= stripe.now
                                 /\ events'[l].sub \in Subs
    BY <1>7, <1>15 DEF EventFacts, EventFact, Event
  <2>2. CASE i \in DOMAIN events /\ j \in DOMAIN events
    <3>1. events'[j] = events[j] /\ events'[i] = events[i] /\ Ordered
      BY <1>7, <2>2 DEF EventFacts
    <3>2. IsLast(j)' => IsLast(j) /\ events[j].sub # s
      BY <1>14, <2>2
    <3>3. events[j].sub # s => Now(events[j].sub)' = Now(events[j].sub)
      BY <1>11, <2>1, <2>2, <3>1
    <3> QED  BY <2>2, <3>1, <3>2, <3>3 DEF Ordered
  <2>3. CASE i \in DOMAIN events /\ j = n
    <3>1. events'[i].at <= at /\ (status = "incomplete_expired" => events'[i].at < at)
      BY <1>1, <1>4, <2>1, <2>3
    <3> QED  BY <1>8, <1>11, <2>3, <3>1
  <2>4. CASE i = n /\ j = n
    BY <1>4, <1>8, <2>4
  <2>5. CASE i = n /\ j \in DOMAIN events
    <3>1. ~(i <= j)
      BY <1>12, <1>7, <2>5
    <3>2. ~(IsLast(j)' /\ events'[i].sub = events'[j].sub)
      BY <1>7, <1>8, <1>14, <2>5
    <3> QED  BY <3>1, <3>2
  <2> QED  BY <1>7, <2>2, <2>3, <2>4, <2>5
<1>19. HasLast'
  <2> SUFFICES ASSUME NEW i \in DOMAIN events'
               PROVE  \E l \in DOMAIN events' : IsLast(l)' /\ events'[l].sub = events'[i].sub
    BY DEF HasLast
  <2>1. CASE events'[i].sub = s
    BY <1>7, <1>8, <1>13, <2>1
  <2>2. CASE events'[i].sub # s
    <3>1. i \in DOMAIN events
      BY <1>7, <1>8, <2>2
    <3>2. PICK l \in DOMAIN events : IsLast(l) /\ events[l].sub = events[i].sub
      BY <3>1 DEF EventFacts, HasLast
    <3> QED  BY <1>7, <1>14, <2>2, <3>1, <3>2
  <2> QED  BY <2>1, <2>2
<1>20. EventFacts'
  BY <1>7, <1>16, <1>17, <1>18, <1>19 DEF EventFacts
<1> QED  BY <1>2, <1>4, <1>7, <1>8, <1>10, <1>11, <1>13, <1>14, <1>20 DEF News

\* The row, which does not know yet, after a change at Stripe.
Aftermath(s, status, type) ==
  /\ stripe' \in [status : [Subs -> Statuses], now : Nat] /\ events' \in Seq(Event)
  /\ Now(s)' = status /\ \A t \in Subs \ {s} : Now(t)' = Now(t)
  /\ EventFacts' /\ RowFacts'
  /\ ~astray => Followed' /\ Informed'
  /\ \A t \in Subs : Due(t) \/ (t = s /\ type = "completed") => Due(t)'

LEMMA Told ==
  ASSUME BillingInv, NEW s \in Subs, NEW status \in Live \cup Terminal,
         NEW type \in Types, NEW at \in {stripe.now, stripe.now + 1},
         Changes(s, status, type, at), Now(s) \notin Terminal,
         status = "canceled" <=> type = "deleted",
         status = "incomplete_expired" => at = stripe.now + 1,
         UNCHANGED row
  PROVE  Aftermath(s, status, type)
<1>1. Shape /\ EventFacts /\ RowFacts /\ (~astray => Followed /\ Informed)
  BY DEF BillingInv, OnTrack
<1>10. PICK n : News(n, s, status, type, at)
  BY <1>1, Telling
<1>2. /\ n = Len(events) + 1 /\ DOMAIN events' = DOMAIN events \cup {n}
      /\ events' \in Seq(Event) /\ n \in Nat /\ n \notin DOMAIN events
      /\ \A j \in DOMAIN events : events'[j] = events[j]
      /\ events'[n].sub = s /\ events'[n].type = type /\ events'[n].at = at
      /\ events'[n].step = "sent" /\ IsLast(n)'
      /\ \A j \in DOMAIN events : IsLast(j)' <=> (IsLast(j) /\ events[j].sub # s)
      /\ stripe' \in [status : [Subs -> Statuses], now : Nat]
      /\ Now(s)' = status /\ \A t \in Subs \ {s} : Now(t)' = Now(t)
      /\ at \in Nat /\ stripe.now <= at
      /\ EventFacts'
  BY <1>10 DEF News
<1> HIDE DEF Changes
<1>3. row \in Row /\ row' = row /\ stripe.now \in Nat
  BY <1>1 DEF Shape
<1>4. row.sub # Unbound => row.sub \in Subs
  BY <1>3 DEF Row
<1>5. RowFacts'
  <2>1. row.sub = Unbound => \A i \in DOMAIN events' : events'[i].step # "done"
    BY <1>1, <1>2 DEF RowFacts
  <2>2. row.sub # Unbound /\ row.status \in Terminal => Now(row.sub)' = row.status
    BY <1>1, <1>2, <1>4 DEF RowFacts
  <2>3. row.sub # Unbound => /\ row.event \in DOMAIN events'
                             /\ events'[row.event].sub = row.sub
                             /\ events'[row.event].at = row.at
    BY <1>1, <1>2 DEF RowFacts
  <2> QED  BY <1>1, <1>3, <2>1, <2>2, <2>3 DEF RowFacts, Now
<1>6. ASSUME ~astray, row.sub # Unbound PROVE Followed'
  <2>1. CASE row.sub = s
    <3>1. row.event \in DOMAIN events /\ row.at <= stripe.now /\ row.at \in Nat
      BY <1>1, <1>3, <1>6 DEF RowFacts, EventFacts, EventFact, Row
    <3>2. n # row.event /\ (row.at < at \/ at = row.at)
      BY <1>2, <1>3, <3>1
    <3> QED  BY <1>2, <1>3, <2>1, <3>2 DEF Followed
  <2>2. CASE row.sub # s
    <3>1. Now(row.sub)' = Now(row.sub)
      BY <1>2, <1>4, <1>6, <2>2
    <3>2. CASE row.status = Now(row.sub)
      BY <1>3, <3>1, <3>2 DEF Followed, Now
    <3>3. ASSUME NEW l \in DOMAIN events, IsLast(l), events[l].sub = row.sub,
                 \/ events[l].step # "done" /\ events[l].at > row.at
                 \/ events[l].at = row.at /\ l # row.event
          PROVE  Followed'
      <4>1. l \in DOMAIN events' /\ IsLast(l)' /\ events'[l] = events[l]
        BY <1>2, <2>2, <3>3
      <4> QED  BY <1>3, <3>3, <4>1 DEF Followed
    <3> QED  BY <1>1, <1>6, <3>2, <3>3 DEF Followed
  <2> QED  BY <2>1, <2>2
<1>7. ASSUME ~astray, row.sub # Unbound PROVE Informed'
  <2> SUFFICES ASSUME NEW l \in DOMAIN events', IsLast(l)', events'[l].sub = row.sub,
                      events'[l].step = "done", events'[l].at > row.at,
                      NEW i \in DOMAIN events', events'[i].sub = row.sub, InHand(i)'
               PROVE  events'[i].got = Now(row.sub)'
    BY <1>3 DEF Informed, Now
  <2>1. l # n
    BY <1>2
  <2>2. l \in DOMAIN events /\ IsLast(l) /\ events[l].sub # s /\ events'[l] = events[l]
    BY <1>2, <2>1
  <2>3. row.sub # s /\ i \in DOMAIN events /\ events'[i] = events[i]
    BY <1>2, <2>2
  <2>4. InHand(i) /\ Now(row.sub)' = Now(row.sub)
    BY <1>2, <1>4, <1>7, <2>3 DEF InHand
  <2> QED  BY <1>1, <1>7, <2>2, <2>3, <2>4 DEF Informed
<1>8. row.sub = Unbound => Followed' /\ Informed'
  BY <1>3 DEF Followed, Informed
<1>9. ASSUME NEW t \in Subs, Due(t) \/ (t = s /\ type = "completed") PROVE Due(t)'
  BY <1>2, <1>9 DEF Due
<1> QED  BY <1>2, <1>5, <1>6, <1>7, <1>8, <1>9 DEF Aftermath

\* A live subscription changes or ends.
LEMMA LiveChanges ==
  ASSUME BillingInv, NEW s \in LiveSubs, NEW status \in Live \cup Terminal,
         NEW type \in Types, NEW at \in {stripe.now, stripe.now + 1},
         Changes(s, status, type, at),
         status = "canceled" <=> type = "deleted",
         status = "incomplete_expired" => at = stripe.now + 1,
         UNCHANGED <<row, paying, astray>>
  PROVE  BillingInv'
<1>1. s \in Subs /\ Now(s) \in Live
  BY DEF LiveSubs, Now
<1>2. Now(s) \notin Terminal /\ Now(s) # "none"
  BY <1>1 DEF Live, Terminal
<1>3. Aftermath(s, status, type)
  BY <1>1, <1>2, Told
<1> HIDE DEF Changes
<1>4. /\ stripe' \in [status : [Subs -> Statuses], now : Nat] /\ events' \in Seq(Event)
      /\ Now(s)' = status /\ \A t \in Subs \ {s} : Now(t)' = Now(t)
      /\ EventFacts' /\ RowFacts'
      /\ ~astray => Followed' /\ Informed'
      /\ \A t \in Subs : Due(t) => Due(t)'
  BY <1>3 DEF Aftermath
<1>5. Shape'
  BY <1>4 DEF BillingInv, Shape
<1>6. row' = row /\ paying' = paying /\ astray' = astray /\ row \in Row
  BY DEF BillingInv, Shape
<1>7. \A t \in Subs : Now(t)' # "none" <=> Now(t) # "none"
  BY <1>1, <1>2, <1>4 DEF Live, Terminal
<1>8. CheckoutFacts'
  <2>1. CheckoutFacts
    BY DEF BillingInv
  <2>2. row.sub = Unbound => paying.paid # {}
    BY <1>1, <1>2, <2>1 DEF CheckoutFacts
  <2> QED  BY <1>6, <1>7, <2>1, <2>2 DEF CheckoutFacts
<1>9. LiveSubs' \subseteq LiveSubs
  BY <1>1, <1>4 DEF LiveSubs, Now
<1>10. ASSUME ~astray PROVE OneLive' /\ Superseded' /\ Coming'
  <2>1. OneLive /\ Superseded /\ Coming
    BY <1>10 DEF BillingInv, OnTrack
  <2>2. \A t \in LiveSubs : t = s
    BY <2>1 DEF OneLive
  <2>3. row.sub \notin {Unbound, s} => Now(row.sub)' = Now(row.sub)
    BY <1>4, <1>6 DEF Row
  <2>4. OneLive'
    BY <1>9, <2>1 DEF OneLive
  <2>5. Superseded'
    <3>1. ASSUME NEW t \in LiveSubs', row.sub \notin {Unbound, t}
          PROVE  row.status = "canceled" \/ Now(row.sub)' = "incomplete_expired"
      BY <1>9, <2>1, <2>2, <2>3, <3>1 DEF Superseded
    <3> QED  BY <1>6, <3>1 DEF Superseded, Now
  <2>6. Coming'
    <3>1. ASSUME NEW t \in LiveSubs', t # row.sub
          PROVE  Due(t)' \/ (row.sub # Unbound /\ Now(row.sub)' = "incomplete_expired")
      BY <1>1, <1>4, <1>9, <2>1, <2>2, <2>3, <3>1 DEF Coming
    <3> QED  BY <1>6, <3>1 DEF Coming, Now
  <2> QED  BY <2>4, <2>5, <2>6
<1> QED  BY <1>4, <1>5, <1>6, <1>8, <1>10 DEF BillingInv, OnTrack

LEMMA UpdatesStep == ASSUME BillingInv, Updates PROVE BillingInv'
<1>1. PICK s \in LiveSubs :
        \/ /\ stripe.status[s] # "active"
           /\ \E at \in ThisSecondOrNext : Changes(s, "active", "updated", at)
        \/ /\ stripe.status[s] = "active"
           /\ \E at \in ThisSecondOrNext : Changes(s, "past_due", "updated", at)
        \/ /\ stripe.status[s] = "incomplete"
           /\ Changes(s, "incomplete_expired", "updated", stripe.now + 1)
  BY DEF Updates
<1>2. UNCHANGED <<row, paying, astray>>
  BY DEF Updates
<1>3. PICK status \in {"active", "past_due", "incomplete_expired"},
           at \in {stripe.now, stripe.now + 1} :
        /\ Changes(s, status, "updated", at)
        /\ status = "incomplete_expired" => at = stripe.now + 1
  BY <1>1 DEF ThisSecondOrNext
<1>4. /\ status \in Live \cup Terminal /\ "updated" \in Types
      /\ status = "canceled" <=> "updated" = "deleted"
  BY DEF Live, Terminal, Types
<1> QED  BY <1>2, <1>3, <1>4, LiveChanges

LEMMA CancelsStep == ASSUME BillingInv, Cancels PROVE BillingInv'
<1>1. PICK s \in LiveSubs, at \in {stripe.now, stripe.now + 1} :
        Changes(s, "canceled", "deleted", at)
  BY DEF Cancels, ThisSecondOrNext
<1>2. UNCHANGED <<row, paying, astray>>
  BY DEF Cancels
<1>3. "canceled" \in Live \cup Terminal /\ "deleted" \in Types
  BY DEF Terminal, Types
<1> QED  BY <1>1, <1>2, <1>3, LiveChanges

LEMMA CreateCheckoutStep == ASSUME BillingInv, CreateCheckout PROVE BillingInv'
<1>1. UNCHANGED <<stripe, events, row, astray>>
  BY DEF CreateCheckout
<1>2. /\ row \in Row /\ paying \in [open : SUBSET Row, paid : SUBSET Row]
      /\ row \notin paying.open \cup paying.paid
      /\ paying' = [paying EXCEPT !.open = paying.open \cup {row}]
  BY DEF CreateCheckout, BillingInv, Shape
<1>3. /\ paying' \in [open : SUBSET Row, paid : SUBSET Row]
      /\ paying'.open = paying.open \cup {row} /\ paying'.paid = paying.paid
  BY <1>2
<1>4. Shape'
  BY <1>1, <1>3 DEF BillingInv, Shape
<1>5. CheckoutFacts'
  <2>1. CheckoutFacts
    BY DEF BillingInv
  <2>2. row.sub = Unbound => paying.paid = {}
    BY <1>2, <2>1 DEF CheckoutFacts
  <2>3. row.sub = Unbound => /\ paying'.open \cup paying'.paid \subseteq {row}
                             /\ paying'.paid = {}
                             /\ \A s \in Subs : Now(s) = "none"
    BY <1>3, <2>1, <2>2 DEF CheckoutFacts
  <2> QED  BY <1>1, <2>3 DEF CheckoutFacts, Now
<1>6. /\ EventFacts => EventFacts'
      /\ RowFacts => RowFacts'
      /\ OnTrack => OnTrack'
  BY <1>1 DEF EventFacts, EventFact, Ordered, HasLast, RowFacts, OnTrack, Followed, Informed,
              OneLive, Superseded, Coming, Due, LiveSubs, IsLast, InHand, Now
<1> QED  BY <1>1, <1>4, <1>5, <1>6 DEF BillingInv

\* Payment of a checkout.  Nothing goes astray only if no other subscription is live
\* and the row, if it is bound, is of one that has ended.
LEMMA PayStep == ASSUME BillingInv, Pay PROVE BillingInv'
<1>1. PICK session \in paying.open :
        paying' = [open |-> paying.open \ {session}, paid |-> paying.paid \cup {session}]
  BY DEF Pay
<1>2. PICK s \in Subs, status \in {"active", "incomplete"}, at \in {stripe.now, stripe.now + 1} :
        stripe.status[s] = "none" /\ Changes(s, status, "completed", at)
  BY DEF Pay, ThisSecondOrNext
<1>3. /\ row' = row
      /\ astray' = (astray \/ LiveSubs # {} \/ NonTerminal)
  BY DEF Pay
<1>4. /\ status \in Live \cup Terminal /\ "completed" \in Types
      /\ Now(s) = "none" /\ Now(s) \notin Terminal
      /\ status = "canceled" <=> "completed" = "deleted"
      /\ status # "incomplete_expired"
  BY <1>2 DEF Live, Terminal, Types, Now
<1>5. Aftermath(s, status, "completed")
  BY <1>2, <1>3, <1>4, Told
<1> HIDE DEF Changes
<1>6. /\ stripe' \in [status : [Subs -> Statuses], now : Nat] /\ events' \in Seq(Event)
      /\ Now(s)' = status /\ \A t \in Subs \ {s} : Now(t)' = Now(t)
      /\ EventFacts' /\ RowFacts'
      /\ ~astray => Followed' /\ Informed'
      /\ Due(s)'
  BY <1>5 DEF Aftermath
<1>7. row \in Row /\ paying \in [open : SUBSET Row, paid : SUBSET Row] /\ astray \in BOOLEAN
  BY DEF BillingInv, Shape
<1>8. paying'.open = paying.open \ {session} /\ paying'.paid = paying.paid \cup {session}
  BY <1>1
<1>9. Shape'
  <2>1. paying' \in [open : SUBSET Row, paid : SUBSET Row]
    BY <1>1, <1>7
  <2>2. astray' \in BOOLEAN
    BY <1>3, <1>7
  <2> QED  BY <1>3, <1>6, <1>7, <2>1, <2>2 DEF Shape
<1>10. CheckoutFacts'
  <2> SUFFICES ASSUME row.sub = Unbound
               PROVE  /\ paying'.open \cup paying'.paid \subseteq {row}
                      /\ paying'.open = {}
                      /\ paying'.paid # {}
                      /\ \A t, u \in Subs : Now(t)' # "none" /\ Now(u)' # "none" => t = u
    BY <1>3 DEF CheckoutFacts, Now
  <2>1. /\ paying.open \cup paying.paid \subseteq {row}
        /\ paying.open = {} \/ paying.paid = {}
        /\ paying.paid = {} => \A t \in Subs : Now(t) = "none"
    BY DEF BillingInv, CheckoutFacts
  <2>2. paying.open = {row} /\ session = row /\ paying.paid = {}
    BY <2>1
  <2>3. \A t \in Subs \ {s} : Now(t)' = "none"
    BY <1>6, <2>1, <2>2
  <2> QED  BY <1>8, <2>2, <2>3
<1>11. ASSUME ~astray' PROVE OnTrack'
  <2>1. ~astray /\ LiveSubs = {} /\ ~NonTerminal
    BY <1>3, <1>11
  <2>2. LiveSubs' = {s}
    <3>1. \A t \in Subs \ {s} : Now(t)' \notin Live
      BY <1>6, <2>1 DEF LiveSubs, Now
    <3>2. Now(s)' \in Live
      BY <1>6 DEF Live
    <3> QED  BY <3>1, <3>2 DEF LiveSubs, Now
  <2>3. OneLive'
    BY <2>2 DEF OneLive
  <2>4. Superseded'
    <3> SUFFICES ASSUME row.sub \notin {Unbound, s}
                 PROVE  row.status = "canceled" \/ Now(row.sub)' = "incomplete_expired"
      BY <1>3, <2>2 DEF Superseded, Now
    <3>1. row.status \in Terminal
      BY <2>1 DEF NonTerminal
    <3>2. Now(row.sub) = row.status /\ row.sub \in Subs
      BY <1>7, <3>1 DEF BillingInv, RowFacts, Row
    <3>3. Now(row.sub)' = row.status
      BY <1>3, <1>6, <3>2 DEF Now
    <3> QED  BY <3>1, <3>3 DEF Terminal
  <2>5. Coming'
    BY <1>6, <2>2 DEF Coming
  <2> QED  BY <1>6, <2>1, <2>3, <2>4, <2>5 DEF OnTrack
<1> QED  BY <1>6, <1>9, <1>10, <1>11 DEF BillingInv

\* A webhook's step that leaves the row as it is.  If it was the last of its event,
\* the row is bound, the event is not a newer last one of the row's subscription,
\* and not the checkout of a live subscription that the row should be of.
LEMMA Passing ==
  ASSUME BillingInv, NEW i \in DOMAIN events, NEW k \in Event,
         events' = [events EXCEPT ![i] = k], UNCHANGED <<stripe, row, paying>>,
         astray' \in BOOLEAN, astray => astray',
         k.type = events[i].type, k.sub = events[i].sub, k.at = events[i].at,
         k.step \in {"fetched", "wanted"} =>
           k.got = Now(events[i].sub) \/ (InHand(i) /\ k.got = events[i].got),
         k.step = "done" =>
           /\ row.sub # Unbound
           /\ k.sub = row.sub /\ IsLast(i) => k.at <= row.at
           /\ ~astray /\ k.type = "completed" /\ k.sub # row.sub /\ k.sub \in LiveSubs =>
                Now(row.sub) = "incomplete_expired"
  PROVE  BillingInv'
<1>1. Shape /\ EventFacts /\ RowFacts /\ CheckoutFacts /\ (~astray => OnTrack)
  BY DEF BillingInv
<1>2. /\ events' \in Seq(Event) /\ DOMAIN events' = DOMAIN events
      /\ events'[i] = k
      /\ \A j \in DOMAIN events : j # i => events'[j] = events[j]
      /\ \A j \in DOMAIN events : /\ events'[j].type = events[j].type
                                  /\ events'[j].sub = events[j].sub
                                  /\ events'[j].at = events[j].at
      /\ \A j \in DOMAIN events : IsLast(j)' <=> IsLast(j)
      /\ \A s \in Subs : Now(s)' = Now(s)
      /\ EventFacts'
  BY <1>1, Handling
<1>3. /\ row' = row /\ paying' = paying /\ stripe' = stripe
      /\ \A s : Now(s)' = Now(s)
      /\ LiveSubs' = LiveSubs
  BY DEF Now, LiveSubs
<1>4. Shape'
  BY <1>1, <1>2, <1>3 DEF Shape
<1>5. RowFacts'
  <2>1. row.sub = Unbound => \A j \in DOMAIN events : events'[j].step # "done"
    BY <1>1, <1>2 DEF RowFacts
  <2>2. row.sub # Unbound => /\ row.event \in DOMAIN events
                             /\ events'[row.event].sub = row.sub
                             /\ events'[row.event].at = row.at
    BY <1>1, <1>2 DEF RowFacts
  <2> QED  BY <1>1, <1>2, <1>3, <2>1, <2>2 DEF RowFacts
<1>6. CheckoutFacts'
  BY <1>1, <1>3 DEF CheckoutFacts
<1>7. ASSUME ~astray' PROVE OnTrack'
  <2>1. ~astray /\ Followed /\ Informed /\ OneLive /\ Superseded /\ Coming
    BY <1>1, <1>7 DEF OnTrack
  <2>2. OneLive' /\ Superseded'
    BY <1>3, <2>1 DEF OneLive, Superseded
  <2>3. events[i].at \in Nat /\ row.at \in Nat
    BY <1>1 DEF Shape, Event, Row
  <2>4. Followed'
    <3>1. SUFFICES ASSUME row.sub # Unbound, row.status # Now(row.sub) PROVE Followed'
      BY <1>3 DEF Followed
    <3>2. PICK l \in DOMAIN events :
            /\ IsLast(l) /\ events[l].sub = row.sub
            /\ \/ events[l].step # "done" /\ events[l].at > row.at
               \/ events[l].at = row.at /\ l # row.event
      BY <2>1, <3>1 DEF Followed
    <3>3. CASE events[l].step # "done" /\ events[l].at > row.at
      <4>1. l = i => k.step # "done"
        BY <2>3, <3>2, <3>3
      <4>2. events'[l].step # "done" /\ events'[l].at > row.at
        BY <1>2, <3>3, <4>1
      <4> QED  BY <1>2, <1>3, <3>2, <4>2 DEF Followed
    <3>4. CASE events[l].at = row.at /\ l # row.event
      BY <1>2, <1>3, <3>2, <3>4 DEF Followed
    <3> QED  BY <3>2, <3>3, <3>4
  <2>5. Informed'
    <3> SUFFICES ASSUME row.sub # Unbound,
                        NEW l \in DOMAIN events, IsLast(l), events[l].sub = row.sub,
                        events'[l].step = "done", events[l].at > row.at,
                        NEW j \in DOMAIN events, events[j].sub = row.sub, InHand(j)'
                 PROVE  events'[j].got = Now(row.sub)
      BY <1>2, <1>3 DEF Informed
    <3>1. l # i
      BY <1>2, <2>3
    <3>2. events[l].step = "done"
      BY <1>2, <3>1
    <3>3. InHand(j) => events[j].got = Now(row.sub)
      BY <2>1, <3>2 DEF Informed
    <3> QED  BY <1>2, <3>3 DEF InHand
  <2>6. Coming'
    <3> SUFFICES ASSUME NEW t \in LiveSubs, t # row.sub
                 PROVE  Due(t)' \/ (row.sub # Unbound /\ Now(row.sub) = "incomplete_expired")
      BY <1>3 DEF Coming
    <3>1. CASE row.sub # Unbound /\ Now(row.sub) = "incomplete_expired"
      BY <3>1
    <3>2. CASE Due(t)
      <4>1. PICK j \in DOMAIN events :
              events[j].sub = t /\ events[j].type = "completed" /\ events[j].step # "done"
        BY <3>2 DEF Due
      <4>2. CASE events'[j].step # "done"
        BY <1>2, <4>1, <4>2 DEF Due
      <4>3. CASE events'[j].step = "done"
        BY <1>2, <2>1, <4>1, <4>3
      <4> QED  BY <4>2, <4>3
    <3> QED  BY <2>1, <3>1, <3>2 DEF Coming
  <2> QED  BY <2>2, <2>4, <2>5, <2>6 DEF OnTrack
<1> QED  BY <1>2, <1>4, <1>5, <1>6, <1>7 DEF BillingInv

LEMMA EventIs ==
  ASSUME Shape, NEW i \in DOMAIN events PROVE events[i] \in Event
BY DEF Shape

LEMMA ProcessStep ==
  ASSUME BillingInv, NEW i \in DOMAIN events, ProcessWebhook(i) PROVE BillingInv'
<1>1. PICK e : e = events[i]
  OBVIOUS
<1>2. e \in Event /\ Shape /\ Now(e.sub) \in Statuses
  BY <1>1, EventIs DEF BillingInv, Shape, Event, Now
<1> DEFINE k == [e EXCEPT !.step = "fetched", !.got = Now(e.sub)]
<1>3. k \in Event /\ k.step = "fetched" /\ k.got = Now(e.sub)
      /\ k.type = e.type /\ k.sub = e.sub /\ k.at = e.at
  BY <1>2 DEF Event
<1>4. events' = [events EXCEPT ![i] = k] /\ UNCHANGED <<stripe, row, paying, astray>>
  BY <1>1, <1>2 DEF ProcessWebhook, Shape, Now
<1> HIDE DEF k
<1> QED  BY <1>1, <1>2, <1>3, <1>4, Passing DEF Shape

LEMMA FailsStep ==
  ASSUME BillingInv, NEW i \in DOMAIN events, WebhookFails(i) PROVE BillingInv'
<1>1. PICK e : e = events[i]
  OBVIOUS
<1>2. e \in Event /\ Shape
  BY <1>1, EventIs DEF BillingInv
<1> DEFINE k == [e EXCEPT !.step = "sent", !.got = "none"]
<1>3. k \in Event /\ k.step = "sent" /\ k.type = e.type /\ k.sub = e.sub /\ k.at = e.at
  BY <1>2 DEF Event, Statuses
<1>4. events' = [events EXCEPT ![i] = k] /\ UNCHANGED <<stripe, row, paying, astray>>
  BY <1>1, <1>2 DEF WebhookFails, Shape
<1> HIDE DEF k
<1> QED  BY <1>1, <1>2, <1>3, <1>4, Passing DEF Shape

\* An event that is passed over, when the row is read or when it is written, leaves
\* nothing to be done about it.
LEMMA PassedOver ==
  ASSUME BillingInv, NEW i \in DOMAIN events, ~Wanted(events[i]) \/ ~Applies(events[i])
  PROVE  /\ row.sub # Unbound
         /\ events[i].sub = row.sub /\ IsLast(i) => events[i].at <= row.at
         /\ ~astray /\ events[i].type = "completed" /\ events[i].sub # row.sub
              /\ events[i].sub \in LiveSubs => Now(row.sub) = "incomplete_expired"
<1>1. PICK e : e = events[i]
  OBVIOUS
<1>2. e \in Event /\ e.at \in Nat /\ e.type \in Types /\ e.sub \in Subs /\ row \in Row
  BY <1>1, EventIs DEF BillingInv, Event, Shape
<1>3. RowFacts /\ EventFact(i) /\ (~astray => Superseded)
  BY DEF BillingInv, EventFacts, OnTrack
<1>4. row.sub # Unbound
  <2> SUFFICES ASSUME row.sub = Unbound PROVE FALSE
    OBVIOUS
  <2>1. row.status = "trialing" /\ row.event = 0 /\ row.at = 0
    BY <1>3 DEF RowFacts, FirstRow
  <2>2. e.sub # Unbound
    BY <1>2 DEF Subs, Unbound
  <2>3. Wanted(e)
    BY <2>1, <2>2 DEF Wanted, IsNewer, SameOrUnbound
  <2>4. LaterName(e) /\ (row.at < e.at \/ row.at = e.at)
    BY <1>2, <2>1 DEF LaterName
  <2>5. row.at < e.at \/ (row.at = e.at /\ LaterName(e))
    BY <2>4
  <2>6. Applies(e)
    BY <1>2, <2>1, <2>5 DEF Applies, SameOrUnbound, Types
  <2> QED  BY <1>1, <2>3, <2>6
<1>5. ASSUME e.sub = row.sub, IsLast(i), ~(e.at <= row.at) PROVE FALSE
  <2>1. row.at < e.at /\ row.at \in Nat
    BY <1>2, <1>5 DEF Row
  <2>2. row.status = "canceled" => e.type = "deleted"
    BY <1>1, <1>3, <1>4, <1>5 DEF RowFacts, EventFact, Terminal
  <2>3. Wanted(e)
    BY <1>2, <1>5, <2>1, <2>2 DEF Wanted, IsNewer, SameOrUnbound
  <2>4. Applies(e)
    BY <1>2, <1>5, <2>1, <2>2 DEF Applies, SameOrUnbound
  <2> QED  BY <1>1, <2>3, <2>4
<1>6. ASSUME ~astray, e.type = "completed", e.sub # row.sub, e.sub \in LiveSubs
      PROVE  Now(row.sub) = "incomplete_expired"
  <2> SUFFICES ASSUME row.status = "canceled" PROVE FALSE
    BY <1>3, <1>4, <1>6 DEF Superseded
  <2>1. Wanted(e) /\ Applies(e)
    BY <1>6 DEF Wanted, Applies
  <2> QED  BY <1>1, <2>1
<1>7. e.sub = row.sub /\ IsLast(i) => e.at <= row.at
  BY <1>5
<1> QED  BY <1>1, <1>4, <1>6, <1>7

LEMMA ReadStep ==
  ASSUME BillingInv, NEW i \in DOMAIN events, ReadSubscription(i) PROVE BillingInv'
<1>1. PICK e : e = events[i]
  OBVIOUS
<1>2. e \in Event /\ Shape /\ e.step = "fetched"
  BY <1>1, EventIs DEF BillingInv, ReadSubscription
<1>3. PICK step \in {"wanted", "done"} :
        /\ step = "done" => ~Wanted(events[i])
        /\ events' = [events EXCEPT ![i].step = step]
  BY DEF ReadSubscription
<1> DEFINE k == [e EXCEPT !.step = step]
<1>4. k \in Event /\ k.step = step /\ k.type = e.type /\ k.sub = e.sub /\ k.at = e.at
      /\ k.got = e.got
  BY <1>2 DEF Event
<1>5. events' = [events EXCEPT ![i] = k] /\ UNCHANGED <<stripe, row, paying, astray>>
  BY <1>1, <1>2, <1>3 DEF ReadSubscription, Shape
<1>6. InHand(i)
  BY <1>1, <1>2 DEF InHand
<1> HIDE DEF k
<1>7. k.step = "done" =>
        /\ row.sub # Unbound
        /\ k.sub = row.sub /\ IsLast(i) => k.at <= row.at
        /\ ~astray /\ k.type = "completed" /\ k.sub # row.sub /\ k.sub \in LiveSubs =>
             Now(row.sub) = "incomplete_expired"
  BY <1>1, <1>3, <1>4, PassedOver
<1> QED  BY <1>1, <1>2, <1>4, <1>5, <1>6, <1>7, Passing DEF Shape

-----------------------------------------------------------------------------
(* The write of the row.                                                   *)

\* The write takes effect: the row becomes that of event i, whose webhook is done.
LEMMA Writing ==
  ASSUME BillingInv, NEW i \in DOMAIN events, UpsertSubscription(i), Applies(events[i])
  PROVE  BillingInv'
<1>1. PICK e : e = events[i]
  OBVIOUS
<1>2. /\ Shape /\ EventFacts /\ RowFacts /\ CheckoutFacts /\ (~astray => OnTrack)
      /\ EventFact(i) /\ e \in Event /\ e.step = "wanted" /\ InHand(i)
  BY <1>1, EventIs DEF BillingInv, EventFacts, UpsertSubscription, InHand
<1>3. /\ e.sub \in Subs /\ e.sub # Unbound /\ e.at \in Nat /\ e.got \in Statuses
      /\ i \in Nat /\ e.type \in Types
  BY <1>2 DEF Event, Shape, Subs, Unbound
<1> DEFINE k == [e EXCEPT !.step = "done"]
           status == IF e.type = "deleted" THEN "canceled" ELSE e.got
<1>4. k \in Event /\ k.step = "done" /\ k.type = e.type /\ k.sub = e.sub /\ k.at = e.at
  BY <1>2 DEF Event
<1>5. /\ events' = [events EXCEPT ![i] = k] /\ UNCHANGED <<stripe, paying>>
      /\ astray' = (astray \/ LateReplacement(e))
      /\ row' = [sub |-> e.sub, event |-> i, at |-> e.at, status |-> status]
  BY <1>1, <1>2 DEF UpsertSubscription, Shape
<1>6. status \in Statuses /\ (status \in Terminal => Now(e.sub) = status)
      /\ (e.got = Now(e.sub) => status = Now(e.sub))
  BY <1>1, <1>2, <1>3 DEF EventFact, Statuses, Terminal
<1> HIDE DEF k, status
<1>7. /\ events' \in Seq(Event) /\ DOMAIN events' = DOMAIN events
      /\ events'[i] = k
      /\ \A j \in DOMAIN events : j # i => events'[j] = events[j]
      /\ \A j \in DOMAIN events : /\ events'[j].type = events[j].type
                                  /\ events'[j].sub = events[j].sub
                                  /\ events'[j].at = events[j].at
      /\ \A j \in DOMAIN events : IsLast(j)' <=> IsLast(j)
      /\ \A s \in Subs : Now(s)' = Now(s)
      /\ EventFacts'
  BY <1>1, <1>2, <1>4, <1>5, Handling
<1>8. /\ row'.sub = e.sub /\ row'.event = i /\ row'.at = e.at /\ row'.status = status
      /\ stripe' = stripe /\ paying' = paying
      /\ LiveSubs' = LiveSubs /\ Now(row.sub)' = Now(e.sub)
  BY <1>5 DEF LiveSubs, Now
<1>9. Shape'
  <2>1. row' \in Row
    BY <1>3, <1>5, <1>6 DEF Row
  <2> QED  BY <1>2, <1>5, <1>7, <2>1 DEF Shape
<1>10. RowFacts'
  BY <1>1, <1>3, <1>4, <1>6, <1>7, <1>8 DEF RowFacts
<1>11. CheckoutFacts'
  BY <1>3, <1>8 DEF CheckoutFacts
<1>12. ASSUME ~astray' PROVE OnTrack'
  <2>1. ~astray /\ OnTrack /\ ~LateReplacement(e)
    BY <1>2, <1>5, <1>12
  \* The row was of the same subscription, unbound, or of a canceled one.
  <2>2. \/ row.sub = e.sub /\ row.at <= e.at
           /\ (row.status = "canceled" => e.type = "deleted")
        \/ row.sub = Unbound
        \/ /\ row.sub \notin {e.sub, Unbound} /\ Now(row.sub) = "canceled"
           /\ ~Outdated(e.sub)
    <3>1. row \in Row /\ row.at \in Nat
      BY <1>2 DEF Shape, Row
    <3>2. CASE row.sub = e.sub
      BY <1>1, <1>3, <3>1, <3>2 DEF Applies, SameOrUnbound, Unbound
    <3>3. CASE row.sub \notin {e.sub, Unbound}
      <4>1. e.type = "completed" /\ row.status = "canceled"
        BY <1>1, <1>3, <3>3 DEF Applies, SameOrUnbound, Types
      <4>2. ~Outdated(e.sub)
        BY <2>1, <3>3, <4>1 DEF LateReplacement, SameOrUnbound
      <4> QED  BY <1>2, <3>3, <4>1, <4>2 DEF RowFacts, Terminal
    <3> QED  BY <3>2, <3>3
  <2>3. row.sub = Unbound => \A j \in DOMAIN events : events[j].step # "done"
    BY <1>2 DEF RowFacts
  \* Whoever holds a status, once the newest event was passed over, holds the final one.
  <2>4. ASSUME NEW l \in DOMAIN events, IsLast(l), events[l].sub = e.sub,
               events[l].step = "done", events[l].at > e.at,
               NEW j \in DOMAIN events, events[j].sub = e.sub, InHand(j)
        PROVE  events[j].got = Now(e.sub)
    <3>1. CASE row.sub = e.sub /\ row.at <= e.at
      <4>1. events[l].at > row.at
        <5>1. events[l].at \in Nat /\ row.at \in Nat
          BY <1>2, <2>4, EventIs DEF Event, Shape, Row
        <5> QED  BY <1>3, <2>4, <3>1, <5>1
      <4> QED  BY <1>3, <2>1, <2>4, <3>1, <4>1 DEF OnTrack, Informed
    <3>2. CASE row.sub = Unbound
      BY <2>3, <2>4, <3>2
    <3>3. CASE ~Outdated(e.sub)
      BY <2>4, <3>3 DEF Outdated, InHand, Now
    <3> QED  BY <2>2, <3>1, <3>2, <3>3
  <2>5. Followed'
    <3>1. PICK l \in DOMAIN events : IsLast(l) /\ events[l].sub = e.sub
      BY <1>1, <1>2 DEF EventFacts, HasLast
    <3>2. i <= l /\ e.at <= events[l].at /\ events[l].at \in Nat
      BY <1>1, <1>2, <3>1, EventIs DEF EventFacts, Ordered, IsLast, Event
    <3>3. CASE l = i
      <4>1. e.got = Now(e.sub)
        BY <1>1, <1>2, <3>1, <3>3 DEF EventFact
      <4> QED  BY <1>6, <1>8, <4>1 DEF Followed
    <3>4. CASE l # i /\ events[l].at = e.at
      BY <1>7, <1>8, <3>1, <3>4 DEF Followed
    <3>5. CASE l # i /\ events[l].at > e.at /\ events[l].step # "done"
      BY <1>7, <1>8, <3>1, <3>5 DEF Followed
    <3>6. CASE l # i /\ events[l].at > e.at /\ events[l].step = "done"
      <4>1. e.got = Now(e.sub)
        BY <1>1, <1>2, <2>4, <3>1, <3>6
      <4> QED  BY <1>6, <1>8, <4>1 DEF Followed
    <3> QED  BY <1>3, <3>2, <3>3, <3>4, <3>5, <3>6
  <2>6. Informed'
    <3> SUFFICES ASSUME NEW l \in DOMAIN events, IsLast(l), events[l].sub = e.sub,
                        events'[l].step = "done", events[l].at > e.at,
                        NEW j \in DOMAIN events, events[j].sub = e.sub, InHand(j)'
                 PROVE  events'[j].got = Now(e.sub)
      BY <1>7, <1>8 DEF Informed
    <3>1. l # i /\ j # i
      BY <1>1, <1>3, <1>4, <1>7 DEF InHand
    <3>2. events'[l] = events[l] /\ events'[j] = events[j] /\ InHand(j)
      BY <1>7, <3>1 DEF InHand
    <3> QED  BY <2>4, <3>2
  <2>7. OneLive'
    BY <1>8, <2>1 DEF OnTrack, OneLive
  <2>8. Superseded'
    <3> SUFFICES ASSUME NEW t \in LiveSubs, t # e.sub
                 PROVE  status = "canceled" \/ Now(e.sub) = "incomplete_expired"
      BY <1>8 DEF Superseded
    <3>1. t \in Subs /\ Now(t) \in Live /\ Now(t) # "none" /\ Now(e.sub) # "none"
      BY <1>1, <1>2 DEF LiveSubs, Now, EventFact, Live
    <3>2. CASE row.sub = e.sub /\ (row.status = "canceled" => e.type = "deleted")
      <4>1. row.status = "canceled" \/ Now(e.sub) = "incomplete_expired"
        BY <1>3, <2>1, <3>2 DEF OnTrack, Superseded
      <4> QED  BY <3>2, <4>1 DEF status
    <3>3. CASE row.sub = Unbound
      BY <1>2, <1>3, <3>1, <3>3 DEF CheckoutFacts
    <3>4. CASE ~Outdated(e.sub)
      <4>1. e.got = Now(e.sub)
        BY <1>1, <1>2, <3>4 DEF Outdated, Now
      <4>2. e.sub \notin LiveSubs
        BY <2>1 DEF OnTrack, OneLive
      <4>3. Now(e.sub) \in Terminal
        BY <1>3, <1>6, <3>1, <4>1, <4>2 DEF LiveSubs, Now, Statuses
      <4> QED  BY <1>6, <4>1, <4>3 DEF Terminal
    <3> QED  BY <2>2, <3>2, <3>3, <3>4
  <2>9. Coming'
    <3> SUFFICES ASSUME NEW t \in LiveSubs, t # e.sub
                 PROVE  Due(t)' \/ Now(e.sub) = "incomplete_expired"
      BY <1>3, <1>8 DEF Coming
    <3>1. t # row.sub
      <4>1. t \in Subs /\ t # Unbound /\ Now(t) # "canceled"
        BY DEF LiveSubs, Now, Live, Subs, Unbound
      <4> QED  BY <2>2, <4>1
    <3>2. CASE Due(t)
      BY <1>1, <1>7, <3>2 DEF Due
    <3>3. CASE row.sub # Unbound /\ Now(row.sub) = "incomplete_expired"
      BY <2>2, <3>3
    <3> QED  BY <2>1, <3>1, <3>2, <3>3 DEF OnTrack, Coming
  <2> QED  BY <2>5, <2>6, <2>7, <2>8, <2>9 DEF OnTrack
<1> QED  BY <1>7, <1>9, <1>10, <1>11, <1>12 DEF BillingInv

LEMMA UpsertStep ==
  ASSUME BillingInv, NEW i \in DOMAIN events, UpsertSubscription(i) PROVE BillingInv'
<1>1. CASE Applies(events[i])
  BY <1>1, Writing
<1>2. CASE ~Applies(events[i])
  <2>1. PICK e : e = events[i]
    OBVIOUS
  <2>2. e \in Event /\ Shape
    BY <2>1, EventIs DEF BillingInv
  <2> DEFINE k == [e EXCEPT !.step = "done"]
  <2>3. k \in Event /\ k.step = "done" /\ k.type = e.type /\ k.sub = e.sub /\ k.at = e.at
    BY <2>2 DEF Event
  <2>4. /\ events' = [events EXCEPT ![i] = k] /\ UNCHANGED <<stripe, row, paying>>
        /\ astray' \in BOOLEAN /\ (astray => astray')
    BY <1>2, <2>1, <2>2 DEF UpsertSubscription, Shape
  <2> HIDE DEF k
  <2>5. /\ row.sub # Unbound
        /\ k.sub = row.sub /\ IsLast(i) => k.at <= row.at
        /\ ~astray /\ k.type = "completed" /\ k.sub # row.sub /\ k.sub \in LiveSubs =>
             Now(row.sub) = "incomplete_expired"
    BY <1>2, <2>1, <2>3, PassedOver
  <2> QED  BY <2>1, <2>3, <2>4, <2>5, Passing
<1> QED  BY <1>1, <1>2

LEMMA BillingContinues == ASSUME BillingInv, [BillingNext]_billingVars PROVE BillingInv'
<1>1. CASE UNCHANGED billingVars
  BY <1>1 DEF billingVars, BillingInv, Shape, EventFacts, EventFact, Ordered, HasLast,
              RowFacts, CheckoutFacts, OnTrack, Followed, Informed, OneLive, Superseded, Coming, Due,
              LiveSubs, IsLast, InHand, Now
<1>2. CASE CreateCheckout \/ Pay \/ Updates \/ Cancels
  BY <1>2, CreateCheckoutStep, PayStep, UpdatesStep, CancelsStep
<1>3. CASE \E i \in DOMAIN events : \/ ProcessWebhook(i) \/ ReadSubscription(i)
                                    \/ UpsertSubscription(i) \/ WebhookFails(i)
  BY <1>3, ProcessStep, ReadStep, UpsertStep, FailsStep
<1> QED  BY <1>1, <1>2, <1>3 DEF BillingNext

\* The inductive invariant.
THEOREM BillingInvariance == BillingSpec => []BillingInv
<1>1. BillingInit => BillingInv
  BY BillingBegins
<1>2. BillingInv /\ [BillingNext]_billingVars => BillingInv'
  BY BillingContinues
<1> QED  BY <1>1, <1>2, PTL DEF BillingSpec

\* In whatever order the events of any number of subscriptions arrive, are repeated and
\* overlap, the row ends as its subscription did and a live subscription is the row's
\* (process_webhook, upsert_subscription), with the exceptions the property names.
THEOREM RowIsFollowing == BillingSpec => []RowFollowsStripe
<1>1. BillingInv => RowFollowsStripe
  <2> SUFFICES ASSUME BillingInv, Settled, ~astray
               PROVE  /\ row.sub # Unbound => row.status = stripe.status[row.sub] \/ Tied
                      /\ LiveSubs \subseteq {row.sub} \/ row.status = "incomplete_expired"
    BY DEF RowFollowsStripe
  <2>1. Followed /\ Coming /\ EventFacts /\ RowFacts
    BY DEF BillingInv, OnTrack
  <2>2. \A j \in DOMAIN events : events[j].step = "done"
    BY DEF Settled
  <2>3. row.sub # Unbound =>
          \/ row.status = Now(row.sub)
          \/ \E l \in DOMAIN events : /\ IsLast(l) /\ events[l].sub = row.sub
                                      /\ events[l].at = row.at /\ l # row.event
    BY <2>1, <2>2 DEF Followed
  <2>4. row.sub # Unbound => row.status = stripe.status[row.sub] \/ Tied
    BY <2>3 DEF Tied, Twins, Now
  <2>5. ASSUME NEW t \in LiveSubs, t # row.sub PROVE row.status = "incomplete_expired"
    <3>1. row.sub # Unbound /\ Now(row.sub) = "incomplete_expired"
      BY <2>1, <2>2, <2>5 DEF Coming, Due
    <3>2. row.event \in DOMAIN events /\ events[row.event].sub = row.sub
          /\ events[row.event].at = row.at /\ row.at \in Nat
      BY <2>1, <3>1 DEF BillingInv, Shape, Row, RowFacts
    <3>3. ASSUME NEW l \in DOMAIN events, IsLast(l), events[l].sub = row.sub,
                 events[l].at = row.at, l # row.event
          PROVE  FALSE
      <4>1. events[row.event].at < events[l].at
        BY <2>1, <3>1, <3>2, <3>3 DEF EventFacts, Ordered
      <4> QED  BY <3>2, <3>3, <4>1
    <3> QED  BY <2>3, <3>1, <3>3
  <2> QED  BY <2>4, <2>5
<1> QED  BY <1>1, BillingInvariance, PTL

-----------------------------------------------------------------------------
(* The bounds.                                                             *)

\* What BillingTypeOK says beyond the invariant.  The statuses that the row is given are
\* Stripe's.
Limits ==
  /\ stripe.now \in 1..MaxTime
  /\ Len(events) <= MaxEvents
  /\ \A i \in DOMAIN events :
       events[i].at \in 1..MaxTime /\ (InHand(i) => events[i].got # "none")
  /\ row \in RowStates
  /\ paying.open \cup paying.paid \subseteq RowStates

BillingBounds == BillingInv /\ Limits

LEMMA LimitsBegin ==
  ASSUME MaxTime \in Nat \ {0}, MaxEvents \in Nat, BillingInit PROVE Limits
<1>1. /\ stripe.now = 1 /\ events = <<>> /\ paying.open = {} /\ paying.paid = {}
      /\ row = FirstRow
  BY DEF BillingInit, FirstRow
<1>2. FirstRow \in RowStates
  BY DEF FirstRow, RowStates
<1> QED  BY <1>1, <1>2 DEF Limits

\* A change at Stripe is within the bounds.
LEMMA ChangesIsLimited ==
  ASSUME MaxTime \in Nat \ {0}, MaxEvents \in Nat, BillingBounds,
         NEW s \in Subs, NEW status, NEW type, NEW at \in {stripe.now, stripe.now + 1},
         Changes(s, status, type, at)
  PROVE  /\ stripe'.now \in 1..MaxTime /\ Len(events') <= MaxEvents
         /\ \A i \in DOMAIN events' :
              events'[i].at \in 1..MaxTime /\ (InHand(i)' => events'[i].got # "none")
<1>1. Shape /\ Limits
  BY DEF BillingBounds, BillingInv
<1>2. /\ stripe.now \in Nat /\ stripe.now \in 1..MaxTime /\ at <= MaxTime
      /\ Len(events) < MaxEvents /\ events \in Seq(Event) /\ Len(events) \in Nat
  BY <1>1 DEF Shape, Limits, Changes
<1>3. at \in 1..MaxTime
  BY <1>2
<1>4. stripe'.now \in 1..MaxTime
  BY <1>3 DEF Changes
<1>5. PICK e : /\ events' = Append(events, e) /\ e.at = at /\ e.step = "sent"
  BY DEF Changes
<1>6. /\ Len(events') <= MaxEvents
      /\ \A i \in DOMAIN events' :
           events'[i] = e \/ (i \in DOMAIN events /\ events'[i] = events[i])
  BY <1>2, <1>5
<1>7. ASSUME NEW i \in DOMAIN events'
      PROVE  events'[i].at \in 1..MaxTime /\ (InHand(i)' => events'[i].got # "none")
  <2>1. CASE events'[i] = e
    BY <1>3, <1>5, <2>1 DEF InHand
  <2>2. CASE i \in DOMAIN events /\ events'[i] = events[i]
    BY <1>1, <2>2 DEF Limits, InHand
  <2> QED  BY <1>6, <2>1, <2>2
<1> QED  BY <1>4, <1>6, <1>7

LEMMA AgentIsLimited ==
  ASSUME MaxTime \in Nat \ {0}, MaxEvents \in Nat, BillingBounds,
         CreateCheckout \/ Pay \/ Updates \/ Cancels
  PROVE  Limits'
<1>1. /\ row \in RowStates /\ paying \in [open : SUBSET Row, paid : SUBSET Row]
      /\ paying.open \cup paying.paid \subseteq RowStates /\ stripe.now \in Nat
  BY DEF BillingBounds, BillingInv, Shape, Limits
<1>2. CASE CreateCheckout
  <2>1. /\ UNCHANGED <<stripe, events, row>>
        /\ paying'.open = paying.open \cup {row} /\ paying'.paid = paying.paid
    BY <1>1, <1>2 DEF CreateCheckout
  <2> QED  BY <1>1, <2>1 DEF BillingBounds, Limits, InHand
<1>3. CASE Pay
  <2>1. PICK s \in Subs, status \in {"active", "incomplete"},
             at \in {stripe.now, stripe.now + 1} : Changes(s, status, "completed", at)
    BY <1>3 DEF Pay, ThisSecondOrNext
  <2>2. UNCHANGED row /\ paying'.open \cup paying'.paid = paying.open \cup paying.paid
    BY <1>3 DEF Pay
  <2> QED  BY <1>1, <2>1, <2>2, ChangesIsLimited DEF Limits
<1>4. CASE Updates \/ Cancels
  <2>1. PICK s \in Subs, status \in {"active", "past_due", "incomplete_expired", "canceled"},
             type \in {"updated", "deleted"}, at \in {stripe.now, stripe.now + 1} :
          Changes(s, status, type, at)
    BY <1>4 DEF Updates, Cancels, ThisSecondOrNext, LiveSubs
  <2>2. UNCHANGED <<row, paying>>
    BY <1>4 DEF Updates, Cancels
  <2> QED  BY <1>1, <2>1, <2>2, ChangesIsLimited DEF Limits
<1> QED  BY <1>2, <1>3, <1>4

LEMMA WebhookIsLimited ==
  ASSUME MaxEvents \in Nat, BillingBounds, NEW i \in DOMAIN events,
         \/ ProcessWebhook(i) \/ ReadSubscription(i) \/ UpsertSubscription(i)
         \/ WebhookFails(i)
  PROVE  Limits'
<1>1. Shape /\ Limits /\ EventFact(i) /\ events[i] \in Event
  BY EventIs DEF BillingBounds, BillingInv, EventFacts
<1>2. PICK k : /\ events' = [events EXCEPT ![i] = k] /\ k.at = events[i].at
               /\ k.step \in {"fetched", "wanted"} => k.got # "none"
  <2>1. CASE ProcessWebhook(i)
    <3>1. events' = [events EXCEPT ![i] = [events[i] EXCEPT !.step = "fetched",
                                             !.got = Now(events[i].sub)]]
      BY <1>1, <2>1 DEF ProcessWebhook, Now, Shape
    <3>2. Now(events[i].sub) # "none"
      BY <1>1 DEF EventFact
    <3>3. LET k == [events[i] EXCEPT !.step = "fetched", !.got = Now(events[i].sub)]
          IN  k.at = events[i].at /\ k.got # "none"
      BY <1>1, <3>2 DEF Event
    <3> QED  BY <3>1, <3>3
  <2>2. CASE ReadSubscription(i)
    <3>1. InHand(i) /\ events[i].got # "none"
      BY <1>1, <2>2 DEF ReadSubscription, InHand, Limits
    <3>2. PICK step : events' = [events EXCEPT ![i] = [events[i] EXCEPT !.step = step]]
      BY <1>1, <2>2 DEF ReadSubscription, Shape
    <3>3. LET k == [events[i] EXCEPT !.step = step]
          IN  k.at = events[i].at /\ k.got = events[i].got
      BY <1>1 DEF Event
    <3> QED  BY <3>1, <3>2, <3>3
  <2>3. CASE UpsertSubscription(i)
    <3>1. events' = [events EXCEPT ![i] = [events[i] EXCEPT !.step = "done"]]
      BY <1>1, <2>3 DEF UpsertSubscription, Shape
    <3>2. LET k == [events[i] EXCEPT !.step = "done"]
          IN  k.at = events[i].at /\ k.step = "done"
      BY <1>1 DEF Event
    <3> QED  BY <3>1, <3>2
  <2>4. CASE WebhookFails(i)
    <3>1. events' = [events EXCEPT ![i] = [events[i] EXCEPT !.step = "sent", !.got = "none"]]
      BY <1>1, <2>4 DEF WebhookFails, Shape
    <3>2. LET k == [events[i] EXCEPT !.step = "sent", !.got = "none"]
          IN  k.at = events[i].at /\ k.step = "sent"
      BY <1>1 DEF Event
    <3> QED  BY <3>1, <3>2
  <2> QED  BY <2>1, <2>2, <2>3, <2>4
<1>3. /\ DOMAIN events' = DOMAIN events /\ Len(events') = Len(events)
      /\ events'[i] = k /\ \A j \in DOMAIN events : j # i => events'[j] = events[j]
  BY <1>1, <1>2 DEF Shape
<1>4. \A j \in DOMAIN events' :
        events'[j].at \in 1..MaxTime /\ (InHand(j)' => events'[j].got # "none")
  BY <1>1, <1>2, <1>3 DEF Limits, InHand
<1>5. row' \in RowStates
  <2>1. CASE UpsertSubscription(i) /\ row' # row
    <3>1. /\ events[i].step = "wanted"
          /\ row' = [sub |-> events[i].sub, event |-> i, at |-> events[i].at,
                     status |-> IF events[i].type = "deleted" THEN "canceled"
                                ELSE events[i].got]
      BY <2>1 DEF UpsertSubscription
    <3>2. events[i].got \in Live \cup Terminal
      BY <1>1, <3>1 DEF Limits, InHand, Event, Statuses
    <3>3. i \in 0..MaxEvents
      BY <1>1 DEF Limits, Shape
    <3>4. events[i].at \in 0..MaxTime /\ events[i].sub \in Subs
      BY <1>1 DEF Limits, Event
    <3> QED  BY <3>1, <3>2, <3>3, <3>4 DEF RowStates, Terminal
  <2>2. CASE row' = row
    BY <1>1, <2>2 DEF Limits
  <2> QED  BY <2>1, <2>2 DEF ProcessWebhook, ReadSubscription, WebhookFails
<1>6. UNCHANGED <<stripe, paying>>
  BY DEF ProcessWebhook, ReadSubscription, UpsertSubscription, WebhookFails
<1> QED  BY <1>1, <1>3, <1>4, <1>5, <1>6 DEF Limits

\* The state of billing has its type, whatever the bounds on events and seconds: the row
\* never takes a status from an event that did not ask Stripe for it.
THEOREM BillingTypeCorrect ==
  MaxTime \in Nat \ {0} /\ MaxEvents \in Nat => (BillingSpec => []BillingTypeOK)
<1> SUFFICES ASSUME MaxTime \in Nat \ {0}, MaxEvents \in Nat
             PROVE  BillingSpec => []BillingTypeOK
  OBVIOUS
<1>1. BillingInit => BillingBounds
  BY BillingBegins, LimitsBegin DEF BillingBounds
<1>2. BillingBounds /\ [BillingNext]_billingVars => BillingBounds'
  <2> SUFFICES ASSUME BillingBounds, [BillingNext]_billingVars PROVE Limits'
    BY BillingContinues DEF BillingBounds
  <2>1. CASE UNCHANGED billingVars
    BY <2>1 DEF billingVars, BillingBounds, Limits, InHand
  <2> QED  BY <2>1, AgentIsLimited, WebhookIsLimited DEF BillingNext
<1>3. BillingBounds => BillingTypeOK
  <2> SUFFICES ASSUME BillingBounds PROVE BillingTypeOK
    OBVIOUS
  <2>1. Shape /\ Limits
    BY DEF BillingBounds, BillingInv
  <2>2. stripe \in [status : [Subs -> Statuses], now : 1..MaxTime]
    BY <2>1 DEF Shape, Limits
  <2>3. paying \in [open : SUBSET RowStates, paid : SUBSET RowStates]
    BY <2>1 DEF Shape, Limits
  <2> DEFINE Bounded == [type : Types, sub : Subs, at : 1..MaxTime, name : EventNames,
                         step : {"sent", "fetched", "wanted", "done"}, got : Statuses]
  <2>4. events \in Seq(Bounded)
    <3>1. \A i \in DOMAIN events : events[i] \in Bounded
      BY <2>1, EventIs DEF Limits, Event
    <3> HIDE DEF Bounded
    <3>2. events \in Seq(Event)
      BY <2>1 DEF Shape
    <3> QED  BY <3>1, <3>2
  <2> QED  BY <2>1, <2>2, <2>3, <2>4 DEF BillingTypeOK, Shape, Limits, Statuses
<1> QED  BY <1>1, <1>2, <1>3, PTL DEF BillingSpec

=============================================================================
