----------------------------- MODULE PhoneReport -----------------------------
(***************************************************************************)
(* The phone's report screen (ReportScreen.tsx), one visit to it: the      *)
(* fetch, the edit of a bullet, the dismissal of an observation and the    *)
(* confirmation.  No button waits for a request under way, but a reload    *)
(* hides them all.  The stored copy that is painted first is read-only; it *)
(* is left out.                                                            *)
(***************************************************************************)
EXTENDS ReportServer

VARIABLES
  phone,  \* the state of the screen
  calls,  \* its requests under way
  overlapped \* history: some save was not alone under way

phoneVars == <<phone, calls, overlapped>>

\* `base`: the detail the handler closed over.
PhoneCalls == [op : {"load", "save", "confirm", "dismiss"},
          base : Rows \cup {NoDetail}, body : Documents,
          answer : {"none", "ok", "refused"}, got : Rows \cup {NoDetail}]

PhoneTypeOK ==
  /\ phone \in [detail : Rows \cup {NoDetail}, loading : BOOLEAN]
  /\ calls \subseteq PhoneCalls
  /\ overlapped \in BOOLEAN

Call(op, base, body) ==
  [op |-> op, base |-> base, body |-> body,
   answer |-> "none", got |-> NoDetail]
Load == Call("load", NoDetail, {})

PhoneInit ==
  /\ phone = [detail |-> NoDetail, loading |-> TRUE]
  /\ calls = {Load}
  /\ overlapped = FALSE

\* Nothing can be done with a copy that was not fetched.
Usable == ~phone.loading /\ phone.detail # NoDetail

SavesBullet == \E c \in calls : c.op = "save"

Start(c) ==
  /\ Ask
  /\ calls' = calls \cup {c}
  /\ overlapped' = (overlapped \/ (c.op = "save" /\ calls # {}) \/ SavesBullet)
  /\ UNCHANGED <<phone, serverVars>>

\* saveBullet sends the whole document it was shown, with one bullet changed;
\* the showing's status is not looked at.  What is typed once more after it was
\* saved is another edit.
SaveBullet(e) ==
  /\ Usable
  /\ <<phone.detail.id, e>> \notin acked
  /\ Start(Call("save", phone.detail,
                phone.detail.content \cup {<<phone.detail.id, e>>}))

\* dismiss
Dismiss == Usable /\ Start(Call("dismiss", NoDetail, {}))

\* confirm, when canConfirm.
ConfirmOnPhone ==
  /\ Usable
  /\ phone.detail.status = "draft"
  /\ Start(Call("confirm", NoDetail, {}))

Verdict(c, verdict) ==
  calls' = (calls \ {c}) \cup
             {[c EXCEPT !.answer = verdict,
                        !.got = IF c.op = "load" THEN srv ELSE NoDetail]}

ServeCall(c) ==
  /\ c.answer = "none"
  /\ UNCHANGED <<asked, phone, overlapped>>
  /\ \/ /\ c.op \in {"load", "dismiss"}
        /\ UNCHANGED serverVars
        /\ Verdict(c, "ok")
     \/ /\ c.op = "save" /\ AcceptsDocument(c.base.id)
        /\ SaveDocument(c.body, PhoneEdits, overlapped)
        /\ Verdict(c, "ok")
     \/ /\ c.op = "save" /\ ~AcceptsDocument(c.base.id)
        /\ UNCHANGED serverVars
        /\ Verdict(c, "refused")
     \/ /\ c.op = "confirm"
        /\ ConfirmOrRefuse
        /\ Verdict(c, IF srv'.status = "confirmed" THEN "ok" ELSE "refused")

\* What was saved, put over the detail the handler closed over.
SaveTold(c) ==
  /\ c.op = "save"
  /\ phone' = [phone EXCEPT !.detail = [c.base EXCEPT !.content = c.body]]
  /\ calls' = calls \ {c}
  /\ Acknowledge(c.body, PhoneEdits)
  /\ UNCHANGED <<srv, lost, overlapped>>

\* load(): the answer is shown (and stored).
LoadTold(c) ==
  /\ c.op = "load"
  /\ phone' = [phone EXCEPT !.detail = c.got, !.loading = FALSE]
  /\ calls' = calls \ {c}
  /\ UNCHANGED <<serverVars, overlapped>>

\* dismiss and confirm load the showing again, behind the loading view.
ReviewTold(c) ==
  /\ c.op \in {"dismiss", "confirm"}
  /\ phone' = [phone EXCEPT !.loading = TRUE]
  /\ calls' = (calls \ {c}) \cup {Load}
  /\ UNCHANGED <<serverVars, overlapped>>

TellPhone(c) ==
  /\ c.answer = "ok"
  /\ SaveTold(c) \/ LoadTold(c) \/ ReviewTold(c)
  /\ UNCHANGED asked

\* An error, or a lost request or answer: an alert, and nothing else changes.
CallFails(c) ==
  /\ phone' = [phone EXCEPT !.loading = @ /\ c.op # "load"]
  /\ calls' = calls \ {c}
  /\ UNCHANGED <<asked, serverVars, overlapped>>

PhoneNext ==
  \/ Dismiss \/ ConfirmOnPhone
  \/ \E e \in PhoneEdits : SaveBullet(e)
  \/ \E c \in calls : ServeCall(c) \/ TellPhone(c) \/ CallFails(c)

=============================================================================
