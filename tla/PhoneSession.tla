---------------------------- MODULE PhoneSession ----------------------------
(***************************************************************************)
(* The phone's session: its API client (api/client.ts), the generation     *)
(* that tells one session's callbacks from another's (sessionScope.ts),    *)
(* the stored tokens (tokenStore.ts) and the screens of App.tsx that sign  *)
(* in and out.  Every await is a step of its own.  A callback captures the *)
(* generation and asserts after each await that it has not changed: here   *)
(* "current" and "loading" hold those whose generation is still the same.  *)
(*                                                                         *)
(* Operations on the token store are carried out in the order they are     *)
(* started, so that one of them is a step.                                 *)
(***************************************************************************)
EXTENDS Naturals, Sequences

CONSTANTS
  Accounts, Nobody,
  Signs,        \* sign-ins that may be under way together
  Jobs,         \* calls of the signed-in app that may be under way together
  Renewals,     \* refreshes that may be under way together
  NoRenewal,
  MaxSessions,  \* bound: sign-ins the server accepts
  MaxRestarts   \* bound: cold starts

VARIABLES
  server,     \* the sessions: their owners, and those not revoked
  store,      \* the tokens kept on the phone, with their account
  handset,    \* the app's memory: the account that is active, what is shown
  sign,       \* authenticate, or the boot of an unidentified session
  job,        \* calls: a read shown on the screen, or the account's deletion
  renewal,    \* refresh
  current,    \* callbacks whose generation is the present one
  loading,    \* sign-ins whose loadAccount has the present generation
  doubled     \* history: the tokens were stored while two sign-ins overlapped

sessionVars == <<server, store, handset, sign, job, renewal, current, loading, doubled>>

Sessions == 1..MaxSessions
Owner(s) == server.owner[s]
NoTokens == [session |-> 0, account |-> Nobody, fresh |-> FALSE]

SessionTypeOK ==
  /\ server \in [owner : Seq(Accounts), live : SUBSET Sessions]
  /\ store \in [session : 0..MaxSessions, account : Accounts \cup {Nobody}, fresh : BOOLEAN]
  /\ handset \in [screen : {"boot", "login", "home"}, active : Accounts \cup {Nobody},
                shown : Accounts \cup {Nobody}, promise : Renewals \cup {NoRenewal},
                evicted : BOOLEAN, logout : {"none", "clearing", "revoking"},
                revoked : 0..MaxSessions, restarts : 0..MaxRestarts]
  /\ sign \in [Signs -> [step : {"idle", "asked", "opened", "stored", "asking", "told",
                                 "persisted"},
                         session : 0..MaxSessions, kept : 0..MaxSessions]]
  /\ job \in [Jobs -> [step : {"idle", "token", "waiting", "asked", "answered", "erase"},
                       kind : {"read", "delete"}, session : 0..MaxSessions,
                       retried : BOOLEAN, on : Renewals \cup {NoRenewal}]]
  /\ renewal \in [Renewals -> [step : {"idle", "asked", "ok", "refused"},
                               session : 0..MaxSessions]]
  /\ current \subseteq Signs \cup Jobs \cup Renewals
  /\ loading \subseteq Signs
  /\ doubled \in BOOLEAN

NoSign == [step |-> "idle", session |-> 0, kept |-> 0]
NoJob == [step |-> "idle", kind |-> "read", session |-> 0, retried |-> FALSE,
          on |-> NoRenewal]
NoRefresh == [step |-> "idle", session |-> 0]
\* evicted (history): the end of an earlier account's deletion closed the screens of
\* the account that is active.
ColdStart == [screen |-> "boot", active |-> Nobody, shown |-> Nobody, evicted |-> FALSE,
              promise |-> NoRenewal, logout |-> "none", revoked |-> 0, restarts |-> 0]

SessionInit ==
  /\ server = [owner |-> <<>>, live |-> {}]
  /\ store = NoTokens
  /\ handset = ColdStart
  /\ sign = [i \in Signs |-> NoSign]
  /\ job = [j \in Jobs |-> NoJob]
  /\ renewal = [r \in Renewals |-> NoRefresh]
  /\ current = {} /\ loading = {}
  /\ doubled = FALSE

\* activateSessionAccount and deactivateSessionAccount.
NewGeneration == current' = {} /\ loading' = {}

\* The screens go back to the sign-in form.
SignedOut(p) == [p EXCEPT !.screen = "login", !.active = Nobody, !.shown = Nobody,
                          !.evicted = FALSE, !.promise = NoRenewal]

-----------------------------------------------------------------------------
(* Signing in.                                                             *)

\* The form's fields submit too while an earlier submit is under way.  The
\* sign-in waits for a sign-out to end.
Submit(i) ==
  /\ handset.screen = "login" /\ handset.logout = "none"
  /\ sign[i].step = "idle"
  /\ sign' = [sign EXCEPT ![i].step = "asked"]
  /\ handset' = [handset EXCEPT !.active = Nobody, !.promise = NoRenewal]
  /\ current' = {i} /\ loading' = {}
  /\ UNCHANGED <<server, store, job, renewal, doubled>>

ServeSignIn(i) ==
  /\ sign[i].step = "asked" /\ Len(server.owner) < MaxSessions
  /\ \E a \in Accounts :
       server' = [owner |-> Append(server.owner, a),
                  live |-> server.live \cup {Len(server.owner) + 1}]
  /\ sign' = [sign EXCEPT ![i].step = "opened", ![i].session = Len(server.owner) + 1]
  /\ UNCHANGED <<store, handset, job, renewal, current, loading, doubled>>

Others(i) == \E k \in Signs \ {i} : sign[k].step # "idle"

TokensArrive(i) ==
  /\ sign[i].step = "opened" /\ i \in current
  /\ store' = [session |-> sign[i].session, account |-> Nobody, fresh |-> TRUE]
  /\ sign' = [sign EXCEPT ![i].step = "stored"]
  /\ doubled' = Others(i)
  /\ UNCHANGED <<server, handset, job, renewal, current, loading>>

\* loadAccount begins; its generation is the one of this moment.
LoadAccount(i) ==
  /\ sign[i].step = "stored" /\ store.session # 0
  /\ sign' = [sign EXCEPT ![i].step = "asking", ![i].session = store.session]
  /\ loading' = loading \cup {i}
  /\ UNCHANGED <<server, store, handset, job, renewal, current, doubled>>

\* /me is answered, and the tokens are read again.
AccountArrives(i) ==
  /\ sign[i].step = "asking" /\ i \in loading
  /\ sign[i].session \in server.live /\ store.session # 0
  /\ sign' = [sign EXCEPT ![i].step = "told", ![i].kept = store.session]
  /\ UNCHANGED <<server, store, handset, job, renewal, current, loading, doubled>>

\* Ownership is stored with the credentials.
StoreAccount(i) ==
  /\ sign[i].step = "told" /\ i \in loading
  /\ store' = [session |-> sign[i].kept, account |-> Owner(sign[i].session), fresh |-> TRUE]
  /\ sign' = [sign EXCEPT ![i].step = "persisted"]
  /\ UNCHANGED <<server, handset, job, renewal, current, loading, doubled>>

Activate(i) ==
  /\ sign[i].step = "persisted" /\ i \in loading /\ i \in current
  /\ handset' = [handset EXCEPT !.active = Owner(sign[i].session), !.screen = "home"]
  /\ sign' = [sign EXCEPT ![i] = NoSign]
  /\ NewGeneration
  /\ UNCHANGED <<server, store, job, renewal, doubled>>

\* Refused, lost, or overtaken by another generation.  What was stored is thrown
\* away unless the sign-in is stale, or a boot.
SignFails(i) ==
  /\ sign[i].step # "idle"
  /\ sign' = [sign EXCEPT ![i] = NoSign]
  /\ store' = IF /\ sign[i].step \in {"stored", "asking", "told", "persisted"}
                 /\ i \in current /\ handset.screen = "login"
              THEN NoTokens ELSE store
  /\ handset' = [handset EXCEPT !.screen = IF @ = "boot" THEN "login" ELSE @]
  /\ UNCHANGED <<server, job, renewal, current, loading, doubled>>

\* A cold start trusts the account stored with the tokens; without one it asks.
Boot ==
  /\ handset.screen = "boot" /\ \A i \in Signs : sign[i].step = "idle"
  /\ \/ /\ store.session = 0
        /\ handset' = [handset EXCEPT !.screen = "login"]
        /\ UNCHANGED <<sign, current, loading>>
     \/ /\ store.session # 0 /\ store.account # Nobody
        /\ handset' = [handset EXCEPT !.screen = "home", !.active = store.account,
                                  !.shown = store.account]
        /\ NewGeneration
        /\ UNCHANGED sign
     \/ /\ store.session # 0 /\ store.account = Nobody
        /\ \E i \in Signs : /\ sign' = [sign EXCEPT ![i].step = "stored"]
                            /\ current' = {i}
        /\ UNCHANGED <<handset, loading>>
  /\ UNCHANGED <<server, store, job, renewal, doubled>>

-----------------------------------------------------------------------------
(* Calls and refreshes.                                                    *)

\* App.refresh and the screens' calls, and deleteAccount.
StartJob(j) ==
  /\ handset.screen = "home" /\ handset.active # Nobody
  /\ job[j].step = "idle"
  /\ \E kind \in {"read", "delete"} :
       job' = [job EXCEPT ![j] = [NoJob EXCEPT !.step = "token", !.kind = kind]]
  /\ current' = current \cup {j}
  /\ UNCHANGED <<server, store, handset, sign, renewal, loading, doubled>>

\* accessToken: the stored one, or the refresh that is under way, or a new one.
Token(j) ==
  /\ job[j].step = "token" /\ j \in current
  /\ store.session # 0
  /\ \/ /\ store.fresh /\ ~job[j].retried
        /\ job' = [job EXCEPT ![j].step = "asked", ![j].session = store.session]
        /\ UNCHANGED <<handset, renewal, current>>
     \/ /\ ~store.fresh \/ job[j].retried
        /\ \/ handset.promise # NoRenewal /\ UNCHANGED <<handset, renewal, current>>
           \/ /\ handset.promise = NoRenewal
              /\ \E r \in Renewals :
                   /\ renewal[r].step = "idle"
                   /\ renewal' = [renewal EXCEPT
                        ![r] = [step |-> "asked", session |-> store.session]]
                   /\ handset' = [handset EXCEPT !.promise = r]
                   /\ current' = current \cup {r}
        /\ job' = [job EXCEPT ![j].step = "waiting", ![j].on = handset'.promise]
  /\ UNCHANGED <<server, store, sign, loading, doubled>>

\* The backend carries out the call; a deletion ends the account's sessions.
ServeJob(j) ==
  /\ job[j].step = "asked" /\ job[j].session \in server.live
  /\ job' = [job EXCEPT ![j].step = "answered"]
  /\ server' = IF job[j].kind = "read" THEN server
               ELSE [server EXCEPT !.live =
                       {s \in @ : Owner(s) # Owner(job[j].session)}]
  /\ UNCHANGED <<store, handset, sign, renewal, current, loading, doubled>>

\* A 401, once, leads to a refresh.
RetryJob(j) ==
  /\ job[j].step = "asked" /\ j \in current
  /\ job[j].session \notin server.live /\ ~job[j].retried
  /\ job' = [job EXCEPT ![j].step = "token", ![j].retried = TRUE]
  /\ UNCHANGED <<server, store, handset, sign, renewal, current, loading, doubled>>

\* Fault: the answer is shown without looking at the generation again.
JobAnsweredLate(j) ==
  /\ job[j].step = "answered" /\ job[j].kind = "read"
  /\ handset' = [handset EXCEPT !.shown = Owner(job[j].session)]
  /\ job' = [job EXCEPT ![j] = NoJob]
  /\ UNCHANGED <<server, store, sign, renewal, current, loading, doubled>>

JobAnswered(j) ==
  /\ job[j].step = "answered" /\ job[j].kind = "read" /\ j \in current
  /\ handset' = [handset EXCEPT !.shown = Owner(job[j].session)]
  /\ job' = [job EXCEPT ![j] = NoJob]
  /\ UNCHANGED <<server, store, sign, renewal, current, loading, doubled>>

\* deleteAccount; the screens follow when the account's database is erased.
AccountDeleted(j) ==
  /\ job[j].step = "answered" /\ job[j].kind = "delete" /\ j \in current
  /\ handset' = [handset EXCEPT !.active = Nobody, !.promise = NoRenewal]
  /\ store' = NoTokens
  /\ job' = [job EXCEPT ![j].step = "erase"]
  /\ NewGeneration
  /\ UNCHANGED <<server, sign, renewal, doubled>>

DatabaseErased(j) ==
  /\ job[j].step = "erase"
  /\ handset' = [handset EXCEPT !.screen = "login", !.shown = Nobody,
                            !.evicted = handset.active # Nobody]
  /\ job' = [job EXCEPT ![j] = NoJob]
  /\ UNCHANGED <<server, store, sign, renewal, current, loading, doubled>>

JobFails(j) ==
  /\ job[j].step \notin {"idle", "waiting", "erase"}
  /\ job' = [job EXCEPT ![j] = NoJob]
  /\ UNCHANGED <<server, store, handset, sign, renewal, current, loading, doubled>>

ServeRenewal(r) ==
  /\ renewal[r].step = "asked"
  /\ renewal' = [renewal EXCEPT
       ![r].step = IF renewal[r].session \in server.live THEN "ok" ELSE "refused"]
  /\ UNCHANGED <<server, store, handset, sign, job, current, loading, doubled>>

\* The jobs that wait for a refresh go on with its tokens, or fail with it.
Wake(r, woken) == job' = [j \in Jobs |-> IF job[j].on # r THEN job[j] ELSE
  IF woken = "asked" THEN [job[j] EXCEPT !.step = "asked", !.session = renewal[r].session,
                                         !.on = NoRenewal] ELSE NoJob]

\* Fault: the tokens are stored without looking at the generation again.
RenewedLate(r) ==
  /\ renewal[r].step = "ok"
  /\ store' = [store EXCEPT !.session = renewal[r].session, !.fresh = TRUE]
  /\ handset' = [handset EXCEPT !.promise = NoRenewal]
  /\ renewal' = [renewal EXCEPT ![r] = NoRefresh]
  /\ Wake(r, "asked")
  /\ UNCHANGED <<server, sign, current, loading, doubled>>

Renewed(r) ==
  /\ renewal[r].step = "ok" /\ r \in current
  /\ store' = [store EXCEPT !.session = renewal[r].session, !.fresh = TRUE]
  /\ handset' = [handset EXCEPT !.promise = NoRenewal]
  /\ renewal' = [renewal EXCEPT ![r] = NoRefresh]
  /\ Wake(r, "asked")
  /\ UNCHANGED <<server, sign, current, loading, doubled>>

\* endSession: only a rejected refresh token signs the agent out.
SessionRejected(r) ==
  /\ renewal[r].step = "refused" /\ r \in current
  /\ store' = NoTokens
  /\ handset' = SignedOut(handset)
  /\ renewal' = [renewal EXCEPT ![r] = NoRefresh]
  /\ Wake(r, "idle")
  /\ NewGeneration
  /\ UNCHANGED <<server, sign, doubled>>

\* Lost, or stale; "finally" forgets whichever refresh is under way.
RenewalFails(r) ==
  /\ renewal[r].step # "idle"
  /\ handset' = [handset EXCEPT !.promise = NoRenewal]
  /\ renewal' = [renewal EXCEPT ![r] = NoRefresh]
  /\ Wake(r, "idle")
  /\ UNCHANGED <<server, store, sign, current, loading, doubled>>

-----------------------------------------------------------------------------
(* Signing out, and what happens to a session by itself.                   *)

Logout ==
  /\ handset.screen = "home" /\ handset.logout = "none"
  /\ handset' = [SignedOut(handset) EXCEPT !.logout = "clearing"]
  /\ NewGeneration
  /\ UNCHANGED <<server, store, sign, job, renewal, doubled>>

LogoutClears ==
  /\ handset.logout = "clearing"
  /\ handset' = [handset EXCEPT !.logout = "revoking", !.revoked = store.session]
  /\ store' = NoTokens
  /\ UNCHANGED <<server, sign, job, renewal, current, loading, doubled>>

LogoutRevokes ==
  /\ handset.logout = "revoking"
  /\ \E reached \in BOOLEAN :
       server' = [server EXCEPT !.live = IF reached THEN @ \ {handset.revoked} ELSE @]
  /\ handset' = [handset EXCEPT !.logout = "none", !.revoked = 0]
  /\ UNCHANGED <<store, sign, job, renewal, current, loading, doubled>>

AccessExpires ==
  /\ store' = [store EXCEPT !.fresh = FALSE]
  /\ UNCHANGED <<server, handset, sign, job, renewal, current, loading, doubled>>

SessionEnds ==
  /\ \E s \in server.live : server' = [server EXCEPT !.live = @ \ {s}]
  /\ UNCHANGED <<store, handset, sign, job, renewal, current, loading, doubled>>

\* The app is killed and started again.
Restart ==
  /\ handset.restarts < MaxRestarts
  /\ handset' = [ColdStart EXCEPT !.restarts = handset.restarts + 1]
  /\ sign' = [i \in Signs |-> NoSign]
  /\ job' = [j \in Jobs |-> NoJob]
  /\ renewal' = [r \in Renewals |-> NoRefresh]
  /\ NewGeneration
  /\ UNCHANGED <<server, store, doubled>>

SessionNext ==
  \/ \E i \in Signs : Submit(i) \/ ServeSignIn(i) \/ TokensArrive(i) \/ LoadAccount(i)
                      \/ AccountArrives(i) \/ StoreAccount(i) \/ Activate(i) \/ SignFails(i)
  \/ \E j \in Jobs : StartJob(j) \/ Token(j) \/ ServeJob(j) \/ RetryJob(j) \/ JobAnswered(j)
                     \/ AccountDeleted(j) \/ DatabaseErased(j) \/ JobFails(j)
  \/ \E r \in Renewals : ServeRenewal(r) \/ Renewed(r) \/ SessionRejected(r) \/ RenewalFails(r)
  \/ Boot \/ Logout \/ LogoutClears \/ LogoutRevokes
  \/ AccessExpires \/ SessionEnds \/ Restart

SessionSpec == SessionInit /\ [][SessionNext]_sessionVars

-----------------------------------------------------------------------------
\* The stored tokens are of the account stored with them and of the account whose
\* captures are uploaded with them.  The one exception: the form was submitted
\* again, for another account, while an earlier sign-in was being stored.
TokensAreTheAccounts ==
  store.session # 0 /\ ~doubled =>
    /\ store.account \in {Owner(store.session), Nobody}
    /\ handset.active \in {Owner(store.session), Nobody}

\* What the screens show was read with the account that is active, whatever calls
\* of an earlier session are still to be answered; with the same exception, and
\* another: an account was deleted, the agent signed out and in again while its
\* database was erased, and the screens that then closed were filled by a late answer
\* (App.tsx 120).
ShownDataIsTheAccounts ==
  handset.shown # Nobody /\ handset.active # Nobody /\ ~doubled /\ ~handset.evicted =>
    handset.shown = handset.active

\* Both: no session of one account is mixed with the data of another.
SessionsAreTheAccounts == TokensAreTheAccounts /\ ShownDataIsTheAccounts

=============================================================================
