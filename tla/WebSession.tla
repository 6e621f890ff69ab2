----------------------------- MODULE WebSession -----------------------------
(***************************************************************************)
(* The dashboard's session: the two cookies of the browser, the routes     *)
(* that set and clear them (api/auth), and the proxy that forwards every   *)
(* call with them and refreshes the access token once                      *)
(* (api/backend).  A route reads the cookies its request carried; what it  *)
(* sets reaches the browser with its answer, after whatever the browser    *)
(* has been told meanwhile.                                                *)
(***************************************************************************)
EXTENDS Naturals, Sequences

CONSTANTS
  Calls,       \* calls of the dashboard that may be under way together
  MaxSignIns   \* bound: sign-ins

VARIABLES
  jar,      \* the cookies, by the session they belong to
  session,  \* the server: the sessions that may still be refreshed
  auth,     \* the sign-in or sign-out under way
  call,     \* the calls
  signed,   \* history: the session signed in to last, 0 after a sign-out
  overtaken \* history: since then, a call of another session set or cleared them

webVars == <<jar, session, auth, call, signed, overtaken>>

SignIns == 1..MaxSignIns
None == 0
Cookies == [access : {None} \cup SignIns, refresh : {None} \cup SignIns]
NoCookies == [access |-> None, refresh |-> None]
Results == {"none", "ok", "refused", "unavailable"}

WebTypeOK ==
  /\ jar \in Cookies
  /\ session \in [opened : 0..MaxSignIns, live : SUBSET SignIns]
  /\ auth \in [step : {"idle", "login", "opened", "logout", "closed"},
               session : {None} \cup SignIns]
  /\ call \in [Calls -> [step : {"idle", "forward", "refresh", "again", "answer"},
                         jar : Cookies, cookies : {"keep", "set", "clear"},
                         result : Results, effects : Nat]]
  /\ signed \in {None} \cup SignIns
  /\ overtaken \in BOOLEAN

NoCall == [step |-> "idle", jar |-> NoCookies, cookies |-> "keep", result |-> "none",
           effects |-> 0]
NoAuth == [step |-> "idle", session |-> None]

WebInit ==
  /\ jar = NoCookies
  /\ session = [opened |-> 0, live |-> {}]
  /\ auth = NoAuth
  /\ call = [c \in Calls |-> NoCall]
  /\ signed = None
  /\ overtaken = FALSE

\* The middleware serves the pages to a browser with either cookie, and the
\* sign-in form to one without an access token.
Authenticated == jar # NoCookies
SignInForm == jar.access = None

-----------------------------------------------------------------------------
(* Signing in and out (AuthForm, the shell's logout, deleteAccount).       *)

SubmitAuth ==
  /\ SignInForm /\ auth.step = "idle"
  /\ auth' = [step |-> "login", session |-> None]
  /\ UNCHANGED <<jar, session, call, signed, overtaken>>

\* The backend opens a session, for a login as for a signup.
ServeLogin ==
  /\ auth.step = "login" /\ session.opened < MaxSignIns
  /\ session' = [opened |-> session.opened + 1, live |-> session.live \cup {session.opened + 1}]
  /\ auth' = [step |-> "opened", session |-> session.opened + 1]
  /\ UNCHANGED <<jar, call, signed, overtaken>>

\* Fault: the refresh token of an earlier session stays.
SignedInAccessOnly ==
  /\ auth.step = "opened"
  /\ jar' = [access |-> auth.session,
             refresh |-> IF jar.refresh = None THEN auth.session ELSE jar.refresh]
  /\ signed' = auth.session
  /\ overtaken' = FALSE
  /\ auth' = NoAuth
  /\ UNCHANGED <<session, call>>

\* setTokenCookies
SignedIn ==
  /\ auth.step = "opened"
  /\ jar' = [access |-> auth.session, refresh |-> auth.session]
  /\ signed' = auth.session
  /\ overtaken' = FALSE
  /\ auth' = NoAuth
  /\ UNCHANGED <<session, call>>

PressLogout ==
  /\ Authenticated /\ auth.step = "idle"
  /\ auth' = [step |-> "logout", session |-> jar.refresh]
  /\ UNCHANGED <<jar, session, call, signed, overtaken>>

\* The session is revoked, or the backend is out of reach.
ServeLogout ==
  /\ auth.step = "logout"
  /\ \E reached \in BOOLEAN :
       session' = [session EXCEPT !.live = IF reached THEN @ \ {auth.session} ELSE @]
  /\ auth' = [auth EXCEPT !.step = "closed"]
  /\ UNCHANGED <<jar, call, signed, overtaken>>

\* clearTokenCookies
LogoutAnswered ==
  /\ auth.step = "closed"
  /\ jar' = NoCookies
  /\ signed' = None
  /\ overtaken' = FALSE
  /\ auth' = NoAuth
  /\ UNCHANGED <<session, call>>

\* A refused sign-in, and any answer that is lost.
AuthFails ==
  /\ auth.step # "idle"
  /\ auth' = NoAuth
  /\ UNCHANGED <<jar, session, call, signed, overtaken>>

-----------------------------------------------------------------------------
(* The proxy.                                                              *)

AskBackend(c) ==
  /\ Authenticated /\ call[c].step = "idle"
  /\ call' = [call EXCEPT ![c] = [NoCall EXCEPT !.step = "forward", !.jar = jar]]
  /\ UNCHANGED <<jar, session, auth, signed, overtaken>>

\* Fault: a backend that cannot be reached is tried again too.
TriesAgainAlways(result) == result \in {"refused", "unavailable"}

\* Only a 401 leads to a refresh.
TriesAgain(result) == result = "refused"

\* forward: the backend accepts, with or without being heard, refuses the access
\* token, which may have expired, or is out of reach.
Forwarded(k, result, effect) == [k EXCEPT !.result = result, !.effects = @ + effect]

Forward(c) ==
  /\ call[c].step \in {"forward", "again"}
  /\ \E result \in {"ok", "refused", "unavailable"}, effect \in {0, 1} :
       /\ result = "ok" => effect = 1
       /\ effect = 1 => call[c].jar.access # None
       /\ result = "refused" => effect = 0
       /\ call' = [call EXCEPT ![c] =
            [Forwarded(@, result, effect) EXCEPT !.step =
              IF /\ call[c].step = "forward" /\ call[c].jar.refresh # None
                 /\ TriesAgain(result)
              THEN "refresh" ELSE "answer"]]
  /\ UNCHANGED <<jar, session, auth, signed, overtaken>>

\* The refresh token is not replaced; a refused one is thrown away.
Refresh(c) ==
  /\ call[c].step = "refresh"
  /\ LET s == call[c].jar.refresh
     IN \/ /\ s \in session.live
           /\ call' = [call EXCEPT ![c].step = "again", ![c].cookies = "set",
                                   ![c].jar.access = s]
        \/ /\ s \notin session.live
           /\ call' = [call EXCEPT ![c].step = "answer", ![c].cookies = "clear"]
        \/ call' = [call EXCEPT ![c].step = "answer", ![c].result = "unavailable"]
  /\ UNCHANGED <<jar, session, auth, signed, overtaken>>

\* The answer reaches the browser with the cookies it sets, or is lost.
CallAnswered(c) ==
  /\ call[c].step = "answer"
  /\ \/ /\ jar' = CASE call[c].cookies = "keep" -> jar
                    [] call[c].cookies = "set" ->
                         [access |-> call[c].jar.refresh, refresh |-> call[c].jar.refresh]
                    [] call[c].cookies = "clear" -> NoCookies
        /\ overtaken' = (overtaken \/
             (call[c].cookies # "keep" /\ call[c].jar.refresh # signed))
     \/ UNCHANGED <<jar, overtaken>>
  /\ call' = [call EXCEPT ![c] = NoCall]
  /\ UNCHANGED <<session, auth, signed>>

-----------------------------------------------------------------------------
\* The access cookie ends with its token; a session ends on the server.
TokenExpires ==
  /\ jar' = [jar EXCEPT !.access = None]
  /\ UNCHANGED <<session, auth, call, signed, overtaken>>

SessionRevoked ==
  /\ \E s \in session.live : session' = [session EXCEPT !.live = @ \ {s}]
  /\ UNCHANGED <<jar, auth, call, signed, overtaken>>

WebNext ==
  \/ SubmitAuth \/ ServeLogin \/ SignedIn \/ PressLogout \/ ServeLogout \/ LogoutAnswered \/ AuthFails
  \/ TokenExpires \/ SessionRevoked
  \/ \E c \in Calls : AskBackend(c) \/ Forward(c) \/ Refresh(c) \/ CallAnswered(c)

WebSpec == WebInit /\ [][WebNext]_webVars

-----------------------------------------------------------------------------
\* The browser's cookies are of the session signed in to last, or gone.  The one
\* exception is a call of an earlier session that is refreshed by the proxy and
\* answered after the sign-in or the sign-out: its cookies replace the new ones.
CookiesAreOfTheLastSignIn ==
  ~overtaken => {jar.access, jar.refresh} \subseteq {signed, None}

\* A call takes effect at most once, though the proxy may send it twice; one that
\* is answered with success took effect, one that is refused did not.
CallsTakeEffectOnce ==
  \A c \in Calls :
    /\ call[c].effects <= 1
    /\ call[c].step = "answer" =>
         /\ call[c].result = "ok" => call[c].effects = 1
         /\ call[c].result = "refused" => call[c].effects = 0

=============================================================================
