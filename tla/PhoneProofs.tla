---------------------------- MODULE PhoneProofs ----------------------------
(***************************************************************************)
(* Proofs about the phone.  PhoneSession, for any number of sign-ins,      *)
(* calls and refreshes under way together, sessions and cold starts:       *)
(* what keeps the accounts apart is the generation.  Whoever asks for a    *)
(* token in the present generation asks with the active account's, so that *)
(* what it brings is that account's (JobFacts, RenewalFacts); and while no *)
(* two sign-ins overlap, the one that is being stored finds its own tokens *)
(* in the store, or none (SignFacts).                                      *)
(*                                                                         *)
(* Recording, for any number of segments, shots and deaths of the app: the *)
(* session row names the file the recorder is writing, and is cleared only *)
(* when that file is queued, except where startSegment and finishShowing   *)
(* overlap (SessionFacts); the row, the screen and whichever process is    *)
(* closing the segment agree on its offset (OffsetFacts).                  *)
(***************************************************************************)
EXTENDS PhoneSession, Recording, SequenceTheorems, FiniteSetTheorems, TLAPS

\* What the constants are.
SessionConstants ==
  /\ Nobody \notin Accounts
  /\ Signs \cap Jobs = {} /\ Signs \cap Renewals = {} /\ Jobs \cap Renewals = {}
  /\ MaxSessions \in Nat /\ MaxRestarts \in Nat

Opened == 1..Len(server.owner)

\* Sessions that anybody holds were opened.
Held ==
  /\ store.session \in Opened \cup {0}
  /\ store.session = 0 => store.account = Nobody
  /\ \A i \in Signs :
       /\ sign[i].session \in Opened \cup {0}
       /\ sign[i].kept \in Opened \cup {0}
       /\ sign[i].step \in {"opened", "asking", "told", "persisted"} =>
            sign[i].session \in Opened
       /\ sign[i].step \in {"told", "persisted"} => sign[i].kept \in Opened
  /\ \A j \in Jobs : job[j].step \in {"asked", "answered"} => job[j].session \in Opened
  /\ \A r \in Renewals : renewal[r].step # "idle" => renewal[r].session \in Opened

\* Sign-ins have the present generation while nobody is active, calls and refreshes
\* while somebody is.
Generations ==
  /\ \A i \in Signs : i \in current => handset.active = Nobody /\ handset.screen # "home"
  /\ \A j \in Jobs \cup Renewals : j \in current => handset.active # Nobody

\* Screens without an account show nothing.
ScreenFacts ==
  /\ handset.screen = "boot" => handset.active = Nobody /\ handset.shown = Nobody
  /\ handset.screen = "login" /\ ~handset.evicted =>
       handset.active = Nobody /\ handset.shown = Nobody

Holding == {"stored", "asking", "told", "persisted"}

SignFacts ==
  ~doubled => \A i \in Signs : sign[i].step \in Holding =>
    /\ handset.active = Nobody
    /\ \A k \in Signs : sign[k].step \in Holding => k = i
    /\ sign[i].step # "stored" /\ store.session # 0 =>
         Owner(store.session) = Owner(sign[i].session)
    /\ sign[i].step \in {"told", "persisted"} =>
         Owner(sign[i].kept) = Owner(sign[i].session)

JobFacts ==
  ~doubled => \A j \in Jobs : j \in current /\ job[j].step \in {"asked", "answered"} =>
    Owner(job[j].session) = handset.active

RenewalFacts ==
  ~doubled => \A r \in Renewals : r \in current /\ renewal[r].step # "idle" =>
    Owner(renewal[r].session) = handset.active

-----------------------------------------------------------------------------
SignSet == [step : {"idle", "asked", "opened", "stored", "asking", "told", "persisted"},
            session : 0..MaxSessions, kept : 0..MaxSessions]
JobSet == [step : {"idle", "token", "waiting", "asked", "answered", "erase"},
           kind : {"read", "delete"}, session : 0..MaxSessions,
           retried : BOOLEAN, on : Renewals \cup {NoRenewal}]
RenewalSet == [step : {"idle", "asked", "ok", "refused"}, session : 0..MaxSessions]
PhoneSet == [screen : {"boot", "login", "home"}, active : Accounts \cup {Nobody},
             shown : Accounts \cup {Nobody}, promise : Renewals \cup {NoRenewal},
             evicted : BOOLEAN, logout : {"none", "clearing", "revoking"},
             revoked : 0..MaxSessions, restarts : 0..MaxRestarts]
StoreSet == [session : 0..MaxSessions, account : Accounts \cup {Nobody}, fresh : BOOLEAN]

TypeInv ==
  /\ server \in [owner : Seq(Accounts), live : SUBSET Sessions]
  /\ store \in StoreSet /\ handset \in PhoneSet
  /\ sign \in [Signs -> SignSet] /\ job \in [Jobs -> JobSet]
  /\ renewal \in [Renewals -> RenewalSet]
  /\ current \subseteq Signs \cup Jobs \cup Renewals
  /\ loading \subseteq Signs
  /\ doubled \in BOOLEAN

SessionInv ==
  /\ TypeInv /\ Held /\ Generations /\ ScreenFacts
  /\ SignFacts /\ JobFacts /\ RenewalFacts
  /\ TokensAreTheAccounts /\ ShownDataIsTheAccounts

LEMMA Constants ==
  ASSUME SessionConstants
  PROVE  /\ NoSign \in SignSet /\ NoJob \in JobSet /\ NoRefresh \in RenewalSet
         /\ NoTokens \in StoreSet /\ ColdStart \in PhoneSet
         /\ NoSign.step = "idle" /\ NoJob.step = "idle" /\ NoRefresh.step = "idle"
         /\ NoSign.session = 0 /\ NoSign.kept = 0
         /\ NoTokens.session = 0 /\ NoTokens.account = Nobody
BY DEF SessionConstants, NoSign, NoJob, NoRefresh, NoTokens, ColdStart,
       SignSet, JobSet, RenewalSet, StoreSet, PhoneSet

LEMMA SessionBegins == ASSUME SessionConstants, SessionInit PROVE SessionInv
<1> USE Constants DEF SessionInit, Holding
<1>1. TypeInv
  <2>1. /\ sign \in [Signs -> SignSet] /\ job \in [Jobs -> JobSet]
        /\ renewal \in [Renewals -> RenewalSet]
    OBVIOUS
  <2>2. server \in [owner : Seq(Accounts), live : SUBSET Sessions]
    OBVIOUS
  <2> QED  BY <2>1, <2>2 DEF TypeInv
<1>2. Held
  BY DEF Held
<1>3. Generations /\ ScreenFacts
  BY DEF Generations, ScreenFacts, ColdStart
<1>4. SignFacts
  BY DEF SignFacts
<1>5. JobFacts /\ RenewalFacts
  BY DEF JobFacts, RenewalFacts
<1>6. TokensAreTheAccounts /\ ShownDataIsTheAccounts
  BY DEF TokensAreTheAccounts, ShownDataIsTheAccounts, ColdStart
<1> QED  BY <1>1, <1>2, <1>3, <1>4, <1>5, <1>6 DEF SessionInv

-----------------------------------------------------------------------------
(* Signing in.                                                             *)

LEMMA SubmitStep ==
  ASSUME SessionConstants, SessionInv, NEW i \in Signs, Submit(i) PROVE SessionInv'
<1> USE DEF SessionInv, Submit
<1>1. TypeInv'
  BY ZenonT(40) DEF TypeInv, PhoneSet, SignSet, SessionConstants
<1>2. Held'
  BY DEF Held, Opened, TypeInv, SignSet
<1>3. Generations'
  BY DEF Generations, TypeInv, PhoneSet, SessionConstants
<1>4. ScreenFacts'
  BY DEF ScreenFacts, TypeInv, PhoneSet
<1>5. SignFacts'
  BY DEF SignFacts, Owner, Holding, TypeInv, SignSet, PhoneSet
<1>6. JobFacts'
  BY DEF JobFacts, SessionConstants
<1>7. RenewalFacts'
  BY DEF RenewalFacts, SessionConstants
<1>8. TokensAreTheAccounts'
  BY DEF TokensAreTheAccounts, Owner, TypeInv, PhoneSet
<1>9. ShownDataIsTheAccounts'
  BY DEF ShownDataIsTheAccounts, TypeInv, PhoneSet
<1> QED  BY <1>1, <1>2, <1>3, <1>4, <1>5, <1>6, <1>7, <1>8, <1>9

LEMMA ServeSignInStep ==
  ASSUME SessionConstants, SessionInv, NEW i \in Signs, ServeSignIn(i) PROVE SessionInv'
<1> USE DEF SessionInv, ServeSignIn
<1>1. TypeInv'
  <2>1. server.owner \in Seq(Accounts) /\ Len(server.owner) + 1 \in Sessions
    BY DEF TypeInv, SessionConstants, Sessions
  <2>2. server' \in [owner : Seq(Accounts), live : SUBSET Sessions]
    BY <2>1 DEF TypeInv
  <2>3. PICK n : n = Len(server.owner) + 1
    OBVIOUS
  <2>4. n \in 0..MaxSessions
    BY <2>1, <2>3 DEF Sessions
  <2>5. sign' = [sign EXCEPT ![i].step = "opened", ![i].session = n]
    BY <2>3
  <2>6. sign' \in [Signs -> SignSet]
    BY ONLY <2>4, <2>5, SessionInv DEF SessionInv, TypeInv, SignSet
  <2> QED  BY <2>2, <2>6 DEF TypeInv
<1>2. Held'
  BY DEF Held, Opened, TypeInv, SignSet
<1>3. SignFacts'
  BY DEF SignFacts, Owner, Holding, TypeInv, SignSet, Held, Opened
<1>4. JobFacts'
  BY DEF JobFacts, Owner, TypeInv, Held, Opened
<1>5. RenewalFacts'
  BY DEF RenewalFacts, Owner, TypeInv, Held, Opened
<1>6. TokensAreTheAccounts'
  BY DEF TokensAreTheAccounts, Owner, TypeInv, Held, Opened
<1>7. Generations' /\ ScreenFacts' /\ ShownDataIsTheAccounts'
  BY DEF Generations, ScreenFacts, ShownDataIsTheAccounts
<1> QED  BY <1>1, <1>2, <1>3, <1>4, <1>5, <1>6, <1>7

LEMMA TokensArriveStep ==
  ASSUME SessionConstants, SessionInv, NEW i \in Signs, TokensArrive(i) PROVE SessionInv'
<1> USE DEF SessionInv
<1>1. /\ sign' = [sign EXCEPT ![i].step = "stored"] /\ sign[i].step = "opened"
      /\ store' = [session |-> sign[i].session, account |-> Nobody, fresh |-> TRUE]
      /\ UNCHANGED <<server, handset, job, renewal, current, loading>>
  BY DEF TokensArrive
<1>2. handset.active = Nobody /\ \A j \in Jobs \cup Renewals : j \notin current
  BY DEF TokensArrive, Generations
<1>3. ~doubled' => \A k \in Signs \ {i} : sign[k].step = "idle"
  BY DEF TokensArrive, Others
<1>4. doubled' \in BOOLEAN
  BY DEF TokensArrive, Others
<1>5. TypeInv'
  BY <1>1, <1>4 DEF TypeInv, SignSet, StoreSet
<1>6. Held'
  BY <1>1 DEF Held, Opened, TypeInv, SignSet, Sessions, SessionConstants
<1>7. Generations'
  BY <1>1 DEF Generations
<1>8. ScreenFacts'
  BY <1>1 DEF ScreenFacts
<1>9. SignFacts'
  BY <1>1, <1>2, <1>3 DEF SignFacts, Holding, TypeInv, SignSet
<1>10. JobFacts'
  BY <1>1, <1>2 DEF JobFacts
<1>11. RenewalFacts'
  BY <1>1, <1>2 DEF RenewalFacts
<1>12. TokensAreTheAccounts'
  BY <1>1, <1>2 DEF TokensAreTheAccounts
<1>13. ShownDataIsTheAccounts'
  BY <1>1, <1>2 DEF ShownDataIsTheAccounts
<1> QED  BY <1>5, <1>6, <1>7, <1>8, <1>9, <1>10, <1>11, <1>12, <1>13

LEMMA LoadAccountStep ==
  ASSUME SessionConstants, SessionInv, NEW i \in Signs, LoadAccount(i) PROVE SessionInv'
<1> USE DEF SessionInv, LoadAccount
<1>1. TypeInv'
  BY DEF TypeInv, SignSet, StoreSet
<1>2. Held'
  BY DEF Held, Opened, TypeInv, SignSet
<1>3. SignFacts'
  BY DEF SignFacts, Owner, Holding, TypeInv, SignSet
<1>4. Generations' /\ ScreenFacts' /\ JobFacts' /\ RenewalFacts' /\
     TokensAreTheAccounts' /\ ShownDataIsTheAccounts'
  BY DEF Generations, ScreenFacts, JobFacts, RenewalFacts, TokensAreTheAccounts,
         ShownDataIsTheAccounts, Owner
<1> QED  BY <1>1, <1>2, <1>3, <1>4

LEMMA AccountArrivesStep ==
  ASSUME SessionConstants, SessionInv, NEW i \in Signs, AccountArrives(i) PROVE SessionInv'
<1> USE DEF SessionInv, AccountArrives
<1>1. TypeInv'
  BY DEF TypeInv, SignSet, StoreSet
<1>2. Held'
  BY DEF Held, Opened, TypeInv, SignSet
<1>3. SignFacts'
  BY DEF SignFacts, Owner, Holding, TypeInv, SignSet
<1>4. Generations' /\ ScreenFacts' /\ JobFacts' /\ RenewalFacts' /\
     TokensAreTheAccounts' /\ ShownDataIsTheAccounts'
  BY DEF Generations, ScreenFacts, JobFacts, RenewalFacts, TokensAreTheAccounts,
         ShownDataIsTheAccounts, Owner
<1> QED  BY <1>1, <1>2, <1>3, <1>4

LEMMA StoreAccountStep ==
  ASSUME SessionConstants, SessionInv, NEW i \in Signs, StoreAccount(i) PROVE SessionInv'
<1> USE DEF SessionInv, StoreAccount
<1>1. /\ sign[i].session \in Opened /\ sign[i].kept \in Opened
      /\ Owner(sign[i].session) \in Accounts /\ sign[i].step \in Holding
  BY DEF Held, Opened, Owner, Holding, TypeInv
<1>2. TypeInv'
  <2>1. store' \in StoreSet
    BY <1>1 DEF StoreSet, TypeInv, SignSet
  <2>2. sign' \in [Signs -> SignSet]
    BY DEF TypeInv, SignSet
  <2> QED  BY <2>1, <2>2 DEF TypeInv
<1>3. Held'
  BY <1>1 DEF Held, Opened, TypeInv, SignSet, StoreSet
<1>4. SignFacts'
  BY DEF SignFacts, Owner, Holding, TypeInv, SignSet, StoreSet
<1>5. TokensAreTheAccounts'
  <2>1. ~doubled => /\ handset.active = Nobody
                       /\ Owner(sign[i].kept) = Owner(sign[i].session)
    BY <1>1 DEF SignFacts
  <2> QED  BY <2>1 DEF TokensAreTheAccounts, Owner
<1>6. Generations' /\ ScreenFacts' /\ JobFacts' /\ RenewalFacts' /\
     ShownDataIsTheAccounts'
  BY DEF Generations, ScreenFacts, JobFacts, RenewalFacts, ShownDataIsTheAccounts, Owner
<1> QED  BY <1>2, <1>3, <1>4, <1>5, <1>6

LEMMA ActivateStep ==
  ASSUME SessionConstants, SessionInv, NEW i \in Signs, Activate(i) PROVE SessionInv'
<1> USE Constants DEF SessionInv, Activate, NewGeneration
<1>1. /\ sign[i].session \in Opened /\ sign[i].kept \in Opened
      /\ Owner(sign[i].session) \in Accounts /\ sign[i].step \in Holding
  BY DEF Held, Opened, Owner, Holding, TypeInv
<1>2. handset.active = Nobody /\ handset.screen # "home"
  BY DEF Generations
<1>3. /\ handset'.active = Owner(sign[i].session) /\ handset'.shown = handset.shown
      /\ handset'.evicted = handset.evicted /\ handset'.screen = "home"
  BY DEF TypeInv, PhoneSet
<1>4. TypeInv'
  <2>1. handset' \in PhoneSet
    BY <1>1 DEF PhoneSet, TypeInv
  <2>2. sign' \in [Signs -> SignSet]
    BY DEF TypeInv
  <2> QED  BY <2>1, <2>2 DEF TypeInv
<1>5. Held'
  BY DEF Held, Opened, TypeInv, SignSet
<1>6. Generations'
  BY DEF Generations, TypeInv, PhoneSet
<1>7. ScreenFacts'
  BY DEF ScreenFacts, TypeInv, PhoneSet
<1>8. SignFacts'
  BY DEF SignFacts, Owner, Holding, TypeInv, SignSet, PhoneSet
<1>9. JobFacts'
  BY DEF JobFacts, Owner, TypeInv, PhoneSet
<1>10. RenewalFacts'
  BY DEF RenewalFacts, Owner, TypeInv, PhoneSet
<1>11. TokensAreTheAccounts'
  BY <1>1, <1>3 DEF TokensAreTheAccounts, SignFacts, Owner
<1>12. ShownDataIsTheAccounts'
  BY <1>2, <1>3 DEF ShownDataIsTheAccounts, ScreenFacts, TypeInv, PhoneSet
<1> QED  BY <1>4, <1>5, <1>6, <1>7, <1>8, <1>9, <1>10, <1>11, <1>12

LEMMA SignFailsStep ==
  ASSUME SessionConstants, SessionInv, NEW i \in Signs, SignFails(i) PROVE SessionInv'
<1> USE Constants DEF SessionInv, SignFails
<1>1. TypeInv'
  BY DEF TypeInv, StoreSet, PhoneSet, SignSet, SessionConstants
<1>2. Held'
  BY DEF Held, Opened, TypeInv, StoreSet, SignSet
<1>3. Generations'
  BY DEF Generations, TypeInv, PhoneSet
<1>4. ScreenFacts'
  BY DEF ScreenFacts, TypeInv, PhoneSet
<1>5. SignFacts'
  BY DEF SignFacts, Owner, Holding, TypeInv, SignSet, PhoneSet, StoreSet
<1>6. JobFacts'
  BY DEF JobFacts, Owner, TypeInv, PhoneSet
<1>7. RenewalFacts'
  BY DEF RenewalFacts, Owner, TypeInv, PhoneSet
<1>8. TokensAreTheAccounts'
  BY DEF TokensAreTheAccounts, Owner, TypeInv, StoreSet, PhoneSet
<1>9. ShownDataIsTheAccounts'
  BY DEF ShownDataIsTheAccounts, TypeInv, PhoneSet
<1> QED  BY <1>1, <1>2, <1>3, <1>4, <1>5, <1>6, <1>7, <1>8, <1>9

LEMMA BootStep ==
  ASSUME SessionConstants, SessionInv, Boot PROVE SessionInv'
<1> USE DEF SessionInv
<1>1. /\ handset.screen = "boot" /\ handset.active = Nobody /\ handset.shown = Nobody
      /\ \A i \in Signs : sign[i].step = "idle"
      /\ UNCHANGED <<server, store, job, renewal, doubled>>
  BY DEF Boot, ScreenFacts
<1>2. \A j \in Jobs \cup Renewals : j \notin current
  BY <1>1 DEF Generations
<1>3. CASE /\ handset' = [handset EXCEPT !.screen = "login"]
           /\ UNCHANGED <<sign, current, loading>>
  <2>1. handset' \in PhoneSet /\ handset'.active = Nobody /\ handset'.shown = Nobody
    BY <1>1, <1>3 DEF TypeInv, PhoneSet
  <2>2. handset'.screen = "login"
    BY <1>3 DEF TypeInv, PhoneSet
  <2>3. TypeInv' /\ Held'
    BY <1>1, <1>3, <2>1 DEF TypeInv, Held, Opened
  <2>4. Generations' /\ ScreenFacts'
    BY <1>2, <1>3, <2>1, <2>2 DEF Generations, ScreenFacts
  <2>5. SignFacts' /\ JobFacts' /\ RenewalFacts'
    BY <1>1, <1>2, <1>3 DEF SignFacts, JobFacts, RenewalFacts, Holding
  <2>6. TokensAreTheAccounts' /\ ShownDataIsTheAccounts'
    BY <1>1, <2>1 DEF TokensAreTheAccounts, ShownDataIsTheAccounts, Owner
  <2> QED  BY <2>3, <2>4, <2>5, <2>6
<1>4. CASE /\ store.session # 0 /\ store.account # Nobody
           /\ handset' = [handset EXCEPT !.screen = "home", !.active = store.account,
                                     !.shown = store.account]
           /\ NewGeneration
           /\ UNCHANGED sign
  <2>1. /\ handset' \in PhoneSet /\ handset'.screen = "home"
        /\ handset'.active = store.account /\ handset'.shown = store.account
    BY <1>4 DEF TypeInv, PhoneSet, StoreSet
  <2>2. TypeInv' /\ Held'
    BY <1>1, <1>4, <2>1 DEF TypeInv, Held, Opened, NewGeneration
  <2>3. Generations' /\ ScreenFacts'
    BY <1>4, <2>1 DEF Generations, ScreenFacts, NewGeneration
  <2>4. SignFacts' /\ JobFacts' /\ RenewalFacts'
    BY <1>1, <1>4 DEF SignFacts, JobFacts, RenewalFacts, Holding, NewGeneration
  <2>5. TokensAreTheAccounts' /\ ShownDataIsTheAccounts'
    BY <1>1, <1>4, <2>1 DEF TokensAreTheAccounts, ShownDataIsTheAccounts, Owner
  <2> QED  BY <2>2, <2>3, <2>4, <2>5
<1>5. ASSUME NEW i \in Signs, sign' = [sign EXCEPT ![i].step = "stored"],
             current' = {i}, UNCHANGED <<handset, loading>>
      PROVE  SessionInv'
  <2>1. TypeInv'
    BY <1>1, <1>5 DEF TypeInv, SignSet
  <2>2. Held'
    BY <1>1, <1>5 DEF TypeInv, SignSet, Held, Opened
  <2>3. Generations' /\ ScreenFacts'
    BY <1>1, <1>5 DEF Generations, ScreenFacts, SessionConstants
  <2>4. SignFacts'
    BY <1>1, <1>5 DEF SignFacts, Holding, TypeInv, SignSet
  <2>5. JobFacts' /\ RenewalFacts'
    BY <1>5 DEF JobFacts, RenewalFacts, SessionConstants
  <2>6. TokensAreTheAccounts' /\ ShownDataIsTheAccounts'
    BY <1>1, <1>5 DEF TokensAreTheAccounts, ShownDataIsTheAccounts, Owner
  <2> QED  BY <2>1, <2>2, <2>3, <2>4, <2>5, <2>6
<1> QED  BY <1>3, <1>4, <1>5 DEF Boot

-----------------------------------------------------------------------------
(* Calls and refreshes.                                                    *)

LEMMA StartJobStep ==
  ASSUME SessionConstants, SessionInv, NEW j \in Jobs, StartJob(j) PROVE SessionInv'
<1> USE DEF SessionInv
<1>1. PICK kind \in {"read", "delete"} :
         job' = [job EXCEPT ![j] = [NoJob EXCEPT !.step = "token", !.kind = kind]]
  BY DEF StartJob
<1>2. PICK k : k = [NoJob EXCEPT !.step = "token", !.kind = kind]
  OBVIOUS
<1>3. k \in JobSet /\ k.step = "token"
  BY <1>2, Constants DEF NoJob, JobSet
<1>4. job' = [job EXCEPT ![j] = k]
  BY <1>1, <1>2
<1>5. /\ current' = current \cup {j} /\ handset.active # Nobody /\ j \notin Signs \cup Renewals
      /\ UNCHANGED <<server, store, handset, sign, renewal, loading, doubled>>
  BY DEF StartJob, SessionConstants
<1>6. TypeInv'
  BY <1>3, <1>4, <1>5 DEF TypeInv
<1>7. Held'
  BY <1>3, <1>4, <1>5 DEF Held, Opened, TypeInv
<1>8. Generations'
  BY <1>5 DEF Generations
<1>9. ScreenFacts'
  BY <1>5 DEF ScreenFacts
<1>10. SignFacts'
  BY <1>5 DEF SignFacts, Owner
<1>11. JobFacts'
  BY <1>3, <1>4, <1>5 DEF JobFacts, Owner, TypeInv
<1>12. RenewalFacts'
  BY <1>5 DEF RenewalFacts, Owner
<1>13. TokensAreTheAccounts'
  BY <1>5 DEF TokensAreTheAccounts, Owner
<1>14. ShownDataIsTheAccounts'
  BY <1>5 DEF ShownDataIsTheAccounts
<1> QED  BY <1>6, <1>7, <1>8, <1>9, <1>10, <1>11, <1>12, <1>13, <1>14

LEMMA TokenStep ==
  ASSUME SessionConstants, SessionInv, NEW j \in Jobs, Token(j) PROVE SessionInv'
<1> USE DEF SessionInv
<1>1. /\ store.session \in Opened /\ handset.active # Nobody /\ j \in current
      /\ ~doubled => Owner(store.session) = handset.active
      /\ UNCHANGED <<server, store, sign, loading, doubled>>
  BY DEF Token, Held, Generations, TokensAreTheAccounts
<1>2. \A s \in 0..MaxSessions : Owner(s)' = Owner(s) /\ Opened' = Opened
  BY <1>1 DEF Owner, Opened
\* Whatever happens to the promise, the screens stay as they are.
<1>3. ASSUME handset' \in PhoneSet, handset'.active = handset.active,
             handset'.screen = handset.screen, handset'.shown = handset.shown,
             handset'.evicted = handset.evicted
      PROVE  ScreenFacts' /\ SignFacts' /\ TokensAreTheAccounts' /\ ShownDataIsTheAccounts'
  <2>1. ScreenFacts' /\ ShownDataIsTheAccounts'
    BY <1>1, <1>3 DEF ScreenFacts, ShownDataIsTheAccounts
  <2>2. SignFacts'
    BY <1>1, <1>3 DEF SignFacts, Owner
  <2>3. TokensAreTheAccounts'
    BY <1>1, <1>3 DEF TokensAreTheAccounts, Owner
  <2> QED  BY <2>1, <2>2, <2>3
<1>4. CASE /\ job' = [job EXCEPT ![j].step = "asked", ![j].session = store.session]
           /\ UNCHANGED <<handset, renewal, current>>
  <2>1. TypeInv'
    <3>1. store.session \in 0..MaxSessions /\ job \in [Jobs -> JobSet]
      BY DEF TypeInv, StoreSet
    <3>2. job' \in [Jobs -> JobSet]
      BY ONLY <1>4, <3>1, ZenonT(40) DEF JobSet
    <3> QED  BY <1>1, <1>4, <3>2 DEF TypeInv
  <2>2. Held'
    BY <1>1, <1>4 DEF TypeInv, JobSet, Held, Opened
  <2>3. JobFacts'
    BY <1>1, <1>4 DEF JobFacts, TypeInv, JobSet, Owner
  <2>4. Generations' /\ RenewalFacts'
    BY <1>1, <1>4 DEF Generations, RenewalFacts, Owner
  <2>5. ScreenFacts' /\ SignFacts' /\ TokensAreTheAccounts' /\ ShownDataIsTheAccounts'
    BY <1>3, <1>4 DEF TypeInv
  <2> QED  BY <2>1, <2>2, <2>3, <2>4, <2>5
<1>5. CASE /\ handset.promise # NoRenewal /\ UNCHANGED <<handset, renewal, current>>
           /\ job' = [job EXCEPT ![j].step = "waiting", ![j].on = handset'.promise]
  <2>1. TypeInv'
    <3>1. handset.promise \in Renewals \cup {NoRenewal} /\ job \in [Jobs -> JobSet]
      BY DEF TypeInv, PhoneSet
    <3>2. job' \in [Jobs -> JobSet]
      BY ONLY <1>5, <3>1, ZenonT(40) DEF JobSet
    <3> QED  BY <1>1, <1>5, <3>2 DEF TypeInv
  <2>2. Held'
    BY <1>1, <1>5 DEF TypeInv, JobSet, Held, Opened
  <2>3. JobFacts'
    BY <1>1, <1>5 DEF JobFacts, TypeInv, JobSet, Owner
  <2>4. Generations' /\ RenewalFacts'
    BY <1>1, <1>5 DEF Generations, RenewalFacts, Owner
  <2>5. ScreenFacts' /\ SignFacts' /\ TokensAreTheAccounts' /\ ShownDataIsTheAccounts'
    BY <1>3, <1>5 DEF TypeInv
  <2> QED  BY <2>1, <2>2, <2>3, <2>4, <2>5
<1>6. ASSUME NEW r \in Renewals,
             renewal' = [renewal EXCEPT ![r] = [step |-> "asked", session |-> store.session]],
             handset' = [handset EXCEPT !.promise = r],
             current' = current \cup {r},
             job' = [job EXCEPT ![j].step = "waiting", ![j].on = handset'.promise]
      PROVE  SessionInv'
  <2>1. /\ handset' \in PhoneSet /\ handset'.active = handset.active /\ handset'.promise = r
        /\ handset'.screen = handset.screen /\ handset'.shown = handset.shown
        /\ handset'.evicted = handset.evicted
    BY <1>6 DEF TypeInv, PhoneSet
  <2>2. job' = [job EXCEPT ![j].step = "waiting", ![j].on = r]
    BY <1>6, <2>1
  <2>3. job' \in [Jobs -> JobSet]
    <3>1. r \in Renewals \cup {NoRenewal} /\ job \in [Jobs -> JobSet]
      BY DEF TypeInv
    <3> QED  BY ONLY <2>2, <3>1, ZenonT(40) DEF JobSet
  <2>4. renewal' \in [Renewals -> RenewalSet]
    BY <1>6 DEF TypeInv, RenewalSet, StoreSet
  <2>5. TypeInv'
    BY <1>1, <1>6, <2>1, <2>3, <2>4 DEF TypeInv
  <2>6. \A k \in Jobs : job'[k] = job[k] \/ job'[k].step = "waiting"
    BY ONLY <2>2, SessionInv DEF SessionInv, TypeInv, JobSet
  <2>7. \A q \in Renewals : renewal'[q] = IF q = r
                          THEN [step |-> "asked", session |-> store.session] ELSE renewal[q]
    BY <1>6 DEF TypeInv
  <2>8. Held'
    BY <1>1, <2>6, <2>7 DEF Held, Opened
  <2>9. JobFacts'
    BY <1>1, <1>6, <2>1, <2>6 DEF JobFacts, Owner, SessionConstants
  <2>10. RenewalFacts'
    BY <1>1, <1>6, <2>1, <2>7 DEF RenewalFacts, Owner
  <2>11. Generations'
    BY <1>1, <1>6, <2>1 DEF Generations, SessionConstants
  <2>12. ScreenFacts' /\ SignFacts' /\ TokensAreTheAccounts' /\ ShownDataIsTheAccounts'
    BY <1>3, <2>1
  <2> QED  BY <2>5, <2>8, <2>9, <2>10, <2>11, <2>12
<1> QED  BY <1>4, <1>5, <1>6 DEF Token

LEMMA ServeJobStep ==
  ASSUME SessionConstants, SessionInv, NEW j \in Jobs, ServeJob(j) PROVE SessionInv'
<1> USE DEF SessionInv, ServeJob
<1>1. TypeInv'
  <2>1. server' \in [owner : Seq(Accounts), live : SUBSET Sessions]
    BY DEF TypeInv
  <2>2. job' \in [Jobs -> JobSet]
    BY ZenonT(40) DEF TypeInv, JobSet
  <2> QED  BY <2>1, <2>2 DEF TypeInv
<1>2. Held'
  BY DEF Held, Opened, TypeInv, JobSet
<1>3. SignFacts'
  BY DEF SignFacts, Owner, Holding, TypeInv, Held, Opened
<1>4. JobFacts'
  BY DEF JobFacts, Owner, TypeInv, JobSet, Held, Opened
<1>5. RenewalFacts'
  BY DEF RenewalFacts, Owner, TypeInv, Held, Opened
<1>6. TokensAreTheAccounts'
  BY DEF TokensAreTheAccounts, Owner, TypeInv, Held, Opened
<1>7. Generations' /\ ScreenFacts' /\ ShownDataIsTheAccounts'
  BY DEF Generations, ScreenFacts, ShownDataIsTheAccounts
<1> QED  BY <1>1, <1>2, <1>3, <1>4, <1>5, <1>6, <1>7

LEMMA RetryJobStep ==
  ASSUME SessionConstants, SessionInv, NEW j \in Jobs, RetryJob(j) PROVE SessionInv'
<1> USE DEF SessionInv, RetryJob
<1>1. TypeInv'
  BY SMTT(30) DEF TypeInv, JobSet
<1>2. Held'
  BY DEF Held, Opened, TypeInv, JobSet
<1>3. JobFacts'
  BY DEF JobFacts, Owner, TypeInv, JobSet
<1>4. Generations' /\ ScreenFacts' /\ SignFacts' /\ RenewalFacts' /\
     TokensAreTheAccounts' /\ ShownDataIsTheAccounts'
  BY DEF Generations, ScreenFacts, SignFacts, RenewalFacts, TokensAreTheAccounts,
         ShownDataIsTheAccounts, Owner, Holding
<1> QED  BY <1>1, <1>2, <1>3, <1>4

LEMMA JobAnsweredStep ==
  ASSUME SessionConstants, SessionInv, NEW j \in Jobs, JobAnswered(j) PROVE SessionInv'
<1> USE Constants DEF SessionInv, JobAnswered
<1>1. /\ job[j].session \in Opened /\ Owner(job[j].session) \in Accounts
      /\ handset.active # Nobody
      /\ ~doubled => Owner(job[j].session) = handset.active
  BY DEF Held, Opened, Owner, TypeInv, Generations, JobFacts
<1>2. /\ handset'.shown = Owner(job[j].session) /\ handset'.active = handset.active
      /\ handset'.evicted = handset.evicted /\ handset'.screen = handset.screen
  BY DEF TypeInv, PhoneSet
<1>3. TypeInv'
  <2>1. handset' \in PhoneSet
    BY <1>1 DEF PhoneSet, TypeInv
  <2>2. job' \in [Jobs -> JobSet]
    BY DEF TypeInv
  <2> QED  BY <2>1, <2>2 DEF TypeInv
<1>4. Held'
  BY DEF Held, Opened, TypeInv, JobSet
<1>5. Generations'
  BY DEF Generations, TypeInv, PhoneSet
<1>6. ScreenFacts'
  BY ONLY <1>1, <1>2, SessionInv DEF SessionInv, ScreenFacts
<1>7. SignFacts'
  BY DEF SignFacts, Owner, Holding, TypeInv, PhoneSet
<1>8. JobFacts'
  BY DEF JobFacts, Owner, TypeInv, JobSet, PhoneSet
<1>9. RenewalFacts'
  BY DEF RenewalFacts, Owner, TypeInv, PhoneSet
<1>10. TokensAreTheAccounts'
  BY DEF TokensAreTheAccounts, Owner, TypeInv, PhoneSet
<1>11. ShownDataIsTheAccounts'
  BY <1>1, <1>2 DEF ShownDataIsTheAccounts
<1> QED  BY <1>3, <1>4, <1>5, <1>6, <1>7, <1>8, <1>9, <1>10, <1>11

LEMMA AccountDeletedStep ==
  ASSUME SessionConstants, SessionInv, NEW j \in Jobs, AccountDeleted(j) PROVE SessionInv'
<1> USE Constants DEF SessionInv, AccountDeleted, NewGeneration
<1>1. TypeInv'
  BY ZenonT(40) DEF TypeInv, StoreSet, PhoneSet, JobSet, SessionConstants
<1>2. Held'
  BY DEF Held, Opened, TypeInv, StoreSet, JobSet
<1>3. Generations'
  BY DEF Generations, TypeInv, PhoneSet
<1>4. ScreenFacts'
  BY DEF ScreenFacts, TypeInv, PhoneSet
<1>5. SignFacts'
  BY DEF SignFacts, Owner, Holding, TypeInv, PhoneSet, StoreSet
<1>6. JobFacts'
  BY DEF JobFacts, Owner, TypeInv, JobSet, PhoneSet
<1>7. RenewalFacts'
  BY DEF RenewalFacts, Owner, TypeInv, PhoneSet
<1>8. TokensAreTheAccounts'
  BY DEF TokensAreTheAccounts, Owner, TypeInv, StoreSet, PhoneSet
<1>9. ShownDataIsTheAccounts'
  BY DEF ShownDataIsTheAccounts, TypeInv, PhoneSet
<1> QED  BY <1>1, <1>2, <1>3, <1>4, <1>5, <1>6, <1>7, <1>8, <1>9

LEMMA DatabaseErasedStep ==
  ASSUME SessionConstants, SessionInv, NEW j \in Jobs, DatabaseErased(j) PROVE SessionInv'
<1> USE Constants DEF SessionInv, DatabaseErased
<1>1. TypeInv'
  BY DEF TypeInv, PhoneSet, JobSet, SessionConstants
<1>2. Held'
  BY DEF Held, Opened, TypeInv, JobSet
<1>3. Generations'
  BY DEF Generations, TypeInv, PhoneSet
<1>4. ScreenFacts'
  BY DEF ScreenFacts, TypeInv, PhoneSet
<1>5. SignFacts'
  BY DEF SignFacts, Owner, Holding, TypeInv, PhoneSet
<1>6. JobFacts'
  BY DEF JobFacts, Owner, TypeInv, JobSet, PhoneSet
<1>7. RenewalFacts'
  BY DEF RenewalFacts, Owner, TypeInv, PhoneSet
<1>8. TokensAreTheAccounts'
  BY DEF TokensAreTheAccounts, Owner, TypeInv, PhoneSet
<1>9. ShownDataIsTheAccounts'
  BY DEF ShownDataIsTheAccounts, TypeInv, PhoneSet
<1> QED  BY <1>1, <1>2, <1>3, <1>4, <1>5, <1>6, <1>7, <1>8, <1>9

LEMMA JobFailsStep ==
  ASSUME SessionConstants, SessionInv, NEW j \in Jobs, JobFails(j) PROVE SessionInv'
<1> USE Constants DEF SessionInv, JobFails
<1>1. TypeInv'
  BY DEF TypeInv, JobSet
<1>2. Held'
  BY DEF Held, Opened, TypeInv, JobSet
<1>3. JobFacts'
  BY DEF JobFacts, Owner, TypeInv, JobSet
<1>4. Generations' /\ ScreenFacts' /\ SignFacts' /\ RenewalFacts' /\
     TokensAreTheAccounts' /\ ShownDataIsTheAccounts'
  BY DEF Generations, ScreenFacts, SignFacts, RenewalFacts, TokensAreTheAccounts,
         ShownDataIsTheAccounts, Owner, Holding
<1> QED  BY <1>1, <1>2, <1>3, <1>4

LEMMA ServeRenewalStep ==
  ASSUME SessionConstants, SessionInv, NEW r \in Renewals, ServeRenewal(r) PROVE SessionInv'
<1> USE DEF SessionInv, ServeRenewal
<1>1. TypeInv'
  BY DEF TypeInv, RenewalSet
<1>2. Held'
  BY DEF Held, Opened, TypeInv, RenewalSet
<1>3. RenewalFacts'
  BY DEF RenewalFacts, Owner, TypeInv, RenewalSet
<1>4. Generations' /\ ScreenFacts' /\ SignFacts' /\ JobFacts' /\ TokensAreTheAccounts'
     /\ ShownDataIsTheAccounts'
  BY DEF Generations, ScreenFacts, SignFacts, JobFacts, TokensAreTheAccounts,
         ShownDataIsTheAccounts, Owner, Holding
<1> QED  BY <1>1, <1>2, <1>3, <1>4

LEMMA RenewedStep ==
  ASSUME SessionConstants, SessionInv, NEW r \in Renewals, Renewed(r) PROVE SessionInv'
<1> USE Constants DEF SessionInv, Renewed, Wake
<1>1. /\ renewal[r].session \in Opened /\ handset.active # Nobody
      /\ ~doubled => Owner(renewal[r].session) = handset.active
  BY DEF Held, Generations, RenewalFacts
<1>2. /\ handset'.active = handset.active /\ store'.session = renewal[r].session
      /\ store'.account = store.account
  BY DEF TypeInv, PhoneSet, StoreSet
<1>3. \A j \in Jobs :
         \/ job'[j] = job[j]
         \/ job'[j].step = "asked" /\ job'[j].session = renewal[r].session
  BY DEF TypeInv, JobSet
<1>4. \A q \in Renewals : renewal'[q] = IF q = r THEN NoRefresh ELSE renewal[q]
  BY DEF TypeInv
<1>5. TypeInv'
  BY ZenonT(40) DEF TypeInv, StoreSet, PhoneSet, JobSet, RenewalSet, SessionConstants
<1>6. Held'
  <2>1. \A j \in Jobs : job'[j].step \in {"asked", "answered"} => job'[j].session \in Opened
    BY ONLY <1>1, <1>3, SessionInv DEF SessionInv, Held
  <2>2. \A q \in Renewals : renewal'[q].step # "idle" => renewal'[q].session \in Opened
    <3>1. /\ NoRefresh.step = "idle"
          /\ \A q \in Renewals : renewal[q].step # "idle" => renewal[q].session \in Opened
      BY DEF Held
    <3> QED  BY ONLY <1>4, <3>1
  <2>3. Held /\ UNCHANGED <<server, sign>>
    OBVIOUS
  <2> QED  BY ONLY <1>1, <1>2, <2>1, <2>2, <2>3 DEF Held, Opened
<1>7. Generations'
  BY DEF Generations, TypeInv, PhoneSet
<1>8. ScreenFacts'
  BY DEF ScreenFacts, TypeInv, PhoneSet
<1>9. SignFacts'
  BY <1>1, <1>2 DEF SignFacts
<1>10. JobFacts'
  <2>1. \A j \in Jobs :
          ~doubled /\ j \in current /\ job'[j].step \in {"asked", "answered"} =>
            Owner(job'[j].session) = handset.active
    BY ONLY <1>1, <1>3, SessionInv DEF SessionInv, JobFacts
  <2> QED  BY <1>2, <2>1 DEF JobFacts, Owner
<1>11. RenewalFacts'
  BY DEF RenewalFacts, Owner, TypeInv, RenewalSet, PhoneSet
<1>12. TokensAreTheAccounts'
  <2>1. ~doubled => store.account \in {Owner(renewal[r].session), Nobody}
    BY <1>1 DEF TokensAreTheAccounts, Held
  <2> QED  BY <1>1, <1>2, <2>1 DEF TokensAreTheAccounts, Owner
<1>13. ShownDataIsTheAccounts'
  BY DEF ShownDataIsTheAccounts, TypeInv, PhoneSet
<1> QED  BY <1>5, <1>6, <1>7, <1>8, <1>9, <1>10, <1>11, <1>12, <1>13

LEMMA SessionRejectedStep ==
  ASSUME SessionConstants, SessionInv, NEW r \in Renewals, SessionRejected(r) PROVE SessionInv'
<1> USE Constants DEF SessionInv, SessionRejected, NewGeneration, SignedOut, Wake
<1>1. TypeInv'
  BY DEF TypeInv, StoreSet, PhoneSet, JobSet, RenewalSet, SessionConstants
<1>2. Held'
  BY DEF Held, Opened, TypeInv, StoreSet, JobSet, RenewalSet
<1>3. Generations'
  BY DEF Generations, TypeInv, PhoneSet
<1>4. ScreenFacts'
  BY DEF ScreenFacts, TypeInv, PhoneSet
<1>5. SignFacts'
  BY DEF SignFacts, Owner, Holding, TypeInv, PhoneSet, StoreSet
<1>6. JobFacts'
  BY DEF JobFacts, Owner, TypeInv, JobSet, PhoneSet
<1>7. RenewalFacts'
  BY DEF RenewalFacts, Owner, TypeInv, RenewalSet, PhoneSet
<1>8. TokensAreTheAccounts'
  BY DEF TokensAreTheAccounts, Owner, TypeInv, StoreSet, PhoneSet
<1>9. ShownDataIsTheAccounts'
  BY DEF ShownDataIsTheAccounts, TypeInv, PhoneSet
<1> QED  BY <1>1, <1>2, <1>3, <1>4, <1>5, <1>6, <1>7, <1>8, <1>9

LEMMA RenewalFailsStep ==
  ASSUME SessionConstants, SessionInv, NEW r \in Renewals, RenewalFails(r) PROVE SessionInv'
<1> USE Constants DEF SessionInv, RenewalFails, Wake
<1>1. TypeInv'
  BY DEF TypeInv, PhoneSet, JobSet, RenewalSet, SessionConstants
<1>2. Held'
  BY DEF Held, Opened, TypeInv, JobSet, RenewalSet
<1>3. Generations'
  BY DEF Generations, TypeInv, PhoneSet
<1>4. ScreenFacts'
  BY DEF ScreenFacts, TypeInv, PhoneSet
<1>5. SignFacts'
  BY DEF SignFacts, Owner, Holding, TypeInv, PhoneSet
<1>6. JobFacts'
  BY DEF JobFacts, Owner, TypeInv, JobSet, PhoneSet
<1>7. RenewalFacts'
  BY DEF RenewalFacts, Owner, TypeInv, RenewalSet, PhoneSet
<1>8. TokensAreTheAccounts'
  BY DEF TokensAreTheAccounts, Owner, TypeInv, PhoneSet
<1>9. ShownDataIsTheAccounts'
  BY DEF ShownDataIsTheAccounts, TypeInv, PhoneSet
<1> QED  BY <1>1, <1>2, <1>3, <1>4, <1>5, <1>6, <1>7, <1>8, <1>9

-----------------------------------------------------------------------------
(* Signing out, and what happens to a session by itself.                   *)

LEMMA LogoutStep ==
  ASSUME SessionConstants, SessionInv, Logout PROVE SessionInv'
<1> USE DEF SessionInv, Logout, NewGeneration, SignedOut
<1>1. TypeInv'
  BY DEF TypeInv, PhoneSet, SessionConstants
<1>2. Generations'
  BY DEF Generations, TypeInv, PhoneSet
<1>3. ScreenFacts'
  BY DEF ScreenFacts, TypeInv, PhoneSet
<1>4. SignFacts'
  BY DEF SignFacts, Owner, Holding, TypeInv, PhoneSet
<1>5. JobFacts'
  BY DEF JobFacts, Owner, TypeInv, PhoneSet
<1>6. RenewalFacts'
  BY DEF RenewalFacts, Owner, TypeInv, PhoneSet
<1>7. TokensAreTheAccounts'
  BY DEF TokensAreTheAccounts, Owner, TypeInv, PhoneSet
<1>8. ShownDataIsTheAccounts'
  BY DEF ShownDataIsTheAccounts, TypeInv, PhoneSet
<1>9. Held'
  BY DEF Held, Opened
<1> QED  BY <1>1, <1>2, <1>3, <1>4, <1>5, <1>6, <1>7, <1>8, <1>9

LEMMA LogoutClearsStep ==
  ASSUME SessionConstants, SessionInv, LogoutClears PROVE SessionInv'
<1> USE Constants DEF SessionInv, LogoutClears
<1>1. TypeInv'
  BY DEF TypeInv, StoreSet, PhoneSet, SessionConstants
<1>2. Held'
  BY DEF Held, Opened, TypeInv, StoreSet
<1>3. Generations'
  BY DEF Generations, TypeInv, PhoneSet
<1>4. ScreenFacts'
  BY DEF ScreenFacts, TypeInv, PhoneSet
<1>5. SignFacts'
  BY DEF SignFacts, Owner, Holding, TypeInv, PhoneSet, StoreSet
<1>6. JobFacts'
  BY DEF JobFacts, Owner, TypeInv, PhoneSet
<1>7. RenewalFacts'
  BY DEF RenewalFacts, Owner, TypeInv, PhoneSet
<1>8. TokensAreTheAccounts'
  BY DEF TokensAreTheAccounts, Owner, TypeInv, StoreSet, PhoneSet
<1>9. ShownDataIsTheAccounts'
  BY DEF ShownDataIsTheAccounts, TypeInv, PhoneSet
<1> QED  BY <1>1, <1>2, <1>3, <1>4, <1>5, <1>6, <1>7, <1>8, <1>9

LEMMA LogoutRevokesStep ==
  ASSUME SessionConstants, SessionInv, LogoutRevokes PROVE SessionInv'
<1> USE DEF SessionInv, LogoutRevokes
<1>1. TypeInv'
  <2>1. server' \in [owner : Seq(Accounts), live : SUBSET Sessions]
    BY DEF TypeInv
  <2>2. handset' = [handset EXCEPT !.logout = "none", !.revoked = 0]
    OBVIOUS
  <2>3. handset \in PhoneSet /\ 0 \in 0..MaxSessions
    BY DEF TypeInv, SessionConstants
  <2>4. handset' \in PhoneSet
    BY ONLY <2>2, <2>3 DEF PhoneSet
  <2> QED  BY <2>1, <2>4 DEF TypeInv
<1>2. Held'
  BY DEF Held, Opened, TypeInv
<1>3. Generations'
  BY DEF Generations, TypeInv, PhoneSet
<1>4. ScreenFacts'
  BY DEF ScreenFacts, TypeInv, PhoneSet
<1>5. SignFacts'
  BY DEF SignFacts, Owner, Holding, TypeInv, PhoneSet, Held, Opened
<1>6. JobFacts'
  BY DEF JobFacts, Owner, TypeInv, PhoneSet, Held, Opened
<1>7. RenewalFacts'
  BY DEF RenewalFacts, Owner, TypeInv, PhoneSet, Held, Opened
<1>8. TokensAreTheAccounts'
  BY DEF TokensAreTheAccounts, Owner, TypeInv, PhoneSet, Held, Opened
<1>9. ShownDataIsTheAccounts'
  BY DEF ShownDataIsTheAccounts, TypeInv, PhoneSet
<1> QED  BY <1>1, <1>2, <1>3, <1>4, <1>5, <1>6, <1>7, <1>8, <1>9

LEMMA AccessExpiresStep ==
  ASSUME SessionConstants, SessionInv, AccessExpires PROVE SessionInv'
<1> USE DEF SessionInv, AccessExpires
<1>1. TypeInv'
  BY DEF TypeInv, StoreSet
<1>2. Held'
  BY DEF Held, Opened, TypeInv, StoreSet
<1>3. SignFacts'
  BY DEF SignFacts, Owner, Holding, TypeInv, StoreSet
<1>4. TokensAreTheAccounts'
  BY DEF TokensAreTheAccounts, Owner, TypeInv, StoreSet
<1>5. Generations' /\ ScreenFacts' /\ JobFacts' /\ RenewalFacts' /\
     ShownDataIsTheAccounts'
  BY DEF Generations, ScreenFacts, JobFacts, RenewalFacts, ShownDataIsTheAccounts, Owner
<1> QED  BY <1>1, <1>2, <1>3, <1>4, <1>5

LEMMA SessionEndsStep ==
  ASSUME SessionConstants, SessionInv, SessionEnds PROVE SessionInv'
<1> USE DEF SessionInv, SessionEnds
<1>1. TypeInv'
  BY DEF TypeInv, Sessions, SessionConstants
<1>2. Held'
  BY DEF Held, Opened, TypeInv
<1>3. SignFacts'
  BY DEF SignFacts, Owner, Holding, TypeInv, Held, Opened
<1>4. JobFacts'
  BY DEF JobFacts, Owner, TypeInv, Held, Opened
<1>5. RenewalFacts'
  BY DEF RenewalFacts, Owner, TypeInv, Held, Opened
<1>6. TokensAreTheAccounts'
  BY DEF TokensAreTheAccounts, Owner, TypeInv, Held, Opened
<1>7. Generations' /\ ScreenFacts' /\ ShownDataIsTheAccounts'
  BY DEF Generations, ScreenFacts, ShownDataIsTheAccounts
<1> QED  BY <1>1, <1>2, <1>3, <1>4, <1>5, <1>6, <1>7

LEMMA RestartStep ==
  ASSUME SessionConstants, SessionInv, Restart PROVE SessionInv'
<1> USE Constants DEF SessionInv, Restart, NewGeneration
<1>1. PICK p : p = ColdStart
  OBVIOUS
<1>2. /\ p \in PhoneSet /\ p.screen = "boot" /\ p.active = Nobody /\ p.shown = Nobody
  BY <1>1 DEF ColdStart
<1>3. handset' = [p EXCEPT !.restarts = handset.restarts + 1]
  BY <1>1
<1>4. handset.restarts + 1 \in 0..MaxRestarts
  BY DEF TypeInv, PhoneSet, SessionConstants
<1>5. /\ handset' \in PhoneSet
      /\ handset'.screen = "boot" /\ handset'.active = Nobody /\ handset'.shown = Nobody
  BY ONLY <1>2, <1>3, <1>4 DEF PhoneSet
<1>6. TypeInv'
  <2>1. /\ sign' \in [Signs -> SignSet] /\ job' \in [Jobs -> JobSet]
        /\ renewal' \in [Renewals -> RenewalSet]
    OBVIOUS
  <2> QED  BY <1>5, <2>1 DEF TypeInv
<1>7. Held'
  BY DEF Held, Opened, TypeInv, SignSet, JobSet, RenewalSet
<1>8. Generations'
  BY DEF Generations, TypeInv, PhoneSet
<1>9. ScreenFacts'
  BY <1>5 DEF ScreenFacts
<1>10. SignFacts'
  BY DEF SignFacts, Owner, Holding, TypeInv, SignSet, PhoneSet
<1>11. JobFacts'
  BY DEF JobFacts, Owner, TypeInv, JobSet, PhoneSet
<1>12. RenewalFacts'
  BY DEF RenewalFacts, Owner, TypeInv, RenewalSet, PhoneSet
<1>13. TokensAreTheAccounts'
  BY <1>5 DEF TokensAreTheAccounts, Owner
<1>14. ShownDataIsTheAccounts'
  BY <1>5 DEF ShownDataIsTheAccounts
<1> QED  BY <1>6, <1>7, <1>8, <1>9, <1>10, <1>11, <1>12, <1>13, <1>14

LEMMA SessionContinues ==
  ASSUME SessionConstants, SessionInv, [SessionNext]_sessionVars PROVE SessionInv'
<1>1. CASE UNCHANGED sessionVars
  <2> USE <1>1 DEF SessionInv, sessionVars
  <2>1. TypeInv' /\ Held' /\ Generations' /\ ScreenFacts'
    BY DEF TypeInv, Held, Opened, Generations, ScreenFacts
  <2>2. SignFacts' /\ JobFacts' /\ RenewalFacts'
    BY DEF SignFacts, JobFacts, RenewalFacts, Owner
  <2>3. TokensAreTheAccounts' /\ ShownDataIsTheAccounts'
    BY DEF TokensAreTheAccounts, ShownDataIsTheAccounts, Owner
  <2> QED  BY <2>1, <2>2, <2>3
<1>2. ASSUME NEW i \in Signs,
             Submit(i) \/ ServeSignIn(i) \/ TokensArrive(i) \/ LoadAccount(i) \/
             AccountArrives(i) \/ StoreAccount(i) \/ Activate(i) \/ SignFails(i)
      PROVE  SessionInv'
  BY <1>2, SubmitStep, ServeSignInStep, TokensArriveStep, LoadAccountStep,
     AccountArrivesStep, StoreAccountStep, ActivateStep, SignFailsStep
<1>3. ASSUME NEW j \in Jobs,
             StartJob(j) \/ Token(j) \/ ServeJob(j) \/ RetryJob(j) \/
             JobAnswered(j) \/ AccountDeleted(j) \/ DatabaseErased(j) \/
             JobFails(j)
      PROVE  SessionInv'
  BY <1>3, StartJobStep, TokenStep, ServeJobStep, RetryJobStep, JobAnsweredStep,
     AccountDeletedStep, DatabaseErasedStep, JobFailsStep
<1>4. ASSUME NEW r \in Renewals,
             ServeRenewal(r) \/ Renewed(r) \/ SessionRejected(r) \/ RenewalFails(r)
      PROVE  SessionInv'
  BY <1>4, ServeRenewalStep, RenewedStep, SessionRejectedStep, RenewalFailsStep
<1>5. CASE Boot \/ Logout \/ LogoutClears \/ LogoutRevokes \/ AccessExpires \/ SessionEnds
           \/ Restart
  BY <1>5, BootStep, LogoutStep, LogoutClearsStep, LogoutRevokesStep, AccessExpiresStep,
     SessionEndsStep, RestartStep
<1> QED  BY <1>1, <1>2, <1>3, <1>4, <1>5 DEF SessionNext

-----------------------------------------------------------------------------
\* The inductive invariant.
THEOREM SessionInvariance == SessionConstants => (SessionSpec => []SessionInv)
<1> SUFFICES ASSUME SessionConstants PROVE SessionSpec => []SessionInv
  OBVIOUS
<1>1. SessionInit => SessionInv
  BY SessionBegins
<1>2. SessionInv /\ [SessionNext]_sessionVars => SessionInv'
  BY SessionContinues
<1> QED  BY <1>1, <1>2, PTL DEF SessionSpec

\* Whatever calls, refreshes and sign-ins of earlier generations are still to be
\* answered (sessionScope.ts, client.ts), the stored tokens are of the account they
\* are kept with and of the one that is active, and its screens show its own data;
\* with the exceptions the property names.
THEOREM AccountsStayApart ==
  SessionConstants => (SessionSpec => []SessionsAreTheAccounts)
<1> SUFFICES ASSUME SessionConstants PROVE SessionSpec => []SessionsAreTheAccounts
  OBVIOUS
<1>1. SessionInv => SessionsAreTheAccounts
  BY DEF SessionInv, SessionsAreTheAccounts
<1> QED  BY <1>1, SessionInvariance, PTL

-----------------------------------------------------------------------------
(* Recording.                                                              *)

RowSet == [file : Nat, offset : Nat]
AudioRows == [file : Nat, offset : Nat, copy : {1, 2}]
Awaits == {"idle", "asked", "wait", "stop", "enqueue", "clear", "permission", "prepare",
           "save", "record", "finish"}
CaptureSet == [showing : {"none", "active", "ended"}, elapsed : Nat, session : RowSet,
               queue : SUBSET AudioRows]
ScreenSet == [open : BOOLEAN,
              phase : {"idle", "preparing", "recording", "interrupted", "stopping",
                       "stopped", "error"},
              started : Nat, recovery : {"pending", "found", "ready", "failed"},
              found : RowSet, deaths : Nat]
RecorderSet == [file : Nat, on : BOOLEAN]
TapeSet == [opened : Nat, recorded : SUBSET Nat, gone : SUBSET Nat]
ProcSet == [Processes -> [at : Awaits, offset : Nat]]
CameraSet == [mode : {"closed", "photo", "video", "filming"},
              shot : [Shots -> {"none", "photo", "film"}], late : BOOLEAN]
RoughSet == [audio : {"kept", "repeated", "lost"}, hurried : BOOLEAN]

\* The types, without the bounds.
RecordingShape ==
  /\ capture \in CaptureSet /\ screen \in ScreenSet /\ recorder \in RecorderSet
  /\ tape \in TapeSet /\ proc \in ProcSet /\ camera \in CameraSet /\ rough \in RoughSet

\* Before the showing begins there is nothing; once it ended the screen is closed, and a
\* closed screen holds no recorder.
Outside ==
  /\ capture.showing = "none" =>
       /\ ~screen.open /\ At("start", "idle") /\ At("end", "idle")
       /\ capture.session = NoSession /\ capture.queue = {} /\ tape.recorded = {}
  /\ capture.showing = "ended" => ~screen.open
  /\ ~screen.open => screen.recovery = "ready" /\ recorder.file = 0

\* While the segment of a life before is looked for, nothing else touches its row.
Recovering ==
  /\ screen.recovery # "ready" => ~Starting /\ ~Ending /\ recorder.file = 0
  /\ screen.recovery = "found" => screen.found = capture.session /\ capture.session # NoSession

\* Files are numbered as they are opened.
FileFacts ==
  /\ capture.session = NoSession \/ capture.session.file # 0
  /\ capture.session.file <= tape.opened /\ recorder.file <= tape.opened
  /\ \A q \in capture.queue : q.file # 0 /\ q.file <= tape.opened
  /\ \A f \in tape.recorded : f # 0
  /\ proc["start"].at \in {"save", "record"} /\ screen.open => recorder.file # 0

\* Unless they overlap, startSegment and finishShowing find the session row naming the
\* recorder's file, and clear it when that file is queued.
SessionFacts ==
  rough.audio # "lost" =>
    /\ ~(Starting /\ Ending)
    /\ screen.open /\ screen.recovery = "ready" =>
         capture.session.file \in {0, recorder.file}
    /\ proc["start"].at \in {"permission", "prepare", "save"} => capture.session.file = 0
    /\ At("start", "record") /\ screen.open => capture.session.file = recorder.file
    /\ At("end", "finish") => capture.session.file = 0
    /\ \A p \in Processes :
         At(p, "clear") /\ capture.session.file \in tape.recorded \ tape.gone =>
           Has(capture.session.file) # {}

\* Unless one failed half-way, a file is queued by the one that closes its segment, under
\* the offset its session row has.
OffsetFacts ==
  rough.audio = "kept" =>
    /\ recorder.file # 0 /\ Has(recorder.file) # {} =>
         \/ proc["start"].at \in {"clear", "permission", "prepare"}
         \/ proc["end"].at \in {"clear", "finish"}
    /\ \A q \in Has(capture.session.file) : q.offset = capture.session.offset
    /\ proc["start"].at \in {"save", "record"} /\ screen.open => ~recorder.on
    /\ At("start", "record") /\ screen.open => capture.session.offset = capture.elapsed
    /\ screen.open /\ screen.recovery = "ready" /\ capture.session.file # 0
         /\ ~At("start", "record") => screen.started = capture.session.offset
    /\ screen.open /\ proc["start"].at \in {"stop", "enqueue"} =>
         proc["start"].offset = screen.started
    /\ screen.open /\ proc["end"].at \in {"asked", "wait", "stop", "enqueue"} =>
         proc["end"].offset = screen.started

\* Unless hurried, the showing ends after the last shot.
ShotFacts ==
  /\ capture.showing = "none" => ShotsTaken = {}
  /\ ~screen.open => camera.mode = "closed"
  /\ ~rough.hurried =>
       /\ camera.mode = "closed" /\ screen.open => ShotsTaken = {}
       /\ ~At("end", "idle") => camera.mode = "closed" /\ ShotsTaken = {}
       /\ capture.showing = "ended" => ShotsTaken = {}

AudioInv ==
  /\ Outside /\ Recovering /\ FileFacts /\ SessionFacts /\ OffsetFacts
  /\ RecordedIsKept /\ RecordedIsQueuedOnce

RecordingInv == RecordingShape /\ AudioInv /\ ShotFacts /\ CapturesPrecedeTheEnd

LEMMA RecordingBegins == ASSUME RecordingInit PROVE RecordingInv
<1>1. RecordingShape
  <2>1. NoSession \in RowSet
    BY DEF NoSession, RowSet
  <2>2. capture \in CaptureSet /\ screen \in ScreenSet
    BY <2>1 DEF RecordingInit, CaptureSet, ScreenSet, Home
  <2>3. recorder \in RecorderSet /\ tape \in TapeSet /\ rough \in RoughSet
    BY DEF RecordingInit, RecorderSet, NoRecorder, TapeSet, RoughSet
  <2>4. proc \in ProcSet
    BY DEF RecordingInit, ProcSet, Idle, Awaits
  <2>5. camera \in CameraSet
    BY DEF RecordingInit, CameraSet, NoCamera
  <2> QED  BY <2>2, <2>3, <2>4, <2>5 DEF RecordingShape
<1>2. /\ capture.showing = "none" /\ capture.session = NoSession /\ capture.queue = {}
      /\ ~screen.open /\ screen.recovery = "ready" /\ recorder.file = 0
      /\ tape.recorded = {} /\ tape.opened = 0
      /\ proc["start"].at = "idle" /\ proc["end"].at = "idle"
  BY DEF RecordingInit, Home, NoRecorder, Processes, Idle
<1>3. /\ ShotsTaken = {} /\ camera.mode = "closed" /\ ~camera.late
  BY DEF RecordingInit, NoCamera, ShotsTaken
<1>4. Outside /\ Recovering /\ FileFacts
  BY <1>2 DEF Outside, Recovering, FileFacts, At, NoSession
<1>5. SessionFacts /\ OffsetFacts /\ RecordedIsKept /\ RecordedIsQueuedOnce
  BY <1>2 DEF SessionFacts, OffsetFacts, RecordedIsKept, RecordedIsQueuedOnce, At, Starting,
              Ending, Closing, Has, Processes, NoSession
<1>6. ShotFacts /\ CapturesPrecedeTheEnd
  BY <1>3 DEF ShotFacts, CapturesPrecedeTheEnd
<1> QED  BY <1>1, <1>4, <1>5, <1>6 DEF RecordingInv, AudioInv

\* A process goes on, or begins anew.
LEMMA Goes ==
  ASSUME proc \in ProcSet, NEW p \in Processes, NEW step \in Awaits
  PROVE  /\ To(p, step) \in ProcSet /\ To(p, step)[p].at = step
         /\ To(p, step)[p].offset = proc[p].offset
         /\ \A q \in Processes : q # p => To(p, step)[q] = proc[q]
BY DEF To, ProcSet

LEMMA Anew ==
  ASSUME proc \in ProcSet, NEW p \in Processes, NEW step \in Awaits, NEW offset \in Nat,
         proc' = [proc EXCEPT ![p] = [at |-> step, offset |-> offset]]
  PROVE  /\ proc' \in ProcSet /\ proc'[p].at = step /\ proc'[p].offset = offset
         /\ \A q \in Processes : q # p => proc'[q] = proc[q]
BY DEF ProcSet

LEMMA Roughly ==
  ASSUME rough \in RoughSet
  PROVE  /\ MayRepeat \in RoughSet /\ MayLose \in RoughSet /\ Hurried \in RoughSet
         /\ MayRepeat.audio # "kept" /\ (MayRepeat.audio = "lost" <=> rough.audio = "lost")
         /\ MayLose.audio = "lost" /\ Hurried.audio = rough.audio
         /\ MayRepeat.hurried = rough.hurried /\ MayLose.hurried = rough.hurried
         /\ Hurried.hurried = TRUE
BY DEF RoughSet, MayRepeat, MayLose, Hurried

\* Nothing about the camera changes.
LEMMA ShotsStay ==
  ASSUME RecordingInv, UNCHANGED camera, rough'.hurried = rough.hurried,
         capture'.showing = capture.showing, screen'.open = screen.open,
         At("end", "idle")' \/ ~At("end", "idle")
  PROVE  ShotFacts' /\ CapturesPrecedeTheEnd'
BY DEF RecordingInv, ShotFacts, CapturesPrecedeTheEnd, ShotsTaken

\* Nothing about the audio changes.
LEMMA AudioStays ==
  ASSUME RecordingInv, UNCHANGED <<capture, screen, recorder, tape, proc>>,
         rough'.audio = rough.audio
  PROVE  AudioInv'
<1>1. Outside' /\ Recovering' /\ FileFacts'
  BY DEF RecordingInv, AudioInv, Outside, Recovering, FileFacts, At, Starting, Ending
<1>2. SessionFacts' /\ OffsetFacts'
  BY DEF RecordingInv, AudioInv, SessionFacts, OffsetFacts, At, Starting, Ending, Has
<1>3. RecordedIsKept' /\ RecordedIsQueuedOnce'
  BY DEF RecordingInv, AudioInv, RecordedIsKept, RecordedIsQueuedOnce, Has
<1> QED  BY <1>1, <1>2, <1>3 DEF AudioInv

-----------------------------------------------------------------------------
(* A segment starts.                                                       *)

LEMMA KeepsBegin == ASSUME RecordingInv, Begin PROVE RecordingInv'
<1>1. /\ RecordingShape /\ capture.showing = "none" /\ ~screen.open
      /\ UNCHANGED <<recorder, tape, camera, rough>>
      /\ proc' = To("start", "permission") /\ "start" \in Processes
      /\ capture' = [capture EXCEPT !.showing = "active"]
      /\ screen' = [screen EXCEPT !.open = TRUE, !.phase = "preparing"]
  BY DEF RecordingInv, Begin, Processes
<1>2. /\ proc["start"].at = "idle" /\ proc["end"].at = "idle" /\ screen.recovery = "ready"
      /\ capture.session = NoSession /\ capture.queue = {} /\ tape.recorded = {}
      /\ recorder.file = 0
  BY <1>1 DEF RecordingInv, AudioInv, Outside, At
<1>3. /\ proc' \in ProcSet /\ proc'["start"].at = "permission" /\ proc'["end"].at = "idle"
  BY <1>1, <1>2, Goes DEF RecordingShape, Awaits, Processes
<1>4. /\ capture' \in CaptureSet /\ capture'.showing = "active"
      /\ capture'.session = capture.session /\ capture'.queue = capture.queue
      /\ screen' \in ScreenSet /\ screen'.open /\ screen'.recovery = screen.recovery
  BY <1>1 DEF RecordingShape, CaptureSet, ScreenSet
<1>5. RecordingShape'
  BY <1>1, <1>3, <1>4 DEF RecordingShape
<1>6. Outside' /\ Recovering' /\ FileFacts'
  BY <1>1, <1>2, <1>3, <1>4
     DEF RecordingInv, AudioInv, Outside, Recovering, FileFacts, NoSession
<1>7. SessionFacts' /\ OffsetFacts' /\ RecordedIsKept' /\ RecordedIsQueuedOnce'
  BY <1>1, <1>2, <1>3, <1>4
     DEF SessionFacts, OffsetFacts, RecordedIsKept, RecordedIsQueuedOnce, At, Starting,
         Ending, Closing, Has, Processes, NoSession
<1>8. ShotFacts' /\ CapturesPrecedeTheEnd'
  BY <1>1, <1>3, <1>4 DEF RecordingInv, ShotFacts, CapturesPrecedeTheEnd, ShotsTaken, At
<1> QED  BY <1>5, <1>6, <1>7, <1>8 DEF RecordingInv, AudioInv

LEMMA KeepsResume == ASSUME RecordingInv, Resume PROVE RecordingInv'
<1>1. /\ RecordingShape /\ screen.open /\ screen.recovery = "ready"
      /\ UNCHANGED <<capture, recorder, tape, camera>>
      /\ proc["start"].at = "idle" /\ proc["end"].at # "asked"
      /\ proc' = [proc EXCEPT !["start"] = [at |-> "stop", offset |-> screen.started]]
      /\ screen' = [screen EXCEPT !.phase = "preparing"]
      /\ rough' = IF Ending THEN MayLose ELSE rough
  BY DEF RecordingInv, Resume, At
<1>2. /\ screen' \in ScreenSet /\ screen'.open /\ screen'.recovery = "ready"
      /\ screen'.started = screen.started /\ screen.started \in Nat
  BY <1>1 DEF RecordingShape, ScreenSet
<1>3. /\ proc' \in ProcSet /\ proc'["start"].at = "stop"
      /\ proc'["start"].offset = screen.started /\ proc'["end"] = proc["end"]
  BY <1>1, <1>2, Anew DEF RecordingShape, Awaits, Processes
<1>4. /\ rough' \in RoughSet /\ rough'.hurried = rough.hurried
      /\ rough'.audio # "lost" => ~Ending /\ rough'.audio = rough.audio
  BY <1>1, Roughly DEF RecordingShape
<1>5. RecordingShape'
  BY <1>1, <1>2, <1>3, <1>4 DEF RecordingShape
<1>6. Outside' /\ Recovering' /\ FileFacts'
  BY <1>1, <1>2, <1>3 DEF RecordingInv, AudioInv, Outside, Recovering, FileFacts, At
<1>7. SessionFacts'
  BY <1>1, <1>2, <1>3, <1>4
     DEF RecordingInv, AudioInv, SessionFacts, At, Starting, Ending, Closing, Has, Processes
<1>8. OffsetFacts'
  BY <1>1, <1>2, <1>3, <1>4
     DEF RecordingInv, AudioInv, OffsetFacts, At, Ending, Closing, Has
<1>9. RecordedIsKept' /\ RecordedIsQueuedOnce'
  BY <1>1, <1>4 DEF RecordingInv, AudioInv, RecordedIsKept, RecordedIsQueuedOnce, Has
<1>10. ShotFacts' /\ CapturesPrecedeTheEnd'
  BY <1>1, <1>2, <1>3, <1>4, ShotsStay DEF At
<1> QED  BY <1>5, <1>6, <1>7, <1>8, <1>9, <1>10 DEF RecordingInv, AudioInv

LEMMA KeepsGranted == ASSUME RecordingInv, Granted PROVE RecordingInv'
<1>1. /\ RecordingShape /\ UNCHANGED <<capture, screen, recorder, tape, camera, rough>>
      /\ proc["start"].at = "permission" /\ proc' = To("start", "prepare")
  BY DEF RecordingInv, Granted, At
<1>2. /\ proc' \in ProcSet /\ proc'["start"].at = "prepare" /\ proc'["end"] = proc["end"]
  BY <1>1, Goes DEF RecordingShape, Awaits, Processes
<1>3. RecordingShape'
  BY <1>1, <1>2 DEF RecordingShape
<1>4. Outside' /\ Recovering' /\ FileFacts'
  BY <1>1, <1>2 DEF RecordingInv, AudioInv, Outside, Recovering, FileFacts, At, Starting,
                    Ending
<1>5. SessionFacts'
  BY <1>1, <1>2
     DEF RecordingInv, AudioInv, SessionFacts, At, Starting, Ending, Closing, Has, Processes
<1>6. OffsetFacts'
  BY <1>1, <1>2 DEF RecordingInv, AudioInv, OffsetFacts, At, Has
<1>7. RecordedIsKept' /\ RecordedIsQueuedOnce'
  BY <1>1 DEF RecordingInv, AudioInv, RecordedIsKept, RecordedIsQueuedOnce, Has
<1>8. ShotFacts' /\ CapturesPrecedeTheEnd'
  BY <1>1, <1>2, ShotsStay DEF At
<1> QED  BY <1>3, <1>4, <1>5, <1>6, <1>7, <1>8 DEF RecordingInv, AudioInv

\* The next file has no row yet.
LEMMA KeepsPrepare == ASSUME RecordingInv, Prepare PROVE RecordingInv'
<1>1. /\ RecordingShape /\ UNCHANGED <<capture, screen, camera, rough>> /\ screen.open
      /\ proc["start"].at = "prepare" /\ proc' = To("start", "save")
      /\ tape' = [tape EXCEPT !.opened = @ + 1]
      /\ recorder' = [file |-> tape.opened + 1, on |-> FALSE]
  BY DEF RecordingInv, Prepare, At
<1>2. /\ proc' \in ProcSet /\ proc'["start"].at = "save" /\ proc'["end"] = proc["end"]
  BY <1>1, Goes DEF RecordingShape, Awaits, Processes
<1>3. /\ tape' \in TapeSet /\ recorder' \in RecorderSet /\ tape.opened \in Nat
      /\ tape'.opened = tape.opened + 1 /\ tape'.recorded = tape.recorded
      /\ tape'.gone = tape.gone /\ recorder'.file = tape.opened + 1 /\ ~recorder'.on
  BY <1>1 DEF RecordingShape, TapeSet, RecorderSet
<1>4. /\ capture.session \in RowSet /\ capture.queue \subseteq AudioRows
      /\ recorder.file \in Nat
  BY <1>1 DEF RecordingShape, CaptureSet, RecorderSet
<1>5. RecordingShape'
  BY <1>1, <1>2, <1>3 DEF RecordingShape
<1>6. screen.recovery = "ready"
  BY <1>1 DEF RecordingInv, AudioInv, Recovering, Starting, At
<1>7. Outside' /\ Recovering'
  BY <1>1, <1>2, <1>3, <1>6 DEF RecordingInv, AudioInv, Outside, Recovering, At, Starting, Ending
<1>8. FileFacts'
  BY <1>1, <1>2, <1>3, <1>4 DEF RecordingInv, AudioInv, FileFacts, RowSet, AudioRows
<1>9. SessionFacts'
  BY <1>1, <1>2, <1>3
     DEF RecordingInv, AudioInv, SessionFacts, At, Starting, Ending, Closing, Has, Processes
<1>10. Has(recorder'.file) = {}
  BY <1>3, <1>4 DEF RecordingInv, AudioInv, FileFacts, Has, AudioRows
<1>11. OffsetFacts'
  <2>1. rough.audio = "kept" => capture.session.file = 0
    BY <1>1 DEF RecordingInv, AudioInv, SessionFacts
  <2> QED  BY <1>1, <1>2, <1>3, <1>10, <2>1
              DEF RecordingInv, AudioInv, OffsetFacts, At, Has
<1>12. RecordedIsKept' /\ RecordedIsQueuedOnce'
  BY <1>1, <1>3 DEF RecordingInv, AudioInv, RecordedIsKept, RecordedIsQueuedOnce, Has
<1>13. ShotFacts' /\ CapturesPrecedeTheEnd'
  BY <1>1, <1>2, ShotsStay DEF At
<1> QED  BY <1>5, <1>7, <1>8, <1>9, <1>11, <1>12, <1>13 DEF RecordingInv, AudioInv

LEMMA KeepsSave == ASSUME RecordingInv, SaveRecordingSession PROVE RecordingInv'
<1> DEFINE row == [file |-> recorder.file, offset |-> capture.elapsed]
<1>1. /\ RecordingShape /\ UNCHANGED <<screen, recorder, tape, camera, rough>>
      /\ screen.open /\ proc["start"].at = "save" /\ proc' = To("start", "record")
      /\ capture' = [capture EXCEPT !.session = row]
  BY DEF RecordingInv, SaveRecordingSession, At
<1>2. /\ proc' \in ProcSet /\ proc'["start"].at = "record" /\ proc'["end"] = proc["end"]
  BY <1>1, Goes DEF RecordingShape, Awaits, Processes
<1>3. row \in RowSet /\ row.file = recorder.file /\ row.offset = capture.elapsed
  BY <1>1 DEF RecordingShape, RecorderSet, CaptureSet, RowSet
<1> HIDE DEF row
<1>4. /\ capture' \in CaptureSet /\ capture'.session = row
      /\ capture'.queue = capture.queue /\ capture'.showing = capture.showing
      /\ capture'.elapsed = capture.elapsed
  BY <1>1, <1>3 DEF RecordingShape, CaptureSet
<1>5. RecordingShape'
  BY <1>1, <1>2, <1>4 DEF RecordingShape
<1>6. screen.recovery = "ready" /\ recorder.file # 0
  BY <1>1 DEF RecordingInv, AudioInv, Recovering, FileFacts, Starting, At
<1>7. Outside' /\ Recovering'
  BY <1>1, <1>2, <1>4, <1>6 DEF RecordingInv, AudioInv, Outside, Recovering, At
<1>8. FileFacts'
  BY <1>1, <1>2, <1>3, <1>4, <1>6 DEF RecordingInv, AudioInv, FileFacts
<1>9. SessionFacts'
  BY <1>1, <1>2, <1>3, <1>4
     DEF RecordingInv, AudioInv, SessionFacts, At, Starting, Ending, Closing, Processes
<1>10. OffsetFacts'
  <2>1. rough.audio = "kept" => Has(recorder.file) = {}
    BY <1>1, <1>6 DEF RecordingInv, AudioInv, SessionFacts, OffsetFacts, Starting, Ending,
                      Closing, At
  <2>2. Has(recorder.file)' = Has(recorder.file) /\ Has(capture.session.file)' = Has(recorder.file)
    BY <1>1, <1>3, <1>4 DEF Has
  <2> QED  BY <1>1, <1>2, <1>3, <1>4, <2>1, <2>2
              DEF RecordingInv, AudioInv, OffsetFacts, At
<1>11. RecordedIsKept' /\ RecordedIsQueuedOnce'
  <2>1. rough.audio # "lost" => capture.session.file = 0
    BY <1>1 DEF RecordingInv, AudioInv, SessionFacts
  <2> QED  BY <1>1, <1>4, <2>1
              DEF RecordingInv, AudioInv, FileFacts, RecordedIsKept, RecordedIsQueuedOnce, Has
<1>12. ShotFacts' /\ CapturesPrecedeTheEnd'
  BY <1>1, <1>2, <1>4, ShotsStay DEF At
<1> QED  BY <1>5, <1>7, <1>8, <1>9, <1>10, <1>11, <1>12 DEF RecordingInv, AudioInv

\* The file that is recorded to is the session row's.
LEMMA KeepsRecord == ASSUME RecordingInv, Record PROVE RecordingInv'
<1>1. /\ RecordingShape /\ UNCHANGED <<capture, camera>>
      /\ screen.open /\ proc["start"].at = "record" /\ proc' = To("start", "idle")
      /\ recorder' = [recorder EXCEPT !.on = TRUE]
      /\ tape' = [tape EXCEPT !.recorded = @ \cup {recorder.file}]
      /\ screen' = [screen EXCEPT !.phase = "recording", !.started = capture.elapsed]
      /\ rough' = IF proc["end"].at \in {"asked", "wait"} THEN MayRepeat ELSE rough
  BY DEF RecordingInv, Record, At
<1>2. /\ proc' \in ProcSet /\ proc'["start"].at = "idle" /\ proc'["end"] = proc["end"]
  BY <1>1, Goes DEF RecordingShape, Awaits, Processes
<1>3. /\ recorder' \in RecorderSet /\ tape' \in TapeSet /\ screen' \in ScreenSet
      /\ recorder'.file = recorder.file
      /\ tape'.opened = tape.opened /\ tape'.gone = tape.gone
      /\ tape'.recorded = tape.recorded \cup {recorder.file}
      /\ screen'.open /\ screen'.recovery = screen.recovery
      /\ screen'.started = capture.elapsed /\ screen'.found = screen.found
  BY <1>1 DEF RecordingShape, RecorderSet, TapeSet, ScreenSet, CaptureSet
<1>4. /\ rough' \in RoughSet /\ rough'.hurried = rough.hurried
      /\ rough'.audio = "lost" <=> rough.audio = "lost"
      /\ rough'.audio = "kept" => rough.audio = "kept"
                                  /\ proc["end"].at \notin {"asked", "wait"}
  BY <1>1, Roughly DEF RecordingShape
<1>5. RecordingShape'
  BY <1>1, <1>2, <1>3, <1>4 DEF RecordingShape
<1>6. screen.recovery = "ready" /\ recorder.file # 0
  BY <1>1 DEF RecordingInv, AudioInv, Recovering, FileFacts, Starting, At
<1>7. Outside' /\ Recovering' /\ FileFacts'
  BY <1>1, <1>2, <1>3, <1>6
     DEF RecordingInv, AudioInv, Outside, Recovering, FileFacts, At
<1>8. SessionFacts'
  BY <1>1, <1>2, <1>3, <1>4
     DEF RecordingInv, AudioInv, SessionFacts, At, Starting, Ending, Closing, Has, Processes
<1>9. OffsetFacts'
  BY <1>1, <1>2, <1>3, <1>4
     DEF RecordingInv, AudioInv, SessionFacts, OffsetFacts, At, Starting, Ending, Closing, Has
<1>10. RecordedIsKept' /\ RecordedIsQueuedOnce'
  <2>1. rough.audio # "lost" => capture.session.file = recorder.file
    BY <1>1 DEF RecordingInv, AudioInv, SessionFacts, At
  <2>2. capture.showing # "ended"
    BY <1>1 DEF RecordingInv, AudioInv, Outside
  <2> QED  BY <1>1, <1>3, <1>4, <2>1, <2>2
              DEF RecordingInv, AudioInv, RecordedIsKept, RecordedIsQueuedOnce, Has
<1>11. ShotFacts' /\ CapturesPrecedeTheEnd'
  BY <1>1, <1>2, <1>3, <1>4, ShotsStay DEF At
<1> QED  BY <1>5, <1>7, <1>8, <1>9, <1>10, <1>11 DEF RecordingInv, AudioInv

LEMMA KeepsStartFails == ASSUME RecordingInv, StartFails PROVE RecordingInv'
<1>1. /\ RecordingShape /\ UNCHANGED <<capture, recorder, tape, camera>>
      /\ proc["start"].at # "idle"
      /\ proc' = [proc EXCEPT !["start"] = [at |-> "idle", offset |-> 0]]
      /\ screen' = screen \/ screen' = [screen EXCEPT !.phase = "error"]
      /\ rough' = MayRepeat
  BY DEF RecordingInv, StartFails, Idle
<1>2. /\ proc' \in ProcSet /\ proc'["start"].at = "idle" /\ proc'["end"] = proc["end"]
  BY <1>1, Anew DEF RecordingShape, Awaits, Processes
<1>3. /\ screen' \in ScreenSet /\ screen'.open = screen.open
      /\ screen'.recovery = screen.recovery /\ screen'.found = screen.found
  BY <1>1 DEF RecordingShape, ScreenSet
<1>4. /\ rough' \in RoughSet /\ rough'.hurried = rough.hurried /\ rough'.audio # "kept"
      /\ rough'.audio = "lost" <=> rough.audio = "lost"
  BY <1>1, Roughly DEF RecordingShape
<1>5. RecordingShape'
  BY <1>1, <1>2, <1>3, <1>4 DEF RecordingShape
<1>6. Outside' /\ Recovering' /\ FileFacts'
  BY <1>1, <1>2, <1>3 DEF RecordingInv, AudioInv, Outside, Recovering, FileFacts, At,
                          Starting, Ending
<1>7. SessionFacts'
  BY <1>1, <1>2, <1>3, <1>4
     DEF RecordingInv, AudioInv, SessionFacts, At, Starting, Ending, Closing, Has, Processes
<1>8. OffsetFacts' /\ RecordedIsKept' /\ RecordedIsQueuedOnce'
  BY <1>1, <1>4 DEF RecordingInv, AudioInv, OffsetFacts, RecordedIsKept,
                    RecordedIsQueuedOnce, Has
<1>9. ShotFacts' /\ CapturesPrecedeTheEnd'
  BY <1>1, <1>2, <1>3, <1>4, ShotsStay DEF At
<1> QED  BY <1>5, <1>6, <1>7, <1>8, <1>9 DEF RecordingInv, AudioInv

\* No segment is being opened while one is recorded.
LEMMA KeepsTick == ASSUME RecordingInv, TickElapsed PROVE RecordingInv'
<1>1. /\ RecordingShape /\ UNCHANGED <<screen, recorder, tape, proc, camera, rough>>
      /\ screen.open /\ recorder.on
      /\ capture' = [capture EXCEPT !.elapsed = screen.started + 1]
  BY DEF RecordingInv, TickElapsed
<1>2. /\ capture' \in CaptureSet /\ capture'.session = capture.session
      /\ capture'.queue = capture.queue /\ capture'.showing = capture.showing
  BY <1>1 DEF RecordingShape, CaptureSet, ScreenSet
<1>3. RecordingShape'
  BY <1>1, <1>2 DEF RecordingShape
<1>4. Outside' /\ Recovering' /\ FileFacts'
  BY <1>1, <1>2 DEF RecordingInv, AudioInv, Outside, Recovering, FileFacts, At, Starting,
                    Ending
<1>5. SessionFacts'
  BY <1>1, <1>2 DEF RecordingInv, AudioInv, SessionFacts, At, Starting, Ending, Has
<1>6. OffsetFacts'
  BY <1>1, <1>2 DEF RecordingInv, AudioInv, OffsetFacts, At, Has
<1>7. RecordedIsKept' /\ RecordedIsQueuedOnce'
  BY <1>1, <1>2 DEF RecordingInv, AudioInv, RecordedIsKept, RecordedIsQueuedOnce, Has
<1>8. ShotFacts' /\ CapturesPrecedeTheEnd'
  BY <1>1, <1>2, ShotsStay DEF At
<1> QED  BY <1>3, <1>4, <1>5, <1>6, <1>7, <1>8 DEF RecordingInv, AudioInv

LEMMA KeepsInterrupted == ASSUME RecordingInv, Interrupted PROVE RecordingInv'
<1>1. /\ RecordingShape /\ UNCHANGED <<capture, tape, proc, camera, rough>>
      /\ screen' = [screen EXCEPT !.phase = "interrupted"]
      /\ \E on \in {FALSE, recorder.on} : recorder' = [recorder EXCEPT !.on = on]
  BY DEF RecordingInv, Interrupted
<1>2. /\ recorder' \in RecorderSet /\ recorder'.file = recorder.file
      /\ recorder'.on => recorder.on
  BY <1>1 DEF RecordingShape, RecorderSet
<1>3. /\ screen' \in ScreenSet /\ screen'.open = screen.open
      /\ screen'.recovery = screen.recovery /\ screen'.found = screen.found
      /\ screen'.started = screen.started
  BY <1>1 DEF RecordingShape, ScreenSet
<1>4. RecordingShape'
  BY <1>1, <1>2, <1>3 DEF RecordingShape
<1>5. Outside' /\ Recovering' /\ FileFacts'
  BY <1>1, <1>2, <1>3 DEF RecordingInv, AudioInv, Outside, Recovering, FileFacts, At,
                          Starting, Ending
<1>6. SessionFacts'
  BY <1>1, <1>2, <1>3 DEF RecordingInv, AudioInv, SessionFacts, At, Starting, Ending, Has
<1>7. OffsetFacts'
  BY <1>1, <1>2, <1>3 DEF RecordingInv, AudioInv, OffsetFacts, At, Has
<1>8. RecordedIsKept' /\ RecordedIsQueuedOnce'
  BY <1>1 DEF RecordingInv, AudioInv, RecordedIsKept, RecordedIsQueuedOnce, Has
<1>9. ShotFacts' /\ CapturesPrecedeTheEnd'
  BY <1>1, <1>3, ShotsStay DEF At
<1> QED  BY <1>4, <1>5, <1>6, <1>7, <1>8, <1>9 DEF RecordingInv, AudioInv

-----------------------------------------------------------------------------
(* closeSegment, on behalf of startSegment or of finishShowing.            *)

LEMMA KeepsStop ==
  ASSUME RecordingInv, NEW p \in Processes, StopRecorder(p) PROVE RecordingInv'
<1>1. /\ RecordingShape /\ UNCHANGED <<capture, screen, tape, camera, rough>>
      /\ proc[p].at = "stop" /\ proc' = To(p, "enqueue")
      /\ recorder' = [recorder EXCEPT !.on = FALSE]
  BY DEF RecordingInv, StopRecorder, At
<1>2. /\ proc' \in ProcSet /\ proc'[p].at = "enqueue" /\ proc'[p].offset = proc[p].offset
      /\ \A q \in Processes : q # p => proc'[q] = proc[q]
  BY <1>1, Goes DEF RecordingShape, Awaits
<1>3. recorder' \in RecorderSet /\ recorder'.file = recorder.file /\ ~recorder'.on
  BY <1>1 DEF RecordingShape, RecorderSet
<1>4. RecordingShape'
  BY <1>1, <1>2, <1>3 DEF RecordingShape
<1>5. p = "start" \/ p = "end"
  BY DEF Processes
<1>6. Outside' /\ Recovering' /\ FileFacts'
  BY <1>1, <1>2, <1>3, <1>5
     DEF RecordingInv, AudioInv, Outside, Recovering, FileFacts, At, Starting, Ending,
         Closing, Processes
<1>7. SessionFacts'
  BY <1>1, <1>2, <1>3, <1>5
     DEF RecordingInv, AudioInv, SessionFacts, At, Starting, Ending, Closing, Has, Processes
<1>8. OffsetFacts'
  BY <1>1, <1>2, <1>3, <1>5 DEF RecordingInv, AudioInv, OffsetFacts, At, Has, Processes
<1>9. RecordedIsKept' /\ RecordedIsQueuedOnce'
  BY <1>1 DEF RecordingInv, AudioInv, RecordedIsKept, RecordedIsQueuedOnce, Has
<1>10. ShotFacts' /\ CapturesPrecedeTheEnd'
  BY <1>1, <1>2, <1>5, ShotsStay DEF At, Processes
<1> QED  BY <1>4, <1>6, <1>7, <1>8, <1>9, <1>10 DEF RecordingInv, AudioInv

LEMMA Enqueued ==
  ASSUME NEW file \in Nat, NEW offset \in Nat, NEW queue \in SUBSET AudioRows
  PROVE  \E row \in AudioRows :
           /\ Enqueue(file, offset, queue) = queue \cup {row}
           /\ row.file = file /\ row.offset = offset
           /\ (\A q \in queue : q.file # file) => row.copy = 1
<1> DEFINE row == [file |-> file, offset |-> offset,
                   copy |-> IF \E q \in queue : q.file = file THEN 2 ELSE 1]
<1>1. row \in AudioRows
  BY DEF AudioRows
<1>2. Enqueue(file, offset, queue) = queue \cup {row}
  BY DEF Enqueue
<1>3. /\ row.file = file /\ row.offset = offset
      /\ (\A q \in queue : q.file # file) => row.copy = 1
  OBVIOUS
<1> HIDE DEF row
<1> QED  BY <1>1, <1>2, <1>3

\* What is queued is the segment of the session row, for the first time.
LEMMA KeepsEnqueue ==
  ASSUME RecordingInv, NEW p \in Processes, EnqueueMedia(p) PROVE RecordingInv'
<1>1. /\ RecordingShape /\ UNCHANGED <<screen, recorder, tape, camera, rough>>
      /\ screen.open /\ proc[p].at = "enqueue"
      /\ proc' = [proc EXCEPT ![p] = [at |-> "clear", offset |-> 0]]
  BY DEF RecordingInv, EnqueueMedia, At
<1>2. /\ proc' \in ProcSet /\ proc'[p].at = "clear"
      /\ \A q \in Processes : q # p => proc'[q] = proc[q]
  BY <1>1, Anew DEF RecordingShape, Awaits
<1>3. /\ p = "start" \/ p = "end"
      /\ proc[p].offset \in Nat /\ recorder.file \in Nat
      /\ capture.queue \in SUBSET AudioRows
  BY <1>1 DEF Processes, RecordingShape, ProcSet, RecorderSet, CaptureSet
<1>4. screen.recovery = "ready"
  BY <1>1, <1>3 DEF RecordingInv, AudioInv, Recovering, Starting, Ending, Closing, At
<1>5. /\ capture' \in CaptureSet /\ capture'.session = capture.session
      /\ capture'.showing = capture.showing /\ capture'.elapsed = capture.elapsed
      /\ \/ recorder.file = 0 \/ recorder.file \in tape.gone
         \/ \E q \in capture'.queue : q.file = recorder.file
      /\ \/ capture'.queue = capture.queue
         \/ /\ recorder.file # 0
            /\ \E row \in AudioRows :
                 /\ capture'.queue = capture.queue \cup {row}
                 /\ row.file = recorder.file /\ row.offset = proc[p].offset
                 /\ Has(recorder.file) = {} => row.copy = 1
  <2>1. CASE recorder.file = 0 \/ recorder.file \in tape.gone
    BY <1>1, <2>1 DEF EnqueueMedia, RecordingShape
  <2>2. CASE ~(recorder.file = 0 \/ recorder.file \in tape.gone)
    <3> DEFINE queue == Enqueue(recorder.file, proc[p].offset, capture.queue)
    <3>1. capture' = [capture EXCEPT !.queue = queue]
      BY <2>2 DEF EnqueueMedia
    <3>2. PICK row \in AudioRows :
            /\ queue = capture.queue \cup {row}
            /\ row.file = recorder.file /\ row.offset = proc[p].offset
            /\ (\A q \in capture.queue : q.file # recorder.file) => row.copy = 1
      BY <1>3, Enqueued
    <3> HIDE DEF queue
    <3>3. /\ capture' \in CaptureSet /\ capture'.session = capture.session
          /\ capture'.showing = capture.showing /\ capture'.elapsed = capture.elapsed
          /\ capture'.queue = queue
      BY <1>1, <1>3, <3>1, <3>2 DEF RecordingShape, CaptureSet
    <3>4. Has(recorder.file) = {} => row.copy = 1
      BY <3>2 DEF Has
    <3> QED  BY <2>2, <3>2, <3>3, <3>4
  <2> QED  BY <2>1, <2>2
<1>6. RecordingShape'
  BY <1>1, <1>2, <1>5 DEF RecordingShape
<1>7. Outside' /\ Recovering' /\ FileFacts'
  BY <1>1, <1>2, <1>3, <1>4, <1>5
     DEF RecordingInv, AudioInv, Outside, Recovering, FileFacts, At, Processes
<1>8. SessionFacts'
  <2> SUFFICES ASSUME rough.audio # "lost" PROVE SessionFacts'
    BY <1>1 DEF SessionFacts
  <2>1. capture.session.file \in {0, recorder.file}
    BY <1>1, <1>4 DEF RecordingInv, AudioInv, SessionFacts
  <2>2. capture.session.file \in tape.recorded \ tape.gone => Has(capture.session.file)' # {}
    BY <1>1, <1>5, <2>1 DEF RecordingInv, AudioInv, FileFacts, Has
  <2> QED  BY <1>1, <1>2, <1>3, <1>5, <2>2
              DEF RecordingInv, AudioInv, SessionFacts, At, Starting, Ending, Closing, Processes
<1>9. /\ rough.audio = "kept" /\ recorder.file # 0 => Has(recorder.file) = {}
      /\ rough.audio = "kept" /\ capture.session.file # 0 =>
           /\ proc[p].offset = capture.session.offset
           /\ capture.session.file = recorder.file
  BY <1>1, <1>3, <1>4
     DEF RecordingInv, AudioInv, SessionFacts, OffsetFacts, Starting, Ending, Closing, At
<1>10. OffsetFacts'
  <2> SUFFICES ASSUME rough.audio = "kept" PROVE OffsetFacts'
    BY <1>1 DEF OffsetFacts
  <2>1. \A q \in Has(capture.session.file)' : q.offset = capture.session.offset
    BY <1>3, <1>5, <1>9 DEF RecordingInv, AudioInv, FileFacts, OffsetFacts, Has, AudioRows
  <2> QED  BY <1>1, <1>2, <1>3, <1>4, <1>5, <2>1
              DEF RecordingInv, AudioInv, OffsetFacts, At, Processes
<1>11. RecordedIsKept' /\ RecordedIsQueuedOnce'
  BY <1>1, <1>5, <1>9 DEF RecordingInv, AudioInv, RecordedIsKept, RecordedIsQueuedOnce, Has
<1>12. ShotFacts' /\ CapturesPrecedeTheEnd'
  BY <1>1, <1>2, <1>3, <1>5, ShotsStay DEF At, Processes
<1> QED  BY <1>6, <1>7, <1>8, <1>10, <1>11, <1>12 DEF RecordingInv, AudioInv

LEMMA KeepsClear ==
  ASSUME RecordingInv, NEW p \in Processes, ClearRecordingSession(p) PROVE RecordingInv'
<1>1. /\ RecordingShape /\ UNCHANGED <<screen, recorder, tape, camera, rough>>
      /\ proc[p].at = "clear"
      /\ proc' = To(p, IF p = "start" THEN "permission" ELSE "finish")
      /\ capture' = [capture EXCEPT !.session = NoSession]
  BY DEF RecordingInv, ClearRecordingSession, At
<1>2. /\ proc' \in ProcSet
      /\ proc'[p].at = IF p = "start" THEN "permission" ELSE "finish"
      /\ \A q \in Processes : q # p => proc'[q] = proc[q]
  BY <1>1, Goes DEF RecordingShape, Awaits
<1>3. p = "start" \/ p = "end"
  BY DEF Processes
<1>4. /\ capture' \in CaptureSet /\ capture'.session = NoSession
      /\ capture'.session.file = 0
      /\ capture'.queue = capture.queue /\ capture'.showing = capture.showing
      /\ capture'.elapsed = capture.elapsed
  BY <1>1 DEF RecordingShape, CaptureSet, NoSession, RowSet
<1>5. RecordingShape'
  BY <1>1, <1>2, <1>4 DEF RecordingShape
<1>6. screen.recovery = "ready"
  BY <1>1, <1>3 DEF RecordingInv, AudioInv, Recovering, Starting, Ending, Closing, At
<1>7. tape.opened \in Nat /\ capture.queue \subseteq AudioRows
  BY <1>1 DEF RecordingShape, TapeSet, CaptureSet
<1>8. Outside' /\ Recovering' /\ FileFacts'
  BY <1>1, <1>2, <1>3, <1>4, <1>6, <1>7
     DEF RecordingInv, AudioInv, Outside, Recovering, FileFacts, At, Processes
<1>9. SessionFacts'
  <2>1. capture'.session.file \notin tape.recorded
    BY <1>4 DEF RecordingInv, AudioInv, FileFacts
  <2> QED  BY <1>1, <1>2, <1>3, <1>4, <2>1
              DEF RecordingInv, AudioInv, SessionFacts, At, Starting, Ending, Closing, Processes
<1>10. OffsetFacts'
  <2>1. Has(capture.session.file)' = {} /\ Has(recorder.file)' = Has(recorder.file)
    BY <1>1, <1>4 DEF RecordingInv, AudioInv, FileFacts, Has
  <2> QED  BY <1>1, <1>2, <1>3, <1>4, <2>1 DEF RecordingInv, AudioInv, SessionFacts,
              OffsetFacts, At, Starting, Ending, Closing, Processes
<1>11. RecordedIsKept' /\ RecordedIsQueuedOnce'
  <2>1. rough.audio # "lost" /\ capture.session.file \in tape.recorded \ tape.gone =>
          Has(capture.session.file) # {}
    BY <1>1 DEF RecordingInv, AudioInv, SessionFacts, At
  <2> QED  BY <1>1, <1>4, <2>1
              DEF RecordingInv, AudioInv, RecordedIsKept, RecordedIsQueuedOnce, Has
<1>12. ShotFacts' /\ CapturesPrecedeTheEnd'
  BY <1>1, <1>2, <1>3, <1>4, ShotsStay DEF At, Processes
<1> QED  BY <1>5, <1>8, <1>9, <1>10, <1>11, <1>12 DEF RecordingInv, AudioInv

-----------------------------------------------------------------------------
(* The end of the showing.                                                 *)

LEMMA KeepsEndAsked == ASSUME RecordingInv, PressEnd \/ AnswerAlert PROVE RecordingInv'
<1>1. /\ RecordingShape /\ UNCHANGED <<capture, screen, recorder, tape, camera, rough>>
      /\ screen.open
      /\ \/ /\ camera.mode = "closed" /\ proc["end"].at = "idle"
            /\ proc' = [proc EXCEPT !["end"] = [at |-> "asked", offset |-> screen.started]]
         \/ /\ proc["end"].at = "asked"
            /\ \/ proc' = To("end", "wait")
               \/ proc' = [proc EXCEPT !["end"] = [at |-> "idle", offset |-> 0]]
  BY DEF RecordingInv, PressEnd, AnswerAlert, At, Idle
<1>2. screen.started \in Nat
  BY <1>1 DEF RecordingShape, ScreenSet
<1>3. /\ proc' \in ProcSet /\ proc'["start"] = proc["start"]
      /\ proc["end"].at \in {"idle", "asked"} /\ proc'["end"].at \in {"idle", "asked", "wait"}
      /\ proc'["end"].at \in {"asked", "wait"} =>
           proc'["end"].offset \in {screen.started, proc["end"].offset}
      /\ proc'["end"].at \in {"asked", "wait"} /\ proc["end"].at = "idle" =>
           proc'["end"].offset = screen.started /\ camera.mode = "closed"
  <2>1. CASE proc["end"].at = "idle"
    BY <1>1, <1>2, <2>1, Anew DEF RecordingShape, Awaits, Processes
  <2>2. CASE proc' = To("end", "wait") /\ proc["end"].at = "asked"
    BY <1>1, <2>2, Goes DEF RecordingShape, Awaits, Processes
  <2>3. CASE /\ proc' = [proc EXCEPT !["end"] = [at |-> "idle", offset |-> 0]]
             /\ proc["end"].at = "asked"
    BY <1>1, <2>3, Anew DEF RecordingShape, Awaits, Processes
  <2> QED  BY <1>1, <2>1, <2>2, <2>3
<1>4. RecordingShape'
  BY <1>1, <1>3 DEF RecordingShape
<1>5. Outside' /\ Recovering' /\ FileFacts'
  BY <1>1, <1>3 DEF RecordingInv, AudioInv, Outside, Recovering, FileFacts, At, Starting,
                    Ending, Closing
<1>6. SessionFacts'
  BY <1>1, <1>3
     DEF RecordingInv, AudioInv, SessionFacts, At, Starting, Ending, Closing, Has, Processes
<1>7. OffsetFacts'
  BY <1>1, <1>3 DEF RecordingInv, AudioInv, OffsetFacts, At, Has
<1>8. RecordedIsKept' /\ RecordedIsQueuedOnce'
  BY <1>1 DEF RecordingInv, AudioInv, RecordedIsKept, RecordedIsQueuedOnce, Has
<1>9. ShotFacts' /\ CapturesPrecedeTheEnd'
  BY <1>1, <1>3 DEF RecordingInv, ShotFacts, CapturesPrecedeTheEnd, ShotsTaken, At
<1> QED  BY <1>4, <1>5, <1>6, <1>7, <1>8, <1>9 DEF RecordingInv, AudioInv

LEMMA KeepsRecovered == ASSUME RecordingInv, Recovered PROVE RecordingInv'
<1>1. /\ RecordingShape /\ UNCHANGED <<capture, recorder, tape, camera>>
      /\ proc["end"].at = "wait"
      /\ \/ /\ screen.recovery = "ready"
            /\ screen' = [screen EXCEPT !.phase = "stopping"]
            /\ proc' = To("end", "stop")
            /\ rough' = IF Starting THEN MayLose ELSE rough
         \/ /\ proc' = [proc EXCEPT !["end"] = [at |-> "idle", offset |-> 0]]
            /\ UNCHANGED <<screen, rough>>
  BY DEF RecordingInv, Recovered, At, Idle
<1>2. /\ screen' \in ScreenSet /\ screen'.open = screen.open
      /\ screen'.recovery = screen.recovery /\ screen'.found = screen.found
      /\ screen'.started = screen.started
  BY <1>1 DEF RecordingShape, ScreenSet
<1>3. /\ proc' \in ProcSet /\ proc'["start"] = proc["start"]
      /\ proc'["end"].at = "idle" \/
         (proc'["end"].at = "stop" /\ proc'["end"].offset = proc["end"].offset)
  <2>1. CASE proc' = To("end", "stop")
    BY <1>1, <2>1, Goes DEF RecordingShape, Awaits, Processes
  <2>2. CASE proc' = [proc EXCEPT !["end"] = [at |-> "idle", offset |-> 0]]
    BY <1>1, <2>2, Anew DEF RecordingShape, Awaits, Processes
  <2> QED  BY <1>1, <2>1, <2>2
<1>4. /\ rough' \in RoughSet /\ rough'.hurried = rough.hurried
      /\ rough'.audio # "lost" => rough'.audio = rough.audio
      /\ rough'.audio # "lost" /\ proc'["end"].at = "stop" => ~Starting
      /\ proc'["end"].at = "stop" => screen.recovery = "ready"
  <2>1. CASE /\ screen.recovery = "ready" /\ proc' = To("end", "stop")
             /\ rough' = IF Starting THEN MayLose ELSE rough
    BY <2>1, <1>1, Roughly DEF RecordingShape
  <2>2. CASE /\ proc' = [proc EXCEPT !["end"] = [at |-> "idle", offset |-> 0]]
             /\ UNCHANGED rough
    <3>1. proc'["end"].at = "idle"
      BY <2>2, <1>1, Anew DEF RecordingShape, Awaits, Processes
    <3> QED  BY <2>2, <3>1, <1>1 DEF RecordingShape
  <2> QED  BY <1>1, <2>1, <2>2
<1>5. RecordingShape'
  BY <1>1, <1>2, <1>3, <1>4 DEF RecordingShape
<1>6. Outside' /\ Recovering' /\ FileFacts'
  BY <1>1, <1>2, <1>3, <1>4
     DEF RecordingInv, AudioInv, Outside, Recovering, FileFacts, At, Starting, Ending, Closing
<1>7. SessionFacts'
  BY <1>1, <1>2, <1>3, <1>4
     DEF RecordingInv, AudioInv, SessionFacts, At, Starting, Ending, Closing, Has, Processes
<1>8. OffsetFacts'
  BY <1>1, <1>2, <1>3, <1>4 DEF RecordingInv, AudioInv, OffsetFacts, At, Has
<1>9. RecordedIsKept' /\ RecordedIsQueuedOnce'
  BY <1>1, <1>4 DEF RecordingInv, AudioInv, RecordedIsKept, RecordedIsQueuedOnce, Has
<1>10. ShotFacts' /\ CapturesPrecedeTheEnd'
  BY <1>1, <1>2, <1>3, <1>4, ShotsStay DEF At
<1> QED  BY <1>5, <1>6, <1>7, <1>8, <1>9, <1>10 DEF RecordingInv, AudioInv

\* Every segment is queued, and no shot is under way.
LEMMA KeepsFinish == ASSUME RecordingInv, Finish PROVE RecordingInv'
<1>1. /\ RecordingShape /\ UNCHANGED <<tape, rough>> /\ proc["end"].at = "finish"
      /\ capture' = [capture EXCEPT !.showing = "ended"]
      /\ screen' = Home(screen.deaths) /\ recorder' = NoRecorder
      /\ camera' = [camera EXCEPT !.mode = "closed"]
      /\ proc' = [proc EXCEPT !["end"] = [at |-> "idle", offset |-> 0]]
  BY DEF RecordingInv, Finish, At, Idle
<1>2. /\ capture' \in CaptureSet /\ capture'.session = capture.session
      /\ capture'.queue = capture.queue /\ capture'.showing = "ended"
      /\ recorder' \in RecorderSet /\ recorder'.file = 0 /\ tape.opened \in Nat
  BY <1>1 DEF RecordingShape, CaptureSet, RecorderSet, TapeSet, NoRecorder
<1>3. /\ screen' \in ScreenSet /\ ~screen'.open /\ screen'.recovery = "ready"
  BY <1>1 DEF RecordingShape, ScreenSet, Home, NoSession, RowSet
<1>4. /\ proc' \in ProcSet /\ proc'["end"].at = "idle" /\ proc'["start"] = proc["start"]
  BY <1>1, Anew DEF RecordingShape, Awaits, Processes
<1>5. /\ camera' \in CameraSet /\ camera'.mode = "closed" /\ camera'.shot = camera.shot
      /\ camera'.late = camera.late
  BY <1>1 DEF RecordingShape, CameraSet
<1>6. RecordingShape'
  BY <1>1, <1>2, <1>3, <1>4, <1>5 DEF RecordingShape
<1>7. Outside' /\ Recovering' /\ FileFacts'
  BY <1>1, <1>2, <1>3, <1>4 DEF RecordingInv, AudioInv, Outside, Recovering, FileFacts
<1>8. SessionFacts'
  BY <1>1, <1>2, <1>3, <1>4
     DEF RecordingInv, AudioInv, SessionFacts, At, Starting, Ending, Closing, Has, Processes
<1>9. OffsetFacts'
  BY <1>1, <1>2, <1>3, <1>4 DEF RecordingInv, AudioInv, OffsetFacts, Has
<1>10. RecordedIsKept' /\ RecordedIsQueuedOnce'
  <2>1. rough.audio # "lost" => capture.session.file = 0
    BY <1>1 DEF RecordingInv, AudioInv, SessionFacts, At
  <2> QED  BY <1>1, <1>2, <2>1 DEF RecordingInv, AudioInv, FileFacts, RecordedIsKept,
                                   RecordedIsQueuedOnce, Has
<1>11. ShotFacts' /\ CapturesPrecedeTheEnd'
  BY <1>1, <1>2, <1>3, <1>4, <1>5
     DEF RecordingInv, ShotFacts, CapturesPrecedeTheEnd, ShotsTaken, At
<1> QED  BY <1>6, <1>7, <1>8, <1>9, <1>10, <1>11 DEF RecordingInv, AudioInv

LEMMA KeepsEndFails == ASSUME RecordingInv, EndFails PROVE RecordingInv'
<1>1. /\ RecordingShape /\ UNCHANGED <<capture, screen, recorder, tape, camera>>
      /\ proc["end"].at # "idle"
      /\ proc' = [proc EXCEPT !["end"] = [at |-> "idle", offset |-> 0]]
      /\ rough' = MayRepeat
  BY DEF RecordingInv, EndFails, Idle
<1>2. /\ proc' \in ProcSet /\ proc'["end"].at = "idle" /\ proc'["start"] = proc["start"]
  BY <1>1, Anew DEF RecordingShape, Awaits, Processes
<1>3. /\ rough' \in RoughSet /\ rough'.hurried = rough.hurried /\ rough'.audio # "kept"
      /\ rough'.audio = "lost" <=> rough.audio = "lost"
  BY <1>1, Roughly DEF RecordingShape
<1>4. RecordingShape'
  BY <1>1, <1>2, <1>3 DEF RecordingShape
<1>5. Outside' /\ Recovering' /\ FileFacts'
  BY <1>1, <1>2 DEF RecordingInv, AudioInv, Outside, Recovering, FileFacts, At, Starting,
                    Ending, Closing
<1>6. SessionFacts'
  BY <1>1, <1>2, <1>3
     DEF RecordingInv, AudioInv, SessionFacts, At, Starting, Ending, Closing, Has, Processes
<1>7. OffsetFacts' /\ RecordedIsKept' /\ RecordedIsQueuedOnce'
  BY <1>1, <1>3 DEF RecordingInv, AudioInv, OffsetFacts, RecordedIsKept,
                    RecordedIsQueuedOnce, Has
<1>8. ShotFacts' /\ CapturesPrecedeTheEnd'
  BY <1>1, <1>2, <1>3, ShotsStay DEF At
<1> QED  BY <1>4, <1>5, <1>6, <1>7, <1>8 DEF RecordingInv, AudioInv

-----------------------------------------------------------------------------
(* The app dies, or its session expires; the recovery when it opens again. *)

LEMMA KeepsDeath == ASSUME RecordingInv, AppDies PROVE RecordingInv'
<1>1. /\ RecordingShape /\ UNCHANGED <<capture, rough>>
      /\ screen' = IF capture.showing = "active"
                   THEN [open |-> TRUE, phase |-> "interrupted", started |-> capture.elapsed,
                         recovery |-> "pending", found |-> NoSession,
                         deaths |-> screen.deaths + 1]
                   ELSE Home(screen.deaths + 1)
      /\ \E gone \in SUBSET ({capture.session.file} \ {0}) :
           tape' = [tape EXCEPT !.gone = @ \cup gone]
      /\ recorder' = NoRecorder
      /\ proc' = [p \in Processes |-> [at |-> "idle", offset |-> 0]]
      /\ camera' = [NoCamera EXCEPT !.late = camera.late]
  BY DEF RecordingInv, AppDies, Idle
<1>2. /\ screen' \in ScreenSet
      /\ screen'.open <=> capture.showing = "active"
      /\ screen'.recovery = IF capture.showing = "active" THEN "pending" ELSE "ready"
  <2>1. NoSession \in RowSet /\ capture.elapsed \in Nat /\ screen.deaths + 1 \in Nat
    BY <1>1 DEF RecordingShape, NoSession, RowSet, CaptureSet, ScreenSet
  <2> QED  BY <1>1, <2>1 DEF ScreenSet, Home
<1>3. /\ tape' \in TapeSet /\ tape'.opened = tape.opened /\ tape'.recorded = tape.recorded
      /\ tape.gone \subseteq tape'.gone
  BY <1>1 DEF RecordingShape, TapeSet, CaptureSet, RowSet
<1>4. recorder' \in RecorderSet /\ recorder'.file = 0 /\ tape.opened \in Nat
  BY <1>1 DEF NoRecorder, RecorderSet, RecordingShape, TapeSet
<1>5. /\ proc' \in ProcSet /\ proc'["start"].at = "idle" /\ proc'["end"].at = "idle"
      /\ \A p \in Processes : proc'[p].at = "idle"
  BY <1>1 DEF ProcSet, Processes, Awaits
<1>6. /\ camera' \in CameraSet /\ camera'.mode = "closed" /\ camera'.late = camera.late
      /\ \A s \in Shots : camera'.shot[s] = "none"
  BY <1>1 DEF NoCamera, CameraSet, RecordingShape
<1>7. RecordingShape'
  BY <1>1, <1>2, <1>3, <1>4, <1>5, <1>6 DEF RecordingShape
<1>8. Outside' /\ Recovering' /\ FileFacts'
  BY <1>1, <1>2, <1>3, <1>4, <1>5
     DEF RecordingInv, AudioInv, Outside, Recovering, FileFacts, At, Starting, Ending, Closing
<1>9. SessionFacts' /\ OffsetFacts'
  BY <1>1, <1>2, <1>3, <1>4, <1>5
     DEF RecordingInv, AudioInv, SessionFacts, OffsetFacts, At, Starting, Ending, Closing, Has
<1>10. RecordedIsKept' /\ RecordedIsQueuedOnce'
  BY <1>1, <1>3 DEF RecordingInv, AudioInv, RecordedIsKept, RecordedIsQueuedOnce, Has
<1>11. ShotFacts' /\ CapturesPrecedeTheEnd'
  BY <1>1, <1>6 DEF RecordingInv, ShotFacts, CapturesPrecedeTheEnd, ShotsTaken
<1> QED  BY <1>7, <1>8, <1>9, <1>10, <1>11 DEF RecordingInv, AudioInv

\* A closed screen goes on with nothing but what clears the session row.
LEMMA KeepsExpiry == ASSUME RecordingInv, SessionExpires PROVE RecordingInv'
<1>1. /\ RecordingShape /\ UNCHANGED <<capture, tape, rough>> /\ screen.open
      /\ screen' = Home(screen.deaths) /\ recorder' = NoRecorder
      /\ camera' = [camera EXCEPT !.mode = "closed"]
      /\ \/ proc["end"].at \in {"asked", "wait"}
            /\ proc' = [proc EXCEPT !["end"] = [at |-> "idle", offset |-> 0]]
         \/ proc' = proc
  BY DEF RecordingInv, SessionExpires, Idle
<1>2. recorder' \in RecorderSet /\ recorder'.file = 0 /\ tape.opened \in Nat
  BY <1>1 DEF RecordingShape, RecorderSet, TapeSet, NoRecorder
<1>3. /\ screen' \in ScreenSet /\ ~screen'.open /\ screen'.recovery = "ready"
  BY <1>1 DEF RecordingShape, ScreenSet, Home, NoSession, RowSet
<1>4. /\ proc' \in ProcSet /\ proc'["start"] = proc["start"]
      /\ proc'["end"] = proc["end"] \/
         (proc'["end"].at = "idle" /\ proc["end"].at \in {"asked", "wait"})
  BY <1>1, Anew DEF RecordingShape, Awaits, Processes
<1>5. /\ camera' \in CameraSet /\ camera'.mode = "closed" /\ camera'.shot = camera.shot
      /\ camera'.late = camera.late
  BY <1>1 DEF RecordingShape, CameraSet
<1>6. RecordingShape'
  BY <1>1, <1>2, <1>3, <1>4, <1>5 DEF RecordingShape
<1>7. Outside' /\ Recovering' /\ FileFacts'
  BY <1>1, <1>2, <1>3, <1>4
     DEF RecordingInv, AudioInv, Outside, Recovering, FileFacts, At
<1>8. SessionFacts'
  BY <1>1, <1>2, <1>3, <1>4
     DEF RecordingInv, AudioInv, SessionFacts, At, Starting, Ending, Closing, Has, Processes
<1>9. OffsetFacts'
  BY <1>1, <1>2, <1>3, <1>4 DEF RecordingInv, AudioInv, OffsetFacts, Has
<1>10. RecordedIsKept' /\ RecordedIsQueuedOnce'
  BY <1>1 DEF RecordingInv, AudioInv, RecordedIsKept, RecordedIsQueuedOnce, Has
<1>11. ShotFacts' /\ CapturesPrecedeTheEnd'
  BY <1>1, <1>3, <1>4, <1>5
     DEF RecordingInv, AudioInv, Outside, ShotFacts, CapturesPrecedeTheEnd, ShotsTaken, At
<1> QED  BY <1>6, <1>7, <1>8, <1>9, <1>10, <1>11 DEF RecordingInv, AudioInv

LEMMA KeepsLooking == ASSUME RecordingInv, RecoverInterruptedSegment PROVE RecordingInv'
<1>1. /\ RecordingShape /\ UNCHANGED <<capture, recorder, tape, proc, camera, rough>>
      /\ screen.open /\ screen.recovery = "pending"
      /\ \/ /\ capture.session = NoSession
            /\ screen' = [screen EXCEPT !.recovery = "ready"]
         \/ screen' = [screen EXCEPT !.recovery = "failed", !.phase = "error"]
         \/ /\ capture.session # NoSession
            /\ screen' = [screen EXCEPT !.recovery = "found", !.found = capture.session]
  BY DEF RecordingInv, RecoverInterruptedSegment
<1>2. capture.session \in RowSet /\ NoSession.file = 0
  BY <1>1 DEF RecordingShape, CaptureSet, NoSession
<1>3. /\ screen' \in ScreenSet /\ screen'.open
      /\ screen'.recovery \in {"ready", "failed", "found"}
      /\ screen'.recovery = "ready" => capture.session.file = 0
      /\ screen'.recovery = "found" =>
           screen'.found = capture.session /\ capture.session # NoSession
      /\ screen'.started = screen.started
  BY <1>1, <1>2 DEF RecordingShape, ScreenSet
<1>4. ~Starting /\ ~Ending /\ recorder.file = 0
  BY <1>1 DEF RecordingInv, AudioInv, Recovering
<1>5. RecordingShape'
  BY <1>1, <1>3 DEF RecordingShape
<1>6. Outside' /\ Recovering' /\ FileFacts'
  BY <1>1, <1>3, <1>4 DEF RecordingInv, AudioInv, Outside, Recovering, FileFacts, At,
                          Starting, Ending
<1>7. SessionFacts' /\ OffsetFacts'
  BY <1>1, <1>3, <1>4
     DEF RecordingInv, AudioInv, SessionFacts, OffsetFacts, At, Starting, Ending, Has
<1>8. RecordedIsKept' /\ RecordedIsQueuedOnce'
  BY <1>1 DEF RecordingInv, AudioInv, RecordedIsKept, RecordedIsQueuedOnce, Has
<1>9. ShotFacts' /\ CapturesPrecedeTheEnd'
  BY <1>1, <1>3, ShotsStay DEF At
<1> QED  BY <1>5, <1>6, <1>7, <1>8, <1>9 DEF RecordingInv, AudioInv

\* The segment found is queued under its own offset, unless it was already.
LEMMA KeepsAdopted == ASSUME RecordingInv, RecoverInterruptedAudio PROVE RecordingInv'
<1>1. /\ RecordingShape /\ UNCHANGED <<recorder, tape, proc, camera, rough>>
      /\ screen.open /\ screen.recovery = "found" /\ screen.found = capture.session
      /\ capture.session # NoSession
      /\ screen' = [screen EXCEPT !.recovery = "ready", !.found = NoSession]
      /\ capture' = [capture EXCEPT !.queue = Adopted(capture.session, @),
                                    !.session = NoSession]
      /\ ~Starting /\ ~Ending /\ recorder.file = 0
  BY DEF RecordingInv, AudioInv, Recovering, RecoverInterruptedAudio
<1>2. /\ NoSession \in RowSet /\ NoSession.file = 0
      /\ capture.session \in RowSet /\ capture.queue \in SUBSET AudioRows
      /\ capture.session.file \in Nat /\ capture.session.offset \in Nat
      /\ tape.opened \in Nat
  BY <1>1 DEF NoSession, RowSet, RecordingShape, CaptureSet, TapeSet
<1>3. /\ screen' \in ScreenSet /\ screen'.open /\ screen'.recovery = "ready"
  BY <1>1, <1>2 DEF RecordingShape, ScreenSet
<1> DEFINE queue == Adopted(capture.session, capture.queue)
           own(q) == q.file = capture.session.file /\ q.offset = capture.session.offset
<1>4. \/ (\E q \in capture.queue : own(q)) /\ queue = capture.queue
      \/ /\ \A q \in capture.queue : ~own(q)
         /\ \E row \in AudioRows :
              /\ queue = capture.queue \cup {row} /\ own(row)
              /\ Has(capture.session.file) = {} => row.copy = 1
  <2>1. CASE \E q \in capture.queue : own(q)
    BY <2>1 DEF Adopted
  <2>2. CASE \A q \in capture.queue : ~own(q)
    <3>1. queue = Enqueue(capture.session.file, capture.session.offset, capture.queue)
      BY <2>2 DEF Adopted
    <3> QED  BY <1>2, <2>2, <3>1, Enqueued DEF Has
  <2> QED  BY <2>1, <2>2
<1> HIDE DEF queue
<1>5. /\ capture' \in CaptureSet /\ capture'.session = NoSession
      /\ capture'.session.file = 0 /\ capture'.queue = queue
      /\ capture'.showing = capture.showing /\ capture'.elapsed = capture.elapsed
  <2>1. queue \in SUBSET AudioRows
    BY <1>2, <1>4
  <2>2. capture' = [capture EXCEPT !.queue = queue, !.session = NoSession]
    BY <1>1 DEF queue
  <2> QED  BY <1>1, <1>2, <2>1, <2>2 DEF RecordingShape, CaptureSet
<1>6. capture.session.file # 0 \/ capture.session = NoSession
  BY DEF RecordingInv, AudioInv, FileFacts
<1>7. RecordingShape'
  BY <1>1, <1>3, <1>5 DEF RecordingShape
<1>8. capture.session.file # 0
  BY <1>1, <1>6
<1>9. Outside' /\ Recovering' /\ FileFacts'
  BY <1>1, <1>2, <1>3, <1>4, <1>5, <1>8
     DEF RecordingInv, AudioInv, Outside, Recovering, FileFacts, At, Starting, Ending
<1>10. Has(capture.session.file)' = {}
  BY <1>4, <1>5, <1>8 DEF RecordingInv, AudioInv, FileFacts, Has
<1>11. SessionFacts' /\ OffsetFacts'
  BY <1>1, <1>3, <1>5, <1>10
     DEF RecordingInv, AudioInv, SessionFacts, OffsetFacts, At, Starting, Ending, Closing,
         Processes
<1>12. RecordedIsKept' /\ RecordedIsQueuedOnce'
  <2>1. RecordedIsKept'
    BY <1>1, <1>4, <1>5 DEF RecordingInv, AudioInv, RecordedIsKept, Has
  <2>2. rough.audio = "kept" /\ (\A q \in capture.queue : ~own(q)) =>
          Has(capture.session.file) = {}
    BY DEF RecordingInv, AudioInv, OffsetFacts, Has
  <2>3. RecordedIsQueuedOnce'
    BY <1>1, <1>4, <1>5, <2>2 DEF RecordingInv, AudioInv, RecordedIsQueuedOnce
  <2> QED  BY <2>1, <2>3
<1>13. ShotFacts' /\ CapturesPrecedeTheEnd'
  BY <1>1, <1>3, <1>5, ShotsStay DEF At
<1> QED  BY <1>7, <1>9, <1>11, <1>12, <1>13 DEF RecordingInv, AudioInv

-----------------------------------------------------------------------------
(* The camera.                                                             *)

LEMMA KeepsCamera == ASSUME RecordingInv, OpenCamera \/ CloseCamera PROVE RecordingInv'
<1>1. /\ RecordingShape /\ UNCHANGED <<capture, screen, recorder, tape, proc>>
      /\ \/ /\ screen.open
            /\ \E mode \in {"photo", "video"} : camera' = [camera EXCEPT !.mode = mode]
            /\ rough' = IF proc["end"].at = "idle" THEN rough ELSE Hurried
         \/ /\ camera' = [camera EXCEPT !.mode = "closed"]
            /\ rough' = IF ShotsTaken = {} THEN rough ELSE Hurried
  BY DEF RecordingInv, OpenCamera, CloseCamera, At
<1>2. /\ camera' \in CameraSet /\ camera'.shot = camera.shot /\ camera'.late = camera.late
      /\ \/ screen.open /\ camera'.mode # "closed"
         \/ camera'.mode = "closed"
  BY <1>1 DEF RecordingShape, CameraSet
<1>3. /\ rough' \in RoughSet /\ rough'.audio = rough.audio
      /\ rough.hurried => rough'.hurried
      /\ ~rough'.hurried =>
           \/ camera'.mode # "closed" /\ proc["end"].at = "idle"
           \/ camera'.mode = "closed" /\ ShotsTaken = {}
  BY <1>1, Roughly DEF RecordingShape, CameraSet
<1>4. RecordingShape'
  BY <1>1, <1>2, <1>3 DEF RecordingShape
<1>5. AudioInv'
  BY <1>1, <1>3, AudioStays
<1>6. ShotFacts' /\ CapturesPrecedeTheEnd'
  BY <1>1, <1>2, <1>3
     DEF RecordingInv, AudioInv, Outside, ShotFacts, CapturesPrecedeTheEnd, ShotsTaken, At
<1> QED  BY <1>4, <1>5, <1>6 DEF RecordingInv

\* A shot begins only while the camera is open.
LEMMA KeepsShot ==
  ASSUME RecordingInv, NEW s \in Shots, TakePhoto(s) \/ StartVideo(s) PROVE RecordingInv'
<1>1. /\ RecordingShape /\ UNCHANGED <<capture, screen, recorder, tape, proc, rough>>
      /\ camera.mode # "closed"
      /\ \/ camera' = [camera EXCEPT !.shot = [camera.shot EXCEPT ![s] = "photo"]]
            /\ camera.mode = "photo"
         \/ camera' = [camera EXCEPT !.mode = "filming",
                                     !.shot = [camera.shot EXCEPT ![s] = "film"]]
  BY DEF RecordingInv, TakePhoto, StartVideo
<1>2. camera' \in CameraSet /\ camera'.mode # "closed" /\ camera'.late = camera.late
  <2>1. /\ [camera.shot EXCEPT ![s] = "photo"] \in [Shots -> {"none", "photo", "film"}]
        /\ [camera.shot EXCEPT ![s] = "film"] \in [Shots -> {"none", "photo", "film"}]
    BY <1>1 DEF RecordingShape, CameraSet
  <2> QED  BY <1>1, <2>1 DEF RecordingShape, CameraSet
<1>3. RecordingShape'
  BY <1>1, <1>2 DEF RecordingShape
<1>4. AudioInv'
  BY <1>1, AudioStays
<1>5. screen.open
  BY <1>1 DEF RecordingInv, ShotFacts
<1>6. ShotFacts' /\ CapturesPrecedeTheEnd'
  BY <1>1, <1>2, <1>5
     DEF RecordingInv, AudioInv, Outside, ShotFacts, CapturesPrecedeTheEnd, At
<1> QED  BY <1>3, <1>4, <1>6 DEF RecordingInv

\* A shot is queued or given up; it closes the camera for the others too.
LEMMA KeepsShotDone ==
  ASSUME RecordingInv, NEW s \in Shots, ShotQueued(s) \/ ShotFails(s) PROVE RecordingInv'
<1> DEFINE shot == [camera.shot EXCEPT ![s] = "none"]
<1>1. /\ RecordingShape /\ UNCHANGED <<capture, screen, recorder, tape, proc>>
      /\ s \in ShotsTaken
      /\ \/ /\ camera' = [camera EXCEPT !.shot = shot, !.mode = "closed",
                            !.late = camera.late \/ capture.showing = "ended"]
            /\ rough' = IF ShotsTaken = {s} THEN rough ELSE Hurried
         \/ /\ camera' = [camera EXCEPT !.shot = shot,
                            !.mode = IF camera.mode = "filming" THEN "video" ELSE camera.mode]
            /\ rough' = rough
  BY DEF RecordingInv, ShotQueued, ShotFails, ShotsTaken
<1>2. /\ shot \in [Shots -> {"none", "photo", "film"}] /\ camera \in CameraSet
      /\ {x \in Shots : shot[x] # "none"} = ShotsTaken \ {s}
  BY <1>1 DEF RecordingShape, CameraSet, ShotsTaken
<1> HIDE DEF shot
<1>3. PICK late \in BOOLEAN, mode \in {"closed", "photo", "video", "filming"} :
        /\ camera' = [camera EXCEPT !.shot = shot, !.mode = mode, !.late = late]
        /\ late => camera.late \/ capture.showing = "ended"
        /\ \/ mode = "closed" /\ rough' = IF ShotsTaken = {s} THEN rough ELSE Hurried
           \/ (mode = "closed" <=> camera.mode = "closed") /\ rough' = rough
  <2>1. camera.late \in BOOLEAN /\ camera.mode \in {"closed", "photo", "video", "filming"}
    BY <1>2 DEF CameraSet
  <2>2. CASE /\ camera' = [camera EXCEPT !.shot = shot, !.mode = "closed",
                             !.late = camera.late \/ capture.showing = "ended"]
             /\ rough' = IF ShotsTaken = {s} THEN rough ELSE Hurried
    <3> DEFINE after == camera.late \/ capture.showing = "ended"
    <3>1. after \in BOOLEAN /\ (after => camera.late \/ capture.showing = "ended")
      OBVIOUS
    <3>2. camera' = [camera EXCEPT !.shot = shot, !.mode = "closed", !.late = after]
      BY <2>2
    <3> HIDE DEF after
    <3> QED  BY <2>2, <3>1, <3>2
  <2>3. CASE /\ camera' = [camera EXCEPT !.shot = shot,
                             !.mode = IF camera.mode = "filming" THEN "video" ELSE camera.mode]
             /\ rough' = rough
    <3> DEFINE mode == IF camera.mode = "filming" THEN "video" ELSE camera.mode
    <3>1. /\ mode \in {"closed", "photo", "video", "filming"}
          /\ mode = "closed" <=> camera.mode = "closed"
      BY <2>1
    <3>2. camera' = [camera EXCEPT !.shot = shot, !.mode = mode, !.late = camera.late]
      BY <1>2, <2>3 DEF CameraSet
    <3> HIDE DEF mode
    <3> QED  BY <2>1, <2>3, <3>1, <3>2
  <2> QED  BY <1>1, <2>2, <2>3
<1>4. /\ camera' \in CameraSet /\ camera'.mode = mode /\ camera'.shot = shot
      /\ camera'.late = late
  BY <1>2, <1>3 DEF CameraSet
<1>5. ShotsTaken' = ShotsTaken \ {s}
  BY <1>2, <1>4 DEF ShotsTaken
<1>6. /\ rough' \in RoughSet /\ rough'.audio = rough.audio
      /\ rough.hurried => rough'.hurried
      /\ ~rough'.hurried =>
           ShotsTaken = {s} \/ (mode = "closed" <=> camera.mode = "closed")
  BY <1>1, <1>3, Roughly DEF RecordingShape
<1>7. RecordingShape'
  BY <1>1, <1>4, <1>6 DEF RecordingShape
<1>8. AudioInv'
  BY <1>1, <1>6, AudioStays
<1>9. ShotFacts'
  BY <1>1, <1>3, <1>4, <1>5, <1>6 DEF RecordingInv, ShotFacts, At
<1>10. CapturesPrecedeTheEnd'
  BY <1>1, <1>3, <1>4, <1>6 DEF RecordingInv, ShotFacts, CapturesPrecedeTheEnd
<1> QED  BY <1>7, <1>8, <1>9, <1>10 DEF RecordingInv

-----------------------------------------------------------------------------

LEMMA KeepsRecording ==
  ASSUME RecordingInv, [RecordingNext]_recordingVars PROVE RecordingInv'
<1>1. CASE UNCHANGED recordingVars
  <2>1. UNCHANGED <<capture, screen, recorder, tape, proc, camera, rough>>
    BY <1>1 DEF recordingVars
  <2>2. RecordingShape' /\ AudioInv'
    BY <2>1, AudioStays DEF RecordingInv, RecordingShape
  <2>3. ShotFacts' /\ CapturesPrecedeTheEnd'
    BY <2>1, ShotsStay DEF At
  <2> QED  BY <2>2, <2>3 DEF RecordingInv
<1>2. CASE Begin \/ Resume \/ Granted \/ Prepare
  BY <1>2, KeepsBegin, KeepsResume, KeepsGranted, KeepsPrepare
<1>3. CASE SaveRecordingSession \/ Record \/ StartFails
  BY <1>3, KeepsSave, KeepsRecord, KeepsStartFails
<1>4. CASE TickElapsed \/ Interrupted
  BY <1>4, KeepsTick, KeepsInterrupted
<1>5. CASE \E p \in Processes : StopRecorder(p) \/ EnqueueMedia(p) \/ ClearRecordingSession(p)
  BY <1>5, KeepsStop, KeepsEnqueue, KeepsClear
<1>6. CASE PressEnd \/ AnswerAlert \/ Recovered \/ Finish \/ EndFails
  BY <1>6, KeepsEndAsked, KeepsRecovered, KeepsFinish, KeepsEndFails
<1>7. CASE AppDies \/ SessionExpires \/ RecoverInterruptedSegment \/ RecoverInterruptedAudio
  BY <1>7, KeepsDeath, KeepsExpiry, KeepsLooking, KeepsAdopted
<1>8. CASE \/ OpenCamera \/ CloseCamera
           \/ \E s \in Shots : \/ TakePhoto(s) \/ StartVideo(s) \/ ShotQueued(s)
                               \/ ShotFails(s)
  BY <1>8, KeepsCamera, KeepsShot, KeepsShotDone
<1> QED  BY <1>1, <1>2, <1>3, <1>4, <1>5, <1>6, <1>7, <1>8 DEF RecordingNext

\* The invariant of the recording screen: what the session row and the queue say of each
\* segment at every await of the two processes that close it.
THEOREM RecordingInvariance == RecordingSpec => []RecordingInv
<1>1. RecordingInit => RecordingInv
  BY RecordingBegins
<1>2. RecordingInv /\ [RecordingNext]_recordingVars => RecordingInv'
  BY KeepsRecording
<1> QED  BY <1>1, <1>2, PTL DEF RecordingSpec

\* For any number of segments, shots and deaths of the app: audio is neither lost nor
\* queued twice, but for the named exceptions.
THEOREM AudioIsQueuedOnce == RecordingSpec => []RecordingsAreQueuedOnce
<1>1. RecordingInv => RecordingsAreQueuedOnce
  BY DEF RecordingInv, AudioInv, RecordingsAreQueuedOnce
<1>2. RecordingSpec => []RecordingInv
  BY RecordingInvariance
<1> QED  BY <1>1, <1>2, PTL

\* For any of them: no photo or video joins an ended showing, unless hurried.
THEOREM ShotsPrecedeTheEnd == RecordingSpec => []CapturesPrecedeTheEnd
<1>1. RecordingInv => CapturesPrecedeTheEnd
  BY DEF RecordingInv
<1>2. RecordingSpec => []RecordingInv
  BY RecordingInvariance
<1> QED  BY <1>1, <1>2, PTL

-----------------------------------------------------------------------------
(* The bounds: what the counters of RecordingTypeOK stay under.  Each file   *)
(* that is opened is ticked once at most, and no offset is ahead of that.    *)

Counted ==
  /\ capture.elapsed <= tape.opened /\ screen.started <= tape.opened
  /\ capture.session.offset <= tape.opened
  /\ screen.found.file <= tape.opened /\ screen.found.offset <= tape.opened
  /\ \A p \in Processes : proc[p].offset <= tape.opened
  /\ \A q \in capture.queue : q.offset <= tape.opened
  /\ \A f \in tape.recorded \cup tape.gone : f # 0 /\ f <= tape.opened

\* A file is opened before its tick.
Ticking ==
  /\ screen.phase = "recording" =>
       /\ At("start", "idle")
       /\ capture.elapsed = screen.started => capture.elapsed < tape.opened
  /\ proc["start"].at \in {"save", "record"} => capture.elapsed < tape.opened

Within == tape.opened <= MaxSegments /\ screen.deaths <= MaxDeaths

RecordingBounds == RecordingInv /\ Counted /\ Ticking /\ Within

LEMMA BoundsBegin ==
  ASSUME MaxSegments \in Nat, MaxDeaths \in Nat, RecordingInit
  PROVE  Counted /\ Ticking /\ Within
BY DEF RecordingInit, Counted, Ticking, Within, Home, NoSession, Idle, NoRecorder, Processes,
       At

LEMMA StartIsBounded ==
  ASSUME MaxSegments \in Nat, RecordingBounds,
         Begin \/ Resume \/ Granted \/ Prepare \/ SaveRecordingSession \/ Record
  PROVE  Counted' /\ Ticking' /\ Within'
<1> USE DEF RecordingBounds, RecordingInv, RecordingShape, Counted, Ticking, Within, At, To,
            CaptureSet, ScreenSet, ProcSet, Processes, TapeSet, RowSet
<1>1. CASE Begin
  BY <1>1 DEF Begin
<1>2. CASE Resume
  BY <1>2 DEF Resume
<1>3. CASE Granted
  BY <1>3 DEF Granted
<1>4. CASE Prepare
  BY <1>4 DEF Prepare, AudioRows
<1>5. CASE SaveRecordingSession
  BY <1>5 DEF SaveRecordingSession
<1>6. CASE Record
  BY <1>6 DEF Record, RecorderSet, AudioInv, FileFacts
<1> QED  BY <1>1, <1>2, <1>3, <1>4, <1>5, <1>6

LEMMA TickIsBounded ==
  ASSUME RecordingBounds,
         StartFails \/ TickElapsed \/ Interrupted
  PROVE  Counted' /\ Ticking' /\ Within'
<1> USE DEF RecordingBounds, RecordingInv, RecordingShape, Counted, Ticking, Within, At, To,
            CaptureSet, ScreenSet, ProcSet, Processes, TapeSet, RowSet
<1>1. CASE StartFails
  BY <1>1 DEF StartFails, Idle
<1>2. CASE TickElapsed
  BY <1>2 DEF TickElapsed
<1>3. CASE Interrupted
  BY <1>3 DEF Interrupted
<1> QED  BY <1>1, <1>2, <1>3

LEMMA StopIsBounded ==
  ASSUME RecordingBounds, NEW p \in Processes,
         StopRecorder(p) \/ ClearRecordingSession(p)
  PROVE  Counted' /\ Ticking' /\ Within'
<1> USE DEF RecordingBounds, RecordingInv, RecordingShape, Counted, Ticking, Within, At, To,
            CaptureSet, ScreenSet, ProcSet, Processes, TapeSet, RowSet
<1>1. CASE StopRecorder(p)
  BY <1>1 DEF StopRecorder
<1>2. CASE ClearRecordingSession(p)
  BY <1>2 DEF ClearRecordingSession, NoSession
<1> QED  BY <1>1, <1>2

LEMMA EnqueueIsBounded ==
  ASSUME RecordingBounds, NEW p \in Processes, EnqueueMedia(p)
  PROVE  Counted' /\ Ticking' /\ Within'
<1>1. /\ RecordingShape /\ UNCHANGED <<screen, tape>> /\ screen.open /\ proc[p].at = "enqueue"
      /\ proc' = [proc EXCEPT ![p] = [at |-> "clear", offset |-> 0]]
      /\ p \in {"start", "end"}
      /\ proc[p].offset \in Nat /\ recorder.file \in Nat /\ capture.queue \in SUBSET AudioRows
  BY DEF RecordingBounds, RecordingInv, EnqueueMedia, At, Processes, RecordingShape, ProcSet,
         RecorderSet, CaptureSet
<1>2. /\ proc'[p].at = "clear" /\ proc'[p].offset = 0
      /\ \A q \in Processes : q # p => proc'[q] = proc[q]
  BY <1>1, Anew DEF RecordingShape, Awaits
<1>3. /\ capture'.session = capture.session /\ capture'.elapsed = capture.elapsed
      /\ \A q \in capture'.queue : q \in capture.queue \/ q.offset = proc[p].offset
  <2>1. CASE capture' = capture
    BY <2>1
  <2>2. CASE capture' = [capture EXCEPT !.queue =
                           Enqueue(recorder.file, proc[p].offset, capture.queue)]
    BY <1>1, <2>2, Enqueued DEF RecordingShape, CaptureSet
  <2> QED  BY <2>1, <2>2 DEF EnqueueMedia
<1>4. Counted'
  BY <1>1, <1>2, <1>3 DEF RecordingBounds, Counted, Processes, RecordingShape, TapeSet
<1> QED  BY <1>1, <1>2, <1>3, <1>4 DEF RecordingBounds, Ticking, Within, At

LEMMA EndIsBounded ==
  ASSUME RecordingBounds,
         PressEnd \/ AnswerAlert \/ Recovered \/ Finish \/ EndFails
  PROVE  Counted' /\ Ticking' /\ Within'
<1> USE DEF RecordingBounds, RecordingInv, RecordingShape, Counted, Ticking, Within, At, To,
            CaptureSet, ScreenSet, ProcSet, Processes, TapeSet, RowSet
<1>1. CASE PressEnd \/ AnswerAlert
  BY <1>1 DEF PressEnd, AnswerAlert, Idle
<1>2. CASE Recovered
  BY <1>2 DEF Recovered, Idle
<1>3. CASE Finish
  BY <1>3 DEF Finish, Home, NoSession, Idle
<1>4. CASE EndFails
  BY <1>4 DEF EndFails, Idle
<1> QED  BY <1>1, <1>2, <1>3, <1>4

LEMMA DeathIsBounded ==
  ASSUME MaxDeaths \in Nat, RecordingBounds,
         AppDies \/ SessionExpires \/ RecoverInterruptedSegment
  PROVE  Counted' /\ Ticking' /\ Within'
<1> USE DEF RecordingBounds, RecordingInv, RecordingShape, Counted, Ticking, Within, At, To,
            CaptureSet, ScreenSet, ProcSet, Processes, TapeSet, RowSet
<1>1. CASE AppDies
  BY <1>1 DEF AppDies, Home, NoSession, Idle, AudioInv, FileFacts
<1>2. CASE SessionExpires
  BY <1>2 DEF SessionExpires, Home, NoSession, Idle
<1>3. CASE RecoverInterruptedSegment
  BY <1>3 DEF RecoverInterruptedSegment, AudioInv, FileFacts
<1> QED  BY <1>1, <1>2, <1>3

LEMMA AdoptedIsBounded ==
  ASSUME RecordingBounds, RecoverInterruptedAudio PROVE Counted' /\ Ticking' /\ Within'
<1>1. /\ RecordingShape /\ UNCHANGED <<tape, proc>> /\ screen.recovery = "found"
      /\ screen.found.file \in Nat /\ screen.found.offset \in Nat
      /\ capture.queue \in SUBSET AudioRows
  BY DEF RecordingBounds, RecordingInv, RecoverInterruptedAudio, RecordingShape, ScreenSet,
         RowSet, CaptureSet
<1>2. /\ screen'.started = screen.started /\ screen'.found = NoSession
      /\ screen'.deaths = screen.deaths /\ screen'.phase \in {screen.phase, "error"}
  BY <1>1 DEF RecoverInterruptedAudio, RecordingShape, ScreenSet
<1>3. /\ capture'.session \in {capture.session, NoSession}
      /\ capture'.elapsed = capture.elapsed
      /\ \A q \in capture'.queue : q \in capture.queue \/ q.offset = screen.found.offset
  <2>1. CASE capture' = capture
    BY <2>1
  <2>2. CASE capture' = [capture EXCEPT !.queue = Adopted(screen.found, capture.queue),
                                        !.session = NoSession]
    <3>1. /\ capture'.queue = Adopted(screen.found, capture.queue)
          /\ capture'.session = NoSession /\ capture'.elapsed = capture.elapsed
      BY <1>1, <2>2 DEF RecordingShape, CaptureSet
    <3> QED  BY <1>1, <3>1, Enqueued DEF Adopted
  <2> QED  BY <2>1, <2>2 DEF RecoverInterruptedAudio
<1>4. Counted'
  BY <1>1, <1>2, <1>3 DEF RecordingBounds, Counted, NoSession, RecordingShape, TapeSet
<1> QED  BY <1>1, <1>2, <1>3, <1>4 DEF RecordingBounds, Ticking, Within, At

LEMMA BoundsStay ==
  ASSUME RecordingBounds, UNCHANGED <<capture, screen, tape, proc>>
  PROVE  Counted' /\ Ticking' /\ Within'
BY DEF RecordingBounds, Counted, Ticking, Within, At

LEMMA KeepsBounds ==
  ASSUME MaxSegments \in Nat, MaxDeaths \in Nat, RecordingBounds, [RecordingNext]_recordingVars
  PROVE  RecordingBounds'
<1> SUFFICES Counted' /\ Ticking' /\ Within'
  BY KeepsRecording DEF RecordingBounds
<1>2. CASE UNCHANGED recordingVars
  BY <1>2, BoundsStay DEF recordingVars
<1>3. CASE Begin \/ Resume \/ Granted \/ Prepare \/ SaveRecordingSession \/ Record
  BY <1>3, StartIsBounded
<1>4. CASE StartFails \/ TickElapsed \/ Interrupted
  BY <1>4, TickIsBounded
<1>5. CASE \E p \in Processes : StopRecorder(p) \/ EnqueueMedia(p) \/ ClearRecordingSession(p)
  BY <1>5, StopIsBounded, EnqueueIsBounded
<1>6. CASE PressEnd \/ AnswerAlert \/ Recovered \/ Finish \/ EndFails
  BY <1>6, EndIsBounded
<1>7. CASE AppDies \/ SessionExpires \/ RecoverInterruptedSegment \/ RecoverInterruptedAudio
  BY <1>7, DeathIsBounded, AdoptedIsBounded
<1>8. CASE \/ OpenCamera \/ CloseCamera
           \/ \E s \in Shots : \/ TakePhoto(s) \/ StartVideo(s) \/ ShotQueued(s)
                               \/ ShotFails(s)
  BY <1>8, BoundsStay DEF OpenCamera, CloseCamera, TakePhoto, StartVideo, ShotQueued, ShotFails
<1> QED
  BY <1>2, <1>3, <1>4, <1>5, <1>6, <1>7, <1>8 DEF RecordingNext

\* The state of the recording screen has its type, whatever the bounds on segments and
\* deaths: no counter or offset runs ahead of the files that were opened.
THEOREM RecordingTypeCorrect ==
  MaxSegments \in Nat /\ MaxDeaths \in Nat => (RecordingSpec => []RecordingTypeOK)
<1> SUFFICES ASSUME MaxSegments \in Nat, MaxDeaths \in Nat
             PROVE  RecordingSpec => []RecordingTypeOK
  OBVIOUS
<1>1. RecordingInit => RecordingBounds
  BY RecordingBegins, BoundsBegin DEF RecordingBounds
<1>2. RecordingBounds /\ [RecordingNext]_recordingVars => RecordingBounds'
  BY KeepsBounds
<1>3. RecordingBounds => RecordingTypeOK
  <2> SUFFICES ASSUME RecordingBounds PROVE RecordingTypeOK
    OBVIOUS
  <2>1. RecordingShape /\ FileFacts /\ Counted /\ Within
    BY DEF RecordingBounds, RecordingInv, AudioInv
  <2>2. capture.session \in SessionRows /\ screen.found \in SessionRows
    BY <2>1 DEF RecordingShape, FileFacts, Counted, Within, CaptureSet, ScreenSet, RowSet,
                TapeSet, SessionRows, Offsets
  <2>3. capture.queue \in SUBSET Queued
    <3> SUFFICES ASSUME NEW q \in capture.queue PROVE q \in Queued
      OBVIOUS
    <3>1. q \in AudioRows /\ q.file # 0 /\ q.file <= MaxSegments /\ q.offset <= MaxSegments
      BY <2>1 DEF RecordingShape, FileFacts, Counted, Within, CaptureSet, TapeSet, AudioRows
    <3> QED  BY <3>1 DEF AudioRows, Queued, Segments, Offsets
  <2>4. /\ capture.elapsed \in Offsets /\ screen.started \in Offsets
        /\ screen.deaths \in 0..MaxDeaths
        /\ recorder.file \in 0..MaxSegments /\ tape.opened \in 0..MaxSegments
    BY <2>1 DEF RecordingShape, FileFacts, Counted, Within, CaptureSet, ScreenSet,
                RecorderSet, TapeSet, Offsets
  <2>5. tape.recorded \in SUBSET Segments /\ tape.gone \in SUBSET Segments
    BY <2>1 DEF RecordingShape, Counted, Within, TapeSet, Segments
  <2>6. \A p \in Processes : proc[p] \in [at : Awaits, offset : Offsets]
    BY <2>1 DEF RecordingShape, Counted, Within, TapeSet, ProcSet, Offsets
  <2>7. /\ capture \in [showing : {"none", "active", "ended"}, elapsed : Offsets,
                        session : SessionRows, queue : SUBSET Queued]
        /\ screen \in [open : BOOLEAN,
                       phase : {"idle", "preparing", "recording", "interrupted", "stopping",
                                "stopped", "error"},
                       started : Offsets, recovery : {"pending", "found", "ready", "failed"},
                       found : SessionRows, deaths : 0..MaxDeaths]
    BY <2>1, <2>2, <2>3, <2>4 DEF RecordingShape, CaptureSet, ScreenSet
  <2>8. /\ recorder \in [file : 0..MaxSegments, on : BOOLEAN]
        /\ tape \in [opened : 0..MaxSegments, recorded : SUBSET Segments,
                     gone : SUBSET Segments]
    BY <2>1, <2>4, <2>5 DEF RecordingShape, RecorderSet, TapeSet
  <2>9. proc \in [Processes -> [at : Awaits, offset : Offsets]]
    BY <2>1, <2>6 DEF RecordingShape, ProcSet
  <2> QED  BY <2>1, <2>7, <2>8, <2>9
              DEF RecordingTypeOK, RecordingShape, CameraSet, RoughSet, Awaits
<1> QED  BY <1>1, <1>2, <1>3, PTL DEF RecordingSpec

=============================================================================
