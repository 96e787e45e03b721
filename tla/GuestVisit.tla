----------------------------- MODULE GuestVisit -----------------------------
(***************************************************************************)
(* A visitor of the landing page. The page asks for a guest session when   *)
(* it is mounted without a token that will do; once there is one it shows  *)
(* the zone in which a file is dropped, processed and downloaded. A guest  *)
(* is nothing but the id in a token: a file belongs to the id of the token *)
(* that its upload was begun with, and every later call is made with the   *)
(* token that the tab has at that time. It may be another one by then: a   *)
(* second session may be answered, a token expires, and a call that is     *)
(* answered 401 is sent again for the user of a refresh cookie, which      *)
(* another tab of the browser may have left.                               *)
(*                                                                         *)
(* What the zone shows of a job is JobWatch's subject, and the sessions of *)
(* users that of Sessions.                                                 *)
(***************************************************************************)
EXTENDS Naturals

CONSTANTS
  MaxAsks,  \* bound: guest sessions ever asked for
  Calls,    \* bound: calls under way at the same time
  None,     \* null
  Ttl,      \* JWT_ACCESS_TTL_SECONDS
  Margin,   \* the 60 s of isTokenExpiredOrMissing
  MaxFails, \* bound: requests that fail
  MaxLooks, \* bound: how often the page or its tab is changed
  Horizon   \* bound: the last moment

ASSUME VisitAssumption ==
  /\ MaxAsks \in Nat /\ MaxFails \in Nat /\ MaxLooks \in Nat /\ Horizon \in Nat
  /\ Margin \in Nat \ {0} /\ Ttl \in Nat /\ Margin <= Ttl
  /\ None \notin Nat

VARIABLES
  now,     \* the time
  guest,   \* guestStore.guestToken
  access,  \* authStore.accessToken
  jar,     \* the browser has the refresh cookie of a live session
  ask,     \* the requests for a guest session
  hero,    \* HeroUploadZone
  flow,    \* useConvertFlow or useCompressFlow of the zone
  call,    \* the calls of the zones
  shared,  \* client.ts refreshPromise: the request for a refresh
  fails,   \* requests that failed so far
  looks,   \* changes of the page and its tab so far
  crossed, \* history: two sessions were asked for at once
  swapped  \* history: a refresh has changed who the tab acts for under this zone

store == <<guest, access, jar>>
bounds == <<fails, looks>>
vars == <<now, store, ask, hero, flow, call, shared, bounds, crossed, swapped>>

\* A guest is the number of the session that was asked for.
Asks   == 1..MaxAsks
User   == 0
Token  == [who : {User} \cup Asks, exp : 0..(Horizon + Ttl)]

ASSUME NoneIsNoToken == None \notin Token

\* Variant with a bug: the end of a token is in milliseconds.
SignedInMs(w) == [who |-> w, exp |-> (now + Ttl) * 1000]

Signed(w) == [who |-> w, exp |-> now + Ttl]

Ask == [at : {"none", "sent", "signed", "over"}, token : Token \cup {None}]

\* since: when the page was mounted; zone: a number for each mounted zone.
Hero == [on : BOOLEAN, since : 0..Horizon, zone : 0..MaxLooks]

\* file: who its uploaded file belongs to.
Flow  == [step : {"idle", "options", "processing", "done", "error"}, file : {None, User} \cup Asks]
Fresh == [step |-> "idle", file |-> None]

\* again is _retry. An upload is the calls url and confirm, with the POST to the
\* storage, which has no token, in between.
Call ==
  [kind : {"url", "confirm", "job", "download"}, zone : 0..MaxLooks,
   at : {"free", "sent", "reply", "waiting", "storing"}, file : {None, User} \cup Asks,
   token : Token \cup {None}, again : BOOLEAN, status : {"none", "ok", "expired", "foreign", "error"}]
Free ==
  [kind |-> "url", zone |-> 0, at |-> "free", file |-> None, token |-> None,
   again |-> FALSE, status |-> "none"]

\* cookie: it was sent with the cookie of a session that is still live.
Refreshing == [at : {"none", "sent", "reply"}, cookie : BOOLEAN, token : Token \cup {None}]
NoRefresh  == [at |-> "none", cookie |-> FALSE, token |-> None]

Init ==
  /\ now = 0
  /\ guest = None /\ access = None /\ jar = FALSE
  /\ ask = [a \in Asks |-> [at |-> "none", token |-> None]]
  /\ hero = [on |-> FALSE, since |-> 0, zone |-> 0]
  /\ flow = Fresh
  /\ call = [c \in Calls |-> Free]
  /\ shared = NoRefresh
  /\ fails = 0 /\ looks = 0
  /\ crossed = FALSE /\ swapped = FALSE

Fail == fails < MaxFails /\ fails' = fails + 1 /\ UNCHANGED looks
Look == looks < MaxLooks /\ looks' = looks + 1 /\ UNCHANGED fails

-----------------------------------------------------------------------------
(***************************************************************************)
(* The page and its guest session.                                         *)
(***************************************************************************)
UnderWay(a) == ask[a].at \in {"sent", "signed"}

\* isTokenExpiredOrMissing
Missing == guest = None \/ guest.exp < now + Margin

\* clearGuest and mutate, if the token will not do.
Session(missing, cleared) ==
  /\ guest' = IF cleared THEN None ELSE guest
  /\ IF missing
     THEN /\ \E a \in Asks :
               /\ ask[a].at = "none" /\ \A b \in 1..(a - 1) : ask[b].at # "none"
               /\ ask' = [ask EXCEPT ![a].at = "sent"]
          /\ crossed' = (crossed \/ \E a \in Asks : UnderWay(a))
     ELSE UNCHANGED <<ask, crossed>>

\* Variants with a bug: the old token stays until the new one is there, the token may
\* expire in the next moment, or it is cleared though it is not replaced.
ClearedNever == Session(Missing, FALSE)
ClearedLate  == LET late == guest = None \/ guest.exp <= now IN Session(late, late)
ClearedEver  == Session(Missing, TRUE)

CheckSession == Session(Missing, Missing)

\* The landing page is opened: the effect of useGuestJob runs once.
Mount ==
  /\ ~hero.on
  /\ Look
  /\ CheckSession
  /\ hero' = [on |-> TRUE, since |-> now, zone |-> looks']
  /\ flow' = Fresh
  /\ swapped' = FALSE
  /\ UNCHANGED <<now, access, jar, call, shared>>

\* Another page is opened. What is under way goes on.
Leave ==
  /\ hero.on
  /\ Look
  /\ hero' = [hero EXCEPT !.on = FALSE]
  /\ flow' = Fresh
  /\ UNCHANGED <<now, store, ask, call, shared, crossed, swapped>>

\* isReady: there is a zone.
Ready == hero.on /\ guest # None

\* The other tab of the page: another zone, and the session is not looked at.
SwitchTab ==
  /\ Ready
  /\ Look
  /\ hero' = [hero EXCEPT !.zone = looks']
  /\ flow' = Fresh
  /\ UNCHANGED <<now, store, ask, call, shared, crossed, swapped>>

\* POST /auth/guest: a token for a new id, which is not stored anywhere.
Sign(a) ==
  /\ ask[a].at = "sent"
  /\ ask' = [ask EXCEPT ![a] = [at |-> "signed", token |-> Signed(a)]]
  /\ UNCHANGED <<now, store, hero, flow, call, shared, bounds, crossed, swapped>>

\* onSuccess of the mutation, which runs whatever page is there by now.
StoreGuest(a) ==
  /\ ask[a].at = "signed"
  /\ guest' = ask[a].token
  /\ ask' = [ask EXCEPT ![a] = [at |-> "over", token |-> None]]
  /\ UNCHANGED <<now, access, jar, hero, flow, call, shared, bounds, crossed, swapped>>

\* The request fails, or is refused by the rate limit: there is no other try.
AskFails(a) ==
  /\ UnderWay(a)
  /\ Fail
  /\ ask' = [ask EXCEPT ![a] = [at |-> "over", token |-> None]]
  /\ UNCHANGED <<now, store, hero, flow, call, shared, crossed, swapped>>

-----------------------------------------------------------------------------
(***************************************************************************)
(* The calls of a zone, and the interceptors they go through.              *)
(***************************************************************************)
\* The token of a request: that of a user first.
Present == IF access # None THEN access ELSE guest

Sent(k, z, f) ==
  [kind |-> k, zone |-> z, at |-> "sent", file |-> f, token |-> Present, again |-> FALSE,
   status |-> "none"]

Busy(kinds) ==
  \E c \in Calls : call[c].at # "free" /\ call[c].zone = hero.zone /\ call[c].kind \in kinds

Begin(k, f) ==
  /\ \E c \in Calls : call[c].at = "free" /\ call' = [call EXCEPT ![c] = Sent(k, hero.zone, f)]
  /\ UNCHANGED <<now, store, ask, hero, shared, bounds, crossed, swapped>>

\* A file is dropped on the zone, which takes another one while it uploads; its job is
\* submitted; its output is downloaded.
Drop ==
  /\ Ready /\ (flow.step = "idle" \/ Busy({"url", "confirm"}))
  /\ Begin("url", None)
  /\ flow' = Fresh
Submit ==
  /\ Ready /\ flow.step = "options" /\ ~Busy({"job"})
  /\ Begin("job", flow.file)
  /\ UNCHANGED flow
Download ==
  /\ Ready /\ flow.step = "done" /\ ~Busy({"download"})
  /\ Begin("download", flow.file)
  /\ UNCHANGED flow

\* onReset
Reset ==
  /\ Ready /\ flow.step # "idle"
  /\ flow' = Fresh
  /\ UNCHANGED <<now, store, ask, hero, call, shared, bounds, crossed, swapped>>

\* The job ends, and its owner is told.
JobEnds ==
  /\ Ready /\ flow.step = "processing" /\ Present.who = flow.file
  /\ \E s \in {"done", "error"} : flow' = [flow EXCEPT !.step = s]
  /\ UNCHANGED <<now, store, ask, hero, call, shared, bounds, crossed, swapped>>

\* The server: authenticate, and the owner of the file.
Verdict(c) ==
  IF c.token = None \/ now >= c.token.exp THEN "expired"
  ELSE IF c.kind # "url" /\ c.file # c.token.who THEN "foreign"
  ELSE "ok"

Serve(c) ==
  /\ call[c].at = "sent"
  /\ LET v == Verdict(call[c])
     IN call' = [call EXCEPT ![c].at = "reply", ![c].status = v,
                             ![c].file = IF v = "ok" THEN call[c].token.who ELSE @]
  /\ UNCHANGED <<now, store, ask, hero, flow, shared, bounds, crossed, swapped>>

CallFails(c) ==
  /\ call[c].at \in {"sent", "storing"}
  /\ Fail
  /\ call' = [call EXCEPT ![c].at = "reply", ![c].status = "error"]
  /\ UNCHANGED <<now, store, ask, hero, flow, shared, crossed, swapped>>

\* The refresh that is under way, or a new one.
OneRefresh ==
  IF shared.at = "none" THEN [at |-> "sent", cookie |-> jar, token |-> None] ELSE shared

\* Variant with a bug: not only the first 401.
InterceptAgain(c) ==
  /\ call[c].at = "reply" /\ call[c].status = "expired"
  /\ call' = [call EXCEPT ![c].at = "waiting", ![c].again = TRUE]
  /\ shared' = OneRefresh
  /\ UNCHANGED <<now, store, ask, hero, flow, bounds, crossed, swapped>>

\* The first 401 of a call: it waits for the refresh that is under way, or begins one.
Intercept(c) ==
  /\ call[c].at = "reply" /\ call[c].status = "expired" /\ ~call[c].again
  /\ call' = [call EXCEPT ![c].at = "waiting", ![c].again = TRUE]
  /\ shared' = OneRefresh
  /\ UNCHANGED <<now, store, ask, hero, flow, bounds, crossed, swapped>>

\* What an answer does to the flow of its zone, if that is still there; a download
\* that fails is not shown.
Told(c, failed) ==
  IF ~hero.on \/ c.zone # hero.zone \/ c.kind = "download" THEN flow
  ELSE IF failed THEN [flow EXCEPT !.step = "error"]
  ELSE IF c.kind = "confirm" THEN [step |-> "options", file |-> c.file]
  ELSE [flow EXCEPT !.step = "processing"]

\* The last answer of a call. The first half of an upload goes on to the storage.
Settle(c) ==
  /\ call[c].at = "reply"
  /\ call[c].status # "none" /\ ~(call[c].status = "expired" /\ ~call[c].again)
  /\ IF call[c].kind = "url" /\ call[c].status = "ok"
     THEN call' = [call EXCEPT ![c].at = "storing"] /\ UNCHANGED flow
     ELSE /\ call' = [call EXCEPT ![c] = Free]
          /\ flow' = Told(call[c], call[c].status # "ok")
  /\ UNCHANGED <<now, store, ask, hero, shared, bounds, crossed, swapped>>

\* The bytes are stored: confirm-upload, with the token of now.
Confirm(c) ==
  /\ call[c].at = "storing"
  /\ call' = [call EXCEPT ![c] = Sent("confirm", call[c].zone, call[c].file)]
  /\ UNCHANGED <<now, store, ask, hero, flow, shared, bounds, crossed, swapped>>

\* POST /auth/refresh: the cookie it was sent with has to be that of the session of now.
RefreshServed ==
  /\ shared.at = "sent"
  /\ shared' = [at |-> "reply", cookie |-> FALSE,
                 token |-> IF shared.cookie THEN Signed(User) ELSE None]
  /\ UNCHANGED <<now, store, ask, hero, flow, call, bounds, crossed, swapped>>

\* It fails, which is taken for a refusal.
RefreshFails ==
  /\ shared.at # "none"
  /\ Fail
  /\ shared' = [at |-> "reply", cookie |-> FALSE, token |-> None]
  /\ UNCHANGED <<now, store, ask, hero, flow, call, crossed, swapped>>

\* The calls that wait for the refresh are sent again with its token, or fail and the
\* tab is signed out.
Refreshed ==
  /\ shared.at = "reply"
  /\ shared' = NoRefresh
  /\ access' = shared.token
  /\ swapped' = (swapped \/ (hero.on /\ (access # None) # (shared.token # None)))
  /\ LET waits == {c \in Calls : call[c].at = "waiting"}
     IN call' = [c \in Calls |->
          IF c \notin waits THEN call[c]
          ELSE IF shared.token = None THEN [call[c] EXCEPT !.at = "reply"]
          ELSE [call[c] EXCEPT !.at = "sent", !.token = shared.token, !.status = "none"]]
  /\ UNCHANGED <<now, guest, jar, ask, hero, flow, bounds, crossed>>

\* What the steps of a zone offer.
ZoneStep == Drop \/ Submit \/ Download \/ Reset

CallStep(c) == Serve(c) \/ Intercept(c) \/ Settle(c) \/ Confirm(c)

-----------------------------------------------------------------------------
(***************************************************************************)
(* Users: the sign-in pages and the pages behind them are other pages.     *)
(***************************************************************************)
\* A session that ends, or that another one replaces, has no refresh any more.
Ended == shared' = [shared EXCEPT !.cookie = FALSE]

SignIn ==
  /\ ~hero.on /\ access = None
  /\ access' = Signed(User) /\ jar' = TRUE
  /\ Ended
  /\ UNCHANGED <<now, guest, ask, hero, flow, call, bounds, crossed, swapped>>

SignOut ==
  /\ ~hero.on /\ access # None
  /\ access' = None /\ jar' = FALSE
  /\ Ended
  /\ UNCHANGED <<now, guest, ask, hero, flow, call, bounds, crossed, swapped>>

\* Another tab of the browser signs in, or the session ends elsewhere.
Elsewhere ==
  /\ Fail
  /\ jar' \in {TRUE, ~jar}
  /\ Ended
  /\ UNCHANGED <<now, guest, access, ask, hero, flow, call, crossed, swapped>>

Tick ==
  /\ now < Horizon
  /\ now' = now + 1
  /\ UNCHANGED <<store, ask, hero, flow, call, shared, bounds, crossed, swapped>>

Next ==
  \/ Mount \/ Leave \/ SwitchTab \/ ZoneStep \/ JobEnds
  \/ \E a \in Asks : Sign(a) \/ StoreGuest(a) \/ AskFails(a)
  \/ \E c \in Calls : CallStep(c) \/ CallFails(c)
  \/ RefreshServed \/ RefreshFails \/ Refreshed
  \/ SignIn \/ SignOut \/ Elsewhere \/ Tick

Spec == Init /\ [][Next]_vars

\* Requests are answered; people, failures and the time that passes owe nothing.
FairSpec ==
  /\ Spec
  /\ \A a \in Asks : WF_vars(Sign(a) \/ StoreGuest(a))
  /\ \A c \in Calls : WF_vars(CallStep(c))
  /\ WF_vars(RefreshServed \/ Refreshed)

-----------------------------------------------------------------------------
TypeOK ==
  /\ now \in 0..Horizon
  /\ guest \in Token \cup {None} /\ access \in Token \cup {None} /\ jar \in BOOLEAN
  /\ ask \in [Asks -> Ask]
  /\ hero \in Hero /\ flow \in Flow
  /\ call \in [Calls -> Call]
  /\ shared \in Refreshing
  /\ fails \in 0..MaxFails /\ looks \in 0..MaxLooks
  /\ crossed \in BOOLEAN /\ swapped \in BOOLEAN

\* A call of the zone on the screen.
Current(c) == hero.on /\ call[c].zone = hero.zone

\* A file that was uploaded in a zone can be used there: no call of the zone on the
\* screen is refused because its file is somebody else's, unless two sessions were
\* asked for at once, or a refresh has changed whom the tab acts for.
FileStaysOwn ==
  \A c \in Calls : call[c].status = "foreign" /\ Current(c) => crossed \/ swapped

\* For the Margin after the page was opened no call of a guest is refused as expired,
\* unless two sessions were asked for at once.
GuestHasAMinute ==
  [][\A c \in Calls :
       /\ Current(c) /\ call[c].at = "sent" /\ call[c].token \notin {None}
       /\ call[c].token.who # User /\ call'[c].status = "expired"
       => crossed \/ now >= hero.since + Margin]_vars

\* The page gets its zone, unless it is left or a request fails.
ZoneAppears == hero.on /\ guest = None ~> guest # None \/ ~hero.on \/ fails # 0

\* A call does not wait for ever.
CallsEnd == \A c \in Calls : call[c].at # "free" ~> call[c].at = "free"
=============================================================================
