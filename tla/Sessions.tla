------------------------------ MODULE Sessions ------------------------------
(***************************************************************************)
(* The sessions of one account: AuthService and its routes, the one column *)
(* users.refresh_token_hash, the refresh cookie of each browser, and the   *)
(* browser tabs with their store, their axios interceptor that turns a 401 *)
(* into one shared refresh and a replay, their sign-in forms, their        *)
(* "Sign out", and the bootstrap of a page that is loaded again.           *)
(*                                                                         *)
(* Time is in seconds: jsonwebtoken puts the second of signing into a      *)
(* token and nothing else that differs between two tokens of one user, so  *)
(* a refresh token, and its hash, is the second in which it was signed.    *)
(* An access token is the second at which it expires.                      *)
(***************************************************************************)
EXTENDS Naturals, FiniteSets

CONSTANTS
  Tabs,         \* browser tabs: a store and an interceptor each
  Jars,         \* browsers: a cookie jar each, shared by their tabs
  JarOf,        \* the browser of a tab
  Requests,     \* bound: HTTP requests in flight at the same time
  Passwords,    \* passwords typed or set
  Uses,         \* what the people of an instance do
  None,         \* no token, no tab, no password
  AccessTtl,    \* JWT_ACCESS_TTL_SECONDS, 900
  RefreshTtl,   \* JWT_REFRESH_TTL_SECONDS, 7 days
  MaxFails,     \* bound: requests that fail
  Horizon       \* bound: the last second

ASSUME SessionAssumption ==
  /\ JarOf \in [Tabs -> Jars]
  /\ Uses \subseteq {"register", "login", "call", "password", "logout", "reload"}
  /\ None \notin Nat \cup Tabs \cup Jars \cup Passwords \cup Requests
  /\ {AccessTtl, RefreshTtl, MaxFails, Horizon} \subseteq Nat
  /\ Cardinality(Requests) \in Nat

VARIABLES
  now,        \* the second
  password,   \* users.password_hash; None while nobody has registered
  hash,       \* users.refresh_token_hash, as the token it is the hash of
  jar,        \* the refresh cookie of each browser
  access,     \* authStore.accessToken of each tab
  user,       \* authStore.user is set
  shared,     \* client.ts refreshPromise: the request it waits for
  req,        \* the HTTP requests under way
  fails,      \* requests that failed so far
  signedAt,   \* history: seconds in which a refresh token was signed
  twins,      \* history: seconds in which two were, and are the same token
  revoked,    \* history: tokens stored once, and then replaced or set to null
  closed      \* history: tabs signed out for good, until the browser signs in

server  == <<password, hash>>
store   == <<access, user, shared>>
history == <<signedAt, twins, revoked, closed>>
vars    == <<now, server, jar, store, req, fails, history>>

Kinds == {"register", "login", "call", "password", "logout", "boot", "me", "refresh"}
Steps == {"idle", "sent", "work", "store", "reply", "waiting", "pause"}
Tokens == 0..Horizon
Access == 0..(Horizon + AccessTtl)

\* A request: who sent it, its next step, the tokens it carries (auth, token),
\* the password typed and the one read, the access token it is granted, whether
\* it is a replay (_retry), its answer, and how often its handler took effect.
Request ==
  [kind : Kinds, tab : Tabs \cup {None}, jar : Jars \cup {None}, step : Steps,
   auth : Access \cup {None}, token : Tokens \cup {None},
   typed : Passwords \cup {None}, read : Passwords \cup {None},
   grant : Access \cup {None}, again : BOOLEAN,
   status : {"none", "ok", "unauthorized", "error"}, acts : 0..2]

Idle ==
  [kind |-> "call", tab |-> None, jar |-> None, step |-> "idle", auth |-> None,
   token |-> None, typed |-> None, read |-> None, grant |-> None,
   again |-> FALSE, status |-> "none", acts |-> 0]

Init ==
  /\ now = 0
  /\ password \in Passwords \cup {None}
  /\ hash = None
  /\ jar = [b \in Jars |-> None]
  /\ access = [t \in Tabs |-> None]
  /\ user = [t \in Tabs |-> FALSE]
  /\ shared = [t \in Tabs |-> None]
  /\ req = [r \in Requests |-> Idle]
  /\ fails = 0
  /\ signedAt = {} /\ twins = {} /\ revoked = {} /\ closed = {}

Free == {r \in Requests : req[r].step = "idle"}

\* A request as the browser sends it: the interceptor adds the access token of
\* the store, the browser its cookie, which only a refresh reads.
Sent(t, k, p) ==
  [kind |-> k, tab |-> t, jar |-> JarOf[t], step |-> "sent",
   auth |-> IF k \in {"login", "register", "refresh", "boot"} THEN None ELSE access[t],
   token |-> IF k \in {"refresh", "boot"} THEN jar[JarOf[t]] ELSE None,
   typed |-> p, read |-> None, grant |-> None, again |-> FALSE,
   status |-> "none", acts |-> 0]

Answer(r, s) ==
  [req[r] EXCEPT !.step = "reply", !.status = s, !.auth = None, !.read = None,
                 !.token = IF s = "ok" /\ req[r].kind \in {"login", "register"}
                             THEN @ ELSE None]

-----------------------------------------------------------------------------
(***************************************************************************)
(* What the people in front of the tabs do.                                *)
(***************************************************************************)
\* Nothing is rendered before the bootstrap is over.
Booting(t) == \E r \in Requests : req[r].tab = t /\ req[r].kind \in {"boot", "me"}

\* isLoading: a form is disabled while its request is under way.
FormIdle(t) ==
  \A r \in Requests : req[r].tab = t => req[r].kind \notin {"login", "register"}

\* The sign-in pages send a tab that has an access token away; everything else is
\* behind ProtectedRoute.
Offered(t, k) ==
  /\ ~Booting(t)
  /\ IF k \in {"login", "register"}
       THEN access[t] = None /\ FormIdle(t)
       ELSE access[t] # None

\* One slot is left for the refresh a request may need.
Begin(t, k, p) ==
  /\ k \in Uses
  /\ Offered(t, k)
  /\ Cardinality(Free) > 1
  /\ \E r \in Free : req' = [req EXCEPT ![r] = Sent(t, k, p)]
  /\ UNCHANGED <<now, fails, server, jar, store, history>>

\* The page is loaded again: the store is empty, requests of the old page go on
\* at the server, and the bootstrap asks for an access token.
Reload(t) ==
  /\ "reload" \in Uses
  /\ Cardinality(Free) > 1
  /\ \E r \in Free :
       req' = [q \in Requests |->
                 IF q = r THEN Sent(t, "boot", None)
                 ELSE IF req[q].tab # t THEN req[q]
                 ELSE IF req[q].step \in {"waiting", "pause"} THEN Idle
                 ELSE [req[q] EXCEPT !.tab = None]]
  /\ access' = [access EXCEPT ![t] = None]
  /\ user' = [user EXCEPT ![t] = FALSE]
  /\ shared' = [shared EXCEPT ![t] = None]
  /\ UNCHANGED <<now, fails, server, jar, history>>

-----------------------------------------------------------------------------
(***************************************************************************)
(* AuthService and its routes.  The steps end at the awaits.               *)
(***************************************************************************)
\* jwt.verify: no token, or one that is ttl seconds past its time.
Expired(token, ttl) == token = None \/ now >= token + ttl

\* authenticate: the access token is there and has not expired.  A call of any
\* other route, and GET /me, are answered at once.
Authenticate(r) ==
  /\ req[r].step = "sent"
  /\ req[r].kind \in {"call", "me", "password", "logout"}
  /\ req' = [req EXCEPT ![r] =
       IF Expired(req[r].auth, 0) THEN Answer(r, "unauthorized")
       ELSE IF req[r].kind \in {"call", "me"} THEN [Answer(r, "ok") EXCEPT !.acts = @ + 1]
       ELSE [@ EXCEPT !.step = "work"]]
  /\ UNCHANGED <<now, fails, server, jar, store, history>>

\* login and changePassword read the row, register looks whether there is one.
ReadUser(r) ==
  /\ \/ req[r].step = "sent" /\ req[r].kind \in {"login", "register"}
     \/ req[r].step = "work" /\ req[r].kind = "password" /\ req[r].read = None
  /\ req' = [req EXCEPT ![r] =
       IF req[r].kind = "register" /\ password # None THEN Answer(r, "error")
       ELSE IF req[r].kind = "login" /\ password = None THEN Answer(r, "unauthorized")
       ELSE [@ EXCEPT !.step = "work", !.read = password]]
  /\ UNCHANGED <<now, fails, server, jar, store, history>>

\* A refresh token is signed in this second.
Sign ==
  /\ signedAt' = signedAt \cup {now}
  /\ twins' = IF now \in signedAt THEN twins \cup {now} ELSE twins

\* Variant with a bug: the second of signing is rounded up.
LoginSignRoundedUp(r) ==
  /\ req[r].step = "work" /\ req[r].kind = "login"
  /\ req[r].typed = req[r].read
  /\ req' = [req EXCEPT ![r] = [@ EXCEPT !.step = "store", !.token = now + 1]]
  /\ Sign
  /\ UNCHANGED <<now, fails, server, jar, store, revoked, closed>>

\* The password is right as of the read, and login signs its tokens.
LoginSign(r) ==
  /\ req[r].step = "work" /\ req[r].kind = "login"
  /\ IF req[r].typed = req[r].read
       THEN /\ req' = [req EXCEPT ![r] = [@ EXCEPT !.step = "store", !.token = now]]
            /\ Sign
       ELSE /\ req' = [req EXCEPT ![r] = Answer(r, "unauthorized")]
            /\ UNCHANGED <<signedAt, twins>>
  /\ UNCHANGED <<now, fails, server, jar, store, revoked, closed>>

\* The insert of the account, which the unique email refuses a second time.
RegisterCreate(r) ==
  /\ req[r].step = "work" /\ req[r].kind = "register"
  /\ IF password = None
       THEN /\ password' = req[r].typed
            /\ req' = [req EXCEPT ![r] = [@ EXCEPT !.step = "store", !.token = now]]
            /\ Sign
       ELSE /\ req' = [req EXCEPT ![r] = Answer(r, "error")]
            /\ UNCHANGED <<password, signedAt, twins>>
  /\ UNCHANGED <<now, fails, hash, jar, store, revoked, closed>>

\* setRefreshTokenHash, of a token or of null.
SetHash(v) ==
  /\ hash' = v
  /\ revoked' = IF hash \in {None, v} THEN revoked ELSE revoked \cup {hash}

\* Variant with a bug: the update is tried again when its answer is late.
StoreTokenRetried(r) ==
  /\ req[r].step = "store" /\ req[r].kind \in {"login", "register"}
  /\ SetHash(req[r].token)
  /\ \/ UNCHANGED req
     \/ req' = [req EXCEPT ![r] = [Answer(r, "ok") EXCEPT !.grant = req[r].token + AccessTtl]]
  /\ UNCHANGED <<now, fails, password, jar, store, signedAt, twins, closed>>

\* login and register replace the stored hash and answer.
StoreToken(r) ==
  /\ req[r].step = "store" /\ req[r].kind \in {"login", "register"}
  /\ SetHash(req[r].token)
  /\ req' = [req EXCEPT ![r] = [Answer(r, "ok") EXCEPT !.grant = req[r].token + AccessTtl,
                                                      !.acts = @ + 1]]
  /\ UNCHANGED <<now, fails, password, jar, store, signedAt, twins, closed>>

\* changePassword compares with the row it read, and updates.  Sessions stay.
ComparePassword(r) ==
  /\ req[r].step = "work" /\ req[r].kind = "password" /\ req[r].read # None
  /\ req' = [req EXCEPT ![r] = IF req[r].typed = req[r].read
                                 THEN [@ EXCEPT !.step = "store"] ELSE Answer(r, "error")]
  /\ UNCHANGED <<now, fails, server, jar, store, history>>

StorePassword(r) ==
  /\ req[r].step = "store" /\ req[r].kind = "password"
  /\ password' \in Passwords
  /\ req' = [req EXCEPT ![r] = [Answer(r, "ok") EXCEPT !.acts = @ + 1]]
  /\ UNCHANGED <<now, fails, hash, jar, store, history>>

Logout(r) ==
  /\ req[r].step = "work" /\ req[r].kind = "logout"
  /\ SetHash(None)
  /\ req' = [req EXCEPT ![r] = [Answer(r, "ok") EXCEPT !.acts = @ + 1]]
  /\ UNCHANGED <<now, fails, password, jar, store, signedAt, twins, closed>>

\* refresh: no cookie, a token that has expired or a user without a session is a
\* 401; another hash than the stored one is taken for a reuse.
RefreshRead(r) ==
  /\ req[r].step = "sent" /\ req[r].kind \in {"refresh", "boot"}
  /\ req' = [req EXCEPT ![r] =
       IF Expired(req[r].token, RefreshTtl) \/ hash = None THEN Answer(r, "unauthorized")
       ELSE IF req[r].token = hash
         THEN [Answer(r, "ok") EXCEPT !.grant = now + AccessTtl]
       ELSE [@ EXCEPT !.step = "work"]]
  /\ UNCHANGED <<now, fails, server, jar, store, history>>

\* The session found is ended, whichever it is by now.
RefreshReuse(r) ==
  /\ req[r].step = "work" /\ req[r].kind \in {"refresh", "boot"}
  /\ SetHash(None)
  /\ req' = [req EXCEPT ![r] = Answer(r, "unauthorized")]
  /\ UNCHANGED <<now, fails, password, jar, store, signedAt, twins, closed>>

\* The connection breaks, the server fails, or the rate limit says 429.
Fail(r) ==
  /\ fails < MaxFails
  /\ fails' = fails + 1
  /\ \/ req[r].step \in {"sent", "work", "store"}
     \/ req[r].step = "reply" /\ req[r].status # "error"
  /\ req' = [req EXCEPT ![r] = Answer(r, "error")]
  /\ UNCHANGED <<now, server, jar, store, history>>

ServerStep(r) ==
  \/ Authenticate(r)
  \/ ReadUser(r)
  \/ LoginSign(r)
  \/ RegisterCreate(r)
  \/ StoreToken(r)
  \/ ComparePassword(r)
  \/ StorePassword(r)
  \/ Logout(r)
  \/ RefreshRead(r)
  \/ RefreshReuse(r)

-----------------------------------------------------------------------------
(***************************************************************************)
(* The answer arrives in the tab that asked.                               *)
(***************************************************************************)
Got(r, s, ks) ==
  /\ req[r].step = "reply" /\ req[r].status = s
  /\ req[r].tab # None
  /\ req[r].kind \in ks

SetAuth(t, a) ==
  /\ access' = [access EXCEPT ![t] = a]
  /\ user' = [user EXCEPT ![t] = TRUE]

ClearAuth(t) ==
  /\ access' = [access EXCEPT ![t] = None]
  /\ user' = [user EXCEPT ![t] = FALSE]

TabsOf(b) == {t \in Tabs : JarOf[t] = b}

\* Set-Cookie of a sign-in.
SetCookie(b, v) ==
  /\ jar' = [jar EXCEPT ![b] = v]
  /\ closed' = closed \ TabsOf(b)

\* useLoginForm: setAuth at once.  useRegisterForm: after a second's pause.
SignedIn(r) ==
  /\ Got(r, "ok", {"login", "register"})
  /\ SetCookie(req[r].jar, req[r].token)
  /\ IF req[r].kind = "login"
       THEN /\ SetAuth(req[r].tab, req[r].grant)
            /\ req' = [req EXCEPT ![r] = Idle]
       ELSE /\ req' = [req EXCEPT ![r] = [@ EXCEPT !.step = "pause"]]
            /\ UNCHANGED <<access, user>>
  /\ UNCHANGED <<now, fails, server, shared, signedAt, twins, revoked>>

RegisterPauseOver(r) ==
  /\ req[r].step = "pause"
  /\ SetAuth(req[r].tab, req[r].grant)
  /\ req' = [req EXCEPT ![r] = Idle]
  /\ UNCHANGED <<now, fails, server, jar, shared, history>>

\* A refresh with the cookie of this tab's browser is under way, or the pause of
\* a registration.
TokenToCome(t) ==
  \E q \in Requests :
    \/ req[q].jar = JarOf[t] /\ req[q].kind \in {"refresh", "boot"}
    \/ req[q].tab = t /\ req[q].step = "pause"

\* Variant with a bug: the route does not clear the cookie.
SignedOutKeepsCookie(r) ==
  /\ Got(r, "ok", {"logout"}) \/ Got(r, "error", {"logout"})
  /\ LET t == req[r].tab IN
       /\ ClearAuth(t)
       /\ closed' = IF req[r].status = "error" \/ TokenToCome(t)
                      THEN closed ELSE closed \cup {t}
  /\ req' = [req EXCEPT ![r] = Idle]
  /\ UNCHANGED <<now, fails, server, jar, shared, signedAt, twins, revoked>>

\* handleLogout goes on as soon as its request is answered, however it is.  A tab
\* is signed out for good if the server said so and no token is to come.
SignedOut(r) ==
  /\ \/ Got(r, "ok", {"logout"})
     \/ Got(r, "error", {"logout"})
     \/ Got(r, "unauthorized", {"logout"}) /\ req[r].again
  /\ LET t == req[r].tab IN
       /\ ClearAuth(t)
       /\ IF req[r].status = "ok"
            THEN /\ jar' = [jar EXCEPT ![JarOf[t]] = None]
                 /\ closed' = IF TokenToCome(t) THEN closed ELSE closed \cup {t}
            ELSE UNCHANGED <<jar, closed>>
  /\ req' = [req EXCEPT ![r] = Idle]
  /\ UNCHANGED <<now, fails, server, shared, signedAt, twins, revoked>>

\* Everything else that is over when it is answered.
Done(r) ==
  /\ \/ Got(r, "ok", {"call", "password"})
     \/ Got(r, "error", Kinds \ {"logout", "refresh"})
     \/ Got(r, "unauthorized", {"boot"})
     \/ Got(r, "unauthorized", Kinds \ {"logout", "refresh", "boot"}) /\ req[r].again
  /\ req' = [req EXCEPT ![r] = Idle]
  /\ UNCHANGED <<now, fails, server, jar, store, history>>

\* Variant with a bug: a request that failed in another way is sent again, too.
InterceptAny(r) ==
  /\ Got(r, "unauthorized", Kinds \ {"refresh", "boot"}) \/ Got(r, "error", {"call"})
  /\ ~req[r].again
  /\ shared[req[r].tab] = None
  /\ \E q \in Free :
       /\ req' = [req EXCEPT ![r] = [@ EXCEPT !.step = "waiting", !.again = TRUE],
                            ![q] = Sent(req[r].tab, "refresh", None)]
       /\ shared' = [shared EXCEPT ![req[r].tab] = q]
  /\ UNCHANGED <<now, fails, server, jar, access, user, history>>

\* Variant with a bug: a replay that is answered 401 is intercepted again.
InterceptAgain(r) ==
  /\ Got(r, "unauthorized", Kinds \ {"refresh", "boot"})
  /\ shared[req[r].tab] = None
  /\ \E q \in Free :
       /\ req' = [req EXCEPT ![r] = [@ EXCEPT !.step = "waiting", !.again = TRUE],
                            ![q] = Sent(req[r].tab, "refresh", None)]
       /\ shared' = [shared EXCEPT ![req[r].tab] = q]
  /\ UNCHANGED <<now, fails, server, jar, access, user, history>>

\* The interceptor, on a 401 of anything but /auth/refresh that is no replay: the
\* request waits for the refresh of its tab, which it starts if there is none.
Intercept(r) ==
  /\ Got(r, "unauthorized", Kinds \ {"refresh", "boot"})
  /\ ~req[r].again
  /\ LET t == req[r].tab
         waiting == [req EXCEPT ![r] = [@ EXCEPT !.step = "waiting", !.again = TRUE]] IN
       IF shared[t] # None
         THEN /\ req' = waiting
              /\ UNCHANGED shared
         ELSE \E q \in Free :
                /\ req' = [waiting EXCEPT ![q] = Sent(t, "refresh", None)]
                /\ shared' = [shared EXCEPT ![t] = q]
  /\ UNCHANGED <<now, fails, server, jar, access, user, history>>

Waiting(t) == {r \in Requests : req[r].tab = t /\ req[r].step = "waiting"}

\* Variant with a bug: the settled promise is kept.
RefreshedKeepsPromise(q) ==
  /\ Got(q, "ok", {"refresh"})
  /\ LET t == req[q].tab IN
       /\ access' = [access EXCEPT ![t] = req[q].grant]
       /\ req' = [r \in Requests |-> IF r = q \/ r \in Waiting(t) THEN Idle ELSE req[r]]
  /\ UNCHANGED <<now, fails, server, jar, user, shared, history>>

\* The shared refresh succeeds: the token goes into the store, and all that waited
\* are sent again with it.
Refreshed(q) ==
  /\ Got(q, "ok", {"refresh"})
  /\ LET t == req[q].tab IN
       /\ access' = [access EXCEPT ![t] = req[q].grant]
       /\ shared' = [shared EXCEPT ![t] = None]
       /\ req' = [r \in Requests |->
                    IF r = q THEN Idle
                    ELSE IF r \in Waiting(t)
                      THEN [req[r] EXCEPT !.step = "sent", !.status = "none",
                                          !.auth = IF req[r].kind = "login" THEN None
                                                     ELSE req[q].grant]
                    ELSE req[r]]
  /\ UNCHANGED <<now, fails, server, jar, user, history>>

\* It fails, for whatever reason: the store is cleared, all that waited fail.
RefreshFailed(q) ==
  /\ \/ Got(q, "unauthorized", {"refresh"})
     \/ Got(q, "error", {"refresh"})
  /\ LET t == req[q].tab IN
       /\ ClearAuth(t)
       /\ shared' = [shared EXCEPT ![t] = None]
       /\ req' = [r \in Requests |-> IF r = q \/ r \in Waiting(t) THEN Idle ELSE req[r]]
  /\ UNCHANGED <<now, fails, server, jar, history>>

\* bootstrap: the token is stored and GET /me sent with it; then both are stored.
Booted(r) ==
  /\ \/ /\ Got(r, "ok", {"boot"})
        /\ access' = [access EXCEPT ![req[r].tab] = req[r].grant]
        /\ req' = [req EXCEPT ![r] = [@ EXCEPT !.kind = "me", !.step = "sent",
                                              !.auth = req[r].grant, !.status = "none"]]
        /\ UNCHANGED user
     \/ /\ Got(r, "ok", {"me"})
        /\ SetAuth(req[r].tab, req[r].grant)
        /\ req' = [req EXCEPT ![r] = Idle]
  /\ UNCHANGED <<now, fails, server, jar, shared, history>>

\* The answer to a page that is gone: the browser may have stored its cookie.
Orphaned(r) ==
  /\ req[r].step = "reply" /\ req[r].tab = None
  /\ \/ UNCHANGED <<jar, closed>>
     \/ /\ req[r].status = "ok" /\ req[r].kind \in {"login", "register"}
        /\ SetCookie(req[r].jar, req[r].token)
     \/ /\ req[r].status = "ok" /\ req[r].kind = "logout"
        /\ jar' = [jar EXCEPT ![req[r].jar] = None]
        /\ UNCHANGED closed
  /\ req' = [req EXCEPT ![r] = Idle]
  /\ UNCHANGED <<now, fails, server, store, signedAt, twins, revoked>>

ClientStep(r) ==
  \/ SignedIn(r)
  \/ RegisterPauseOver(r)
  \/ SignedOut(r)
  \/ Done(r)
  \/ Intercept(r)
  \/ Refreshed(r)
  \/ RefreshFailed(r)
  \/ Booted(r)
  \/ Orphaned(r)

-----------------------------------------------------------------------------
Tick ==
  /\ now < Horizon
  /\ now' = now + 1
  /\ UNCHANGED <<server, fails, jar, store, req, history>>

UserStep(t) ==
  \/ \E k \in {"login", "register", "password"}, p \in Passwords : Begin(t, k, p)
  \/ \E k \in {"call", "logout"} : Begin(t, k, None)
  \/ Reload(t)

Next ==
  \/ \E t \in Tabs : UserStep(t)
  \/ \E r \in Requests : ServerStep(r) \/ ClientStep(r) \/ Fail(r)
  \/ Tick

Spec == Init /\ [][Next]_vars

\* A request that was sent is handled or fails, and its answer is handled.
\* People and the clock owe nothing.
FairSpec == Spec /\ \A r \in Requests : WF_vars(ServerStep(r) \/ ClientStep(r))

-----------------------------------------------------------------------------
(***************************************************************************)
(* Properties that hold.                                                   *)
(***************************************************************************)
TypeOK ==
  /\ now \in 0..Horizon
  /\ fails \in 0..MaxFails
  /\ password \in Passwords \cup {None}
  /\ hash \in Tokens \cup {None}
  /\ jar \in [Jars -> Tokens \cup {None}]
  /\ access \in [Tabs -> Access \cup {None}]
  /\ user \in [Tabs -> BOOLEAN]
  /\ shared \in [Tabs -> Requests \cup {None}]
  /\ req \in [Requests -> Request]
  /\ signedAt \subseteq Tokens /\ twins \subseteq Tokens /\ revoked \subseteq Tokens
  /\ closed \subseteq Tabs

\* A refresh token that was replaced by a later sign-in, or revoked by a logout or
\* a suspected reuse, is never the stored one again, in whatever order reads and
\* updates of logins, logouts and refreshes are interleaved; but for tokens that
\* two sign-ins of the same second share.
RevokedStaysRevoked == hash \in revoked => hash \in twins

\* Within a tab all requests that were answered 401 wait for one refresh, and that
\* refresh is under way: none waits for an answer that already came.
OneRefreshPerTab ==
  \A t \in Tabs :
    /\ Waiting(t) # {} => shared[t] # None
    /\ \A q \in Requests : req[q].tab = t /\ req[q].kind = "refresh" => shared[t] = q
    /\ shared[t] # None => req[shared[t]].tab = t /\ req[shared[t]].kind = "refresh"

\* A request of a tab takes effect at most once, replays included.
ActsOnce == \A r \in Requests : req[r].acts <= 1

\* A tab whose logout was answered, with no refresh of its browser and no pause of
\* a registration under way, has no access token until somebody signs in in that
\* browser: neither a 401 that comes late nor its refresh brings the session back.
SignedOutStaysOut == \A t \in closed : access[t] = None

\* Every request is over at some time; a 401 never waits for itself.
RequestsSettle == \A r \in Requests : req[r].step # "idle" ~> req[r].step = "idle"
=============================================================================
