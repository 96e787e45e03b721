-------------------------- MODULE Sessions_proofs --------------------------
(***************************************************************************)
(* Proofs about Sessions, for every set of tabs, browsers, requests and    *)
(* passwords, every life time of tokens and every number of failures.      *)
(***************************************************************************)
EXTENDS Sessions, TLAPS

-----------------------------------------------------------------------------
(***************************************************************************)
(* The inductive invariant, in parts.                                      *)
(***************************************************************************)
SignIns == {"login", "register"}
Refreshes == {"refresh", "boot"}

\* What the fields of a slot say about each other.
Shape ==
  \A r \in Requests :
    /\ req[r].step = "idle" => req[r] = Idle
    /\ req[r].step = "pause" => req[r].kind = "register" /\ req[r].tab # None
    /\ req[r].step = "waiting" => req[r].kind \notin Refreshes /\ req[r].tab # None
    /\ req[r].tab # None => req[r].jar = JarOf[req[r].tab]

\* While a page is loaded its tab has no request but the bootstrap and a refresh
\* that the interceptor sends for it.
BootIsAlone ==
  \A r, q \in Requests :
    /\ req[q].tab # None /\ req[r].tab = req[q].tab
    /\ req[q].kind \in {"boot", "me"}
    => r = q \/ req[r].kind = "refresh"

\* A request that may still take effect, or be replayed, took none so far.
NotYetDone ==
  \A r \in Requests :
    /\ req[r].step \in {"sent", "work", "store", "waiting"} => req[r].acts = 0
    /\ req[r].status = "unauthorized" => req[r].acts = 0
    /\ req[r].kind \in Refreshes => req[r].acts = 0

\* A sign-in that signed its tokens and has still to store the hash.
Storing(r) == req[r].step = "store" /\ req[r].kind \in SignIns

\* Every refresh token was signed at a second that has come.
SignedBefore ==
  /\ signedAt \subseteq 0..now
  /\ revoked \subseteq signedAt
  /\ hash # None => hash \in signedAt
  /\ \A r \in Requests : Storing(r) => req[r].token \in signedAt

\* A token that only one sign-in signed is new to the column when it is stored.
StoredOnce ==
  \A r \in Requests :
    Storing(r) /\ req[r].token \notin twins =>
      /\ req[r].token \notin revoked
      /\ req[r].token # hash
      /\ \A q \in Requests : Storing(q) /\ q # r => req[q].token # req[r].token

\* The browser of a tab that is signed out for good has no cookie, none of its
\* refreshes has one, and nothing in that tab is about to store a token.
ClosedHasNoCookie ==
  \A t \in closed :
    /\ jar[JarOf[t]] = None
    /\ \A r \in Requests :
         /\ req[r].jar = JarOf[t] /\ req[r].kind \in Refreshes =>
              req[r].token = None /\ req[r].status # "ok" /\ req[r].step # "work"
         /\ req[r].tab = t => req[r].kind # "me" /\ req[r].step # "pause"

IInv ==
  /\ TypeOK
  /\ Shape
  /\ BootIsAlone
  /\ OneRefreshPerTab
  /\ NotYetDone
  /\ ActsOnce
  /\ SignedBefore
  /\ StoredOnce
  /\ RevokedStaysRevoked
  /\ ClosedHasNoCookie
  /\ SignedOutStaysOut

-----------------------------------------------------------------------------
(***************************************************************************)
(* Requests as records.                                                    *)
(***************************************************************************)
LEMMA IdleFields ==
  /\ Idle \in Request
  /\ Idle.kind = "call" /\ Idle.tab = None /\ Idle.jar = None
  /\ Idle.step = "idle" /\ Idle.status = "none" /\ Idle.acts = 0
  /\ Idle.token = None
BY DEF Idle, Request, Kinds, Steps

\* What a request is when the browser sends it.
LEMMA SentFields ==
  ASSUME TypeOK, NEW t \in Tabs, NEW k \in Kinds, NEW p \in Passwords \cup {None}
  PROVE  /\ Sent(t, k, p) \in Request
         /\ Sent(t, k, p).kind = k
         /\ Sent(t, k, p).tab = t
         /\ Sent(t, k, p).jar = JarOf[t]
         /\ Sent(t, k, p).step = "sent"
         /\ Sent(t, k, p).status = "none"
         /\ Sent(t, k, p).acts = 0
         /\ Sent(t, k, p).token =
              IF k \in {"refresh", "boot"} THEN jar[JarOf[t]] ELSE None
<1> USE SessionAssumption DEF TypeOK
<1>1. JarOf[t] \in Jars /\ access[t] \in Access \cup {None}
      /\ jar[JarOf[t]] \in Tokens \cup {None}
  OBVIOUS
<1>2. Sent(t, k, p) \in Request
  BY <1>1 DEF Sent, Request, Steps
<1> QED
  BY <1>2 DEF Sent

\* What an answer leaves of a request.
LEMMA AnswerFields ==
  ASSUME TypeOK, NEW r \in Requests, NEW s \in {"ok", "unauthorized", "error"}
  PROVE  /\ Answer(r, s) \in Request
         /\ Answer(r, s).kind = req[r].kind
         /\ Answer(r, s).tab = req[r].tab
         /\ Answer(r, s).jar = req[r].jar
         /\ Answer(r, s).step = "reply"
         /\ Answer(r, s).status = s
         /\ Answer(r, s).acts = req[r].acts
         /\ Answer(r, s).token \in {req[r].token, None}
<1> DEFINE c == IF s = "ok" /\ req[r].kind \in {"login", "register"}
                  THEN req[r].token ELSE None
<1>1. req[r] \in Request
  BY DEF TypeOK
<1>2. "reply" \in Steps /\ c \in Tokens \cup {None}
  BY <1>1 DEF Steps, Request
<1>3. Answer(r, s) =
        [req[r] EXCEPT !.step = "reply", !.status = s, !.auth = None,
                       !.read = None, !.token = c]
  BY DEF Answer
<1> HIDE DEF c
<1>4. Answer(r, s) \in Request
  BY <1>1, <1>2, <1>3 DEF Request
<1> QED
  BY <1>1, <1>3, <1>4 DEF Request, c

\* Single fields of a request.
LEMMA FieldTypes ==
  ASSUME NEW x \in Request
  PROVE  /\ \A v \in Steps : [x EXCEPT !.step = v] \in Request
         /\ \A v \in Tokens \cup {None} : [x EXCEPT !.token = v] \in Request
         /\ \A v \in Access \cup {None} : [x EXCEPT !.grant = v] \in Request
         /\ \A v \in Access \cup {None} : [x EXCEPT !.auth = v] \in Request
         /\ \A v \in Passwords \cup {None} : [x EXCEPT !.read = v] \in Request
         /\ \A v \in 0..2 : [x EXCEPT !.acts = v] \in Request
         /\ \A v \in BOOLEAN : [x EXCEPT !.again = v] \in Request
         /\ [x EXCEPT !.tab = None] \in Request
<1>1. /\ \A v \in Steps : [x EXCEPT !.step = v] \in Request
      /\ \A v \in Tokens \cup {None} : [x EXCEPT !.token = v] \in Request
      /\ \A v \in Access \cup {None} : [x EXCEPT !.grant = v] \in Request
  BY DEF Request
<1>2. /\ \A v \in Access \cup {None} : [x EXCEPT !.auth = v] \in Request
      /\ \A v \in Passwords \cup {None} : [x EXCEPT !.read = v] \in Request
      /\ \A v \in 0..2 : [x EXCEPT !.acts = v] \in Request
  BY DEF Request
<1>3. /\ \A v \in BOOLEAN : [x EXCEPT !.again = v] \in Request
      /\ [x EXCEPT !.tab = None] \in Request
  BY DEF Request
<1> QED
  BY <1>1, <1>2, <1>3

\* A step of the server, or a failure, works on one request, which goes on as the
\* same request of the same tab, takes effect at most when it is answered ok, and
\* leaves the browsers alone.
ServerEffect(r) ==
  /\ UNCHANGED <<jar, store, closed>>
  /\ \A q \in Requests \ {r} : req'[q] = req[q]
  /\ req[r].step \in {"sent", "work", "store", "reply"}
  /\ req' \in [Requests -> Request]
  /\ req'[r].kind = req[r].kind
  /\ req'[r].tab = req[r].tab
  /\ req'[r].jar = req[r].jar
  /\ req'[r].step \in {"work", "store", "reply"}
  /\ req'[r].acts # req[r].acts =>
       /\ req[r].step # "reply" /\ req'[r].acts = req[r].acts + 1
       /\ req'[r].step = "reply" /\ req'[r].status = "ok"
       /\ req'[r].kind \notin Refreshes
  /\ req'[r].step # "reply" =>
       /\ req[r].step # "reply"
       /\ req'[r].status = req[r].status
  /\ req'[r].status = "unauthorized" => req[r].step # "reply" \/ req[r].status = "unauthorized"
  /\ req[r].kind \in Refreshes /\ req[r].token = None =>
       /\ req'[r].token = None
       /\ req'[r].status = "ok" => req[r].status = "ok"
       /\ req'[r].step = "work" => req[r].step = "work"

LEMMA ServerActs ==
  ASSUME IInv, NEW r \in Requests, ServerStep(r) \/ Fail(r)
  PROVE  ServerEffect(r)
<1> USE SessionAssumption
<1>0. /\ req \in [Requests -> Request] /\ req[r] \in Request
      /\ req[r].acts \in 0..2
      /\ now \in 0..Horizon /\ now \in Tokens /\ now + AccessTtl \in Access
  <2>1. req \in [Requests -> Request] /\ now \in 0..Horizon
    BY DEF IInv, TypeOK
  <2>2. req[r] \in Request /\ req[r].acts \in 0..2
    BY <2>1 DEF Request
  <2> QED
    BY <2>1, <2>2 DEF Tokens, Access
<1>1. "work" \in Steps /\ "store" \in Steps /\ "reply" \in Steps
  BY DEF Steps
<1>2. \A u \in {"ok", "unauthorized", "error"} :
        /\ Answer(r, u) \in Request
        /\ Answer(r, u).kind = req[r].kind
        /\ Answer(r, u).tab = req[r].tab
        /\ Answer(r, u).jar = req[r].jar
        /\ Answer(r, u).step = "reply"
        /\ Answer(r, u).status = u
        /\ Answer(r, u).acts = req[r].acts
        /\ Answer(r, u).token \in {req[r].token, None}
  BY AnswerFields DEF IInv
<1>3. \A v \in Steps : [req[r] EXCEPT !.step = v] \in Request
  BY <1>0, FieldTypes
<1>4. ASSUME req[r].acts = 0
      PROVE  [Answer(r, "ok") EXCEPT !.acts = @ + 1] \in Request
  <2>1. Answer(r, "ok").acts + 1 \in 0..2
    BY <1>2, <1>4
  <2> QED
    BY <1>2, <2>1, FieldTypes
<1>5. CASE Authenticate(r)
  BY <1>0, <1>1, <1>2, <1>3, <1>4, <1>5
     DEF Authenticate, ServerEffect, IInv, NotYetDone, store, history, Refreshes
<1>6. CASE ReadUser(r)
  <2> DEFINE x == [req[r] EXCEPT !.step = "work", !.read = password]
  <2>1. x \in Request
    <3>1. password \in Passwords \cup {None}
      BY DEF IInv, TypeOK
    <3> QED
      BY <1>0, <1>1, <3>1 DEF Request
  <2>2. /\ x.kind = req[r].kind /\ x.tab = req[r].tab /\ x.jar = req[r].jar
        /\ x.step = "work" /\ x.status = req[r].status /\ x.acts = req[r].acts
        /\ x.token = req[r].token
    BY <1>0 DEF Request
  <2>3. /\ req[r].step \in {"sent", "work"}
        /\ req[r].kind \in {"login", "register", "password"}
        /\ \/ req' = [req EXCEPT ![r] = Answer(r, "error")]
           \/ req' = [req EXCEPT ![r] = Answer(r, "unauthorized")]
           \/ req' = [req EXCEPT ![r] = x]
        /\ UNCHANGED <<jar, store, closed>>
    BY <1>6 DEF ReadUser, history
  <2> HIDE DEF x
  <2> QED
    BY <1>0, <1>2, <2>1, <2>2, <2>3 DEF ServerEffect, Refreshes
<1>7. CASE LoginSign(r)
  <2> DEFINE x == [req[r] EXCEPT !.step = "store", !.token = now]
  <2>1. x \in Request
    BY <1>0, <1>1 DEF Request
  <2>2. /\ x.kind = req[r].kind /\ x.tab = req[r].tab /\ x.jar = req[r].jar
        /\ x.step = "store" /\ x.status = req[r].status /\ x.acts = req[r].acts
    BY <1>0 DEF Request
  <2>3. /\ req[r].step = "work" /\ req[r].kind \in {"login", "register"}
        /\ \/ req' = [req EXCEPT ![r] = Answer(r, "unauthorized")]
           \/ req' = [req EXCEPT ![r] = x]
        /\ UNCHANGED <<jar, store, closed>>
    BY <1>7 DEF LoginSign
  <2> HIDE DEF x
  <2> QED
    BY <1>0, <1>2, <2>1, <2>2, <2>3 DEF ServerEffect, Refreshes
<1>8. CASE RegisterCreate(r)
  <2> DEFINE x == [req[r] EXCEPT !.step = "store", !.token = now]
  <2>1. x \in Request
    BY <1>0, <1>1 DEF Request
  <2>2. /\ x.kind = req[r].kind /\ x.tab = req[r].tab /\ x.jar = req[r].jar
        /\ x.step = "store" /\ x.status = req[r].status /\ x.acts = req[r].acts
    BY <1>0 DEF Request
  <2>3. /\ req[r].step = "work" /\ req[r].kind \in {"login", "register"}
        /\ \/ req' = [req EXCEPT ![r] = Answer(r, "error")]
           \/ req' = [req EXCEPT ![r] = x]
        /\ UNCHANGED <<jar, store, closed>>
    BY <1>8 DEF RegisterCreate
  <2> HIDE DEF x
  <2> QED
    BY <1>0, <1>2, <2>1, <2>2, <2>3 DEF ServerEffect, Refreshes
<1>9. CASE StoreToken(r)
  <2> DEFINE x == [Answer(r, "ok") EXCEPT !.grant = req[r].token + AccessTtl,
                                          !.acts = @ + 1]
  <2>1. req[r].acts = 0 /\ req[r].token + AccessTtl \in Access
    <3>1. req[r].acts = 0
      BY <1>9 DEF StoreToken, IInv, NotYetDone
    <3>2. req[r].token \in 0..now
      BY <1>9 DEF StoreToken, IInv, SignedBefore, Storing, SignIns
    <3> QED
      BY <1>0, <3>1, <3>2 DEF Access
  <2>2. x \in Request
    <3> DEFINE y == Answer(r, "ok")
    <3>1. y \in Request /\ y.acts + 1 \in 0..2
      BY <1>2, <2>1
    <3>2. ASSUME NEW g \in Access
          PROVE  [y EXCEPT !.grant = g, !.acts = y.acts + 1] \in Request
      <4> HIDE DEF y
      <4> QED
        BY <3>1 DEF Request
    <3> QED
      BY <2>1, <3>2
  <2>3. /\ x.kind = req[r].kind /\ x.tab = req[r].tab /\ x.jar = req[r].jar
        /\ x.step = "reply" /\ x.status = "ok" /\ x.acts = req[r].acts + 1
    BY <1>2 DEF Request
  <2>4. /\ req[r].step = "store" /\ req[r].kind \in {"login", "register"}
        /\ req' = [req EXCEPT ![r] = x]
        /\ UNCHANGED <<jar, store, closed>>
    BY <1>9 DEF StoreToken
  <2> HIDE DEF x
  <2> QED
    BY <1>0, <2>2, <2>3, <2>4 DEF ServerEffect, Refreshes
<1>10. CASE ComparePassword(r)
  BY <1>0, <1>1, <1>2, <1>3, <1>10
     DEF ComparePassword, ServerEffect, store, history, Refreshes
<1>11. CASE StorePassword(r)
  BY <1>0, <1>1, <1>2, <1>3, <1>4, <1>11
     DEF StorePassword, ServerEffect, store, history, Refreshes, IInv, NotYetDone
<1>12. CASE Logout(r)
  BY <1>0, <1>1, <1>2, <1>3, <1>4, <1>12
     DEF Logout, ServerEffect, store, Refreshes, IInv, NotYetDone
<1>13. CASE RefreshRead(r)
  <2> DEFINE x == [Answer(r, "ok") EXCEPT !.grant = now + AccessTtl]
             y == [req[r] EXCEPT !.step = "work"]
  <2>1. x \in Request /\ y \in Request
    BY <1>0, <1>1, <1>2, <1>3, FieldTypes
  <2>2. /\ x.kind = req[r].kind /\ x.tab = req[r].tab /\ x.jar = req[r].jar
        /\ x.step = "reply" /\ x.status = "ok" /\ x.acts = req[r].acts
    BY <1>2 DEF Request
  <2>3. /\ y.kind = req[r].kind /\ y.tab = req[r].tab /\ y.jar = req[r].jar
        /\ y.step = "work" /\ y.status = req[r].status /\ y.acts = req[r].acts
    BY <1>0 DEF Request
  <2>4. /\ req[r].step = "sent" /\ req[r].kind \in {"refresh", "boot"}
        /\ \/ req' = [req EXCEPT ![r] = Answer(r, "unauthorized")]
           \/ req[r].token # None /\ req' = [req EXCEPT ![r] = x]
           \/ req[r].token # None /\ req' = [req EXCEPT ![r] = y]
        /\ UNCHANGED <<jar, store, closed>>
    BY <1>13 DEF RefreshRead, Expired, history
  <2> HIDE DEF x, y
  <2> QED
    BY <1>0, <1>2, <2>1, <2>2, <2>3, <2>4 DEF ServerEffect, Refreshes
<1>14. CASE RefreshReuse(r)
  BY <1>0, <1>1, <1>2, <1>3, <1>14
     DEF RefreshReuse, ServerEffect, store, Refreshes
<1>15. CASE Fail(r)
  BY <1>0, <1>1, <1>2, <1>3, <1>15
     DEF Fail, ServerEffect, store, history, Refreshes
<1> QED
  BY <1>5, <1>6, <1>7, <1>8, <1>9, <1>10, <1>11, <1>12, <1>13, <1>14, <1>15
     DEF ServerStep

-----------------------------------------------------------------------------
(***************************************************************************)
(* Type correctness.                                                       *)
(***************************************************************************)
LEMMA SlotType ==
  ASSUME TypeOK, NEW r \in Requests
  PROVE  /\ req[r] \in Request
         /\ req[r].kind \in Kinds
         /\ req[r].tab \in Tabs \cup {None}
         /\ req[r].jar \in Jars \cup {None}
         /\ req[r].grant \in Access \cup {None}
         /\ req[r].token \in Tokens \cup {None}
         /\ req[r].typed \in Passwords \cup {None}
<1>1. req[r] \in Request
  BY DEF TypeOK
<1> QED
  BY <1>1 DEF Request

\* The requests of a page that is loaded again.
LEMMA ReloadType ==
  ASSUME TypeOK, NEW t \in Tabs, Reload(t)
  PROVE  req' \in [Requests -> Request]
<1>1. Sent(t, "boot", None) \in Request
  BY SentFields DEF Kinds
<1>2. \A q \in Requests : [req[q] EXCEPT !.tab = None] \in Request
  BY SlotType, FieldTypes
<1>3. \A q \in Requests : req[q] \in Request
  BY SlotType
<1> QED
  BY <1>1, <1>2, <1>3, IdleFields DEF Reload

\* A request that was answered 401 waits, and a refresh may be sent for it.
LEMMA InterceptType ==
  ASSUME TypeOK, NEW r \in Requests, Intercept(r)
  PROVE  req' \in [Requests -> Request]
<1> DEFINE x == [req[r] EXCEPT !.step = "waiting", !.again = TRUE]
<1>1. req[r].tab \in Tabs
  BY SlotType DEF Intercept, Got
<1>2. x \in Request
  <2>1. req[r] \in Request /\ "waiting" \in Steps
    BY SlotType DEF Steps
  <2> QED
    BY <2>1 DEF Request
<1>3. Sent(req[r].tab, "refresh", None) \in Request
  BY <1>1, SentFields DEF Kinds
<1> HIDE DEF x
<1>4. req \in [Requests -> Request]
  BY DEF TypeOK
<1>5. CASE req' = [req EXCEPT ![r] = x]
  BY <1>2, <1>4, <1>5
<1>6. CASE \E q \in Free : req' = [[req EXCEPT ![r] = x] EXCEPT ![q] = Sent(req[r].tab, "refresh", None)]
  BY <1>2, <1>3, <1>4, <1>6 DEF Free
<1> QED
  BY <1>5, <1>6 DEF Intercept, x

\* Those that waited for a refresh are sent again with its token.
LEMMA RefreshedType ==
  ASSUME TypeOK, NEW q \in Requests, Refreshed(q)
  PROVE  req' \in [Requests -> Request]
<1>1. req[q].grant \in Access \cup {None}
  BY SlotType
<1>2. \A r \in Requests : \A a \in Access \cup {None} :
        [req[r] EXCEPT !.step = "sent", !.status = "none", !.auth = a] \in Request
  <2>1. \A r \in Requests : req[r] \in Request
    BY SlotType
  <2>2. "sent" \in Steps
    BY DEF Steps
  <2> QED
    BY <2>1, <2>2, ZenonT(60) DEF Request
<1>3. \A r \in Requests :
        [req[r] EXCEPT !.step = "sent", !.status = "none",
                       !.auth = IF req[r].kind = "login" THEN None
                                  ELSE req[q].grant] \in Request
  BY <1>1, <1>2
<1>4. \A r \in Requests : req[r] \in Request
  BY SlotType
<1> QED
  BY <1>3, <1>4, IdleFields DEF Refreshed

\* The bootstrap goes on with GET /me.
LEMMA BootedType ==
  ASSUME TypeOK, NEW r \in Requests, Booted(r)
  PROVE  req' \in [Requests -> Request]
<1> DEFINE x == [req[r] EXCEPT !.kind = "me", !.step = "sent",
                               !.auth = req[r].grant, !.status = "none"]
<1>1. req[r] \in Request /\ req[r].grant \in Access \cup {None}
  BY SlotType
<1>2. "sent" \in Steps /\ "me" \in Kinds
  BY DEF Steps, Kinds
<1>3. x \in Request
  BY <1>1, <1>2 DEF Request
<1>4. req' = [req EXCEPT ![r] = x] \/ req' = [req EXCEPT ![r] = Idle]
  BY DEF Booted
<1> QED
  BY <1>3, <1>4, IdleFields DEF TypeOK

\* What the server's own variables and histories become.
LEMMA ServerType ==
  ASSUME IInv, NEW r \in Requests, ServerStep(r) \/ Fail(r)
  PROVE  /\ UNCHANGED now
         /\ fails' \in 0..MaxFails
         /\ password' \in Passwords \cup {None}
         /\ hash' \in Tokens \cup {None}
         /\ signedAt' \subseteq Tokens /\ twins' \subseteq Tokens
         /\ revoked' \subseteq Tokens
<1> USE SessionAssumption
<1>1. /\ now \in 0..Horizon /\ now \in Tokens
      /\ fails \in 0..MaxFails
      /\ password \in Passwords \cup {None}
      /\ hash \in Tokens \cup {None}
      /\ signedAt \subseteq Tokens /\ twins \subseteq Tokens
      /\ revoked \subseteq Tokens
      /\ req[r].token \in Tokens \cup {None}
      /\ req[r].typed \in Passwords \cup {None}
  BY SlotType DEF IInv, TypeOK, Tokens
<1>2. CASE Authenticate(r) \/ ReadUser(r) \/ ComparePassword(r) \/ RefreshRead(r)
  BY <1>1, <1>2 DEF Authenticate, ReadUser, ComparePassword, RefreshRead, server, history
<1>3. CASE LoginSign(r) \/ RegisterCreate(r)
  BY <1>1, <1>3 DEF LoginSign, RegisterCreate, Sign, server
<1>4. CASE StoreToken(r) \/ Logout(r) \/ RefreshReuse(r)
  BY <1>1, <1>4 DEF StoreToken, Logout, RefreshReuse, SetHash
<1>5. CASE StorePassword(r)
  BY <1>1, <1>5 DEF StorePassword, history
<1>6. CASE Fail(r)
  BY <1>1, <1>6 DEF Fail, server, history
<1> QED
  BY <1>2, <1>3, <1>4, <1>5, <1>6 DEF ServerStep

\* Every step keeps the shape of the state.
LEMMA TypeStep == IInv /\ [Next]_vars => TypeOK'
<1> SUFFICES ASSUME IInv, [Next]_vars PROVE TypeOK'
  OBVIOUS
<1> USE SessionAssumption
<1>0. TypeOK
  BY DEF IInv
<1>1. ASSUME NEW t \in Tabs, NEW k \in Kinds, NEW p \in Passwords \cup {None},
             Begin(t, k, p)
      PROVE  TypeOK'
  <2>1. Sent(t, k, p) \in Request
    BY <1>0, SentFields
  <2> QED
    BY <1>0, <1>1, <2>1 DEF Begin, TypeOK, Free, server, store, history
<1>2. ASSUME NEW t \in Tabs, Reload(t)
      PROVE  TypeOK'
  <2>1. req' \in [Requests -> Request]
    BY <1>0, <1>2, ReloadType
  <2> QED
    BY <1>0, <1>2, <2>1 DEF Reload, TypeOK, server, history
<1>3. ASSUME NEW r \in Requests, ServerStep(r) \/ Fail(r)
      PROVE  TypeOK'
  BY <1>0, <1>3, ServerActs, ServerType DEF TypeOK, ServerEffect, store
<1>4. ASSUME NEW r \in Requests, SignedIn(r)
      PROVE  TypeOK'
  <2>1. /\ req[r].jar \in Jars \cup {None} /\ req[r].tab \in Tabs
        /\ req[r].token \in Tokens \cup {None}
        /\ req[r].grant \in Access \cup {None}
    BY <1>0, <1>4, SlotType DEF SignedIn, Got
  <2>2. [req[r] EXCEPT !.step = "pause"] \in Request
    BY <1>0, SlotType, FieldTypes DEF Steps
  <2>3. req' \in [Requests -> Request]
    BY <1>0, <1>4, <2>2, IdleFields DEF SignedIn, TypeOK
  <2> QED
    BY <1>0, <1>4, <2>1, <2>3 DEF SignedIn, SetCookie, SetAuth, TypeOK, server
<1>5. ASSUME NEW r \in Requests, RegisterPauseOver(r)
      PROVE  TypeOK'
  BY <1>0, <1>5, SlotType, IdleFields
     DEF RegisterPauseOver, SetAuth, TypeOK, server, history
<1>6. ASSUME NEW r \in Requests, SignedOut(r)
      PROVE  TypeOK'
  <2>1. req[r].tab \in Tabs
    BY <1>0, <1>6, SlotType DEF SignedOut, Got
  <2> QED
    BY <1>0, <1>6, <2>1, IdleFields DEF SignedOut, ClearAuth, TypeOK, server
<1>7. ASSUME NEW r \in Requests, Done(r)
      PROVE  TypeOK'
  BY <1>0, <1>7, IdleFields DEF Done, TypeOK, server, store, history
<1>8. ASSUME NEW r \in Requests, Intercept(r)
      PROVE  TypeOK'
  <2>1. req' \in [Requests -> Request]
    BY <1>0, <1>8, InterceptType
  <2> QED
    BY <1>0, <1>8, <2>1 DEF Intercept, Free, TypeOK, server, history
<1>9. ASSUME NEW q \in Requests, Refreshed(q)
      PROVE  TypeOK'
  <2>1. req' \in [Requests -> Request] /\ req[q].grant \in Access \cup {None}
    BY <1>0, <1>9, RefreshedType, SlotType
  <2> QED
    BY <1>0, <1>9, <2>1 DEF Refreshed, TypeOK, server, history
<1>10. ASSUME NEW q \in Requests, RefreshFailed(q)
       PROVE  TypeOK'
  <2>1. \A r \in Requests : req[r] \in Request
    BY <1>0, SlotType
  <2>2. req' \in [Requests -> Request]
    BY <1>10, <2>1, IdleFields DEF RefreshFailed
  <2> QED
    BY <1>0, <1>10, <2>2 DEF RefreshFailed, ClearAuth, TypeOK, server, history
<1>11. ASSUME NEW r \in Requests, Booted(r)
       PROVE  TypeOK'
  <2>1. req' \in [Requests -> Request] /\ req[r].grant \in Access \cup {None}
    BY <1>0, <1>11, BootedType, SlotType
  <2> QED
    BY <1>0, <1>11, <2>1 DEF Booted, SetAuth, TypeOK, server, history
<1>12. ASSUME NEW r \in Requests, Orphaned(r)
       PROVE  TypeOK'
  <2>1. req[r].token \in Tokens \cup {None}
    BY <1>0, SlotType
  <2> QED
    BY <1>0, <1>12, <2>1, IdleFields DEF Orphaned, SetCookie, TypeOK, server, store
<1>13. CASE Tick
  BY <1>0, <1>13 DEF Tick, TypeOK, server, store, history
<1>14. CASE UNCHANGED vars
  BY <1>0, <1>14 DEF vars, TypeOK, server, store, history
<1> QED
  BY <1>1, <1>2, <1>3, <1>4, <1>5, <1>6, <1>7, <1>8, <1>9, <1>10, <1>11, <1>12,
     <1>13, <1>14 DEF Next, UserStep, ClientStep, Kinds

-----------------------------------------------------------------------------
(***************************************************************************)
(* What the steps of a browser do to the requests.                         *)
(***************************************************************************)
\* r goes on as the same request, from step s on and with status u.
GoesOn(r, s, u) ==
  /\ req'[r].kind = req[r].kind
  /\ req'[r].tab = req[r].tab
  /\ req'[r].jar = req[r].jar
  /\ req'[r].token = req[r].token
  /\ req'[r].acts = req[r].acts
  /\ req'[r].step = s
  /\ req'[r].status = u

\* Slot r is given to a request of kind k of tab t.
IsSent(r, t, k) ==
  /\ r \in Free
  /\ req'[r].kind = k
  /\ req'[r].tab = t
  /\ req'[r].jar = JarOf[t]
  /\ req'[r].token = IF k \in {"refresh", "boot"} THEN jar[JarOf[t]] ELSE None
  /\ req'[r].acts = 0
  /\ req'[r].step = "sent"
  /\ req'[r].status = "none"

OthersStay(S) == \A q \in Requests \ S : req'[q] = req[q]

BeginEffect(t, k) ==
  /\ UNCHANGED <<jar, store, closed>>
  /\ \E r \in Free : IsSent(r, t, k) /\ OthersStay({r})

\* A page that is left keeps no request: they go on without it, or are forgotten.
ReloadEffect(t) ==
  /\ access' = [access EXCEPT ![t] = None]
  /\ shared' = [shared EXCEPT ![t] = None]
  /\ UNCHANGED <<jar, closed>>
  /\ \E r \in Free :
       /\ IsSent(r, t, "boot")
       /\ \A q \in Requests \ {r} :
            \/ req[q].tab # t /\ req'[q] = req[q]
            \/ req[q].tab = t /\ req'[q] = Idle
            \/ /\ req[q].tab = t /\ req[q].step \notin {"waiting", "pause"}
               /\ req'[q].kind = req[q].kind
               /\ req'[q].tab = None
               /\ req'[q].jar = req[q].jar
               /\ req'[q].token = req[q].token
               /\ req'[q].acts = req[q].acts
               /\ req'[q].step = req[q].step
               /\ req'[q].status = req[q].status
               /\ req[q].step = "idle" => req'[q] = Idle

SignedInEffect(r) ==
  /\ req[r].step = "reply" /\ req[r].status = "ok"
  /\ req[r].tab \in Tabs /\ req[r].kind \in SignIns
  /\ closed' = closed \ TabsOf(req[r].jar)
  /\ jar' = [jar EXCEPT ![req[r].jar] = req[r].token]
  /\ UNCHANGED shared
  /\ OthersStay({r})
  /\ \/ /\ req[r].kind = "login" /\ req'[r] = Idle
        /\ access' = [access EXCEPT ![req[r].tab] = req[r].grant]
     \/ /\ req[r].kind = "register" /\ GoesOn(r, "pause", "ok")
        /\ UNCHANGED access

\* The request waits; it joins the refresh of its tab, or sends one.
InterceptEffect(r) ==
  /\ req[r].tab \in Tabs /\ req[r].step = "reply"
  /\ req[r].kind \notin Refreshes /\ req[r].status = "unauthorized"
  /\ GoesOn(r, "waiting", "unauthorized")
  /\ UNCHANGED <<jar, access, closed>>
  /\ \/ /\ shared[req[r].tab] # None
        /\ OthersStay({r}) /\ UNCHANGED shared
     \/ /\ shared[req[r].tab] = None
        /\ \E q \in Free :
             /\ IsSent(q, req[r].tab, "refresh")
             /\ OthersStay({r, q})
             /\ shared' = [shared EXCEPT ![req[r].tab] = q]

RefreshedEffect(q) ==
  /\ req[q].tab \in Tabs /\ req[q].kind = "refresh"
  /\ req[q].step = "reply" /\ req[q].status = "ok"
  /\ access' = [access EXCEPT ![req[q].tab] = req[q].grant]
  /\ shared' = [shared EXCEPT ![req[q].tab] = None]
  /\ UNCHANGED <<jar, closed>>
  /\ req'[q] = Idle
  /\ \A r \in Waiting(req[q].tab) : GoesOn(r, "sent", "none")
  /\ OthersStay({q} \cup Waiting(req[q].tab))

BootedEffect(r) ==
  /\ req[r].tab \in Tabs /\ req[r].step = "reply" /\ req[r].status = "ok"
  /\ access' = [access EXCEPT ![req[r].tab] = req[r].grant]
  /\ UNCHANGED <<jar, shared, closed>>
  /\ OthersStay({r})
  /\ \/ req[r].kind = "me" /\ req'[r] = Idle
     \/ /\ req[r].kind = "boot" /\ req'[r].kind = "me"
        /\ req'[r].tab = req[r].tab /\ req'[r].jar = req[r].jar
        /\ req'[r].acts = req[r].acts
        /\ req'[r].step = "sent" /\ req'[r].status = "none"

LEMMA BeginActs ==
  ASSUME TypeOK, NEW t \in Tabs, NEW k \in Kinds, NEW p \in Passwords \cup {None},
         Begin(t, k, p)
  PROVE  BeginEffect(t, k)
BY SentFields DEF Begin, BeginEffect, IsSent, OthersStay, Free, TypeOK, store, history

LEMMA ReloadActs ==
  ASSUME TypeOK, Shape, NEW t \in Tabs, Reload(t)
  PROVE  ReloadEffect(t)
<1>1. PICK r \in Free :
        req' = [q \in Requests |->
                 IF q = r THEN Sent(t, "boot", None)
                 ELSE IF req[q].tab # t THEN req[q]
                 ELSE IF req[q].step \in {"waiting", "pause"} THEN Idle
                 ELSE [req[q] EXCEPT !.tab = None]]
  BY DEF Reload
<1>2. IsSent(r, t, "boot")
  BY <1>1, SentFields DEF IsSent, Free, Kinds
<1>3. ASSUME NEW q \in Requests \ {r}, req[q].tab = t,
             req[q].step \notin {"waiting", "pause"}
      PROVE  /\ req[q].step # "idle"
             /\ req'[q].kind = req[q].kind
             /\ req'[q].tab = None
             /\ req'[q].jar = req[q].jar
             /\ req'[q].token = req[q].token
             /\ req'[q].acts = req[q].acts
             /\ req'[q].step = req[q].step
             /\ req'[q].status = req[q].status
  <2>1. req[q] \in Request
    BY SlotType
  <2>2. req[q].step # "idle"
    BY <1>3, IdleFields, SessionAssumption DEF Shape
  <2>3. req'[q] = [req[q] EXCEPT !.tab = None]
    BY <1>1, <1>3
  <2> QED
    BY <2>1, <2>2, <2>3, SMTT(30) DEF Request
<1>4. ASSUME NEW q \in Requests \ {r}
      PROVE  \/ req[q].tab # t /\ req'[q] = req[q]
             \/ req[q].tab = t /\ req'[q] = Idle
             \/ req[q].tab = t /\ req[q].step \notin {"waiting", "pause"}
  BY <1>1
<1> QED
  BY <1>2, <1>3, <1>4 DEF Reload, ReloadEffect, history

LEMMA SignedInActs ==
  ASSUME TypeOK, NEW r \in Requests, SignedIn(r)
  PROVE  SignedInEffect(r)
<1>0. req[r].tab \in Tabs
  BY SlotType DEF SignedIn, Got
<1>1. req \in [Requests -> Request] /\ req[r] \in Request
  BY SlotType DEF TypeOK
<1>2. CASE req[r].kind = "login"
  BY <1>0, <1>1, <1>2 DEF SignedIn, Got, SetAuth, SetCookie, SignedInEffect, SignIns, OthersStay
<1>3. CASE req[r].kind # "login"
  <2>1. req[r].status = "ok" /\ req' = [req EXCEPT ![r] = [req[r] EXCEPT !.step = "pause"]]
    BY <1>3 DEF SignedIn, Got
  <2>2. GoesOn(r, "pause", "ok") /\ OthersStay({r})
    BY <1>1, <1>3, <2>1 DEF OthersStay, GoesOn, Request
  <2> QED
    BY <1>0, <1>3, <2>2 DEF SignedIn, Got, SetCookie, SignedInEffect, SignIns
<1> QED
  BY <1>2, <1>3

LEMMA InterceptActs ==
  ASSUME TypeOK, NEW r \in Requests, Intercept(r)
  PROVE  InterceptEffect(r)
<1> DEFINE x == [req[r] EXCEPT !.step = "waiting", !.again = TRUE]
           t == req[r].tab
<1>1. /\ t \in Tabs /\ req[r].step = "reply"
      /\ req[r].kind \notin Refreshes /\ req[r].status = "unauthorized"
      /\ UNCHANGED <<jar, access, closed>>
  BY SlotType DEF Intercept, Got, Refreshes, history
<1>2. req \in [Requests -> Request] /\ req[r] \in Request
  BY SlotType DEF TypeOK
<1>3. /\ x.kind = req[r].kind /\ x.tab = t /\ x.jar = req[r].jar
      /\ x.token = req[r].token /\ x.acts = req[r].acts
      /\ x.step = "waiting" /\ x.status = req[r].status
  BY <1>2 DEF Request
<1>4. \/ shared[t] # None /\ req' = [req EXCEPT ![r] = x] /\ UNCHANGED shared
      \/ /\ shared[t] = None
         /\ \E q \in Free :
              /\ req' = [[req EXCEPT ![r] = x] EXCEPT ![q] = Sent(t, "refresh", None)]
              /\ shared' = [shared EXCEPT ![t] = q]
  BY DEF Intercept
<1> HIDE DEF x, t
<1>5. CASE shared[t] # None
  BY <1>1, <1>2, <1>3, <1>4, <1>5 DEF InterceptEffect, GoesOn, OthersStay, t
<1>6. CASE shared[t] = None
  <2>1. PICK q \in Free :
          /\ req' = [[req EXCEPT ![r] = x] EXCEPT ![q] = Sent(t, "refresh", None)]
          /\ shared' = [shared EXCEPT ![t] = q]
    BY <1>4, <1>6
  <2>2. q \in Requests /\ q # r
    BY <1>1 DEF Free
  <2>3. req'[q] = Sent(t, "refresh", None) /\ req'[r] = x /\ OthersStay({r, q})
    BY <1>2, <2>1, <2>2 DEF OthersStay
  <2>4. IsSent(q, t, "refresh")
    BY <1>1, <2>3, SentFields DEF IsSent, Kinds
  <2>5. GoesOn(r, "waiting", "unauthorized")
    BY <1>1, <1>3, <2>3 DEF GoesOn, t
  <2> QED
    BY <1>1, <1>6, <2>1, <2>3, <2>4, <2>5 DEF InterceptEffect, t
<1> QED
  BY <1>5, <1>6

LEMMA RefreshedActs ==
  ASSUME TypeOK, NEW q \in Requests, Refreshed(q)
  PROVE  RefreshedEffect(q)
<1>1. /\ req[q].tab \in Tabs /\ req[q].kind = "refresh"
      /\ req[q].step = "reply" /\ req[q].status = "ok"
  BY SlotType DEF Refreshed, Got
<1>2. ASSUME NEW r \in Waiting(req[q].tab)
      PROVE  GoesOn(r, "sent", "none")
  <2>1. r \in Requests /\ r # q /\ req[r] \in Request
    BY <1>1, SlotType DEF Waiting
  <2>2. req'[r] = [req[r] EXCEPT !.step = "sent", !.status = "none",
                                 !.auth = IF req[r].kind = "login" THEN None
                                            ELSE req[q].grant]
    BY <1>2, <2>1 DEF Refreshed
  <2> QED
    BY <2>1, <2>2 DEF GoesOn, Request
<1> QED
  BY <1>1, <1>2 DEF Refreshed, RefreshedEffect, OthersStay, history

LEMMA BootedActs ==
  ASSUME TypeOK, NEW r \in Requests, Booted(r)
  PROVE  BootedEffect(r)
<1> DEFINE x == [req[r] EXCEPT !.kind = "me", !.step = "sent",
                               !.auth = req[r].grant, !.status = "none"]
<1>1. req \in [Requests -> Request] /\ req[r] \in Request
  BY SlotType DEF TypeOK
<1>2. /\ x.kind = "me" /\ x.tab = req[r].tab /\ x.jar = req[r].jar
      /\ x.acts = req[r].acts /\ x.step = "sent" /\ x.status = "none"
  BY <1>1 DEF Request
<1>3. /\ req[r].tab \in Tabs /\ req[r].step = "reply" /\ req[r].status = "ok"
      /\ access' = [access EXCEPT ![req[r].tab] = req[r].grant]
      /\ UNCHANGED <<jar, shared, closed>>
      /\ \/ req[r].kind = "me" /\ req' = [req EXCEPT ![r] = Idle]
         \/ req[r].kind = "boot" /\ req' = [req EXCEPT ![r] = x]
  BY SlotType DEF Booted, Got, SetAuth, history
<1> HIDE DEF x
<1> QED
  BY <1>1, <1>2, <1>3 DEF BootedEffect, OthersStay

-----------------------------------------------------------------------------
(***************************************************************************)
(* The parts of the invariant.                                             *)
(***************************************************************************)
\* The slots keep their shape.
LEMMA ShapeStep == IInv /\ [Next]_vars => Shape'
<1> SUFFICES ASSUME IInv, [Next]_vars PROVE Shape'
  OBVIOUS
<1> USE SessionAssumption
<1>0. /\ TypeOK /\ TypeOK' /\ IInv /\ Shape
      /\ req \in [Requests -> Request]
      /\ \A r \in Requests : req[r].tab \in Tabs \cup {None}
  BY TypeStep, SlotType DEF IInv, TypeOK
<1>1. ASSUME NEW t \in Tabs, NEW k \in Kinds, NEW p \in Passwords \cup {None},
             Begin(t, k, p)
      PROVE  Shape'
  <2>1. BeginEffect(t, k)
    BY <1>0, <1>1, BeginActs
  <2> QED
    BY <1>0, <2>1, IdleFields
       DEF BeginEffect, IsSent, OthersStay, store, Free, Shape, Refreshes
<1>2. ASSUME NEW t \in Tabs, Reload(t)
      PROVE  Shape'
  <2>1. ReloadEffect(t)
    BY <1>0, <1>2, ReloadActs
  <2> QED
    BY <1>0, <2>1, IdleFields DEF ReloadEffect, IsSent, Free, Shape, Refreshes
<1>3. ASSUME NEW r \in Requests, ServerStep(r) \/ Fail(r)
      PROVE  Shape'
  <2>1. ServerEffect(r)
    BY <1>0, <1>3, ServerActs
  <2> QED
    BY <1>0, <2>1, IdleFields DEF ServerEffect, store, Shape, Refreshes
<1>4. ASSUME NEW r \in Requests, SignedIn(r)
      PROVE  Shape'
  <2>1. SignedInEffect(r)
    BY <1>0, <1>4, SignedInActs
  <2> QED
    BY <1>0, <2>1, IdleFields
       DEF SignedInEffect, OthersStay, GoesOn, Shape, Refreshes
<1>5. ASSUME NEW r \in Requests, RegisterPauseOver(r)
      PROVE  Shape'
  BY <1>0, <1>5, IdleFields
     DEF RegisterPauseOver, SetAuth, server, history, Shape, Refreshes
<1>6. ASSUME NEW r \in Requests, SignedOut(r)
      PROVE  Shape'
  BY <1>0, <1>6, IdleFields
     DEF SignedOut, Got, ClearAuth, server, Shape, Refreshes
<1>7. ASSUME NEW r \in Requests, Done(r)
      PROVE  Shape'
  BY <1>0, <1>7, IdleFields
     DEF Done, Got, server, store, history, Shape, Refreshes
<1>8. ASSUME NEW r \in Requests, Intercept(r)
      PROVE  Shape'
  <2>1. InterceptEffect(r)
    BY <1>0, <1>8, InterceptActs
  <2> QED
    BY <1>0, <2>1, IdleFields
       DEF InterceptEffect, IsSent, OthersStay, GoesOn, Free, Shape, Refreshes
<1>9. ASSUME NEW q \in Requests, Refreshed(q)
      PROVE  Shape'
  <2>1. RefreshedEffect(q)
    BY <1>0, <1>9, RefreshedActs
  <2> QED
    BY <1>0, <2>1, IdleFields
       DEF RefreshedEffect, OthersStay, GoesOn, Waiting, Shape, Refreshes
<1>10. ASSUME NEW q \in Requests, RefreshFailed(q)
       PROVE  Shape'
  BY <1>0, <1>10, IdleFields
     DEF RefreshFailed, Got, ClearAuth, Waiting, server, history, Shape,
         Refreshes
<1>11. ASSUME NEW r \in Requests, Booted(r)
       PROVE  Shape'
  <2>1. BootedEffect(r)
    BY <1>0, <1>11, BootedActs
  <2> QED
    BY <1>0, <2>1, IdleFields DEF BootedEffect, OthersStay, Shape, Refreshes
<1>12. ASSUME NEW r \in Requests, Orphaned(r)
       PROVE  Shape'
  BY <1>0, <1>12, IdleFields
     DEF Orphaned, SetCookie, server, store, Shape, Refreshes
<1>13. CASE Tick
  BY <1>0, <1>13 DEF Tick, server, store, history, Shape, Refreshes
<1>14. CASE UNCHANGED vars
  BY <1>0, <1>14 DEF vars, server, store, history, Shape, Refreshes
<1> QED
  BY <1>1, <1>2, <1>3, <1>4, <1>5, <1>6, <1>7, <1>8, <1>9, <1>10, <1>11, <1>12,
     <1>13, <1>14 DEF Next, UserStep, ClientStep, Kinds

\* The bootstrap of a page stays alone.
LEMMA BootStep == IInv /\ [Next]_vars => BootIsAlone'
<1> SUFFICES ASSUME IInv, [Next]_vars PROVE BootIsAlone'
  OBVIOUS
<1> USE SessionAssumption
<1>0. /\ TypeOK /\ TypeOK' /\ IInv /\ Shape /\ BootIsAlone
      /\ req \in [Requests -> Request]
      /\ \A r \in Requests : req[r].tab \in Tabs \cup {None}
  BY TypeStep, SlotType DEF IInv, TypeOK
<1>1. ASSUME NEW t \in Tabs, NEW k \in Kinds, NEW p \in Passwords \cup {None},
             Begin(t, k, p)
      PROVE  BootIsAlone'
  <2>1. BeginEffect(t, k)
    BY <1>0, <1>1, BeginActs
  <2>2. k \notin {"boot", "me", "refresh"} /\ ~Booting(t)
    BY <1>1 DEF Begin, Offered
  <2> QED
    BY <1>0, <2>1, <2>2, IdleFields
       DEF BeginEffect, IsSent, OthersStay, store, Free, Booting, BootIsAlone, Shape
<1>2. ASSUME NEW t \in Tabs, Reload(t)
      PROVE  BootIsAlone'
  <2>1. ReloadEffect(t)
    BY <1>0, <1>2, ReloadActs
  <2> QED
    BY <1>0, <2>1, IdleFields DEF ReloadEffect, IsSent, Free, BootIsAlone, Shape
<1>3. ASSUME NEW r \in Requests, ServerStep(r) \/ Fail(r)
      PROVE  BootIsAlone'
  <2>1. ServerEffect(r)
    BY <1>0, <1>3, ServerActs
  <2> QED
    BY <1>0, <2>1, IdleFields DEF ServerEffect, store, BootIsAlone, Shape
<1>4. ASSUME NEW r \in Requests, SignedIn(r)
      PROVE  BootIsAlone'
  <2>1. SignedInEffect(r)
    BY <1>0, <1>4, SignedInActs
  <2> QED
    BY <1>0, <2>1, IdleFields
       DEF SignedInEffect, OthersStay, GoesOn, BootIsAlone, Shape
<1>5. ASSUME NEW r \in Requests, RegisterPauseOver(r)
      PROVE  BootIsAlone'
  BY <1>0, <1>5, IdleFields
     DEF RegisterPauseOver, SetAuth, server, history, BootIsAlone, Shape
<1>6. ASSUME NEW r \in Requests, SignedOut(r)
      PROVE  BootIsAlone'
  BY <1>0, <1>6, IdleFields
     DEF SignedOut, Got, ClearAuth, server, BootIsAlone, Shape
<1>7. ASSUME NEW r \in Requests, Done(r)
      PROVE  BootIsAlone'
  BY <1>0, <1>7, IdleFields
     DEF Done, Got, server, store, history, BootIsAlone, Shape
<1>8. ASSUME NEW r \in Requests, Intercept(r)
      PROVE  BootIsAlone'
  <2>1. InterceptEffect(r)
    BY <1>0, <1>8, InterceptActs
  <2> QED
    BY <1>0, <2>1, IdleFields
       DEF InterceptEffect, IsSent, OthersStay, GoesOn, Free, BootIsAlone,
           Shape
<1>9. ASSUME NEW q \in Requests, Refreshed(q)
      PROVE  BootIsAlone'
  <2>1. RefreshedEffect(q)
    BY <1>0, <1>9, RefreshedActs
  <2> QED
    BY <1>0, <2>1, IdleFields
       DEF RefreshedEffect, OthersStay, GoesOn, Waiting, BootIsAlone, Shape
<1>10. ASSUME NEW q \in Requests, RefreshFailed(q)
       PROVE  BootIsAlone'
  BY <1>0, <1>10, IdleFields
     DEF RefreshFailed, Got, ClearAuth, Waiting, server, history, BootIsAlone,
         Shape
<1>11. ASSUME NEW r \in Requests, Booted(r)
       PROVE  BootIsAlone'
  <2>1. BootedEffect(r)
    BY <1>0, <1>11, BootedActs
  <2> QED
    BY <1>0, <2>1, IdleFields DEF BootedEffect, OthersStay, BootIsAlone, Shape
<1>12. ASSUME NEW r \in Requests, Orphaned(r)
       PROVE  BootIsAlone'
  BY <1>0, <1>12, IdleFields
     DEF Orphaned, SetCookie, server, store, BootIsAlone, Shape
<1>13. CASE Tick
  BY <1>0, <1>13 DEF Tick, server, store, history, BootIsAlone, Shape
<1>14. CASE UNCHANGED vars
  BY <1>0, <1>14 DEF vars, server, store, history, BootIsAlone, Shape
<1> QED
  BY <1>1, <1>2, <1>3, <1>4, <1>5, <1>6, <1>7, <1>8, <1>9, <1>10, <1>11, <1>12,
     <1>13, <1>14 DEF Next, UserStep, ClientStep, Kinds

\* A tab keeps to one refresh.
LEMMA OneRefreshStep == IInv /\ [Next]_vars => OneRefreshPerTab'
<1> SUFFICES ASSUME IInv, [Next]_vars PROVE OneRefreshPerTab'
  OBVIOUS
<1> USE SessionAssumption
<1>0. /\ TypeOK /\ TypeOK' /\ IInv /\ Shape /\ OneRefreshPerTab
      /\ shared \in [Tabs -> Requests \cup {None}]
      /\ req \in [Requests -> Request]
      /\ \A r \in Requests : req[r].tab \in Tabs \cup {None}
  BY TypeStep, SlotType DEF IInv, TypeOK
<1>1. ASSUME NEW t \in Tabs, NEW k \in Kinds, NEW p \in Passwords \cup {None},
             Begin(t, k, p)
      PROVE  OneRefreshPerTab'
  <2>1. BeginEffect(t, k)
    BY <1>0, <1>1, BeginActs
  <2>2. k \notin {"boot", "me", "refresh"} /\ ~Booting(t)
    BY <1>1 DEF Begin, Offered
  <2> QED
    BY <1>0, <2>1, <2>2, IdleFields
       DEF BeginEffect, IsSent, OthersStay, store, Free, Booting, OneRefreshPerTab, Waiting, Shape
<1>2. ASSUME NEW t \in Tabs, Reload(t)
      PROVE  OneRefreshPerTab'
  <2>1. ReloadEffect(t)
    BY <1>0, <1>2, ReloadActs
  <2> QED
    BY <1>0, <2>1, IdleFields
       DEF ReloadEffect, IsSent, Free, OneRefreshPerTab, Waiting, Shape
<1>3. ASSUME NEW r \in Requests, ServerStep(r) \/ Fail(r)
      PROVE  OneRefreshPerTab'
  <2>1. ServerEffect(r)
    BY <1>0, <1>3, ServerActs
  <2> QED
    BY <1>0, <2>1, IdleFields
       DEF ServerEffect, store, OneRefreshPerTab, Waiting, Shape
<1>4. ASSUME NEW r \in Requests, SignedIn(r)
      PROVE  OneRefreshPerTab'
  <2>1. SignedInEffect(r)
    BY <1>0, <1>4, SignedInActs
  <2> QED
    BY <1>0, <2>1, IdleFields
       DEF SignedInEffect, OthersStay, GoesOn, OneRefreshPerTab, Waiting,
           Shape
<1>5. ASSUME NEW r \in Requests, RegisterPauseOver(r)
      PROVE  OneRefreshPerTab'
  BY <1>0, <1>5, IdleFields
     DEF RegisterPauseOver, SetAuth, server, history, OneRefreshPerTab,
         Waiting, Shape
<1>6. ASSUME NEW r \in Requests, SignedOut(r)
      PROVE  OneRefreshPerTab'
  BY <1>0, <1>6, IdleFields
     DEF SignedOut, Got, ClearAuth, server, OneRefreshPerTab, Waiting, Shape
<1>7. ASSUME NEW r \in Requests, Done(r)
      PROVE  OneRefreshPerTab'
  BY <1>0, <1>7, IdleFields
     DEF Done, Got, server, store, history, OneRefreshPerTab, Waiting, Shape
<1>8. ASSUME NEW r \in Requests, Intercept(r)
      PROVE  OneRefreshPerTab'
  <2>1. InterceptEffect(r)
    BY <1>0, <1>8, InterceptActs
  <2> QED
    BY <1>0, <2>1, IdleFields
       DEF InterceptEffect, IsSent, OthersStay, GoesOn, Free,
           OneRefreshPerTab, Waiting, Shape
<1>9. ASSUME NEW q \in Requests, Refreshed(q)
      PROVE  OneRefreshPerTab'
  <2>1. RefreshedEffect(q)
    BY <1>0, <1>9, RefreshedActs
  <2> QED
    BY <1>0, <2>1, IdleFields
       DEF RefreshedEffect, OthersStay, GoesOn, Waiting, OneRefreshPerTab,
           Waiting, Shape
<1>10. ASSUME NEW q \in Requests, RefreshFailed(q)
       PROVE  OneRefreshPerTab'
  BY <1>0, <1>10, IdleFields
     DEF RefreshFailed, Got, ClearAuth, Waiting, server, history,
         OneRefreshPerTab, Waiting, Shape
<1>11. ASSUME NEW r \in Requests, Booted(r)
       PROVE  OneRefreshPerTab'
  <2>1. BootedEffect(r)
    BY <1>0, <1>11, BootedActs
  <2> QED
    BY <1>0, <2>1, IdleFields
       DEF BootedEffect, OthersStay, OneRefreshPerTab, Waiting, Shape
<1>12. ASSUME NEW r \in Requests, Orphaned(r)
       PROVE  OneRefreshPerTab'
  BY <1>0, <1>12, IdleFields
     DEF Orphaned, SetCookie, server, store, OneRefreshPerTab, Waiting, Shape
<1>13. CASE Tick
  BY <1>0, <1>13
     DEF Tick, server, store, history, OneRefreshPerTab, Waiting, Shape
<1>14. CASE UNCHANGED vars
  BY <1>0, <1>14
     DEF vars, server, store, history, OneRefreshPerTab, Waiting, Shape
<1> QED
  BY <1>1, <1>2, <1>3, <1>4, <1>5, <1>6, <1>7, <1>8, <1>9, <1>10, <1>11, <1>12,
     <1>13, <1>14 DEF Next, UserStep, ClientStep, Kinds

\* A request takes effect when it is answered ok, and never after that.
LEMMA ActsStep == IInv /\ [Next]_vars => NotYetDone' /\ ActsOnce'
<1> SUFFICES ASSUME IInv, [Next]_vars PROVE NotYetDone' /\ ActsOnce'
  OBVIOUS
<1> USE SessionAssumption
<1>0. /\ TypeOK /\ TypeOK' /\ IInv /\ Shape /\ NotYetDone /\ ActsOnce
      /\ req \in [Requests -> Request]
      /\ \A r \in Requests : req[r].tab \in Tabs \cup {None}
  BY TypeStep, SlotType DEF IInv, TypeOK
<1>1. ASSUME NEW t \in Tabs, NEW k \in Kinds, NEW p \in Passwords \cup {None},
             Begin(t, k, p)
      PROVE  NotYetDone' /\ ActsOnce'
  <2>1. BeginEffect(t, k)
    BY <1>0, <1>1, BeginActs
  <2> QED
    BY <1>0, <2>1, IdleFields
       DEF BeginEffect, IsSent, OthersStay, store, Free, NotYetDone, ActsOnce,
           Shape, Refreshes
<1>2. ASSUME NEW t \in Tabs, Reload(t)
      PROVE  NotYetDone' /\ ActsOnce'
  <2>1. ReloadEffect(t)
    BY <1>0, <1>2, ReloadActs
  <2> QED
    BY <1>0, <2>1, IdleFields
       DEF ReloadEffect, IsSent, Free, NotYetDone, ActsOnce, Shape, Refreshes
<1>3. ASSUME NEW r \in Requests, ServerStep(r) \/ Fail(r)
      PROVE  NotYetDone' /\ ActsOnce'
  <2>1. ServerEffect(r)
    BY <1>0, <1>3, ServerActs
  <2> QED
    BY <1>0, <2>1, IdleFields
       DEF ServerEffect, store, NotYetDone, ActsOnce, Shape, Refreshes
<1>4. ASSUME NEW r \in Requests, SignedIn(r)
      PROVE  NotYetDone' /\ ActsOnce'
  <2>1. SignedInEffect(r)
    BY <1>0, <1>4, SignedInActs
  <2> QED
    BY <1>0, <2>1, IdleFields
       DEF SignedInEffect, OthersStay, GoesOn, NotYetDone, ActsOnce, Shape,
           Refreshes
<1>5. ASSUME NEW r \in Requests, RegisterPauseOver(r)
      PROVE  NotYetDone' /\ ActsOnce'
  BY <1>0, <1>5, IdleFields
     DEF RegisterPauseOver, SetAuth, server, history, NotYetDone, ActsOnce,
         Shape, Refreshes
<1>6. ASSUME NEW r \in Requests, SignedOut(r)
      PROVE  NotYetDone' /\ ActsOnce'
  BY <1>0, <1>6, IdleFields
     DEF SignedOut, Got, ClearAuth, server, NotYetDone, ActsOnce, Shape,
         Refreshes
<1>7. ASSUME NEW r \in Requests, Done(r)
      PROVE  NotYetDone' /\ ActsOnce'
  BY <1>0, <1>7, IdleFields
     DEF Done, Got, server, store, history, NotYetDone, ActsOnce, Shape,
         Refreshes
<1>8. ASSUME NEW r \in Requests, Intercept(r)
      PROVE  NotYetDone' /\ ActsOnce'
  <2>1. InterceptEffect(r)
    BY <1>0, <1>8, InterceptActs
  <2> QED
    BY <1>0, <2>1, IdleFields
       DEF InterceptEffect, IsSent, OthersStay, GoesOn, Free, NotYetDone,
           ActsOnce, Shape, Refreshes
<1>9. ASSUME NEW q \in Requests, Refreshed(q)
      PROVE  NotYetDone' /\ ActsOnce'
  <2>1. RefreshedEffect(q)
    BY <1>0, <1>9, RefreshedActs
  <2> QED
    BY <1>0, <2>1, IdleFields
       DEF RefreshedEffect, OthersStay, GoesOn, Waiting, NotYetDone, ActsOnce,
           Shape, Refreshes
<1>10. ASSUME NEW q \in Requests, RefreshFailed(q)
       PROVE  NotYetDone' /\ ActsOnce'
  BY <1>0, <1>10, IdleFields
     DEF RefreshFailed, Got, ClearAuth, Waiting, server, history, NotYetDone,
         ActsOnce, Shape, Refreshes
<1>11. ASSUME NEW r \in Requests, Booted(r)
       PROVE  NotYetDone' /\ ActsOnce'
  <2>1. BootedEffect(r)
    BY <1>0, <1>11, BootedActs
  <2> QED
    BY <1>0, <2>1, IdleFields
       DEF BootedEffect, OthersStay, NotYetDone, ActsOnce, Shape, Refreshes
<1>12. ASSUME NEW r \in Requests, Orphaned(r)
       PROVE  NotYetDone' /\ ActsOnce'
  BY <1>0, <1>12, IdleFields
     DEF Orphaned, SetCookie, server, store, NotYetDone, ActsOnce, Shape,
         Refreshes
<1>13. CASE Tick
  BY <1>0, <1>13
     DEF Tick, server, store, history, NotYetDone, ActsOnce, Shape, Refreshes
<1>14. CASE UNCHANGED vars
  BY <1>0, <1>14
     DEF vars, server, store, history, NotYetDone, ActsOnce, Shape, Refreshes
<1> QED
  BY <1>1, <1>2, <1>3, <1>4, <1>5, <1>6, <1>7, <1>8, <1>9, <1>10, <1>11, <1>12,
     <1>13, <1>14 DEF Next, UserStep, ClientStep, Kinds

\* A tab that is signed out for good stays so.
LEMMA ClosedStep == IInv /\ [Next]_vars => ClosedHasNoCookie' /\ SignedOutStaysOut'
<1> SUFFICES ASSUME IInv, [Next]_vars PROVE ClosedHasNoCookie' /\ SignedOutStaysOut'
  OBVIOUS
<1> USE SessionAssumption
<1>0. /\ TypeOK /\ TypeOK' /\ IInv /\ Shape /\ ClosedHasNoCookie
      /\ SignedOutStaysOut /\ BootIsAlone /\ OneRefreshPerTab /\ closed \subseteq Tabs
      /\ jar \in [Jars -> Tokens \cup {None}] /\ access \in [Tabs -> Access \cup {None}]
      /\ req \in [Requests -> Request]
      /\ \A r \in Requests : req[r].tab \in Tabs \cup {None}
  BY TypeStep, SlotType DEF IInv, TypeOK
<1>1. ASSUME NEW t \in Tabs, NEW k \in Kinds, NEW p \in Passwords \cup {None},
             Begin(t, k, p)
      PROVE  ClosedHasNoCookie' /\ SignedOutStaysOut'
  <2>1. BeginEffect(t, k)
    BY <1>0, <1>1, BeginActs
  <2>2. k \notin {"boot", "me", "refresh"}
    BY <1>1 DEF Begin
  <2> QED
    BY <1>0, <2>1, <2>2
       DEF BeginEffect, IsSent, OthersStay, store, ClosedHasNoCookie,
           SignedOutStaysOut, Refreshes
<1>2. ASSUME NEW t \in Tabs, Reload(t)
      PROVE  ClosedHasNoCookie' /\ SignedOutStaysOut'
  <2>1. ReloadEffect(t)
    BY <1>0, <1>2, ReloadActs
  <2> QED
    BY <1>0, <2>1, IdleFields
       DEF ReloadEffect, IsSent, Free, ClosedHasNoCookie, SignedOutStaysOut,
           Shape, Refreshes
<1>3. ASSUME NEW r \in Requests, ServerStep(r) \/ Fail(r)
      PROVE  ClosedHasNoCookie' /\ SignedOutStaysOut'
  <2>1. ServerEffect(r)
    BY <1>0, <1>3, ServerActs
  <2> QED
    BY <1>0, <2>1, IdleFields
       DEF ServerEffect, store, ClosedHasNoCookie, SignedOutStaysOut, Shape,
           Refreshes
<1>4. ASSUME NEW r \in Requests, SignedIn(r)
      PROVE  ClosedHasNoCookie' /\ SignedOutStaysOut'
  <2>1. SignedInEffect(r)
    BY <1>0, <1>4, SignedInActs
  <2>2. /\ req[r].jar = JarOf[req[r].tab] /\ req[r].jar \in Jars
        /\ \A t \in closed' : t \in closed /\ JarOf[t] # req[r].jar /\ t # req[r].tab
    BY <1>0, <2>1 DEF SignedInEffect, Shape, TabsOf
  <2> QED
    BY <1>0, <2>1, <2>2, IdleFields
       DEF SignedInEffect, OthersStay, GoesOn, ClosedHasNoCookie,
           SignedOutStaysOut, Refreshes
<1>5. ASSUME NEW r \in Requests, RegisterPauseOver(r)
      PROVE  ClosedHasNoCookie' /\ SignedOutStaysOut'
  BY <1>0, <1>5, IdleFields
     DEF RegisterPauseOver, SetAuth, server, history, ClosedHasNoCookie,
         SignedOutStaysOut, Shape, Refreshes
<1>6. ASSUME NEW r \in Requests, SignedOut(r)
      PROVE  ClosedHasNoCookie' /\ SignedOutStaysOut'
  <2>1. /\ req[r].tab \in Tabs /\ req[r].kind = "logout"
        /\ access' = [access EXCEPT ![req[r].tab] = None]
        /\ req' = [req EXCEPT ![r] = Idle]
        /\ \/ UNCHANGED <<jar, closed>>
           \/ /\ jar' = [jar EXCEPT ![JarOf[req[r].tab]] = None]
              /\ \/ UNCHANGED closed
                 \/ ~TokenToCome(req[r].tab) /\ closed' = closed \cup {req[r].tab}
    BY <1>0, <1>6 DEF SignedOut, Got, ClearAuth
  <2>2. \A q \in Requests : req[q].tab = req[r].tab => req[q].kind # "me"
    BY <1>0, <2>1 DEF BootIsAlone
  <2>3. ASSUME NEW t \in closed', t \in closed
        PROVE  jar'[JarOf[t]] = None /\ access'[t] = None
    BY <1>0, <2>1, <2>3 DEF ClosedHasNoCookie, SignedOutStaysOut
  <2>4. ASSUME NEW t \in closed', t \notin closed
        PROVE  /\ t = req[r].tab /\ ~TokenToCome(t)
               /\ jar'[JarOf[t]] = None /\ access'[t] = None
    BY <1>0, <2>1, <2>4
  <2>5. SignedOutStaysOut'
    BY <2>3, <2>4 DEF SignedOutStaysOut
  <2>6. \A q \in Requests : req'[q] = req[q] \/ req'[q] = Idle
    BY <1>0, <2>1
  <2>7. ClosedHasNoCookie'
    <3> SUFFICES ASSUME NEW t \in closed', NEW q \in Requests
                 PROVE  /\ jar'[JarOf[t]] = None
                        /\ req'[q].jar = JarOf[t] /\ req'[q].kind \in Refreshes =>
                             /\ req'[q].token = None /\ req'[q].status # "ok"
                             /\ req'[q].step # "work"
                        /\ req'[q].tab = t => req'[q].kind # "me" /\ req'[q].step # "pause"
      BY DEF ClosedHasNoCookie
    <3>1. t \in Tabs
      BY <1>0 DEF TypeOK
    <3>2. CASE t \in closed
      BY <1>0, <2>3, <2>6, <3>1, <3>2, IdleFields DEF ClosedHasNoCookie, Refreshes
    <3>3. CASE t \notin closed
      BY <1>0, <2>2, <2>4, <2>6, <3>1, <3>3, IdleFields DEF TokenToCome, Refreshes
    <3> QED
      BY <3>2, <3>3
  <2> QED
    BY <2>5, <2>7
<1>7. ASSUME NEW r \in Requests, Done(r)
      PROVE  ClosedHasNoCookie' /\ SignedOutStaysOut'
  BY <1>0, <1>7, IdleFields
     DEF Done, Got, server, store, history, ClosedHasNoCookie,
         SignedOutStaysOut, Shape, Refreshes
<1>8. ASSUME NEW r \in Requests, Intercept(r)
      PROVE  ClosedHasNoCookie' /\ SignedOutStaysOut'
  <2>1. InterceptEffect(r)
    BY <1>0, <1>8, InterceptActs
  <2> QED
    BY <1>0, <2>1, IdleFields
       DEF InterceptEffect, IsSent, OthersStay, GoesOn, Free,
           ClosedHasNoCookie, SignedOutStaysOut, Shape, Refreshes
<1>9. ASSUME NEW q \in Requests, Refreshed(q)
      PROVE  ClosedHasNoCookie' /\ SignedOutStaysOut'
  <2>1. RefreshedEffect(q)
    BY <1>0, <1>9, RefreshedActs
  <2> QED
    BY <1>0, <2>1, IdleFields
       DEF RefreshedEffect, OthersStay, GoesOn, Waiting, ClosedHasNoCookie,
           SignedOutStaysOut, Shape, Refreshes
<1>10. ASSUME NEW q \in Requests, RefreshFailed(q)
       PROVE  ClosedHasNoCookie' /\ SignedOutStaysOut'
  BY <1>0, <1>10, IdleFields
     DEF RefreshFailed, Got, ClearAuth, Waiting, server, history,
         ClosedHasNoCookie, SignedOutStaysOut, Shape, Refreshes
<1>11. ASSUME NEW r \in Requests, Booted(r)
       PROVE  ClosedHasNoCookie' /\ SignedOutStaysOut'
  <2>1. BootedEffect(r)
    BY <1>0, <1>11, BootedActs
  <2> QED
    BY <1>0, <2>1, IdleFields
       DEF BootedEffect, OthersStay, ClosedHasNoCookie, SignedOutStaysOut,
           Shape, Refreshes
<1>12. ASSUME NEW r \in Requests, Orphaned(r)
       PROVE  ClosedHasNoCookie' /\ SignedOutStaysOut'
  <2>1. /\ req' = [req EXCEPT ![r] = Idle] /\ UNCHANGED access
        /\ \/ UNCHANGED <<jar, closed>>
           \/ /\ jar' = [jar EXCEPT ![req[r].jar] = req[r].token]
              /\ closed' = closed \ TabsOf(req[r].jar)
           \/ jar' = [jar EXCEPT ![req[r].jar] = None] /\ UNCHANGED closed
    BY <1>12 DEF Orphaned, SetCookie, store
  <2>2. \A t \in closed' : t \in closed /\ jar'[JarOf[t]] = None
    BY <1>0, <2>1 DEF TabsOf, ClosedHasNoCookie
  <2>3. \A q \in Requests : req'[q] = req[q] \/ req'[q] = Idle
    BY <1>0, <2>1
  <2> QED
    BY <1>0, <2>1, <2>2, <2>3, IdleFields
       DEF ClosedHasNoCookie, SignedOutStaysOut, Refreshes
<1>13. CASE Tick
  BY <1>0, <1>13
     DEF Tick, server, store, history, ClosedHasNoCookie, SignedOutStaysOut,
         Shape, Refreshes
<1>14. CASE UNCHANGED vars
  BY <1>0, <1>14
     DEF vars, server, store, history, ClosedHasNoCookie, SignedOutStaysOut,
         Shape, Refreshes
<1> QED
  BY <1>1, <1>2, <1>3, <1>4, <1>5, <1>6, <1>7, <1>8, <1>9, <1>10, <1>11, <1>12,
     <1>13, <1>14 DEF Next, UserStep, ClientStep, Kinds

\* The parts about refresh tokens.
TokenInv == SignedBefore /\ StoredOnce /\ RevokedStaysRevoked

\* They say nothing of a step that leaves the tokens alone.
TokensStay ==
  /\ now \in Nat /\ now' \in Nat /\ now <= now'
  /\ UNCHANGED <<hash, signedAt, twins, revoked>>
  /\ \A q \in Requests : Storing(q)' => Storing(q) /\ req'[q].token = req[q].token

LEMMA TokensStayActs == TokenInv /\ TokensStay => TokenInv'
<1> SUFFICES ASSUME TokenInv, TokensStay PROVE TokenInv'
  OBVIOUS
<1>1. SignedBefore'
  BY DEF TokenInv, TokensStay, SignedBefore
<1>2. StoredOnce'
  BY DEF TokenInv, TokensStay, StoredOnce
<1>3. RevokedStaysRevoked'
  BY DEF TokenInv, TokensStay, RevokedStaysRevoked
<1> QED
  BY <1>1, <1>2, <1>3 DEF TokenInv

\* A sign-in signs its tokens: if nobody did so in this second, no other request
\* stores this token and the column never held it.
LEMMA SignActs ==
  ASSUME IInv, NEW r \in Requests, Sign, UNCHANGED <<now, hash, revoked>>,
         req' = [req EXCEPT ![r] = [@ EXCEPT !.step = "store", !.token = now]]
  PROVE  TokenInv'
<1>1. req \in [Requests -> Request] /\ req[r] \in Request /\ now \in Nat
  BY SlotType, SessionAssumption DEF IInv, TypeOK
<1>2. req'[r].token = now /\ \A q \in Requests \ {r} : req'[q] = req[q]
  BY <1>1 DEF Request
<1>3. /\ SignedBefore /\ StoredOnce /\ RevokedStaysRevoked
      /\ signedAt' = signedAt \cup {now}
      /\ twins' = IF now \in signedAt THEN twins \cup {now} ELSE twins
  BY DEF IInv, Sign
<1>4. \A q \in Requests \ {r} : Storing(q)' => Storing(q) /\ req'[q].token \in signedAt
  BY <1>2, <1>3 DEF Storing, SignedBefore
<1>5. SignedBefore'
  BY <1>1, <1>2, <1>3, <1>4 DEF SignedBefore
<1>6. StoredOnce'
  <2> SUFFICES ASSUME NEW q \in Requests, Storing(q)', req'[q].token \notin twins'
               PROVE  /\ req'[q].token \notin revoked
                      /\ req'[q].token # hash
                      /\ \A p \in Requests :
                           Storing(p)' /\ p # q => req'[p].token # req'[q].token
    BY DEF StoredOnce
  <2>1. CASE q = r
    <3>1. now \notin signedAt
      BY <1>2, <1>3, <2>1
    <3>2. now # None
      BY <1>1, SessionAssumption
    <3>3. now \notin revoked /\ now # hash
      BY <1>3, <3>1, <3>2 DEF SignedBefore
    <3> QED
      BY <1>2, <1>4, <2>1, <3>1, <3>3
  <2>2. CASE q # r
    <3>1. Storing(q) /\ req[q].token = req'[q].token /\ req[q].token \in signedAt
      BY <1>2, <1>4, <2>2
    <3>2. req[q].token \notin twins /\ req[q].token # now
      BY <1>3, <3>1
    <3>3. /\ req[q].token \notin revoked /\ req[q].token # hash
          /\ \A p \in Requests : Storing(p) /\ p # q => req[p].token # req[q].token
      BY <1>3, <3>1, <3>2 DEF StoredOnce
    <3> QED
      BY <1>2, <1>4, <3>1, <3>2, <3>3
  <2> QED
    BY <2>1, <2>2
<1>7. RevokedStaysRevoked'
  BY <1>3 DEF RevokedStaysRevoked
<1> QED
  BY <1>5, <1>6, <1>7 DEF TokenInv

\* The column is written: what was in it is revoked, and what it becomes is null
\* or the token of a sign-in that has now stored it.
LEMMA SetHashActs ==
  ASSUME IInv, NEW v, SetHash(v), UNCHANGED <<now, signedAt, twins>>,
         NEW r \in Requests, ~Storing(r)',
         \A q \in Requests \ {r} : req'[q] = req[q],
         v = None \/ (Storing(r) /\ v = req[r].token)
  PROVE  TokenInv'
<1>1. /\ SignedBefore /\ StoredOnce /\ RevokedStaysRevoked
      /\ hash' = v
      /\ revoked' = IF hash \in {None, v} THEN revoked ELSE revoked \cup {hash}
      /\ now \in Nat
  BY SessionAssumption DEF IInv, SetHash, TypeOK
<1>2. None \notin signedAt
  <2>1. None \notin Nat
    BY SessionAssumption
  <2>2. \A i \in 0..now : i \in Nat
    BY <1>1
  <2>3. signedAt \subseteq 0..now
    BY <1>1 DEF SignedBefore
  <2> QED
    BY <2>1, <2>2, <2>3
<1>3. \A q \in Requests : Storing(q)' => q # r /\ Storing(q) /\ req'[q] = req[q]
  BY DEF Storing
<1>4. v # None => v \in signedAt
  BY <1>1 DEF SignedBefore
<1>5. SignedBefore'
  BY <1>1, <1>3, <1>4 DEF SignedBefore
<1>6. StoredOnce'
  <2> SUFFICES ASSUME NEW q \in Requests, Storing(q)', req'[q].token \notin twins
               PROVE  /\ req'[q].token \notin revoked'
                      /\ req'[q].token # v
                      /\ \A p \in Requests :
                           Storing(p)' /\ p # q => req'[p].token # req'[q].token
    BY <1>1 DEF StoredOnce
  <2>1. q # r /\ Storing(q) /\ req'[q] = req[q]
    BY <1>3
  <2>2. /\ req[q].token \notin revoked /\ req[q].token # hash
        /\ req[q].token \in signedAt
        /\ \A p \in Requests : Storing(p) /\ p # q => req[p].token # req[q].token
    BY <1>1, <2>1 DEF StoredOnce, SignedBefore
  <2> QED
    BY <1>1, <1>2, <1>3, <2>1, <2>2
<1>7. RevokedStaysRevoked'
  <2>1. CASE v = None
    BY <1>1, <1>2, <2>1 DEF RevokedStaysRevoked, SignedBefore
  <2>2. CASE v # None
    BY <1>1, <2>2 DEF RevokedStaysRevoked, StoredOnce
  <2> QED
    BY <2>1, <2>2
<1> QED
  BY <1>5, <1>6, <1>7 DEF TokenInv

LEMMA TokenServerStep ==
  ASSUME IInv, NEW r \in Requests, ServerStep(r) \/ Fail(r)
  PROVE  TokenInv'
<1> USE SessionAssumption
<1>0. /\ req \in [Requests -> Request] /\ req[r] \in Request
      /\ now \in Nat /\ TokenInv
  BY SlotType DEF IInv, TypeOK, TokenInv
<1>1. ServerEffect(r)
  BY ServerActs
<1>2. TokensStay => TokenInv'
  BY <1>0, TokensStayActs
<1>3. CASE Authenticate(r) \/ ReadUser(r) \/ ComparePassword(r) \/ StorePassword(r)
           \/ RefreshRead(r) \/ Fail(r)
  <2>1. UNCHANGED <<now, hash, signedAt, twins, revoked>>
    BY <1>3 DEF Authenticate, ReadUser, ComparePassword, StorePassword, RefreshRead,
                Fail, server, history
  <2>2. ~Storing(r)'
    <3>1. CASE req[r].kind \notin SignIns
      BY <1>1, <3>1 DEF ServerEffect, Storing
    <3>2. CASE req[r].kind \in SignIns
      <4>1. ReadUser(r) \/ Fail(r)
        BY <1>3, <3>2 DEF SignIns, Authenticate, ComparePassword, StorePassword,
                          RefreshRead
      <4>2. \A u \in {"ok", "unauthorized", "error"} : Answer(r, u).step = "reply"
        BY AnswerFields DEF IInv
      <4>3. [req[r] EXCEPT !.step = "work", !.read = password].step = "work"
        BY <1>0 DEF Request
      <4>4. req'[r].step \in {"reply", "work"}
        BY <1>0, <4>1, <4>2, <4>3 DEF ReadUser, Fail
      <4> QED
        BY <4>4 DEF Storing
    <3> QED
      BY <3>1, <3>2
  <2>3. TokensStay
    BY <1>0, <1>1, <2>1, <2>2 DEF TokensStay, ServerEffect, Storing
  <2> QED
    BY <1>2, <2>3
<1>4. CASE LoginSign(r) \/ RegisterCreate(r)
  <2>1. /\ UNCHANGED <<now, hash, revoked>>
        /\ \/ /\ Sign
              /\ req' = [req EXCEPT ![r] = [@ EXCEPT !.step = "store", !.token = now]]
           \/ /\ UNCHANGED <<signedAt, twins>>
              /\ \E u \in {"unauthorized", "error"} : req' = [req EXCEPT ![r] = Answer(r, u)]
    BY <1>4 DEF LoginSign, RegisterCreate, server
  <2>2. CASE Sign /\ req' = [req EXCEPT ![r] = [@ EXCEPT !.step = "store", !.token = now]]
    BY <2>1, <2>2, SignActs
  <2>3. CASE /\ UNCHANGED <<signedAt, twins>>
             /\ \E u \in {"unauthorized", "error"} : req' = [req EXCEPT ![r] = Answer(r, u)]
    <3>1. req'[r].step = "reply"
      BY <1>0, <2>3, AnswerFields DEF IInv
    <3>2. TokensStay
      BY <1>0, <1>1, <2>1, <2>3, <3>1 DEF TokensStay, ServerEffect, Storing
    <3> QED
      BY <1>2, <3>2
  <2> QED
    BY <2>1, <2>2, <2>3
<1>5. CASE StoreToken(r)
  <2>1. /\ Storing(r) /\ SetHash(req[r].token) /\ UNCHANGED <<now, signedAt, twins>>
        /\ req' = [req EXCEPT ![r] = [Answer(r, "ok") EXCEPT
                     !.grant = req[r].token + AccessTtl, !.acts = @ + 1]]
    BY <1>5 DEF StoreToken, Storing, SignIns
  <2>2. Answer(r, "ok") \in Request /\ Answer(r, "ok").step = "reply"
    BY AnswerFields DEF IInv
  <2>3. req'[r].step = "reply"
    BY <1>0, <2>1, <2>2 DEF Request
  <2> QED
    BY <1>1, <2>1, <2>3, SetHashActs DEF ServerEffect, Storing
<1>6. CASE Logout(r) \/ RefreshReuse(r)
  <2>1. /\ SetHash(None) /\ UNCHANGED <<now, signedAt, twins>>
        /\ req[r].kind \notin SignIns
    BY <1>6 DEF Logout, RefreshReuse, SignIns
  <2> QED
    BY <1>1, <2>1, SetHashActs DEF ServerEffect, Storing
<1> QED
  BY <1>3, <1>4, <1>5, <1>6 DEF ServerStep

\* What is revoked stays so.
LEMMA TokenStep == IInv /\ [Next]_vars => TokenInv'
<1> SUFFICES ASSUME IInv, [Next]_vars PROVE TokenInv'
  OBVIOUS
<1> USE SessionAssumption
<1>0. /\ TypeOK /\ TypeOK' /\ IInv /\ Shape /\ TokenInv
      /\ req \in [Requests -> Request]
      /\ now \in Nat
  BY TypeStep, SlotType DEF IInv, TypeOK, TokenInv
<1>a. TokensStay => TokenInv'
  BY <1>0, TokensStayActs
<1>1. ASSUME NEW t \in Tabs, NEW k \in Kinds, NEW p \in Passwords \cup {None},
             Begin(t, k, p)
      PROVE  TokenInv'
  <2>1. BeginEffect(t, k)
    BY <1>0, <1>1, BeginActs
  <2>2. UNCHANGED <<now, hash, signedAt, twins, revoked>>
    BY <1>1 DEF Begin, server, history
  <2> QED
    BY <1>0, <1>a, <2>1, <2>2, IdleFields
       DEF BeginEffect, IsSent, OthersStay, store, Free, TokensStay, Storing,
           SignIns
<1>2. ASSUME NEW t \in Tabs, Reload(t)
      PROVE  TokenInv'
  <2>1. ReloadEffect(t)
    BY <1>0, <1>2, ReloadActs
  <2>2. UNCHANGED <<now, hash, signedAt, twins, revoked>>
    BY <1>2 DEF Reload, server, history
  <2> QED
    BY <1>0, <1>a, <2>1, <2>2, IdleFields
       DEF ReloadEffect, IsSent, Free, TokensStay, Storing, SignIns
<1>3. ASSUME NEW r \in Requests, ServerStep(r) \/ Fail(r)
      PROVE  TokenInv'
  BY <1>3, TokenServerStep
<1>4. ASSUME NEW r \in Requests, SignedIn(r)
      PROVE  TokenInv'
  <2>1. SignedInEffect(r)
    BY <1>0, <1>4, SignedInActs
  <2>2. UNCHANGED <<now, hash, signedAt, twins, revoked>>
    BY <1>4 DEF SignedIn, server, history
  <2> QED
    BY <1>0, <1>a, <2>1, <2>2, IdleFields
       DEF SignedInEffect, OthersStay, GoesOn, TokensStay, Storing, SignIns
<1>5. ASSUME NEW r \in Requests, RegisterPauseOver(r)
      PROVE  TokenInv'
  BY <1>0, <1>a, <1>5, IdleFields
     DEF RegisterPauseOver, SetAuth, server, history, TokensStay, Storing,
         SignIns
<1>6. ASSUME NEW r \in Requests, SignedOut(r)
      PROVE  TokenInv'
  BY <1>0, <1>a, <1>6, IdleFields
     DEF SignedOut, Got, ClearAuth, server, TokensStay, Storing, SignIns
<1>7. ASSUME NEW r \in Requests, Done(r)
      PROVE  TokenInv'
  BY <1>0, <1>a, <1>7, IdleFields
     DEF Done, Got, server, store, history, TokensStay, Storing, SignIns
<1>8. ASSUME NEW r \in Requests, Intercept(r)
      PROVE  TokenInv'
  <2>1. InterceptEffect(r)
    BY <1>0, <1>8, InterceptActs
  <2>2. UNCHANGED <<now, hash, signedAt, twins, revoked>>
    BY <1>8 DEF Intercept, server, history
  <2> QED
    BY <1>0, <1>a, <2>1, <2>2, IdleFields
       DEF InterceptEffect, IsSent, OthersStay, GoesOn, Free, TokensStay,
           Storing, SignIns
<1>9. ASSUME NEW q \in Requests, Refreshed(q)
      PROVE  TokenInv'
  <2>1. RefreshedEffect(q)
    BY <1>0, <1>9, RefreshedActs
  <2>2. UNCHANGED <<now, hash, signedAt, twins, revoked>>
    BY <1>9 DEF Refreshed, server, history
  <2> QED
    BY <1>0, <1>a, <2>1, <2>2, IdleFields
       DEF RefreshedEffect, OthersStay, GoesOn, Waiting, TokensStay, Storing,
           SignIns
<1>10. ASSUME NEW q \in Requests, RefreshFailed(q)
       PROVE  TokenInv'
  BY <1>0, <1>a, <1>10, IdleFields
     DEF RefreshFailed, Got, ClearAuth, Waiting, server, history, TokensStay,
         Storing, SignIns
<1>11. ASSUME NEW r \in Requests, Booted(r)
       PROVE  TokenInv'
  <2>1. BootedEffect(r)
    BY <1>0, <1>11, BootedActs
  <2>2. UNCHANGED <<now, hash, signedAt, twins, revoked>>
    BY <1>11 DEF Booted, server, history
  <2> QED
    BY <1>0, <1>a, <2>1, <2>2, IdleFields
       DEF BootedEffect, OthersStay, TokensStay, Storing, SignIns
<1>12. ASSUME NEW r \in Requests, Orphaned(r)
       PROVE  TokenInv'
  BY <1>0, <1>a, <1>12, IdleFields
     DEF Orphaned, SetCookie, server, store, TokensStay, Storing, SignIns
<1>13. CASE Tick
  BY <1>0, <1>a, <1>13 DEF Tick, server, history, TokensStay, Storing, SignIns
<1>14. CASE UNCHANGED vars
  BY <1>0, <1>a, <1>14 DEF vars, server, history, TokensStay, Storing, SignIns
<1> QED
  BY <1>1, <1>2, <1>3, <1>4, <1>5, <1>6, <1>7, <1>8, <1>9, <1>10, <1>11, <1>12,
     <1>13, <1>14 DEF Next, UserStep, ClientStep, Kinds

-----------------------------------------------------------------------------
(***************************************************************************)
(* The theorems.                                                           *)
(***************************************************************************)
LEMMA InitInv == Init => IInv
<1> SUFFICES ASSUME Init PROVE IInv
  OBVIOUS
<1> USE SessionAssumption, IdleFields DEF Init
<1>1. TypeOK
  BY DEF TypeOK, Tokens
<1>2. Shape /\ BootIsAlone /\ NotYetDone /\ ActsOnce
  BY DEF Shape, BootIsAlone, NotYetDone, ActsOnce, Refreshes
<1>3. OneRefreshPerTab
  BY DEF OneRefreshPerTab, Waiting
<1>4. SignedBefore /\ StoredOnce /\ RevokedStaysRevoked
  BY DEF SignedBefore, StoredOnce, RevokedStaysRevoked, Storing
<1>5. ClosedHasNoCookie /\ SignedOutStaysOut
  BY DEF ClosedHasNoCookie, SignedOutStaysOut
<1> QED
  BY <1>1, <1>2, <1>3, <1>4, <1>5 DEF IInv

LEMMA InvStep == IInv /\ [Next]_vars => IInv'
BY TypeStep, ShapeStep, BootStep, OneRefreshStep, ActsStep, ClosedStep, TokenStep
   DEF IInv, TokenInv

LEMMA Invariance == Spec => []IInv
BY InitInv, InvStep, PTL DEF Spec

\* Type correctness of the account, the browsers and the requests under way.
THEOREM TypeCorrect == Spec => []TypeOK
BY Invariance, PTL DEF IInv

\* A refresh token that setRefreshTokenHash replaced or cleared never is the stored
\* one again, but for a token that two sign-ins of one second share.
THEOREM RevocationIsFinal == Spec => []RevokedStaysRevoked
BY Invariance, PTL DEF IInv

\* client.ts: refreshPromise is the one refresh all requests of a tab wait for, and
\* it is under way as long as one waits.
THEOREM RefreshIsShared == Spec => []OneRefreshPerTab
BY Invariance, PTL DEF IInv

\* client.ts: a replay never repeats what the server did already.
THEOREM ReplayIsSafe == Spec => []ActsOnce
BY Invariance, PTL DEF IInv

\* UserMenu.tsx, client.ts: a tab signed out with no token to come has none until
\* somebody signs in in its browser.
THEOREM SignOutIsFinal == Spec => []SignedOutStaysOut
BY Invariance, PTL DEF IInv
=============================================================================
