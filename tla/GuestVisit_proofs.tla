-------------------------- MODULE GuestVisit_proofs --------------------------
(***************************************************************************)
(* Proofs about GuestVisit, for any number of sessions and calls and any   *)
(* times: types, that a zone may use what it uploaded, and that a guest's  *)
(* token lasts for the margin.                                             *)
(***************************************************************************)
EXTENDS GuestVisit, TLAPS

\* A user's token is in authStore and in the answer to a refresh, a guest's in guestStore
\* and in the answers.
Roles ==
  /\ access # None => access.who = User
  /\ guest # None => guest.who \in Asks
  /\ \A a \in Asks : ask[a].token # None => ask[a].at = "signed" /\ ask[a].token.who \in Asks
  /\ shared.token # None => shared.at = "reply" /\ shared.token.who = User

\* One session is asked for at a time, and there is none while it is.
OneSession ==
  ~crossed =>
    /\ \A a, b \in Asks : UnderWay(a) /\ UnderWay(b) => a = b
    /\ \A a \in Asks : UnderWay(a) => guest = None

\* The next zone is none that a call is of.
ZonesAreNew ==
  /\ hero.zone <= looks /\ hero.since <= now
  /\ \A c \in Calls : call[c].zone <= looks

\* A request that is not answered has no status, nor has a call that is over.
SentIsNew == \A c \in Calls : call[c].at \in {"sent", "free"} => call[c].status = "none"

\* A call that acts for w, on a file of w.
Own(c, w) ==
  /\ c.at = "sent" => c.token # None /\ c.token.who = w
  /\ (c.kind # "url" \/ c.at = "storing" \/ c.status = "ok") => c.file = w
  /\ c.status # "foreign"

\* Everything of the zone on the screen is that of the one the tab acts for.
ZoneIsOwn ==
  hero.on /\ ~crossed /\ ~swapped =>
    /\ flow.step \in {"options", "done"} => guest # None /\ flow.file = Present.who
    /\ \A c \in Calls :
         Current(c) /\ call[c].at # "free" => guest # None /\ Own(call[c], Present.who)

\* A guest's token that is good for the margin after the page was opened.
Lasts(t, since) == t # None /\ t.who # User => t.exp >= since + Margin

TokensLast ==
  hero.on /\ ~crossed =>
    /\ Lasts(guest, hero.since)
    /\ \A a \in Asks : Lasts(ask[a].token, hero.since)
    /\ \A c \in Calls : Current(c) /\ call[c].at = "sent" => Lasts(call[c].token, hero.since)

IInv ==
  TypeOK /\ Roles /\ OneSession /\ ZonesAreNew /\ SentIsNew /\ ZoneIsOwn /\ TokensLast

-----------------------------------------------------------------------------
(***************************************************************************)
(* Types.                                                                  *)
(***************************************************************************)
LEMMA NoneIsNot ==
  None \notin Asks /\ None # User /\ User \notin Asks
BY VisitAssumption DEF Asks, User

LEMMA SignedIsToken ==
  ASSUME TypeOK, NEW w \in {User} \cup Asks
  PROVE  Signed(w) \in Token
<1>1. now \in Nat /\ now <= Horizon /\ Ttl \in Nat /\ Horizon \in Nat
  BY VisitAssumption DEF TypeOK
<1>2. now + Ttl \in 0..(Horizon + Ttl) BY <1>1
<1> QED BY <1>2 DEF Signed, Token

LEMMA SentIsCall ==
  ASSUME TypeOK, NEW k \in {"url", "confirm", "job", "download"}, NEW z \in 0..MaxLooks,
         NEW f \in {None, User} \cup Asks
  PROVE  Sent(k, z, f) \in Call
<1>1. Present \in Token \cup {None} BY DEF Present, TypeOK
<1> QED BY <1>1 DEF Sent, Call

LEMMA FreeIsCall == Free \in Call
BY VisitAssumption DEF Free, Call

\* What a step does to the calls: those that change are new, and they are calls.
LEMMA CallChanges ==
  ASSUME TypeOK, NEW c \in Calls, NEW r \in Call, call' = [call EXCEPT ![c] = r]
  PROVE  /\ call' \in [Calls -> Call]
         /\ \A d \in Calls : call'[d] = IF d = c THEN r ELSE call[d]
BY DEF TypeOK

LEMMA TypeInit == Init => TypeOK
<1> SUFFICES ASSUME Init PROVE TypeOK OBVIOUS
<1>1. Free \in Call /\ Fresh \in Flow BY FreeIsCall DEF Fresh, Flow
<1>2. 0 \in 0..Horizon /\ 0 \in 0..MaxLooks /\ 0 \in 0..MaxFails BY VisitAssumption
<1>3. hero \in Hero BY <1>2 DEF Init, Hero
<1>4. ask \in [Asks -> Ask] BY DEF Init, Ask
<1>5. shared \in Refreshing BY DEF Init, NoRefresh, Refreshing
<1> QED BY <1>1, <1>2, <1>3, <1>4, <1>5 DEF Init, TypeOK

LEMMA SessionType ==
  ASSUME TypeOK, NEW missing \in BOOLEAN, NEW cleared \in BOOLEAN, Session(missing, cleared)
  PROVE  guest' \in Token \cup {None} /\ ask' \in [Asks -> Ask] /\ crossed' \in BOOLEAN
<1>1. guest' \in Token \cup {None} BY DEF Session, TypeOK
<1>2. CASE missing
  <2>1. PICK a \in Asks : ask' = [ask EXCEPT ![a].at = "sent"] BY <1>2 DEF Session
  <2>2. [ask[a] EXCEPT !.at = "sent"] \in Ask BY DEF TypeOK, Ask
  <2>3. ask' \in [Asks -> Ask] BY <2>1, <2>2 DEF TypeOK
  <2>4. crossed' \in BOOLEAN
    <3>1. crossed' = (crossed \/ \E b \in Asks : UnderWay(b)) BY <1>2 DEF Session
    <3> QED BY <3>1
  <2> QED BY <1>1, <2>3, <2>4
<1>3. CASE ~missing BY <1>1, <1>3 DEF Session, TypeOK
<1> QED BY <1>2, <1>3

LEMMA LookType ==
  ASSUME TypeOK, Look
  PROVE  looks' \in 0..MaxLooks /\ fails' \in 0..MaxFails /\ looks' > looks
BY VisitAssumption DEF Look, TypeOK

LEMMA FailType ==
  ASSUME TypeOK, Fail
  PROVE  looks' \in 0..MaxLooks /\ fails' \in 0..MaxFails /\ looks' = looks
BY VisitAssumption DEF Fail, TypeOK

LEMMA TypePage == ASSUME TypeOK, Mount \/ Leave \/ SwitchTab PROVE TypeOK'
<1> Fresh \in Flow BY DEF Fresh, Flow
<1> hero \in Hero /\ now \in 0..Horizon BY DEF TypeOK
<1>1. CASE Mount
  <2>1. Missing \in BOOLEAN BY DEF Missing
  <2>2. guest' \in Token \cup {None} /\ ask' \in [Asks -> Ask] /\ crossed' \in BOOLEAN
    BY <1>1, <2>1, SessionType DEF Mount, CheckSession
  <2>3. looks' \in 0..MaxLooks /\ fails' \in 0..MaxFails BY <1>1, LookType DEF Mount
  <2>4. hero' \in Hero BY <1>1, <2>3 DEF Mount, Hero
  <2> QED BY <1>1, <2>2, <2>3, <2>4 DEF Mount, TypeOK
<1>2. CASE Leave
  <2>1. looks' \in 0..MaxLooks /\ fails' \in 0..MaxFails BY <1>2, LookType DEF Leave
  <2>2. hero' \in Hero BY <1>2 DEF Leave, Hero
  <2> QED BY <1>2, <2>1, <2>2 DEF Leave, TypeOK, store
<1>3. CASE SwitchTab
  <2>1. looks' \in 0..MaxLooks /\ fails' \in 0..MaxFails BY <1>3, LookType DEF SwitchTab
  <2>2. hero' \in Hero BY <1>3, <2>1 DEF SwitchTab, Hero
  <2> QED BY <1>3, <2>1, <2>2 DEF SwitchTab, TypeOK, store
<1> QED BY <1>1, <1>2, <1>3

LEMMA TypeSession ==
  ASSUME TypeOK, NEW a \in Asks, Sign(a) \/ StoreGuest(a) \/ AskFails(a)
  PROVE  TypeOK'
<1> ask[a] \in Ask BY DEF TypeOK
<1>1. CASE Sign(a)
  <2>1. Signed(a) \in Token BY SignedIsToken
  <2>2. [at |-> "signed", token |-> Signed(a)] \in Ask BY <2>1 DEF Ask
  <2> HIDE DEF Ask
  <2>3. ask' \in [Asks -> Ask] BY <1>1, <2>2 DEF Sign, TypeOK
  <2> QED BY <1>1, <2>3 DEF Sign, TypeOK, store, bounds
<1>2. CASE StoreGuest(a)
  <2>1. guest' \in Token \cup {None} BY <1>2 DEF StoreGuest, Ask
  <2>2. [at |-> "over", token |-> None] \in Ask BY DEF Ask
  <2>3. ask' \in [Asks -> Ask] BY <1>2, <2>2 DEF StoreGuest, TypeOK
  <2> QED BY <1>2, <2>1, <2>3 DEF StoreGuest, TypeOK, bounds
<1>3. CASE AskFails(a)
  <2>1. [at |-> "over", token |-> None] \in Ask BY DEF Ask
  <2>2. ask' \in [Asks -> Ask] BY <1>3, <2>1 DEF AskFails, TypeOK
  <2>3. looks' \in 0..MaxLooks /\ fails' \in 0..MaxFails BY <1>3, FailType DEF AskFails
  <2> QED BY <1>3, <2>2, <2>3 DEF AskFails, TypeOK, store
<1> QED BY <1>1, <1>2, <1>3

LEMMA BeginType ==
  ASSUME TypeOK, NEW k \in {"url", "confirm", "job", "download"},
         NEW f \in {None, User} \cup Asks, Begin(k, f)
  PROVE  call' \in [Calls -> Call]
<1>1. hero.zone \in 0..MaxLooks BY DEF TypeOK, Hero
<1>2. PICK c \in Calls : call' = [call EXCEPT ![c] = Sent(k, hero.zone, f)] BY DEF Begin
<1>3. Sent(k, hero.zone, f) \in Call BY <1>1, SentIsCall
<1> QED BY <1>2, <1>3, CallChanges

LEMMA TypeZone == ASSUME TypeOK, ZoneStep \/ JobEnds PROVE TypeOK'
<1> flow \in Flow /\ flow.file \in {None, User} \cup Asks BY DEF TypeOK, Flow
<1> Fresh \in Flow BY DEF Fresh, Flow
<1>1. CASE Drop
  <2>1. call' \in [Calls -> Call] BY <1>1, BeginType DEF Drop
  <2> QED BY <1>1, <2>1 DEF Drop, Begin, TypeOK, store, bounds
<1>2. CASE Submit
  <2>1. call' \in [Calls -> Call] BY <1>2, BeginType DEF Submit
  <2> QED BY <1>2, <2>1 DEF Submit, Begin, TypeOK, store, bounds
<1>3. CASE Download
  <2>1. call' \in [Calls -> Call] BY <1>3, BeginType DEF Download
  <2> QED BY <1>3, <2>1 DEF Download, Begin, TypeOK, store, bounds
<1>4. CASE Reset BY <1>4 DEF Reset, TypeOK, store, bounds
<1>5. CASE JobEnds
  <2>1. flow' \in Flow BY <1>5 DEF JobEnds, Flow
  <2> QED BY <1>5, <2>1 DEF JobEnds, TypeOK, store, bounds
<1> QED BY <1>1, <1>2, <1>3, <1>4, <1>5 DEF ZoneStep

LEMMA TypeCall ==
  ASSUME TypeOK, NEW c \in Calls, CallStep(c) \/ CallFails(c)
  PROVE  TypeOK'
<1> call[c] \in Call /\ flow \in Flow /\ hero \in Hero BY DEF TypeOK
<1>1. CASE Serve(c)
  <2>1. PICK r \in Call : call' = [call EXCEPT ![c] = r]
    <3> DEFINE v == Verdict(call[c])
               f == IF v = "ok" THEN call[c].token.who ELSE call[c].file
               r == [call[c] EXCEPT !.at = "reply", !.status = v, !.file = f]
    <3>1. v \in {"ok", "expired", "foreign"} BY DEF Verdict
    <3>2. v = "ok" => call[c].token \in Token BY DEF Verdict, Call
    <3>3. f \in {None, User} \cup Asks BY <3>2 DEF Call, Token
    <3>4. call' = [call EXCEPT ![c] = r] BY <1>1 DEF Serve, TypeOK
    <3> HIDE DEF v, f
    <3>5. r \in Call BY <3>1, <3>3 DEF Call
    <3> QED BY <3>4, <3>5
  <2>2. call' \in [Calls -> Call] BY <2>1, CallChanges
  <2> QED BY <1>1, <2>2 DEF Serve, TypeOK, store, bounds
<1>2. CASE CallFails(c)
  <2>1. [call[c] EXCEPT !.at = "reply", !.status = "error"] \in Call BY DEF Call
  <2>2. call' \in [Calls -> Call] BY <1>2, <2>1 DEF CallFails, TypeOK
  <2>3. looks' \in 0..MaxLooks /\ fails' \in 0..MaxFails BY <1>2, FailType DEF CallFails
  <2> QED BY <1>2, <2>2, <2>3 DEF CallFails, TypeOK, store
<1>3. CASE Intercept(c)
  <2>1. [call[c] EXCEPT !.at = "waiting", !.again = TRUE] \in Call BY DEF Call
  <2>2. call' \in [Calls -> Call] BY <1>3, <2>1 DEF Intercept, TypeOK
  <2>3. shared' \in Refreshing BY <1>3 DEF Intercept, OneRefresh, TypeOK, Refreshing
  <2> QED BY <1>3, <2>2, <2>3 DEF Intercept, TypeOK, store, bounds
<1>4. CASE Settle(c)
  <2>1. [call[c] EXCEPT !.at = "storing"] \in Call BY DEF Call
  <2>2. call' \in [Calls -> Call] BY <1>4, <2>1, FreeIsCall DEF Settle, TypeOK
  <2>3. Told(call[c], call[c].status # "ok") \in Flow BY DEF Told, Flow, Call
  <2>4. flow' \in Flow BY <1>4, <2>3 DEF Settle
  <2> QED BY <1>4, <2>2, <2>4 DEF Settle, TypeOK, store, bounds
<1>5. CASE Confirm(c)
  <2>1. call[c].zone \in 0..MaxLooks /\ call[c].file \in {None, User} \cup Asks BY DEF Call
  <2>2. Sent("confirm", call[c].zone, call[c].file) \in Call BY <2>1, SentIsCall
  <2>3. call' \in [Calls -> Call] BY <1>5, <2>2, CallChanges DEF Confirm
  <2> QED BY <1>5, <2>3 DEF Confirm, TypeOK, store, bounds
<1> QED BY <1>1, <1>2, <1>3, <1>4, <1>5 DEF CallStep

LEMMA TypeRefresh ==
  ASSUME TypeOK, RefreshServed \/ RefreshFails \/ Refreshed
  PROVE  TypeOK'
<1>0. shared \in Refreshing /\ NoRefresh \in Refreshing BY DEF TypeOK, NoRefresh, Refreshing
<1>1. CASE RefreshServed
  <2>1. Signed(User) \in Token BY SignedIsToken
  <2>2. shared' \in Refreshing BY <1>1, <2>1 DEF RefreshServed, Refreshing
  <2> QED BY <1>1, <2>2 DEF RefreshServed, TypeOK, store, bounds
<1>2. CASE RefreshFails
  <2>1. shared' \in Refreshing BY <1>2 DEF RefreshFails, Refreshing
  <2>2. looks' \in 0..MaxLooks /\ fails' \in 0..MaxFails BY <1>2, FailType DEF RefreshFails
  <2> QED BY <1>2, <2>1, <2>2 DEF RefreshFails, TypeOK, store
<1>3. CASE Refreshed
  <2>1. access' \in Token \cup {None} /\ access' = shared.token
    BY <1>0, <1>3 DEF Refreshed, Refreshing
  <2>2. ASSUME NEW c \in Calls PROVE call'[c] \in Call
    <3>1. call[c] \in Call BY DEF TypeOK
    <3>2. [call[c] EXCEPT !.at = "sent", !.token = shared.token, !.status = "none"] \in Call
      BY <2>1, <3>1 DEF Call
    <3>3. [call[c] EXCEPT !.at = "reply"] \in Call BY <3>1 DEF Call
    <3> QED BY <1>3, <3>1, <3>2, <3>3 DEF Refreshed
  <2>3. call' \in [Calls -> Call] BY <1>3, <2>2 DEF Refreshed
  <2>4. swapped' \in BOOLEAN BY <1>3 DEF Refreshed
  <2> QED BY <1>0, <1>3, <2>1, <2>3, <2>4 DEF Refreshed, TypeOK, bounds
<1> QED BY <1>1, <1>2, <1>3

LEMMA TypeElse ==
  ASSUME TypeOK, SignIn \/ SignOut \/ Elsewhere \/ Tick \/ UNCHANGED vars
  PROVE  TypeOK'
<1> Signed(User) \in Token BY SignedIsToken
<1>1. Ended => shared' \in Refreshing BY DEF Ended, TypeOK, Refreshing
<1>2. CASE SignIn BY <1>1, <1>2 DEF SignIn, TypeOK, bounds
<1>3. CASE SignOut BY <1>1, <1>3 DEF SignOut, TypeOK, bounds
<1>4. CASE Elsewhere BY <1>1, <1>4, FailType DEF Elsewhere, TypeOK
<1>5. CASE Tick BY <1>5, VisitAssumption DEF Tick, TypeOK, store, bounds
<1>6. CASE UNCHANGED vars BY <1>6 DEF vars, store, bounds, TypeOK
<1> QED BY <1>2, <1>3, <1>4, <1>5, <1>6

LEMMA TypeNext == TypeOK /\ [Next]_vars => TypeOK'
BY TypePage, TypeSession, TypeZone, TypeCall, TypeRefresh, TypeElse DEF Next

\* The state always has its shape.
THEOREM TypeCorrect == Spec => []TypeOK
BY TypeInit, TypeNext, PTL DEF Spec

-----------------------------------------------------------------------------
(***************************************************************************)
(* Sessions, zones and calls.                                              *)
(***************************************************************************)
\* What every step does to the sessions that are asked for, but those of three actions.
Quiet == guest' = guest /\ ask' = ask /\ crossed' = crossed /\ hero' = hero

LEMMA QuietSteps ==
  ASSUME TypeOK, [Next]_vars
  PROVE  \/ Quiet
         \/ Mount
         \/ (Leave \/ SwitchTab) /\ guest' = guest /\ ask' = ask /\ crossed' = crossed
         \/ \E a \in Asks : (Sign(a) \/ StoreGuest(a) \/ AskFails(a)) /\ hero' = hero /\ crossed' = crossed
<1>1. CASE ZoneStep
  BY <1>1 DEF ZoneStep, Drop, Submit, Download, Reset, Begin, Quiet, store
<1>2. ASSUME NEW c \in Calls, CallStep(c) \/ CallFails(c) PROVE Quiet
  BY <1>2 DEF CallStep, Serve, Intercept, Settle, Confirm, CallFails, Quiet, store
<1>3. CASE JobEnds \/ RefreshServed \/ RefreshFails \/ Refreshed \/ SignIn \/ SignOut \/ Elsewhere \/ Tick \/ UNCHANGED vars
  BY <1>3 DEF JobEnds, RefreshServed, RefreshFails, Refreshed, SignIn, SignOut, Elsewhere, Tick, vars, Quiet, store
<1>4. CASE Leave \/ SwitchTab BY <1>4 DEF Leave, SwitchTab, store
<1>5. ASSUME NEW a \in Asks, Sign(a) \/ StoreGuest(a) \/ AskFails(a)
      PROVE  hero' = hero /\ crossed' = crossed
  BY <1>5 DEF Sign, StoreGuest, AskFails
<1> QED BY <1>1, <1>2, <1>3, <1>4, <1>5 DEF Next

LEMMA RolesInit == Init => Roles
BY DEF Init, Roles, NoRefresh

LEMMA RolesNext == TypeOK /\ Roles /\ [Next]_vars => Roles'
<1> SUFFICES ASSUME TypeOK, Roles, [Next]_vars PROVE Roles' OBVIOUS
<1>1. access' # None => access'.who = User
  <2>1. access' \in {access, Signed(User), None, shared.token}
    <3>1. CASE ZoneStep
      BY <3>1 DEF ZoneStep, Drop, Submit, Download, Reset, Begin, store
    <3>2. ASSUME NEW c \in Calls, CallStep(c) \/ CallFails(c) PROVE access' = access
      BY <3>2 DEF CallStep, Serve, Intercept, Settle, Confirm, CallFails, store
    <3>3. CASE JobEnds \/ RefreshServed \/ RefreshFails \/ Refreshed \/ SignIn \/ SignOut \/ Elsewhere \/ Tick \/ UNCHANGED vars
      BY <3>3 DEF JobEnds, RefreshServed, RefreshFails, Refreshed, SignIn, SignOut, Elsewhere, Tick, vars, store
    <3>4. CASE Mount \/ Leave \/ SwitchTab BY <3>4 DEF Mount, Leave, SwitchTab, store
    <3>5. ASSUME NEW a \in Asks, Sign(a) \/ StoreGuest(a) \/ AskFails(a) PROVE access' = access
      BY <3>5 DEF Sign, StoreGuest, AskFails, store
    <3> QED BY <3>1, <3>2, <3>3, <3>4, <3>5 DEF Next
  <2> QED BY <2>1 DEF Roles, Signed
<1>2. guest' # None => guest'.who \in Asks
  <2>1. ASSUME Mount PROVE guest' = None \/ guest' = guest
    BY <2>1 DEF Mount, CheckSession, Session
  <2>2. ASSUME NEW a \in Asks, Sign(a) \/ StoreGuest(a) \/ AskFails(a)
        PROVE  guest' = guest \/ guest' = ask[a].token
    BY <2>2 DEF Sign, StoreGuest, AskFails, store
  <2> QED BY <2>1, <2>2, QuietSteps DEF Quiet, Roles
<1>3. ASSUME NEW b \in Asks, ask'[b].token # None
      PROVE  ask'[b].at = "signed" /\ ask'[b].token.who \in Asks
  <2>1. CASE ask' = ask BY <2>1, <1>3 DEF Roles
  <2>2. CASE Mount
    <3>1. ask' = ask \/ \E a \in Asks : ask[a].at = "none" /\ ask' = [ask EXCEPT ![a].at = "sent"]
      BY <2>2 DEF Mount, CheckSession, Session
    <3>2. ASSUME NEW a \in Asks, ask[a].at = "none", ask' = [ask EXCEPT ![a].at = "sent"]
          PROVE  ask'[b].at = "signed" /\ ask'[b].token.who \in Asks
      <4>1. ask[a] \in Ask /\ ask'[b].token = ask[b].token BY <3>2 DEF TypeOK, Ask
      <4>2. ask[b].at = "signed" /\ ask[b].token.who \in Asks BY <4>1, <1>3 DEF Roles
      <4>3. a # b BY <4>2, <3>2
      <4> QED BY <4>1, <4>2, <4>3, <3>2 DEF TypeOK
    <3> QED BY <3>1, <3>2, <2>1
  <2>3. ASSUME NEW a \in Asks, Sign(a) \/ StoreGuest(a) \/ AskFails(a)
        PROVE  ask'[b].at = "signed" /\ ask'[b].token.who \in Asks
    <3>1. \/ ask' = [ask EXCEPT ![a] = [at |-> "signed", token |-> Signed(a)]]
          \/ ask' = [ask EXCEPT ![a] = [at |-> "over", token |-> None]]
      BY <2>3 DEF Sign, StoreGuest, AskFails
    <3>2. CASE b = a BY <3>1, <3>2, <1>3 DEF TypeOK, Signed
    <3>3. CASE b # a BY <3>1, <3>3, <1>3 DEF TypeOK, Roles
    <3> QED BY <3>2, <3>3
  <2> QED BY <2>1, <2>2, <2>3, QuietSteps DEF Quiet
<1>4. shared'.token # None => shared'.at = "reply" /\ shared'.token.who = User
  <2>0. shared \in Refreshing BY DEF TypeOK
  <2>1. CASE shared' = shared BY <2>1 DEF Roles
  <2>2. CASE RefreshServed BY <2>2 DEF RefreshServed, Signed
  <2>3. ASSUME RefreshFails \/ Refreshed PROVE shared'.token = None
    <3>1. CASE RefreshFails BY <3>1 DEF RefreshFails
    <3>2. CASE Refreshed BY <3>2 DEF Refreshed, NoRefresh
    <3> QED BY <2>3, <3>1, <3>2
  <2>4. CASE SignIn \/ SignOut \/ Elsewhere
    BY <2>0, <2>4 DEF SignIn, SignOut, Elsewhere, Ended, Refreshing, Roles
  <2>5. ASSUME NEW c \in Calls, CallStep(c) \/ CallFails(c)
        PROVE  shared'.token # None => shared'.at = "reply" /\ shared'.token.who = User
    <3>1. shared' = shared \/ shared' = OneRefresh
      BY <2>5 DEF CallStep, Serve, Intercept, Settle, Confirm, CallFails
    <3> QED BY <3>1, <2>1 DEF OneRefresh, Roles
  <2>6. CASE ZoneStep BY <2>1, <2>6 DEF ZoneStep, Drop, Submit, Download, Reset, Begin
  <2>7. CASE Mount \/ Leave \/ SwitchTab \/ JobEnds \/ Tick \/ UNCHANGED vars
    BY <2>1, <2>7 DEF Mount, Leave, SwitchTab, JobEnds, Tick, vars
  <2>8. ASSUME NEW a \in Asks, Sign(a) \/ StoreGuest(a) \/ AskFails(a) PROVE shared' = shared
    BY <2>8 DEF Sign, StoreGuest, AskFails
  <2> QED BY <2>1, <2>2, <2>3, <2>4, <2>5, <2>6, <2>7, <2>8 DEF Next
<1> QED BY <1>1, <1>2, <1>3, <1>4 DEF Roles

LEMMA OneInit == Init => OneSession
BY DEF Init, OneSession, UnderWay

LEMMA OneNext == TypeOK /\ OneSession /\ [Next]_vars => OneSession'
<1> SUFFICES ASSUME TypeOK, OneSession, [Next]_vars, ~crossed' PROVE OneSession'
  BY DEF OneSession
<1>1. CASE guest' = guest /\ ask' = ask /\ crossed' = crossed
  BY <1>1 DEF OneSession, UnderWay
<1>2. CASE Mount
  <2>1. ~crossed BY <1>2 DEF Mount, CheckSession, Session
  <2>2. CASE Missing
    <3>1. PICK a \in Asks : ask' = [ask EXCEPT ![a].at = "sent"] BY <1>2, <2>2 DEF Mount, CheckSession, Session
    <3>2. guest' = None /\ \A b \in Asks : ~UnderWay(b) BY <1>2, <2>2 DEF Mount, CheckSession, Session
    <3>3. \A b \in Asks : b # a => ~UnderWay(b)' BY <3>1, <3>2 DEF UnderWay, TypeOK
    <3> QED BY <3>2, <3>3 DEF OneSession
  <2>3. CASE ~Missing BY <1>2, <2>3, <1>1 DEF Mount, CheckSession, Session
  <2> QED BY <2>2, <2>3
<1>3. ASSUME NEW a \in Asks, Sign(a) \/ StoreGuest(a) \/ AskFails(a), crossed' = crossed PROVE OneSession'
  <2>1. UnderWay(a) BY <1>3 DEF Sign, StoreGuest, AskFails, UnderWay
  <2>2. \A b \in Asks : UnderWay(b)' => UnderWay(b) BY <1>3, <2>1 DEF Sign, StoreGuest, AskFails, UnderWay, TypeOK
  <2>3. \A b \in Asks : UnderWay(b) => b = a BY <1>3, <2>1 DEF OneSession
  <2>4. CASE guest' = guest BY <2>2, <2>4, <1>3 DEF OneSession
  <2>5. CASE StoreGuest(a)
    <3>1. ~UnderWay(a)' BY <2>5 DEF StoreGuest, UnderWay, TypeOK
    <3> QED BY <3>1, <2>2, <2>3 DEF OneSession
  <2> QED BY <2>4, <2>5, <1>3 DEF Sign, AskFails, store
<1> QED BY <1>1, <1>2, <1>3, QuietSteps DEF Quiet

\* What a step does to the calls: none of them, one of them, or the refresh.
LEMMA CallEffect ==
  ASSUME TypeOK, [Next]_vars, ~Refreshed
  PROVE  \/ call' = call
         \/ ZoneStep /\ \E c \in Calls, k \in {"url", "job", "download"}, f \in {None, User} \cup Asks :
               call' = [call EXCEPT ![c] = Sent(k, hero.zone, f)]
         \/ \E c \in Calls : CallStep(c) \/ CallFails(c)
<1>0. flow.file \in {None, User} \cup Asks BY DEF TypeOK, Flow
<1>1. CASE ZoneStep BY <1>1, <1>0 DEF ZoneStep, Drop, Submit, Download, Reset, Begin
<1>2. CASE JobEnds \/ RefreshServed \/ RefreshFails \/ SignIn \/ SignOut \/ Elsewhere \/ Tick
           \/ UNCHANGED vars
  BY <1>2 DEF JobEnds, RefreshServed, RefreshFails, SignIn, SignOut, Elsewhere, Tick, vars
<1>3. CASE Mount \/ Leave \/ SwitchTab BY <1>3 DEF Mount, Leave, SwitchTab
<1>4. ASSUME NEW a \in Asks, Sign(a) \/ StoreGuest(a) \/ AskFails(a) PROVE call' = call
  BY <1>4 DEF Sign, StoreGuest, AskFails
<1> QED BY <1>1, <1>2, <1>3, <1>4 DEF Next

\* What its own step makes of a call: it stays in its zone, or is over.
LEMMA OwnStep ==
  ASSUME TypeOK, NEW c \in Calls, CallStep(c) \/ CallFails(c)
  PROVE  /\ \A d \in Calls : d # c => call'[d] = call[d]
         /\ call'[c].zone = call[c].zone \/ call'[c] = Free
         /\ call'[c].at \in {"sent", "free"} => call'[c].status = "none"
         /\ call'[c].at = "sent" => call'[c].token = Present
<1> call[c] \in Call BY DEF TypeOK
<1>1. CASE Serve(c) BY <1>1 DEF Serve, TypeOK, Call
<1>2. CASE CallFails(c) BY <1>2 DEF CallFails, TypeOK, Call
<1>3. CASE Intercept(c) BY <1>3 DEF Intercept, TypeOK, Call
<1>4. CASE Settle(c)
  <2>1. CASE call' = [call EXCEPT ![c].at = "storing"] BY <2>1 DEF TypeOK, Call
  <2>2. CASE call' = [call EXCEPT ![c] = Free]
    <3>1. Free.at = "free" /\ Free.status = "none" BY DEF Free
    <3> QED BY <2>2, <3>1 DEF TypeOK
  <2> QED BY <1>4, <2>1, <2>2 DEF Settle
<1>5. CASE Confirm(c) BY <1>5 DEF Confirm, TypeOK, Call, Sent
<1> QED BY <1>1, <1>2, <1>3, <1>4, <1>5 DEF CallStep

LEMMA LooksGrow == ASSUME TypeOK, [Next]_vars PROVE looks' \in Nat /\ looks \in Nat /\ looks' >= looks
<1>0. looks \in Nat /\ MaxLooks \in Nat BY VisitAssumption DEF TypeOK
<1>1. CASE looks' = looks BY <1>0, <1>1
<1>2. ASSUME Look PROVE looks' = looks + 1 BY <1>2 DEF Look
<1>3. CASE Mount \/ Leave \/ SwitchTab BY <1>0, <1>2, <1>3 DEF Mount, Leave, SwitchTab
<1>4. CASE ZoneStep BY <1>1, <1>4 DEF ZoneStep, Drop, Submit, Download, Reset, Begin, bounds
<1>5. CASE JobEnds \/ RefreshServed \/ RefreshFails \/ Refreshed \/ SignIn \/ SignOut \/ Elsewhere \/ Tick \/ UNCHANGED vars
  BY <1>1, <1>5 DEF JobEnds, RefreshServed, RefreshFails, Refreshed, SignIn, SignOut, Elsewhere, Tick, vars, bounds, Fail
<1>6. ASSUME NEW c \in Calls, CallStep(c) \/ CallFails(c) PROVE looks' = looks
  BY <1>6 DEF CallStep, Serve, Intercept, Settle, Confirm, CallFails, bounds, Fail
<1>7. ASSUME NEW a \in Asks, Sign(a) \/ StoreGuest(a) \/ AskFails(a) PROVE looks' = looks
  BY <1>7 DEF Sign, StoreGuest, AskFails, bounds, Fail
<1> QED BY <1>1, <1>3, <1>4, <1>5, <1>6, <1>7 DEF Next

LEMMA TimeGoesOn == ASSUME TypeOK, [Next]_vars PROVE now' \in Nat /\ now \in Nat /\ now' >= now
<1>0. now \in Nat BY VisitAssumption DEF TypeOK
<1>1. CASE now' = now BY <1>0, <1>1
<1>2. CASE Tick BY <1>0, <1>2 DEF Tick
<1>3. CASE Mount \/ Leave \/ SwitchTab BY <1>1, <1>3 DEF Mount, Leave, SwitchTab
<1>4. CASE ZoneStep BY <1>1, <1>4 DEF ZoneStep, Drop, Submit, Download, Reset, Begin
<1>5. CASE JobEnds \/ RefreshServed \/ RefreshFails \/ Refreshed \/ SignIn \/ SignOut \/ Elsewhere \/ UNCHANGED vars
  BY <1>1, <1>5 DEF JobEnds, RefreshServed, RefreshFails, Refreshed, SignIn, SignOut, Elsewhere, vars
<1>6. ASSUME NEW c \in Calls, CallStep(c) \/ CallFails(c) PROVE now' = now
  BY <1>6 DEF CallStep, Serve, Intercept, Settle, Confirm, CallFails
<1>7. ASSUME NEW a \in Asks, Sign(a) \/ StoreGuest(a) \/ AskFails(a) PROVE now' = now
  BY <1>7 DEF Sign, StoreGuest, AskFails
<1> QED BY <1>1, <1>2, <1>3, <1>4, <1>5, <1>6, <1>7 DEF Next

LEMMA ZonesInit == Init => ZonesAreNew
BY DEF Init, ZonesAreNew, Free

LEMMA ZonesNext == TypeOK /\ ZonesAreNew /\ [Next]_vars => ZonesAreNew'
<1> SUFFICES ASSUME TypeOK, ZonesAreNew, [Next]_vars PROVE ZonesAreNew' OBVIOUS
<1>0. looks' >= looks /\ looks \in Nat /\ looks' \in Nat /\ now' >= now /\ now \in Nat /\ now' \in Nat
  BY LooksGrow, TimeGoesOn
<1>1. hero.zone \in Nat /\ hero.since \in Nat /\ \A c \in Calls : call[c].zone \in Nat
  BY VisitAssumption DEF TypeOK, Hero, Call
<1>2. hero'.zone <= looks' /\ hero'.since <= now'
  <2>1. CASE hero' = hero BY <2>1, <1>0, <1>1 DEF ZonesAreNew
  <2>2. CASE Mount BY <2>2, <1>0 DEF Mount
  <2>3. CASE Leave BY <2>3, <1>0, <1>1 DEF Leave, ZonesAreNew, TypeOK, Hero
  <2>4. CASE SwitchTab BY <2>4, <1>0, <1>1 DEF SwitchTab, ZonesAreNew, TypeOK, Hero
  <2> QED BY <2>1, <2>2, <2>3, <2>4, QuietSteps DEF Quiet
<1>3. ASSUME NEW d \in Calls PROVE call'[d].zone <= looks'
  <2>0. call[d].zone <= looks' /\ hero.zone <= looks' BY <1>0, <1>1 DEF ZonesAreNew
  <2>1. CASE call' = call BY <2>1, <2>0
  <2>2. ASSUME NEW c \in Calls, NEW k, NEW f, call' = [call EXCEPT ![c] = Sent(k, hero.zone, f)]
        PROVE  call'[d].zone <= looks'
    BY <2>2, <2>0 DEF TypeOK, Sent
  <2>3. ASSUME NEW c \in Calls, CallStep(c) \/ CallFails(c) PROVE call'[d].zone <= looks'
    BY <2>3, <2>0, <1>0, OwnStep DEF Free
  <2>4. CASE Refreshed BY <2>4, <2>0 DEF Refreshed, TypeOK, Call
  <2> QED BY <2>1, <2>2, <2>3, <2>4, CallEffect
<1> QED BY <1>2, <1>3 DEF ZonesAreNew

LEMMA SentNext == TypeOK /\ SentIsNew /\ [Next]_vars => SentIsNew'
<1> SUFFICES ASSUME TypeOK, SentIsNew, [Next]_vars, NEW d \in Calls, call'[d].at \in {"sent", "free"}
             PROVE  call'[d].status = "none"
  BY DEF SentIsNew
<1>1. CASE call' = call BY <1>1 DEF SentIsNew
<1>2. ASSUME NEW c \in Calls, NEW k, NEW f, call' = [call EXCEPT ![c] = Sent(k, hero.zone, f)]
      PROVE  call'[d].status = "none"
  BY <1>2 DEF TypeOK, Sent, SentIsNew
<1>3. ASSUME NEW c \in Calls, CallStep(c) \/ CallFails(c) PROVE call'[d].status = "none"
  BY <1>3, OwnStep DEF SentIsNew
<1>4. CASE Refreshed BY <1>4 DEF Refreshed, TypeOK, Call, SentIsNew
<1> QED BY <1>1, <1>2, <1>3, <1>4, CallEffect

-----------------------------------------------------------------------------
(***************************************************************************)
(* Whose calls and files those of the zone are.                            *)
(***************************************************************************)
Steady == hero.on /\ ~crossed /\ ~swapped

\* One call of the zone changes, the tab acts for the same one as before.
LEMMA OneCallChanges ==
  ASSUME TypeOK, ZoneIsOwn, Steady,
         guest' = guest, access' = access, hero' = hero,
         NEW c \in Calls, NEW r, call' = [call EXCEPT ![c] = r],
         r.zone = hero.zone /\ r.at # "free" => guest # None /\ Own(r, Present.who),
         flow'.step \in {"options", "done"} => guest # None /\ flow'.file = Present.who
  PROVE  ZoneIsOwn'
<1>1. Present' = Present BY DEF Present
<1>2. ASSUME NEW d \in Calls, Current(d)', call'[d].at # "free"
      PROVE  guest' # None /\ Own(call'[d], Present'.who)
  <2>1. CASE d = c BY <2>1, <1>1, <1>2 DEF TypeOK, Current
  <2>2. CASE d # c
    <3>1. call'[d] = call[d] /\ Current(d) BY <2>2, <1>2 DEF TypeOK, Current
    <3> QED BY <3>1, <1>1, <1>2 DEF ZoneIsOwn, Steady
  <2> QED BY <2>1, <2>2
<1> QED BY <1>1, <1>2 DEF ZoneIsOwn

LEMMA OwnPage ==
  ASSUME TypeOK, ZonesAreNew, Mount \/ Leave \/ SwitchTab
  PROVE  ZoneIsOwn'
<1>1. CASE Leave
  <2>1. ~hero'.on BY <1>1 DEF Leave, TypeOK, Hero
  <2> QED BY <2>1 DEF ZoneIsOwn
<1>2. CASE Mount \/ SwitchTab
  <2>1. call' = call /\ flow' = Fresh /\ hero'.zone = looks' /\ Look
    BY <1>2 DEF Mount, SwitchTab, TypeOK, Hero
  <2>2. looks' > looks /\ looks \in Nat /\ looks' \in Nat BY <2>1, VisitAssumption DEF Look, TypeOK
  <2>3. ASSUME NEW c \in Calls PROVE ~Current(c)'
    <3>1. call[c].zone \in Nat /\ call[c].zone <= looks BY VisitAssumption DEF TypeOK, Call, ZonesAreNew
    <3> QED BY <2>1, <2>2, <3>1 DEF Current
  <2> QED BY <2>1, <2>3 DEF ZoneIsOwn, Fresh
<1> QED BY <1>1, <1>2

LEMMA OwnSession ==
  ASSUME TypeOK, OneSession, ZoneIsOwn, NEW a \in Asks, Sign(a) \/ StoreGuest(a) \/ AskFails(a)
  PROVE  ZoneIsOwn'
<1>1. access' = access /\ hero' = hero /\ flow' = flow /\ call' = call /\ crossed' = crossed /\ swapped' = swapped
  BY DEF Sign, StoreGuest, AskFails, store
<1>2. CASE guest' = guest BY <1>1, <1>2 DEF ZoneIsOwn, Present, Current
<1>3. CASE StoreGuest(a)
  <2>1. ~crossed => guest = None BY <1>3 DEF StoreGuest, OneSession, UnderWay
  <2> QED BY <2>1, <1>1 DEF ZoneIsOwn, Current
<1> QED BY <1>2, <1>3 DEF Sign, AskFails, store

LEMMA OwnZoneStep ==
  ASSUME TypeOK, ZoneIsOwn, ZoneStep \/ JobEnds
  PROVE  ZoneIsOwn'
<1>0. /\ guest' = guest /\ access' = access /\ hero' = hero /\ crossed' = crossed /\ swapped' = swapped
      /\ guest # None /\ flow \in Flow
  BY DEF ZoneStep, Drop, Submit, Download, Reset, JobEnds, Begin, store, Ready, TypeOK
<1> SUFFICES ASSUME Steady PROVE ZoneIsOwn' BY <1>0 DEF ZoneIsOwn, Steady
<1>1. Present # None BY <1>0 DEF Present
<1>2. ASSUME NEW k, NEW f, k = "url" \/ f = Present.who, Begin(k, f),
             flow'.step \in {"options", "done"} => flow'.file = Present.who
      PROVE  ZoneIsOwn'
  <2>1. PICK c \in Calls : call' = [call EXCEPT ![c] = Sent(k, hero.zone, f)] BY <1>2 DEF Begin
  <2>2. Own(Sent(k, hero.zone, f), Present.who) BY <1>1, <1>2 DEF Own, Sent
  <2> HIDE DEF Sent
  <2> QED BY <1>0, <1>2, <2>1, <2>2, OneCallChanges
<1>3. CASE Drop BY <1>2, <1>3 DEF Drop, Fresh
<1>4. CASE Submit
  <2>1. flow.file = Present.who BY <1>4 DEF Submit, ZoneIsOwn, Steady
  <2> QED BY <1>2, <1>4, <2>1 DEF Submit
<1>5. CASE Download
  <2>1. flow.file = Present.who BY <1>5 DEF Download, ZoneIsOwn, Steady
  <2> QED BY <1>2, <1>5, <2>1 DEF Download
<1>6. CASE Reset \/ JobEnds
  <2>1. call' = call /\ (flow'.step \in {"options", "done"} => flow'.file = Present.who)
    <3>1. CASE Reset BY <3>1 DEF Reset, Fresh
    <3>2. CASE JobEnds
      <4>1. PICK s \in {"done", "error"} : flow' = [flow EXCEPT !.step = s] BY <3>2 DEF JobEnds
      <4>2. flow'.file = flow.file BY <4>1, <1>0 DEF Flow
      <4> QED BY <3>2, <4>2 DEF JobEnds
    <3> QED BY <1>6, <3>1, <3>2
  <2> QED BY <2>1, <1>0 DEF ZoneIsOwn, Steady, Current, Present
<1> QED BY <1>3, <1>4, <1>5, <1>6 DEF ZoneStep

LEMMA OwnCall ==
  ASSUME TypeOK, ZoneIsOwn, NEW c \in Calls, CallStep(c) \/ CallFails(c)
  PROVE  ZoneIsOwn'
<1>0. guest' = guest /\ access' = access /\ hero' = hero /\ crossed' = crossed /\ swapped' = swapped
  BY DEF CallStep, Serve, CallFails, Intercept, Settle, Confirm, store
<1> SUFFICES ASSUME Steady PROVE ZoneIsOwn' BY <1>0 DEF ZoneIsOwn, Steady
<1> DEFINE w == Present.who
           x == call[c]
<1>1. x \in Call BY DEF TypeOK
<1>2. x.zone = hero.zone /\ x.at # "free" => guest # None /\ Own(x, w)
  BY DEF ZoneIsOwn, Steady, Current
<1>3. flow.step \in {"options", "done"} => guest # None /\ flow.file = w
  BY DEF ZoneIsOwn, Steady
<1> HIDE DEF w
<1>4. ASSUME NEW r, call' = [call EXCEPT ![c] = r], flow' = flow, r.zone = x.zone, x.at # "free",
             Own(x, w) => Own(r, w)
      PROVE  ZoneIsOwn'
  <2>1. r.zone = hero.zone /\ r.at # "free" => guest # None /\ Own(r, w) BY <1>2, <1>4
  <2> QED BY <1>0, <1>3, <1>4, <2>1, OneCallChanges DEF w
<1>5. CASE Serve(c)
  <2> DEFINE v == Verdict(x)
             r == [x EXCEPT !.at = "reply", !.status = v, !.file = IF v = "ok" THEN x.token.who ELSE x.file]
  <2>1. call' = [call EXCEPT ![c] = r] /\ flow' = flow /\ x.at = "sent" BY <1>5 DEF Serve, TypeOK
  <2>2. r.zone = x.zone BY <1>1 DEF Call
  <2>3. v \in {"ok", "expired", "foreign"} /\ (v = "foreign" => x.kind # "url" /\ x.file # x.token.who)
    BY DEF Verdict
  <2>4. /\ r.at = "reply" /\ r.kind = x.kind /\ r.status = v
        /\ r.file = IF v = "ok" THEN x.token.who ELSE x.file
    BY <1>1 DEF Call
  <2> HIDE DEF v, r
  <2>5. Own(x, w) => Own(r, w) BY <2>1, <2>3, <2>4 DEF Own
  <2> QED BY <1>4, <2>1, <2>2, <2>5
<1>6. CASE CallFails(c)
  <2> DEFINE r == [x EXCEPT !.at = "reply", !.status = "error"]
  <2>1. call' = [call EXCEPT ![c] = r] /\ flow' = flow /\ x.at # "free" BY <1>6 DEF CallFails, TypeOK
  <2>2. r.zone = x.zone /\ (Own(x, w) => Own(r, w)) BY <1>1 DEF Call, Own
  <2> QED BY <1>4, <2>1, <2>2
<1>7. CASE Intercept(c)
  <2> DEFINE r == [x EXCEPT !.at = "waiting", !.again = TRUE]
  <2>1. call' = [call EXCEPT ![c] = r] /\ flow' = flow /\ x.at # "free" BY <1>7 DEF Intercept, TypeOK
  <2>2. r.zone = x.zone /\ (Own(x, w) => Own(r, w)) BY <1>1 DEF Call, Own
  <2> QED BY <1>4, <2>1, <2>2
<1>8. CASE Settle(c)
  <2>1. CASE x.kind = "url" /\ x.status = "ok"
    <3> DEFINE r == [x EXCEPT !.at = "storing"]
    <3>1. call' = [call EXCEPT ![c] = r] /\ flow' = flow /\ x.at # "free" BY <1>8, <2>1 DEF Settle, TypeOK
    <3>2. r.zone = x.zone /\ (Own(x, w) => Own(r, w)) BY <1>1, <2>1 DEF Call, Own
    <3> QED BY <1>4, <3>1, <3>2
  <2>2. CASE ~(x.kind = "url" /\ x.status = "ok")
    <3>1. call' = [call EXCEPT ![c] = Free] /\ flow' = Told(x, x.status # "ok") /\ x.at = "reply"
      BY <1>8, <2>2 DEF Settle
    <3>2. Free.at = "free" BY DEF Free
    <3>3. flow'.step \in {"options", "done"} => guest # None /\ flow'.file = w
      <4>1. CASE flow' = flow BY <4>1, <1>3
      <4>2. CASE flow' = [flow EXCEPT !.step = "error"] \/ flow' = [flow EXCEPT !.step = "processing"]
        BY <4>2 DEF TypeOK, Flow
      <4>3. CASE x.zone = hero.zone /\ x.status = "ok" /\ flow' = [step |-> "options", file |-> x.file]
        BY <4>3, <1>2, <3>1 DEF Own
      <4> QED BY <3>1, <4>1, <4>2, <4>3 DEF Told
    <3> QED BY <1>0, <3>1, <3>2, <3>3, OneCallChanges DEF w
  <2> QED BY <2>1, <2>2
<1>9. CASE Confirm(c)
  <2> DEFINE r == Sent("confirm", x.zone, x.file)
  <2>1. call' = [call EXCEPT ![c] = r] /\ flow' = flow /\ x.at = "storing" BY <1>9 DEF Confirm
  <2>2. /\ r.zone = x.zone /\ r.file = x.file /\ r.token = Present /\ r.kind = "confirm"
        /\ r.status = "none" /\ r.at = "sent"
    BY DEF Sent
  <2> HIDE DEF r
  <2>3. r.zone = hero.zone => guest # None /\ Own(r, w)
    <3>1. ASSUME guest # None PROVE Present # None BY <3>1 DEF Present
    <3> QED BY <1>2, <2>1, <2>2, <3>1 DEF Own, w
  <2> QED BY <1>0, <1>3, <2>1, <2>3, OneCallChanges DEF w
<1> QED BY <1>5, <1>6, <1>7, <1>8, <1>9 DEF CallStep

\* A refresh that does not change whom the tab acts for.
LEMMA OwnRefresh ==
  ASSUME TypeOK, Roles, ZoneIsOwn, Refreshed
  PROVE  ZoneIsOwn'
<1>0. guest' = guest /\ hero' = hero /\ crossed' = crossed /\ flow' = flow BY DEF Refreshed
<1> SUFFICES ASSUME hero.on, ~crossed, ~swapped' PROVE ZoneIsOwn' BY <1>0 DEF ZoneIsOwn
<1> DEFINE t == shared.token
<1>1. Steady /\ ((access # None) <=> (t # None))
  <2>1. swapped' = (swapped \/ (hero.on /\ (access # None) # (t # None))) BY DEF Refreshed
  <2> QED BY <2>1 DEF Steady
<1>2. access' = t /\ (t # None => t.who = User) BY DEF Refreshed, Roles
<1>3. Present'.who = Present.who
  <2>1. CASE t # None BY <1>1, <1>2, <2>1 DEF Refreshed, Present, Roles
  <2>2. CASE t = None BY <1>0, <1>1, <2>2 DEF Refreshed, Present
  <2> QED BY <2>1, <2>2
<1>4. ASSUME NEW c \in Calls, Current(c)', call'[c].at # "free"
      PROVE  guest' # None /\ Own(call'[c], Present'.who)
  <2>0. call[c] \in Call BY DEF TypeOK
  <2>1. CASE call[c].at # "waiting"
    <3>1. call'[c] = call[c] BY <2>1 DEF Refreshed
    <3> QED BY <3>1, <1>0, <1>1, <1>3, <1>4 DEF ZoneIsOwn, Steady, Current
  <2>2. CASE call[c].at = "waiting"
    <3>1. call[c].zone = call'[c].zone BY <2>0, <2>2 DEF Refreshed, Call
    <3>2. guest # None /\ Own(call[c], Present.who)
      BY <1>0, <1>1, <1>4, <2>2, <3>1 DEF ZoneIsOwn, Steady, Current
    <3>3. CASE t # None
      <4>1. call'[c] = [call[c] EXCEPT !.at = "sent", !.token = t, !.status = "none"]
        BY <2>2, <3>3 DEF Refreshed
      <4>2. t # None /\ t.who = Present.who BY <1>1, <1>2, <3>3 DEF Refreshed, Present, Roles
      <4> QED BY <1>0, <1>3, <2>0, <2>2, <3>2, <4>1, <4>2 DEF Own, Call
    <3>4. CASE t = None
      <4>1. call'[c] = [call[c] EXCEPT !.at = "reply"] BY <2>2, <3>4 DEF Refreshed
      <4> QED BY <1>0, <1>3, <2>0, <2>2, <3>2, <4>1 DEF Own, Call
    <3> QED BY <3>3, <3>4
  <2> QED BY <2>1, <2>2
<1> QED BY <1>0, <1>1, <1>3, <1>4 DEF ZoneIsOwn, Steady

LEMMA OwnNext ==
  TypeOK /\ Roles /\ OneSession /\ ZonesAreNew /\ ZoneIsOwn /\ [Next]_vars => ZoneIsOwn'
<1> SUFFICES ASSUME TypeOK, Roles, OneSession, ZonesAreNew, ZoneIsOwn, [Next]_vars PROVE ZoneIsOwn'
  OBVIOUS
<1>1. CASE SignIn \/ SignOut BY <1>1 DEF SignIn, SignOut, ZoneIsOwn
<1>2. CASE Elsewhere \/ Tick \/ RefreshServed \/ RefreshFails \/ UNCHANGED vars
  <2>1. /\ guest' = guest /\ access' = access /\ hero' = hero /\ flow' = flow /\ call' = call
        /\ crossed' = crossed /\ swapped' = swapped
    BY <1>2 DEF Elsewhere, Tick, RefreshServed, RefreshFails, vars, store
  <2> QED BY <2>1 DEF ZoneIsOwn, Current, Present
<1> QED BY <1>1, <1>2, OwnPage, OwnSession, OwnZoneStep, OwnCall, OwnRefresh DEF Next

-----------------------------------------------------------------------------
(***************************************************************************)
(* How long a guest's tokens last.                                         *)
(***************************************************************************)
\* The token of a new request is good if the guest's is.
LEMMA PresentLasts == Roles /\ Lasts(guest, hero.since) => Lasts(Present, hero.since)
BY DEF Roles, Lasts, Present

LEMMA LastNext ==
  TypeOK /\ Roles /\ OneSession /\ ZonesAreNew /\ TokensLast /\ [Next]_vars => TokensLast'
<1> SUFFICES ASSUME TypeOK, Roles, OneSession, ZonesAreNew, TokensLast, [Next]_vars, hero'.on, ~crossed'
             PROVE  TokensLast'
  BY DEF TokensLast
<1> USE DEF Lasts
<1>0. now \in Nat /\ hero.since \in Nat /\ hero.since <= now /\ Ttl \in Nat /\ Margin \in Nat /\ Margin <= Ttl
  BY VisitAssumption DEF TypeOK, Hero, ZonesAreNew
<1>1. CASE Mount
  <2>1. hero'.since = now /\ hero'.zone = looks' /\ call' = call /\ Look /\ ~crossed
    BY <1>1 DEF Mount, CheckSession, Session
  <2>2. \A c \in Calls : ~Current(c)'
    <3>1. looks' > looks /\ looks \in Nat /\ looks' \in Nat BY <2>1, VisitAssumption DEF Look, TypeOK
    <3>2. \A c \in Calls : call[c].zone \in Nat /\ call[c].zone <= looks
      BY VisitAssumption DEF TypeOK, Call, ZonesAreNew
    <3> QED BY <2>1, <3>1, <3>2 DEF Current
  <2>3. CASE Missing
    <3>1. guest' = None /\ \A b \in Asks : ~UnderWay(b)
      BY <1>1, <2>3 DEF Mount, CheckSession, Session
    <3>2. \A b \in Asks : ask[b].token = None BY <3>1 DEF Roles, UnderWay
    <3>3. PICK a \in Asks : ask' = [ask EXCEPT ![a].at = "sent"]
      BY <1>1, <2>3 DEF Mount, CheckSession, Session
    <3>4. \A b \in Asks : ask'[b].token = None BY <3>2, <3>3 DEF TypeOK, Ask
    <3> QED BY <2>2, <3>1, <3>4 DEF TokensLast
  <2>4. CASE ~Missing
    <3>1. guest' = guest /\ ask' = ask BY <1>1, <2>4 DEF Mount, CheckSession, Session
    <3>2. guest # None /\ ~(guest.exp < now + Margin) BY <2>4 DEF Missing
    <3>3. guest.exp \in Nat BY <3>2, VisitAssumption DEF TypeOK, Token
    <3>4. guest.exp >= now + Margin BY <1>0, <3>2, <3>3
    <3>5. \A b \in Asks : ask[b].token = None BY <2>1, <3>2 DEF OneSession, Roles, UnderWay
    <3> QED BY <2>1, <2>2, <3>1, <3>4, <3>5 DEF TokensLast
  <2> QED BY <2>3, <2>4
<1>2. CASE Leave BY <1>2 DEF Leave, TypeOK, Hero
<1>3. CASE SwitchTab
  <2>1. /\ guest' = guest /\ ask' = ask /\ call' = call /\ crossed' = crossed /\ hero.on
        /\ hero'.since = hero.since /\ hero'.zone = looks' /\ Look
    BY <1>3 DEF SwitchTab, Ready, store, TypeOK, Hero
  <2>2. \A c \in Calls : ~Current(c)'
    <3>1. looks' > looks /\ looks \in Nat /\ looks' \in Nat BY <2>1, VisitAssumption DEF Look, TypeOK
    <3>2. \A c \in Calls : call[c].zone \in Nat /\ call[c].zone <= looks
      BY VisitAssumption DEF TypeOK, Call, ZonesAreNew
    <3> QED BY <2>1, <3>1, <3>2 DEF Current
  <2> QED BY <2>1, <2>2 DEF TokensLast
<1>4. ASSUME NEW a \in Asks, Sign(a) \/ StoreGuest(a) \/ AskFails(a) PROVE TokensLast'
  <2>1. hero' = hero /\ call' = call /\ crossed' = crossed BY <1>4 DEF Sign, StoreGuest, AskFails
  <2>2. Lasts(guest, hero.since) /\ (\A b \in Asks : Lasts(ask[b].token, hero.since))
        /\ \A c \in Calls : Current(c) /\ call[c].at = "sent" => Lasts(call[c].token, hero.since)
    BY <2>1 DEF TokensLast
  <2>3. guest' = guest \/ guest' = ask[a].token BY <1>4 DEF Sign, StoreGuest, AskFails, store
  <2>4. Signed(a).exp >= hero.since + Margin BY <1>0 DEF Signed
  <2>5. ASSUME NEW b \in Asks PROVE Lasts(ask'[b].token, hero'.since)
    <3>1. ask'[b].token \in {ask[b].token, None, Signed(a)} BY <1>4 DEF Sign, StoreGuest, AskFails, TypeOK
    <3> QED BY <2>1, <2>2, <2>4, <3>1
  <2> QED BY <2>1, <2>2, <2>3, <2>5 DEF TokensLast, Current
<1>5. CASE Quiet
  <2>1. Lasts(guest, hero.since) /\ (\A b \in Asks : Lasts(ask[b].token, hero.since))
        /\ \A c \in Calls : Current(c) /\ call[c].at = "sent" => Lasts(call[c].token, hero.since)
    BY <1>5 DEF TokensLast, Quiet
  <2>2. ASSUME NEW d \in Calls, Current(d)', call'[d].at = "sent" PROVE Lasts(call'[d].token, hero'.since)
    <3>1. CASE call'[d] = call[d] BY <3>1, <2>1, <2>2, <1>5 DEF Current, Quiet
    <3>2. CASE call'[d].token = Present BY <3>2, <2>1, <1>5, PresentLasts DEF Quiet
    <3>3. CASE Refreshed /\ call'[d] # call[d]
      <4>1. call'[d].token = shared.token /\ shared.token # None
        BY <3>3, <2>2 DEF Refreshed, TypeOK, Call
      <4> QED BY <4>1 DEF Roles
    <3>4. ASSUME NEW c \in Calls, NEW k, NEW f, call' = [call EXCEPT ![c] = Sent(k, hero.zone, f)]
          PROVE  call'[d] = call[d] \/ call'[d].token = Present
      BY <3>4 DEF TypeOK, Sent
    <3>5. ASSUME NEW c \in Calls, CallStep(c) \/ CallFails(c)
          PROVE  call'[d] = call[d] \/ call'[d].token = Present
      BY <3>5, <2>2, OwnStep
    <3> QED BY <3>1, <3>2, <3>3, <3>4, <3>5, CallEffect
  <2> QED BY <1>5, <2>1, <2>2 DEF TokensLast, Quiet
<1> QED BY <1>1, <1>2, <1>3, <1>4, <1>5, QuietSteps

-----------------------------------------------------------------------------
(***************************************************************************)
(* The theorems.                                                           *)
(***************************************************************************)
LEMMA Inductive == Spec => []IInv
<1>1. Init => IInv
  <2>1. Init => SentIsNew BY DEF Init, SentIsNew, Free
  <2>2. Init => ZoneIsOwn /\ TokensLast BY DEF Init, ZoneIsOwn, TokensLast
  <2> QED BY <2>1, <2>2, TypeInit, RolesInit, OneInit, ZonesInit DEF IInv
<1>2. IInv /\ [Next]_vars => IInv'
  BY TypeNext, RolesNext, OneNext, ZonesNext, SentNext, OwnNext, LastNext DEF IInv
<1> QED BY <1>1, <1>2, PTL DEF Spec

\* A file that was uploaded in a zone can be used there, unless two sessions were asked
\* for at once or a refresh has changed whom the tab acts for.
THEOREM ZonesKeepTheirFiles == Spec => []FileStaysOwn
<1>1. IInv => FileStaysOwn
  <2> SUFFICES ASSUME IInv, NEW c \in Calls, call[c].status = "foreign", Current(c), ~crossed, ~swapped
               PROVE  FALSE
    BY DEF FileStaysOwn
  <2>1. CASE call[c].at # "free" BY <2>1 DEF IInv, ZoneIsOwn, Current, Own
  <2>2. CASE call[c].at = "free" BY <2>2 DEF IInv, SentIsNew
  <2> QED BY <2>1, <2>2
<1> QED BY <1>1, Inductive, PTL

\* For the margin after the page was opened, no call of a guest is refused as expired.
THEOREM GuestsHaveTheMargin == Spec => GuestHasAMinute
<1>1. ASSUME IInv, [Next]_vars, NEW c \in Calls, Current(c), call[c].at = "sent",
             call[c].token \notin {None}, call[c].token.who # User, call'[c].status = "expired"
      PROVE  crossed \/ now >= hero.since + Margin
  <2> TypeOK /\ call[c] \in Call BY <1>1 DEF IInv, TypeOK
  <2>1. call[c].status = "none" BY <1>1 DEF IInv, SentIsNew
  <2>2. ~Refreshed BY <1>1, <2>1 DEF Refreshed
  <2>3. ASSUME NEW d \in Calls, NEW k, NEW f, call' = [call EXCEPT ![d] = Sent(k, hero.zone, f)]
        PROVE  call'[c].status = "none"
    BY <2>1, <2>3 DEF TypeOK, Sent
  <2>4. ASSUME NEW d \in Calls, d # c, CallStep(d) \/ CallFails(d)
        PROVE  call'[c].status = "none"
    BY <2>1, <2>4, OwnStep
  <2>5. ~CallFails(c) BY <1>1 DEF CallFails, TypeOK, Call
  <2>6. CallStep(c) BY <1>1, <2>1, <2>2, <2>3, <2>4, <2>5, CallEffect
  <2>7. Serve(c) BY <1>1, <2>6 DEF CallStep, Intercept, Settle, Confirm
  <2>8. call'[c].status = Verdict(call[c]) BY <2>7 DEF Serve, TypeOK, Call
  <2>9. now >= call[c].token.exp BY <1>1, <2>8 DEF Verdict
  <2>10. ASSUME ~crossed PROVE call[c].token.exp >= hero.since + Margin
    BY <1>1, <2>10 DEF IInv, TokensLast, Lasts, Current
  <2>11. /\ call[c].token.exp \in Nat /\ now \in Nat
         /\ hero.since \in Nat /\ Margin \in Nat
    BY <1>1, VisitAssumption DEF Call, Token, TypeOK, Hero
  <2> QED BY <2>9, <2>10, <2>11
<1>2. IInv /\ [Next]_vars =>
        [\A c \in Calls :
           /\ Current(c) /\ call[c].at = "sent" /\ call[c].token \notin {None}
           /\ call[c].token.who # User /\ call'[c].status = "expired"
           => crossed \/ now >= hero.since + Margin]_vars
  BY <1>1
<1> QED BY <1>2, Inductive, PTL DEF Spec, GuestHasAMinute
=============================================================================
