-------------------------- MODULE FilePages_proofs --------------------------
(***************************************************************************)
(* Proofs about FilePages, for any number of files, deletions and pages of *)
(* any size: types, and that a page which was answered after the changes   *)
(* of its tab is the server's.                                             *)
(***************************************************************************)
EXTENDS FilePages, FiniteSetTheorems, TLAPS

\* The rows are not what an answered request of this tab has seen, and the tab is
\* still to be told.
Untold ==
  \/ \E f \in Present : up[f] \in {"reserved", "ready"}
  \/ \E d \in Clicks : del[d].at = "ok"

\* What was read of page k, if anything was, is what is there.
Matches(rows, total, k) ==
  /\ rows # None => rows = PageRows(k[2])
  /\ total # None => total = Cardinality(Present)

\* An upload that is not confirmed is refused for a row that is gone, and for no other.
ReservedIsPending ==
  \A f \in Files : up[f] = "reserved" => file[f] \in {"pending", "deleted"}

FetchedIsCurrent ==
  ~Untold /\ ~apart =>
    \A k \in Keys : fetch[k].on /\ ~fetch[k].old => Matches(fetch[k].rows, fetch[k].total, k)

CachedIsCurrent ==
  /\ at \in Keys /\ cache[at].rows # None
  /\ ~fetch[at].on /\ ~cache[at].stale /\ ~cache[at].bad /\ ~Untold /\ ~apart
  => cache[at].rows = PageRows(at[2]) /\ cache[at].total = Cardinality(Present)

IInv == TypeOK /\ ReservedIsPending /\ FetchedIsCurrent /\ CachedIsCurrent

-----------------------------------------------------------------------------
(***************************************************************************)
(* Types.                                                                  *)
(***************************************************************************)
LEMMA FirstPage == 1 \in Files /\ <<"page", 1>> \in Keys
BY PagesAssumption DEF Files, Keys

LEMMA PresentIsFinite == IsFiniteSet(Present) /\ Cardinality(Present) \in 0..MaxFiles
<1>1. MaxFiles \in Nat /\ 1 \in Int /\ MaxFiles \in Int BY PagesAssumption
<1>2. IsFiniteSet(Files) /\ Cardinality(Files) = MaxFiles
  BY <1>1, PagesAssumption, FS_Interval DEF Files
<1>3. Present \in SUBSET Files BY DEF Present
<1>4. IsFiniteSet(Present) /\ Cardinality(Present) <= MaxFiles BY <1>2, <1>3, FS_Subset
<1>5. Cardinality(Present) \in Nat BY <1>4, FS_CardinalityType
<1> QED BY <1>1, <1>4, <1>5

\* A list has no more pages than there are files.
LEMMA PagesAreKeys ==
  ASSUME TypeOK, NEW k \in Keys
  PROVE  TotalPages(k) \in Nat /\ TotalPages(k) <= MaxFiles
<1> DEFINE t == cache[k].total
           q == (t + Limit - 1) \div Limit
<1>1. t \in Nat /\ t <= MaxFiles /\ MaxFiles \in Nat /\ Limit \in Nat /\ Limit >= 1
  BY PagesAssumption DEF TypeOK, Cached
<1> HIDE DEF t
<1>2. q \in Nat /\ q * Limit <= t + Limit - 1 BY <1>1
<1>3. ASSUME q >= t + 1 PROVE FALSE
  <2>1. q * Limit >= (t + 1) * Limit BY <1>1, <1>2, <1>3
  <2>2. (t + 1) * Limit = t * Limit + Limit BY <1>1
  <2>3. t * Limit >= t BY <1>1
  <2>4. t * Limit \in Nat /\ q * Limit \in Nat BY <1>1, <1>2
  <2> QED BY <1>1, <1>2, <2>1, <2>2, <2>3, <2>4
<1>4. q <= MaxFiles BY <1>1, <1>2, <1>3
<1> QED BY <1>2, <1>4 DEF TotalPages, t

LEMMA Requests == Idle \in Fetch /\ Asked \in Fetch
BY DEF Idle, Asked, Fetch

LEMMA AskType == ASSUME TypeOK, NEW k PROVE Ask(k) \in [Keys -> Fetch]
BY Requests DEF Ask, TypeOK

LEMMA InvalidateType == ASSUME TypeOK, NEW k PROVE Invalidate(k) \in [Keys -> Fetch]
<1>1. ASSUME NEW l \in Keys
      PROVE  [fetch[l] EXCEPT !.old = @ \/ fetch[l].rows # None \/ fetch[l].total # None] \in Fetch
  BY DEF TypeOK, Fetch
<1> QED BY <1>1, Requests DEF Invalidate

LEMMA CardsType == ASSUME TypeOK, NEW k, NEW rows PROVE Cards(k, rows) \in [Files -> {"off", "shown", "hidden"}]
BY DEF Cards, TypeOK

LEMMA AbandonedType == TypeOK => Abandoned \in [Clicks -> Delete]
<1> SUFFICES ASSUME TypeOK, NEW d \in Clicks PROVE [del[d] EXCEPT !.by = "card"] \in Delete
  BY DEF Abandoned
<1> QED BY DEF TypeOK, Delete

LEMMA Counters ==
  ASSUME TypeOK
  PROVE  /\ Look => looks' \in 0..MaxLooks
         /\ Upset => upsets' \in 0..MaxUpsets
BY PagesAssumption DEF TypeOK, Look, Upset

LEMMA TypeInit == Init => TypeOK
<1> SUFFICES ASSUME Init PROVE TypeOK OBVIOUS
<1>1. made \in 0..MaxFiles /\ 0 \in 0..MaxFiles /\ 0 \in 0..MaxUpsets /\ 0 \in 0..MaxLooks
  BY PagesAssumption DEF Init
<1>2. fetch \in [Keys -> Fetch] BY Requests DEF Init
<1>3. cache \in [Keys -> Cached] BY <1>1 DEF Init, Cached
<1>4. del \in [Clicks -> Delete] BY DEF Init, Delete
<1> QED BY <1>1, <1>2, <1>3, <1>4, FirstPage DEF Init, TypeOK

LEMMA TypeShow == ASSUME TypeOK, NEW k \in {None} \cup Keys \cup Details, Show(k) PROVE TypeOK'
<1>1. fetch' \in [Keys -> Fetch] BY AskType DEF Show
<1>2. card' \in [Files -> {"off", "shown", "hidden"}] BY CardsType DEF Show
<1>3. del' \in [Clicks -> Delete] BY AbandonedType DEF Show
<1>4. looks' \in 0..MaxLooks BY Counters DEF Show
<1> QED BY <1>1, <1>2, <1>3, <1>4 DEF Show, TypeOK

\* Every page and file that is shown is one.
LEMMA ShowSteps ==
  ASSUME TypeOK, Open \/ Leave \/ Previous \/ NextPage \/ \E f \in Files : OpenFile(f)
  PROVE  \E k \in {None} \cup Keys \cup Details : Show(k)
<1>1. CASE Open \/ Leave BY <1>1, FirstPage DEF Open, Leave
<1>2. CASE \E f \in Files : OpenFile(f) BY <1>2 DEF OpenFile, Details
<1>3. CASE Previous \/ NextPage
  <2>1. at \in Keys BY <1>3 DEF Previous, NextPage
  <2>2. PICK n \in Files : at = <<"page", n>> BY <2>1 DEF Keys
  <2>3. at[2] = n /\ n \in Nat /\ n >= 1 /\ n <= MaxFiles /\ MaxFiles \in Nat
    BY <2>2, PagesAssumption DEF Files
  <2>4. TotalPages(at) \in Nat /\ TotalPages(at) <= MaxFiles BY <2>1, PagesAreKeys
  <2>5. PICK m \in Nat : m >= 1 /\ m <= MaxFiles /\ Turn(m)
    <3>1. CASE Previous
      <4>1. n > 1 /\ Turn(n - 1) BY <3>1, <2>3 DEF Previous
      <4>2. n - 1 \in Nat /\ n - 1 >= 1 /\ n - 1 <= MaxFiles BY <4>1, <2>3
      <4> QED BY <4>1, <4>2
    <3>2. CASE NextPage
      <4>1. n < TotalPages(at) /\ Turn(n + 1) BY <3>2, <2>3 DEF NextPage
      <4>2. n + 1 \in Nat /\ n + 1 >= 1 /\ n + 1 <= MaxFiles BY <4>1, <2>3, <2>4
      <4> QED BY <4>1, <4>2
    <3> QED BY <1>3, <3>1, <3>2
  <2>6. m \in Files BY <2>5, <2>3 DEF Files
  <2> QED BY <2>5, <2>6 DEF Turn, Keys
<1> QED BY <1>1, <1>2, <1>3

LEMMA ClickType == ASSUME TypeOK, NEW x \in Delete, Click(x) PROVE del' \in [Clicks -> Delete]
BY DEF Click, TypeOK

LEMMA TypeUser == TypeOK /\ UserStep => TypeOK'
<1> SUFFICES ASSUME TypeOK, UserStep PROVE TypeOK' OBVIOUS
<1>1. CASE Open \/ Leave \/ Previous \/ NextPage \/ \E f \in Files : OpenFile(f)
  BY <1>1, ShowSteps, TypeShow
<1>2. CASE Focus BY <1>2, AskType, Counters DEF Focus, TypeOK
<1>3. ASSUME NEW f \in Files, Drop(f) PROVE TypeOK' BY <1>3 DEF Drop, TypeOK
<1>4. ASSUME NEW f \in Files, Collapse(f) PROVE TypeOK'
  <2>1. [file |-> f, by |-> "card", at |-> "timer"] \in Delete BY DEF Delete
  <2>2. del' \in [Clicks -> Delete] BY <1>4, <2>1, ClickType DEF Collapse
  <2> QED BY <1>4, <2>2 DEF Collapse, TypeOK
<1>5. ASSUME NEW f \in Files, DeleteFile(f) PROVE TypeOK'
  <2>1. [file |-> f, by |-> "page", at |-> "sent"] \in Delete BY DEF Delete
  <2>2. del' \in [Clicks -> Delete] BY <1>5, <2>1, ClickType DEF DeleteFile
  <2> QED BY <1>5, <2>2 DEF DeleteFile, TypeOK
<1> QED BY <1>1, <1>2, <1>3, <1>4, <1>5 DEF UserStep

LEMMA TypeFetch == ASSUME TypeOK, NEW k \in Keys, FetchStep(k) \/ FetchFails(k) PROVE TypeOK'
<1> fetch[k] \in Fetch /\ cache[k] \in Cached BY DEF TypeOK
<1>1. CASE ReadRows(k)
  <2>1. PageRows(k[2]) \in SUBSET Files BY DEF PageRows, Present
  <2>2. [fetch[k] EXCEPT !.rows = PageRows(k[2])] \in Fetch BY <2>1 DEF Fetch
  <2>3. fetch' \in [Keys -> Fetch] BY <1>1, <2>2 DEF ReadRows, TypeOK
  <2> QED BY <1>1, <2>3 DEF ReadRows, TypeOK
<1>2. CASE ReadTotal(k)
  <2>1. Cardinality(Present) \in 0..MaxFiles BY PresentIsFinite
  <2>2. [fetch[k] EXCEPT !.total = Cardinality(Present)] \in Fetch BY <2>1 DEF Fetch
  <2>3. fetch' \in [Keys -> Fetch] BY <1>2, <2>2 DEF ReadTotal, TypeOK
  <2> QED BY <1>2, <2>3 DEF ReadTotal, TypeOK
<1>3. CASE Answer(k)
  <2>1. [rows |-> fetch[k].rows, total |-> fetch[k].total, bad |-> FALSE, stale |-> fetch[k].old] \in Cached
    BY <1>3 DEF Answer, Fetch, Cached
  <2>2. cache' \in [Keys -> Cached] BY <1>3, <2>1 DEF Answer, TypeOK
  <2>3. card' \in [Files -> {"off", "shown", "hidden"}] BY <1>3, CardsType DEF Answer, TypeOK
  <2>4. fetch' \in [Keys -> Fetch] BY <1>3, Requests DEF Answer, TypeOK
  <2> QED BY <1>3, <2>2, <2>3, <2>4 DEF Answer, TypeOK
<1>4. CASE FetchFails(k)
  <2>1. [cache[k] EXCEPT !.bad = TRUE] \in Cached BY DEF Cached
  <2>2. cache' \in [Keys -> Cached] BY <1>4, <2>1 DEF FetchFails, TypeOK
  <2>3. fetch' \in [Keys -> Fetch] BY <1>4, Requests DEF FetchFails, TypeOK
  <2> QED BY <1>4, <2>2, <2>3, Counters DEF FetchFails, TypeOK
<1> QED BY <1>1, <1>2, <1>3, <1>4 DEF FetchStep

LEMMA TypeUpload == ASSUME TypeOK, NEW f \in Files, UploadStep(f) \/ UploadFails(f) PROVE TypeOK'
<1>1. CASE Reserve(f)
  <2>1. f \in 0..MaxFiles BY PagesAssumption DEF Files
  <2> QED BY <1>1, <2>1 DEF Reserve, TypeOK
<1>2. CASE Confirm(f) BY <1>2 DEF Confirm, TypeOK
<1>3. CASE Uploaded(f)
  <2>1. fetch' \in [Keys -> Fetch] BY <1>3, InvalidateType DEF Uploaded, TypeOK
  <2> QED BY <1>3, <2>1 DEF Uploaded, TypeOK
<1>4. CASE UploadFails(f)
  <2>1. apart' \in BOOLEAN BY <1>4 DEF UploadFails
  <2> QED BY <1>4, <2>1, Counters DEF UploadFails, TypeOK
<1> QED BY <1>1, <1>2, <1>3, <1>4 DEF UploadStep

LEMMA TypeDelete == ASSUME TypeOK, NEW d \in Clicks, DeleteStep(d) \/ DeleteFails(d) PROVE TypeOK'
<1>0. ASSUME NEW a \in {"none", "timer", "sent", "found", "ok", "refused", "over"}, del' = [del EXCEPT ![d].at = a]
      PROVE  del' \in [Clicks -> Delete]
  <2>1. del[d] \in Delete BY DEF TypeOK
  <2>2. [del[d] EXCEPT !.at = a] \in Delete BY <2>1 DEF Delete
  <2> QED BY <1>0, <2>2 DEF TypeOK
<1>1. CASE Fire(d)
  <2>1. del' \in [Clicks -> Delete] BY <1>0, <1>1 DEF Fire
  <2> QED BY <1>1, <2>1 DEF Fire, TypeOK
<1>2. CASE RemoveRow(d)
  <2>1. del' \in [Clicks -> Delete] BY <1>0, <1>2 DEF RemoveRow
  <2> QED BY <1>2, <2>1 DEF RemoveRow, TypeOK
<1>5. CASE FindRow(d)
  <2>1. del' \in [Clicks -> Delete] BY <1>0, <1>5 DEF FindRow
  <2> QED BY <1>5, <2>1 DEF FindRow, TypeOK
<1>3. CASE Deleted(d)
  <2>1. del' \in [Clicks -> Delete] BY <1>0, <1>3 DEF Deleted
  <2>2. /\ fetch' \in [Keys -> Fetch]
        /\ card' \in [Files -> {"off", "shown", "hidden"}]
        /\ at' \in {None} \cup Keys \cup Details
    BY <1>3, InvalidateType, CardsType, FirstPage, Requests DEF Deleted, TypeOK
  <2> QED BY <1>3, <2>1, <2>2 DEF Deleted, TypeOK
<1>4. CASE DeleteFails(d)
  <2>1. del' \in [Clicks -> Delete] BY <1>0, <1>4 DEF DeleteFails
  <2>2. apart' \in BOOLEAN BY <1>4 DEF DeleteFails, TypeOK
  <2> QED BY <1>4, <2>1, <2>2, Counters DEF DeleteFails, TypeOK
<1> QED BY <1>1, <1>2, <1>3, <1>4, <1>5 DEF DeleteStep

LEMMA TypeElsewhere == TypeOK /\ (Elsewhere \/ UNCHANGED vars) => TypeOK'
<1>1. ASSUME TypeOK, Elsewhere PROVE TypeOK'
  <2>1. made' \in 0..MaxFiles /\ file' \in [Files -> {"none", "pending", "ready", "deleted"}]
    BY <1>1, PagesAssumption DEF Elsewhere, TypeOK
  <2> QED BY <1>1, <2>1, Counters DEF Elsewhere, TypeOK
<1>2. ASSUME TypeOK, UNCHANGED vars PROVE TypeOK' BY <1>2 DEF vars, TypeOK
<1> QED BY <1>1, <1>2

LEMMA TypeNext == TypeOK /\ [Next]_vars => TypeOK'
BY TypeUser, TypeFetch, TypeUpload, TypeDelete, TypeElsewhere DEF Next, Failure

\* The state always has its shape.
THEOREM TypeCorrect == Spec => []TypeOK
BY TypeInit, TypeNext, PTL DEF Spec

-----------------------------------------------------------------------------
(***************************************************************************)
(* What steps do to the rows, to requests and to the page on the screen.   *)
(***************************************************************************)
\* This tab is told of a change that was answered.
Told ==
  \/ \E f \in Files : Uploaded(f) /\ up[f] = "ready"
  \/ \E d \in Clicks : Deleted(d) /\ del[d].at = "ok"

\* A new deletion, and one that goes on to a state that is not "ok".
LEMMA ClickEffect ==
  ASSUME TypeOK, NEW x \in Delete, Click(x), x.at # "ok", NEW d \in Clicks
  PROVE  del'[d].at = "ok" <=> del[d].at = "ok"
BY DEF Click, TypeOK, Delete

LEMMA AbandonedEffect ==
  ASSUME TypeOK, NEW d \in Clicks
  PROVE  Abandoned[d].at = del[d].at
BY DEF Abandoned, TypeOK, Delete

\* What a person does, and what requests for lists do, is no change of the rows.
LEMMA CalmSteps ==
  ASSUME TypeOK, UserStep \/ UNCHANGED vars \/ \E k \in Keys : FetchStep(k) \/ FetchFails(k)
  PROVE  file' = file /\ apart' = apart /\ (Untold' <=> Untold)
<1>1. CASE Open \/ Leave \/ Previous \/ NextPage \/ \E f \in Files : OpenFile(f)
  <2>1. PICK k : Show(k) BY <1>1, ShowSteps
  <2> QED BY <2>1, AbandonedEffect DEF Show, Untold, Present
<1>2. CASE Focus BY <1>2 DEF Focus, Untold, Present
<1>3. ASSUME NEW f \in Files, Drop(f) PROVE file' = file /\ apart' = apart /\ (Untold' <=> Untold)
  <2>1. \A g \in Files : up'[g] \in {"reserved", "ready"} <=> up[g] \in {"reserved", "ready"}
    BY <1>3 DEF Drop, TypeOK
  <2> QED BY <1>3, <2>1 DEF Drop, Untold, Present
<1>4. ASSUME NEW f \in Files, Collapse(f) \/ DeleteFile(f)
      PROVE  file' = file /\ apart' = apart /\ (Untold' <=> Untold)
  <2>1. \A d \in Clicks : del'[d].at = "ok" <=> del[d].at = "ok"
    <3>1. CASE Collapse(f)
      <4>1. [file |-> f, by |-> "card", at |-> "timer"] \in Delete BY DEF Delete
      <4> QED BY <3>1, <4>1, ClickEffect DEF Collapse
    <3>2. CASE DeleteFile(f)
      <4>1. [file |-> f, by |-> "page", at |-> "sent"] \in Delete BY DEF Delete
      <4> QED BY <3>2, <4>1, ClickEffect DEF DeleteFile
    <3> QED BY <1>4, <3>1, <3>2
  <2>2. file' = file /\ apart' = apart /\ up' = up BY <1>4 DEF Collapse, DeleteFile
  <2> QED BY <2>1, <2>2 DEF Untold, Present
<1>5. ASSUME NEW k \in Keys, FetchStep(k) \/ FetchFails(k)
      PROVE  file' = file /\ apart' = apart /\ (Untold' <=> Untold)
  BY <1>5 DEF FetchStep, ReadRows, ReadTotal, Answer, FetchFails, Untold, Present
<1>6. CASE UNCHANGED vars BY <1>6 DEF vars, Untold, Present
<1> QED BY <1>1, <1>2, <1>3, <1>4, <1>5, <1>6 DEF UserStep

\* Unless the tab is not told of it, or is still to be told, no rows have changed.
LEMMA Truth ==
  ASSUME TypeOK, ReservedIsPending, [Next]_vars, ~Untold', ~apart'
  PROVE  Present' = Present /\ ~apart /\ (Untold => Told)
<1>1. CASE UserStep \/ UNCHANGED vars \/ \E k \in Keys : FetchStep(k) \/ FetchFails(k)
  BY <1>1, CalmSteps DEF Present
<1>2. CASE Elsewhere BY <1>2 DEF Elsewhere
<1>3. ASSUME NEW f \in Files, UploadStep(f) \/ UploadFails(f)
      PROVE  Present' = Present /\ ~apart /\ (Untold => Told)
  <2>1. CASE Reserve(f)
    <3>1. f \in Present' /\ up'[f] = "reserved" BY <2>1 DEF Reserve, Present, TypeOK
    <3> QED BY <3>1 DEF Untold
  <2>2. CASE Confirm(f)
    <3>1. Present' = Present BY <2>2 DEF Confirm, Present, TypeOK
    <3>2. ASSUME NEW g \in Present, up[g] \in {"reserved", "ready"} PROVE FALSE
      <4>1. g \in Files BY DEF Present
      <4>2. CASE g = f
        <5>1. file[f] = "pending" BY <2>2, <3>2, <4>2 DEF Confirm, ReservedIsPending, Present
        <5> QED BY <2>2, <3>1, <4>2, <5>1 DEF Confirm, Untold, TypeOK
      <4>3. CASE g # f BY <2>2, <3>1, <3>2, <4>1, <4>3 DEF Confirm, Untold, TypeOK
      <4> QED BY <4>2, <4>3
    <3>3. del' = del /\ apart' = apart BY <2>2 DEF Confirm
    <3> QED BY <3>1, <3>2, <3>3 DEF Untold
  <2>3. CASE Uploaded(f)
    <3>1. file' = file /\ apart' = apart /\ del' = del /\ \A g \in Files : g # f => up'[g] = up[g]
      BY <2>3 DEF Uploaded, TypeOK
    <3>2. CASE up[f] = "ready" BY <2>3, <3>1, <3>2 DEF Told, Present
    <3>3. CASE up[f] = "refused" BY <3>1, <3>3 DEF Untold, Present
    <3> QED BY <2>3, <3>2, <3>3 DEF Uploaded
  <2>4. CASE UploadFails(f)
    <3>1. up[f] = "asked" /\ ~apart BY <2>4 DEF UploadFails
    <3>2. file' = file /\ del' = del /\ \A g \in Files : g # f => up'[g] = up[g]
      BY <2>4 DEF UploadFails, TypeOK
    <3> QED BY <3>1, <3>2 DEF Untold, Present
  <2> QED BY <1>3, <2>1, <2>2, <2>3, <2>4 DEF UploadStep
<1>4. ASSUME NEW d \in Clicks, DeleteStep(d) \/ DeleteFails(d)
      PROVE  Present' = Present /\ ~apart /\ (Untold => Told)
  <2>1. up' = up /\ \A e \in Clicks : e # d => del'[e] = del[e]
    BY <1>4 DEF DeleteStep, Fire, FindRow, RemoveRow, Deleted, DeleteFails, TypeOK
  <2>2. CASE Fire(d) BY <2>1, <2>2 DEF Fire, Untold, Present
  <2>3. CASE RemoveRow(d)
    <3>1. del'[d].at = "ok" BY <2>3 DEF RemoveRow, TypeOK, Delete
    <3> QED BY <3>1 DEF Untold
  <2>6. CASE FindRow(d)
    <3>1. file' = file /\ apart' = apart /\ del[d].at = "sent" BY <2>6 DEF FindRow
    <3> QED BY <2>1, <3>1 DEF Untold, Present
  <2>4. CASE Deleted(d)
    <3>1. file' = file /\ apart' = apart /\ del[d].at \in {"ok", "refused"} BY <2>4 DEF Deleted
    <3>2. CASE del[d].at = "ok" BY <2>4, <3>1, <3>2 DEF Told, Present
    <3>3. CASE del[d].at = "refused" BY <2>1, <3>1, <3>3 DEF Untold, Present
    <3> QED BY <3>1, <3>2, <3>3
  <2>5. CASE DeleteFails(d)
    <3>1. del[d].at \in {"sent", "found"} /\ ~apart BY <2>5 DEF DeleteFails
    <3>2. file' = file BY <2>5 DEF DeleteFails
    <3> QED BY <2>1, <3>1, <3>2 DEF Untold, Present
  <2> QED BY <1>4, <2>2, <2>3, <2>4, <2>5, <2>6 DEF DeleteStep
<1> QED BY <1>1, <1>2, <1>3, <1>4 DEF Next, Failure

\* No request keeps what it has read when the tab is told, without being marked, and
\* the page on the screen is asked for.
LEMMA ToldEffect ==
  ASSUME TypeOK, Told
  PROVE  /\ \A l \in Keys : fetch'[l].on /\ ~fetch'[l].old => fetch'[l].rows = None /\ fetch'[l].total = None
         /\ at' \in Keys => fetch'[at'].on
<1> DEFINE new == Invalidate(at)
           Read(x) == x.on /\ ~x.old => x.rows = None /\ x.total = None
<1>1. \A l \in Keys : fetch[l] \in Fetch BY DEF TypeOK
<1>2. Asked.on /\ Asked.rows = None /\ Asked.total = None BY DEF Asked, Idle
<1>3. ASSUME NEW l \in Keys PROVE Read(new[l])
  <2>1. CASE new[l] = Asked BY <2>1, <1>2
  <2>2. CASE new[l] = [fetch[l] EXCEPT !.old = @ \/ fetch[l].rows # None \/ fetch[l].total # None]
    BY <2>2, <1>1 DEF Fetch
  <2> QED BY <2>1, <2>2 DEF Invalidate
<1>4. at \in Keys => new[at].on
  <2> SUFFICES ASSUME at \in Keys PROVE new[at].on OBVIOUS
  <2>1. CASE new[at] = Asked BY <2>1, <1>2
  <2>2. CASE new[at] # Asked
    <3>1. new[at] = [fetch[at] EXCEPT !.old = @ \/ fetch[at].rows # None \/ fetch[at].total # None]
          /\ fetch[at].on
      BY <2>2 DEF Invalidate
    <3> QED BY <3>1, <1>1 DEF Fetch
  <2> QED BY <2>1, <2>2
<1>5. CASE fetch' = new /\ at' = at BY <1>3, <1>4, <1>5
<1>6. CASE at' = <<"page", 1>> /\ new[at'].on /\ fetch' = new BY <1>3, <1>6
<1>7. CASE at' = <<"page", 1>> /\ fetch' = [new EXCEPT ![at'] = Asked]
  <2>1. DOMAIN new = Keys BY DEF Invalidate
  <2>2. at' \in Keys BY <1>7, FirstPage
  <2> HIDE DEF new
  <2>3. ASSUME NEW l \in Keys PROVE fetch'[l] = Asked \/ fetch'[l] = new[l] BY <1>7, <2>1
  <2>4. fetch'[at'] = Asked BY <1>7, <2>1, <2>2
  <2> QED BY <1>2, <1>3, <2>2, <2>3, <2>4
<1> QED BY <1>5, <1>6, <1>7 DEF Told, Uploaded, Deleted

\* What else becomes of a request: it begins, ends, or reads.
LEMMA FetchEffect ==
  ASSUME TypeOK, [Next]_vars, ~Told, NEW k \in Keys
  PROVE  \/ fetch'[k] = fetch[k] \/ fetch'[k] = Idle \/ fetch'[k] = Asked
         \/ file' = file /\ fetch'[k] = [fetch[k] EXCEPT !.rows = PageRows(k[2])]
         \/ file' = file /\ fetch'[k] = [fetch[k] EXCEPT !.total = Cardinality(Present)]
<1>1. CASE Open \/ Leave \/ Previous \/ NextPage \/ \E f \in Files : OpenFile(f)
  <2>1. PICK l : Show(l) BY <1>1, ShowSteps
  <2> QED BY <2>1 DEF Show, Ask, TypeOK
<1>2. CASE Focus BY <1>2 DEF Focus, Ask, TypeOK
<1>3. ASSUME NEW f \in Files, Drop(f) \/ Collapse(f) \/ DeleteFile(f) PROVE fetch' = fetch
  BY <1>3 DEF Drop, Collapse, DeleteFile
<1>4. ASSUME NEW l \in Keys, ReadRows(l)
      PROVE  fetch'[k] = fetch[k] \/ (file' = file /\ fetch'[k] = [fetch[k] EXCEPT !.rows = PageRows(k[2])])
  BY <1>4 DEF ReadRows, TypeOK
<1>5. ASSUME NEW l \in Keys, ReadTotal(l)
      PROVE  fetch'[k] = fetch[k] \/ (file' = file /\ fetch'[k] = [fetch[k] EXCEPT !.total = Cardinality(Present)])
  BY <1>5 DEF ReadTotal, TypeOK
<1>6. ASSUME NEW l \in Keys, Answer(l) \/ FetchFails(l) PROVE fetch'[k] = fetch[k] \/ fetch'[k] = Idle
  BY <1>6 DEF Answer, FetchFails, TypeOK
<1>7. ASSUME NEW f \in Files, UploadStep(f) \/ UploadFails(f) PROVE fetch' = fetch
  <2>1. ASSUME Uploaded(f) PROVE up[f] # "ready" BY <2>1 DEF Told
  <2> QED BY <1>7, <2>1 DEF UploadStep, Reserve, Confirm, Uploaded, UploadFails
<1>8. ASSUME NEW d \in Clicks, DeleteStep(d) \/ DeleteFails(d) PROVE fetch' = fetch
  <2>1. ASSUME Deleted(d) PROVE del[d].at # "ok" BY <2>1 DEF Told
  <2> QED BY <1>8, <2>1 DEF DeleteStep, Fire, FindRow, RemoveRow, Deleted, DeleteFails
<1>9. CASE Elsewhere \/ UNCHANGED vars BY <1>9 DEF Elsewhere, vars
<1> QED BY <1>1, <1>2, <1>3, <1>4, <1>5, <1>6, <1>7, <1>8, <1>9 DEF Next, UserStep, Failure, FetchStep

\* What becomes of the page on the screen: it is another one and is asked for, or it is
\* answered, or it says that it could not be loaded.
LEMMA PageEffect ==
  ASSUME TypeOK, [Next]_vars, ~Told, at' \in Keys, ~fetch'[at'].on
  PROVE  \/ at' = at /\ ~fetch[at].on /\ cache'[at] = cache[at]
         \/ at' = at /\ Answer(at)
         \/ cache'[at'].bad
<1>1. CASE Open \/ Leave \/ Previous \/ NextPage \/ \E f \in Files : OpenFile(f)
  <2>1. PICK l : Show(l) BY <1>1, ShowSteps
  <2>2. Asked.on BY DEF Asked, Idle
  <2> QED BY <2>1, <2>2 DEF Show, Ask, TypeOK
<1>2. CASE Focus
  <2>2. Asked.on BY DEF Asked, Idle
  <2> QED BY <1>2, <2>2 DEF Focus, Ask, TypeOK
<1>3. ASSUME NEW f \in Files, Drop(f) \/ Collapse(f) \/ DeleteFile(f)
      PROVE  at' = at /\ fetch' = fetch /\ cache' = cache
  BY <1>3 DEF Drop, Collapse, DeleteFile
<1>4. ASSUME NEW l \in Keys, ReadRows(l) \/ ReadTotal(l)
      PROVE  at' = at /\ cache' = cache /\ fetch'[at].on = fetch[at].on
  <2>1. at' = at /\ cache' = cache BY <1>4 DEF ReadRows, ReadTotal
  <2>2. fetch[at] \in Fetch BY <2>1 DEF TypeOK
  <2> QED BY <1>4, <2>1, <2>2 DEF ReadRows, ReadTotal, TypeOK, Fetch
<1>5. ASSUME NEW l \in Keys, Answer(l), l # at
      PROVE  at' = at /\ fetch'[at] = fetch[at] /\ cache'[at] = cache[at]
  BY <1>5 DEF Answer, TypeOK
<1>6. ASSUME NEW l \in Keys, FetchFails(l)
      PROVE  at' = at /\ (cache'[at].bad \/ (fetch'[at] = fetch[at] /\ cache'[at] = cache[at]))
  <2>1. at' = at BY <1>6 DEF FetchFails
  <2>2. CASE l = at
    <3>1. cache'[at] = [cache[at] EXCEPT !.bad = TRUE] /\ cache[at] \in Cached
      BY <1>6, <2>2 DEF FetchFails, TypeOK
    <3> QED BY <2>1, <3>1 DEF Cached
  <2>3. CASE l # at BY <1>6, <2>1, <2>3 DEF FetchFails, TypeOK
  <2> QED BY <2>2, <2>3
<1>7. ASSUME NEW f \in Files, UploadStep(f) \/ UploadFails(f)
      PROVE  at' = at /\ fetch' = fetch /\ cache' = cache
  <2>1. ASSUME Uploaded(f) PROVE up[f] # "ready" BY <2>1 DEF Told
  <2> QED BY <1>7, <2>1 DEF UploadStep, Reserve, Confirm, Uploaded, UploadFails
<1>8. ASSUME NEW d \in Clicks, DeleteStep(d) \/ DeleteFails(d)
      PROVE  at' = at /\ fetch' = fetch /\ cache' = cache
  <2>1. ASSUME Deleted(d) PROVE del[d].at # "ok" BY <2>1 DEF Told
  <2> QED BY <1>8, <2>1 DEF DeleteStep, Fire, FindRow, RemoveRow, Deleted, DeleteFails
<1>9. CASE Elsewhere \/ UNCHANGED vars BY <1>9 DEF Elsewhere, vars
<1>10. ASSUME NEW l \in Keys, FetchStep(l) \/ FetchFails(l)
       PROVE  \/ at' = at /\ ~fetch[at].on /\ cache'[at] = cache[at]
              \/ at' = at /\ Answer(at)
              \/ cache'[at'].bad
  BY <1>4, <1>5, <1>6, <1>10 DEF FetchStep, Answer
<1> QED BY <1>1, <1>2, <1>3, <1>7, <1>8, <1>9, <1>10 DEF Next, UserStep, Failure

-----------------------------------------------------------------------------
(***************************************************************************)
(* The invariant.                                                          *)
(***************************************************************************)
LEMMA InvInit == Init => ReservedIsPending /\ FetchedIsCurrent /\ CachedIsCurrent
<1> SUFFICES ASSUME Init PROVE ReservedIsPending /\ FetchedIsCurrent /\ CachedIsCurrent OBVIOUS
<1>1. ReservedIsPending BY DEF Init, ReservedIsPending
<1>2. FetchedIsCurrent
  <2>1. \A k \in Keys : fetch[k].rows = None /\ fetch[k].total = None BY DEF Init, Asked, Idle
  <2> QED BY <2>1 DEF FetchedIsCurrent, Matches
<1>3. CachedIsCurrent BY FirstPage DEF Init, CachedIsCurrent
<1> QED BY <1>1, <1>2, <1>3

LEMMA ReservedNext == TypeOK /\ ReservedIsPending /\ [Next]_vars => ReservedIsPending'
<1> SUFFICES ASSUME TypeOK, ReservedIsPending, [Next]_vars, NEW g \in Files, up'[g] = "reserved"
             PROVE  file'[g] \in {"pending", "deleted"}
  BY DEF ReservedIsPending
<1>0. up[g] = "reserved" => file[g] \in {"pending", "deleted"} BY DEF ReservedIsPending
<1>1. CASE UserStep
  <2>1. ASSUME Open \/ Leave \/ Previous \/ NextPage \/ \E f \in Files : OpenFile(f)
        PROVE  up' = up /\ file' = file
    BY <2>1, ShowSteps DEF Show
  <2>2. ASSUME NEW f \in Files, Drop(f) PROVE file' = file /\ up[g] = "reserved"
    BY <2>2 DEF Drop, TypeOK
  <2>3. ASSUME NEW f \in Files, Collapse(f) \/ DeleteFile(f) PROVE up' = up /\ file' = file
    BY <2>3 DEF Collapse, DeleteFile
  <2> QED BY <1>0, <1>1, <2>1, <2>2, <2>3 DEF UserStep, Focus
<1>2. ASSUME NEW k \in Keys, FetchStep(k) \/ FetchFails(k) PROVE up' = up /\ file' = file
  BY <1>2 DEF FetchStep, ReadRows, ReadTotal, Answer, FetchFails
<1>3. ASSUME NEW f \in Files, UploadStep(f) \/ UploadFails(f) PROVE file'[g] \in {"pending", "deleted"}
  <2>1. CASE Reserve(f) BY <1>0, <2>1 DEF Reserve, TypeOK
  <2>2. CASE Confirm(f) BY <1>0, <2>2 DEF Confirm, TypeOK
  <2>3. CASE Uploaded(f) BY <1>0, <2>3 DEF Uploaded, TypeOK
  <2>4. CASE UploadFails(f)
    <3>1. file' = file /\ up[g] = "reserved" BY <2>4 DEF UploadFails, TypeOK
    <3> QED BY <1>0, <3>1
  <2> QED BY <1>3, <2>1, <2>2, <2>3, <2>4 DEF UploadStep
<1>4. ASSUME NEW d \in Clicks, DeleteStep(d) \/ DeleteFails(d) PROVE file'[g] \in {"pending", "deleted"}
  <2>1. up' = up BY <1>4 DEF DeleteStep, Fire, FindRow, RemoveRow, Deleted, DeleteFails
  <2>2. file' = file \/ file' = [file EXCEPT ![del[d].file] = "deleted"]
    BY <1>4 DEF DeleteStep, Fire, FindRow, RemoveRow, Deleted, DeleteFails
  <2> QED BY <1>0, <2>1, <2>2 DEF TypeOK
<1>5. CASE Elsewhere
  <2>1. up' = up BY <1>5 DEF Elsewhere
  <2>2. CASE up[made + 1] = "none" /\ file' = [file EXCEPT ![made + 1] = "ready"]
    BY <1>0, <2>1, <2>2 DEF TypeOK
  <2>3. CASE \E f \in Present : file' = [file EXCEPT ![f] = "deleted"]
    BY <1>0, <2>1, <2>3 DEF TypeOK
  <2> QED BY <1>5, <2>2, <2>3 DEF Elsewhere
<1>6. CASE UNCHANGED vars BY <1>0, <1>6 DEF vars
<1> QED BY <1>0, <1>1, <1>2, <1>3, <1>4, <1>5, <1>6 DEF Next, Failure

\* What was read and is not marked remains what is there.
LEMMA FetchedNext == TypeOK /\ ReservedIsPending /\ FetchedIsCurrent /\ [Next]_vars => FetchedIsCurrent'
<1> SUFFICES ASSUME TypeOK, ReservedIsPending, FetchedIsCurrent, [Next]_vars, ~Untold', ~apart',
                    NEW k \in Keys, fetch'[k].on, ~fetch'[k].old
             PROVE  Matches(fetch[k].rows, fetch[k].total, k)'
  BY DEF FetchedIsCurrent
<1>1. Present' = Present /\ ~apart /\ (Untold => Told) BY Truth
<1>2. PageRows(k[2])' = PageRows(k[2]) BY <1>1 DEF PageRows
<1>3. CASE Told BY <1>3, ToldEffect DEF Matches
<1>4. CASE ~Told
  <2>0. fetch[k] \in Fetch BY DEF TypeOK
  <2>1. fetch[k].on /\ ~fetch[k].old => Matches(fetch[k].rows, fetch[k].total, k)
    BY <1>1, <1>4 DEF FetchedIsCurrent
  <2>2. CASE fetch'[k] = fetch[k] BY <1>1, <1>2, <2>1, <2>2 DEF Matches
  <2>3. CASE fetch'[k] = Idle \/ fetch'[k] = Asked BY <2>3 DEF Idle, Asked, Matches
  <2>4. CASE fetch'[k] = [fetch[k] EXCEPT !.rows = PageRows(k[2])]
    BY <1>1, <1>2, <2>0, <2>1, <2>4 DEF Matches, Fetch
  <2>5. CASE fetch'[k] = [fetch[k] EXCEPT !.total = Cardinality(Present)]
    BY <1>1, <1>2, <2>0, <2>1, <2>5 DEF Matches, Fetch
  <2> QED BY <1>4, <2>2, <2>3, <2>4, <2>5, FetchEffect
<1> QED BY <1>3, <1>4

LEMMA CachedNext ==
  TypeOK /\ ReservedIsPending /\ FetchedIsCurrent /\ CachedIsCurrent /\ [Next]_vars => CachedIsCurrent'
<1> SUFFICES ASSUME TypeOK, ReservedIsPending, FetchedIsCurrent, CachedIsCurrent, [Next]_vars,
                    at' \in Keys, cache'[at'].rows # None, ~fetch'[at'].on,
                    ~cache'[at'].stale, ~cache'[at'].bad, ~Untold', ~apart'
             PROVE  cache'[at'].rows = PageRows(at[2])' /\ cache'[at'].total = Cardinality(Present')
  BY DEF CachedIsCurrent
<1>1. Present' = Present /\ ~apart /\ (Untold => Told) BY Truth
<1>2. ~Told /\ ~Untold BY <1>1, ToldEffect
<1>3. \A k : PageRows(k[2])' = PageRows(k[2]) BY <1>1 DEF PageRows
<1>4. CASE at' = at /\ ~fetch[at].on /\ cache'[at] = cache[at]
  BY <1>1, <1>2, <1>3, <1>4 DEF CachedIsCurrent
<1>5. CASE at' = at /\ Answer(at)
  <2>1. cache'[at] = [rows |-> fetch[at].rows, total |-> fetch[at].total, bad |-> FALSE, stale |-> fetch[at].old]
        /\ fetch[at].on /\ fetch[at].rows # None /\ fetch[at].total # None
    BY <1>5 DEF Answer, TypeOK
  <2>2. Matches(fetch[at].rows, fetch[at].total, at) BY <1>1, <1>2, <1>5, <2>1 DEF FetchedIsCurrent
  <2> QED BY <1>1, <1>3, <1>5, <2>1, <2>2 DEF Matches
<1> QED BY <1>2, <1>4, <1>5, PageEffect

LEMMA Invariance == Spec => []IInv
<1>1. Init => IInv BY TypeInit, InvInit DEF IInv
<1>2. IInv /\ [Next]_vars => IInv' BY TypeNext, ReservedNext, FetchedNext, CachedNext DEF IInv
<1> QED BY <1>1, <1>2, PTL DEF Spec

\* A page of the list that was answered, and is not marked as read too early or as one
\* that could not be loaded, is the server's once every change of this tab was answered.
THEOREM PersonSeesWhatTheyDid == Spec => []ShownIsCurrent
<1>1. IInv => ShownIsCurrent
  <2> SUFFICES ASSUME IInv, at \in Keys, cache[at].rows # None, ~fetch[at].on,
                      ~cache[at].stale, ~cache[at].bad, Acknowledged, ~apart
               PROVE  cache[at].rows = PageRows(at[2]) /\ cache[at].total = Cardinality(Present)
    BY DEF ShownIsCurrent
  <2>1. ~Untold BY DEF Acknowledged, Untold, Present
  <2> QED BY <2>1 DEF IInv, CachedIsCurrent
<1> QED BY <1>1, Invariance, PTL
=============================================================================
