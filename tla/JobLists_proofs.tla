--------------------------- MODULE JobLists_proofs ---------------------------
(***************************************************************************)
(* Proofs about JobLists, for any lists, jobs, attempts, losses and        *)
(* visits: types, that what a row shows was committed, that a row does not *)
(* take an end back, and that an answered end stands when all is quiet.    *)
(***************************************************************************)
EXTENDS JobLists, TLAPS

\* The row of a job has had this status.
Been(j, s) == \E r \in job[j].was : r.status = s

\* Row r of job j, of whatever age, says what the job's row has said.
Sound(j, r) ==
  /\ Been(j, r.status)
  /\ r.out # 0 => \E x \in job[j].was : x.status = "completed" /\ x.out = r.out

JobsAreSound ==
  \A j \in Jobs :
    /\ job[j].pc = "none" => job[j].row = None /\ job[j].tries = 0 /\ job[j].was = {}
    /\ job[j].pc # "none" => job[j].row # None /\ job[j].row \in job[j].was
    /\ \A r \in job[j].was : Sound(j, r) /\ (r.status = "completed" => r.out # 0)
    /\ job[j].pc = "queued" => job[j].tries < MaxAttempts
    /\ job[j].pc = "working" => Been(j, "active")
    /\ job[j].pc = "stored" => Been(j, "completed")
    /\ job[j].tell <= job[j].tries
    /\ job[j].pc \in {"working", "stored"} => job[j].tell < job[j].tries

\* A row that is pending was never anything else.
PendingIsFirst ==
  \A j \in Jobs :
    job[j].row # None /\ job[j].row.status = "pending" =>
      \A r \in job[j].was : r.status = "pending"

\* The status that a row has after an event.
Says(e) == IF e.type = "progress" THEN "active" ELSE e.type

EventsAreSound ==
  /\ \A i \in 1..Len(bus) : Been(bus[i].job, Says(bus[i]))
  /\ \A j \in Jobs :
       hook[j] # None => \A i \in 1..Len(hook[j].inbox) : Been(j, Says(hook[j].inbox[i]))

\* An answer of the server has rows as they were; rows that were written back are sound.
ListsAreSound ==
  \A v \in Lists, j \in Jobs :
    /\ cache[v].rows # None /\ cache[v].rows[j] # None => Sound(j, cache[v].rows[j])
    /\ cache[v].got # None /\ cache[v].got[j] # None => cache[v].got[j] \in job[j].was
    /\ fetch[v].rows # None /\ fetch[v].rows[j] # None => fetch[v].rows[j] \in job[j].was

HooksAreSound ==
  \A j \in Jobs :
    hook[j] # None => Sound(j, hook[j].prop) /\ Been(j, hook[j].status) /\ Been(j, hook[j].ran.status)

\* What a list holds differs from its last answer in what was written back.
ListsHaveShape ==
  \A v \in Lists :
    /\ fetch[v].at = "read" => fetch[v].rows # None
    /\ cache[v].bad => upsets # 0
    /\ cache[v].rows = None <=> cache[v].got = None
    /\ cache[v].rows # None =>
         \A j \in Jobs :
           /\ cache[v].rows[j] = None <=> cache[v].got[j] = None
           /\ cache[v].rows[j] # None => cache[v].rows[j].out = cache[v].got[j].out

HooksHaveShape ==
  \A j \in Jobs :
    hook[j] # None =>
      /\ view # None /\ cache[view].rows # None
      /\ hook[j].ran.active <=> hook[j].prop.status = "active"
      /\ hook[j].sock \in {"opening", "open"} => hook[j].ran.active /\ hook[j].ran.status \notin Terminal
      /\ hook[j].inbox # <<>> => hook[j].sock = "open"
      /\ "pending" \in {hook[j].status, hook[j].ran.status} => hook[j].first = "pending"

\* The answer that is on its way to list v says that job j is pending.
Belated(v, j) ==
  fetch[v].at = "read" /\ fetch[v].rows[j] # None /\ fetch[v].rows[j].status = "pending"

\* A job that a list has seen at work, or over, does not become pending in it again, but
\* by a row that has not seen it.
NotPendingAgain ==
  /\ \A v \in Lists, j \in Jobs :
       Belated(v, j) /\ cache[v].rows # None /\ cache[v].rows[j] # None
       => cache[v].rows[j].status = "pending"
  /\ \A j \in Jobs :
       hook[j] # None /\ hook[j].prop.status # "pending" =>
         /\ ~Belated(view, j)
         /\ cache[view].rows[j] # None /\ cache[view].rows[j].status = "pending" =>
              hook[j].ran.active /\ hook[j].ran.status = "pending"

Smooth(j) == job[j].tries <= 1 /\ ~Been(j, "failed") /\ upsets = 0

EventOf(j, e, t) == e.job = j /\ e.type = t

\* The end of job j is still to be announced, or on its way to the row.
EndComing(j) ==
  \/ job[j].pc # "done"
  \/ \E i \in 1..Len(bus) : EventOf(j, bus[i], "completed")
  \/ \E i \in 1..Len(hook[j].inbox) : hook[j].inbox[i].type = "completed"

NoneOnBus(j) == \A i \in 1..Len(bus) : bus[i].job # j

\* The announcement of the end is the last event of a job that goes straight through.
BusInOrder ==
  \A j \in Jobs, i \in 1..Len(bus) :
    Smooth(j) =>
      /\ EventOf(j, bus[i], "completed") =>
           job[j].pc = "done" /\ \A k \in (i + 1)..Len(bus) : bus[k].job # j
      /\ EventOf(j, bus[i], "progress") /\ job[j].pc = "done" =>
           \E k \in (i + 1)..Len(bus) : EventOf(j, bus[k], "completed")

InboxInOrder ==
  \A j \in Jobs :
    Smooth(j) /\ hook[j] # None =>
      /\ \A i \in 1..Len(hook[j].inbox) :
           /\ hook[j].inbox[i].type = "completed" =>
                job[j].pc = "done" /\ NoneOnBus(j) /\ i = Len(hook[j].inbox)
           /\ hook[j].inbox[i].type = "progress" /\ job[j].pc = "done" =>
                \/ \E k \in (i + 1)..Len(hook[j].inbox) : hook[j].inbox[k].type = "completed"
                \/ \E k \in 1..Len(bus) : EventOf(j, bus[k], "completed")
      /\ hook[j].status = "completed" /\ hook[j].sock = "open" =>
           job[j].pc = "done" /\ NoneOnBus(j) /\ hook[j].inbox = <<>>
      /\ ~Current(hook[j]) => hook[j].sock = "open" /\ (hook[j].status = "active" => EndComing(j))

\* The row has heard of the end, or is going to.
Hears(j) == hook[j].status = "completed" \/ (hook[j].sock = "open" /\ EndComing(j))

\* The list on the screen was answered that the job is completed, and a row has written
\* something older back.
Overwritten(j) ==
  /\ view # None /\ fetch[view] = Idle /\ cache[view].rows # None
  /\ cache[view].got[j] # None /\ cache[view].got[j].status = "completed"
  /\ cache[view].rows[j].status # "completed"

WriterHears ==
  \A j \in Jobs :
    Smooth(j) /\ Overwritten(j) =>
      /\ hook[j] # None
      /\ hook[j].first = "pending" \/ (cache[view].rows[j].status = "active" /\ Hears(j))

IInv ==
  /\ TypeOK /\ JobsAreSound /\ PendingIsFirst /\ EventsAreSound /\ ListsAreSound /\ HooksAreSound
  /\ ListsHaveShape /\ HooksHaveShape /\ NotPendingAgain
  /\ BusInOrder /\ InboxInOrder /\ WriterHears

-----------------------------------------------------------------------------
(***************************************************************************)
(* What the operators of the rows and the cache do.                        *)
(***************************************************************************)
LEMMA MountedType ==
  ASSUME NEW row \in Row
  PROVE  /\ Mounted(row) \in Hook
         /\ Mounted(row).prop = row /\ Mounted(row).status = row.status /\ Mounted(row).first = row.status
         /\ Mounted(row).ran = NotRun /\ Mounted(row).sock = "none" /\ Mounted(row).inbox = <<>>
<1>1. row.status \in Statuses /\ row.prog \in 0..(Reports + 1) BY DEF Row
<1>2. 0 \in 0..(Reports + 1) BY ListsAssumption
<1>3. NotRun \in Ran BY <1>2 DEF NotRun, Ran
<1>4. <<>> \in Seq(Event) OBVIOUS
<1> QED BY <1>1, <1>3, <1>4 DEF Mounted, Hook

\* A commit runs the effects: the socket is kept if the row runs them as before.
LEMMA CommitEffect ==
  ASSUME NEW h \in Hook, NEW v \in Lists \cup {None}
  PROVE  LET c == Committed(h, v)
         IN /\ c \in Hook
            /\ c.prop = h.prop /\ c.status = h.status /\ c.prog = h.prog /\ c.first = h.first
            /\ c.ran.active <=> h.prop.status = "active"
            /\ c.ran.status = h.status /\ c.ran.prog = h.prog /\ c.ran.view = v
            /\ \/ /\ h.ran.active <=> h.prop.status = "active"
                  /\ h.ran.status = h.status
                  /\ c.sock = h.sock /\ c.inbox = h.inbox
               \/ /\ ~((h.ran.active <=> h.prop.status = "active") /\ h.ran.status = h.status)
                  /\ c.inbox = <<>>
                  /\ c.sock = IF h.prop.status = "active" /\ h.status \notin Terminal
                              THEN "opening" ELSE "none"
<1> DEFINE now == [active |-> h.prop.status = "active", status |-> h.status, prog |-> h.prog, view |-> v]
           l == Listen(h, now)
           c == Committed(h, v)
<1>1. now \in Ran /\ h.ran \in Ran /\ (h.ran.active \in BOOLEAN) BY DEF Hook, Ran
<1>2. now.active = (h.prop.status = "active") /\ now.status = h.status /\ now.prog = h.prog /\ now.view = v
  OBVIOUS
<1> HIDE DEF now
<1>3. /\ l \in Hook
      /\ l.prop = h.prop /\ l.status = h.status /\ l.prog = h.prog /\ l.first = h.first
      /\ \/ /\ now.active = h.ran.active /\ now.status = h.ran.status
            /\ l.sock = h.sock /\ l.inbox = h.inbox
         \/ /\ ~(now.active = h.ran.active /\ now.status = h.ran.status)
            /\ l.inbox = <<>>
            /\ l.sock = IF now.active /\ now.status \notin Terminal THEN "opening" ELSE "none"
  <2>1. CASE <<now.active, now.status>> = <<h.ran.active, h.ran.status>> BY <2>1 DEF Listen
  <2>2. CASE <<now.active, now.status>> # <<h.ran.active, h.ran.status>>
    <3>1. l = [h EXCEPT !.inbox = <<>>,
                        !.sock = IF now.active /\ now.status \notin Terminal THEN "opening" ELSE "none"]
      BY <2>2 DEF Listen
    <3>2. <<>> \in Seq(Event) OBVIOUS
    <3>3. ~(now.active = h.ran.active /\ now.status = h.ran.status) BY <2>2
    <3> QED BY <3>1, <3>2, <3>3 DEF Hook
  <2> QED BY <2>1, <2>2
<1>4. c = [l EXCEPT !.ran = now] BY DEF Committed, now
<1> HIDE DEF l
<1>5. /\ c \in Hook /\ c.ran = now
      /\ c.prop = l.prop /\ c.status = l.status /\ c.prog = l.prog /\ c.first = l.first
      /\ c.sock = l.sock /\ c.inbox = l.inbox
  BY <1>1, <1>3, <1>4 DEF Hook
<1> HIDE DEF c
<1> QED BY <1>1, <1>2, <1>3, <1>5 DEF c

LEMMA ListedType ==
  ASSUME TypeOK, NEW v \in Lists \cup {None}, NEW j \in Jobs
  PROVE  /\ Listed(v)[j] \in Row \cup {None}
         /\ Listed(v)[j] # None =>
              v # None /\ cache[v].rows # None /\ ~(v # "recent" /\ cache[v].bad)
              /\ Listed(v)[j] = cache[v].rows[j]
BY DEF Listed, TypeOK, Cached, Held

\* A row that is rendered is gone, or has the job that the list holds.
LEMMA RenderEffect ==
  ASSUME TypeOK, NEW v \in Lists \cup {None}, NEW keep \in BOOLEAN, NEW j \in Jobs
  PROVE  LET row == Listed(v)[j]
             h == IF keep /\ hook[j] # None THEN [hook[j] EXCEPT !.prop = row] ELSE Mounted(row)
         IN /\ Rendered(v, keep) \in [Jobs -> Hook \cup {None}]
            /\ row = None => Rendered(v, keep)[j] = None
            /\ row # None => h \in Hook /\ h.prop = row /\ Rendered(v, keep)[j] = Committed(h, v)
<1> DEFINE Elem(i) == IF keep /\ hook[i] # None THEN [hook[i] EXCEPT !.prop = Listed(v)[i]]
                      ELSE Mounted(Listed(v)[i])
<1>1. ASSUME NEW i \in Jobs, Listed(v)[i] # None
      PROVE  Elem(i) \in Hook /\ Elem(i).prop = Listed(v)[i]
  <2>1. Listed(v)[i] \in Row BY <1>1, ListedType
  <2>2. CASE keep /\ hook[i] # None
    <3>1. hook[i] \in Hook BY <2>2 DEF TypeOK
    <3> QED BY <2>1, <2>2, <3>1 DEF Hook
  <2>3. CASE ~(keep /\ hook[i] # None) BY <2>1, <2>3, MountedType
  <2> QED BY <2>2, <2>3
<1>2. ASSUME NEW i \in Jobs
      PROVE  Rendered(v, keep)[i] = IF Listed(v)[i] = None THEN None ELSE Committed(Elem(i), v)
  BY DEF Rendered
<1>3. ASSUME NEW i \in Jobs, Listed(v)[i] # None PROVE Committed(Elem(i), v) \in Hook
  <2> HIDE DEF Elem
  <2> QED BY <1>1, <1>3, CommitEffect
<1>4. Rendered(v, keep) \in [Jobs -> Hook \cup {None}]
  <2> HIDE DEF Elem
  <2>1. \A i \in Jobs : Rendered(v, keep)[i] \in Hook \cup {None} BY <1>2, <1>3
  <2>2. DOMAIN Rendered(v, keep) = Jobs /\ Rendered(v, keep) = [i \in Jobs |-> Rendered(v, keep)[i]]
    BY DEF Rendered
  <2> QED BY <2>1, <2>2
<1> QED BY <1>1, <1>2, <1>4

\* A write-back changes rows of the list it is of, for jobs the list has, and no other.
LEMMA WriteEffect ==
  ASSUME TypeOK, NEW v \in Lists \cup {None}, NEW new \in [Jobs -> Hook \cup {None}],
         \A j \in Jobs : Writes(hook[j], new[j]) => new[j].ran.status \in Statuses
  PROVE  LET c == WriteBack(v, new)
         IN /\ c \in [Lists -> Cached]
            /\ \A l \in Lists :
                 /\ c[l].got = cache[l].got /\ (c[l].bad => cache[l].bad)
                 /\ c[l].rows = None <=> cache[l].rows = None
            /\ \A l \in Lists, j \in Jobs :
                 cache[l].rows # None =>
                   /\ c[l].rows[j] = None <=> cache[l].rows[j] = None
                   /\ cache[l].rows[j] # None =>
                        /\ c[l].rows[j].out = cache[l].rows[j].out
                        /\ \/ c[l].rows[j] = cache[l].rows[j] /\ ~(l = v /\ Writes(hook[j], new[j]))
                           \/ /\ l = v /\ Writes(hook[j], new[j])
                              /\ c[l].rows[j].status = new[j].ran.status
<1> DEFINE by == {j \in Jobs : Writes(hook[j], new[j])}
           c == WriteBack(v, new)
           old == cache[v].rows
           put == [j \in Jobs |-> IF j \in by /\ old[j] # None
                     THEN [old[j] EXCEPT !.status = new[j].ran.status, !.prog = new[j].ran.prog]
                     ELSE old[j]]
<1>1. cache \in [Lists -> Cached] /\ (\A l \in Lists : cache[l] \in Cached) BY DEF TypeOK
<1>2. CASE v = None \/ by = {} \/ old = None
  <2>1. c = cache BY <1>2 DEF WriteBack
  <2>2. \A l \in Lists, j \in Jobs : cache[l].rows # None => ~(l = v /\ Writes(hook[j], new[j]))
    BY <1>2, ListsAssumption
  <2> HIDE DEF c
  <2> QED BY <1>1, <2>1, <2>2 DEF c
<1>3. CASE ~(v = None \/ by = {} \/ old = None)
  <2>1. v \in Lists /\ old # None /\ old \in Held BY <1>1, <1>3 DEF Cached
  <2>2. c = [cache EXCEPT ![v].rows = put, ![v].bad = FALSE] BY <1>3 DEF WriteBack
  <2>3. ASSUME NEW j \in Jobs
        PROVE  /\ put[j] \in Row \cup {None}
               /\ put[j] = None <=> old[j] = None
               /\ old[j] # None =>
                    /\ put[j].out = old[j].out
                    /\ \/ put[j] = old[j] /\ ~Writes(hook[j], new[j])
                       \/ Writes(hook[j], new[j]) /\ put[j].status = new[j].ran.status
    <3>1. old[j] \in Row \cup {None} BY <2>1 DEF Held
    <3>2. CASE j \in by /\ old[j] # None
      <4>1. new[j] \in Hook BY <3>2 DEF Writes
      <4>2. new[j].ran.prog \in 0..(Reports + 1) BY <4>1 DEF Hook, Ran
      <4>3. new[j].ran.status \in Statuses BY <3>2
      <4>4. put[j] = [old[j] EXCEPT !.status = new[j].ran.status, !.prog = new[j].ran.prog]
        BY <3>2
      <4>5. put[j] \in Row /\ put[j].out = old[j].out /\ put[j].status = new[j].ran.status
        BY <3>1, <3>2, <4>2, <4>3, <4>4 DEF Row
      <4> QED BY <3>2, <4>5, NoneIsNoRecord
    <3>3. CASE ~(j \in by /\ old[j] # None) BY <3>1, <3>3
    <3> QED BY <3>2, <3>3
  <2>4. put \in Held BY <2>3 DEF Held
  <2>5. put # None BY <2>4, NoneIsNoRecord
  <2> HIDE DEF put, c
  <2>6. /\ c \in [Lists -> Cached] /\ c[v].rows = put /\ c[v].got = cache[v].got /\ c[v].bad = FALSE
        /\ \A l \in Lists \ {v} : c[l] = cache[l]
    BY <1>1, <2>1, <2>2, <2>4 DEF Cached
  <2>7. ASSUME NEW l \in Lists
        PROVE  /\ c[l].got = cache[l].got /\ (c[l].bad => cache[l].bad)
               /\ c[l].rows = None <=> cache[l].rows = None
    BY <2>1, <2>5, <2>6
  <2>8. ASSUME NEW l \in Lists, NEW j \in Jobs, cache[l].rows # None, cache[l].rows[j] # None
        PROVE  /\ c[l].rows[j].out = cache[l].rows[j].out
               /\ \/ c[l].rows[j] = cache[l].rows[j] /\ ~(l = v /\ Writes(hook[j], new[j]))
                  \/ l = v /\ Writes(hook[j], new[j]) /\ c[l].rows[j].status = new[j].ran.status
    BY <2>3, <2>6, <2>8
  <2>9. ASSUME NEW l \in Lists, NEW j \in Jobs, cache[l].rows # None
        PROVE  c[l].rows[j] = None <=> cache[l].rows[j] = None
    BY <2>3, <2>6
  <2> QED BY <2>6, <2>7, <2>8, <2>9 DEF c
<1> QED BY <1>2, <1>3

-----------------------------------------------------------------------------
(***************************************************************************)
(* What a step of the server does to a job, whatever else is in its        *)
(* record.                                                                 *)
(***************************************************************************)
ServerStep(j) == Create(j) \/ Cancel(j) \/ WorkerStep(j) \/ Failed(j)

Sent(j, t) == \E e \in Event : EventOf(j, e, t) /\ bus' = Append(bus, e)

\* Job j goes from k to n, where its row is r.
Turns(j, k, n, r) ==
  \/ /\ k.pc = "none" /\ n.pc = "queued" /\ r.status = "pending" /\ r.out = 0
     /\ n.tries = k.tries /\ n.tell = k.tell /\ bus' = bus
  \/ /\ k.row # None /\ k.row.status = "pending" /\ n.pc = k.pc /\ r.status = "failed"
     /\ r.out = k.row.out /\ n.tries = k.tries /\ n.tell = k.tell /\ bus' = bus
  \/ /\ k.pc = "queued" /\ n.pc = "working" /\ r.status = "active" /\ r.out = k.row.out
     /\ n.tries = k.tries + 1 /\ n.tell = k.tell /\ bus' = bus
  \/ /\ k.pc = "working" /\ n.pc = "working" /\ r.status = k.row.status /\ r.out = k.row.out
     /\ n.tries = k.tries /\ n.tell = k.tell /\ Sent(j, "progress")
  \/ /\ k.pc = "working" /\ n.pc = "stored" /\ r.status = "completed" /\ r.out = k.tries
     /\ n.tries = k.tries /\ n.tell = k.tell /\ bus' = bus
  \/ /\ k.pc = "stored" /\ n.pc = "done" /\ r = k.row
     /\ n.tries = k.tries /\ n.tell = k.tell /\ Sent(j, "completed")
  \/ /\ k.pc \in {"working", "stored"} /\ n.pc \in {"queued", "dead"} /\ r = k.row
     /\ n.pc = "queued" => k.tries < MaxAttempts
     /\ n.tries = k.tries /\ n.tell = k.tell + 1 /\ bus' = bus
  \/ /\ k.tell > 0 /\ n.pc = k.pc /\ r.status = "failed" /\ r.out = k.row.out
     /\ n.tries = k.tries /\ n.tell = k.tell - 1 /\ Sent(j, "failed")

LEMMA SentType ==
  ASSUME TypeOK, NEW j \in Jobs, NEW t \in {"progress", "completed", "failed"}, NEW n \in 0..Reports,
         Publish(t, j, n)
  PROVE  Sent(j, t) /\ bus' \in Seq(Event)
<1> DEFINE e == [type |-> t, job |-> j, prog |-> n]
<1>1. e \in Event /\ e.job = j /\ e.type = t BY DEF Event
<1>2. bus' = Append(bus, e) BY DEF Publish
<1> HIDE DEF e
<1> QED BY <1>1, <1>2 DEF Sent, EventOf, TypeOK

LEMMA ServerEffect ==
  ASSUME TypeOK, JobsAreSound, NEW j \in Jobs, ServerStep(j)
  PROVE  /\ job' \in [Jobs -> Job] /\ bus' \in Seq(Event) /\ UNCHANGED ui
         /\ \A i \in Jobs \ {j} : job'[i] = job[i]
         /\ \E r \in Row :
              job'[j].row = r /\ job'[j].was = job[j].was \cup {r} /\ Turns(j, job[j], job'[j], r)
<1> DEFINE k == job[j]
           Goal(x, r) == /\ x \in Job /\ bus' \in Seq(Event)
                         /\ x.row = r /\ x.was = k.was \cup {r} /\ Turns(j, k, x, r)
<1>1. /\ job \in [Jobs -> Job] /\ k \in Job /\ bus \in Seq(Event)
      /\ k.pc \in {"none", "queued", "working", "stored", "done", "dead"}
      /\ k.tries \in 0..MaxAttempts /\ k.tell \in 0..MaxAttempts /\ k.said \in 0..Reports
      /\ k.row \in Row \cup {None} /\ k.was \subseteq Row
  BY DEF TypeOK, Job
<1>2. /\ k.pc # "none" => k.row # None /\ k.row \in k.was /\ k.row \in Row
      /\ k.pc = "none" => k.row = None /\ k.tries = 0
      /\ k.pc = "queued" => k.tries < MaxAttempts
      /\ k.tell <= k.tries
      /\ k.pc \in {"working", "stored"} => k.tell < k.tries
  BY <1>1 DEF JobsAreSound
<1>3. /\ MaxAttempts \in Nat /\ MaxAttempts > 0 /\ Reports \in Nat /\ Reports > 0
      /\ 0 \in 0..Reports /\ 0 \in 0..(Reports + 1) /\ Reports + 1 \in 0..(Reports + 1)
      /\ 0 \in 0..MaxAttempts
      /\ \A n \in 0..Reports : n \in 0..(Reports + 1)
  BY ListsAssumption
<1>4. /\ \E r \in Row, x \in Job : job' = [job EXCEPT ![j] = x] /\ Goal(x, r)
      /\ UNCHANGED ui
  <2>1. CASE Create(j)
    <3> DEFINE r == [status |-> "pending", prog |-> 0, out |-> 0]
               x == [k EXCEPT !.pc = "queued", !.row = r, !.was = @ \cup {r}]
    <3>1. k.pc = "none" /\ job' = [job EXCEPT ![j] = x] /\ bus' = bus /\ UNCHANGED ui
      BY <2>1, <1>1 DEF Create, Store, Job
    <3>2. r \in Row BY <1>3 DEF Row, Statuses
    <3>3. r.status = "pending" /\ r.out = 0 OBVIOUS
    <3> HIDE DEF r
    <3>4. x \in Job /\ x.row = r /\ x.was = k.was \cup {r} /\ x.pc = "queued" /\ x.tries = k.tries /\ x.tell = k.tell
      BY <1>1, <3>2 DEF Job
    <3> HIDE DEF x
    <3> QED BY <1>1, <3>1, <3>2, <3>3, <3>4 DEF Turns
  <2>2. CASE Cancel(j)
    <3> DEFINE r == [k.row EXCEPT !.status = "failed"]
               x == [k EXCEPT !.row = r, !.was = @ \cup {r}]
    <3>1. k.row # None /\ k.row.status = "pending" /\ job' = [job EXCEPT ![j] = x] /\ bus' = bus /\ UNCHANGED ui
      BY <2>2, <1>1 DEF Cancel, Store, Job
    <3>2. r \in Row /\ r.status = "failed" /\ r.out = k.row.out BY <1>1, <3>1 DEF Row, Statuses
    <3> HIDE DEF r
    <3>3. x \in Job /\ x.row = r /\ x.was = k.was \cup {r} /\ x.pc = k.pc /\ x.tries = k.tries /\ x.tell = k.tell
      BY <1>1, <3>2 DEF Job
    <3> HIDE DEF x
    <3> QED BY <1>1, <3>1, <3>2, <3>3 DEF Turns
  <2>3. CASE Activate(j)
    <3> DEFINE r == [k.row EXCEPT !.status = "active", !.prog = 0]
               x == [k EXCEPT !.pc = "working", !.tries = @ + 1, !.said = 0, !.row = r, !.was = @ \cup {r}]
    <3>1. k.pc = "queued" /\ job' = [job EXCEPT ![j] = x] /\ bus' = bus /\ UNCHANGED ui
      BY <2>3, <1>1 DEF Activate, Store, Job
    <3>2. r \in Row /\ r.status = "active" /\ r.out = k.row.out BY <1>2, <1>3, <3>1 DEF Row, Statuses
    <3>3. k.tries + 1 \in 0..MaxAttempts BY <1>1, <1>2, <1>3, <3>1
    <3> HIDE DEF r
    <3>4. x \in Job /\ x.row = r /\ x.was = k.was \cup {r} /\ x.pc = "working" /\ x.tries = k.tries + 1 /\ x.tell = k.tell
      BY <1>1, <1>3, <3>2, <3>3 DEF Job
    <3> HIDE DEF x
    <3> QED BY <1>1, <3>1, <3>2, <3>4 DEF Turns
  <2>4. CASE Progress(j)
    <3> DEFINE n == k.said + 1
               r == [k.row EXCEPT !.prog = n]
               x == [k EXCEPT !.said = n, !.row = r, !.was = @ \cup {r}]
    <3>1. /\ k.pc = "working" /\ k.said < Reports /\ job' = [job EXCEPT ![j] = x]
          /\ Publish("progress", j, n) /\ UNCHANGED ui
      BY <2>4, <1>1 DEF Progress, Store, Job
    <3>2. n \in 0..Reports BY <1>1, <1>3, <3>1
    <3> HIDE DEF n
    <3>3. r \in Row /\ r.status = k.row.status /\ r.out = k.row.out BY <1>2, <1>3, <3>1, <3>2 DEF Row
    <3>4. Sent(j, "progress") /\ bus' \in Seq(Event) BY <3>1, <3>2, SentType
    <3> HIDE DEF r
    <3>5. x \in Job /\ x.row = r /\ x.was = k.was \cup {r} /\ x.pc = k.pc /\ x.tries = k.tries /\ x.tell = k.tell
      BY <1>1, <3>2, <3>3 DEF Job
    <3> HIDE DEF x
    <3> QED BY <1>1, <3>1, <3>3, <3>4, <3>5 DEF Turns
  <2>5. CASE Finish(j)
    <3> DEFINE r == [status |-> "completed", prog |-> Reports + 1, out |-> k.tries]
               x == [k EXCEPT !.pc = "stored", !.row = r, !.was = @ \cup {r}]
    <3>1. k.pc = "working" /\ job' = [job EXCEPT ![j] = x] /\ bus' = bus /\ UNCHANGED ui
      BY <2>5, <1>1 DEF Finish, Store, Job
    <3>2. r \in Row /\ r.status = "completed" /\ r.out = k.tries BY <1>1, <1>3 DEF Row, Statuses
    <3> HIDE DEF r
    <3>3. x \in Job /\ x.row = r /\ x.was = k.was \cup {r} /\ x.pc = "stored" /\ x.tries = k.tries /\ x.tell = k.tell
      BY <1>1, <3>2 DEF Job
    <3> HIDE DEF x
    <3> QED BY <1>1, <3>1, <3>2, <3>3 DEF Turns
  <2>6. CASE Announce(j)
    <3> DEFINE x == [k EXCEPT !.pc = "done"]
    <3>1. k.pc = "stored" /\ job' = [job EXCEPT ![j] = x] /\ Publish("completed", j, 0) /\ UNCHANGED ui
      BY <2>6, <1>1 DEF Announce
    <3>2. Sent(j, "completed") /\ bus' \in Seq(Event) BY <1>3, <3>1, SentType
    <3>3. x \in Job /\ x.row = k.row /\ x.was = k.was /\ x.pc = "done" /\ x.tries = k.tries /\ x.tell = k.tell
      BY <1>1 DEF Job
    <3>4. k.was = k.was \cup {k.row} /\ k.row \in Row BY <1>2, <3>1
    <3> HIDE DEF x
    <3> QED BY <3>1, <3>2, <3>3, <3>4 DEF Turns
  <2>7. CASE Failed(j)
    <3> DEFINE x == [k EXCEPT !.pc = IF k.tries < MaxAttempts THEN "queued" ELSE "dead", !.tell = @ + 1]
    <3>1. k.pc \in {"working", "stored"} /\ job' = [job EXCEPT ![j] = x] /\ bus' = bus /\ UNCHANGED ui
      BY <2>7, <1>1 DEF Failed
    <3>2. k.tell + 1 \in 0..MaxAttempts BY <1>1, <1>2, <1>3, <3>1
    <3>3. /\ x \in Job /\ x.row = k.row /\ x.was = k.was /\ x.tries = k.tries /\ x.tell = k.tell + 1
          /\ x.pc \in {"queued", "dead"} /\ (x.pc = "queued" => k.tries < MaxAttempts)
      BY <1>1, <3>2 DEF Job
    <3>4. k.was = k.was \cup {k.row} /\ k.row \in Row BY <1>2, <3>1
    <3> HIDE DEF x
    <3> QED BY <1>1, <3>1, <3>3, <3>4 DEF Turns
  <2>8. CASE TellFailure(j)
    <3> DEFINE r == [k.row EXCEPT !.status = "failed"]
               x == [k EXCEPT !.tell = @ - 1, !.row = r, !.was = @ \cup {r}]
    <3>1. k.tell > 0 /\ job' = [job EXCEPT ![j] = x] /\ Publish("failed", j, 0) /\ UNCHANGED ui
      BY <2>8, <1>1 DEF TellFailure, Store, Job
    <3>2. k.row \in Row /\ k.tell - 1 \in 0..MaxAttempts BY <1>1, <1>2, <1>3, <3>1
    <3>3. r \in Row /\ r.status = "failed" /\ r.out = k.row.out BY <3>2 DEF Row, Statuses
    <3>4. Sent(j, "failed") /\ bus' \in Seq(Event) BY <1>3, <3>1, SentType
    <3> HIDE DEF r
    <3>5. x \in Job /\ x.row = r /\ x.was = k.was \cup {r} /\ x.pc = k.pc /\ x.tries = k.tries /\ x.tell = k.tell - 1
      BY <1>1, <3>2, <3>3 DEF Job
    <3> HIDE DEF x
    <3> QED BY <3>1, <3>3, <3>4, <3>5 DEF Turns
  <2> QED BY <2>1, <2>2, <2>3, <2>4, <2>5, <2>6, <2>7, <2>8 DEF ServerStep, WorkerStep
<1>5. PICK r \in Row, x \in Job : job' = [job EXCEPT ![j] = x] /\ Goal(x, r) BY <1>4
<1>6. job' \in [Jobs -> Job] /\ job'[j] = x /\ \A i \in Jobs \ {j} : job'[i] = job[i] BY <1>1, <1>5
<1> QED BY <1>4, <1>5, <1>6

\* The rows of jobs: the history grows, and keeps saying what it said.
LEMMA ServerJobs ==
  ASSUME TypeOK, JobsAreSound, PendingIsFirst, NEW j \in Jobs, ServerStep(j)
  PROVE  /\ TypeOK' /\ JobsAreSound' /\ PendingIsFirst'
         /\ \A i \in Jobs : job[i].was \subseteq job'[i].was
<1>1. /\ job' \in [Jobs -> Job] /\ bus' \in Seq(Event) /\ UNCHANGED ui
      /\ \A i \in Jobs \ {j} : job'[i] = job[i]
  BY ServerEffect
<1>2. PICK r \in Row :
        job'[j].row = r /\ job'[j].was = job[j].was \cup {r} /\ Turns(j, job[j], job'[j], r)
  BY ServerEffect
<1>3. TypeOK' BY <1>1 DEF TypeOK, ui
<1>4. \A i \in Jobs : job[i].was \subseteq job'[i].was BY <1>1, <1>2
<1> DEFINE k == job[j]
           n == job'[j]
<1>5. /\ k.tries \in Nat /\ k.tell \in Nat /\ MaxAttempts \in Nat
      /\ k.pc # "none" => k.row # None /\ k.row \in k.was
      /\ k.pc = "none" => k.row = None /\ k.tries = 0 /\ k.was = {}
      /\ k.tell <= k.tries
      /\ k.pc \in {"working", "stored"} => k.tell < k.tries
      /\ k.pc = "queued" => k.tries < MaxAttempts
      /\ k.pc = "working" => \E x \in k.was : x.status = "active"
      /\ k.pc = "stored" => \E x \in k.was : x.status = "completed"
      /\ \A x \in k.was : /\ x.out # 0 => \E y \in k.was : y.status = "completed" /\ y.out = x.out
                          /\ x.status = "completed" => x.out # 0
  BY ListsAssumption DEF TypeOK, Job, JobsAreSound, Been, Sound
<1>6. r # None BY NoneIsNoRecord
<1>7. JobsAreSound'
  <2> SUFFICES ASSUME NEW i \in Jobs
               PROVE  /\ job'[i].pc = "none" => job'[i].row = None /\ job'[i].tries = 0 /\ job'[i].was = {}
                      /\ job'[i].pc # "none" => job'[i].row # None /\ job'[i].row \in job'[i].was
                      /\ \A x \in job'[i].was : Sound(i, x)' /\ (x.status = "completed" => x.out # 0)
                      /\ job'[i].pc = "queued" => job'[i].tries < MaxAttempts
                      /\ job'[i].pc = "working" => Been(i, "active")'
                      /\ job'[i].pc = "stored" => Been(i, "completed")'
                      /\ job'[i].tell <= job'[i].tries
                      /\ job'[i].pc \in {"working", "stored"} => job'[i].tell < job'[i].tries
    BY DEF JobsAreSound
  <2>1. CASE i # j BY <2>1, <1>1 DEF JobsAreSound, Been, Sound
  <2>2. CASE i = j
    <3> HIDE DEF k, n
    <3>1. n.row = r /\ n.was = k.was \cup {r} /\ Turns(j, k, n, r) BY <1>2 DEF k, n
    <3>2. /\ n.pc # "none" /\ n.tell <= n.tries
          /\ n.pc = "queued" => n.tries < MaxAttempts
          /\ n.pc \in {"working", "stored"} => n.tell < n.tries
      <4>1. /\ k.tries \in Nat /\ k.tell \in Nat /\ MaxAttempts \in Nat /\ MaxAttempts > 0
            /\ k.pc = "none" => k.row = None /\ k.tries = 0
            /\ k.tell <= k.tries
            /\ k.pc \in {"working", "stored"} => k.tell < k.tries
            /\ k.pc = "queued" => k.tries < MaxAttempts
        BY <1>5, ListsAssumption
      <4> QED BY <3>1, <4>1 DEF Turns
    <3>3. /\ n.pc = "working" => \E x \in n.was : x.status = "active"
          /\ n.pc = "stored" => \E x \in n.was : x.status = "completed"
      BY <3>1, <1>5 DEF Turns
    <3>4. /\ r.out # 0 => \E y \in n.was : y.status = "completed" /\ y.out = r.out
          /\ r.status = "completed" => r.out # 0
      BY <3>1, <1>5 DEF Turns
    <3>5. \A x \in n.was : /\ \E y \in n.was : y.status = x.status
                           /\ x.out # 0 => \E y \in n.was : y.status = "completed" /\ y.out = x.out
                           /\ x.status = "completed" => x.out # 0
      BY <3>1, <3>4, <1>5
    <3> QED BY <2>2, <3>1, <3>2, <3>3, <3>5, <1>6 DEF Been, Sound, n
  <2> QED BY <2>1, <2>2
<1>8. PendingIsFirst'
  <2> SUFFICES ASSUME NEW i \in Jobs, job'[i].row # None, job'[i].row.status = "pending"
               PROVE  \A x \in job'[i].was : x.status = "pending"
    BY DEF PendingIsFirst
  <2>1. CASE i # j BY <2>1, <1>1 DEF PendingIsFirst
  <2>2. CASE i = j
    <3>1. k.row # None /\ k.row.status = "pending" => \A x \in k.was : x.status = "pending"
      BY DEF PendingIsFirst
    <3>2. r.status = "pending" BY <2>2, <1>2
    <3> HIDE DEF k, n
    <3>3. n.row = r /\ n.was = k.was \cup {r} /\ Turns(j, k, n, r) BY <1>2 DEF k, n
    <3>4. k.was = {} \/ (k.row # None /\ k.row.status = "pending") BY <3>2, <3>3, <1>5 DEF Turns
    <3> QED BY <2>2, <3>1, <3>2, <3>3, <3>4 DEF n
  <2> QED BY <2>1, <2>2
<1> QED BY <1>3, <1>4, <1>7, <1>8

\* What is on its way from a job is sound, and in order.
LEMMA ServerEvents ==
  ASSUME TypeOK, JobsAreSound, PendingIsFirst, EventsAreSound, HooksHaveShape, BusInOrder, InboxInOrder,
         NEW j \in Jobs, ServerStep(j)
  PROVE  /\ EventsAreSound' /\ BusInOrder' /\ InboxInOrder'
         /\ \A i \in Jobs : Smooth(i)' => Smooth(i) /\ (EndComing(i) => EndComing(i)')
<1>1. /\ job' \in [Jobs -> Job] /\ bus' \in Seq(Event) /\ UNCHANGED ui
      /\ \A i \in Jobs \ {j} : job'[i] = job[i]
      /\ bus \in Seq(Event)
  BY ServerEffect DEF TypeOK
<1>2. PICK r \in Row :
        job'[j].row = r /\ job'[j].was = job[j].was \cup {r} /\ Turns(j, job[j], job'[j], r)
  BY ServerEffect
<1>3. hook' = hook /\ upsets' = upsets BY <1>1 DEF ui
<1>4. /\ job[j].tries \in Nat
      /\ job[j].pc = "none" => job[j].row = None /\ job[j].tell = 0
      /\ job[j].pc = "working" => \E x \in job[j].was : x.status = "active"
      /\ job[j].pc = "stored" => \E x \in job[j].was : x.status = "completed"
      /\ job[j].tell <= job[j].tries /\ job[j].tell \in Nat
  BY DEF TypeOK, Job, JobsAreSound, Been
<1>5. \/ bus' = bus /\ job'[j].pc # "done" /\ job[j].pc # "done"
      \/ bus' = bus /\ job'[j].pc = job[j].pc /\ r.status = "failed"
      \/ Sent(j, "progress") /\ job[j].pc = "working" /\ job'[j].pc = "working"
      \/ Sent(j, "completed") /\ job[j].pc = "stored" /\ job'[j].pc = "done"
      \/ Sent(j, "failed") /\ job'[j].pc = job[j].pc /\ r.status = "failed"
  BY <1>2, <1>4 DEF Turns
<1>6. ASSUME NEW i \in Jobs, Smooth(i)' PROVE Smooth(i)
  <2>1. job[i].tries <= job'[i].tries /\ job[i].was \subseteq job'[i].was /\ job[i].tries \in Nat /\ job'[i].tries \in Nat
    BY <1>1, <1>2, <1>4 DEF Turns, Job
  <2> QED BY <1>3, <1>6, <2>1 DEF Smooth, Been
<1>7. \/ bus' = bus
      \/ \E e \in Event, t \in {"progress", "completed", "failed"} :
           EventOf(j, e, t) /\ bus' = Append(bus, e) /\ Sent(j, t) /\ Been(j, Says(e))'
  BY <1>2, <1>4, <1>5 DEF Sent, EventOf, Says, Been
<1>8. EventsAreSound'
  <2>1. \A i \in Jobs : job[i].was \subseteq job'[i].was BY <1>1, <1>2
  <2>2. \A i \in 1..Len(bus) : bus[i] \in Event BY <1>1
  <2>3. \A i \in 1..Len(bus) : bus[i].job \in Jobs BY <2>2 DEF Event
  <2>4. ASSUME NEW i \in 1..Len(bus)
        PROVE  \E x \in job'[bus[i].job].was : x.status = Says(bus[i])
    BY <2>1, <2>3 DEF EventsAreSound, Been
  <2>5. ASSUME NEW i \in 1..Len(bus')
        PROVE  \E x \in job'[bus'[i].job].was : x.status = Says(bus'[i])
    <3>1. CASE bus' = bus BY <3>1, <2>4, <2>5
    <3>2. ASSUME NEW e \in Event, NEW t, EventOf(j, e, t), bus' = Append(bus, e), Been(j, Says(e))'
          PROVE  \E x \in job'[bus'[i].job].was : x.status = Says(bus'[i])
      <4>1. (i \in 1..Len(bus) /\ bus'[i] = bus[i]) \/ bus'[i] = e BY <1>1, <3>2, <2>5
      <4>2. \E x \in job'[e.job].was : x.status = Says(e) BY <3>2 DEF EventOf, Been, Says
      <4> QED BY <4>1, <4>2, <2>4
    <3> QED BY <1>7, <3>1, <3>2
  <2>6. ASSUME NEW i \in Jobs, hook'[i] # None, NEW m \in 1..Len(hook'[i].inbox)
        PROVE  \E x \in job'[i].was : x.status = Says(hook'[i].inbox[m])
    BY <1>3, <2>1, <2>6 DEF EventsAreSound, Been
  <2> QED BY <2>5, <2>6 DEF EventsAreSound, Been, Says
<1>9. ASSUME NEW i \in Jobs, Smooth(i)'
      PROVE  \/ bus' = bus /\ (job'[i].pc = "done" <=> job[i].pc = "done")
             \/ \E e \in Event :
                  /\ bus' = Append(bus, e)
                  /\ \/ e.job # i /\ job'[i] = job[i]
                     \/ e.job = i /\ e.type = "progress" /\ job[i].pc # "done" /\ job'[i].pc # "done"
                     \/ e.job = i /\ e.type = "completed" /\ job[i].pc # "done" /\ job'[i].pc = "done"
  <2>1. CASE i # j BY <2>1, <1>1, <1>7 DEF EventOf
  <2>2. CASE i = j
    <3>1. r.status # "failed" BY <2>2, <1>2, <1>9 DEF Smooth, Been
    <3> QED BY <2>2, <3>1, <1>5 DEF Sent, EventOf
  <2> QED BY <2>1, <2>2
<1>10. ASSUME NEW i \in Jobs, Smooth(i)', EndComing(i) PROVE EndComing(i)'
  <2>1. CASE bus' = bus /\ (job'[i].pc = "done" <=> job[i].pc = "done")
    BY <2>1, <1>3, <1>10 DEF EndComing, EventOf
  <2>2. ASSUME NEW e \in Event, bus' = Append(bus, e),
               \/ e.job # i /\ job'[i] = job[i]
               \/ e.job = i /\ e.type = "progress" /\ job[i].pc # "done" /\ job'[i].pc # "done"
               \/ e.job = i /\ e.type = "completed" /\ job[i].pc # "done" /\ job'[i].pc = "done"
        PROVE  EndComing(i)'
    <3>1. /\ Len(bus') = Len(bus) + 1 /\ bus'[Len(bus) + 1] = e /\ Len(bus) \in Nat
          /\ \A m \in 1..Len(bus) : bus'[m] = bus[m]
      BY <1>1, <2>2
    <3> QED BY <2>2, <3>1, <1>3, <1>10 DEF EndComing, EventOf
  <2> QED BY <1>9, <1>10, <2>1, <2>2
<1>11. BusInOrder'
  <2> SUFFICES ASSUME NEW i \in Jobs, NEW m \in 1..Len(bus'), Smooth(i)'
               PROVE  /\ EventOf(i, bus'[m], "completed") =>
                           job'[i].pc = "done" /\ \A l \in (m + 1)..Len(bus') : bus'[l].job # i
                      /\ EventOf(i, bus'[m], "progress") /\ job'[i].pc = "done" =>
                           \E l \in (m + 1)..Len(bus') : EventOf(i, bus'[l], "completed")
    BY DEF BusInOrder, EventOf
  <2>1. ASSUME NEW l \in 1..Len(bus)
        PROVE  /\ EventOf(i, bus[l], "completed") =>
                    job[i].pc = "done" /\ \A o \in (l + 1)..Len(bus) : bus[o].job # i
               /\ EventOf(i, bus[l], "progress") /\ job[i].pc = "done" =>
                    \E o \in (l + 1)..Len(bus) : EventOf(i, bus[o], "completed")
    BY <1>6 DEF BusInOrder
  <2>2. CASE bus' = bus /\ (job'[i].pc = "done" <=> job[i].pc = "done") BY <2>1, <2>2
  <2>3. ASSUME NEW e \in Event, bus' = Append(bus, e),
               \/ e.job # i /\ job'[i] = job[i]
               \/ e.job = i /\ e.type = "progress" /\ job[i].pc # "done" /\ job'[i].pc # "done"
               \/ e.job = i /\ e.type = "completed" /\ job[i].pc # "done" /\ job'[i].pc = "done"
        PROVE  /\ EventOf(i, bus'[m], "completed") =>
                    job'[i].pc = "done" /\ \A l \in (m + 1)..Len(bus') : bus'[l].job # i
               /\ EventOf(i, bus'[m], "progress") /\ job'[i].pc = "done" =>
                    \E l \in (m + 1)..Len(bus') : EventOf(i, bus'[l], "completed")
    <3>1. /\ Len(bus') = Len(bus) + 1 /\ bus'[Len(bus) + 1] = e /\ Len(bus) \in Nat
          /\ \A l \in 1..Len(bus) : bus'[l] = bus[l]
      BY <1>1, <2>3
    <3>2. CASE m \in 1..Len(bus)
      <4>1. bus'[m] = bus[m] BY <3>1, <3>2
      <4>2. EventOf(i, bus'[m], "completed") =>
               job'[i].pc = "done" /\ \A l \in (m + 1)..Len(bus') : bus'[l].job # i
        BY <2>1, <2>3, <3>1, <3>2, <4>1 DEF EventOf
      <4>3. EventOf(i, bus'[m], "progress") /\ job'[i].pc = "done" =>
               \E l \in (m + 1)..Len(bus') : EventOf(i, bus'[l], "completed")
        <5>1. CASE job[i].pc = "done"
          BY <2>1, <2>3, <3>1, <3>2, <4>1, <5>1 DEF EventOf
        <5>2. CASE job[i].pc # "done" /\ job'[i].pc = "done"
          <6>1. e.job = i /\ e.type = "completed" BY <2>3, <5>2
          <6>2. Len(bus) + 1 \in (m + 1)..Len(bus') BY <3>1, <3>2
          <6> QED BY <6>1, <6>2, <3>1 DEF EventOf
        <5> QED BY <5>1, <5>2
      <4> QED BY <4>2, <4>3
    <3>3. CASE m = Len(bus) + 1 BY <2>3, <3>1, <3>3 DEF EventOf
    <3> QED BY <3>1, <3>2, <3>3
  <2> QED BY <1>9, <2>2, <2>3
<1>12. InboxInOrder'
  <2> SUFFICES ASSUME NEW i \in Jobs, Smooth(i)', hook'[i] # None
               PROVE  /\ \A m \in 1..Len(hook[i].inbox) :
                           /\ hook[i].inbox[m].type = "completed" =>
                                job'[i].pc = "done" /\ NoneOnBus(i)' /\ m = Len(hook[i].inbox)
                           /\ hook[i].inbox[m].type = "progress" /\ job'[i].pc = "done" =>
                                \/ \E l \in (m + 1)..Len(hook[i].inbox) : hook[i].inbox[l].type = "completed"
                                \/ \E l \in 1..Len(bus') : EventOf(i, bus'[l], "completed")
                      /\ hook[i].status = "completed" /\ hook[i].sock = "open" =>
                           job'[i].pc = "done" /\ NoneOnBus(i)' /\ hook[i].inbox = <<>>
                      /\ ~Current(hook[i]) =>
                           hook[i].sock = "open" /\ (hook[i].status = "active" => EndComing(i)')
    BY <1>3 DEF InboxInOrder, Current, EventOf
  <2>1. /\ \A m \in 1..Len(hook[i].inbox) :
             /\ hook[i].inbox[m].type = "completed" =>
                  job[i].pc = "done" /\ NoneOnBus(i) /\ m = Len(hook[i].inbox)
             /\ hook[i].inbox[m].type = "progress" /\ job[i].pc = "done" =>
                  \/ \E l \in (m + 1)..Len(hook[i].inbox) : hook[i].inbox[l].type = "completed"
                  \/ \E l \in 1..Len(bus) : EventOf(i, bus[l], "completed")
        /\ hook[i].status = "completed" /\ hook[i].sock = "open" =>
             job[i].pc = "done" /\ NoneOnBus(i) /\ hook[i].inbox = <<>>
        /\ ~Current(hook[i]) =>
             hook[i].sock = "open" /\ (hook[i].status = "active" => EndComing(i))
    BY <1>3, <1>6 DEF InboxInOrder
  <2>2. job[i].pc = "done" /\ NoneOnBus(i) => job'[i].pc = "done" /\ NoneOnBus(i)'
    <3>1. CASE bus' = bus /\ (job'[i].pc = "done" <=> job[i].pc = "done") BY <3>1 DEF NoneOnBus
    <3>2. ASSUME NEW e \in Event, bus' = Append(bus, e), e.job # i /\ job'[i] = job[i]
          PROVE  job[i].pc = "done" /\ NoneOnBus(i) => job'[i].pc = "done" /\ NoneOnBus(i)'
      <4>1. /\ Len(bus') = Len(bus) + 1 /\ bus'[Len(bus) + 1] = e /\ Len(bus) \in Nat
            /\ \A l \in 1..Len(bus) : bus'[l] = bus[l]
        BY <1>1, <3>2
      <4> QED BY <3>2, <4>1 DEF NoneOnBus
    <3> QED BY <1>9, <3>1, <3>2
  <2>3. ASSUME NEW m \in 1..Len(hook[i].inbox), hook[i].inbox[m].type = "progress", job'[i].pc = "done"
        PROVE  \/ \E l \in (m + 1)..Len(hook[i].inbox) : hook[i].inbox[l].type = "completed"
               \/ \E l \in 1..Len(bus') : EventOf(i, bus'[l], "completed")
    <3>1. CASE bus' = bus BY <3>1, <2>1, <2>3, <1>9
    <3>2. ASSUME NEW e \in Event, bus' = Append(bus, e),
                 job[i].pc = "done" \/ (e.job = i /\ e.type = "completed")
          PROVE  \/ \E l \in (m + 1)..Len(hook[i].inbox) : hook[i].inbox[l].type = "completed"
                 \/ \E l \in 1..Len(bus') : EventOf(i, bus'[l], "completed")
      <4>1. /\ Len(bus') = Len(bus) + 1 /\ bus'[Len(bus) + 1] = e /\ Len(bus) \in Nat
            /\ \A l \in 1..Len(bus) : bus'[l] = bus[l]
        BY <1>1, <3>2
      <4> QED BY <2>1, <2>3, <3>2, <4>1 DEF EventOf
    <3> QED BY <1>9, <2>3, <3>1, <3>2
  <2>4. EndComing(i) => EndComing(i)' BY <1>10
  <2> QED BY <2>1, <2>2, <2>3, <2>4
<1> QED BY <1>6, <1>8, <1>10, <1>11, <1>12

\* What the page knows of a job does not change with it.
LEMMA ServerStepIsSafe ==
  ASSUME IInv, NEW j \in Jobs, ServerStep(j)
  PROVE  IInv'
<1>1. /\ TypeOK' /\ JobsAreSound' /\ PendingIsFirst'
      /\ \A i \in Jobs : job[i].was \subseteq job'[i].was
  BY ServerJobs DEF IInv
<1>2. /\ EventsAreSound' /\ BusInOrder' /\ InboxInOrder'
      /\ \A i \in Jobs : Smooth(i)' => Smooth(i) /\ (EndComing(i) => EndComing(i)')
  BY ServerEvents DEF IInv
<1>3. cache' = cache /\ fetch' = fetch /\ view' = view /\ hook' = hook /\ upsets' = upsets
  BY ServerEffect DEF IInv, ui
<1>4. ListsAreSound' BY <1>1, <1>3 DEF IInv, ListsAreSound, Sound, Been
<1>5. HooksAreSound' BY <1>1, <1>3 DEF IInv, HooksAreSound, Sound, Been
<1>6. ListsHaveShape' /\ HooksHaveShape' BY <1>3 DEF IInv, ListsHaveShape, HooksHaveShape
<1>7. NotPendingAgain' BY <1>3 DEF IInv, NotPendingAgain, Belated
<1>8. WriterHears'
  <2> SUFFICES ASSUME NEW i \in Jobs, Smooth(i)', Overwritten(i)'
               PROVE  /\ hook'[i] # None
                      /\ hook'[i].first = "pending" \/ (cache'[view'].rows[i].status = "active" /\ Hears(i)')
    BY DEF WriterHears
  <2>1. Smooth(i) /\ Overwritten(i) /\ (Hears(i) => Hears(i)') BY <1>2, <1>3 DEF Overwritten, Hears
  <2> QED BY <2>1, <1>3 DEF IInv, WriterHears
<1> QED BY <1>1, <1>2, <1>4, <1>5, <1>6, <1>7, <1>8 DEF IInv

-----------------------------------------------------------------------------
(***************************************************************************)
(* Events on their way to the rows.                                        *)
(***************************************************************************)
LEMMA BroadcastEffect ==
  ASSUME TypeOK, Broadcast
  PROVE  /\ Len(bus) \in Nat /\ Len(bus) > 0 /\ Len(bus') = Len(bus) - 1 /\ bus[1] \in Event
         /\ bus' \in Seq(Event) /\ \A i \in 1..Len(bus') : bus'[i] = bus[i + 1]
         /\ hook' \in [Jobs -> Hook \cup {None}]
         /\ \A i \in Jobs :
              IF i = bus[1].job /\ hook[i] # None /\ hook[i].sock = "open"
              THEN hook'[i] = [hook[i] EXCEPT !.inbox = Append(@, bus[1])] ELSE hook'[i] = hook[i]
         /\ job' = job /\ cache' = cache /\ fetch' = fetch /\ view' = view
         /\ upsets' = upsets /\ looks' = looks
<1>1. /\ bus \in Seq(Event) /\ bus # <<>> /\ bus' = Tail(bus)
      /\ hook \in [Jobs -> Hook \cup {None}]
  BY DEF TypeOK, Broadcast
<1>2. /\ Len(bus) \in Nat /\ Len(bus) > 0 /\ Len(bus') = Len(bus) - 1 /\ bus[1] \in Event /\ Head(bus) = bus[1]
      /\ bus' \in Seq(Event) /\ \A i \in 1..Len(bus') : bus'[i] = bus[i + 1]
  BY <1>1
<1> DEFINE j == bus[1].job
           h == [hook[j] EXCEPT !.inbox = Append(@, bus[1])]
<1>3. j \in Jobs BY <1>2 DEF Event
<1>4. hook' = IF hook[j] # None /\ hook[j].sock = "open" THEN [hook EXCEPT ![j] = h] ELSE hook
  BY <1>1, <1>2, <1>3 DEF Broadcast
<1>5. hook[j] # None => h \in Hook
  <2>1. hook[j] # None => hook[j] \in Hook /\ Append(hook[j].inbox, bus[1]) \in Seq(Event)
    BY <1>1, <1>2, <1>3 DEF Hook
  <2> QED BY <2>1 DEF Hook
<1>6. hook' \in [Jobs -> Hook \cup {None}]
  <2> HIDE DEF h
  <2> QED BY <1>1, <1>3, <1>4, <1>5
<1> QED BY <1>1, <1>2, <1>3, <1>4, <1>6 DEF Broadcast

\* Nothing is pushed twice, and the order is kept: what leaves the bus is the last
\* that the row has to hear.
LEMMA BroadcastIsSafe ==
  ASSUME IInv, Broadcast
  PROVE  IInv'
<1> DEFINE e == bus[1]
<1>1. /\ Len(bus) \in Nat /\ Len(bus) > 0 /\ Len(bus') = Len(bus) - 1 /\ e \in Event
      /\ bus' \in Seq(Event) /\ \A i \in 1..Len(bus') : bus'[i] = bus[i + 1]
      /\ hook' \in [Jobs -> Hook \cup {None}]
      /\ \A i \in Jobs :
           IF i = e.job /\ hook[i] # None /\ hook[i].sock = "open"
           THEN hook'[i] = [hook[i] EXCEPT !.inbox = Append(@, e)] ELSE hook'[i] = hook[i]
      /\ job' = job /\ cache' = cache /\ fetch' = fetch /\ view' = view
      /\ upsets' = upsets /\ looks' = looks
  BY BroadcastEffect DEF IInv
<1>2. TypeOK' BY <1>1 DEF IInv, TypeOK
<1> HIDE DEF e
<1>3. ASSUME NEW i \in Jobs
      PROVE  /\ hook'[i] = None <=> hook[i] = None
             /\ hook[i] # None =>
                  /\ hook'[i].prop = hook[i].prop /\ hook'[i].status = hook[i].status
                  /\ hook'[i].prog = hook[i].prog /\ hook'[i].ran = hook[i].ran
                  /\ hook'[i].first = hook[i].first /\ hook'[i].sock = hook[i].sock
                  /\ Len(hook[i].inbox) \in Nat
                  /\ \/ hook'[i].inbox = hook[i].inbox /\ ~(i = e.job /\ hook[i].sock = "open")
                     \/ /\ i = e.job /\ hook[i].sock = "open"
                        /\ Len(hook'[i].inbox) = Len(hook[i].inbox) + 1
                        /\ hook'[i].inbox[Len(hook[i].inbox) + 1] = e
                        /\ \A m \in 1..Len(hook[i].inbox) : hook'[i].inbox[m] = hook[i].inbox[m]
  <2>1. hook[i] # None => hook[i] \in Hook BY DEF IInv, TypeOK
  <2>2. CASE i = e.job /\ hook[i] # None /\ hook[i].sock = "open"
    <3> DEFINE box == Append(hook[i].inbox, e)
    <3>1. hook[i].inbox \in Seq(Event) BY <2>1, <2>2 DEF Hook
    <3>2. box \in Seq(Event) BY <1>1, <3>1
    <3>3. /\ Len(hook[i].inbox) \in Nat /\ Len(box) = Len(hook[i].inbox) + 1
          /\ box[Len(hook[i].inbox) + 1] = e
          /\ \A m \in 1..Len(hook[i].inbox) : box[m] = hook[i].inbox[m]
      BY <1>1, <3>1
    <3>4. hook'[i] = [hook[i] EXCEPT !.inbox = box] BY <1>1, <2>2
    <3> HIDE DEF box
    <3>5. /\ hook'[i] \in Hook /\ hook'[i].inbox = box
          /\ hook'[i].prop = hook[i].prop /\ hook'[i].status = hook[i].status
          /\ hook'[i].prog = hook[i].prog /\ hook'[i].ran = hook[i].ran
          /\ hook'[i].first = hook[i].first /\ hook'[i].sock = hook[i].sock
      BY <2>1, <2>2, <3>2, <3>4 DEF Hook
    <3> QED BY <2>2, <3>3, <3>5, NoneIsNoRecord
  <2>3. CASE ~(i = e.job /\ hook[i] # None /\ hook[i].sock = "open")
    <3>1. hook'[i] = hook[i] BY <1>1, <2>3
    <3>2. hook[i] # None => hook[i].inbox \in Seq(Event) BY <2>1 DEF Hook
    <3> QED BY <2>3, <3>1, <3>2
  <2> QED BY <2>2, <2>3
<1>4. JobsAreSound' /\ PendingIsFirst' BY <1>1 DEF IInv, JobsAreSound, PendingIsFirst, Sound, Been
<1>5. Been(e.job, Says(e)) /\ e.job \in Jobs BY <1>1 DEF IInv, EventsAreSound, Event, e
<1>6. EventsAreSound'
  <2>1. ASSUME NEW i \in 1..Len(bus') PROVE Been(bus[i + 1].job, Says(bus[i + 1]))
    BY <1>1, <2>1 DEF IInv, EventsAreSound
  <2>2. ASSUME NEW i \in Jobs, hook'[i] # None, NEW m \in 1..Len(hook'[i].inbox)
        PROVE  Been(i, Says(hook'[i].inbox[m]))
    BY <1>3, <1>5, <2>2 DEF IInv, EventsAreSound
  <2> QED BY <1>1, <2>1, <2>2 DEF EventsAreSound, Been, Says
<1>7. ListsAreSound' BY <1>1 DEF IInv, ListsAreSound, Sound, Been
<1>8. HooksAreSound' BY <1>1, <1>3 DEF IInv, HooksAreSound, Sound, Been
<1>9. ListsHaveShape' BY <1>1 DEF IInv, ListsHaveShape
<1>10. HooksHaveShape' BY <1>1, <1>3 DEF IInv, HooksHaveShape
<1>11. NotPendingAgain' BY <1>1, <1>3 DEF IInv, NotPendingAgain, Belated
<1>12. \A i \in Jobs : Smooth(i)' <=> Smooth(i) BY <1>1 DEF Smooth, Been
<1>13. BusInOrder'
  <2> SUFFICES ASSUME NEW i \in Jobs, NEW m \in 1..Len(bus'), Smooth(i)'
               PROVE  /\ EventOf(i, bus'[m], "completed") =>
                           job'[i].pc = "done" /\ \A l \in (m + 1)..Len(bus') : bus'[l].job # i
                      /\ EventOf(i, bus'[m], "progress") /\ job'[i].pc = "done" =>
                           \E l \in (m + 1)..Len(bus') : EventOf(i, bus'[l], "completed")
    BY DEF BusInOrder, EventOf
  <2>1. m + 1 \in 1..Len(bus) BY <1>1
  <2>2. /\ EventOf(i, bus[m + 1], "completed") =>
             job[i].pc = "done" /\ \A l \in (m + 2)..Len(bus) : bus[l].job # i
        /\ EventOf(i, bus[m + 1], "progress") /\ job[i].pc = "done" =>
             \E l \in (m + 2)..Len(bus) : EventOf(i, bus[l], "completed")
    <3>1. m + 1 + 1 = m + 2 OBVIOUS
    <3> QED BY <2>1, <3>1, <1>12 DEF IInv, BusInOrder
  <2>3. bus'[m] = bus[m + 1] /\ job' = job BY <1>1
  <2>4. ASSUME EventOf(i, bus'[m], "progress"), job'[i].pc = "done"
        PROVE  \E l \in (m + 1)..Len(bus') : EventOf(i, bus'[l], "completed")
    <3>1. PICK l \in (m + 2)..Len(bus) : EventOf(i, bus[l], "completed") BY <2>2, <2>3, <2>4
    <3>2. l - 1 \in (m + 1)..Len(bus') /\ bus'[l - 1] = bus[l] BY <1>1, <3>1
    <3> QED BY <3>1, <3>2
  <2>5. ASSUME NEW l \in (m + 1)..Len(bus') PROVE l + 1 \in (m + 2)..Len(bus) /\ bus'[l] = bus[l + 1]
    BY <1>1
  <2> QED BY <2>2, <2>3, <2>4, <2>5
<1>14. ASSUME NEW i \in Jobs, NoneOnBus(i) PROVE NoneOnBus(i)' BY <1>1, <1>14 DEF NoneOnBus
\* The end of a job leaves the bus: it is in the inbox of an open socket, and is last.
<1>15. ASSUME NEW i \in Jobs, hook[i] # None, hook[i].sock = "open",
              NEW l \in 1..Len(bus), EventOf(i, bus[l], "completed")
       PROVE  \/ \E k \in 1..Len(bus') : EventOf(i, bus'[k], "completed")
              \/ /\ i = e.job /\ Len(hook'[i].inbox) = Len(hook[i].inbox) + 1
                 /\ hook'[i].inbox[Len(hook'[i].inbox)].type = "completed"
  <2>1. CASE l = 1 BY <1>3, <1>15, <2>1 DEF EventOf, e
  <2>2. CASE l > 1
    <3>1. l - 1 \in 1..Len(bus') /\ bus'[l - 1] = bus[l] BY <1>1, <2>2
    <3> QED BY <3>1, <1>15
  <2> QED BY <2>1, <2>2
<1>16. ASSUME NEW i \in Jobs, hook[i] # None, hook[i].sock = "open", EndComing(i)
       PROVE  EndComing(i)'
  <2>1. CASE job[i].pc # "done" BY <2>1, <1>1 DEF EndComing
  <2>2. CASE \E l \in 1..Len(bus) : EventOf(i, bus[l], "completed")
    <3>1. Len(hook[i].inbox) \in Nat BY <1>3, <1>16
    <3>2. CASE \E k \in 1..Len(bus') : EventOf(i, bus'[k], "completed") BY <3>2 DEF EndComing, EventOf
    <3>3. CASE /\ Len(hook'[i].inbox) = Len(hook[i].inbox) + 1
               /\ hook'[i].inbox[Len(hook'[i].inbox)].type = "completed"
      <4>1. Len(hook'[i].inbox) \in 1..Len(hook'[i].inbox) BY <3>1, <3>3
      <4> QED BY <3>3, <4>1 DEF EndComing
    <3> QED BY <2>2, <3>2, <3>3, <1>15, <1>16
  <2>3. CASE \E l \in 1..Len(hook[i].inbox) : hook[i].inbox[l].type = "completed"
    <3>1. PICK l \in 1..Len(hook[i].inbox) : hook[i].inbox[l].type = "completed" BY <2>3
    <3>2. l \in 1..Len(hook'[i].inbox) /\ hook'[i].inbox[l] = hook[i].inbox[l] BY <1>3, <1>16, <3>1
    <3> QED BY <3>1, <3>2 DEF EndComing
  <2> QED BY <1>16, <2>1, <2>2, <2>3 DEF EndComing
<1>17. InboxInOrder'
  <2> SUFFICES ASSUME NEW i \in Jobs, Smooth(i), hook[i] # None
               PROVE  /\ \A m \in 1..Len(hook'[i].inbox) :
                           /\ hook'[i].inbox[m].type = "completed" =>
                                job[i].pc = "done" /\ NoneOnBus(i)' /\ m = Len(hook'[i].inbox)
                           /\ hook'[i].inbox[m].type = "progress" /\ job[i].pc = "done" =>
                                \/ \E l \in (m + 1)..Len(hook'[i].inbox) : hook'[i].inbox[l].type = "completed"
                                \/ \E l \in 1..Len(bus') : EventOf(i, bus'[l], "completed")
                      /\ hook[i].status = "completed" /\ hook[i].sock = "open" =>
                           job[i].pc = "done" /\ NoneOnBus(i)' /\ hook'[i].inbox = <<>>
                      /\ ~Current(hook[i]) =>
                           hook[i].sock = "open" /\ (hook[i].status = "active" => EndComing(i)')
    BY <1>1, <1>3, <1>12 DEF InboxInOrder, Current, EventOf
  <2>1. /\ \A m \in 1..Len(hook[i].inbox) :
             /\ hook[i].inbox[m].type = "completed" =>
                  job[i].pc = "done" /\ NoneOnBus(i) /\ m = Len(hook[i].inbox)
             /\ hook[i].inbox[m].type = "progress" /\ job[i].pc = "done" =>
                  \/ \E l \in (m + 1)..Len(hook[i].inbox) : hook[i].inbox[l].type = "completed"
                  \/ \E l \in 1..Len(bus) : EventOf(i, bus[l], "completed")
        /\ hook[i].status = "completed" /\ hook[i].sock = "open" =>
             job[i].pc = "done" /\ NoneOnBus(i) /\ hook[i].inbox = <<>>
        /\ ~Current(hook[i]) =>
             hook[i].sock = "open" /\ (hook[i].status = "active" => EndComing(i))
        /\ hook[i].inbox # <<>> => hook[i].sock = "open"
    BY DEF IInv, InboxInOrder, HooksHaveShape
  <2>2. NoneOnBus(i) => NoneOnBus(i)' /\ e.job # i
    BY <1>1, <1>14 DEF NoneOnBus, e
  <2>3. hook[i].sock = "open" /\ EndComing(i) => EndComing(i)' BY <1>16
  <2>4. /\ EventOf(i, e, "completed") => job[i].pc = "done" /\ NoneOnBus(i)'
        /\ EventOf(i, e, "progress") /\ job[i].pc = "done" =>
             \E l \in 1..Len(bus') : EventOf(i, bus'[l], "completed")
    <3>1. /\ EventOf(i, e, "completed") =>
               job[i].pc = "done" /\ \A l \in 2..Len(bus) : bus[l].job # i
          /\ EventOf(i, e, "progress") /\ job[i].pc = "done" =>
               \E l \in 2..Len(bus) : EventOf(i, bus[l], "completed")
      <4>1. 1 \in 1..Len(bus) /\ 1 + 1 = 2 BY <1>1
      <4> QED BY <4>1 DEF IInv, BusInOrder, e
    <3>2. EventOf(i, e, "completed") => NoneOnBus(i)' BY <1>1, <3>1 DEF NoneOnBus
    <3>3. ASSUME NEW l \in 2..Len(bus) PROVE l - 1 \in 1..Len(bus') /\ bus'[l - 1] = bus[l]
      BY <1>1
    <3> QED BY <3>1, <3>2, <3>3
  <2>5. CASE hook'[i].inbox = hook[i].inbox /\ ~(i = e.job /\ hook[i].sock = "open")
    <3>1. ASSUME NEW m \in 1..Len(hook[i].inbox), hook[i].inbox[m].type = "progress", job[i].pc = "done"
          PROVE  \/ \E l \in (m + 1)..Len(hook[i].inbox) : hook[i].inbox[l].type = "completed"
                 \/ \E l \in 1..Len(bus') : EventOf(i, bus'[l], "completed")
      <4>1. hook[i].inbox # <<>> BY <1>3
      <4>2. hook[i].sock = "open" /\ i # e.job BY <2>1, <2>5, <4>1
      <4> QED BY <2>1, <3>1, <4>2, <1>15
    <3> QED BY <2>1, <2>2, <2>3, <2>5, <3>1
  <2>6. CASE i = e.job /\ hook[i].sock = "open"
    <3>1. /\ Len(hook[i].inbox) \in Nat /\ Len(hook'[i].inbox) = Len(hook[i].inbox) + 1
          /\ hook'[i].inbox[Len(hook[i].inbox) + 1] = e
          /\ \A m \in 1..Len(hook[i].inbox) : hook'[i].inbox[m] = hook[i].inbox[m]
      BY <1>3, <2>6
    <3>2. ~NoneOnBus(i) BY <2>2, <2>6
    <3>3. ASSUME NEW m \in 1..Len(hook'[i].inbox), hook'[i].inbox[m].type = "completed"
          PROVE  job[i].pc = "done" /\ NoneOnBus(i)' /\ m = Len(hook'[i].inbox)
      <4>1. CASE m \in 1..Len(hook[i].inbox) BY <2>1, <3>1, <3>2, <3>3, <4>1
      <4>2. m \in 1..Len(hook[i].inbox) \/ m = Len(hook'[i].inbox) BY <3>1, <3>3
      <4> QED BY <2>4, <2>6, <3>1, <3>3, <4>1, <4>2 DEF EventOf
    <3>4. ASSUME NEW m \in 1..Len(hook'[i].inbox), hook'[i].inbox[m].type = "progress", job[i].pc = "done"
          PROVE  \/ \E l \in (m + 1)..Len(hook'[i].inbox) : hook'[i].inbox[l].type = "completed"
                 \/ \E l \in 1..Len(bus') : EventOf(i, bus'[l], "completed")
      <4>1. CASE m = Len(hook'[i].inbox) BY <2>4, <2>6, <3>1, <3>4, <4>1 DEF EventOf
      <4>2. CASE m \in 1..Len(hook[i].inbox)
        <5>1. \/ \E l \in (m + 1)..Len(hook[i].inbox) : hook[i].inbox[l].type = "completed"
              \/ \E l \in 1..Len(bus) : EventOf(i, bus[l], "completed")
          BY <2>1, <3>1, <3>4, <4>2
        <5>2. CASE \E l \in (m + 1)..Len(hook[i].inbox) : hook[i].inbox[l].type = "completed"
          <6>1. PICK l \in (m + 1)..Len(hook[i].inbox) : hook[i].inbox[l].type = "completed" BY <5>2
          <6>2. l \in (m + 1)..Len(hook'[i].inbox) /\ hook'[i].inbox[l] = hook[i].inbox[l]
            BY <3>1, <4>2, <6>1
          <6> QED BY <6>1, <6>2
        <5>3. CASE \E l \in 1..Len(bus) : EventOf(i, bus[l], "completed")
          <6>1. Len(hook'[i].inbox) \in (m + 1)..Len(hook'[i].inbox) BY <3>1, <4>2
          <6>2. PICK l \in 1..Len(bus) : EventOf(i, bus[l], "completed") BY <5>3
          <6>3. \/ \E k \in 1..Len(bus') : EventOf(i, bus'[k], "completed")
                \/ hook'[i].inbox[Len(hook'[i].inbox)].type = "completed"
            BY <6>2, <2>6, <1>15
          <6> QED BY <6>1, <6>3
        <5> QED BY <5>1, <5>2, <5>3
      <4> QED BY <3>1, <4>1, <4>2
    <3> QED BY <2>1, <2>3, <3>2, <3>3, <3>4
  <2> QED BY <1>3, <2>5, <2>6
<1>18. WriterHears'
  <2> SUFFICES ASSUME NEW i \in Jobs, Smooth(i)', Overwritten(i)'
               PROVE  /\ hook'[i] # None
                      /\ hook'[i].first = "pending" \/ (cache'[view'].rows[i].status = "active" /\ Hears(i)')
    BY DEF WriterHears
  <2>1. Smooth(i) /\ Overwritten(i) BY <1>1, <1>12 DEF Overwritten
  <2>2. /\ hook[i] # None
        /\ hook[i].first = "pending" \/ (cache[view].rows[i].status = "active" /\ Hears(i))
    BY <2>1 DEF IInv, WriterHears
  <2> QED BY <2>2, <1>1, <1>3, <1>16 DEF Hears
<1> QED BY <1>2, <1>4, <1>6, <1>7, <1>8, <1>9, <1>10, <1>11, <1>13, <1>17, <1>18 DEF IInv

-----------------------------------------------------------------------------
(***************************************************************************)
(* Losses: nothing is promised of the order after one.                     *)
(***************************************************************************)
LEMMA UpsetEffect ==
  ASSUME TypeOK, Upset
  PROVE  /\ upsets' \in 0..MaxUpsets /\ upsets' # 0
         /\ BusInOrder' /\ InboxInOrder' /\ WriterHears'
<1>1. upsets' \in 0..MaxUpsets /\ upsets' # 0 BY ListsAssumption DEF TypeOK, Upset
<1>2. \A j \in Jobs : ~Smooth(j)' BY <1>1 DEF Smooth
<1> QED BY <1>1, <1>2 DEF BusInOrder, InboxInOrder, WriterHears

LEMMA LoseEventIsSafe ==
  ASSUME IInv, LoseEvent
  PROVE  IInv'
<1>1. /\ bus \in Seq(Event) /\ bus # <<>> /\ bus' = Tail(bus) /\ Upset
      /\ UNCHANGED <<job, cache, fetch, view, hook, looks>>
  BY DEF IInv, TypeOK, LoseEvent
<1>2. upsets' \in 0..MaxUpsets /\ upsets' # 0 /\ BusInOrder' /\ InboxInOrder' /\ WriterHears'
  BY <1>1, UpsetEffect DEF IInv
<1>3. /\ bus' \in Seq(Event) /\ Len(bus) \in Nat /\ Len(bus') = Len(bus) - 1
      /\ \A i \in 1..Len(bus') : bus'[i] = bus[i + 1] /\ i + 1 \in 1..Len(bus)
  BY <1>1
<1>4. TypeOK' BY <1>1, <1>2, <1>3 DEF IInv, TypeOK
<1>5. JobsAreSound' /\ PendingIsFirst' BY <1>1 DEF IInv, JobsAreSound, PendingIsFirst, Sound, Been
<1>6. EventsAreSound'
  <2>1. ASSUME NEW i \in 1..Len(bus') PROVE Been(bus'[i].job, Says(bus'[i]))
    BY <1>3 DEF IInv, EventsAreSound
  <2> QED BY <1>1, <2>1 DEF IInv, EventsAreSound, Been, Says
<1>7. ListsAreSound' /\ HooksAreSound' BY <1>1 DEF IInv, ListsAreSound, HooksAreSound, Sound, Been
<1>8. ListsHaveShape' /\ HooksHaveShape' BY <1>1, <1>2 DEF IInv, ListsHaveShape, HooksHaveShape
<1>9. NotPendingAgain' BY <1>1 DEF IInv, NotPendingAgain, Belated
<1> QED BY <1>2, <1>4, <1>5, <1>6, <1>7, <1>8, <1>9 DEF IInv

LEMMA FetchFailsIsSafe ==
  ASSUME IInv, NEW v \in Lists, FetchFails(v)
  PROVE  IInv'
<1>1. /\ Upset /\ fetch' = [fetch EXCEPT ![v] = Idle]
      /\ cache' = [cache EXCEPT ![v].bad = TRUE]
      /\ UNCHANGED <<job, bus, view, hook, looks>>
      /\ fetch \in [Lists -> Fetch] /\ cache \in [Lists -> Cached]
  BY DEF IInv, TypeOK, FetchFails
<1>2. upsets' \in 0..MaxUpsets /\ upsets' # 0 /\ BusInOrder' /\ InboxInOrder' /\ WriterHears'
  BY <1>1, UpsetEffect DEF IInv
<1>3. Idle \in Fetch /\ Idle.at = "idle" /\ Idle.rows = None BY DEF Idle, Fetch
<1>4. /\ fetch' \in [Lists -> Fetch] /\ cache' \in [Lists -> Cached]
      /\ \A l \in Lists : /\ cache'[l].rows = cache[l].rows /\ cache'[l].got = cache[l].got
                          /\ fetch'[l] = fetch[l] \/ fetch'[l] = Idle
  BY <1>1, <1>3 DEF Cached
<1>5. TypeOK' BY <1>1, <1>2, <1>4 DEF IInv, TypeOK
<1>6. JobsAreSound' /\ PendingIsFirst' BY <1>1 DEF IInv, JobsAreSound, PendingIsFirst, Sound, Been
<1>7. EventsAreSound' /\ HooksAreSound' BY <1>1 DEF IInv, EventsAreSound, HooksAreSound, Sound, Been, Says
<1>8. ListsAreSound' BY <1>1, <1>3, <1>4 DEF IInv, ListsAreSound, Sound, Been
<1>9. ListsHaveShape' BY <1>2, <1>3, <1>4 DEF IInv, ListsHaveShape
<1>10. HooksHaveShape'
  <2>1. \A j \in Jobs : hook[j] # None => view \in Lists BY DEF IInv, TypeOK, HooksHaveShape
  <2> QED BY <1>1, <1>4, <2>1 DEF IInv, HooksHaveShape
<1>11. NotPendingAgain'
  <2>1. \A l \in Lists, j \in Jobs : Belated(l, j)' => Belated(l, j) BY <1>3, <1>4 DEF Belated
  <2>2. \A j \in Jobs : hook[j] # None => view \in Lists BY DEF IInv, TypeOK, HooksHaveShape
  <2>3. \A l \in Lists, j \in Jobs :
          Belated(l, j)' /\ cache'[l].rows # None /\ cache'[l].rows[j] # None
          => cache'[l].rows[j].status = "pending"
    BY <1>4, <2>1 DEF IInv, NotPendingAgain
  <2>4. \A j \in Jobs :
          hook[j] # None /\ hook[j].prop.status # "pending" =>
            /\ ~Belated(view, j)'
            /\ cache'[view].rows[j] # None /\ cache'[view].rows[j].status = "pending" =>
                 hook[j].ran.active /\ hook[j].ran.status = "pending"
    BY <1>1, <1>4, <2>1, <2>2 DEF IInv, NotPendingAgain
  <2> QED BY <1>1, <2>3, <2>4 DEF NotPendingAgain, Belated
<1> QED BY <1>2, <1>5, <1>6, <1>7, <1>8, <1>9, <1>10, <1>11 DEF IInv

\* A step of one row that keeps the job and what its effects ran with leaves all but the
\* row itself as it was.
LEMMA RowStepEffect ==
  ASSUME IInv, NEW j \in Jobs, hook[j] # None, NEW h \in Hook, hook' = [hook EXCEPT ![j] = h],
         UNCHANGED <<job, bus, cache, fetch, view, looks>>, upsets' = upsets \/ Upset,
         h.prop = hook[j].prop, h.ran = hook[j].ran, h.first = hook[j].first,
         Been(j, h.status),
         \A m \in 1..Len(h.inbox) : Been(j, Says(h.inbox[m])),
         h.sock \in {"opening", "open"} => h.ran.active /\ h.ran.status \notin Terminal,
         h.inbox # <<>> => h.sock = "open",
         h.status = "pending" => h.first = "pending"
  PROVE  /\ hook'[j] = h /\ \A i \in Jobs \ {j} : hook'[i] = hook[i]
         /\ TypeOK' /\ JobsAreSound' /\ PendingIsFirst' /\ EventsAreSound' /\ ListsAreSound'
         /\ HooksAreSound' /\ ListsHaveShape' /\ HooksHaveShape' /\ NotPendingAgain' /\ BusInOrder'
         /\ upsets' # upsets => InboxInOrder' /\ WriterHears'
<1>1. hook \in [Jobs -> Hook \cup {None}] /\ h # None BY NoneIsNoRecord DEF IInv, TypeOK
<1>2. hook'[j] = h /\ \A i \in Jobs \ {j} : hook'[i] = hook[i] BY <1>1
<1>3. /\ upsets \in Nat /\ upsets' \in 0..MaxUpsets /\ (upsets # 0 => upsets' # 0)
      /\ upsets' # upsets => BusInOrder' /\ InboxInOrder' /\ WriterHears'
  BY UpsetEffect DEF IInv, TypeOK
<1>4. TypeOK' BY <1>1, <1>3 DEF IInv, TypeOK
<1>5. JobsAreSound' /\ PendingIsFirst' BY DEF IInv, JobsAreSound, PendingIsFirst, Sound, Been
<1>6. EventsAreSound' BY <1>2 DEF IInv, EventsAreSound, Been, Says
<1>7. ListsAreSound' BY DEF IInv, ListsAreSound, Sound, Been
<1>8. HooksAreSound'
  <2>1. Sound(j, h.prop) /\ Been(j, h.status) /\ Been(j, h.ran.status) BY DEF IInv, HooksAreSound
  <2> QED BY <1>2, <2>1 DEF IInv, HooksAreSound, Sound, Been
<1>9. ListsHaveShape' BY <1>3 DEF IInv, ListsHaveShape
<1>10. HooksHaveShape'
  <2>1. /\ view # None /\ cache[view].rows # None
        /\ h.ran.active <=> h.prop.status = "active"
        /\ "pending" \in {h.status, h.ran.status} => h.first = "pending"
    BY DEF IInv, HooksHaveShape
  <2> QED BY <1>2, <2>1 DEF IInv, HooksHaveShape
<1>11. NotPendingAgain'
  <2>1. \A l \in Lists, i \in Jobs :
          Belated(l, i)' /\ cache'[l].rows # None /\ cache'[l].rows[i] # None
          => cache'[l].rows[i].status = "pending"
    BY DEF IInv, NotPendingAgain, Belated
  <2>2. \A i \in Jobs :
          hook'[i] # None /\ hook'[i].prop.status # "pending" =>
            /\ ~Belated(view, i)'
            /\ cache[view].rows[i] # None /\ cache[view].rows[i].status = "pending" =>
                 hook'[i].ran.active /\ hook'[i].ran.status = "pending"
    BY <1>2 DEF IInv, NotPendingAgain, Belated
  <2> QED BY <2>1, <2>2 DEF NotPendingAgain, Belated
<1>12. BusInOrder'
  <2>1. CASE upsets' = upsets BY <2>1 DEF IInv, BusInOrder, Smooth, Been, EventOf
  <2> QED BY <1>3, <2>1
<1> QED BY <1>2, <1>3, <1>4, <1>5, <1>6, <1>7, <1>8, <1>9, <1>10, <1>11, <1>12

\* The socket is open: the row hears as much as it did.
LEMMA OpenedIsSafe ==
  ASSUME IInv, NEW j \in Jobs, Opened(j)
  PROVE  IInv'
<1> DEFINE h == [hook[j] EXCEPT !.sock = "open"]
<1>1. /\ hook[j] # None /\ hook[j] \in Hook /\ hook[j].sock = "opening" /\ hook' = [hook EXCEPT ![j] = h]
      /\ UNCHANGED <<job, bus, cache, fetch, view, upsets, looks>>
  BY DEF IInv, TypeOK, Opened
<1>2. /\ h \in Hook /\ h.sock = "open" /\ h.inbox = hook[j].inbox /\ h.prop = hook[j].prop
      /\ h.ran = hook[j].ran /\ h.first = hook[j].first /\ h.status = hook[j].status /\ h.prog = hook[j].prog
  BY <1>1 DEF Hook
<1> HIDE DEF h
<1>3. /\ hook[j].ran.active /\ hook[j].ran.status \notin Terminal /\ hook[j].inbox = <<>>
      /\ hook[j].status = "pending" => hook[j].first = "pending"
      /\ Been(j, hook[j].status)
      /\ \A m \in 1..Len(hook[j].inbox) : Been(j, Says(hook[j].inbox[m]))
  BY <1>1 DEF IInv, HooksHaveShape, HooksAreSound, EventsAreSound
<1>4. /\ hook'[j] = h /\ \A i \in Jobs \ {j} : hook'[i] = hook[i]
      /\ TypeOK' /\ JobsAreSound' /\ PendingIsFirst' /\ EventsAreSound' /\ ListsAreSound'
      /\ HooksAreSound' /\ ListsHaveShape' /\ HooksHaveShape' /\ NotPendingAgain' /\ BusInOrder'
  BY <1>1, <1>2, <1>3, RowStepEffect
<1>5. h # None BY <1>2, NoneIsNoRecord
<1>6. \A i \in Jobs : Smooth(i)' <=> Smooth(i) BY <1>1 DEF Smooth, Been
<1>7. InboxInOrder'
  <2>1. Smooth(j) => Current(hook[j]) BY <1>1 DEF IInv, InboxInOrder
  <2>2. Smooth(j) => Current(h) /\ h.status # "completed" BY <1>2, <1>3, <2>1 DEF Current, Terminal
  <2>3. Len(h.inbox) = 0 /\ h.inbox = <<>> BY <1>2, <1>3
  <2> QED BY <1>1, <1>4, <1>6, <2>2, <2>3 DEF IInv, InboxInOrder, Current, NoneOnBus, EndComing, EventOf
<1>8. WriterHears'
  <2> SUFFICES ASSUME NEW i \in Jobs, Smooth(i)', Overwritten(i)'
               PROVE  /\ hook'[i] # None
                      /\ hook'[i].first = "pending" \/ (cache'[view'].rows[i].status = "active" /\ Hears(i)')
    BY DEF WriterHears
  <2>1. Smooth(i) /\ Overwritten(i) BY <1>1, <1>6 DEF Overwritten
  <2>2. /\ hook[i] # None
        /\ hook[i].first = "pending" \/ (cache[view].rows[i].status = "active" /\ Hears(i))
    BY <2>1 DEF IInv, WriterHears
  <2>3. Hears(i) => Hears(i)' BY <1>1, <1>2, <1>4 DEF Hears, EndComing, EventOf
  <2> QED BY <2>2, <2>3, <1>1, <1>2, <1>4, <1>5
<1> QED BY <1>4, <1>7, <1>8 DEF IInv

\* The connection is gone, and what was on it.
LEMMA LoseIsSafe ==
  ASSUME IInv, NEW j \in Jobs, Lose(j)
  PROVE  IInv'
<1> DEFINE h == [hook[j] EXCEPT !.sock = "lost", !.inbox = <<>>]
<1>1. /\ hook[j] # None /\ hook[j] \in Hook /\ hook' = [hook EXCEPT ![j] = h] /\ Upset
      /\ UNCHANGED <<job, bus, cache, fetch, view, looks>>
  BY DEF IInv, TypeOK, Lose
<1>2. /\ h \in Hook /\ h.sock = "lost" /\ h.inbox = <<>> /\ h.prop = hook[j].prop
      /\ h.ran = hook[j].ran /\ h.first = hook[j].first /\ h.status = hook[j].status
  <2>1. <<>> \in Seq(Event) OBVIOUS
  <2> QED BY <1>1, <2>1 DEF Hook
<1> HIDE DEF h
<1>3. /\ hook[j].status = "pending" => hook[j].first = "pending"
      /\ Been(j, hook[j].status)
  BY <1>1 DEF IInv, HooksHaveShape, HooksAreSound
<1>4. /\ upsets' # upsets /\ (upsets' = upsets \/ Upset)
      /\ \A m \in 1..Len(h.inbox) : Been(j, Says(h.inbox[m]))
      /\ h.sock \notin {"opening", "open"}
  BY <1>1, <1>2 DEF IInv, TypeOK, Upset
<1>5. /\ TypeOK' /\ JobsAreSound' /\ PendingIsFirst' /\ EventsAreSound' /\ ListsAreSound'
      /\ HooksAreSound' /\ ListsHaveShape' /\ HooksHaveShape' /\ NotPendingAgain' /\ BusInOrder'
      /\ InboxInOrder' /\ WriterHears'
  BY <1>1, <1>2, <1>3, <1>4, RowStepEffect
<1> QED BY <1>5 DEF IInv

\* A message: the end, or a progress after which the end has still to come.
LEMMA ReceiveIsSafe ==
  ASSUME IInv, NEW j \in Jobs, Receive(j)
  PROVE  IInv'
<1> DEFINE box == hook[j].inbox
           m == Head(box)
           p == CASE m.type = "progress" -> m.prog
                  [] m.type = "completed" -> Reports + 1
                  [] m.type = "failed" -> hook[j].prog
           h == [hook[j] EXCEPT !.inbox = Tail(@), !.status = Says(m), !.prog = p]
<1>1. /\ hook[j] # None /\ hook[j] \in Hook /\ box # <<>> /\ hook' = [hook EXCEPT ![j] = h]
      /\ UNCHANGED <<job, bus, cache, fetch, view, upsets, looks>>
  <2>1. /\ hook[j] # None /\ box # <<>>
        /\ hook' = [hook EXCEPT ![j].inbox = Tail(@), ![j].status = Says(m), ![j].prog = p]
        /\ UNCHANGED <<job, bus, cache, fetch, view, upsets, looks>>
    BY DEF Receive, Says
  <2>2. hook \in [Jobs -> Hook \cup {None}] BY DEF IInv, TypeOK
  <2> HIDE DEF p, m
  <2> QED BY <2>1, <2>2
<1>2. /\ box \in Seq(Event) /\ Len(box) \in Nat /\ Len(box) > 0 /\ m \in Event /\ m = box[1]
      /\ Tail(box) \in Seq(Event) /\ Len(Tail(box)) = Len(box) - 1
      /\ \A k \in 1..Len(Tail(box)) : Tail(box)[k] = box[k + 1] /\ k + 1 \in 1..Len(box)
  BY <1>1 DEF Hook
<1>3. m.type \in {"progress", "completed", "failed"} /\ m.prog \in 0..Reports BY <1>2 DEF Event
<1>4. p \in 0..(Reports + 1)
  <2>1. hook[j].prog \in 0..(Reports + 1) BY <1>1 DEF Hook
  <2> QED BY <1>3, <2>1, ListsAssumption
<1>5. Says(m) \in {"active", "completed", "failed"} BY <1>3 DEF Says
<1>6. /\ h \in Hook /\ h.sock = hook[j].sock /\ h.inbox = Tail(box) /\ h.prop = hook[j].prop
      /\ h.ran = hook[j].ran /\ h.first = hook[j].first /\ h.status = Says(m)
  <2> HIDE DEF p, m
  <2> QED BY <1>1, <1>2, <1>4, <1>5 DEF Hook, Statuses
<1> HIDE DEF h, p
<1>7. /\ hook[j].sock = "open" /\ hook[j].ran.active /\ hook[j].ran.status \notin Terminal
      /\ \A k \in 1..Len(box) : Been(j, Says(box[k]))
  BY <1>1 DEF IInv, HooksHaveShape, EventsAreSound
<1>8. Been(j, Says(m)) /\ \A k \in 1..Len(Tail(box)) : Been(j, Says(Tail(box)[k])) BY <1>2, <1>7
<1>9. /\ hook'[j] = h /\ \A i \in Jobs \ {j} : hook'[i] = hook[i]
      /\ TypeOK' /\ JobsAreSound' /\ PendingIsFirst' /\ EventsAreSound' /\ ListsAreSound'
      /\ HooksAreSound' /\ ListsHaveShape' /\ HooksHaveShape' /\ NotPendingAgain' /\ BusInOrder'
  <2> HIDE DEF box, m
  <2> QED BY <1>1, <1>5, <1>6, <1>7, <1>8, RowStepEffect
<1>10. h # None BY <1>6, NoneIsNoRecord
<1>11. \A i \in Jobs : Smooth(i)' <=> Smooth(i) BY <1>1 DEF Smooth, Been
<1>12. ASSUME Smooth(j)
       PROVE  /\ \A k \in 1..Len(box) :
                   /\ box[k].type = "completed" => job[j].pc = "done" /\ NoneOnBus(j) /\ k = Len(box)
                   /\ box[k].type = "progress" /\ job[j].pc = "done" =>
                        \/ \E l \in (k + 1)..Len(box) : box[l].type = "completed"
                        \/ \E l \in 1..Len(bus) : EventOf(j, bus[l], "completed")
              /\ hook[j].status # "completed"
              /\ m.type # "failed"
  BY <1>1, <1>7, <1>8, <1>12 DEF IInv, InboxInOrder, Smooth, Been, Says
<1>13. ASSUME Smooth(j), NEW k \in 1..Len(box), k # 1, box[k].type = "completed"
       PROVE  EndComing(j)'
  <2>1. k - 1 \in 1..Len(Tail(box)) /\ Tail(box)[k - 1] = box[k] BY <1>2, <1>13
  <2> QED BY <2>1, <1>6, <1>9, <1>13 DEF EndComing
<1>14. ASSUME Smooth(j), m.type = "progress"
       PROVE  EndComing(j)'
  <2>1. CASE job[j].pc # "done" BY <2>1, <1>1 DEF EndComing
  <2>2. CASE job[j].pc = "done"
    <3>1. 1 \in 1..Len(box) BY <1>2
    <3>2. \/ \E l \in (1 + 1)..Len(box) : box[l].type = "completed"
          \/ \E l \in 1..Len(bus) : EventOf(j, bus[l], "completed")
      BY <1>2, <1>12, <1>14, <2>2, <3>1
    <3>3. CASE \E l \in 1..Len(bus) : EventOf(j, bus[l], "completed") BY <3>3, <1>1 DEF EndComing, EventOf
    <3>4. CASE \E l \in 2..Len(box) : box[l].type = "completed"
      <4>1. PICK l \in 2..Len(box) : box[l].type = "completed" BY <3>4
      <4>2. l \in 1..Len(box) /\ l # 1 BY <1>2, <4>1
      <4> HIDE DEF box
      <4> QED BY <1>13, <1>14, <4>1, <4>2
    <3> QED BY <3>2, <3>3, <3>4
  <2> QED BY <2>1, <2>2
<1>15. InboxInOrder'
  <2>1. ASSUME Smooth(j)
        PROVE  /\ \A k \in 1..Len(h.inbox) :
                    /\ h.inbox[k].type = "completed" =>
                         job[j].pc = "done" /\ NoneOnBus(j) /\ k = Len(h.inbox)
                    /\ h.inbox[k].type = "progress" /\ job[j].pc = "done" =>
                         \/ \E l \in (k + 1)..Len(h.inbox) : h.inbox[l].type = "completed"
                         \/ \E l \in 1..Len(bus) : EventOf(j, bus[l], "completed")
               /\ h.status = "completed" => job[j].pc = "done" /\ NoneOnBus(j) /\ h.inbox = <<>>
               /\ h.status = "active" => EndComing(j)'
    <3>1. ASSUME NEW k \in 1..Len(h.inbox)
          PROVE  /\ h.inbox[k].type = "completed" =>
                      job[j].pc = "done" /\ NoneOnBus(j) /\ k = Len(h.inbox)
                 /\ h.inbox[k].type = "progress" /\ job[j].pc = "done" =>
                      \/ \E l \in (k + 1)..Len(h.inbox) : h.inbox[l].type = "completed"
                      \/ \E l \in 1..Len(bus) : EventOf(j, bus[l], "completed")
      <4>1. k + 1 \in 1..Len(box) /\ h.inbox[k] = box[k + 1] BY <1>2, <1>6
      <4>2. h.inbox[k].type = "completed" => job[j].pc = "done" /\ NoneOnBus(j) /\ k = Len(h.inbox)
        BY <1>2, <1>6, <1>12, <2>1, <4>1
      <4>3. ASSUME h.inbox[k].type = "progress", job[j].pc = "done"
            PROVE  \/ \E l \in (k + 1)..Len(h.inbox) : h.inbox[l].type = "completed"
                   \/ \E l \in 1..Len(bus) : EventOf(j, bus[l], "completed")
        <5>1. \/ \E l \in (k + 1 + 1)..Len(box) : box[l].type = "completed"
              \/ \E l \in 1..Len(bus) : EventOf(j, bus[l], "completed")
          <6> HIDE DEF box
          <6> QED BY <1>12, <2>1, <4>1, <4>3
        <5>2. CASE \E l \in (k + 1 + 1)..Len(box) : box[l].type = "completed"
          <6>1. PICK l \in (k + 1 + 1)..Len(box) : box[l].type = "completed" BY <5>2
          <6>2. l - 1 \in (k + 1)..Len(h.inbox) /\ h.inbox[l - 1] = box[l] BY <1>2, <1>6, <6>1
          <6> QED BY <6>1, <6>2
        <5> QED BY <5>1, <5>2
      <4> QED BY <4>2, <4>3
    <3>2. h.status = "completed" => job[j].pc = "done" /\ NoneOnBus(j) /\ h.inbox = <<>>
      <4>1. h.status = "completed" => m.type = "completed" BY <1>6 DEF Says
      <4>2. 1 \in 1..Len(box) BY <1>2
      <4>3. m.type = "completed" => job[j].pc = "done" /\ NoneOnBus(j) /\ 1 = Len(box)
        BY <1>2, <1>12, <2>1, <4>2
      <4>4. 1 = Len(box) => Tail(box) = <<>>
        <5> DEFINE rest == Tail(box)
        <5>1. rest \in Seq(Event) /\ Len(rest) = Len(box) - 1 BY <1>2
        <5> HIDE DEF rest, box, m
        <5>2. 1 = Len(box) => rest = <<>> BY <5>1
        <5> QED BY <5>2 DEF rest
      <4> QED BY <4>1, <4>3, <4>4, <1>6
    <3>3. h.status = "active" => EndComing(j)'
      <4>1. h.status = "active" => m.type = "progress" BY <1>3, <1>6 DEF Says
      <4> QED BY <4>1, <1>14, <2>1
    <3> QED BY <3>1, <3>2, <3>3
  <2> SUFFICES ASSUME NEW i \in Jobs, Smooth(i), hook'[i] # None
               PROVE  /\ \A k \in 1..Len(hook'[i].inbox) :
                           /\ hook'[i].inbox[k].type = "completed" =>
                                job[i].pc = "done" /\ NoneOnBus(i) /\ k = Len(hook'[i].inbox)
                           /\ hook'[i].inbox[k].type = "progress" /\ job[i].pc = "done" =>
                                \/ \E l \in (k + 1)..Len(hook'[i].inbox) : hook'[i].inbox[l].type = "completed"
                                \/ \E l \in 1..Len(bus) : EventOf(i, bus[l], "completed")
                      /\ hook'[i].status = "completed" /\ hook'[i].sock = "open" =>
                           job[i].pc = "done" /\ NoneOnBus(i) /\ hook'[i].inbox = <<>>
                      /\ ~Current(hook'[i]) =>
                           hook'[i].sock = "open" /\ (hook'[i].status = "active" => EndComing(i)')
    BY <1>1, <1>11 DEF InboxInOrder, Current, NoneOnBus, EventOf
  <2>2. CASE i = j
    <3>1. hook'[i] = h /\ h.sock = "open" BY <2>2, <1>6, <1>7, <1>9
    <3> HIDE DEF box, m
    <3> QED BY <2>1, <2>2, <3>1 DEF EndComing
  <2>3. CASE i # j
    <3>1. hook'[i] = hook[i] /\ hook[i] # None BY <2>3, <1>9
    <3>2. EndComing(i)' <=> EndComing(i) BY <3>1, <1>1 DEF EndComing, EventOf
    <3> QED BY <3>1, <3>2 DEF IInv, InboxInOrder
  <2> QED BY <2>2, <2>3
<1>16. WriterHears'
  <2> SUFFICES ASSUME NEW i \in Jobs, Smooth(i)', Overwritten(i)'
               PROVE  /\ hook'[i] # None
                      /\ hook'[i].first = "pending" \/ (cache'[view'].rows[i].status = "active" /\ Hears(i)')
    BY DEF WriterHears
  <2>1. Smooth(i) /\ Overwritten(i) BY <1>1, <1>11 DEF Overwritten
  <2>2. /\ hook[i] # None
        /\ hook[i].first = "pending" \/ (cache[view].rows[i].status = "active" /\ Hears(i))
    BY <2>1 DEF IInv, WriterHears
  <2>3. CASE i # j
    <3>1. Hears(i) => Hears(i)' BY <2>3, <1>1, <1>9 DEF Hears, EndComing, EventOf
    <3> QED BY <2>2, <2>3, <3>1, <1>1, <1>9
  <2>4. CASE i = j
    <3>1. m.type = "completed" => Hears(i)' BY <2>4, <1>6, <1>9 DEF Hears, Says
    <3>2. m.type = "progress" => Hears(i)' BY <2>1, <2>4, <1>6, <1>7, <1>9, <1>14 DEF Hears
    <3> QED BY <2>1, <2>2, <2>4, <3>1, <3>2, <1>1, <1>3, <1>6, <1>9, <1>10, <1>12
  <2> QED BY <2>3, <2>4
<1> QED BY <1>9, <1>15, <1>16 DEF IInv

-----------------------------------------------------------------------------
(***************************************************************************)
(* The queries.                                                            *)
(***************************************************************************)
\* A step of a query leaves the jobs, the events and the rows alone.
LEMMA QueryEffect ==
  ASSUME IInv, UNCHANGED <<job, bus, view, hook, upsets>>,
         \A v \in Lists : cache[v].rows # None => cache'[v].rows # None
  PROVE  /\ JobsAreSound' /\ PendingIsFirst' /\ EventsAreSound' /\ HooksAreSound'
         /\ HooksHaveShape' /\ BusInOrder' /\ InboxInOrder'
         /\ \A j \in Jobs : /\ Smooth(j)' <=> Smooth(j)
                            /\ hook[j] # None => (Hears(j)' <=> Hears(j))
         /\ \A j \in Jobs : hook[j] # None => view \in Lists
<1>1. JobsAreSound' /\ PendingIsFirst' BY DEF IInv, JobsAreSound, PendingIsFirst, Sound, Been
<1>2. EventsAreSound' /\ HooksAreSound' BY DEF IInv, EventsAreSound, HooksAreSound, Sound, Been, Says
<1>3. \A j \in Jobs : hook[j] # None => view \in Lists BY DEF IInv, TypeOK, HooksHaveShape
<1>4. HooksHaveShape' BY <1>3 DEF IInv, HooksHaveShape
<1>5. BusInOrder' BY DEF IInv, BusInOrder, Smooth, Been, EventOf
<1>6. \A j \in Jobs : EndComing(j)' <=> EndComing(j) BY DEF EndComing, EventOf
<1>7. \A j \in Jobs : Smooth(j)' <=> Smooth(j) BY DEF Smooth, Been
<1>8. InboxInOrder'
  <2> SUFFICES ASSUME NEW j \in Jobs, Smooth(j), hook[j] # None
               PROVE  /\ \A i \in 1..Len(hook[j].inbox) :
                           /\ hook[j].inbox[i].type = "completed" =>
                                job[j].pc = "done" /\ NoneOnBus(j) /\ i = Len(hook[j].inbox)
                           /\ hook[j].inbox[i].type = "progress" /\ job[j].pc = "done" =>
                                \/ \E k \in (i + 1)..Len(hook[j].inbox) : hook[j].inbox[k].type = "completed"
                                \/ \E k \in 1..Len(bus) : EventOf(j, bus[k], "completed")
                      /\ hook[j].status = "completed" /\ hook[j].sock = "open" =>
                           job[j].pc = "done" /\ NoneOnBus(j) /\ hook[j].inbox = <<>>
                      /\ ~Current(hook[j]) =>
                           hook[j].sock = "open" /\ (hook[j].status = "active" => EndComing(j))
    BY <1>6, <1>7 DEF InboxInOrder, Current, NoneOnBus, EventOf
  <2> QED BY DEF IInv, InboxInOrder
<1>9. \A j \in Jobs : hook[j] # None => (Hears(j)' <=> Hears(j)) BY <1>6 DEF Hears
<1> QED BY <1>1, <1>2, <1>3, <1>4, <1>5, <1>7, <1>8, <1>9

\* A list is asked for: it has no answer of that request yet.
LEMMA FocusIsSafe ==
  ASSUME IInv, Focus
  PROVE  IInv'
<1>1. /\ view \in Lists /\ fetch[view] = Idle /\ Look /\ UNCHANGED <<job, bus, cache, view, hook, upsets>>
      /\ fetch' = [fetch EXCEPT ![view].at = "asked"]
      /\ fetch \in [Lists -> Fetch]
  BY DEF IInv, TypeOK, Focus, Ask
<1>2. /\ fetch' \in [Lists -> Fetch] /\ fetch'[view].at = "asked"
      /\ \A l \in Lists : fetch'[l].rows = fetch[l].rows /\ (l # view => fetch'[l] = fetch[l])
  BY <1>1 DEF Fetch
<1>3. /\ JobsAreSound' /\ PendingIsFirst' /\ EventsAreSound' /\ HooksAreSound'
      /\ HooksHaveShape' /\ BusInOrder' /\ InboxInOrder'
  BY <1>1, QueryEffect
<1>4. looks' \in 0..MaxLooks BY <1>1, ListsAssumption DEF IInv, TypeOK, Look
<1>5. TypeOK' BY <1>1, <1>2, <1>4 DEF IInv, TypeOK
<1>6. ListsAreSound' BY <1>1, <1>2 DEF IInv, ListsAreSound, Sound, Been
<1>7. ListsHaveShape' BY <1>1, <1>2 DEF IInv, ListsHaveShape
<1>8. \A l \in Lists, j \in Jobs : Belated(l, j)' => Belated(l, j) BY <1>2 DEF Belated
<1>9. NotPendingAgain'
  <2>1. \A l \in Lists, j \in Jobs :
          Belated(l, j)' /\ cache'[l].rows # None /\ cache'[l].rows[j] # None
          => cache'[l].rows[j].status = "pending"
    BY <1>1, <1>8 DEF IInv, NotPendingAgain
  <2>2. \A j \in Jobs :
          hook[j] # None /\ hook[j].prop.status # "pending" =>
            /\ ~Belated(view, j)'
            /\ cache[view].rows[j] # None /\ cache[view].rows[j].status = "pending" =>
                 hook[j].ran.active /\ hook[j].ran.status = "pending"
    BY <1>1, <1>8 DEF IInv, NotPendingAgain
  <2> QED BY <1>1, <2>1, <2>2 DEF NotPendingAgain, Belated
<1>10. WriterHears' BY <1>1, <1>2 DEF WriterHears, Overwritten, Idle
<1> QED BY <1>3, <1>5, <1>6, <1>7, <1>9, <1>10 DEF IInv

\* The server answers with the rows as they are: a row that is pending is of a job that
\* nobody can have seen otherwise.
LEMMA ReadIsSafe ==
  ASSUME IInv, NEW v \in Lists, Read(v)
  PROVE  IInv'
<1> DEFINE rows == [j \in Jobs |-> IF Matches(v, job[j].row) THEN job[j].row ELSE None]
<1>1. /\ fetch[v].at = "asked" /\ fetch' = [fetch EXCEPT ![v] = [at |-> "read", rows |-> rows]]
      /\ UNCHANGED <<job, bus, cache, view, hook, upsets, looks>>
      /\ fetch \in [Lists -> Fetch]
  BY DEF IInv, TypeOK, Read
<1>2. \A j \in Jobs : job[j].row \in Row \cup {None} /\ (job[j].row # None => job[j].row \in job[j].was)
  BY DEF IInv, TypeOK, Job, JobsAreSound
<1>3. /\ rows \in Held /\ rows # None
      /\ \A j \in Jobs : rows[j] # None => rows[j] = job[j].row /\ job[j].row # None
  <2>1. rows \in Held BY <1>2 DEF Held
  <2> QED BY <2>1, NoneIsNoRecord
<1> HIDE DEF rows
<1>4. /\ fetch' \in [Lists -> Fetch] /\ fetch'[v].at = "read" /\ fetch'[v].rows = rows
      /\ \A l \in Lists : l # v => fetch'[l] = fetch[l]
  BY <1>1, <1>3 DEF Fetch
<1>5. /\ JobsAreSound' /\ PendingIsFirst' /\ EventsAreSound' /\ HooksAreSound'
      /\ HooksHaveShape' /\ BusInOrder' /\ InboxInOrder'
      /\ \A j \in Jobs : /\ Smooth(j)' <=> Smooth(j)
                         /\ hook[j] # None => (Hears(j)' <=> Hears(j))
  BY <1>1, QueryEffect
<1>6. TypeOK' BY <1>1, <1>4 DEF IInv, TypeOK
<1>7. ListsAreSound' BY <1>1, <1>2, <1>3, <1>4 DEF IInv, ListsAreSound, Sound, Been
<1>8. ListsHaveShape' BY <1>1, <1>3, <1>4 DEF IInv, ListsHaveShape
<1>9. NotPendingAgain'
  <2>1. ASSUME NEW j \in Jobs, Belated(v, j)' PROVE \A r \in job[j].was : r.status = "pending"
    BY <1>3, <1>4, <2>1 DEF IInv, PendingIsFirst, Belated
  <2>2. ASSUME NEW l \in Lists, NEW j \in Jobs, Belated(l, j)', cache[l].rows # None, cache[l].rows[j] # None
        PROVE  cache[l].rows[j].status = "pending"
    <3>1. CASE l = v BY <2>1, <2>2, <3>1 DEF IInv, ListsAreSound, Sound, Been
    <3>2. CASE l # v BY <1>4, <2>2, <3>2 DEF IInv, NotPendingAgain, Belated
    <3> QED BY <3>1, <3>2
  <2>3. ASSUME NEW j \in Jobs, hook[j] # None, hook[j].prop.status # "pending" PROVE ~Belated(view, j)'
    <3>1. CASE view = v BY <1>1, <1>4, <2>1, <2>3, <3>1 DEF IInv, HooksAreSound, Sound, Been, Belated
    <3>2. CASE view # v
      <4>1. view \in Lists BY <2>3 DEF IInv, HooksHaveShape, TypeOK
      <4> QED BY <1>1, <1>4, <2>3, <3>2, <4>1 DEF IInv, NotPendingAgain, Belated
    <3> QED BY <3>1, <3>2
  <2>4. \A j \in Jobs :
          /\ hook[j] # None /\ hook[j].prop.status # "pending"
          /\ cache[view].rows[j] # None /\ cache[view].rows[j].status = "pending"
          => hook[j].ran.active /\ hook[j].ran.status = "pending"
    BY DEF IInv, NotPendingAgain
  <2> QED BY <1>1, <2>2, <2>3, <2>4 DEF NotPendingAgain, Belated
<1>10. WriterHears'
  <2>1. \A j \in Jobs : Overwritten(j)' => Overwritten(j)
    BY <1>1, <1>4 DEF Overwritten, Idle, IInv, TypeOK
  <2> QED BY <1>1, <1>5, <2>1 DEF IInv, WriterHears
<1> QED BY <1>5, <1>6, <1>7, <1>8, <1>9, <1>10 DEF IInv

\* The list is what the server answered.
LEMMA AnswerIsSafe ==
  ASSUME IInv, NEW v \in Lists, Answer(v)
  PROVE  IInv'
<1> DEFINE rows == fetch[v].rows
<1>1. /\ fetch[v].at = "read" /\ fetch' = [fetch EXCEPT ![v] = Idle]
      /\ cache' = [cache EXCEPT ![v] = [rows |-> rows, got |-> rows, bad |-> FALSE]]
      /\ UNCHANGED <<job, bus, view, hook, upsets, looks>>
      /\ fetch \in [Lists -> Fetch] /\ cache \in [Lists -> Cached]
  BY DEF IInv, TypeOK, Answer
<1>2. Idle \in Fetch /\ Idle.at = "idle" /\ Idle.rows = None BY DEF Idle, Fetch
<1>3. rows \in Held /\ rows # None BY <1>1 DEF IInv, ListsHaveShape, Fetch
<1> HIDE DEF rows
<1>4. /\ fetch' \in [Lists -> Fetch] /\ fetch'[v] = Idle
      /\ cache' \in [Lists -> Cached]
      /\ cache'[v].rows = rows /\ cache'[v].got = rows /\ cache'[v].bad = FALSE
      /\ \A l \in Lists : l # v => fetch'[l] = fetch[l] /\ cache'[l] = cache[l]
  BY <1>1, <1>2, <1>3 DEF Cached
<1>5. /\ JobsAreSound' /\ PendingIsFirst' /\ EventsAreSound' /\ HooksAreSound'
      /\ HooksHaveShape' /\ BusInOrder' /\ InboxInOrder'
      /\ \A j \in Jobs : /\ Smooth(j)' <=> Smooth(j)
                         /\ hook[j] # None => (Hears(j)' <=> Hears(j))
      /\ \A j \in Jobs : hook[j] # None => view \in Lists
  BY <1>1, <1>3, <1>4, QueryEffect
<1>6. TypeOK' BY <1>1, <1>4 DEF IInv, TypeOK
<1>7. \A j \in Jobs : rows[j] # None => rows[j] \in job[j].was /\ Sound(j, rows[j])
  BY <1>3 DEF rows, IInv, ListsAreSound, JobsAreSound
<1>8. ListsAreSound' BY <1>1, <1>2, <1>4, <1>7 DEF IInv, ListsAreSound, Sound, Been
<1>9. ListsHaveShape' BY <1>1, <1>2, <1>4 DEF IInv, ListsHaveShape
<1>10. NotPendingAgain'
  <2>1. \A l \in Lists, j \in Jobs : Belated(l, j)' => l # v /\ Belated(l, j) BY <1>2, <1>4 DEF Belated
  <2>2. \A l \in Lists, j \in Jobs :
          Belated(l, j)' /\ cache'[l].rows # None /\ cache'[l].rows[j] # None
          => cache'[l].rows[j].status = "pending"
    BY <1>4, <2>1 DEF IInv, NotPendingAgain
  <2>3. ASSUME NEW j \in Jobs, hook[j] # None, hook[j].prop.status # "pending"
        PROVE  /\ ~Belated(view, j)'
               /\ cache'[view].rows[j] # None /\ cache'[view].rows[j].status = "pending" =>
                    hook[j].ran.active /\ hook[j].ran.status = "pending"
    <3>1. /\ ~Belated(view, j) /\ view \in Lists
          /\ cache[view].rows[j] # None /\ cache[view].rows[j].status = "pending" =>
               hook[j].ran.active /\ hook[j].ran.status = "pending"
      BY <1>5, <2>3 DEF IInv, NotPendingAgain
    <3>2. CASE view = v BY <1>1, <1>4, <2>1, <3>1, <3>2 DEF Belated, rows
    <3>3. CASE view # v BY <1>4, <1>1, <2>1, <3>1, <3>3 
    <3> QED BY <3>2, <3>3
  <2> QED BY <1>1, <2>2, <2>3 DEF NotPendingAgain, Belated
<1>11. WriterHears'
  <2>1. \A j \in Jobs : Overwritten(j)' => view # v /\ Overwritten(j)
    BY <1>1, <1>4 DEF Overwritten, IInv, TypeOK
  <2>2. view \in Lists \cup {None} BY DEF IInv, TypeOK
  <2> QED BY <1>1, <1>4, <1>5, <2>1, <2>2 DEF IInv, WriterHears, Overwritten
<1> QED BY <1>5, <1>6, <1>8, <1>9, <1>10, <1>11 DEF IInv

-----------------------------------------------------------------------------
(***************************************************************************)
(* Rendering, and the effects that follow it.                              *)
(***************************************************************************)
\* Row c has been committed on list v.
Drawn(c) ==
  /\ c.ran.active <=> c.prop.status = "active"
  /\ c.ran.status = c.status /\ c.ran.prog = c.prog
  /\ c.sock \in {"opening", "open"} => c.ran.active /\ c.ran.status \notin Terminal
  /\ c.inbox # <<>> => c.sock = "open"

\* Row h keeps its state as c, and its socket if the effect has the same to listen to.
Stays(h, c) ==
  /\ c.status = h.status /\ c.prog = h.prog /\ c.first = h.first
  /\ IF (h.ran.active <=> c.prop.status = "active") /\ h.ran.status = h.status
     THEN c.sock = h.sock /\ c.inbox = h.inbox
     ELSE c.sock # "open" /\ c.inbox = <<>>

\* Row c is new.
Mounts(c) ==
  c.status = c.prop.status /\ c.first = c.prop.status /\ c.inbox = <<>> /\ c.sock # "open"

LEMMA CommitDraws ==
  ASSUME IInv, NEW v \in Lists \cup {None}, NEW j \in Jobs, hook[j] # None,
         NEW row \in Row
  PROVE  LET c == Committed([hook[j] EXCEPT !.prop = row], v)
         IN c \in Hook /\ c.prop = row /\ Drawn(c) /\ Stays(hook[j], c)
<1> DEFINE h == [hook[j] EXCEPT !.prop = row]
           c == Committed(h, v)
<1>1. hook[j] \in Hook BY DEF IInv, TypeOK
<1>2. /\ h \in Hook
      /\ h.prop = row /\ h.status = hook[j].status /\ h.prog = hook[j].prog /\ h.first = hook[j].first
      /\ h.ran = hook[j].ran /\ h.sock = hook[j].sock /\ h.inbox = hook[j].inbox
  BY <1>1 DEF Hook
<1> HIDE DEF h
<1>3. /\ c \in Hook
      /\ c.prop = h.prop /\ c.status = h.status /\ c.prog = h.prog /\ c.first = h.first
      /\ c.ran.active <=> h.prop.status = "active"
      /\ c.ran.status = h.status /\ c.ran.prog = h.prog
      /\ \/ /\ h.ran.active <=> h.prop.status = "active"
            /\ h.ran.status = h.status
            /\ c.sock = h.sock /\ c.inbox = h.inbox
         \/ /\ ~((h.ran.active <=> h.prop.status = "active") /\ h.ran.status = h.status)
            /\ c.inbox = <<>>
            /\ c.sock = IF h.prop.status = "active" /\ h.status \notin Terminal
                        THEN "opening" ELSE "none"
  BY <1>2, CommitEffect
<1>4. /\ hook[j].sock \in {"opening", "open"} => hook[j].ran.active /\ hook[j].ran.status \notin Terminal
      /\ hook[j].inbox # <<>> => hook[j].sock = "open"
  BY DEF IInv, HooksHaveShape
<1> HIDE DEF c
<1>5. Drawn(c) BY <1>2, <1>3, <1>4 DEF Drawn
<1>6. Stays(hook[j], c) BY <1>2, <1>3 DEF Stays
<1> QED BY <1>2, <1>3, <1>5, <1>6 DEF c, h

LEMMA MountDraws ==
  ASSUME NEW v \in Lists \cup {None}, NEW row \in Row
  PROVE  LET c == Committed(Mounted(row), v)
         IN c \in Hook /\ c.prop = row /\ Drawn(c) /\ Mounts(c)
<1> DEFINE h == Mounted(row)
           c == Committed(h, v)
<1>1. /\ h \in Hook /\ h.prop = row /\ h.status = row.status /\ h.first = row.status
      /\ h.sock = "none" /\ h.inbox = <<>>
  BY MountedType
<1> HIDE DEF h
<1>2. /\ c \in Hook
      /\ c.prop = h.prop /\ c.status = h.status /\ c.prog = h.prog /\ c.first = h.first
      /\ c.ran.active <=> h.prop.status = "active"
      /\ c.ran.status = h.status /\ c.ran.prog = h.prog
      /\ \/ c.sock = h.sock /\ c.inbox = h.inbox
         \/ /\ c.inbox = <<>>
            /\ c.sock = IF h.prop.status = "active" /\ h.status \notin Terminal
                        THEN "opening" ELSE "none"
  BY <1>1, CommitEffect
<1> HIDE DEF c
<1>3. Drawn(c) /\ Mounts(c) BY <1>1, <1>2 DEF Drawn, Mounts
<1> QED BY <1>1, <1>2, <1>3 DEF c, h

\* Every row of the list is drawn with the job that the list has.
LEMMA RenderDraws ==
  ASSUME IInv, NEW v \in Lists \cup {None}, NEW keep \in BOOLEAN, NEW j \in Jobs
  PROVE  LET c == Rendered(v, keep)[j]
         IN /\ Rendered(v, keep) \in [Jobs -> Hook \cup {None}]
            /\ Listed(v)[j] = None => c = None
            /\ Listed(v)[j] # None =>
                 /\ c # None /\ v \in Lists /\ cache[v].rows # None
                 /\ cache[v].rows[j] # None /\ c.prop = cache[v].rows[j] /\ Drawn(c)
                 /\ IF keep /\ hook[j] # None THEN Stays(hook[j], c) ELSE Mounts(c)
<1> DEFINE row == Listed(v)[j]
           c == Rendered(v, keep)[j]
<1>1. TypeOK BY DEF IInv
<1>2. /\ row \in Row \cup {None}
      /\ row # None => v # None /\ cache[v].rows # None /\ row = cache[v].rows[j]
  BY <1>1, ListedType
<1>3. /\ Rendered(v, keep) \in [Jobs -> Hook \cup {None}]
      /\ row = None => c = None
  BY <1>1, RenderEffect
<1> HIDE DEF row
<1>4. CASE row # None /\ keep /\ hook[j] # None
  <2>1. [hook[j] EXCEPT !.prop = row] \in Hook /\ c = Committed([hook[j] EXCEPT !.prop = row], v)
    BY <1>1, <1>4, RenderEffect DEF row
  <2>2. c \in Hook /\ c.prop = row /\ Drawn(c) /\ Stays(hook[j], c)
    <3> HIDE DEF c
    <3> QED BY <1>2, <1>4, <2>1, CommitDraws
  <2> QED BY <1>2, <1>3, <1>4, <2>2, NoneIsNoRecord DEF row
<1>5. CASE row # None /\ ~(keep /\ hook[j] # None)
  <2>1. c = Committed(Mounted(row), v) BY <1>1, <1>5, RenderEffect DEF row
  <2>2. c \in Hook /\ c.prop = row /\ Drawn(c) /\ Mounts(c)
    <3> HIDE DEF c
    <3> QED BY <1>2, <1>5, <2>1, MountDraws
  <2> QED BY <1>2, <1>3, <1>5, <2>2, NoneIsNoRecord DEF row
<1>6. CASE row = None BY <1>3, <1>6 DEF row
<1> QED BY <1>4, <1>5, <1>6

\* Row i has been drawn anew on list v, with the job that the list has or, if only this
\* row was rendered, with the job it had.
DrawnOn(v, i) ==
  /\ Drawn(hook'[i])
  /\ \/ hook[i] # None /\ Stays(hook[i], hook'[i])
     \/ Mounts(hook'[i])
  /\ \/ cache[v].rows[i] # None /\ hook'[i].prop = cache[v].rows[i]
     \/ hook[i] # None /\ view = v /\ hook'[i].prop = hook[i].prop

\* The rows are drawn on list v and write back to it.
Draws(v) ==
  /\ view' = v /\ hook' \in [Jobs -> Hook \cup {None}] /\ cache' = WriteBack(v, hook')
  /\ UNCHANGED <<job, bus, upsets>> /\ looks' \in 0..MaxLooks
  /\ fetch' \in [Lists -> Fetch]
  /\ \A l \in Lists : fetch'[l].rows = fetch[l].rows /\ (fetch'[l].at = "read" => fetch[l].at = "read")
  /\ \A i \in Jobs :
       hook'[i] # None =>
         /\ v \in Lists /\ cache[v].rows # None
         /\ (view = v /\ hook'[i] = hook[i]) \/ DrawnOn(v, i)

\* What a step that draws rows finds and leaves in the cache.
LEMMA DrawsEffect ==
  ASSUME IInv, NEW v \in Lists \cup {None}, Draws(v)
  PROVE  /\ cache' \in [Lists -> Cached]
         /\ \A l \in Lists :
              /\ cache'[l].got = cache[l].got /\ (cache'[l].bad => cache[l].bad)
              /\ cache'[l].rows = None <=> cache[l].rows = None
         /\ \A l \in Lists, j \in Jobs :
              cache[l].rows # None =>
                /\ cache'[l].rows[j] = None <=> cache[l].rows[j] = None
                /\ cache[l].rows[j] # None =>
                     /\ cache'[l].rows[j].out = cache[l].rows[j].out
                     /\ \/ cache'[l].rows[j] = cache[l].rows[j] /\ ~(l = v /\ Writes(hook[j], hook'[j]))
                        \/ /\ l = v /\ Writes(hook[j], hook'[j])
                           /\ hook'[j] # None /\ hook'[j].ran.active /\ DrawnOn(v, j)
                           /\ cache'[l].rows[j].status = hook'[j].ran.status
<1>1. TypeOK BY DEF IInv
<1>2. \A j \in Jobs : Writes(hook[j], hook'[j]) => hook'[j] # None /\ hook'[j].ran.active /\ DrawnOn(v, j)
  BY NoneIsNoRecord DEF Draws, Writes
<1>3. \A j \in Jobs : Writes(hook[j], hook'[j]) => hook'[j].ran.status \in Statuses
  <2> SUFFICES ASSUME NEW j \in Jobs, Writes(hook[j], hook'[j]) PROVE hook'[j].ran.status \in Statuses
    OBVIOUS
  <2>1. hook'[j] \in Hook BY <1>2 DEF Draws
  <2>2. hook'[j].status \in Statuses BY <2>1 DEF Hook
  <2> QED BY <1>2, <2>2 DEF DrawnOn, Drawn
<1>4. hook' \in [Jobs -> Hook \cup {None}] /\ cache' = WriteBack(v, hook') BY DEF Draws
<1> DEFINE new == hook'
           c == cache'
<1> HIDE DEF new, c
<1>5. new \in [Jobs -> Hook \cup {None}] /\ c = WriteBack(v, new) BY <1>4 DEF new, c
<1>6. \A j \in Jobs : Writes(hook[j], new[j]) => new[j].ran.status \in Statuses BY <1>3 DEF new
<1>7. /\ c \in [Lists -> Cached]
      /\ \A l \in Lists :
           /\ c[l].got = cache[l].got /\ (c[l].bad => cache[l].bad)
           /\ c[l].rows = None <=> cache[l].rows = None
      /\ \A l \in Lists, j \in Jobs :
           cache[l].rows # None =>
             /\ c[l].rows[j] = None <=> cache[l].rows[j] = None
             /\ cache[l].rows[j] # None =>
                  /\ c[l].rows[j].out = cache[l].rows[j].out
                  /\ \/ c[l].rows[j] = cache[l].rows[j] /\ ~(l = v /\ Writes(hook[j], new[j]))
                     \/ /\ l = v /\ Writes(hook[j], new[j])
                        /\ c[l].rows[j].status = new[j].ran.status
  BY <1>1, <1>5, <1>6, WriteEffect
<1> QED BY <1>2, <1>7 DEF new, c

LEMMA DrawsIsSound ==
  ASSUME IInv, NEW v \in Lists \cup {None}, Draws(v)
  PROVE  /\ TypeOK' /\ JobsAreSound' /\ PendingIsFirst' /\ EventsAreSound' /\ ListsAreSound'
         /\ HooksAreSound' /\ ListsHaveShape' /\ HooksHaveShape'
<1>1. /\ view' = v /\ hook' \in [Jobs -> Hook \cup {None}]
      /\ UNCHANGED <<job, bus, upsets>> /\ looks' \in 0..MaxLooks
      /\ fetch' \in [Lists -> Fetch]
      /\ \A l \in Lists : fetch'[l].rows = fetch[l].rows /\ (fetch'[l].at = "read" => fetch[l].at = "read")
      /\ \A i \in Jobs :
           hook'[i] # None =>
             /\ v \in Lists /\ cache[v].rows # None
             /\ (view = v /\ hook'[i] = hook[i]) \/ DrawnOn(v, i)
  BY DEF Draws
<1>2. /\ cache' \in [Lists -> Cached]
      /\ \A l \in Lists :
           /\ cache'[l].got = cache[l].got /\ (cache'[l].bad => cache[l].bad)
           /\ cache'[l].rows = None <=> cache[l].rows = None
      /\ \A l \in Lists, j \in Jobs :
           cache[l].rows # None =>
             /\ cache'[l].rows[j] = None <=> cache[l].rows[j] = None
             /\ cache[l].rows[j] # None =>
                  /\ cache'[l].rows[j].out = cache[l].rows[j].out
                  /\ \/ cache'[l].rows[j] = cache[l].rows[j]
                     \/ hook'[j] # None /\ cache'[l].rows[j].status = hook'[j].ran.status
  BY DrawsEffect
<1>3. TypeOK' BY <1>1, <1>2 DEF IInv, TypeOK
<1>4. JobsAreSound' /\ PendingIsFirst' BY <1>1 DEF IInv, JobsAreSound, PendingIsFirst, Sound, Been
<1>5. EventsAreSound'
  <2>1. ASSUME NEW i \in Jobs, hook'[i] # None, NEW m \in 1..Len(hook'[i].inbox)
        PROVE  Been(i, Says(hook'[i].inbox[m]))
    <3>1. hook'[i].inbox = <<>> \/ (hook[i] # None /\ hook'[i].inbox = hook[i].inbox)
      BY <1>1, <2>1 DEF DrawnOn, Stays, Mounts
    <3>2. hook'[i].inbox # <<>> BY <2>1
    <3> QED BY <2>1, <3>1, <3>2 DEF IInv, EventsAreSound
  <2> QED BY <1>1, <2>1 DEF IInv, EventsAreSound, Been, Says
<1>6. HooksAreSound'
  <2> SUFFICES ASSUME NEW i \in Jobs, hook'[i] # None
               PROVE  Sound(i, hook'[i].prop) /\ Been(i, hook'[i].status) /\ Been(i, hook'[i].ran.status)
    BY <1>1 DEF HooksAreSound, Sound, Been
  <2>1. hook[i] # None => Sound(i, hook[i].prop) /\ Been(i, hook[i].status) /\ Been(i, hook[i].ran.status)
    BY DEF IInv, HooksAreSound
  <2>2. CASE hook'[i] = hook[i] BY <2>1, <2>2
  <2>3. CASE DrawnOn(v, i)
    <3>1. Sound(i, hook'[i].prop)
      <4>1. CASE cache[v].rows[i] # None /\ hook'[i].prop = cache[v].rows[i]
        BY <1>1, <4>1 DEF IInv, ListsAreSound
      <4>2. CASE hook[i] # None /\ hook'[i].prop = hook[i].prop BY <2>1, <4>2
      <4> QED BY <2>3, <4>1, <4>2 DEF DrawnOn
    <3>2. Been(i, hook'[i].status) BY <2>1, <2>3, <3>1 DEF DrawnOn, Stays, Mounts, Sound
    <3>3. hook'[i].ran.status = hook'[i].status BY <2>3 DEF DrawnOn, Drawn
    <3> QED BY <3>1, <3>2, <3>3
  <2> QED BY <1>1, <2>2, <2>3
<1>7. ListsAreSound'
  <2>1. ASSUME NEW l \in Lists, NEW j \in Jobs, cache'[l].rows # None, cache'[l].rows[j] # None
        PROVE  Sound(j, cache'[l].rows[j])
    <3>1. cache[l].rows # None /\ cache[l].rows[j] # None /\ Sound(j, cache[l].rows[j])
      BY <1>2, <2>1 DEF IInv, ListsAreSound
    <3>2. /\ cache'[l].rows[j].out = cache[l].rows[j].out
          /\ \/ cache'[l].rows[j] = cache[l].rows[j]
             \/ hook'[j] # None /\ cache'[l].rows[j].status = hook'[j].ran.status
      BY <1>2, <3>1
    <3>3. hook'[j] # None => Been(j, hook'[j].ran.status) BY <1>1, <1>6 DEF HooksAreSound, Been
    <3> QED BY <3>1, <3>2, <3>3 DEF Sound
  <2> QED BY <1>1, <1>2, <2>1 DEF IInv, ListsAreSound, Sound, Been
<1>8. ListsHaveShape' BY <1>1, <1>2 DEF IInv, ListsHaveShape
<1>9. HooksHaveShape'
  <2> SUFFICES ASSUME NEW j \in Jobs, hook'[j] # None
               PROVE  /\ view' # None /\ cache'[view'].rows # None
                      /\ hook'[j].ran.active <=> hook'[j].prop.status = "active"
                      /\ hook'[j].sock \in {"opening", "open"} =>
                           hook'[j].ran.active /\ hook'[j].ran.status \notin Terminal
                      /\ hook'[j].inbox # <<>> => hook'[j].sock = "open"
                      /\ "pending" \in {hook'[j].status, hook'[j].ran.status} => hook'[j].first = "pending"
    BY DEF HooksHaveShape
  <2>1. view' # None /\ cache'[view'].rows # None BY <1>1, <1>2, ListsAssumption
  <2>2. hook[j] # None =>
          /\ hook[j].ran.active <=> hook[j].prop.status = "active"
          /\ hook[j].sock \in {"opening", "open"} => hook[j].ran.active /\ hook[j].ran.status \notin Terminal
          /\ hook[j].inbox # <<>> => hook[j].sock = "open"
          /\ "pending" \in {hook[j].status, hook[j].ran.status} => hook[j].first = "pending"
    BY DEF IInv, HooksHaveShape
  <2>3. CASE hook'[j] = hook[j] BY <2>1, <2>2, <2>3
  <2>4. CASE DrawnOn(v, j) BY <2>1, <2>2, <2>4 DEF DrawnOn, Drawn, Stays, Mounts
  <2> QED BY <1>1, <2>3, <2>4
<1> QED BY <1>3, <1>4, <1>5, <1>6, <1>7, <1>8, <1>9

\* A row that writes has a job at work, so the list that it is drawn on is not waiting
\* for an answer that is older.
LEMMA DrawsInOrder ==
  ASSUME IInv, NEW v \in Lists \cup {None}, Draws(v)
  PROVE  NotPendingAgain' /\ BusInOrder' /\ InboxInOrder'
<1>1. /\ view' = v /\ UNCHANGED <<job, bus, upsets>>
      /\ \A l \in Lists : fetch'[l].rows = fetch[l].rows /\ (fetch'[l].at = "read" => fetch[l].at = "read")
      /\ \A i \in Jobs :
           hook'[i] # None =>
             /\ v \in Lists /\ cache[v].rows # None
             /\ (view = v /\ hook'[i] = hook[i]) \/ DrawnOn(v, i)
  BY DEF Draws
<1>2. \A l \in Lists : cache'[l].rows = None <=> cache[l].rows = None BY DrawsEffect
<1>3. ASSUME NEW l \in Lists, NEW j \in Jobs, cache[l].rows # None
      PROVE  /\ cache'[l].rows[j] = None <=> cache[l].rows[j] = None
             /\ cache[l].rows[j] # None =>
                  \/ cache'[l].rows[j] = cache[l].rows[j] /\ ~(l = v /\ Writes(hook[j], hook'[j]))
                  \/ /\ l = v /\ hook'[j] # None /\ hook'[j].ran.active /\ DrawnOn(v, j)
                     /\ cache'[l].rows[j].status = hook'[j].ran.status
  BY <1>3, DrawsEffect
<1>4. \A l \in Lists, j \in Jobs : Belated(l, j)' => Belated(l, j) BY <1>1 DEF Belated
<1>5. ASSUME NEW l \in Lists, NEW j \in Jobs, Belated(l, j), cache'[l].rows # None, cache'[l].rows[j] # None
      PROVE  cache'[l].rows[j].status = "pending"
  <2>1. cache[l].rows # None /\ cache[l].rows[j] # None /\ cache[l].rows[j].status = "pending"
    BY <1>2, <1>3, <1>5 DEF IInv, NotPendingAgain
  <2>2. CASE cache'[l].rows[j] = cache[l].rows[j] BY <2>1, <2>2
  <2>3. CASE l = v /\ hook'[j].ran.active /\ DrawnOn(v, j)
    <3>1. hook'[j].prop.status = "active" BY <2>3 DEF DrawnOn, Drawn
    <3>2. hook[j] # None /\ view = v /\ hook'[j].prop = hook[j].prop BY <2>1, <2>3, <3>1 DEF DrawnOn
    <3>3. ~Belated(view, j) BY <3>1, <3>2 DEF IInv, NotPendingAgain
    <3> QED BY <1>5, <2>3, <3>2, <3>3
  <2> QED BY <1>3, <2>1, <2>2, <2>3
<1>6. ASSUME NEW j \in Jobs, hook'[j] # None, hook'[j].prop.status # "pending"
      PROVE  /\ ~Belated(v, j)
             /\ cache'[v].rows[j] # None /\ cache'[v].rows[j].status = "pending" =>
                  hook'[j].ran.active /\ hook'[j].ran.status = "pending"
  <2>1. v \in Lists /\ cache[v].rows # None BY <1>1, <1>6
  <2>2. hook[j] # None /\ view = v /\ hook[j].prop.status # "pending" =>
          /\ ~Belated(v, j)
          /\ cache[v].rows[j] # None /\ cache[v].rows[j].status = "pending" =>
               hook[j].ran.active /\ hook[j].ran.status = "pending"
    BY DEF IInv, NotPendingAgain
  <2>3. /\ cache'[v].rows[j] = None <=> cache[v].rows[j] = None
        /\ cache[v].rows[j] # None =>
             \/ cache'[v].rows[j] = cache[v].rows[j] /\ ~Writes(hook[j], hook'[j])
             \/ hook'[j].ran.active /\ cache'[v].rows[j].status = hook'[j].ran.status
    BY <1>3, <2>1
  <2>4. CASE view = v /\ hook'[j] = hook[j] BY <1>6, <2>2, <2>3, <2>4
  <2>5. CASE /\ DrawnOn(v, j) /\ cache[v].rows[j] # None /\ hook'[j].prop = cache[v].rows[j]
    <3>1. ~Belated(v, j) BY <1>6, <2>1, <2>5 DEF IInv, NotPendingAgain
    <3> QED BY <1>6, <2>3, <2>5, <3>1
  <2>6. CASE DrawnOn(v, j) /\ hook[j] # None /\ view = v /\ hook'[j].prop = hook[j].prop
    <3>1. hook'[j].ran.active <=> hook[j].ran.active
      BY <2>6 DEF DrawnOn, Drawn, IInv, HooksHaveShape
    <3>2. ~Writes(hook[j], hook'[j]) /\ hook'[j].ran.active => hook'[j].ran = hook[j].ran
      BY <1>6, <2>6 DEF Writes
    <3> QED BY <1>6, <2>2, <2>3, <2>6, <3>1, <3>2
  <2> QED BY <1>1, <1>6, <2>4, <2>5, <2>6 DEF DrawnOn
<1>7. NotPendingAgain'
  <2>1. \A l \in Lists, j \in Jobs :
          Belated(l, j)' /\ cache'[l].rows # None /\ cache'[l].rows[j] # None
          => cache'[l].rows[j].status = "pending"
    BY <1>4, <1>5
  <2>2. \A j \in Jobs :
          hook'[j] # None /\ hook'[j].prop.status # "pending" =>
            /\ v \in Lists /\ ~Belated(v, j)'
            /\ cache'[v].rows[j] # None /\ cache'[v].rows[j].status = "pending" =>
                 hook'[j].ran.active /\ hook'[j].ran.status = "pending"
    BY <1>1, <1>4, <1>6
  <2> QED BY <1>1, <2>1, <2>2 DEF NotPendingAgain, Belated
<1>8. BusInOrder' BY <1>1 DEF IInv, BusInOrder, Smooth, Been, EventOf
<1>9. InboxInOrder'
  <2> SUFFICES ASSUME NEW j \in Jobs, Smooth(j), hook'[j] # None
               PROVE  /\ \A i \in 1..Len(hook'[j].inbox) :
                           /\ hook'[j].inbox[i].type = "completed" =>
                                job[j].pc = "done" /\ NoneOnBus(j) /\ i = Len(hook'[j].inbox)
                           /\ hook'[j].inbox[i].type = "progress" /\ job[j].pc = "done" =>
                                \/ \E k \in (i + 1)..Len(hook'[j].inbox) : hook'[j].inbox[k].type = "completed"
                                \/ \E k \in 1..Len(bus) : EventOf(j, bus[k], "completed")
                      /\ hook'[j].status = "completed" /\ hook'[j].sock = "open" =>
                           job[j].pc = "done" /\ NoneOnBus(j) /\ hook'[j].inbox = <<>>
                      /\ ~Current(hook'[j]) =>
                           hook'[j].sock = "open" /\ (hook'[j].status = "active" => EndComing(j)')
    <3>1. \A j \in Jobs : Smooth(j)' <=> Smooth(j) BY <1>1 DEF Smooth, Been
    <3> QED BY <1>1, <3>1 DEF InboxInOrder, Current, NoneOnBus, EventOf
  <2>1. hook[j] # None =>
          /\ \A i \in 1..Len(hook[j].inbox) :
               /\ hook[j].inbox[i].type = "completed" =>
                    job[j].pc = "done" /\ NoneOnBus(j) /\ i = Len(hook[j].inbox)
               /\ hook[j].inbox[i].type = "progress" /\ job[j].pc = "done" =>
                    \/ \E k \in (i + 1)..Len(hook[j].inbox) : hook[j].inbox[k].type = "completed"
                    \/ \E k \in 1..Len(bus) : EventOf(j, bus[k], "completed")
          /\ hook[j].status = "completed" /\ hook[j].sock = "open" =>
               job[j].pc = "done" /\ NoneOnBus(j) /\ hook[j].inbox = <<>>
          /\ ~Current(hook[j]) =>
               hook[j].sock = "open" /\ (hook[j].status = "active" => EndComing(j))
    BY DEF IInv, InboxInOrder
  <2>2. CASE hook'[j] = hook[j]
    <3>1. EndComing(j) => EndComing(j)' BY <1>1, <2>2 DEF EndComing, EventOf
    <3> QED BY <2>1, <2>2, <3>1
  <2>3. CASE DrawnOn(v, j)
    <3>1. Current(hook'[j]) BY <2>3 DEF DrawnOn, Drawn, Current
    <3>2. \/ hook'[j].inbox = <<>> /\ hook'[j].sock # "open"
          \/ /\ hook[j] # None /\ hook'[j].inbox = hook[j].inbox /\ hook'[j].sock = hook[j].sock
             /\ hook'[j].status = hook[j].status
      BY <2>3 DEF DrawnOn, Stays, Mounts
    <3> QED BY <2>1, <3>1, <3>2
  <2> QED BY <1>1, <2>2, <2>3
<1> QED BY <1>7, <1>8, <1>9

\* What the writer of an overwritten answer hears it goes on hearing when it is drawn.
LEMMA DrawnHears ==
  ASSUME IInv, UNCHANGED <<job, bus>>, NEW j \in Jobs, Smooth(j), hook[j] # None, hook[j].first # "pending",
         hook'[j] # None, Stays(hook[j], hook'[j]),
         hook[j].sock = "open" => hook'[j].prop.status = "active", Hears(j)
  PROVE  /\ hook'[j].first # "pending" /\ Hears(j)'
         /\ hook'[j].status \in {"active", "completed"}
<1>1. /\ Been(j, hook[j].status) /\ Been(j, hook[j].ran.status)
      /\ ~Been(j, "failed")
      /\ hook[j].status # "pending" /\ hook[j].ran.status # "pending"
      /\ hook[j].sock = "open" => hook[j].ran.active /\ hook[j].ran.status \notin Terminal
      /\ job[j].was \subseteq Row
  BY DEF IInv, HooksAreSound, HooksHaveShape, Smooth, TypeOK, Job
<1>2. \A s : Been(j, s) => s \in Statuses BY <1>1 DEF Been, Row
<1>3. hook[j].status \in {"active", "completed"} BY <1>1, <1>2 DEF Statuses
<1>4. hook[j].sock = "open" => hook[j].ran.status = "active" /\ hook[j].ran.active
  BY <1>1, <1>2 DEF Statuses, Terminal
<1>5. /\ hook'[j].status = hook[j].status /\ hook'[j].first = hook[j].first
      /\ hook[j].sock = "open" /\ hook[j].status = "active" =>
           hook'[j].sock = "open" /\ hook'[j].inbox = hook[j].inbox
  BY <1>4 DEF Stays
<1>6. hook[j].sock = "open" /\ hook[j].status = "active" /\ EndComing(j) => EndComing(j)'
  BY <1>5 DEF EndComing, EventOf
<1> QED BY <1>3, <1>5, <1>6 DEF Hears

LEMMA CommitRowIsSafe ==
  ASSUME IInv, NEW j \in Jobs, CommitRow(j)
  PROVE  IInv'
<1> DEFINE h == hook[j]
           c == Committed(h, view)
<1>1. /\ h # None /\ ~Current(h) /\ hook' = [hook EXCEPT ![j] = c]
      /\ cache' = WriteBack(view, hook') /\ UNCHANGED <<job, bus, fetch, view, upsets, looks>>
      /\ hook \in [Jobs -> Hook \cup {None}] /\ h \in Hook /\ h.prop \in Row
      /\ view \in Lists /\ cache[view].rows # None
  BY DEF CommitRow, IInv, TypeOK, HooksHaveShape, Hook
<1>2. c \in Hook /\ c.prop = h.prop /\ Drawn(c) /\ Stays(h, c)
  <2>1. h = [h EXCEPT !.prop = h.prop] BY <1>1 DEF Hook
  <2>2. Committed([h EXCEPT !.prop = h.prop], view) = c BY <2>1
  <2> QED BY <1>1, <2>2, CommitDraws
<1> HIDE DEF c
<1>3. /\ hook' \in [Jobs -> Hook \cup {None}] /\ hook'[j] = c /\ c # None
      /\ \A i \in Jobs \ {j} : hook'[i] = hook[i]
  BY <1>1, <1>2, NoneIsNoRecord
<1>4. Draws(view)
  <2>1. DrawnOn(view, j) BY <1>1, <1>2, <1>3 DEF DrawnOn
  <2>2. looks' \in 0..MaxLooks /\ fetch' \in [Lists -> Fetch] BY <1>1 DEF IInv, TypeOK
  <2>3. \A i \in Jobs : hook'[i] # None => hook'[i] = hook[i] \/ DrawnOn(view, i) BY <1>3, <2>1
  <2> QED BY <1>1, <1>3, <2>2, <2>3 DEF Draws
<1>5. /\ TypeOK' /\ JobsAreSound' /\ PendingIsFirst' /\ EventsAreSound' /\ ListsAreSound'
      /\ HooksAreSound' /\ ListsHaveShape' /\ HooksHaveShape'
  BY <1>1, <1>4, DrawsIsSound
<1>6. NotPendingAgain' /\ BusInOrder' /\ InboxInOrder' BY <1>1, <1>4, DrawsInOrder
<1>7. WriterHears'
  <2> SUFFICES ASSUME NEW i \in Jobs, Smooth(i)', Overwritten(i)'
               PROVE  /\ hook'[i] # None
                      /\ hook'[i].first = "pending" \/ (cache'[view].rows[i].status = "active" /\ Hears(i)')
    BY <1>1 DEF WriterHears
  <2>1. Smooth(i) BY <1>1 DEF Smooth, Been
  <2>2. cache'[view].got = cache[view].got BY <1>1, <1>4, DrawsEffect
  <2>3. /\ fetch[view] = Idle /\ cache[view].got[i] # None /\ cache[view].got[i].status = "completed"
        /\ cache'[view].rows[i].status # "completed"
    BY <1>1, <2>2 DEF Overwritten
  <2>4. cache[view].rows[i] # None BY <1>1, <2>3 DEF IInv, ListsHaveShape
  <2>5. \/ cache'[view].rows[i] = cache[view].rows[i]
        \/ /\ Writes(hook[i], hook'[i])
           /\ cache'[view].rows[i].status = hook'[i].ran.status
    <3>1. view \in Lists /\ cache[view].rows # None BY <1>1
    <3> QED BY <1>4, <2>4, <3>1, DrawsEffect
  <2>6. cache'[view].rows[i] = cache[view].rows[i] =>
          /\ hook[i] # None
          /\ hook[i].first = "pending" \/ (cache[view].rows[i].status = "active" /\ Hears(i))
    BY <1>1, <2>1, <2>3 DEF IInv, WriterHears, Overwritten
  <2>7. CASE i # j
    <3>1. hook'[i] = hook[i] BY <1>3, <2>7
    <3>2. cache'[view].rows[i] = cache[view].rows[i] BY <2>5, <3>1 DEF Writes
    <3>3. Hears(i) => Hears(i)' BY <1>1, <3>1 DEF Hears, EndComing, EventOf
    <3> QED BY <2>6, <3>1, <3>2, <3>3
  <2>8. CASE i = j
    <3>1. /\ h.status = "pending" => h.first = "pending"
          /\ Been(j, h.status) /\ ~Been(j, "failed") /\ job[j].was \subseteq Row
          /\ h.sock = "open" /\ (h.status = "active" => EndComing(j))
          /\ h.ran.active /\ h.prop.status = "active"
      BY <1>1, <2>1, <2>8 DEF IInv, HooksHaveShape, HooksAreSound, InboxInOrder, Smooth, TypeOK, Job
    <3>2. h.status \in Statuses BY <3>1 DEF Been, Row
    <3>3. h.first = "pending" \/ Hears(j) BY <3>1, <3>2 DEF Hears, Statuses
    <3>4. CASE h.first = "pending" BY <1>2, <1>3, <2>8, <3>4 DEF Stays
    <3>5. CASE h.first # "pending"
      <4>1. Hears(j)' /\ c.status \in {"active", "completed"}
        BY <1>1, <1>2, <1>3, <2>1, <2>8, <3>1, <3>3, <3>5, DrawnHears
      <4>2. cache'[view].rows[j].status = "active"
        <5>1. CASE cache'[view].rows[i] = cache[view].rows[i] BY <2>6, <2>8, <3>5, <5>1
        <5>2. CASE cache'[view].rows[i].status = hook'[i].ran.status
          BY <1>2, <1>3, <2>3, <2>8, <4>1, <5>2 DEF Drawn
        <5> QED BY <2>5, <5>1, <5>2
      <4> QED BY <1>3, <2>8, <4>1, <4>2 DEF Hears, EndComing
    <3> QED BY <3>4, <3>5
  <2> QED BY <2>7, <2>8
<1> QED BY <1>5, <1>6, <1>7 DEF IInv

LEMMA RenderListIsSafe ==
  ASSUME IInv, RenderList
  PROVE  IInv'
<1>1. /\ hook' = Rendered(view, TRUE) /\ cache' = WriteBack(view, hook')
      /\ UNCHANGED <<job, bus, fetch, view, upsets, looks>>
      /\ view \in Lists \cup {None}
  BY DEF RenderList, IInv, TypeOK
<1>2. ASSUME NEW i \in Jobs
      PROVE  /\ Rendered(view, TRUE) \in [Jobs -> Hook \cup {None}]
             /\ Listed(view)[i] = None => hook'[i] = None
             /\ Listed(view)[i] # None =>
                  /\ hook'[i] # None /\ view \in Lists /\ cache[view].rows # None
                  /\ cache[view].rows[i] # None /\ hook'[i].prop = cache[view].rows[i] /\ Drawn(hook'[i])
                  /\ IF hook[i] # None THEN Stays(hook[i], hook'[i]) ELSE Mounts(hook'[i])
  BY <1>1, RenderDraws
<1>3. hook' \in [Jobs -> Hook \cup {None}]
  <2>1. CASE Jobs = {}
    <3>1. hook' = [i \in Jobs |-> None] BY <1>1, <2>1 DEF Rendered
    <3> QED BY <3>1
  <2>2. CASE Jobs # {} BY <1>1, <1>2, <2>2
  <2> QED BY <2>1, <2>2
<1>4. Draws(view)
  <2>1. looks' \in 0..MaxLooks /\ fetch' \in [Lists -> Fetch] BY <1>1 DEF IInv, TypeOK
  <2>2. \A i \in Jobs : hook'[i] # None => view \in Lists /\ cache[view].rows # None /\ DrawnOn(view, i)
    BY <1>2 DEF DrawnOn
  <2> QED BY <1>1, <1>3, <2>1, <2>2 DEF Draws
<1>5. /\ TypeOK' /\ JobsAreSound' /\ PendingIsFirst' /\ EventsAreSound' /\ ListsAreSound'
      /\ HooksAreSound' /\ ListsHaveShape' /\ HooksHaveShape'
  BY <1>1, <1>4, DrawsIsSound
<1>6. NotPendingAgain' /\ BusInOrder' /\ InboxInOrder' BY <1>1, <1>4, DrawsInOrder
<1>7. WriterHears'
  <2> SUFFICES ASSUME NEW i \in Jobs, Smooth(i)', Overwritten(i)'
               PROVE  /\ hook'[i] # None
                      /\ hook'[i].first = "pending" \/ (cache'[view].rows[i].status = "active" /\ Hears(i)')
    BY <1>1 DEF WriterHears
  <2>1. Smooth(i) /\ upsets = 0 BY <1>1 DEF Smooth, Been
  <2>2. /\ view \in Lists /\ fetch[view] = Idle /\ cache[view].rows # None
        /\ cache'[view].got = cache[view].got
    BY <1>1, <1>4, DrawsEffect DEF Overwritten
  <2>3. /\ cache[view].got[i] # None /\ cache[view].got[i].status = "completed"
        /\ cache'[view].rows[i].status # "completed"
    BY <1>1, <2>2 DEF Overwritten
  <2>4. cache[view].rows[i] # None /\ ~cache[view].bad BY <2>1, <2>2, <2>3 DEF IInv, ListsHaveShape
  <2>5. Listed(view)[i] = cache[view].rows[i] BY <2>2, <2>4, ListsAssumption DEF Listed
  <2>6. /\ hook'[i] # None /\ hook'[i].prop = cache[view].rows[i] /\ Drawn(hook'[i])
        /\ hook[i] # None => Stays(hook[i], hook'[i])
    BY <1>2, <2>4, <2>5
  <2>7. \/ cache'[view].rows[i] = cache[view].rows[i]
        \/ hook'[i].ran.active /\ cache'[view].rows[i].status = hook'[i].ran.status
    BY <1>1, <1>4, <2>2, <2>4, DrawsEffect
  <2>8. Overwritten(i) BY <2>2, <2>3, <2>6, <2>7, ListsAssumption DEF Overwritten, Drawn
  <2>9. /\ hook[i] # None
        /\ hook[i].first = "pending" \/ (cache[view].rows[i].status = "active" /\ Hears(i))
    BY <2>1, <2>8 DEF IInv, WriterHears
  <2>10. CASE hook[i].first = "pending" BY <2>6, <2>9, <2>10 DEF Stays
  <2>11. CASE hook[i].first # "pending"
    <3>1. Hears(i)' /\ hook'[i].status \in {"active", "completed"}
      BY <1>1, <2>1, <2>6, <2>9, <2>11, DrawnHears
    <3>2. cache'[view].rows[i].status = "active" BY <2>3, <2>6, <2>7, <2>9, <2>11, <3>1 DEF Drawn
    <3> QED BY <2>6, <3>1, <3>2
  <2> QED BY <2>10, <2>11
<1> QED BY <1>5, <1>6, <1>7 DEF IInv

LEMMA VisitIsSafe ==
  ASSUME IInv, NEW v \in Lists \cup {None}, Visit(v)
  PROVE  IInv'
<1> DEFINE keep == view \in Tabs /\ v \in Tabs
<1>1. /\ view' = v /\ hook' = Rendered(v, keep) /\ cache' = WriteBack(v, hook') /\ fetch' = Ask(v) /\ Look
      /\ UNCHANGED <<job, bus, upsets>> /\ keep \in BOOLEAN
  BY DEF Visit
<1> HIDE DEF keep
<1>2. ASSUME NEW i \in Jobs
      PROVE  /\ Rendered(v, keep) \in [Jobs -> Hook \cup {None}]
             /\ Listed(v)[i] = None => hook'[i] = None
             /\ Listed(v)[i] # None =>
                  /\ hook'[i] # None /\ v \in Lists /\ cache[v].rows # None
                  /\ cache[v].rows[i] # None /\ hook'[i].prop = cache[v].rows[i] /\ Drawn(hook'[i])
                  /\ IF keep /\ hook[i] # None THEN Stays(hook[i], hook'[i]) ELSE Mounts(hook'[i])
  BY <1>1, RenderDraws
<1>3. hook' \in [Jobs -> Hook \cup {None}]
  <2>1. CASE Jobs = {}
    <3>1. hook' = [i \in Jobs |-> None] BY <1>1, <2>1 DEF Rendered
    <3> QED BY <3>1
  <2>2. CASE Jobs # {} BY <1>1, <1>2, <2>2
  <2> QED BY <2>1, <2>2
<1>4. /\ fetch' \in [Lists -> Fetch]
      /\ \A l \in Lists : fetch'[l].rows = fetch[l].rows /\ (fetch'[l].at = "read" => fetch[l].at = "read")
      /\ v # None => fetch'[v] # Idle
  <2>1. fetch \in [Lists -> Fetch] BY DEF IInv, TypeOK
  <2>2. CASE v # None /\ fetch[v] = Idle
    <3>1. fetch' = [fetch EXCEPT ![v].at = "asked"] BY <1>1, <2>2 DEF Ask
    <3>2. Idle.at = "idle" BY DEF Idle
    <3> QED BY <2>1, <2>2, <3>1, <3>2 DEF Fetch
  <2>3. CASE ~(v # None /\ fetch[v] = Idle) BY <1>1, <2>1, <2>3 DEF Ask
  <2> QED BY <2>2, <2>3
<1>5. Draws(v)
  <2>1. looks' \in 0..MaxLooks BY <1>1, ListsAssumption DEF IInv, TypeOK, Look
  <2>2. \A i \in Jobs : hook'[i] # None => v \in Lists /\ cache[v].rows # None /\ DrawnOn(v, i)
    BY <1>2 DEF DrawnOn
  <2> QED BY <1>1, <1>3, <1>4, <2>1, <2>2 DEF Draws
<1>6. /\ TypeOK' /\ JobsAreSound' /\ PendingIsFirst' /\ EventsAreSound' /\ ListsAreSound'
      /\ HooksAreSound' /\ ListsHaveShape' /\ HooksHaveShape'
  BY <1>5, DrawsIsSound
<1>7. NotPendingAgain' /\ BusInOrder' /\ InboxInOrder' BY <1>5, DrawsInOrder
<1>8. WriterHears' BY <1>1, <1>4 DEF WriterHears, Overwritten, Idle
<1> QED BY <1>6, <1>7, <1>8 DEF IInv

-----------------------------------------------------------------------------
(***************************************************************************)
(* The invariant and what follows from it.                                 *)
(***************************************************************************)
LEMMA InitIsSafe ==
  ASSUME Init
  PROVE  IInv
<1> DEFINE k == [pc |-> "none", row |-> None, tries |-> 0, said |-> 0, tell |-> 0, was |-> {}]
           c == [rows |-> None, got |-> None, bad |-> FALSE]
<1>1. /\ 0 \in 0..MaxAttempts /\ 0 \in 0..Reports /\ 0 \in 0..MaxUpsets /\ 0 \in 0..MaxLooks
      /\ <<>> \in Seq(Event)
  BY ListsAssumption
<1>2. k \in Job /\ k.pc = "none" /\ k.row = None /\ k.tries = 0 /\ k.tell = 0 /\ k.was = {}
  BY <1>1 DEF Job
<1>3. c \in Cached /\ c.rows = None /\ c.got = None /\ c.bad = FALSE BY DEF Cached
<1>4. Idle \in Fetch /\ Idle.at = "idle" /\ Idle.rows = None BY DEF Idle, Fetch
<1> HIDE DEF k, c
<1>5. /\ job = [j \in Jobs |-> k] /\ bus = <<>> /\ cache = [v \in Lists |-> c]
      /\ fetch = [v \in Lists |-> Idle] /\ view = None /\ hook = [j \in Jobs |-> None]
      /\ upsets = 0 /\ looks = 0
  BY DEF Init, k, c
<1>6. TypeOK BY <1>1, <1>2, <1>3, <1>4, <1>5 DEF TypeOK
<1>7. \A j \in Jobs : job[j] = k /\ hook[j] = None BY <1>5
<1>8. \A v \in Lists : cache[v] = c /\ fetch[v] = Idle BY <1>5
<1>9. Len(bus) = 0 BY <1>5
<1>10. JobsAreSound /\ PendingIsFirst BY <1>2, <1>7 DEF JobsAreSound, PendingIsFirst
<1>11. EventsAreSound /\ BusInOrder /\ InboxInOrder /\ HooksAreSound /\ HooksHaveShape
  BY <1>7, <1>9 DEF EventsAreSound, BusInOrder, InboxInOrder, HooksAreSound, HooksHaveShape
<1>12. ListsAreSound /\ ListsHaveShape BY <1>3, <1>4, <1>8 DEF ListsAreSound, ListsHaveShape
<1>13. NotPendingAgain BY <1>4, <1>7, <1>8 DEF NotPendingAgain, Belated
<1>14. WriterHears BY <1>5 DEF WriterHears, Overwritten
<1> QED BY <1>6, <1>10, <1>11, <1>12, <1>13, <1>14 DEF IInv

LEMMA StutterIsSafe ==
  ASSUME IInv, UNCHANGED vars
  PROVE  IInv'
<1>1. UNCHANGED <<job, bus, cache, fetch, view, hook, upsets, looks>> BY DEF vars
<1>2. /\ JobsAreSound' /\ PendingIsFirst' /\ EventsAreSound' /\ HooksAreSound'
      /\ HooksHaveShape' /\ BusInOrder' /\ InboxInOrder'
      /\ \A j \in Jobs : /\ Smooth(j)' <=> Smooth(j)
                         /\ hook[j] # None => (Hears(j)' <=> Hears(j))
  BY <1>1, QueryEffect
<1>3. TypeOK' BY <1>1 DEF IInv, TypeOK
<1>4. ListsAreSound' /\ ListsHaveShape' BY <1>1 DEF IInv, ListsAreSound, ListsHaveShape, Sound, Been
<1>5. NotPendingAgain' BY <1>1 DEF IInv, NotPendingAgain, Belated
<1>6. WriterHears' BY <1>1, <1>2 DEF IInv, WriterHears, Overwritten
<1> QED BY <1>2, <1>3, <1>4, <1>5, <1>6 DEF IInv

LEMMA StepIsSafe ==
  ASSUME IInv, [Next]_vars
  PROVE  IInv'
<1>1. ASSUME NEW j \in Jobs, Create(j) \/ Cancel(j) \/ WorkerStep(j) \/ Failed(j) PROVE IInv'
  BY <1>1, ServerStepIsSafe DEF ServerStep
<1>2. CASE Broadcast BY <1>2, BroadcastIsSafe
<1>3. CASE LoseEvent BY <1>3, LoseEventIsSafe
<1>4. ASSUME NEW j \in Jobs, RowStep(j) \/ Lose(j) PROVE IInv'
  BY <1>4, CommitRowIsSafe, OpenedIsSafe, ReceiveIsSafe, LoseIsSafe DEF RowStep
<1>5. CASE RenderList BY <1>5, RenderListIsSafe
<1>6. ASSUME NEW v \in Lists, QueryStep(v) \/ FetchFails(v) PROVE IInv'
  BY <1>6, ReadIsSafe, AnswerIsSafe, FetchFailsIsSafe DEF QueryStep
<1>7. ASSUME NEW v \in Lists \cup {None}, Visit(v) PROVE IInv' BY <1>7, VisitIsSafe
<1>8. CASE Focus BY <1>8, FocusIsSafe
<1>9. CASE UNCHANGED vars BY <1>9, StutterIsSafe
<1> QED BY <1>1, <1>2, <1>3, <1>4, <1>5, <1>6, <1>7, <1>8, <1>9 DEF Next

\* In every state of a behaviour the jobs, the events, the lists and the rows agree in
\* the way that the other theorems draw on.
THEOREM Invariance == Spec => []IInv
<1>1. Init => IInv BY InitIsSafe
<1>2. IInv /\ [Next]_vars => IInv' BY StepIsSafe
<1> QED BY <1>1, <1>2, PTL DEF Spec

\* Every value the lists, the rows and the jobs take is one that the types allow: a
\* job that fails in the announcement of its end is told to have failed no more often
\* than it was tried.
THEOREM TypeCorrect == Spec => []TypeOK
<1>1. IInv => TypeOK BY DEF IInv
<1> QED BY <1>1, Invariance, PTL

\* An end that a row shows, or an output that it offers, was in the job's row.
THEOREM ShownEndsWereCommitted == Spec => []ShownEndIsCommitted
<1>1. ASSUME IInv PROVE ShownEndIsCommitted
  <2> SUFFICES ASSUME NEW j \in Jobs, hook[j] # None
               PROVE  /\ Shown(j) \in Terminal => \E r \in job[j].was : r.status = Shown(j)
                      /\ hook[j].prop.out # 0 =>
                           \E r \in job[j].was : r.status = "completed" /\ r.out = hook[j].prop.out
    BY DEF ShownEndIsCommitted
  <2>1. Sound(j, hook[j].prop) /\ Been(j, hook[j].ran.status) BY <1>1 DEF IInv, HooksAreSound
  <2> QED BY <2>1 DEF Sound, Been, Shown
<1> QED BY <1>1, Invariance, PTL

\* When all is quiet, a row that its list was answered an end for shows it and offers
\* the output.
THEOREM AnsweredEndsStand == Spec => []AnsweredEndStands
<1>1. ASSUME IInv PROVE AnsweredEndStands
  <2> SUFFICES ASSUME NEW j \in Jobs, Quiet(j), Straight(j), upsets = 0, hook[j].first # "pending",
                      cache[view].got[j] # None, cache[view].got[j].status = "completed"
               PROVE  Offered(j)
    BY DEF AnsweredEndStands
  <2> DEFINE h == hook[j]
             row == cache[view].rows[j]
  <2>1. /\ job[j].pc = "done" /\ \A i \in 1..Len(bus) : bus[i].job # j
        /\ h # None /\ h.inbox = <<>> /\ Current(h) /\ Listed(view)[j] = h.prop /\ fetch[view] = Idle
    BY DEF Quiet, Outdated
  <2>2. h \in Hook /\ h.prop \in Row /\ h.prop # None BY <1>1, <2>1, NoneIsNoRecord DEF IInv, TypeOK, Hook
  <2>3. view \in Lists /\ cache[view].rows # None /\ h.prop = row
    <3>1. view \in Lists \cup {None} /\ TypeOK BY <1>1 DEF IInv, TypeOK
    <3>2. /\ view # None /\ cache[view].rows # None
          /\ Listed(view)[j] = cache[view].rows[j]
      BY <2>1, <2>2, <3>1, ListedType
    <3> QED BY <2>1, <3>1, <3>2
  <2>4. h.prop.out # 0
    <3>1. h.prop.out = cache[view].got[j].out BY <1>1, <2>2, <2>3 DEF IInv, ListsHaveShape
    <3>2. cache[view].got # None BY <1>1, <2>3 DEF IInv, ListsHaveShape
    <3>3. cache[view].got[j] \in job[j].was BY <1>1, <2>3, <3>2 DEF IInv, ListsAreSound
    <3> QED BY <1>1, <3>1, <3>3 DEF IInv, JobsAreSound
  <2>5. h.ran.active <=> h.prop.status = "active" BY <1>1, <2>1 DEF IInv, HooksHaveShape
  <2>6. CASE row.status = "completed" BY <2>3, <2>4, <2>5, <2>6 DEF Offered, Shown
  <2>7. CASE row.status # "completed"
    <3>1. Smooth(j) BY DEF Straight, Smooth, Been
    <3>2. Overwritten(j) BY <2>1, <2>3, <2>7, ListsAssumption DEF Overwritten
    <3>3. row.status = "active" /\ Hears(j) BY <1>1, <3>1, <3>2 DEF IInv, WriterHears
    <3>4. ~EndComing(j)
      <4>1. Len(h.inbox) = 0 BY <2>1
      <4> QED BY <2>1, <4>1 DEF EndComing, EventOf
    <3>5. h.status = "completed" BY <3>3, <3>4 DEF Hears
    <3>6. h.ran.active /\ h.ran.status = "completed" BY <2>1, <2>3, <2>5, <3>3, <3>5 DEF Current
    <3> QED BY <2>4, <3>6 DEF Offered, Shown
  <2> QED BY <2>6, <2>7
<1> QED BY <1>1, Invariance, PTL

\* A step that does not draw a row leaves what it shows.
LEMMA ShownStays ==
  ASSUME NEW j \in Jobs, hook'[j].prop = hook[j].prop, hook'[j].ran = hook[j].ran
  PROVE  Shown(j)' = Shown(j)
BY DEF Shown

\* A row that was told the end goes on showing it, whatever answer or event comes late,
\* unless another list is shown or the job is failed or tried again.
THEOREM EndsAreNotTakenBack == Spec => EndNotTakenBack
<1> DEFINE Kept ==
             \A j \in Jobs :
               hook[j] # None /\ hook'[j] # None /\ view' = view /\ Straight(j)'
               /\ hook[j].status = "completed" /\ Shown(j) = "completed"
               => Shown(j)' = "completed"
<1>1. ASSUME IInv, IInv', [Next]_vars PROVE Kept
  <2> SUFFICES ASSUME NEW j \in Jobs, hook[j] # None, hook'[j] # None, view' = view, Straight(j)',
                      hook[j].status = "completed", Shown(j) = "completed"
               PROVE  Shown(j)' = "completed"
    OBVIOUS
  <2>1. hook[j] # None /\ hook'[j] # None /\ hook[j] \in Hook BY <1>1 DEF IInv, TypeOK
  <2>2. hook'[j].prop = hook[j].prop /\ hook'[j].ran = hook[j].ran => Shown(j)' = "completed"
    BY ShownStays
  <2>3. hook' = hook => Shown(j)' = "completed" BY <2>2
  <2>4. ASSUME NEW i \in Jobs, Create(i) \/ Cancel(i) \/ WorkerStep(i) \/ Failed(i)
        PROVE  Shown(j)' = "completed"
    BY <1>1, <2>3, <2>4, ServerEffect DEF ServerStep, IInv, ui
  <2>5. CASE Broadcast
    <3>1. \/ hook'[j] = hook[j]
          \/ hook'[j] = [hook[j] EXCEPT !.inbox = Append(@, bus[1])]
      BY <1>1, <2>5, BroadcastEffect DEF IInv
    <3>2. hook'[j].prop = hook[j].prop /\ hook'[j].ran = hook[j].ran BY <2>1, <3>1 DEF Hook
    <3> QED BY <2>2, <3>2
  <2>6. ASSUME NEW i \in Jobs, Opened(i) \/ Receive(i) \/ Lose(i)
        PROVE  Shown(j)' = "completed"
    <3>1. hook \in [Jobs -> Hook \cup {None}] BY <1>1 DEF IInv, TypeOK
    <3>2. CASE Opened(i) BY <2>1, <2>2, <3>1, <3>2 DEF Opened, Hook
    <3>3. CASE Receive(i)
      <4>1. \E a, b, c : hook' = [hook EXCEPT ![i].inbox = a, ![i].status = b, ![i].prog = c]
        BY <3>3 DEF Receive
      <4>2. hook'[j].prop = hook[j].prop /\ hook'[j].ran = hook[j].ran BY <2>1, <3>1, <4>1 DEF Hook
      <4> QED BY <2>2, <4>2
    <3>4. CASE Lose(i) BY <2>1, <2>2, <3>1, <3>4 DEF Lose, Hook
    <3> QED BY <2>6, <3>2, <3>3, <3>4
  <2>7. ASSUME NEW i \in Jobs, CommitRow(i) PROVE Shown(j)' = "completed"
    <3>1. CASE i # j
      <4>1. hook'[j] = hook[j] BY <1>1, <2>7, <3>1 DEF CommitRow, IInv, TypeOK
      <4> QED BY <2>2, <4>1
    <3>2. CASE i = j
      <4>1. hook'[j] = Committed(hook[j], view) /\ view \in Lists \cup {None}
        BY <1>1, <2>7, <3>2 DEF CommitRow, IInv, TypeOK
      <4>2. /\ hook'[j].prop = hook[j].prop /\ hook'[j].ran.status = "completed"
            /\ hook'[j].ran.active <=> hook[j].prop.status = "active"
        BY <2>1, <4>1, CommitEffect
      <4>3. hook[j].ran.active <=> hook[j].prop.status = "active" BY <1>1 DEF IInv, HooksHaveShape
      <4> QED BY <4>2, <4>3 DEF Shown
    <3> QED BY <3>1, <3>2
  <2>8. CASE RenderList
    <3> DEFINE c == hook'[j]
               row == cache[view].rows[j]
    <3>1. hook' = Rendered(view, TRUE) /\ view \in Lists \cup {None} /\ job' = job
      BY <1>1, <2>8 DEF RenderList, IInv, TypeOK
    <3>2. /\ view \in Lists /\ cache[view].rows # None /\ row # None /\ c.prop = row
          /\ Drawn(c) /\ Stays(hook[j], c)
      BY <1>1, <2>1, <3>1, RenderDraws
    <3>3. c.ran.status = "completed" /\ (c.ran.active <=> row.status = "active")
      BY <3>2 DEF Drawn, Stays
    <3>4. /\ Sound(j, row) /\ row \in Row
      BY <1>1, <3>2 DEF IInv, ListsAreSound, TypeOK, Cached, Held
    <3>5. row.status # "failed" BY <3>1, <3>4 DEF Straight, Sound, Been
    <3>6. row.status # "pending"
      <4>1. hook[j].ran.active <=> hook[j].prop.status = "active" BY <1>1 DEF IInv, HooksHaveShape
      <4>2. CASE hook[j].prop.status # "pending"
        <5>1. row.status = "pending" => hook[j].ran.active /\ hook[j].ran.status = "pending"
          BY <1>1, <3>2, <4>2 DEF IInv, NotPendingAgain
        <5> QED BY <5>1 DEF Shown
      <4>3. CASE hook[j].prop.status = "pending" BY <4>1, <4>3 DEF Shown
      <4> QED BY <4>2, <4>3
    <3>7. row.status \in {"active", "completed"} BY <3>4, <3>5, <3>6 DEF Row, Statuses
    <3> QED BY <3>2, <3>3, <3>7 DEF Shown
  <2>9. ASSUME NEW v \in Lists, QueryStep(v) \/ FetchFails(v) PROVE Shown(j)' = "completed"
    BY <2>3, <2>9 DEF QueryStep, Read, Answer, FetchFails
  <2>10. ASSUME NEW v \in Lists \cup {None}, Visit(v) PROVE FALSE BY <2>10 DEF Visit
  <2>11. CASE LoseEvent \/ Focus \/ UNCHANGED vars BY <2>3, <2>11 DEF LoseEvent, Focus, vars
  <2> QED BY <1>1, <2>4, <2>5, <2>6, <2>7, <2>8, <2>9, <2>10, <2>11 DEF Next, RowStep
<1>2. IInv /\ IInv' /\ [Next]_vars => [Kept]_vars BY <1>1
<1> QED BY <1>2, Invariance, PTL DEF Spec, EndNotTakenBack
=============================================================================
