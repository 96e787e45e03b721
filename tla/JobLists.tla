------------------------------ MODULE JobLists ------------------------------
(***************************************************************************)
(* The lists of jobs: the dashboard's recent jobs and the tabs of the jobs *)
(* page. A list is a query in a cache; each of its rows follows its job on *)
(* a socket of its own and writes what it hears back into the cached list. *)
(*                                                                         *)
(* A row has two sources, the answers of the query and the events of the   *)
(* worker. They are not ordered: an answer may be older than an event that *)
(* was written, and a row writes back a state that is older than an        *)
(* answer. There are fewer jobs than a page has rows, so a list is the set *)
(* of the rows that match it; pages are the subject of FilePages.          *)
(*                                                                         *)
(* What a job does is JobPipeline's subject and a socket's life is that of *)
(* JobWatch: here a socket is opening, open, or gone.                      *)
(***************************************************************************)
EXTENDS Naturals, Sequences

CONSTANTS
  Lists,        \* "recent" of the dashboard and tabs of the jobs page
  Jobs,         \* bound: jobs ever created
  None,         \* null, undefined
  MaxAttempts,  \* attempts of a job
  Reports,      \* progress events that an attempt publishes
  MaxUpsets,    \* bound: events, sockets and requests that are lost
  MaxLooks      \* bound: how often the person changes the list or the window

ASSUME ListsAssumption ==
  /\ Lists \subseteq {"recent", "all", "active", "completed", "failed"}
  /\ None \notin Lists \cup Jobs
  /\ MaxAttempts \in Nat \ {0} /\ Reports \in Nat \ {0} /\ MaxUpsets \in Nat
  /\ MaxLooks \in Nat

VARIABLES
  job,    \* the row of each job and the worker's side of it
  bus,    \* events published and not yet pushed to the sockets
  cache,  \* the query cache, by list
  fetch,  \* the request of each list
  view,   \* the list that is on the screen
  hook,   \* the mounted rows: useJobRowState, useJobPageRowState
  upsets, \* losses so far
  looks   \* changes of the list and the window so far

vars == <<job, bus, cache, fetch, view, hook, upsets, looks>>

Statuses == {"pending", "active", "completed", "failed"}
Terminal == {"completed", "failed"}

\* prog stands for the percentage: the event of the attempt, and one more when it is
\* completed. out is the attempt whose output the row names, 0 for no outputFileId.
Row == [status : Statuses, prog : 0..(Reports + 1), out : 0..MaxAttempts]

\* pc: where the queue's entry is; tries: attempts begun; said: progress events of
\* the present one; tell: 'failed' handlers that still have to run. History: what
\* the row has been.
Job ==
  [pc : {"none", "queued", "working", "stored", "done", "dead"}, row : Row \cup {None},
   tries : 0..MaxAttempts, said : 0..Reports, tell : 0..MaxAttempts, was : SUBSET Row]

Event == [type : {"progress", "completed", "failed"}, job : Jobs, prog : 0..Reports]

\* What a list holds. History: got is the last answer of the server.
Held   == [Jobs -> Row \cup {None}]
Cached == [rows : Held \cup {None}, got : Held \cup {None}, bad : BOOLEAN]
Fetch  == [at : {"idle", "asked", "read"}, rows : Held \cup {None}]

Idle == [at |-> "idle", rows |-> None]

\* prop: the job of the row's last render; ran: what its effects last ran with.
\* History: first is the status that it was mounted with.
Ran  == [active : BOOLEAN, status : Statuses \cup {None}, prog : 0..(Reports + 1),
         view : Lists \cup {None}]
Hook ==
  [prop : Row, status : Statuses, prog : 0..(Reports + 1), ran : Ran, first : Statuses,
   sock : {"none", "opening", "open", "lost"}, inbox : Seq(Event)]

ASSUME NoneIsNoRecord == None \notin Row \cup Held \cup Hook

NotRun == [active |-> FALSE, status |-> None, prog |-> 0, view |-> None]

Init ==
  /\ job = [j \in Jobs |-> [pc |-> "none", row |-> None, tries |-> 0, said |-> 0,
                            tell |-> 0, was |-> {}]]
  /\ bus = <<>>
  /\ cache = [v \in Lists |-> [rows |-> None, got |-> None, bad |-> FALSE]]
  /\ fetch = [v \in Lists |-> Idle]
  /\ view = None
  /\ hook = [j \in Jobs |-> None]
  /\ upsets = 0
  /\ looks = 0

Upset == upsets < MaxUpsets /\ upsets' = upsets + 1
Look  == looks < MaxLooks /\ looks' = looks + 1

-----------------------------------------------------------------------------
(***************************************************************************)
(* The server: the rows, and the events the worker publishes.              *)
(***************************************************************************)
ui == <<cache, fetch, view, hook, upsets, looks>>

Publish(t, j, n) == bus' = Append(bus, [type |-> t, job |-> j, prog |-> n])

\* The row of a job becomes r, along with what else is new in x.
Store(j, x, r) == job' = [job EXCEPT ![j] = [x EXCEPT !.row = r, !.was = @ \cup {r}]]

\* POST /jobs, from another page: no list is invalidated.
Create(j) ==
  /\ job[j].pc = "none"
  /\ Store(j, [job[j] EXCEPT !.pc = "queued"], [status |-> "pending", prog |-> 0, out |-> 0])
  /\ UNCHANGED <<bus, ui>>

\* DELETE /jobs/:id. The queue's entry stays, and there is no event.
Cancel(j) ==
  /\ job[j].row # None /\ job[j].row.status = "pending"
  /\ Store(j, job[j], [job[j].row EXCEPT !.status = "failed"])
  /\ UNCHANGED <<bus, ui>>

Activate(j) ==
  /\ job[j].pc = "queued"
  /\ Store(j, [job[j] EXCEPT !.pc = "working", !.tries = @ + 1, !.said = 0],
           [job[j].row EXCEPT !.status = "active", !.prog = 0])
  /\ UNCHANGED <<bus, ui>>

\* updateProgress and the event, which are awaited together.
Progress(j) ==
  /\ job[j].pc = "working" /\ job[j].said < Reports
  /\ LET n == job[j].said + 1
     IN Store(j, [job[j] EXCEPT !.said = n], [job[j].row EXCEPT !.prog = n]) /\ Publish("progress", j, n)
  /\ UNCHANGED ui

\* Variant with a bug: the event is sent before the row is updated.
FinishUncommitted(j) ==
  /\ job[j].pc = "working" /\ job[j].said = Reports
  /\ job' = [job EXCEPT ![j].pc = "stored"]
  /\ Publish("completed", j, 0)
  /\ UNCHANGED ui

\* updateStatus(completed, outputFileId) ...
Finish(j) ==
  /\ job[j].pc = "working" /\ job[j].said = Reports
  /\ Store(j, [job[j] EXCEPT !.pc = "stored"],
           [status |-> "completed", prog |-> Reports + 1, out |-> job[j].tries])
  /\ UNCHANGED <<bus, ui>>

\* ... and then the event.
Announce(j) ==
  /\ job[j].pc = "stored"
  /\ job' = [job EXCEPT ![j].pc = "done"]
  /\ Publish("completed", j, 0)
  /\ UNCHANGED ui

\* Variant with a bug: an attempt too many.
FailedAgain(j) ==
  /\ job[j].pc \in {"working", "stored"}
  /\ job' = [job EXCEPT ![j].pc = IF job[j].tries <= MaxAttempts THEN "queued" ELSE "dead",
                        ![j].tell = @ + 1]
  /\ UNCHANGED <<bus, ui>>

\* The attempt throws, at the latest in the publish that follows its completion.
Failed(j) ==
  /\ job[j].pc \in {"working", "stored"}
  /\ job' = [job EXCEPT ![j].pc = IF job[j].tries < MaxAttempts THEN "queued" ELSE "dead",
                        ![j].tell = @ + 1]
  /\ UNCHANGED <<bus, ui>>

\* worker.on('failed'), which nothing waits for: the row, then the event.
TellFailure(j) ==
  /\ job[j].tell > 0
  /\ Store(j, [job[j] EXCEPT !.tell = @ - 1], [job[j].row EXCEPT !.status = "failed"])
  /\ Publish("failed", j, 0)
  /\ UNCHANGED ui

WorkerStep(j) ==
  Activate(j) \/ Progress(j) \/ Finish(j) \/ Announce(j) \/ TellFailure(j)

\* The subscriber pushes an event to the row's socket, if there is one.
Broadcast ==
  /\ bus # <<>>
  /\ bus' = Tail(bus)
  /\ LET j == Head(bus).job
     IN hook' = IF hook[j] # None /\ hook[j].sock = "open"
                THEN [hook EXCEPT ![j].inbox = Append(@, Head(bus))] ELSE hook
  /\ UNCHANGED <<job, cache, fetch, view, upsets, looks>>

LoseEvent ==
  /\ bus # <<>>
  /\ Upset
  /\ bus' = Tail(bus)
  /\ UNCHANGED <<job, cache, fetch, view, hook, looks>>

-----------------------------------------------------------------------------
(***************************************************************************)
(* The rows. A commit renders a row and runs its effects.                  *)
(***************************************************************************)
Mounted(row) ==
  [prop |-> row, status |-> row.status, prog |-> row.prog, ran |-> NotRun,
   first |-> row.status, sock |-> "none", inbox |-> <<>>]

\* Variant with a bug: the socket is replaced whenever the row's state changes.
ListenAnew(h, now) ==
  IF now = h.ran THEN h
  ELSE [h EXCEPT !.inbox = <<>>,
                 !.sock = IF now.active /\ now.status \notin Terminal
                          THEN "opening" ELSE "none"]

\* useJobWebSocket's effect: the socket is left and, for a job that the list has as
\* active and the row has not seen the end of, replaced.
Listen(h, now) ==
  IF <<now.active, now.status>> = <<h.ran.active, h.ran.status>> THEN h
  ELSE [h EXCEPT !.inbox = <<>>,
                 !.sock = IF now.active /\ now.status \notin Terminal
                          THEN "opening" ELSE "none"]

Committed(h, v) ==
  LET now == [active |-> h.prop.status = "active", status |-> h.status,
              prog |-> h.prog, view |-> v]
  IN [Listen(h, now) EXCEPT !.ran = now]

\* Variant with a bug: a row writes its state whatever the list says of the job.
WritesAlways(old, new) == new # None /\ (old = None \/ new.ran # old.ran)

\* The second effect runs when its dependencies are new, for an active job.
Writes(old, new) == new # None /\ new.ran.active /\ (old = None \/ new.ran # old.ran)

\* setQueryData of the rows that write; it also ends the error state of the query.
WriteBack(v, new) ==
  LET by == {j \in Jobs : Writes(hook[j], new[j])}
  IN IF v = None \/ by = {} \/ cache[v].rows = None THEN cache
     ELSE [cache EXCEPT
             ![v].rows = [j \in Jobs |->
                 IF j \in by /\ @[j] # None
                 THEN [@[j] EXCEPT !.status = new[j].ran.status, !.prog = new[j].ran.prog]
                 ELSE @[j]],
             ![v].bad = FALSE]

\* What is shown of a list: nothing while it is loading, and nothing but a text when
\* a request of JobList failed; RecentJobsFeed does not look at that.
Listed(v) ==
  IF v = None \/ cache[v].rows = None \/ (v # "recent" /\ cache[v].bad)
  THEN [j \in Jobs |-> None] ELSE cache[v].rows

\* Variant with a bug: rows have no key, and lose their state with every render.
RenderedNoKey(v, keep) ==
  [j \in Jobs |->
     IF Listed(v)[j] = None THEN None ELSE Committed(Mounted(Listed(v)[j]), v)]

\* The list is rendered: rows come and go, and those that stay keep their state if
\* keep says that they are the same elements as before.
Rendered(v, keep) ==
  [j \in Jobs |->
     LET row == Listed(v)[j]
     IN CASE row = None -> None
          [] row # None /\ keep /\ hook[j] # None -> Committed([hook[j] EXCEPT !.prop = row], v)
          [] OTHER -> Committed(Mounted(row), v)]

\* The list on the screen is not that of the cache.
Outdated ==
  \E j \in Jobs : Listed(view)[j] # IF hook[j] = None THEN None ELSE hook[j].prop

\* The cache has told the list of a change.
RenderList ==
  /\ Outdated
  /\ hook' = Rendered(view, TRUE)
  /\ cache' = WriteBack(view, hook')
  /\ UNCHANGED <<job, bus, fetch, view, upsets, looks>>

Current(h) == h.status = h.ran.status /\ h.prog = h.ran.prog

\* A message has set a row's state: the row is rendered with the job it already has,
\* which may no longer be what the cache holds.
CommitRow(j) ==
  /\ hook[j] # None /\ ~Current(hook[j])
  /\ hook' = [hook EXCEPT ![j] = Committed(@, view)]
  /\ cache' = WriteBack(view, hook')
  /\ UNCHANGED <<job, bus, fetch, view, upsets, looks>>

\* A connection is not open before the list has been told of what was written when it
\* was begun: that takes a timer of 0 ms. The same goes for Read.
Opened(j) ==
  /\ hook[j] # None /\ hook[j].sock = "opening" /\ ~Outdated
  /\ hook' = [hook EXCEPT ![j].sock = "open"]
  /\ UNCHANGED <<job, bus, cache, fetch, view, upsets, looks>>

\* onmessage: 100 for a completed job, and the progress as it was for a failed one.
Receive(j) ==
  /\ hook[j] # None /\ hook[j].inbox # <<>>
  /\ LET m == Head(hook[j].inbox)
     IN hook' = [hook EXCEPT ![j].inbox = Tail(@),
          ![j].status = IF m.type = "progress" THEN "active" ELSE m.type,
          ![j].prog = CASE m.type = "progress" -> m.prog
                        [] m.type = "completed" -> Reports + 1
                        [] m.type = "failed" -> @]
  /\ UNCHANGED <<job, bus, cache, fetch, view, upsets, looks>>

\* The connection ends; nothing connects again.
Lose(j) ==
  /\ hook[j] # None /\ hook[j].sock \in {"opening", "open"}
  /\ Upset
  /\ hook' = [hook EXCEPT ![j].sock = "lost", ![j].inbox = <<>>]
  /\ UNCHANGED <<job, bus, cache, fetch, view, looks>>

RowStep(j) == CommitRow(j) \/ Opened(j) \/ Receive(j)

-----------------------------------------------------------------------------
(***************************************************************************)
(* The queries. A list is asked for when it comes on the screen and when   *)
(* the window gets the focus, unless it is being asked for already.        *)
(***************************************************************************)
Ask(v) == IF v # None /\ fetch[v] = Idle THEN [fetch EXCEPT ![v].at = "asked"] ELSE fetch

\* The tabs of the jobs page render one JobList: the rows of jobs that both lists
\* hold stay mounted.
Tabs == Lists \ {"recent"}

Visit(v) ==
  /\ v # view
  /\ Look
  /\ view' = v
  /\ hook' = Rendered(v, view \in Tabs /\ v \in Tabs)
  /\ cache' = WriteBack(v, hook')
  /\ fetch' = Ask(v)
  /\ UNCHANGED <<job, bus, upsets>>

Focus ==
  /\ view # None /\ fetch[view] = Idle
  /\ Look
  /\ fetch' = Ask(view)
  /\ UNCHANGED <<job, bus, cache, view, hook, upsets>>

Matches(v, row) == row # None /\ (v \in {"recent", "all"} \/ row.status = v)

\* GET /jobs: the rows of the list as they are now.
Read(v) ==
  /\ fetch[v].at = "asked" /\ ~Outdated
  /\ fetch' = [fetch EXCEPT ![v] = [at |-> "read", rows |->
       [j \in Jobs |-> IF Matches(v, job[j].row) THEN job[j].row ELSE None]]]
  /\ UNCHANGED <<job, bus, cache, view, hook, upsets, looks>>

Answer(v) ==
  /\ fetch[v].at = "read"
  /\ cache' = [cache EXCEPT ![v] =
       [rows |-> fetch[v].rows, got |-> fetch[v].rows, bad |-> FALSE]]
  /\ fetch' = [fetch EXCEPT ![v] = Idle]
  /\ UNCHANGED <<job, bus, view, hook, upsets, looks>>

\* The request and its retries have failed: the list keeps what it has.
FetchFails(v) ==
  /\ fetch[v] # Idle
  /\ Upset
  /\ fetch' = [fetch EXCEPT ![v] = Idle]
  /\ cache' = [cache EXCEPT ![v].bad = TRUE]
  /\ UNCHANGED <<job, bus, view, hook, looks>>

QueryStep(v) == Read(v) \/ Answer(v)

Next ==
  \/ \E j \in Jobs : Create(j) \/ Cancel(j) \/ WorkerStep(j) \/ Failed(j)
  \/ Broadcast \/ LoseEvent
  \/ \E j \in Jobs : RowStep(j) \/ Lose(j)
  \/ RenderList
  \/ \E v \in Lists : QueryStep(v) \/ FetchFails(v)
  \/ \E v \in Lists \cup {None} : Visit(v)
  \/ Focus

Spec == Init /\ [][Next]_vars

\* The worker, the API and the page's event loop go on; people, failures and losses
\* owe nothing.
FairSpec ==
  /\ Spec
  /\ \A j \in Jobs : WF_vars(WorkerStep(j)) /\ WF_vars(RowStep(j))
  /\ WF_vars(Broadcast) /\ WF_vars(RenderList)
  /\ \A v \in Lists : WF_vars(QueryStep(v))

-----------------------------------------------------------------------------
(***************************************************************************)
(* Properties that hold.                                                   *)
(***************************************************************************)
TypeOK ==
  /\ job \in [Jobs -> Job]
  /\ bus \in Seq(Event)
  /\ cache \in [Lists -> Cached]
  /\ fetch \in [Lists -> Fetch]
  /\ view \in Lists \cup {None}
  /\ hook \in [Jobs -> Hook \cup {None}]
  /\ upsets \in 0..MaxUpsets /\ looks \in 0..MaxLooks

\* liveStatus of a row's last render.
Shown(j) == IF hook[j].ran.active THEN hook[j].ran.status ELSE hook[j].prop.status

\* The Download button: the output is that of the list's row, not the event's.
Offered(j) == Shown(j) = "completed" /\ hook[j].prop.out # 0

\* An end that a row shows, and an output that it offers, were those of the job's row
\* before: whatever the order of answers, events and write-backs.
ShownEndIsCommitted ==
  \A j \in Jobs :
    hook[j] # None =>
      /\ Shown(j) \in Terminal => \E r \in job[j].was : r.status = Shown(j)
      /\ hook[j].prop.out # 0 =>
           \E r \in job[j].was : r.status = "completed" /\ r.out = hook[j].prop.out

\* The job has ended and nothing is on its way to its row.
Quiet(j) ==
  /\ job[j].pc = "done"
  /\ \A i \in 1..Len(bus) : bus[i].job # j
  /\ hook[j] # None /\ hook[j].inbox = <<>> /\ Current(hook[j])
  /\ ~Outdated /\ fetch[view] = Idle

\* A job that has not failed, been cancelled or been tried again.
Straight(j) == job[j].tries = 1 /\ \A r \in job[j].was : r.status # "failed"

\* When all is quiet and the list's last answer has the end of a job that went straight
\* through, the row shows that end and offers its output: a write-back of a state that
\* is older than the answer does not last. Unless something was lost, or the row is one
\* that was mounted pending: its socket is replaced when its state becomes active, and
\* the event of the end may fall in between.
AnsweredEndStands ==
  \A j \in Jobs :
    /\ Quiet(j) /\ Straight(j) /\ upsets = 0 /\ hook[j].first # "pending"
    /\ cache[view].got[j] # None /\ cache[view].got[j].status = "completed"
    => Offered(j)

\* A row that was told the end of a job does not take it back while it is on the
\* screen, unless another list is shown or the job is failed or tried again: an answer
\* that was read before the end may come after the event.
EndNotTakenBack ==
  [][\A j \in Jobs :
       hook[j] # None /\ hook'[j] # None /\ view' = view /\ Straight(j)'
       /\ hook[j].status = "completed" /\ Shown(j) = "completed"
       => Shown(j)' = "completed"]_vars

\* A row of the jobs page whose socket is subscribed while its job is at work shows
\* how the attempt ended, unless it leaves the screen, the list has the job as not
\* active, something is lost or the row is one that was mounted pending.
RowLearnsEnd ==
  \A j \in Jobs :
    /\ hook[j] # None /\ hook[j].sock = "open" /\ hook[j].first # "pending"
    /\ job[j].pc = "working" /\ upsets = 0 /\ view \in Tabs
    ~> \/ upsets # 0 \/ hook[j] = None \/ view \notin Tabs
       \/ hook[j] # None /\ (~hook[j].ran.active \/ Shown(j) \in Terminal)

-----------------------------------------------------------------------------
(***************************************************************************)
(* A statement of the repository's comments that the code does not live up *)
(* to.                                                                     *)
(***************************************************************************)
\* useJobRowState.ts: live updates are propagated into the cache. No event says that
\* a job is pending, so a list that was answered active is not set to pending.
OnlyLiveUpdatesWritten ==
  \A v \in Lists, j \in Jobs :
    /\ cache[v].rows # None /\ cache[v].got[j] # None /\ cache[v].got[j].status = "active"
    => cache[v].rows[j].status # "pending"
=============================================================================
