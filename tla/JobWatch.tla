------------------------------ MODULE JobWatch ------------------------------
(***************************************************************************)
(* How a page learns how its job ended: the worker publishes events on     *)
(* Redis Pub/Sub, the API's subscriber hands them to WsManager, which      *)
(* pushes them to the sockets subscribed to the job, and useJobWebSocket   *)
(* keeps the state that useCompressFlow and useConvertFlow show.           *)
(*                                                                         *)
(* The hook's effect runs after a render in which jobId, token or          *)
(* state.status differ from those of its last run: the state is set by one *)
(* step and the socket replaced by a later one, and messages may come in   *)
(* between. Nothing is sent twice, stored or asked for again.              *)
(*                                                                         *)
(* What a job does is JobPipeline's subject; here it is reduced to the     *)
(* order in which its attempts commit their result and publish.            *)
(***************************************************************************)
EXTENDS Naturals, Sequences

CONSTANTS
  Pages,        \* mounted flows: Compressor, Converter, the guest zones
  Files,        \* files a person selects, and the rows of their uploads
  Jobs,         \* bound: jobs ever created
  Sockets,      \* bound: WebSockets that exist at the same time
  None,         \* null
  MaxAttempts,  \* attempts of a job
  Reports,      \* progress events that an attempt publishes
  MaxUpsets     \* bound: requests, events, sockets, updates that fail; new tokens

ASSUME WatchAssumption ==
  /\ None \notin Files \cup Jobs \cup Sockets \cup Pages
  /\ "socket" \notin Jobs
  /\ MaxAttempts \in Nat \ {0} /\ Reports \in Nat \ {0} /\ MaxUpsets \in Nat

VARIABLES
  job,      \* the worker's side of each job
  bus,      \* Redis Pub/Sub: events published and not yet received by the API
  sock,     \* both ends of each WebSocket
  hook,     \* useJobWebSocket of each page
  flow,     \* useCompressFlow or useConvertFlow of each page
  upsets    \* failures and new tokens so far

vars == <<job, bus, sock, hook, flow, upsets>>

Statuses == {"pending", "active", "completed", "failed"}
Terminal == {"completed", "failed"}

\* The row of the output that an attempt makes. An outputFileId is one of these, or
\* that of an input.
Output == [job : Jobs, attempt : 1..MaxAttempts]
FileId == Output \cup Files

Event == [type : {"progress", "completed", "failed"}, job : Jobs, out : FileId \cup {None}]

ASSUME NoneIsNoFile == None \notin FileId

\* pc: where the job is; makes: its type is one of those whose processor makes an
\* output; tries: attempts begun; said: progress events of the present one; tell:
\* 'failed' handlers that still have to update the row and publish.
\* History: the attempts that completed its row, and whether it ever was failed.
Job ==
  [pc : {"none", "asked", "queued", "working", "stored", "done", "dead"},
   makes : BOOLEAN, file : Files \cup {None}, tries : 0..MaxAttempts, said : 0..Reports,
   tell : 0..MaxAttempts, outs : SUBSET (1..MaxAttempts), broke : BOOLEAN]

\* end: the browser's readyState, and aborted if it was closed while it was connecting
\* and its error is still to come; subs: the socket's set in WsManager, None while
\* it is not registered; up and down: frames on their way.
Socket ==
  [end : {"none", "connecting", "open", "aborted", "closed"}, page : Pages \cup {None},
   job : Jobs \cup {None}, subs : (SUBSET Jobs) \cup {None},
   up : Seq({"subscribe", "unsubscribe"}), down : Seq(Event)]

NoSocket ==
  [end |-> "none", page |-> None, job |-> None, subs |-> None, up |-> <<>>, down |-> <<>>]

\* deps: jobId and status as of the effect's last run, and whether the access token is
\* still the same or a new one. An error names the job that failed, or the socket.
Hook ==
  [status : Statuses, error : Jobs \cup {None, "socket"}, out : FileId \cup {None},
   sk : Sockets \cup {None}, deps : (Jobs \cup {None}) \X {"same", "new"} \X Statuses]

FreshHook ==
  [status |-> "pending", error |-> None, out |-> None, sk |-> None,
   deps |-> <<None, "same", "pending">>]

\* uploads and asks: requests under way whose answers set the flow; uploading and
\* asking: the latest of each, which isPending is about. History: clean says that
\* no request crossed a Clear or another file.
Flow ==
  [step : {"idle", "options", "processing", "error"}, file : Files \cup {None},
   up : Files \cup {None}, job : Jobs \cup {None}, uploads : SUBSET Files,
   uploading : Files \cup {None}, asks : SUBSET Jobs, asking : Jobs \cup {None},
   clean : BOOLEAN]

FreshFlow ==
  [step |-> "idle", file |-> None, up |-> None, job |-> None,
   uploads |-> {}, uploading |-> None, asks |-> {}, asking |-> None, clean |-> TRUE]

Init ==
  /\ job = [j \in Jobs |-> [pc |-> "none", makes |-> TRUE, file |-> None, tries |-> 0,
                            said |-> 0, tell |-> 0, outs |-> {}, broke |-> FALSE]]
  /\ bus = <<>>
  /\ sock = [k \in Sockets |-> NoSocket]
  /\ hook = [p \in Pages |-> FreshHook]
  /\ flow = [p \in Pages |-> FreshFlow]
  /\ upsets = 0

Upset == upsets < MaxUpsets /\ upsets' = upsets + 1

-----------------------------------------------------------------------------
(***************************************************************************)
(* The worker: attempts and what they publish.                             *)
(***************************************************************************)
Publish(t, j, o) == bus' = Append(bus, [type |-> t, job |-> j, out |-> o])

\* What is published as the outputFileId of attempt n of j, whose record is x: the row
\* of its output, but by DefaultProcessor, which makes none, its input.
ResultId(x, j, n) == IF x.makes THEN [job |-> j, attempt |-> n] ELSE x.file

\* The row is set to active.
Activate(j) ==
  /\ job[j].pc = "queued"
  /\ job' = [job EXCEPT ![j].pc = "working", ![j].tries = @ + 1, ![j].said = 0]
  /\ UNCHANGED <<bus, sock, hook, flow, upsets>>

\* A progress event, which an attempt waits for before it goes on.
Progress(j) ==
  /\ job[j].pc = "working" /\ job[j].said < Reports
  /\ job' = [job EXCEPT ![j].said = @ + 1]
  /\ Publish("progress", j, None)
  /\ UNCHANGED <<sock, hook, flow, upsets>>

\* Variant with a bug: the event is sent before the row is updated.
FinishUncommitted(j) ==
  /\ job[j].pc = "working" /\ job[j].said = Reports
  /\ job' = [job EXCEPT ![j].pc = "stored"]
  /\ Publish("completed", j, ResultId(job[j], j, job[j].tries))
  /\ UNCHANGED <<sock, hook, flow, upsets>>

\* updateStatus(completed), with the output if one is made ...
Finish(j) ==
  /\ job[j].pc = "working" /\ job[j].said = Reports
  /\ job' = [job EXCEPT ![j].pc = "stored", ![j].outs = @ \cup {job[j].tries}]
  /\ UNCHANGED <<bus, sock, hook, flow, upsets>>

\* ... and then the event.
Announce(j) ==
  /\ job[j].pc = "stored"
  /\ job' = [job EXCEPT ![j].pc = "done"]
  /\ Publish("completed", j, ResultId(job[j], j, job[j].tries))
  /\ UNCHANGED <<sock, hook, flow, upsets>>

\* Variant with a bug: an attempt too many.
FailedAgain(j) ==
  /\ job[j].pc \in {"working", "stored"}
  /\ job' = [job EXCEPT ![j].pc = IF job[j].tries <= MaxAttempts THEN "queued" ELSE "dead",
                        ![j].tell = @ + 1]
  /\ UNCHANGED <<bus, sock, hook, flow, upsets>>

\* The attempt throws, at the latest in the publish that follows its completion.
Failed(j) ==
  /\ job[j].pc \in {"working", "stored"}
  /\ job' = [job EXCEPT ![j].pc = IF job[j].tries < MaxAttempts THEN "queued" ELSE "dead",
                        ![j].tell = @ + 1]
  /\ UNCHANGED <<bus, sock, hook, flow, upsets>>

\* worker.on('failed'), which nothing waits for: the row, then the event.
TellFailure(j) ==
  /\ job[j].tell > 0
  /\ job' = [job EXCEPT ![j].tell = @ - 1, ![j].broke = TRUE]
  /\ Publish("failed", j, None)
  /\ UNCHANGED <<sock, hook, flow, upsets>>

\* Its update fails, and there is no event.
TellNothing(j) ==
  /\ job[j].tell > 0
  /\ Upset
  /\ job' = [job EXCEPT ![j].tell = @ - 1]
  /\ UNCHANGED <<bus, sock, hook, flow>>

\* The worker dies and the entry is delivered again, with no 'failed'.
Redeliver(j) ==
  /\ job[j].pc \in {"working", "stored"} /\ job[j].tries < MaxAttempts
  /\ Upset
  /\ job' = [job EXCEPT ![j].pc = "queued"]
  /\ UNCHANGED <<bus, sock, hook, flow>>

WorkerStep(j) ==
  Activate(j) \/ Progress(j) \/ Finish(j) \/ Announce(j) \/ TellFailure(j)

-----------------------------------------------------------------------------
(***************************************************************************)
(* The API: /ws, WsManager and the Redis subscriber.                       *)
(***************************************************************************)
\* WsManager.add: a socket with no subscriptions.
Accept(k) ==
  /\ sock[k].end = "connecting" /\ sock[k].subs = None
  /\ sock' = [sock EXCEPT ![k].subs = {}]
  /\ UNCHANGED <<job, bus, hook, flow, upsets>>

\* The token of the query has expired: closed with 4001, which the browser sees as
\* an opened and closed socket; it has no onclose.
Refuse(k) ==
  /\ sock[k].end = "connecting" /\ sock[k].subs = None
  /\ Upset
  /\ sock' = [sock EXCEPT ![k].end = "closed"]
  /\ UNCHANGED <<job, bus, hook, flow>>

\* Variant with a bug: the job is taken from every socket's set.
UnsubscribeJob(k) ==
  [l \in Sockets |-> IF sock[l].subs = None THEN sock[l]
                     ELSE [sock[l] EXCEPT !.subs = @ \ {sock[k].job}]]

Unsubscribe(k) == [sock EXCEPT ![k].subs = @ \ {sock[k].job}]

\* A frame of the browser.
Frame(k) ==
  /\ sock[k].subs # None /\ sock[k].up # <<>>
  /\ LET after == IF Head(sock[k].up) = "subscribe"
                  THEN [sock EXCEPT ![k].subs = @ \cup {sock[k].job}]
                  ELSE Unsubscribe(k)
     IN sock' = [after EXCEPT ![k].up = Tail(@)]
  /\ UNCHANGED <<job, bus, hook, flow, upsets>>

\* The end of the connection reaches the API: WsManager.remove.
Remove(k) ==
  /\ sock[k].end = "closed" /\ sock[k].up = <<>>
  /\ sock' = [sock EXCEPT ![k] = NoSocket]
  /\ UNCHANGED <<job, bus, hook, flow, upsets>>

Listens(k, j) == sock[k].subs # None /\ j \in sock[k].subs

\* pmessage: WsManager.broadcast to every socket subscribed to the job.
Broadcast ==
  /\ bus # <<>>
  /\ bus' = Tail(bus)
  /\ sock' = [k \in Sockets |->
                IF Listens(k, Head(bus).job) /\ sock[k].end = "open"
                THEN [sock[k] EXCEPT !.down = Append(@, Head(bus))]
                ELSE sock[k]]
  /\ UNCHANGED <<job, hook, flow, upsets>>

\* The subscriber is not connected when the event is published.
LoseEvent ==
  /\ bus # <<>>
  /\ Upset
  /\ bus' = Tail(bus)
  /\ UNCHANGED <<job, sock, hook, flow>>

\* POST /jobs is handled: the row is inserted and the entry enqueued.
Create(j) ==
  /\ job[j].pc = "asked"
  /\ job' = [job EXCEPT ![j].pc = "queued"]
  /\ UNCHANGED <<bus, sock, hook, flow, upsets>>

ApiStep == Broadcast \/ \E k \in Sockets : Accept(k) \/ Frame(k) \/ Remove(k)

-----------------------------------------------------------------------------
(***************************************************************************)
(* The browser: useJobWebSocket.                                           *)
(***************************************************************************)
\* The jobId a flow hands to the hook.
Followed(f) == IF f.step = "processing" THEN f.job ELSE None

\* Variant with a bug: a socket that still connects is left to open.
CleanupOpenOnly(k) ==
  IF k # None /\ sock[k].end = "open"
  THEN [sock EXCEPT ![k].end = "closed", ![k].up = Append(@, "unsubscribe"), ![k].down = <<>>]
  ELSE sock

\* The effect's cleanup. Frames on their way to a closed socket are dropped.
Cleanup(k) ==
  IF k = None THEN sock
  ELSE CASE sock[k].end = "open" ->
              [sock EXCEPT ![k].end = "closed", ![k].up = Append(@, "unsubscribe"),
                           ![k].down = <<>>]
         [] sock[k].end = "connecting" -> [sock EXCEPT ![k].end = "aborted"]
         [] OTHER -> sock

Connecting(p, j) == [NoSocket EXCEPT !.end = "connecting", !.page = p, !.job = j]

\* A run of the effect for a jobId: nothing if its dependencies are as before,
\* otherwise the cleanup, and a socket unless there is no job or it has ended.
Effect(p, arg) ==
  LET h    == hook[p]
      deps == <<arg, "same", h.status>>
      left == Cleanup(h.sk)
      Set(k) == hook' = [hook EXCEPT ![p].deps = deps, ![p].sk = k]
      free == {k \in Sockets : left[k].end = "none"}
  IN \/ deps = h.deps /\ UNCHANGED <<hook, sock>>
     \/ /\ deps # h.deps /\ (arg = None \/ h.status \in Terminal)
        /\ Set(None) /\ sock' = left
     \/ /\ deps # h.deps /\ arg # None /\ h.status \notin Terminal
        /\ free # {}
        /\ LET k == CHOOSE k \in free : TRUE
           IN Set(k) /\ sock' = [left EXCEPT ![k] = Connecting(p, arg)]

Current(p) == hook[p].deps = <<Followed(flow[p]), "same", hook[p].status>>

\* After a render caused by an answer, a message or a new token.
Commit(p) ==
  /\ ~Current(p)
  /\ Effect(p, Followed(flow[p]))
  /\ UNCHANGED <<job, bus, flow, upsets>>

\* onopen.
Opened(k) ==
  /\ sock[k].end = "connecting" /\ sock[k].subs # None
  /\ sock' = [sock EXCEPT ![k].end = "open", ![k].up = Append(@, "subscribe")]
  /\ UNCHANGED <<job, bus, hook, flow, upsets>>

\* Variant with a bug: the output is not taken from the message.
ToldNoOutput(h, m) ==
  CASE m.type = "progress"  -> [h EXCEPT !.status = "active", !.error = None, !.out = None]
    [] m.type = "completed" -> [h EXCEPT !.status = "completed", !.error = None, !.out = None]
    [] m.type = "failed"    -> [h EXCEPT !.status = "failed", !.error = m.job]

\* setState of a message.
Told(h, m) ==
  CASE m.type = "progress"  -> [h EXCEPT !.status = "active", !.error = None, !.out = None]
    [] m.type = "completed" -> [h EXCEPT !.status = "completed", !.error = None, !.out = m.out]
    [] m.type = "failed"    -> [h EXCEPT !.status = "failed", !.error = m.job]

\* onmessage.
Receive(k) ==
  /\ sock[k].end = "open" /\ sock[k].down # <<>>
  /\ LET m == Head(sock[k].down)
     IN hook' = IF m.job = sock[k].job
                THEN [hook EXCEPT ![sock[k].page] = Told(@, m)] ELSE hook
  /\ sock' = [sock EXCEPT ![k].down = Tail(@)]
  /\ UNCHANGED <<job, bus, flow, upsets>>

\* The connection ends without the page: onerror sets a text, or the close is
\* clean and nothing notices it. Nothing connects again.
Lose(k) ==
  /\ sock[k].end \in {"connecting", "open"}
  /\ Upset
  /\ sock' = [sock EXCEPT ![k].end = "closed", ![k].up = <<>>, ![k].down = <<>>]
  /\ \/ hook' = [hook EXCEPT ![sock[k].page].error = "socket"]
     \/ UNCHANGED hook
  /\ UNCHANGED <<job, bus, flow>>

\* onerror of a socket that the cleanup has closed before it was open: its handlers are
\* still those of the page.
Errored(k) ==
  /\ sock[k].end = "aborted"
  /\ sock' = [sock EXCEPT ![k].end = "closed"]
  /\ hook' = [hook EXCEPT ![sock[k].page].error = "socket"]
  /\ UNCHANGED <<job, bus, flow, upsets>>

\* A refresh of the access token by some request of the page.
Renew ==
  /\ Upset
  /\ hook' = [p \in Pages |-> [hook[p] EXCEPT !.deps[2] = "new"]]
  /\ UNCHANGED <<job, bus, sock, flow>>

SocketStep(k) == Opened(k) \/ Receive(k) \/ Errored(k)

-----------------------------------------------------------------------------
(***************************************************************************)
(* The browser: useCompressFlow, useConvertFlow and their cards. A click   *)
(* renders and runs the effects at once.                                   *)
(***************************************************************************)
\* effectiveStep.
Step(p) ==
  IF flow[p].step # "processing" THEN flow[p].step
  ELSE CASE hook[p].status = "completed" -> "done"
         [] hook[p].status = "failed"    -> "error"
         [] OTHER -> "processing"

\* What the card shows. The drop zone is not clicked while it is pending, but takes a
\* drop at any time.
DropShown(p)    == Step(p) = "idle" \/ flow[p].uploading # None
OptionsShown(p) == Step(p) = "options" /\ flow[p].file # None
FailureShown(p) == Step(p) = "error" \/ (Step(p) = "processing" /\ hook[p].error # None)
ResultShown(p)  == Step(p) = "done" /\ hook[p].out # None /\ flow[p].file # None

Crossed(f) == f.uploads # {} \/ f.asks # {}

\* onFileSelected.
Select(p, f) ==
  /\ DropShown(p)
  /\ f \notin flow[p].uploads
  /\ flow' = [flow EXCEPT ![p] =
       [FreshFlow EXCEPT !.file = f, !.uploads = @ \cup flow[p].uploads \cup {f},
                         !.uploading = f, !.asks = flow[p].asks, !.asking = flow[p].asking,
                         !.clean = flow[p].clean /\ ~Crossed(flow[p])]]
  /\ Effect(p, None)
  /\ UNCHANGED <<job, bus, upsets>>

\* uploadMutation is answered; it failed, or its file is ready.
Upload(p, f, ok) ==
  /\ f \in flow[p].uploads
  /\ LET over == [flow[p] EXCEPT !.uploads = @ \ {f},
                                 !.uploading = IF @ = f THEN None ELSE @]
     IN flow' = [flow EXCEPT ![p] =
          IF ok THEN [over EXCEPT !.step = "options", !.up = f]
                ELSE [over EXCEPT !.step = "error"]]
  /\ UNCHANGED <<job, bus, sock, hook>>

\* onSubmit, of a button that is disabled while the latest submission is pending. The
\* type is the format that was chosen; the default processor is that of most of them.
Submit(p, j) ==
  /\ OptionsShown(p) /\ flow[p].up # None /\ flow[p].asking = None
  /\ job[j].pc = "none"
  /\ \E makes \in BOOLEAN :
       job' = [job EXCEPT ![j].pc = "asked", ![j].makes = makes, ![j].file = flow[p].up]
  /\ flow' = [flow EXCEPT ![p].asks = @ \cup {j}, ![p].asking = j]
  /\ UNCHANGED <<bus, sock, hook, upsets>>

Answered(f, j) ==
  [f EXCEPT !.asks = @ \ {j}, !.asking = IF @ = j THEN None ELSE @]

\* jobMutation's onSuccess.
Started(p, j) ==
  /\ j \in flow[p].asks /\ job[j].pc # "asked"
  /\ flow' = [flow EXCEPT ![p] =
       [Answered(flow[p], j) EXCEPT !.step = "processing", !.job = j]]
  /\ UNCHANGED <<job, bus, sock, hook, upsets>>

\* Its onError: the job was not created, or the answer was lost.
NotStarted(p, j) ==
  /\ j \in flow[p].asks
  /\ Upset
  /\ flow' = [flow EXCEPT ![p] = [Answered(flow[p], j) EXCEPT !.step = "error"]]
  /\ job' = IF job[j].pc = "asked" THEN [job EXCEPT ![j].pc = "none"] ELSE job
  /\ UNCHANGED <<bus, sock, hook>>

\* onReset: Clear, Try again, Compress another file.
Reset(p) ==
  /\ OptionsShown(p) \/ FailureShown(p) \/ ResultShown(p)
  /\ flow' = [flow EXCEPT ![p] =
       [FreshFlow EXCEPT !.uploads = flow[p].uploads, !.uploading = flow[p].uploading,
                         !.asks = flow[p].asks, !.asking = flow[p].asking,
                         !.clean = flow[p].clean /\ ~Crossed(flow[p])]]
  /\ Effect(p, None)
  /\ UNCHANGED <<job, bus, upsets>>

\* The cleanup of a page that is unmounted: no error of its sockets is set any more.
Unmounted(p) ==
  LET left == Cleanup(hook[p].sk)
  IN [k \in Sockets |-> IF left[k].end = "aborted" /\ left[k].page = p
                        THEN [left[k] EXCEPT !.end = "closed"] ELSE left[k]]

\* The page is left: the cleanup runs, answers set nothing any more, and a later
\* mount starts afresh.
Leave(p) ==
  /\ flow' = [flow EXCEPT ![p] = FreshFlow]
  /\ hook' = [hook EXCEPT ![p] = FreshHook]
  /\ sock' = Unmounted(p)
  /\ UNCHANGED <<job, bus, upsets>>

UserStep(p) ==
  \/ \E f \in Files : Select(p, f)
  \/ \E j \in Jobs : Submit(p, j)
  \/ Reset(p)
  \/ Leave(p)

Answer(p) ==
  \/ \E f \in Files : Upload(p, f, TRUE) /\ UNCHANGED upsets
  \/ \E j \in Jobs : Started(p, j)

\* What the page's event loop does by itself.
BrowserStep ==
  \/ \E k \in Sockets : SocketStep(k)
  \/ \E p \in Pages : Commit(p)

Failure ==
  \/ LoseEvent
  \/ \E j \in Jobs : Failed(j) \/ TellNothing(j) \/ Redeliver(j)
  \/ \E k \in Sockets : Refuse(k) \/ Lose(k)
  \/ \E p \in Pages :
       \/ \E f \in Files : Upload(p, f, FALSE) /\ Upset
       \/ \E j \in Jobs : NotStarted(p, j)

Next ==
  \/ \E j \in Jobs : WorkerStep(j) \/ Create(j)
  \/ ApiStep
  \/ BrowserStep
  \/ \E p \in Pages : Answer(p) \/ UserStep(p)
  \/ Renew
  \/ Failure

Spec == Init /\ [][Next]_vars

\* The worker of each job and the event loops of the API and of the browser go on;
\* people, failures and new tokens owe nothing.
FairSpec ==
  /\ Spec
  /\ \A j \in Jobs : WF_vars(WorkerStep(j))
  /\ WF_vars(ApiStep)
  /\ WF_vars(BrowserStep)

-----------------------------------------------------------------------------
(***************************************************************************)
(* Properties that hold.                                                   *)
(***************************************************************************)
TypeOK ==
  /\ job \in [Jobs -> Job]
  /\ bus \in Seq(Event)
  /\ sock \in [Sockets -> Socket]
  /\ hook \in [Pages -> Hook]
  /\ flow \in [Pages -> Flow]
  /\ upsets \in 0..MaxUpsets

\* Once the effect has run, a page has no socket but that of the job it follows,
\* and none when that job has ended: however often the job, the token and the
\* status change while sockets are still connecting or closing.
FollowsCurrentJob ==
  \A p \in Pages, k \in Sockets :
    sock[k].page = p /\ sock[k].end \in {"connecting", "open"} /\ Current(p) =>
      /\ hook[p].sk = k
      /\ sock[k].job = Followed(flow[p])
      /\ hook[p].status \notin Terminal

\* o is the result of an attempt that completed its row.
Committed(o) == \E j \in Jobs : \E n \in job[j].outs : o = ResultId(job[j], j, n)

\* An end that a page shows was committed before: what it takes for the output is the
\* result of a job whose row was completed (for a job that makes none, its input), and
\* a failure was written to the row of the job it is about.
EndIsCommitted ==
  \A p \in Pages :
    /\ hook[p].out # None => Committed(hook[p].out)
    /\ hook[p].error \in Jobs => job[hook[p].error].broke

\* The flow's card always offers something to do, as long as no request crossed a
\* Clear or another file.
NeverBlank ==
  \A p \in Pages :
    flow[p].clean =>
      /\ Step(p) = "options" => OptionsShown(p)
      /\ Step(p) = "done" => ResultShown(p)

\* The page's socket is subscribed, its status is that of a running job, and the
\* effect has no reason to replace it.
Settled(p, j) ==
  /\ Current(p) /\ Followed(flow[p]) = j /\ hook[p].status = "active"
  /\ hook[p].sk # None /\ sock[hook[p].sk].end = "open" /\ Listens(hook[p].sk, j)

\* Once nothing fails any more and the token stays, a page that is settled while its
\* job is at work shows how an attempt ended, unless it stops to follow the job.
EndReachesPage ==
  \A p \in Pages, j \in Jobs :
    Settled(p, j) /\ job[j].pc = "working" /\ upsets = MaxUpsets
      ~> hook[p].status \in Terminal \/ Followed(flow[p]) # j

-----------------------------------------------------------------------------
(***************************************************************************)
(* Statements of the repository's comments that the code does not live up  *)
(* to.                                                                     *)
(***************************************************************************)
\* useJobWebSocket.ts: subscribes to real-time events for the given jobId; so the
\* end it reports is that of the job it is given.
EndIsOfGivenJob ==
  \A p \in Pages :
    Step(p) = "done" =>
      LET j == flow[p].job IN \E n \in job[j].outs : hook[p].out = ResultId(job[j], j, n)
=============================================================================
