# A TLA+ model of the file-processing platform

The platform takes files from browsers, keeps them in an S3-compatible bucket (MinIO),
runs compression and conversion jobs on them in a BullMQ worker, and shows the progress
of the jobs over a WebSocket. This directory holds TLA+ models of its concurrent core, TLC
configurations that check them on small instances, and TLAPS proofs of what matters most
for every value of the constants. Paths below are relative to the repository's root.

## 1. Inventory

### The parts and how they interact

```
browser ──HTTP──> Fastify API ──SQL──> PostgreSQL <──SQL── worker (BullMQ processors, sweeps)
   │  ╲              │   ╲                                    │  │
   │   POST policy   │    presign, stat                get/put/remove
   │    ╲            │     ╲                                  │  │
   │     ──────────> MinIO bucket <───────────────────────────┘  │
   │                 │ queue.add ──> Redis (BullMQ) ──> worker   │
   └──WebSocket── WsManager <── redisSubscriber <── Redis Pub/Sub ┘ publish
```

| part | state it keeps | operations that change it |
|---|---|---|
| Files API (`apps/api/src/services/FileService.ts`) | `files` rows: status `pending/ready/deleted`, size, created_at | createUploadUrl (insert, presign), confirmUpload (read, stat, guarded update), delete (read, update) |
| Bucket (MinIO) | objects by key, POSTs under way | POST under a presigned policy, getObject, putObject, removeObject |
| Pending-upload sweep (`apps/worker/src/cleanupPendingUploads.ts`) | the list it has read | every 15 min: read pending rows past the TTL, removeObject and softDelete each |
| Jobs API (`apps/api/src/services/JobService.ts`) | `jobs` rows: status, progress, output_file_id, error_message | create (read file, insert, queue.add), cancel (read, guarded update) |
| Job queue (`apps/api/src/queue/jobQueue.ts`, BullMQ) | entries: waiting, active with a lock, delayed, completed, failed; attemptsMade, stalled count | add, take, renew, retry, stalled check |
| Worker (`apps/worker/src/worker.ts`, `processors/`) | processors under way (concurrency 5) | updateStatus(active), getObject, two stages with progress, putObject, insert of the output row, updateStatus(completed), publish; the `failed` handler |
| Guest sweep (`apps/worker/src/cleanupGuestResources.ts`) | the list it has read | read ready guest files past the TTL, removeObject and hardDelete each (jobs go by ON DELETE CASCADE) |
| Event distribution (`redisSubscriber.ts`, `WsManager.ts`, `routes/ws`) | jobId -> sockets | subscribe, unsubscribe, broadcast, close |
| Browser job hooks (`useJobWebSocket.ts`, `useCompressFlow.ts`, `useConvertFlow.ts` and their cards) | socket, subscribed job, step shown | open and close when jobId, token or status changes, message (no reconnection, no polling); select, upload, submit, reset |
| Job lists and rows (`useRecentJobs.ts`, `useJobsPageState.ts`, `useJobPageRowState.ts`, `useJobRowState.ts`) | the query cache, one socket and hook state per row | answers of the list, messages, write-back of the hook's state into the cache, tab changes, refetch on focus |
| Files page (`FileList.tsx`, `FileCard.tsx`, `FileDetail.tsx` and hooks) | the query cache, the cards, timers of deletions | turn a page, upload, delete, invalidate, refetch |
| Guest page (`useGuestJob.ts`, `guestStore.ts`, the landing page's zones) | guest token, the request for one, the flow of a zone, calls under way | ask for a guest session, drop, submit, download, 401 -> refresh -> replay |
| Authentication (`AuthService.ts`) | `users.refresh_token_hash` (one per user), the refresh cookie of each browser | register, login, refresh (a new access token; the refresh token stays), logout, guest, changePassword |
| Browser session (`api/client.ts`, stores) | access token, user, the one refresh under way, all per tab | 401 -> refresh -> replay, sign-in forms, sign-out, bootstrap |
| API keys (`ApiKeyService.ts`) | `api_keys` rows | create (count, insert), revoke |
| Listing (`FileRepository.ts`, `JobRepository.ts`) | none | rows and total of a page by two queries |
| Fastify wiring, the rest of the UI, infrastructure | none of their own | - |

There is no transaction in the program: every handler is a sequence of single statements and
calls to other services, each an `await` at which everything else may run. The status columns,
the queue, and the bucket know nothing of each other. What keeps them consistent is
the order of the calls, the guards inside a few UPDATEs (`markReady`, `cancel`) and the
distance between time-outs.

### What is hard, and what makes each part correct

* **Files.** A confirmation races the sweep and the owner's DELETE; the policy's clock starts
  after the row's; a POST outlives its policy. Correct: an upload confirmed in time keeps its row and
  its bytes; a swept key stays empty; a row's status only moves pending -> ready -> deleted; every
  abandoned reservation is reclaimed although sweeps fail.
* **Jobs.** Attempts are repeated after errors and after lost locks, two of them may overlap,
  the `failed` handler's write is not waited for, a cancellation leaves the queue entry, the worker may die
  between any two calls. Correct: row and queue agree at the end; every queued job ends;
  outputs have their bytes and belong to their job.
* **Guest sweep.** It deletes what it read some time ago. Correct: the input of a
  job that is still to run survives.
* **Events.** Pub/Sub delivers at most once and only to those subscribed; the hook's effect runs after the render that
  changed its inputs, and frames of the old and the new socket overlap. Correct: a page has the socket of the job it follows and
  no other; an end it shows was committed first, and is that job's; once settled it learns the end. The processors do not
publish the same: the default one has no output and publishes its input's id in the output's field.
* **Sessions.** Login, refresh and logout of several browsers race on one column; a tab turns any 401
  into a refresh and a replay while it signs in, signs out or is loaded again. Correct: a refresh token that was
  replaced or logged out does not come back; 401s share one refresh and are replayed once; a tab
  that signed out stays out.
* **Lists.** A row of a list has two sources, answers and events, and writes back what it has; an invalidation meets a
  request under way; a deletion is sent 300 ms after its card collapsed. Correct: no row shows an end that was not stored, or
  takes one back; what a person did is seen once it was answered; what was clicked away is deleted.
* **Guests.** A guest is nothing but the id in a token, and the token may be replaced: by a second session, or
  by a user's when a refresh succeeds. Correct: a zone may use what it uploaded; the page gets its zone; calls end.
* **API keys.** Count-then-insert against a limit of five.

`PROJECT.json` lists each hazard with its line.

## 2. Modules

| module | what it is |
|---|---|
| `FileLifecycle` | abstract specification: what a files row promises (reserve, confirm, discard) |
| `FileStore` | Files API, bucket, browser upload and pending-upload sweep, with a clock |
| `FileStore_proofs` | TLAPS: type correctness, inductive invariant, two safety theorems, refinement of `FileLifecycle` |
| `JobPipeline` | Jobs API, queue, processors, `failed` handler, worker crashes, guest sweep |
| `JobPipeline_proofs` | TLAPS: type correctness, inductive invariant, and the four safety theorems of the pipeline |
| `Sessions` | AuthService and its routes, refresh cookies, and the browser tabs: store, interceptor, forms, sign-out, bootstrap |
| `Sessions_proofs` | TLAPS: type correctness, inductive invariant, and the four safety theorems of sessions |
| `JobWatch` | what the worker publishes, Redis Pub/Sub, `WsManager`, the sockets, `useJobWebSocket` and the two flows |
| `JobWatch_proofs` | TLAPS: type correctness, inductive invariant, three safety theorems |
| `JobLists` | the lists of jobs: queries in the cache, the rows' hooks with their write-back, the events they follow |
| `JobLists_proofs` | TLAPS: type correctness, inductive invariant, two safety theorems and an action theorem |
| `FilePages` | the files page: the list in pages, uploads, deletions and the invalidations they cause, the two reads of the server |
| `FilePages_proofs` | TLAPS: type correctness, inductive invariant, the safety theorem of the list |
| `GuestVisit` | the landing page's visitor: guest sessions, the zones' calls, the interceptors, the swap of a guest for a user |
| `GuestVisit_proofs` | TLAPS: type correctness, inductive invariant, a safety theorem and an action theorem |
| `MCFileStore`, `MCJobPipeline`, `MCSessions`, `MCJobWatch`, `MCJobLists`, `MCFilePages`, `MCGuestVisit` | instances for TLC (symmetry, tabs and browsers) |

The modules cut the system where it is narrow. `JobPipeline` keeps the rows of `jobs` and the queue; `JobWatch` and `JobLists` take from it the order in
which an attempt stores and publishes, and add what browsers make of it. `JobWatch` has the life of a socket in full and `JobLists`
only as opening, open and gone, but with a cache beside it. `Sessions` has the users' tokens, `GuestVisit` the guests', and of the users' only what a
refresh does to a guest. `FileStore` has the life of a files row, `FilePages` its lists.

### How state and actions correspond to the code

**FileStore.** `status`, `size`, `createdAt` are the columns of `files`; a row and its storage
key are one id, because the key contains the row's UUID. `object` is the bucket, by the size of
the object (0: none), `expires` the expiry in the policy the client received, `uploading` a POST
whose policy MinIO has accepted and whose bytes are still coming in. A request is a slot with a
`step` (its next call) and an `arg` (its row); the ownership check is left out, since rows of
one owner are all there is. `ReserveRow`/`Presign` are the two halves of `createUploadUrl`,
`ConfirmRead`/`ConfirmStat`/`ConfirmMarkReady` the three of `confirmUpload`, with its early returns
(already ready: reply; deleted or absent: 404; no object, too small or too large: error), and
`DeleteRead`/`DeleteWrite` those of `delete`. `SweepFind`, `SweepRemove`,
`SweepSoftDelete` are the sweep's statements; a removeObject that fails is
logged and the row soft-deleted all the same, a failing softDelete or a crash ends the run (`SweepFails`). The
interval timer does not wait for the previous run, so `Sweeps` has two slots.
The clock `Tick`s within `Horizon`; it may not pass the moment at which a reply or a POST
would exceed `ReplyLatency` or `UploadTime`.

**FileLifecycle.** Only the statuses. `FileStore` implements it
(`INSTANCE FileLifecycle WITH Files <- Files, status <- status`); `FollowsLifecycle` is its specification, checked as a property.

**JobPipeline.** `fstatus`, `producer` and `objects` are files and bucket as the worker sees
them (upload over): the key of an output row is `processed/<user>/<job>/<name>`, the
same for every row one job produces, hence `KeyOf`. `jstatus` ... `jprog` are columns of `jobs`
(`jprog` in thirds: 33, 66 and 100 %). `bull`, `attempts`, `stalls` and `lock` are the BullMQ
entry. `rjob`, `rstep`, `rout` is one call of a processor with its next statement; the compress and
convert processors differ in what they compute only and are `"image"`; the default processor has no file and
is `"default"`, its five equal stages folded into two. `failWrites` holds updates which the
`failed` handler has started and which are not applied yet, `progWrites` progress updates left
behind when the other promise of a `Promise.all` rejects. `CreateRead/Insert/Enqueue`,
`CancelRead/Write` are the API; `Take`, `Activate`, `ReadInput`, `Fetch`, `Stage`, `Put`,
`Record`, `Complete`, `Return` a processor, each of which may throw instead (`Throw`,
`StageRejects`); `Retry`, `LoseLock`, `Redeliver`, `WorkerCrash` are BullMQ and the process;
`GuestFind/Remove/HardDelete` the sweep with the cascade. `updateStatus` has no guard, and neither has
`SetRow`. History variables (`settledOnce`, `lateJobs`, `strays`, `lost`, `sweptKeys`)
are written by the actions and read only by properties.

**Sessions.** One account. `password` and `hash` are its two columns, `jar` the refresh cookie of each
browser, `access`, `user` and `shared` the store and the `refreshPromise` of each tab. A refresh token has nothing
that differs from another of the same user but the second of signing, so it *is* that second, and so is its hash; an access
token is the second at which it expires. `req` is a set of slots, one per HTTP request under way: `step` is `sent`
(with the server), `work` and `store` (between two awaits of its handler), `reply` (answered), `waiting` (answered 401,
and its promise waits for the refresh), or `pause` (the second after a registration).
`ReadUser`, `LoginSign`, `StoreToken` are the three parts of `login` between its awaits, `ReadUser`,
`RegisterCreate`, `StoreToken` those of `register`, `RefreshRead`/`RefreshReuse` those of `refresh`,
`ReadUser`/`ComparePassword`/`StorePassword` those of `changePassword`; `Authenticate` is the preHandler, and the whole
handler of requests that change no session. On the browser's side `SignedIn` and `RegisterPauseOver` are
the two forms, `SignedOut` is `handleLogout`, `Intercept`, `Refreshed`, `RefreshFailed` the three ways through the response interceptor,
`Reload` and `Booted` the bootstrap, `Orphaned` an answer to a page that is gone. `bcrypt.compare` is equality; the JWT signature
is always right. Cookies are sent with every request in the code, and read by `refresh` only, so only that carries one. History variables:
`signedAt`, `twins` (seconds in which two sign-ins got the same token), `revoked`, `closed`.

**JobWatch.** `job` reduces each job to the order in which an attempt activates its row (`Activate`), publishes progress (`Progress`, all of
which it waits for), commits its result (`Finish`) and publishes the end (`Announce`). A job `makes` an output, or its type is one of those that `worker.ts:56-58` sends to
`DefaultProcessor`, which completes the row without an output and publishes the id of its input: `ResultId` is what is published in either case. The `failed` handler updates the row and
publishes (`TellFailure`) or does not (`TellNothing`). An attempt may throw at each of these (`Failed`) or be delivered again
(`Redeliver`). Attempts that overlap, and cancellation, which publishes nothing, are `JobPipeline`'s. `bus` is Redis Pub/Sub, one
connection and hence in order; `Broadcast` is the subscriber's callback with
`WsManager.broadcast`. `sock[k]` holds both ends of one socket: `end` is the browser's `readyState`, `subs` its set in
`WsManager.subscriptions` (None while it is not registered), `up` and `down` the frames on their way. A socket that is closed while it connects is
`aborted`: its error is still to come and is set in the state of its page (`Errored`), unless that is gone (`Unmounted`). `hook` is the state
of `useJobWebSocket`, with `deps`, the dependencies of the effect's last run (of the token only whether it is still the same); `Effect` is that run, cleanup included, and `Commit` the
render it comes after, so that a message may be handled between a state change and the effect it causes. A click renders at once, hence `Select`, `Reset` run
the effect in the same step. `flow` is the state of the two flow hooks, which differ only in the options they send; the requests
under way (`uploads`, `asks`) outlive a reset, and `uploading`, `asking` are what `isPending` looks at. `Step` is `effectiveStep`.
History variables: `outs`, `broke`, `clean`.

The guards `DropShown`, `OptionsShown`, `FailureShown`, `ResultShown` are what the steps of a card offer.

**JobLists.** `job` is a row and the worker's side of it, in the order of `JobWatch`; `cache` and `fetch` are the queries of the lists, with the two
moments of a request (`Read`, `Answer`); `view` is the list on the screen. `hook` is a mounted row: `prop` the job it was last
rendered with, `status` and `prog` the state of `useJobWebSocket`, `ran` the dependencies its two effects last ran with, `sock` and `inbox` its socket.
A commit (`Committed`) renders a row and runs its effects: `Listen` leaves and replaces the socket, and
`WriteBack` is the `setQueryData` of the rows that write. `Rendered` renders a whole list, `RenderList` is the rendering that follows a change of the cache, `CommitRow` the
one that follows a message, with the job the row already has. `Visit` changes the list; the tabs of the jobs page keep the elements of
common rows, the dashboard does not. The jobs are such that make an output. History: `was`, `got`, `first`.

**FilePages.** Files are numbers in the order of creation, a page is cut from the present ones by `offset` and `limit` (`PageRows`), and its rows and its total are
read by `ReadRows` and `ReadTotal` in either order. `Invalidate` is `invalidateQueries(['files'])`: the query on the screen is asked for anew, and a request of it under way is
cancelled unless there is nothing to show meanwhile; requests of other keys go on. `Drop`, `Reserve`, `Confirm`, `Uploaded` are an upload; `Collapse`, `Fire`,
`FindRow`, `RemoveRow`, `Deleted` the deletion of a card, whose timer is not cleared; `DeleteFile` that of the file's page, which is left for the list unless it has
been left before. `Elsewhere` is another tab or a job's output. History: `old`, `stale`, `apart`.

**GuestVisit.** A guest is the number of its session; a token is who and until when. `Mount` is the effect of `useGuestJob`, which looks at the token once (`CheckSession`);
`Sign`, `StoreGuest`, `AskFails` are the request. `Drop`, `Submit`, `Download`, `Reset` are what a zone offers; a call is made with the
token of its moment (`Present`), an upload is two calls with the POST between them (`Confirm`). `Serve` is `authenticate` and the ownership test. `Intercept`, `Refreshed`,
`Settle` are the response interceptor with its shared refresh, and `RefreshServed`, `RefreshFails` what becomes of that at the API: it carries the cookie of the
moment it was sent at (`OneRefresh`), which is no good any more if the session ends or is replaced before it is served (`Ended`). `Told` is what the answer does to the flow of its zone, if it is still there. `SignIn`, `SignOut`
happen on other pages, `Elsewhere` in other tabs. History: `crossed`, `swapped`.

## 3. Runs

| run | question | result |
|---|---|---|
| `file_store` | Is an upload that was confirmed in time safe from two overlapping sweeps; does a swept key stay empty; do the statuses follow the lifecycle; is an abandoned reservation reclaimed although sweep runs fail? | holds |
| `job_rows` | When the queue is done with a job, does its row say how it ended? | holds, but for jobs an expired attempt wrote to and for lost updates |
| `job_outputs` | Does the guest sweep keep the input of a job that never left pending/active; do output rows have bytes, and references to them an existing row of that job? | holds, but for jobs inserted after the sweep read the file, and for keys a sweep emptied |
| `job_live` | Does each queued job end and stay ended? | holds, under the fairness below |
| `sessions` | Do revoked tokens stay revoked, do 401s share one refresh, do replays act once, does a signed-out tab stay out? | holds, but for twin tokens and for tokens on their way at the sign-out |
| `sessions_live` | Is every request over at some time? | holds, under the fairness below |
| `job_watch` | Has a page the socket of its job only; was an end it shows committed, and is what it takes for the output the result of a completed row; is there always something to do; does a settled page learn the end? | holds; the third for flows whose requests crossed no Clear, the last once nothing fails and the token stays |
| `job_watch_second` | "real-time events for the given jobId" | violated: the second job of a mount is shown with the first one's end and output |
| `job_lists` | Was an end a row shows stored before; is an end kept that the row was told, against an older answer; does an answered end stand against a write-back; does a subscribed row learn the end? | holds; the last two for rows that were not mounted pending |
| `job_lists_written` | "Propagate live WS updates back into the TanStack Query cache" | violated: a row mounted pending writes pending over the answer that its job is active |
| `file_pages` | Once all a tab did was answered, is the page it shows the server's, count included; is a clicked file deleted? | holds, unless the tab was not told of a change, or the answer is of a request that no invalidation cancelled |
| `guest_visit` | May a zone use what it uploaded; is a guest's call not refused as expired in the margin after the page was opened; does the page get its zone; do calls end? | holds, but for visits with two sessions asked for at once or a change of identity by a refresh; the zone unless the request fails |

The exceptions in the passing properties (`strays`, `lost`, `lateJobs`, `sweptKeys`, `twins`, `TokenToCome`, `first`, `stale`, `apart`, `crossed`, `swapped`) are each the smallest
set with which TLC finds no counterexample. They are the precise statement of what the code
does *not* promise, and each has a hazard in `PROJECT.json`. Some of them, and two behaviours that no property
forbids, contradict a comment of the code, and are described here, not run:

* A confirmation that reaches the row after a sweep has read it is answered 200 and the file is swept all the same, while
  `cleanupPendingUploads.ts:7-8` speaks of uploads "that never reached POST /files/:id/confirm-upload".
* A job inserted after the guest sweep has read its file, or in retry backoff (status failed) when it is read, loses its input and its row,
  while `FileRepository.ts:24-25` says that "in-flight processing is never swept".
* Two logins of one user in the same second get the same refresh token, so the second does not end the first one's
  session, while `AuthService.ts:95` says "single active session per user".
* `job:failed` is published for every attempt that fails (`worker.ts:71-78`), those that will be retried included, while `websocket.ts:46` says "Emitted once
  when the Worker marks a job as failed after exhausting retries". The page takes it for final and leaves its socket, so it does not learn of a later success. For
  `EndReachesPage` such a failure is an end.
* The default processor (a simulation, by its own comment) gets every type but compress, jpeg, png and webp (`worker.ts:56-58`), most formats of the Converter page
  among them. It completes the row with an `outputPath` only and publishes the id of its input as `outputFileId` (`defaultProcessor.ts:52-53`), so that the page offers the unchanged
  input as the result, while `websocket.ts:41` says "The ID of the processed output file". `EndIsCommitted` allows for it: the result of such a job *is* its input (`ResultId`).

### Bounds, and why they are enough

* `file_store`: one reservation (rows touch each other nowhere; the theorems are for any number), three requests (two
  handlers race, a third follows), two sweep runs, and two faults, one for each sweep slot. Sizes 0, 1, 2 around `MaxFileSize = 1` give
  an empty, a good and a too large object. The clock runs to 6 with `PendingTtl = 3`, so that a row can be confirmed
  at the last moment, swept, and watched afterwards. `PresignedTtl`, `ReplyLatency` and
  `UploadTime` are 1 each: their sum equals `PendingTtl`, the tightest case `TtlAssumption` permits.
* `job_rows`: one job (rows of different jobs do not touch each other but by the sweep),
  two runs so that an attempt that lost its lock overlaps its successor, two attempts, one stalled
  delivery, one crash, one lost lock, one lost update.
* `job_outputs`: one job, two outputs under one key by a retry, and the sweep.
* `job_live`: the faults of `job_rows` but for lost locks (a run that lost its lock may write at any later time, which
  is what `strays` excludes).
* `sessions`: two browsers with a tab each, since the column is what they fight over; three slots, so that a
  request, the refresh it caused and a request of the other browser overlap; `AccessTtl = 1` and `RefreshTtl = 2` with a clock to 1, so that an access
  token expires and a refresh token does not; one failing request; one password. Registration and password change do not occur here: they
  do in `sessions_live`.
* `sessions_live`: one tab, two slots (the least for a refresh), all uses, two passwords, a clock to 2, so that refresh tokens
  expire, too.
* `job_watch`: one page, since pages share nothing but the bus; two sockets, so that the old one of the page is still closing while the new one
  connects; one job of two attempts with one progress event each, so that the failure of the first may be published before or after the second began;
  one failure or new token of any kind; the job makes an output or none.
* `job_watch_second`: two jobs of one attempt, no failure.

* `job_lists`: one job (rows do not touch each other) of one attempt and one progress event, in two tabs that share its row and differ in
  whether they hold it when it ends; three changes of the view or the window, so that a list is left, seen again and refetched; one loss. The pair
  recent/active gave no error either. `job_lists_written`: the dashboard's list.
* `file_pages`: two files in pages of one, one there at the start and one to be uploaded, so that an upload or a deletion shifts
  rows between pages and empties the last; one deletion, one failure or change from elsewhere, two changes of the page.
* `guest_visit`: two sessions (the second may replace the first), one call, three changes of page or tab, one failure, tokens of 3 that are
  replaced below 2, a clock to 4, so that a token expires in a visit and between visits. Two calls with one change less of the page and a
  clock to 3 gave no error either.

`SYMMETRY` is used in safety runs only. `CHECK_DEADLOCK FALSE` is said for `JobLists`, `FilePages` and `GuestVisit` only: there every action uses up a
bound or answers what another began, so that a behaviour of a bounded instance may end. Elsewhere clients may always ask for something.

### Fairness

`FileStore!FairSpec`: the clock goes on and each sweep slot does (`setInterval`), weakly
fair; clients owe nothing. Faults are bounded, which stands for "the database answers again at
some time". `JobPipeline!FairSpec`: weak fairness for BullMQ's delivery, retry and stalled check of each job, for
each processor (its next call returns or throws) and for the landing of writes that were
started. API requests, owners, sweeps, crashes and lost locks are not obliged to happen.
`Sessions!FairSpec`: weak fairness for each request: its handler goes on, and its answer is handled. People, the clock
and failures owe nothing. One slot is kept free by `Begin` and `Reload`, so that an intercepted request
can send its refresh: a browser has no such limit.

`JobWatch!FairSpec`: weak fairness for the worker of each job, for the event loop of the API (subscriber and all sockets) and for that of
the browser (sockets and effects), as a whole each. People, failures (`MaxUpsets` of them) and new tokens owe nothing. `EndReachesPage` is claimed from the moment the page is
settled: its socket subscribed, its status active, and nothing left to fail. A failure that does not come is no loss of cases: another that did no harm before leaves the same
states. Before a page is settled an end may be lost, as the hazards say.

`JobLists!FairSpec`: the worker, the subscriber, each row's event loop, the rendering after a change of the cache, and the two steps of a request. `FilePages!FairSpec`: the steps
of requests, uploads and deletions, the timer included. `GuestVisit!FairSpec`: the guest session's request, each call and the
refresh. People, the clock and failures owe nothing in any of them.

## 4. Proofs

All of these hold for any number of files, jobs, requests, runs and sweeps, and any
constants that satisfy the named assumptions.

**FileStore_proofs** rests on `ConstantsAssumption` and `TtlAssumption`: the latest moment at which bytes can still arrive,
`ReplyLatency + PresignedTtl + UploadTime` after the insert, is not after the sweep's TTL. The defaults (900 s of
policy, 3600 s of TTL) satisfy it; both are configurable separately and no code compares them. One clock
is assumed for API, worker, database and MinIO.

`PromptConfirmKept` is not inductive: a sweep that holds a row in `found` deletes it whatever its status is. The
inductive invariant `IInv` therefore also says that

* nothing is in the bucket for a row that was never inserted (`NoTraceBeforeInsert`),
* a row under `markReady` that is not overdue has a good object (`VerifiedUntilOverdue`, `BytesMatch`),
* only confirmed rows have a confirmation time (`UnconfirmedHasNoTime`),
* whatever a sweep has found or removed is past its TTL (`SweptIsOverdue`),
* a policy, and any POST it admitted, ends before the row is overdue (`PolicyEndsInTime`).

From it follow `PromptConfirmIsSafe` and `NoUploadAfterSweep`. `Refinement` maps each step
to a step of `FileLifecycle` or to a stutter: the guard of `markReady` makes confirm-after-discard impossible, and
a soft delete of a deleted row is a stutter.

**JobPipeline_proofs** rests on `PipelineAssumption` (disjoint ids, at least one attempt). None of
`InFlightInputKept`, `OutputHasBytes`, `OutputIsOwn`, `QueueAndRowAgree` is inductive. What makes them so:

* `EntryHasRow`: the queue and the runs know only inserted jobs, a lock means an active entry, and one request
  enqueues a job. This is what tells the awaited `failed` update from one that arrives in a later attempt.
* `FilesExist`, `RowHasInput`: foreign keys; the cascade keeps the second when a file is hard-deleted.
* `UnsettledIsInFlight`: a row never completed or failed has a status that the sweep's query counts. Without
  it the query and the property speak of different jobs.
* `InputBytesOrSwept`, `PutBeforeRecord`: bytes disappear by sweeps only, and are stored before their row is.
* `StepFitsType`, `HolderHasWritten`: a run about to return that still has the lock left its row completed; that is how
  BullMQ's `completed` implies the row's. A run without the lock makes its job a stray as soon as it writes.

`DoneSurvivesSweep` is the one step that crosses components: when the sweep hard-deletes an output, SET NULL clears
`output_file_id` and the row stays completed, with the deleted output as the only trace.

**Sessions_proofs** rests on `SessionAssumption` (a browser for each tab, `None` is nothing else). `RevokedStaysRevoked` depends on what is on its way to the
column: `StoredOnce` says that a token about to be stored, signed by one sign-in only, was never stored and is about to be stored by
no other request; it needs `SignedBefore` (every token around was signed at a second that has come), by which a token signed *now* for the first time is new.
`OneRefreshPerTab` is inductive with the shape of the slots (`Shape`); `ActsOnce` needs `NotYetDone` (a request answered 401
did nothing), and `SignedOutStaysOut` needs `ClosedHasNoCookie`: the browser has no cookie, its refreshes under way carry
none, and no bootstrap of the tab is past its refresh, which in turn needs `BootIsAlone`. The proof goes through *effects*: for each action, one lemma
says what it does to the requests (`ServerEffect`, `ReloadEffect`, `InterceptEffect`, ...), and each part of the
invariant is derived from those.

**JobWatch_proofs** rests on `WatchAssumption` and `NoneIsNoFile` (`None` is nothing else, "socket" is no job, at least one attempt). `FollowsCurrentJob` speaks of
moments at which the effect has just run; in between it is false, so the invariant is `OwnSockets`: the live socket of a page is the one of the effect's *last* run, for the
job and status of that run. `Narrowed` is what every step does to sockets, `Effect` apart: no new live one. `EndIsCommitted` needs
`EventsAreSound`: no event on the bus or in a socket says more than the rows, and rows take nothing back (`JobsMove`): neither a completion nor, once there is one,
the type and the input on which the result depends (`Keeps`); `AttemptsAdd` keeps
the attempts and the open `failed` handlers within `MaxAttempts`. `NeverBlank` needs `NoFileNoAnswers`: a flow without a file that nothing crossed waits
for no answer, so none can bring it to a step that needs the file; and `EndHasOutput`, since only messages set a status and its output.

**JobLists_proofs** rests on `ListsAssumption` and `NoneIsNoRecord`. `ShownEndIsCommitted` needs soundness only: whatever answer, event or
written-back row is around says something the job's row *has* said (`JobsAreSound`, `EventsAreSound`, `ListsAreSound`, `HooksAreSound`). `AnsweredEndStands` is
about two rows of the cache, what was answered and what was written over it, and about who is going to put it right:

* `NotPendingAgain`, with `PendingIsFirst`: a list in which a job was seen at work has no answer under way that says pending. So a row that is not
  pending is put back to pending only by a hook that was itself mounted pending, which is what the property leaves out (`first`).
* `BusInOrder`, `InboxInOrder`: for a job that goes straight through (`Smooth`: one attempt, nothing failed or lost) the completion is the last event on the bus, and
  nothing follows it to a socket. A row that heard it hears nothing older afterwards.
* `WriterHears`: when something older stands over an answered completion, the row that wrote it is mounted and the completion is not stored yet, on the
  bus, or in its socket. So the state is not quiet.

`EndNotTakenBack` is a statement about the step that draws the list again (`RenderList`), the only one that gives a row another `prop`: by `ListsAreSound` the new row is not
failed, by `NotPendingAgain` not pending, and over an active or completed one the row shows what it was told.

**FilePages_proofs** rests on `PagesAssumption` (at least one file, pages of at least one row). `ShownIsCurrent` says something of the page on the screen only when no request
for it is under way; what that request is going to bring is `FetchedIsCurrent`: as long as every change of the tab was told to the cache
(`~Untold`), what a request has read so far, and no invalidation has overtaken, is what is there, rows and total separately, since the server reads them by two queries. `ReservedIsPending`
is needed because an upload changes the list only when its row is confirmed. That a list has no more pages than files (`PagesAreKeys`) and that the present files are
finitely many (`PresentIsFinite`) are the lemmas about the model's operators.

**GuestVisit_proofs** rests on `VisitAssumption` (a token is signed for no less than the margin) and `NoneIsNoToken`. What makes the two properties inductive:

* `OneSession`: until two sessions were asked for at once, at most one is under way, and while it is there is no token.
* `ZonesAreNew`: a zone that appears is none that a call is of, so an answer for an earlier one does not reach it.
* `ZoneIsOwn`: every call and file of the zone on the screen is that of the one the tab acts for; `Own` says what this is for each
  state of a call. It needs `Roles`: a refresh that finds a user signed in, or nobody, does not change for whom the next request is made.
* `TokensLast`: the tokens a guest may use in this visit are good for the margin after the page was opened.

`SentIsNew` excludes an answer before the server's. `FileStaysOwn` follows from the first four, `GuestHasAMinute` from the last
and from `Serve` being the only step that makes a call expired.

Only model-checked are liveness (`AbandonedIsReclaimed`, `JobsSettle`, `RequestsSettle`, `EndReachesPage`, `RowLearnsEnd`, `ClickDeletes`, `ZoneAppears`, `CallsEnd`), since
fairness and ENABLED are out of the prover's reach, and the two statements that are violated. Every other property of a run is a theorem.

## 5. What is not modelled

* Contents of files, image processing, MIME checks: pure functions of their input.
* Ownership of file and job requests of users: one condition at the head of a handler. For guests, whose identity changes, it is in `GuestVisit`.
* Several accounts in one browser.
* API keys: no route accepts one, and nothing but their own two statements touches the table. Two requests that count four keys each make six
  (`ApiKeyService.ts:43`); what holds is five plus the requests under way less one.
* Two registrations of one email: the second insert fails on the unique index and is answered 500, not 409.
* Deletion of a user (cascade over everything): no route does it.
* BullMQ's eviction of finished entries (removeOnComplete): it has no effect on rows.
* Pages of the lists of jobs, the search for files by name, the query of one file, the panel that submits a job on a file's page: the same queries under other keys.
* A page left without rows by the deletion of its last one, whose pager is gone if one page remains (`FileList.tsx:86`), happens in `FilePages`, and is what the
  server says of that page; no property forbids it.
* Rows of one `created_at`, whose order PostgreSQL leaves open.
* Clock skew between hosts: one clock is assumed.
* Fastify wiring, rate limits, schema validation, React rendering but for what is said above, containers.

## 6. Plan

1. `FileStore`, `FileLifecycle` and proofs: done.
2. `JobPipeline` and proofs of its safety invariants: done.
3. `Sessions` (API and browser together) and proofs of its safety invariants: done.
4. `JobWatch` and proofs of its safety invariants: done.
5. `GuestVisit` and proofs of its safety properties: done.
6. `JobLists` and `FilePages`, with proofs of their safety properties: done.
7. More proofs: the worker of `JobWatch` as what `JobPipeline` does with one attempt at a time (`JobWatch` has no attempts that overlap after a lost lock).
