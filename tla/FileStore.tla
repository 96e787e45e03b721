----------------------------- MODULE FileStore -----------------------------
(***************************************************************************)
(* The life of an uploaded file: the rows of the files table, the objects  *)
(* in the MinIO bucket, the API handlers of apps/api/.../FileService.ts    *)
(* that reserve, confirm and delete a file, the browser that posts the     *)
(* bytes straight to MinIO, and the worker's sweep of abandoned uploads    *)
(* (apps/worker/src/cleanupPendingUploads.ts).                             *)
(*                                                                         *)
(* A handler is cut where it awaits the database or the object store, so   *)
(* that everything else may run between two of its steps.  One step of a   *)
(* handler is one SQL statement or one MinIO call with the code around it. *)
(***************************************************************************)
EXTENDS Naturals, FiniteSets

CONSTANTS
  Files,          \* ids of the file rows (each row has an object key of its own)
  NoFile,         \* "no row": what an idle handler or sweep works on
  Requests,       \* slots for API requests in flight at the same time
  Sweeps,         \* slots for runs of the pending-upload sweep, which may overlap
  Sizes,          \* sizes a client may ask for, or send
  MaxFileSize,    \* config.upload.maxFileSizeBytes
  PresignedTtl,   \* config.upload.presignedUrlTtlSeconds, in ticks
  PendingTtl,     \* pendingUploadCleanup.ttlSeconds of the worker, in ticks
  ReplyLatency,   \* bound: ticks between the insert and the presigned reply
  UploadTime,     \* bound: ticks a POST may still run once its policy expired
  Horizon,        \* bound: the clock stops here
  MaxFaults       \* bound: crashes and failing statements of the sweep

ASSUME ConstantsAssumption ==
  /\ NoFile \notin Files
  /\ Sizes \subseteq Nat
  /\ {MaxFileSize, PresignedTtl, PendingTtl, ReplyLatency, UploadTime,
      Horizon, MaxFaults} \subseteq Nat

\* The deployment's time-outs leave room between the last moment at which
\* bytes may still arrive for a reservation and the sweep of that reservation
\* (900 s and 3600 s by default, both configurable on their own).
ASSUME TtlAssumption == ReplyLatency + PresignedTtl + UploadTime <= PendingTtl

VARIABLES
  now,            \* the clock, 1..Horizon (0 stands for "never")
  status,         \* files.status, "none" before the insert
  size,           \* files.size
  createdAt,      \* files.created_at
  expires,        \* expiry of the policy handed to the client, 0 if none was
  object,         \* size of the object under the row's key, 0 if there is none
  uploading,      \* size of the POST in flight to the row's key, 0 if none
  step,           \* where each API request stands
  arg,            \* the row each API request works on
  found,          \* rows a sweep run has read and not handled yet
  cur,            \* row whose object a sweep run removed last
  faults,         \* faults of the worker so far
  confirmedAt,    \* history: when markReady took the row, 0 if never
  userDeleted,    \* history: rows a client's DELETE took
  removed         \* history: rows whose object a sweep run removed

rows     == <<status, size, createdAt>>
bucket   == <<expires, object, uploading>>
requests == <<step, arg>>
sweep    == <<found, cur, faults>>
history  == <<confirmedAt, userDeleted, removed>>
vars     == <<now, rows, bucket, requests, sweep, history>>

Status == {"none", "pending", "ready", "deleted"}
Steps  == {"idle", "presign", "stat", "markReady", "softDelete"}

Init ==
  /\ now = 1
  /\ status = [f \in Files |-> "none"]
  /\ size = [f \in Files |-> 0]
  /\ createdAt = [f \in Files |-> 0]
  /\ expires = [f \in Files |-> 0]
  /\ object = [f \in Files |-> 0]
  /\ uploading = [f \in Files |-> 0]
  /\ step = [r \in Requests |-> "idle"]
  /\ arg = [r \in Requests |-> NoFile]
  /\ found = [s \in Sweeps |-> {}]
  /\ cur = [s \in Sweeps |-> NoFile]
  /\ faults = 0
  /\ confirmedAt = [f \in Files |-> 0]
  /\ userDeleted = {}
  /\ removed = {}

-----------------------------------------------------------------------------
(***************************************************************************)
(* The API: FileService.                                                   *)
(***************************************************************************)
\* Request r goes on with its next await, about row f; or it replies.
Await(r, s, f) ==
  /\ step' = [step EXCEPT ![r] = s]
  /\ arg' = [arg EXCEPT ![r] = f]

\* Variant with a bug: the row of an answered request is not forgotten.
ReplyKeepsRow(r) == step' = [step EXCEPT ![r] = "idle"] /\ UNCHANGED arg

Reply(r) == Await(r, "idle", NoFile)

\* createUploadUrl up to its insert: the size guards, then a pending row.
\* A row is reserved only while its time-out still fits below the Horizon.
ReserveRow(r, f, n) ==
  /\ step[r] = "idle"
  /\ n > 0
  /\ n <= MaxFileSize
  /\ status[f] = "none"
  /\ now + PendingTtl < Horizon
  /\ status' = [status EXCEPT ![f] = "pending"]
  /\ size' = [size EXCEPT ![f] = n]
  /\ createdAt' = [createdAt EXCEPT ![f] = now]
  /\ Await(r, "presign", f)
  /\ UNCHANGED <<now, bucket, sweep, history>>

\* Variant with a bug: the policy is given the worker's TTL.
PresignForPendingTtl(r) ==
  /\ step[r] = "presign"
  /\ expires' = [expires EXCEPT ![arg[r]] = now + PendingTtl]
  /\ Reply(r)
  /\ UNCHANGED <<now, rows, object, uploading, sweep, history>>

\* createUploadUrl after its insert: the policy expires PresignedTtl after
\* this moment, not after the row's created_at; the client learns its id.
Presign(r) ==
  /\ step[r] = "presign"
  /\ expires' = [expires EXCEPT ![arg[r]] = now + PresignedTtl]
  /\ Reply(r)
  /\ UNCHANGED <<now, rows, object, uploading, sweep, history>>

\* confirmUpload up to statObject: a ready row is an idempotent 200, a missing
\* or deleted one an error; only a pending one goes on.
ConfirmRead(r, f) ==
  /\ step[r] = "idle"
  /\ IF status[f] = "pending"
       THEN Await(r, "stat", f)
       ELSE UNCHANGED requests
  /\ UNCHANGED <<now, rows, bucket, sweep, history>>

\* statObject and the size check.  Any failure of the call, a missing object
\* included, is a 409.
ConfirmStat(r) ==
  /\ step[r] = "stat"
  /\ \/ /\ object[arg[r]] = size[arg[r]]
        /\ Await(r, "markReady", arg[r])
     \/ Reply(r)
  /\ UNCHANGED <<now, rows, bucket, sweep, history>>

\* Variant with a bug: markReady without its guard on the status.
MarkReadyUnguarded(r) ==
  /\ step[r] = "markReady"
  /\ status' = [status EXCEPT ![arg[r]] = "ready"]
  /\ confirmedAt' = [confirmedAt EXCEPT ![arg[r]] = now]
  /\ Reply(r)
  /\ UNCHANGED <<now, size, createdAt, bucket, sweep, userDeleted, removed>>

\* FileRepository.markReady: one UPDATE, guarded by status = 'pending'.
ConfirmMarkReady(r) ==
  /\ step[r] = "markReady"
  /\ IF status[arg[r]] = "pending"
       THEN /\ status' = [status EXCEPT ![arg[r]] = "ready"]
            /\ confirmedAt' = [confirmedAt EXCEPT ![arg[r]] = now]
       ELSE UNCHANGED <<status, confirmedAt>>
  /\ Reply(r)
  /\ UNCHANGED <<now, size, createdAt, bucket, sweep, userDeleted, removed>>

\* delete up to softDelete: a missing or already deleted row is an error.
DeleteRead(r, f) ==
  /\ step[r] = "idle"
  /\ IF status[f] \in {"pending", "ready"}
       THEN Await(r, "softDelete", f)
       ELSE UNCHANGED requests
  /\ UNCHANGED <<now, rows, bucket, sweep, history>>

\* FileRepository.softDelete, whatever the row's status is by now.  The object
\* stays in the bucket.
DeleteWrite(r) ==
  /\ step[r] = "softDelete"
  /\ status' = [status EXCEPT ![arg[r]] = "deleted"]
  /\ userDeleted' = userDeleted \cup {arg[r]}
  /\ Reply(r)
  /\ UNCHANGED <<now, size, createdAt, bucket, sweep, confirmedAt, removed>>

\* The API process dies, or the statement a request waits for fails: the
\* request is gone and what it wrote stays.
RequestFails(r) ==
  /\ step[r] # "idle"
  /\ Reply(r)
  /\ UNCHANGED <<now, rows, bucket, sweep, history>>

-----------------------------------------------------------------------------
(***************************************************************************)
(* The browser and MinIO: a POST under the presigned policy.               *)
(***************************************************************************)
\* MinIO accepts a POST of n bytes while the policy it was issued is valid:
\* not expired, and content-length-range(size, size).
BeginUpload(f, n) ==
  /\ expires[f] # 0
  /\ now <= expires[f]
  /\ n = size[f]
  /\ uploading[f] = 0
  /\ uploading' = [uploading EXCEPT ![f] = n]
  /\ UNCHANGED <<now, rows, expires, object, requests, sweep, history>>

\* The POST ends: the object appears as a whole, or the connection broke.
EndUpload(f) ==
  /\ uploading[f] # 0
  /\ \/ object' = [object EXCEPT ![f] = uploading[f]]
     \/ UNCHANGED object
  /\ uploading' = [uploading EXCEPT ![f] = 0]
  /\ UNCHANGED <<now, rows, expires, requests, sweep, history>>

-----------------------------------------------------------------------------
(***************************************************************************)
(* The worker: cleanupPendingUploads.                                      *)
(***************************************************************************)
\* Variant with a bug: the query forgets status = 'pending'.
ExpiredAnyStatus == {f \in Files : status[f] # "none" /\ createdAt[f] + PendingTtl < now}

\* findExpiredPending(now - PendingTtl)
ExpiredPending ==
  {f \in Files : status[f] = "pending" /\ createdAt[f] + PendingTtl < now}

\* The interval fires and the run reads the expired rows.
SweepFind(s) ==
  /\ found[s] = {}
  /\ ExpiredPending # {}
  /\ found' = [found EXCEPT ![s] = ExpiredPending]
  /\ UNCHANGED <<now, rows, bucket, requests, cur, faults, history>>

\* Variant with a bug: a failing removeObject skips the row's soft delete.
SweepRemoveOrSkip(s, f) ==
  /\ cur[s] = NoFile
  /\ f \in found[s]
  /\ \/ /\ object' = [object EXCEPT ![f] = 0]
        /\ removed' = removed \cup {f}
        /\ cur' = [cur EXCEPT ![s] = f]
        /\ UNCHANGED found
     \/ /\ found' = [found EXCEPT ![s] = @ \ {f}]
        /\ UNCHANGED <<object, removed, cur>>
  /\ UNCHANGED <<now, rows, expires, uploading, requests, faults,
                 confirmedAt, userDeleted>>

\* removeObject of the next row; an error is logged and the run goes on.
SweepRemove(s, f) ==
  /\ cur[s] = NoFile
  /\ f \in found[s]
  /\ \/ /\ object' = [object EXCEPT ![f] = 0]
        /\ removed' = removed \cup {f}
     \/ UNCHANGED <<object, removed>>
  /\ cur' = [cur EXCEPT ![s] = f]
  /\ UNCHANGED <<now, rows, expires, uploading, requests, found, faults,
                 confirmedAt, userDeleted>>

\* softDelete of the row just handled, whatever its status is by now.
SweepSoftDelete(s) ==
  /\ cur[s] # NoFile
  /\ status' = [status EXCEPT ![cur[s]] = "deleted"]
  /\ found' = [found EXCEPT ![s] = @ \ {cur[s]}]
  /\ cur' = [cur EXCEPT ![s] = NoFile]
  /\ UNCHANGED <<now, size, createdAt, bucket, requests, faults, history>>

\* A statement of the run throws (the run ends, the rows it had not reached
\* wait for the next one), or the worker process dies.
SweepFails(s) ==
  /\ found[s] # {}
  /\ faults < MaxFaults
  /\ faults' = faults + 1
  /\ found' = [found EXCEPT ![s] = {}]
  /\ cur' = [cur EXCEPT ![s] = NoFile]
  /\ UNCHANGED <<now, rows, bucket, requests, history>>

-----------------------------------------------------------------------------
\* Time passes, within the two latency bounds: a reservation is answered at
\* most ReplyLatency after its insert, and a POST ends at most UploadTime
\* after its policy expired.
Tick ==
  /\ now < Horizon
  /\ \A r \in Requests :
       step[r] = "presign" => now < createdAt[arg[r]] + ReplyLatency
  /\ \A f \in Files : uploading[f] # 0 => now < expires[f] + UploadTime
  /\ now' = now + 1
  /\ UNCHANGED <<rows, bucket, requests, sweep, history>>

Api(r) ==
  \/ \E f \in Files, n \in Sizes : ReserveRow(r, f, n)
  \/ Presign(r)
  \/ \E f \in Files : ConfirmRead(r, f)
  \/ ConfirmStat(r)
  \/ ConfirmMarkReady(r)
  \/ \E f \in Files : DeleteRead(r, f)
  \/ DeleteWrite(r)
  \/ RequestFails(r)

SweepStep(s) ==
  \/ SweepFind(s)
  \/ \E f \in Files : SweepRemove(s, f)
  \/ SweepSoftDelete(s)

Next ==
  \/ \E r \in Requests : Api(r)
  \/ \E f \in Files : EndUpload(f) \/ \E n \in Sizes : BeginUpload(f, n)
  \/ \E s \in Sweeps : SweepStep(s) \/ SweepFails(s)
  \/ Tick

Spec == Init /\ [][Next]_vars

\* The event loops run: a presign in hand is answered, a POST ends, the
\* interval timer and the loop of a sweep run go on, the clock advances.
\* Nothing obliges a client to upload, confirm or delete.  (With UploadTime > 0
\* a client that posts again and again cannot hold the clock back.)
Fairness ==
  /\ \A r \in Requests : WF_vars(Presign(r))
  /\ \A f \in Files : WF_vars(EndUpload(f))
  /\ \A s \in Sweeps : WF_vars(SweepStep(s))
  /\ WF_vars(Tick)

FairSpec == Spec /\ Fairness

-----------------------------------------------------------------------------
(***************************************************************************)
(* Properties.                                                             *)
(***************************************************************************)
\* The shape of the state; an idle request holds no row, a waiting one does,
\* and the row a sweep run is about to soft-delete is one it read.
TypeOK ==
  /\ now \in Nat \ {0}
  /\ status \in [Files -> Status]
  /\ size \in [Files -> Nat]
  /\ createdAt \in [Files -> Nat]
  /\ expires \in [Files -> Nat]
  /\ object \in [Files -> Nat]
  /\ uploading \in [Files -> Nat]
  /\ step \in [Requests -> Steps]
  /\ arg \in [Requests -> Files \cup {NoFile}]
  /\ \A r \in Requests : (step[r] = "idle") <=> (arg[r] = NoFile)
  /\ found \in [Sweeps -> SUBSET Files]
  /\ cur \in [Sweeps -> Files \cup {NoFile}]
  /\ \A s \in Sweeps : cur[s] = NoFile \/ cur[s] \in found[s]
  /\ faults \in 0..MaxFaults
  /\ confirmedAt \in [Files -> Nat]
  /\ userDeleted \subseteq Files
  /\ removed \subseteq Files

\* A file confirmed no later than PendingTtl after it was reserved stays
\* available, row and bytes, until its owner deletes it: no sweep run and no
\* late or repeated POST takes it away.  This is what the TTL of
\* cleanupPendingUploads.ts and the guarded UPDATE of markReady are for.
PromptConfirmKept ==
  \A f \in Files :
    confirmedAt[f] # 0 /\ confirmedAt[f] <= createdAt[f] + PendingTtl
      => /\ status[f] = "ready" \/ f \in userDeleted
         /\ object[f] = size[f]

\* Once a sweep run removed a file's object, no POST brings bytes back under
\* its key: the presigned policy and every POST it let in are over before
\* findExpiredPending can return the row, so no orphan object is left that
\* nothing would ever remove.
SweptStaysEmpty == \A f \in removed : object[f] = 0

\* The status column follows the promised life of a row: whatever handlers and
\* sweeps interleave, no row is confirmed twice, none comes back from deleted.
Lifecycle == INSTANCE FileLifecycle WITH Files <- Files, status <- status
FollowsLifecycle == Lifecycle!Spec

\* Every reservation ends: a pending row is confirmed, deleted by its owner or
\* swept, in spite of sweep runs that crash or overlap.
AbandonedIsReclaimed ==
  \A f \in Files : status[f] = "pending" ~> status[f] # "pending"
=============================================================================
