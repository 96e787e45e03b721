---------------------------- MODULE JobPipeline ----------------------------
(***************************************************************************)
(* A processing job from POST /jobs to its output file: the API            *)
(* (JobService.ts), the BullMQ queue, the worker's attempts at a job       *)
(* (CompressProcessor, ConvertProcessor, DefaultProcessor), the worker's   *)
(* 'failed' handler, cancellation, the owner's DELETE of a file, and the   *)
(* guest sweep that hard-deletes files and, by cascade, their jobs.        *)
(*                                                                         *)
(* A step is one statement, one queue call or one object-store call with   *)
(* the code around it.  The status column and the queue know nothing of    *)
(* each other; what keeps them in step is the order of these calls.        *)
(***************************************************************************)
EXTENDS Naturals, FiniteSets

CONSTANTS
  Jobs,         \* ids of jobs rows (and of their BullMQ entries)
  Inputs,       \* files uploaded and ready before anything happens, guest-owned
  Outputs,      \* ids the processors' output rows may get
  Runs,         \* executions of a processor at the same time (concurrency 5)
  Clients,      \* API requests in flight at the same time
  Sweeps,       \* runs of the guest sweep, which may overlap
  Types,        \* job types used: "image" (compress, jpeg, png, webp), "default"
  None,         \* no job, no file, no run
  MaxAttempts,  \* attempts of a BullMQ job, 3 in jobQueue.ts
  MaxStalled,   \* BullMQ's maxStalledCount, 1
  MaxCrashes,   \* bound: crashes of the worker process
  MaxLockLosses,\* bound: locks lost while the processor goes on
  MaxDrops      \* bound: fire-and-forget writes that fail

Files == Inputs \cup Outputs

ASSUME PipelineAssumption ==
  /\ None \notin Files \cup Jobs \cup Runs
  /\ Inputs \cap Outputs = {}
  /\ Inputs \cap Jobs = {}
  /\ Types \subseteq {"image", "default"}
  /\ MaxAttempts \in Nat \ {0}
  /\ {MaxStalled, MaxCrashes, MaxLockLosses, MaxDrops} \subseteq Nat

VARIABLES
  fstatus,      \* files.status; "none" before the insert, "gone" once hard-deleted
  producer,     \* the job whose storage path an output row has
  objects,      \* keys with an object: an input's own, or one per producing job
  jstatus,      \* jobs.status; "none" before the insert, "gone" by the cascade
  jtype,        \* jobs.type
  jinput,       \* jobs.file_id
  jout,         \* jobs.output_file_id
  jerr,         \* jobs.error_message is set
  jprog,        \* jobs.progress: 0, 1 (33 %), 2 (66 %), 3 (100 %)
  bull,         \* the queue's state of the job
  attempts,     \* attemptsMade
  stalls,       \* times the entry was found stalled
  lock,         \* the run that holds the entry's lock
  rjob,         \* the job a run works on
  rstep,        \* its next call
  rout,         \* the output row it created
  failWrites,   \* the 'failed' handler's updates not applied yet: <<job, attempt>>
  progWrites,   \* progress updates left behind by a rejected Promise.all
  cstep, cjob, cfile,   \* API requests: next call, its job, its file
  found, cur,   \* guest sweep: rows read and not handled, row being deleted
  crashes, lockLosses, drops,   \* faults so far
  settledOnce,  \* history: jobs whose row was completed or failed at some time
  lateJobs,     \* history: jobs inserted once a sweep run had read or emptied their file
  strays,       \* history: jobs written by an attempt already over
  lost,         \* history: jobs whose failure was never written
  sweptKeys     \* history: keys whose object a sweep run removed

files    == <<fstatus, producer, objects>>
rows     == <<jstatus, jtype, jinput, jout, jerr, jprog>>
queue    == <<bull, attempts, stalls, lock>>
runs     == <<rjob, rstep, rout>>
writes   == <<failWrites, progWrites>>
requests == <<cstep, cjob, cfile>>
sweep    == <<found, cur>>
faults   == <<crashes, lockLosses, drops>>
history  == <<settledOnce, lateJobs, strays, lost, sweptKeys>>
vars     == <<files, rows, queue, runs, writes, requests, sweep, faults, history>>

FileStatus == {"none", "ready", "deleted", "gone"}
JobStatus  == {"none", "pending", "active", "completed", "failed", "gone"}
BullState  == {"none", "waiting", "active", "delayed", "completed", "failed"}
RunStep    == {"idle", "activate", "read", "fetch", "stage1", "stage2", "put",
               "record", "complete", "publish"}

\* The object key of a file: an output's is processed/<user>/<job>/<name>, the
\* same for every output row of one job.
KeyOf(f) == IF f \in Inputs THEN f ELSE producer[f]

RowExists(j) == jstatus[j] \notin {"none", "gone"}

Init ==
  /\ fstatus = [f \in Files |-> IF f \in Inputs THEN "ready" ELSE "none"]
  /\ producer = [f \in Files |-> None]
  /\ objects = Inputs
  /\ jstatus = [j \in Jobs |-> "none"]
  /\ jtype = [j \in Jobs |-> "default"]
  /\ jinput = [j \in Jobs |-> None]
  /\ jout = [j \in Jobs |-> None]
  /\ jerr = [j \in Jobs |-> FALSE]
  /\ jprog = [j \in Jobs |-> 0]
  /\ bull = [j \in Jobs |-> "none"]
  /\ attempts = [j \in Jobs |-> 0]
  /\ stalls = [j \in Jobs |-> 0]
  /\ lock = [j \in Jobs |-> None]
  /\ rjob = [r \in Runs |-> None]
  /\ rstep = [r \in Runs |-> "idle"]
  /\ rout = [r \in Runs |-> None]
  /\ failWrites = {} /\ progWrites = {}
  /\ cstep = [c \in Clients |-> "idle"]
  /\ cjob = [c \in Clients |-> None]
  /\ cfile = [c \in Clients |-> None]
  /\ found = [s \in Sweeps |-> {}]
  /\ cur = [s \in Sweeps |-> None]
  /\ crashes = 0 /\ lockLosses = 0 /\ drops = 0
  /\ settledOnce = {} /\ lateJobs = {}
  /\ strays = {} /\ lost = {} /\ sweptKeys = {}

-----------------------------------------------------------------------------
(***************************************************************************)
(* The API: JobService.create and cancel, FileService.delete.              *)
(***************************************************************************)
Await(c, s, j, f) ==
  /\ cstep' = [cstep EXCEPT ![c] = s]
  /\ cjob' = [cjob EXCEPT ![c] = j]
  /\ cfile' = [cfile EXCEPT ![c] = f]

Reply(c) == Await(c, "idle", None, None)

\* create reads the file; only a ready one may be processed, the others are a
\* 404 or 409.
CreateRead(c, f) ==
  /\ cstep[c] = "idle"
  /\ IF fstatus[f] = "ready"
       THEN Await(c, "insert", None, f)
       ELSE UNCHANGED requests
  /\ UNCHANGED <<files, rows, queue, runs, writes, sweep, faults, history>>

\* The insert; its foreign key needs the file's row, whatever its status.
CreateInsert(c, j, t) ==
  /\ cstep[c] = "insert"
  /\ fstatus[cfile[c]] # "gone"
  /\ jstatus[j] = "none"
  /\ jstatus' = [jstatus EXCEPT ![j] = "pending"]
  /\ jtype' = [jtype EXCEPT ![j] = t]
  /\ jinput' = [jinput EXCEPT ![j] = cfile[c]]
  /\ lateJobs' = IF \/ \E s \in Sweeps : cfile[c] \in found[s]
                    \/ KeyOf(cfile[c]) \in sweptKeys
                   THEN lateJobs \cup {j} ELSE lateJobs
  /\ Await(c, "enqueue", j, None)
  /\ UNCHANGED <<files, jout, jerr, jprog, queue, runs, writes, sweep, faults,
                 settledOnce, strays, lost, sweptKeys>>

\* queue.add: from here on the worker may take the job.
CreateEnqueue(c) ==
  /\ cstep[c] = "enqueue"
  /\ bull' = [bull EXCEPT ![cjob[c]] = "waiting"]
  /\ Reply(c)
  /\ UNCHANGED <<files, rows, attempts, stalls, lock, runs, writes, sweep,
                 faults, history>>

\* cancel reads the row; any status but pending is an error.
CancelRead(c, j) ==
  /\ cstep[c] = "idle"
  /\ IF jstatus[j] = "pending"
       THEN Await(c, "cancel", j, None)
       ELSE UNCHANGED requests
  /\ UNCHANGED <<files, rows, queue, runs, writes, sweep, faults, history>>

\* JobRepository.cancel, guarded by the status; the BullMQ entry stays, and the
\* reply is 204 whether or not a row was updated.
CancelWrite(c) ==
  /\ cstep[c] = "cancel"
  /\ IF jstatus[cjob[c]] = "pending"
       THEN /\ jstatus' = [jstatus EXCEPT ![cjob[c]] = "failed"]
            /\ jerr' = [jerr EXCEPT ![cjob[c]] = TRUE]
            /\ settledOnce' = settledOnce \cup {cjob[c]}
       ELSE UNCHANGED <<jstatus, jerr, settledOnce>>
  /\ Reply(c)
  /\ UNCHANGED <<files, jtype, jinput, jout, jprog, queue, runs, writes, sweep,
                 faults, lateJobs, strays, lost, sweptKeys>>

\* A call of the request fails, a foreign key included, or the API dies.
RequestFails(c) ==
  /\ cstep[c] # "idle"
  /\ Reply(c)
  /\ UNCHANGED <<files, rows, queue, runs, writes, sweep, faults, history>>

\* The owner deletes a file (FileStore has the two steps of it).
UserDelete(f) ==
  /\ fstatus[f] = "ready"
  /\ fstatus' = [fstatus EXCEPT ![f] = "deleted"]
  /\ UNCHANGED <<producer, objects, rows, queue, runs, writes, requests, sweep,
                 faults, history>>

-----------------------------------------------------------------------------
(***************************************************************************)
(* A run: one execution of a processor.                                    *)
(***************************************************************************)
Holds(r) == lock[rjob[r]] = r

Goto(r, s) == rstep' = [rstep EXCEPT ![r] = s] /\ UNCHANGED rjob

FreeRun(r) ==
  /\ rjob' = [rjob EXCEPT ![r] = None]
  /\ rstep' = [rstep EXCEPT ![r] = "idle"]
  /\ rout' = [rout EXCEPT ![r] = None]

\* A write of run r counts as stray if r lost the lock of its job.
Touch(r) == strays' = IF Holds(r) THEN strays ELSE strays \cup {rjob[r]}

\* JobRepository.updateStatus: no guard, and nothing happens without a row.
SetRow(j, st, pr, out) ==
  IF RowExists(j)
    THEN /\ jstatus' = [jstatus EXCEPT ![j] = st]
         /\ jprog' = [jprog EXCEPT ![j] = pr]
         /\ jout' = [jout EXCEPT ![j] = out]
    ELSE UNCHANGED <<jstatus, jprog, jout>>

\* BullMQ hands a waiting entry to a free slot, with its lock.
Take(r, j) ==
  /\ rjob[r] = None
  /\ bull[j] = "waiting"
  /\ bull' = [bull EXCEPT ![j] = "active"]
  /\ lock' = [lock EXCEPT ![j] = r]
  /\ rjob' = [rjob EXCEPT ![r] = j]
  /\ rstep' = [rstep EXCEPT ![r] = "activate"]
  /\ UNCHANGED <<files, rows, attempts, stalls, rout, writes, requests, sweep,
                 faults, history>>

\* updateStatus(active, 0).
Activate(r) ==
  /\ rstep[r] = "activate"
  /\ SetRow(rjob[r], "active", 0, jout[rjob[r]])
  /\ Goto(r, IF jtype[rjob[r]] = "image" THEN "read" ELSE "stage1")
  /\ Touch(r)
  /\ UNCHANGED <<files, jtype, jinput, jerr, queue, rout, writes, requests,
                 sweep, faults, settledOnce, lateJobs, lost, sweptKeys>>

\* fileRepo.findById, which returns deleted rows too.
ReadInput(r) ==
  /\ rstep[r] = "read"
  /\ fstatus[jinput[rjob[r]]] # "gone"
  /\ Goto(r, "fetch")
  /\ UNCHANGED <<files, rows, queue, rout, writes, requests, sweep, faults, history>>

\* getObject
Fetch(r) ==
  /\ rstep[r] = "fetch"
  /\ KeyOf(jinput[rjob[r]]) \in objects
  /\ Goto(r, "stage1")
  /\ UNCHANGED <<files, rows, queue, rout, writes, requests, sweep, faults, history>>

\* Variant with a bug: the stages are counted from one and reported one too far.
StageProgressOneTooFar(r) ==
  CASE rstep[r] = "stage1" -> 2
    [] rstep[r] = "stage2" -> IF jtype[rjob[r]] = "image" THEN 3 ELSE 4

\* What a stage writes: 33 and 66 for an image; the five equal stages of the
\* default processor are two here, the last of them writing 100.
StageProgress(r) ==
  CASE rstep[r] = "stage1" -> 1
    [] rstep[r] = "stage2" -> IF jtype[rjob[r]] = "image" THEN 2 ELSE 3

\* Variant with a bug: the output's row is inserted and its bytes never stored.
AfterStageSkipsPut(r) ==
  CASE rstep[r] = "stage1" -> "stage2"
    [] rstep[r] = "stage2" -> IF jtype[rjob[r]] = "image" THEN "record" ELSE "complete"

AfterStage(r) ==
  CASE rstep[r] = "stage1" -> "stage2"
    [] rstep[r] = "stage2" -> IF jtype[rjob[r]] = "image" THEN "put" ELSE "complete"

\* A Promise.all of a stage: updateProgress with the queue's and the publish.
Stage(r) ==
  /\ rstep[r] \in {"stage1", "stage2"}
  /\ jprog' = IF RowExists(rjob[r])
                THEN [jprog EXCEPT ![rjob[r]] = StageProgress(r)] ELSE jprog
  /\ Goto(r, AfterStage(r))
  /\ Touch(r)
  /\ UNCHANGED <<files, jstatus, jtype, jinput, jout, jerr, queue, rout, writes,
                 requests, sweep, faults, settledOnce, lateJobs, lost,
                 sweptKeys>>

\* putObject under the job's path, over whatever an earlier attempt left there.
Put(r) ==
  /\ rstep[r] = "put"
  /\ objects' = objects \cup {rjob[r]}
  /\ Goto(r, "record")
  /\ UNCHANGED <<fstatus, producer, rows, queue, rout, writes, requests, sweep,
                 faults, history>>

\* fileRepo.create: every attempt inserts a row of its own.
Record(r, o) ==
  /\ rstep[r] = "record"
  /\ fstatus[o] = "none"
  /\ fstatus' = [fstatus EXCEPT ![o] = "ready"]
  /\ producer' = [producer EXCEPT ![o] = rjob[r]]
  /\ rout' = [rout EXCEPT ![r] = o]
  /\ Goto(r, "complete")
  /\ UNCHANGED <<objects, rows, queue, writes, requests, sweep, faults, history>>

\* Variant with a bug: the update to completed leaves the progress alone.
CompleteKeepsProgress(r) ==
  /\ rstep[r] = "complete"
  /\ rout[r] # None => fstatus[rout[r]] # "gone"
  /\ SetRow(rjob[r], "completed", jprog[rjob[r]],
            IF rout[r] = None THEN jout[rjob[r]] ELSE rout[r])
  /\ settledOnce' = IF RowExists(rjob[r]) THEN settledOnce \cup {rjob[r]}
                                          ELSE settledOnce
  /\ Goto(r, "publish")
  /\ Touch(r)
  /\ UNCHANGED <<files, jtype, jinput, jerr, queue, rout, writes, requests,
                 sweep, faults, lateJobs, lost, sweptKeys>>

\* updateStatus(completed, 100, output); the foreign key needs the output's row.
Complete(r) ==
  /\ rstep[r] = "complete"
  /\ rout[r] # None => fstatus[rout[r]] # "gone"
  /\ SetRow(rjob[r], "completed", 3,
            IF rout[r] = None THEN jout[rjob[r]] ELSE rout[r])
  /\ settledOnce' = IF RowExists(rjob[r]) THEN settledOnce \cup {rjob[r]}
                                          ELSE settledOnce
  /\ Goto(r, "publish")
  /\ Touch(r)
  /\ UNCHANGED <<files, jtype, jinput, jerr, queue, rout, writes, requests,
                 sweep, faults, lateJobs, lost, sweptKeys>>

\* publish(job:completed), the return, and BullMQ's moveToCompleted, which
\* refuses a run that lost the lock.
Return(r) ==
  /\ rstep[r] = "publish"
  /\ IF Holds(r)
       THEN /\ bull' = [bull EXCEPT ![rjob[r]] = "completed"]
            /\ lock' = [lock EXCEPT ![rjob[r]] = None]
       ELSE UNCHANGED <<bull, lock>>
  /\ FreeRun(r)
  /\ UNCHANGED <<files, rows, attempts, stalls, writes, requests, sweep, faults,
                 history>>

\* Variant with a bug: the handler reports the attempts that will be retried
\* and not the last one.
MoveToFailedSkipsLast(j) ==
  /\ attempts' = [attempts EXCEPT ![j] = @ + 1]
  /\ bull' = [bull EXCEPT ![j] =
                IF attempts[j] + 1 < MaxAttempts THEN "delayed" ELSE "failed"]
  /\ lock' = [lock EXCEPT ![j] = None]
  /\ failWrites' = IF attempts[j] + 1 < MaxAttempts
                     THEN failWrites \cup {<<j, attempts[j] + 1>>} ELSE failWrites

\* The entry of a failed attempt: delayed for a retry, or failed for good.  The
\* 'failed' handler then starts its update without waiting for it.
MoveToFailed(j) ==
  /\ attempts' = [attempts EXCEPT ![j] = @ + 1]
  /\ bull' = [bull EXCEPT ![j] =
                IF attempts[j] + 1 < MaxAttempts THEN "delayed" ELSE "failed"]
  /\ lock' = [lock EXCEPT ![j] = None]
  /\ failWrites' = failWrites \cup {<<j, attempts[j] + 1>>}

\* The processor throws at any of its calls.
Throw(r) ==
  /\ rjob[r] # None
  /\ IF Holds(r)
       THEN MoveToFailed(rjob[r])
       ELSE UNCHANGED <<bull, attempts, lock, failWrites>>
  /\ FreeRun(r)
  /\ UNCHANGED <<files, rows, stalls, requests, sweep, faults, history>>

Throws(r) == Throw(r) /\ UNCHANGED progWrites

\* One promise of a stage rejects while its updateProgress is still under way.
StageRejects(r) ==
  /\ rstep[r] \in {"stage1", "stage2"}
  /\ progWrites' = progWrites \cup {<<rjob[r], StageProgress(r)>>}
  /\ Throw(r)

-----------------------------------------------------------------------------
(***************************************************************************)
(* The worker's 'failed' handler, and writes left behind by an attempt.    *)
(***************************************************************************)
\* A write lands on a job whose attempt it came from is over.
Overtaken(j) == bull[j] \in {"active", "completed"}

StrayIfOvertaken(j) == strays' = IF Overtaken(j) THEN strays \cup {j} ELSE strays

\* updateStatus(failed), then publish(job:failed): after every failed attempt.
LandFailed(j, n) ==
  /\ <<j, n>> \in failWrites
  /\ failWrites' = failWrites \ {<<j, n>>}
  /\ IF RowExists(j)
       THEN /\ jstatus' = [jstatus EXCEPT ![j] = "failed"]
            /\ jerr' = [jerr EXCEPT ![j] = TRUE]
            /\ settledOnce' = settledOnce \cup {j}
       ELSE UNCHANGED <<jstatus, jerr, settledOnce>>
  /\ StrayIfOvertaken(j)
  /\ UNCHANGED <<files, jtype, jinput, jout, jprog, queue, runs, progWrites,
                 requests, sweep, faults, lateJobs, lost, sweptKeys>>

LandProgress(j, p) ==
  /\ <<j, p>> \in progWrites
  /\ progWrites' = progWrites \ {<<j, p>>}
  /\ jprog' = IF RowExists(j) THEN [jprog EXCEPT ![j] = p] ELSE jprog
  /\ StrayIfOvertaken(j)
  /\ UNCHANGED <<files, jstatus, jtype, jinput, jout, jerr, queue, runs,
                 failWrites, requests, sweep, faults, settledOnce,
                 lateJobs, lost, sweptKeys>>

\* The handler's update fails; the error is logged and that is all.
DropFailed(j, n) ==
  /\ <<j, n>> \in failWrites
  /\ drops < MaxDrops
  /\ drops' = drops + 1
  /\ failWrites' = failWrites \ {<<j, n>>}
  /\ lost' = lost \cup {j}
  /\ UNCHANGED <<files, rows, queue, runs, progWrites, requests, sweep, crashes,
                 lockLosses, settledOnce, lateJobs, strays, sweptKeys>>

-----------------------------------------------------------------------------
(***************************************************************************)
(* BullMQ: retries and stalled entries; the worker process dies.           *)
(***************************************************************************)
\* The backoff has elapsed.
Retry(j) ==
  /\ bull[j] = "delayed"
  /\ bull' = [bull EXCEPT ![j] = "waiting"]
  /\ UNCHANGED <<files, rows, attempts, stalls, lock, runs, writes, requests,
                 sweep, faults, history>>

\* The lock expires under a run that goes on (its renewal did not get through).
LoseLock(j) ==
  /\ lock[j] # None
  /\ lockLosses < MaxLockLosses
  /\ lockLosses' = lockLosses + 1
  /\ lock' = [lock EXCEPT ![j] = None]
  /\ UNCHANGED <<files, rows, bull, attempts, stalls, runs, writes, requests,
                 sweep, crashes, drops, history>>

\* The worker process dies: runs, unfinished writes and sweep runs are gone,
\* the locks expire.
WorkerCrash ==
  /\ crashes < MaxCrashes
  /\ crashes' = crashes + 1
  /\ rjob' = [r \in Runs |-> None]
  /\ rstep' = [r \in Runs |-> "idle"]
  /\ rout' = [r \in Runs |-> None]
  /\ lock' = [j \in Jobs |-> None]
  /\ lost' = lost \cup {w[1] : w \in failWrites}
  /\ failWrites' = {} /\ progWrites' = {}
  /\ found' = [s \in Sweeps |-> {}]
  /\ cur' = [s \in Sweeps |-> None]
  /\ UNCHANGED <<files, rows, bull, attempts, stalls, requests, lockLosses, drops,
                 settledOnce, lateJobs, strays, sweptKeys>>

\* An active entry without a lock goes back to the queue; found stalled too
\* often it fails, and the handler gets the job or undefined (`if (!job) return`).
Redeliver(j) ==
  /\ bull[j] = "active"
  /\ lock[j] = None
  /\ \/ /\ stalls[j] < MaxStalled
        /\ stalls' = [stalls EXCEPT ![j] = @ + 1]
        /\ bull' = [bull EXCEPT ![j] = "waiting"]
        /\ UNCHANGED <<failWrites, lost>>
     \/ /\ stalls[j] = MaxStalled
        /\ bull' = [bull EXCEPT ![j] = "failed"]
        /\ \/ failWrites' = failWrites \cup {<<j, attempts[j] + 1>>} /\ UNCHANGED lost
           \/ lost' = lost \cup {j} /\ UNCHANGED failWrites
        /\ UNCHANGED stalls
  /\ UNCHANGED <<files, rows, attempts, lock, runs, progWrites, requests, sweep,
                 faults, settledOnce, lateJobs, strays, sweptKeys>>

-----------------------------------------------------------------------------
(***************************************************************************)
(* The guest sweep: cleanupGuestResources.                                 *)
(***************************************************************************)
\* Variant with a bug: only active jobs keep their file.
SweepableDespitePending ==
  {f \in Files : /\ fstatus[f] = "ready"
                 /\ ~ \E j \in Jobs : jinput[j] = f /\ jstatus[j] = "active"}

\* The query's WHERE but for the age of the row, which is left open.
Sweepable ==
  {f \in Files : /\ fstatus[f] = "ready"
                 /\ ~ \E j \in Jobs : /\ jinput[j] = f
                                      /\ jstatus[j] \in {"pending", "active"}}

\* findExpiredGuestFiles returns those of them that are past their TTL.
GuestFind(s) ==
  /\ found[s] = {}
  /\ \E old \in SUBSET Sweepable : old # {} /\ found' = [found EXCEPT ![s] = old]
  /\ UNCHANGED <<files, rows, queue, runs, writes, requests, cur, faults, history>>

\* removeObject of the next row; an error is logged and the run goes on.
GuestRemove(s, f) ==
  /\ cur[s] = None
  /\ f \in found[s]
  /\ \/ /\ objects' = objects \ {KeyOf(f)}
        /\ sweptKeys' = sweptKeys \cup {KeyOf(f)}
     \/ UNCHANGED <<objects, sweptKeys>>
  /\ cur' = [cur EXCEPT ![s] = f]
  /\ UNCHANGED <<fstatus, producer, rows, queue, runs, writes, requests, found,
                 faults, settledOnce, lateJobs, strays, lost>>

\* Variant with a bug: output_file_id is not set to null.
GuestHardDeleteKeepsRefs(s) ==
  /\ cur[s] # None
  /\ fstatus' = [fstatus EXCEPT ![cur[s]] = "gone"]
  /\ jstatus' = [j \in Jobs |-> IF RowExists(j) /\ jinput[j] = cur[s]
                                  THEN "gone" ELSE jstatus[j]]
  /\ found' = [found EXCEPT ![s] = @ \ {cur[s]}]
  /\ cur' = [cur EXCEPT ![s] = None]
  /\ UNCHANGED <<producer, objects, jtype, jinput, jout, jerr, jprog, queue, runs,
                 writes, requests, faults, history>>

\* hardDelete: ON DELETE CASCADE takes the jobs of the file, ON DELETE SET NULL
\* clears the references of the jobs that produced it.
GuestHardDelete(s) ==
  /\ cur[s] # None
  /\ fstatus' = [fstatus EXCEPT ![cur[s]] = "gone"]
  /\ jstatus' = [j \in Jobs |-> IF RowExists(j) /\ jinput[j] = cur[s]
                                  THEN "gone" ELSE jstatus[j]]
  /\ jout' = [j \in Jobs |-> IF jout[j] = cur[s] THEN None ELSE jout[j]]
  /\ found' = [found EXCEPT ![s] = @ \ {cur[s]}]
  /\ cur' = [cur EXCEPT ![s] = None]
  /\ UNCHANGED <<producer, objects, jtype, jinput, jerr, jprog, queue, runs,
                 writes, requests, faults, history>>

-----------------------------------------------------------------------------
Api(c) ==
  \/ \E f \in Files : CreateRead(c, f)
  \/ \E j \in Jobs, t \in Types : CreateInsert(c, j, t)
  \/ CreateEnqueue(c)
  \/ \E j \in Jobs : CancelRead(c, j)
  \/ CancelWrite(c)
  \/ RequestFails(c)

\* The calls of a run that succeed.
RunStepOk(r) ==
  \/ Activate(r)
  \/ ReadInput(r)
  \/ Fetch(r)
  \/ Stage(r)
  \/ Put(r)
  \/ \E o \in Outputs : Record(r, o)
  \/ Complete(r)
  \/ Return(r)

RunFails(r) == Throws(r) \/ StageRejects(r)

Deliver(j) ==
  \/ \E r \in Runs : Take(r, j)
  \/ Retry(j)
  \/ Redeliver(j)

Land ==
  \/ \E j \in Jobs, n \in 1..(MaxAttempts + 1) : LandFailed(j, n)
  \/ \E j \in Jobs, p \in 1..3 : LandProgress(j, p)

Drop == \E j \in Jobs, n \in 1..(MaxAttempts + 1) : DropFailed(j, n)

GuestSweep(s) ==
  \/ GuestFind(s)
  \/ \E f \in Files : GuestRemove(s, f)
  \/ GuestHardDelete(s)

Next ==
  \/ \E c \in Clients : Api(c)
  \/ \E f \in Files : UserDelete(f)
  \/ \E r \in Runs : RunStepOk(r) \/ RunFails(r)
  \/ \E j \in Jobs : Deliver(j) \/ LoseLock(j)
  \/ Land
  \/ Drop
  \/ WorkerCrash
  \/ \E s \in Sweeps : GuestSweep(s)

Spec == Init /\ [][Next]_vars

\* The worker's event loop and BullMQ's timers go on: an entry is taken, its
\* retry comes, a run makes its next call or throws, a handler's write lands, a
\* stalled entry is found.  Clients, owners, sweeps and faults are not obliged
\* to anything.
Fairness ==
  /\ \A j \in Jobs : WF_vars(Deliver(j))
  /\ \A r \in Runs : WF_vars(RunStepOk(r) \/ RunFails(r))
  /\ WF_vars(Land)

FairSpec == Spec /\ Fairness

-----------------------------------------------------------------------------
(***************************************************************************)
(* Properties that hold.                                                   *)
(***************************************************************************)
\* The shape of the state; slots in use and requests under way name their job.
TypeOK ==
  /\ fstatus \in [Files -> FileStatus]
  /\ producer \in [Files -> Jobs \cup {None}]
  /\ objects \subseteq Inputs \cup Jobs
  /\ jstatus \in [Jobs -> JobStatus]
  /\ jtype \in [Jobs -> {"image", "default"}]
  /\ jinput \in [Jobs -> Files \cup {None}]
  /\ jout \in [Jobs -> Files \cup {None}]
  /\ jerr \in [Jobs -> BOOLEAN]
  /\ jprog \in [Jobs -> 0..3]
  /\ bull \in [Jobs -> BullState]
  /\ attempts \in [Jobs -> 0..MaxAttempts]
  /\ stalls \in [Jobs -> 0..MaxStalled]
  /\ lock \in [Jobs -> Runs \cup {None}]
  /\ rjob \in [Runs -> Jobs \cup {None}]
  /\ rstep \in [Runs -> RunStep]
  /\ rout \in [Runs -> Outputs \cup {None}]
  /\ \A r \in Runs : rjob[r] = None <=> rstep[r] = "idle"
  /\ failWrites \subseteq Jobs \X (1..(MaxAttempts + 1))
  /\ progWrites \subseteq Jobs \X (1..3)
  /\ cstep \in [Clients -> {"idle", "insert", "enqueue", "cancel"}]
  /\ cjob \in [Clients -> Jobs \cup {None}]
  /\ cfile \in [Clients -> Files \cup {None}]
  /\ \A c \in Clients : cstep[c] \in {"enqueue", "cancel"} => cjob[c] # None
  /\ \A c \in Clients : cstep[c] = "insert" => cfile[c] # None
  /\ found \in [Sweeps -> SUBSET Files]
  /\ cur \in [Sweeps -> Files \cup {None}]
  /\ \A s \in Sweeps : cur[s] = None \/ cur[s] \in found[s]
  /\ crashes \in 0..MaxCrashes /\ lockLosses \in 0..MaxLockLosses
  /\ drops \in 0..MaxDrops
  /\ settledOnce \subseteq Jobs /\ lateJobs \subseteq Jobs
  /\ strays \subseteq Jobs /\ lost \subseteq Jobs
  /\ sweptKeys \subseteq Inputs \cup Jobs

\* The guest sweep never takes the input away from a job that has been pending
\* or active all its life, unless a sweep run had already read the file (or
\* removed its object, and crashed) when the job was inserted: neither the row
\* nor, for an uploaded file, the bytes.
InFlightInputKept ==
  \A j \in Jobs :
    RowExists(j) /\ j \notin settledOnce \cup lateJobs =>
      /\ fstatus[jinput[j]] \in {"ready", "deleted"}
      /\ \A s \in Sweeps : jinput[j] \notin found[s]
      /\ jinput[j] \in Inputs => jinput[j] \in objects

\* An output row is never there before its bytes: the object under its key is
\* in the bucket unless a sweep run removed it.
OutputHasBytes ==
  \A f \in Files :
    fstatus[f] \in {"ready", "deleted"} => KeyOf(f) \in objects \cup sweptKeys

\* Foreign keys that survive the sweep: a job that refers to an output row
\* refers to one that exists and was produced by that very job.
OutputIsOwn ==
  \A j \in Jobs :
    jout[j] # None => /\ producer[jout[j]] = j
                      /\ fstatus[jout[j]] \in {"ready", "deleted"}

\* The row says that the job is completed, at 100 %; an image job has its output
\* until that is swept.
RowIsDone(j) ==
  /\ jstatus[j] = "completed"
  /\ jprog[j] = 3
  /\ jtype[j] = "image" =>
       \/ jout[j] # None
       \/ \E o \in Outputs : producer[o] = j /\ fstatus[o] = "gone"

\* The row says that the job failed, with a reason; or the handler's update has
\* still to come, or was lost.
FailureShows(j) ==
  \/ jstatus[j] = "failed" /\ jerr[j]
  \/ \E n \in 1..(MaxAttempts + 1) : <<j, n>> \in failWrites
  \/ j \in lost

\* When the queue is done with a job, its row says how it ended, unless an attempt
\* already over wrote to it.
QueueAndRowAgree ==
  \A j \in Jobs \ strays :
    /\ bull[j] = "completed" /\ RowExists(j) => RowIsDone(j)
    /\ bull[j] = "failed" /\ RowExists(j) => FailureShows(j)

\* A queued job comes to an end that its row shows, and stays there, whatever
\* attempts fail and wherever the worker crashes; the only way to hang is a
\* failure whose update got lost, or a write that came too late.
JobsSettle ==
  \A j \in Jobs :
    bull[j] = "waiting" ~>
      [](jstatus[j] \in {"completed", "failed", "gone"} \/ j \in lost \cup strays)
=============================================================================
