------------------------- MODULE JobPipeline_proofs -------------------------
(***************************************************************************)
(* Proofs about JobPipeline, for every set of jobs, files, clients, runs   *)
(* and sweep runs, and every number of attempts, crashes and lost locks.   *)
(***************************************************************************)
EXTENDS JobPipeline, TLAPS

-----------------------------------------------------------------------------
(***************************************************************************)
(* The inductive invariant, in parts.                                      *)
(***************************************************************************)
\* The queue, a run and the API's next call know only jobs whose row was
\* inserted; one call enqueues a job, only an active entry is locked, and an
\* entry that may be taken again has an attempt left.
EntryHasRow ==
  /\ \A j \in Jobs :
       /\ jstatus[j] = "none" =>
            bull[j] = "none" /\ \A r \in Runs : rjob[r] # j
       /\ lock[j] # None => bull[j] = "active"
       /\ bull[j] \in {"none", "waiting", "active", "delayed"} =>
            attempts[j] < MaxAttempts
  /\ \A c \in Clients :
       cstep[c] = "enqueue" =>
         /\ bull[cjob[c]] = "none"
         /\ jstatus[cjob[c]] # "none"
         /\ \A d \in Clients \ {c} : cstep[d] = "enqueue" => cjob[d] # cjob[c]

\* Whatever refers to a file refers to one that was inserted, and an output row
\* belongs to the job that its run works on.
FilesExist ==
  /\ \A f \in Inputs : fstatus[f] # "none" /\ producer[f] = None
  /\ \A f \in Outputs : fstatus[f] # "none" => producer[f] \in Jobs
  /\ \A s \in Sweeps : \A f \in found[s] : fstatus[f] # "none"
  /\ \A r \in Runs :
       rout[r] # None =>
         producer[rout[r]] = rjob[r] /\ fstatus[rout[r]] # "none"
  /\ \A c \in Clients : cstep[c] = "insert" => fstatus[cfile[c]] # "none"

\* The foreign key jobs.file_id.
RowHasInput ==
  \A j \in Jobs :
    RowExists(j) => jinput[j] \in Files /\ fstatus[jinput[j]] \in {"ready", "deleted"}

\* A row that never was completed or failed is one the sweep's query counts.
UnsettledIsInFlight ==
  \A j \in Jobs :
    RowExists(j) /\ j \notin settledOnce => jstatus[j] \in {"pending", "active"}

\* Only a sweep run takes the bytes of an upload.
InputBytesOrSwept == \A f \in Inputs : f \in objects \cup sweptKeys

\* A run about to insert its output row has stored its bytes.
PutBeforeRecord ==
  \A r \in Runs : rstep[r] = "record" => rjob[r] \in objects \cup sweptKeys

\* Image and default jobs take different steps; only an image job has an output.
StepFitsType ==
  \A r \in Runs :
    /\ rstep[r] \in {"read", "fetch", "put", "record"} => jtype[rjob[r]] = "image"
    /\ rstep[r] \in {"complete", "publish"} /\ jtype[rjob[r]] = "image" =>
         rout[r] # None

\* A run about to return that still has the lock left the row completed.
HolderHasWritten ==
  \A r \in Runs :
    /\ rstep[r] = "publish"
    /\ Holds(r)
    /\ rjob[r] \notin strays
    /\ RowExists(rjob[r])
    => RowIsDone(rjob[r])

IInv ==
  /\ TypeOK
  /\ EntryHasRow
  /\ FilesExist
  /\ RowHasInput
  /\ UnsettledIsInFlight
  /\ InputBytesOrSwept
  /\ PutBeforeRecord
  /\ StepFitsType
  /\ HolderHasWritten
  /\ InFlightInputKept
  /\ OutputHasBytes
  /\ OutputIsOwn
  /\ QueueAndRowAgree

-----------------------------------------------------------------------------
(***************************************************************************)
(* Type correctness.                                                       *)
(***************************************************************************)
\* Setting one entry of a Boolean function.
LEMMA BoolExcept ==
  ASSUME NEW S, NEW g \in [S -> BOOLEAN], NEW x
  PROVE  [g EXCEPT ![x] = TRUE] \in [S -> BOOLEAN]
OBVIOUS


\* A failed attempt keeps the shape of the queue.
LEMMA MoveToFailedTypes ==
  ASSUME TypeOK, NEW j \in Jobs, attempts[j] < MaxAttempts, MoveToFailed(j)
  PROVE  /\ attempts' \in [Jobs -> 0..MaxAttempts]
         /\ bull' \in [Jobs -> BullState]
         /\ lock' \in [Jobs -> Runs \cup {None}]
         /\ failWrites' \subseteq Jobs \X (1..(MaxAttempts + 1))
<1>1. attempts \in [Jobs -> 0..MaxAttempts] /\ MaxAttempts \in Nat
  BY PipelineAssumption DEF TypeOK
<1>2. attempts[j] + 1 \in 1..MaxAttempts BY <1>1
<1>3. attempts' \in [Jobs -> 0..MaxAttempts] BY <1>1, <1>2 DEF MoveToFailed
<1>4. bull' \in [Jobs -> BullState] BY DEF MoveToFailed, TypeOK, BullState
<1>5. lock' \in [Jobs -> Runs \cup {None}] BY DEF MoveToFailed, TypeOK
<1>6. failWrites' \subseteq Jobs \X (1..(MaxAttempts + 1))
  BY <1>1, <1>2 DEF MoveToFailed, TypeOK
<1> QED BY <1>3, <1>4, <1>5, <1>6

\* Every step keeps the shape of the state.
LEMMA TypeStep == IInv /\ [Next]_vars => TypeOK'
<1> SUFFICES ASSUME IInv, [Next]_vars PROVE TypeOK'
  OBVIOUS
<1> USE PipelineAssumption
    DEF IInv, TypeOK, FileStatus, JobStatus, BullState, RunStep, Files,
        files, rows, queue, runs, writes, requests, sweep, faults, history
<1>1. ASSUME NEW c \in Clients, NEW f \in Files, CreateRead(c, f)
      PROVE  TypeOK'

  <2>1. CASE Await(c, "insert", None, f)
    BY <1>1, <2>1 DEF CreateRead, Await
  <2>2. CASE UNCHANGED requests
    BY <1>1, <2>2 DEF CreateRead
  <2> QED
    BY <1>1, <2>1, <2>2 DEF CreateRead
<1>2. ASSUME NEW c \in Clients, NEW j \in Jobs, NEW t \in Types,
             CreateInsert(c, j, t)
      PROVE  TypeOK'
  BY <1>2 DEF CreateInsert, Await, KeyOf
<1>3. ASSUME NEW c \in Clients, CreateEnqueue(c)
      PROVE  TypeOK'
  BY <1>3 DEF CreateEnqueue, Reply, Await, EntryHasRow
<1>4. ASSUME NEW c \in Clients, NEW j \in Jobs, CancelRead(c, j)
      PROVE  TypeOK'

  <2>1. CASE Await(c, "cancel", j, None)
    BY <1>4, <2>1 DEF CancelRead, Await
  <2>2. CASE UNCHANGED requests
    BY <1>4, <2>2 DEF CancelRead
  <2> QED
    BY <1>4, <2>1, <2>2 DEF CancelRead
<1>5. ASSUME NEW c \in Clients, CancelWrite(c)
      PROVE  TypeOK'

  <2>1. cjob[c] \in Jobs
    BY <1>5 DEF CancelWrite
  <2>2. jerr' \in [Jobs -> BOOLEAN]
    <3>1. jerr' = [jerr EXCEPT ![cjob[c]] = TRUE] \/ jerr' = jerr
      BY <1>5 DEF CancelWrite
    <3> QED
      BY <3>1, BoolExcept
  <2> QED
    BY <1>5, <2>1, <2>2 DEF CancelWrite, Reply, Await
<1>6. ASSUME NEW c \in Clients, RequestFails(c)
      PROVE  TypeOK'
  BY <1>6 DEF RequestFails, Reply, Await
<1>7. ASSUME NEW f \in Files, UserDelete(f)
      PROVE  TypeOK'
  BY <1>7 DEF UserDelete
<1>8. ASSUME NEW r \in Runs, Activate(r)
      PROVE  TypeOK'
  BY <1>8, SMTT(60) DEF Activate, SetRow, Goto, Touch, Holds, RowExists
<1>9. ASSUME NEW r \in Runs, ReadInput(r)
      PROVE  TypeOK'
  BY <1>9 DEF ReadInput, Goto
<1>10. ASSUME NEW r \in Runs, Fetch(r)
      PROVE  TypeOK'
  BY <1>10 DEF Fetch, Goto
<1>11. ASSUME NEW r \in Runs, Stage(r)
      PROVE  TypeOK'
  BY <1>11 DEF Stage, StageProgress, AfterStage, Goto, Touch, Holds, RowExists
<1>12. ASSUME NEW r \in Runs, Put(r)
      PROVE  TypeOK'
  BY <1>12 DEF Put, Goto
<1>13. ASSUME NEW r \in Runs, NEW o \in Outputs, Record(r, o)
      PROVE  TypeOK'
  BY <1>13 DEF Record, Goto
<1>14. ASSUME NEW r \in Runs, Complete(r)
      PROVE  TypeOK'

  <2>1. rjob[r] \in Jobs
    BY <1>14 DEF Complete
  <2>2. jout' \in [Jobs -> Files \cup {None}]
    BY <1>14, <2>1, SMTT(20) DEF Complete, SetRow
  <2>3. jstatus' \in [Jobs -> JobStatus] /\ jprog' \in [Jobs -> 0..3]
    BY <1>14, <2>1 DEF Complete, SetRow
  <2> QED
    BY <1>14, <2>1, <2>2, <2>3 DEF Complete, Goto, Touch
<1>15. ASSUME NEW r \in Runs, Return(r)
      PROVE  TypeOK'
  BY <1>15 DEF Return, Holds, FreeRun
<1>16. ASSUME NEW r \in Runs, Throws(r)
      PROVE  TypeOK'

  <2>1. rjob[r] \in Jobs
    BY <1>16 DEF Throws, Throw
  <2>2. Holds(r) => attempts[rjob[r]] \in 0..(MaxAttempts - 1)
    BY <2>1 DEF EntryHasRow, Holds
  <2>3. /\ attempts' \in [Jobs -> 0..MaxAttempts]
        /\ bull' \in [Jobs -> BullState]
        /\ lock' \in [Jobs -> Runs \cup {None}]
        /\ failWrites' \subseteq Jobs \X (1..(MaxAttempts + 1))
    <3>1. CASE Holds(r)
      <4>1. attempts[rjob[r]] < MaxAttempts /\ MoveToFailed(rjob[r])
        BY <1>16, <2>2, <3>1 DEF Throws, Throw
      <4>2. TypeOK OBVIOUS
      <4> HIDE DEF TypeOK
      <4> QED BY <2>1, <4>1, <4>2, MoveToFailedTypes
    <3>2. CASE ~Holds(r)
      BY <1>16, <3>2 DEF Throws, Throw
    <3> QED BY <3>1, <3>2
  <2> QED
    BY <1>16, <2>1, <2>3 DEF Throws, Throw, FreeRun
<1>17. ASSUME NEW r \in Runs, StageRejects(r)
      PROVE  TypeOK'

  <2>1. rjob[r] \in Jobs
    BY <1>17 DEF StageRejects, Throw
  <2>2. Holds(r) => attempts[rjob[r]] \in 0..(MaxAttempts - 1)
    BY <2>1 DEF EntryHasRow, Holds
  <2>3. /\ attempts' \in [Jobs -> 0..MaxAttempts]
        /\ bull' \in [Jobs -> BullState]
        /\ lock' \in [Jobs -> Runs \cup {None}]
        /\ failWrites' \subseteq Jobs \X (1..(MaxAttempts + 1))
    <3>1. CASE Holds(r)
      <4>1. attempts[rjob[r]] < MaxAttempts /\ MoveToFailed(rjob[r])
        BY <1>17, <2>2, <3>1 DEF StageRejects, Throw
      <4>2. TypeOK OBVIOUS
      <4> HIDE DEF TypeOK
      <4> QED BY <2>1, <4>1, <4>2, MoveToFailedTypes
    <3>2. CASE ~Holds(r)
      BY <1>17, <3>2 DEF StageRejects, Throw
    <3> QED BY <3>1, <3>2
  <2> QED
    BY <1>17, <2>1, <2>3 DEF StageRejects, StageProgress, Throw, FreeRun
<1>18. ASSUME NEW j \in Jobs, NEW r \in Runs, Take(r, j)
      PROVE  TypeOK'
  BY <1>18 DEF Take
<1>19. ASSUME NEW j \in Jobs, Retry(j)
      PROVE  TypeOK'
  BY <1>19 DEF Retry
<1>20. ASSUME NEW j \in Jobs, Redeliver(j)
      PROVE  TypeOK'
  BY <1>20 DEF Redeliver
<1>21. ASSUME NEW j \in Jobs, LoseLock(j)
      PROVE  TypeOK'
  BY <1>21 DEF LoseLock
<1>22. ASSUME NEW j \in Jobs, NEW n \in 1..(MaxAttempts + 1), LandFailed(j, n)
      PROVE  TypeOK'

  <2>1. jerr' \in [Jobs -> BOOLEAN]
    <3>1. jerr' = [jerr EXCEPT ![j] = TRUE] \/ jerr' = jerr
      BY <1>22 DEF LandFailed
    <3> QED
      BY <3>1, BoolExcept
  <2> QED
    BY <1>22, <2>1 DEF LandFailed, StrayIfOvertaken, Overtaken, RowExists
<1>23. ASSUME NEW j \in Jobs, NEW p \in 1..3, LandProgress(j, p)
      PROVE  TypeOK'
  BY <1>23 DEF LandProgress, StrayIfOvertaken, Overtaken, RowExists
<1>24. ASSUME NEW j \in Jobs, NEW n \in 1..(MaxAttempts + 1), DropFailed(j, n)
      PROVE  TypeOK'
  BY <1>24 DEF DropFailed
<1>25. CASE WorkerCrash
  BY <1>25 DEF WorkerCrash
<1>26. ASSUME NEW s \in Sweeps, GuestFind(s)
      PROVE  TypeOK'
  BY <1>26 DEF GuestFind, Sweepable
<1>27. ASSUME NEW s \in Sweeps, NEW f \in Files, GuestRemove(s, f)
      PROVE  TypeOK'
  BY <1>27 DEF GuestRemove, KeyOf, FilesExist
<1>28. ASSUME NEW s \in Sweeps, GuestHardDelete(s)
      PROVE  TypeOK'
  BY <1>28 DEF GuestHardDelete, RowExists
<1>29. CASE UNCHANGED vars
  BY <1>29 DEF vars
<1> QED
  BY <1>1, <1>2, <1>3, <1>4, <1>5, <1>6, <1>7, <1>8, <1>9, <1>10,
     <1>11, <1>12, <1>13, <1>14, <1>15, <1>16, <1>17, <1>18, <1>19, <1>20,
     <1>21, <1>22, <1>23, <1>24, <1>25, <1>26, <1>27, <1>28, <1>29
     DEF Next, Api, RunStepOk, RunFails, Deliver, Land, Drop, GuestSweep

-----------------------------------------------------------------------------
(***************************************************************************)
(* The step of the inductive invariant.  Under each action the parts it    *)
(* can disturb come one by one; then the parts about variables it leaves   *)
(* alone.                                                                  *)
(***************************************************************************)
\* The sweep takes a completed row away, or leaves it completed: when it deletes
\* the output it leaves the trace that there was one.
LEMMA DoneSurvivesSweep ==
  ASSUME TypeOK, FilesExist, OutputIsOwn, NEW s \in Sweeps, GuestHardDelete(s),
         NEW j \in Jobs, RowExists(j)'
  PROVE  RowExists(j) /\ (RowIsDone(j) => RowIsDone(j)')
<1> USE PipelineAssumption
    DEF TypeOK, RowExists, Files, GuestHardDelete, files, rows, queue, runs,
        writes, requests, faults, history
<1>1. RowExists(j) /\ jstatus'[j] = jstatus[j]
  OBVIOUS
<1>2. ASSUME RowIsDone(j), jtype[j] = "image"
      PROVE  jout'[j] # None \/ \E o \in Outputs : producer'[o] = j /\ fstatus'[o] = "gone"
  <2>1. CASE jout[j] = cur[s]
    BY <1>2, <2>1 DEF OutputIsOwn, FilesExist, RowIsDone
  <2>2. CASE jout[j] # cur[s]
    BY <1>2, <2>2 DEF RowIsDone
  <2> QED
    BY <2>1, <2>2
<1> QED
  BY <1>1, <1>2 DEF RowIsDone

\* Every step keeps the inductive invariant.
LEMMA InvStep == IInv /\ TypeOK' /\ [Next]_vars => IInv'
<1> SUFFICES ASSUME IInv, TypeOK', [Next]_vars PROVE IInv'
  OBVIOUS
<1> USE PipelineAssumption
    DEF IInv, RowExists, Files,
        files, rows, queue, runs, writes, requests, sweep, faults, history
<1>1. ASSUME NEW c \in Clients, NEW f \in Files, CreateRead(c, f)
      PROVE  IInv'
  <2>1. FilesExist'
    BY <1>1 DEF CreateRead, Await, TypeOK, FilesExist, EntryHasRow
  <2>2. EntryHasRow'
    BY <1>1, SMTT(30) DEF CreateRead, Await, TypeOK, EntryHasRow
  <2>3. RowHasInput' /\ UnsettledIsInFlight' /\ InputBytesOrSwept' /\
       PutBeforeRecord' /\ StepFitsType' /\ HolderHasWritten' /\
       InFlightInputKept' /\ OutputHasBytes' /\ OutputIsOwn' /\
       QueueAndRowAgree'
    BY <1>1 DEF CreateRead, Await, RowHasInput, UnsettledIsInFlight,
          InputBytesOrSwept, PutBeforeRecord, StepFitsType, HolderHasWritten,
          RowIsDone, Holds, InFlightInputKept, KeyOf, OutputHasBytes,
          OutputIsOwn, QueueAndRowAgree, FailureShows
  <2> QED
    BY <2>1, <2>2, <2>3
<1>2. ASSUME NEW c \in Clients, NEW j \in Jobs, NEW t \in Types,
             CreateInsert(c, j, t)
      PROVE  IInv'
  <2>1. RowHasInput'
    <3>1. cfile[c] \in Files /\ fstatus[cfile[c]] \in {"ready", "deleted"}
      BY <1>2 DEF TypeOK, CreateInsert, FilesExist, FileStatus
    <3> QED
      BY <1>2, <3>1 DEF TypeOK, CreateInsert, RowHasInput
  <2>2. InFlightInputKept'
    \* the file was not in a sweep run's hands, and its bytes were there
    <3>1. cfile[c] \in Files /\ fstatus[cfile[c]] \in {"ready", "deleted"}
      BY <1>2 DEF TypeOK, CreateInsert, FilesExist, FileStatus
    <3>2. j \notin lateJobs' =>
            /\ \A s \in Sweeps : cfile[c] \notin found[s]
            /\ cfile[c] \in Inputs => cfile[c] \in objects
      BY <1>2 DEF TypeOK, CreateInsert, InputBytesOrSwept, KeyOf
    <3> QED
      BY <1>2, <3>1, <3>2 DEF TypeOK, CreateInsert, InFlightInputKept
  <2>3. EntryHasRow'
    \* the job's id is new: nothing refers to it yet
    BY <1>2 DEF CreateInsert, Await, KeyOf, TypeOK, EntryHasRow
  <2>4. FilesExist' /\ UnsettledIsInFlight' /\ StepFitsType' /\
       HolderHasWritten' /\ QueueAndRowAgree'
    BY <1>2 DEF CreateInsert, Await, KeyOf, TypeOK, FilesExist, EntryHasRow,
          UnsettledIsInFlight, StepFitsType, HolderHasWritten, OutputIsOwn,
          RowIsDone, Holds, QueueAndRowAgree, FailureShows
  <2>5. InputBytesOrSwept' /\ PutBeforeRecord' /\ OutputHasBytes' /\
       OutputIsOwn'
    BY <1>2 DEF CreateInsert, Await, KeyOf, InputBytesOrSwept,
          PutBeforeRecord, OutputHasBytes, OutputIsOwn
  <2> QED
    BY <2>1, <2>2, <2>3, <2>4, <2>5
<1>3. ASSUME NEW c \in Clients, CreateEnqueue(c)
      PROVE  IInv'
  <2>1. EntryHasRow'
    \* only this request enqueues the job
    BY <1>3 DEF CreateEnqueue, Reply, Await, TypeOK, EntryHasRow
  <2>2. FilesExist' /\ QueueAndRowAgree'
    BY <1>3 DEF CreateEnqueue, Reply, Await, TypeOK, FilesExist, EntryHasRow,
          QueueAndRowAgree, HolderHasWritten, OutputIsOwn, RowIsDone,
          FailureShows, Holds
  <2>3. RowHasInput' /\ UnsettledIsInFlight' /\ InputBytesOrSwept' /\
       PutBeforeRecord' /\ StepFitsType' /\ HolderHasWritten' /\
       InFlightInputKept' /\ OutputHasBytes' /\ OutputIsOwn'
    BY <1>3 DEF CreateEnqueue, Reply, Await, RowHasInput, UnsettledIsInFlight,
          InputBytesOrSwept, PutBeforeRecord, StepFitsType, HolderHasWritten,
          RowIsDone, Holds, InFlightInputKept, KeyOf, OutputHasBytes,
          OutputIsOwn
  <2> QED
    BY <2>1, <2>2, <2>3
<1>4. ASSUME NEW c \in Clients, NEW j \in Jobs, CancelRead(c, j)
      PROVE  IInv'
  <2>1. EntryHasRow'
    BY <1>4 DEF CancelRead, Await, TypeOK, EntryHasRow
  <2>2. FilesExist'
    BY <1>4, SMTT(20) DEF CancelRead, Await, TypeOK, FilesExist, EntryHasRow
  <2>3. RowHasInput' /\ UnsettledIsInFlight' /\ InputBytesOrSwept' /\
       PutBeforeRecord' /\ StepFitsType' /\ HolderHasWritten' /\
       InFlightInputKept' /\ OutputHasBytes' /\ OutputIsOwn' /\
       QueueAndRowAgree'
    BY <1>4 DEF CancelRead, Await, RowHasInput, UnsettledIsInFlight,
          InputBytesOrSwept, PutBeforeRecord, StepFitsType, HolderHasWritten,
          RowIsDone, Holds, InFlightInputKept, KeyOf, OutputHasBytes,
          OutputIsOwn, QueueAndRowAgree, FailureShows
  <2> QED
    BY <2>1, <2>2, <2>3
<1>5. ASSUME NEW c \in Clients, CancelWrite(c)
      PROVE  IInv'
  <2>1. EntryHasRow'
    BY <1>5 DEF CancelWrite, Reply, Await, TypeOK, EntryHasRow
  <2>2. FilesExist'
    BY <1>5 DEF CancelWrite, Reply, Await, TypeOK, FilesExist, EntryHasRow
  <2>3. QueueAndRowAgree'
    \* a pending row is not completed; a failed one gets its reason
    BY <1>5 DEF CancelWrite, Reply, Await, TypeOK, QueueAndRowAgree,
          EntryHasRow, HolderHasWritten, FilesExist, OutputIsOwn, RowIsDone,
          FailureShows, Holds
  <2>4. RowHasInput' /\ UnsettledIsInFlight' /\ HolderHasWritten' /\
       InFlightInputKept'
    BY <1>5 DEF CancelWrite, Reply, Await, TypeOK, RowHasInput, FilesExist,
          UnsettledIsInFlight, HolderHasWritten, EntryHasRow, StepFitsType,
          OutputIsOwn, RowIsDone, Holds, InFlightInputKept, InputBytesOrSwept,
          KeyOf
  <2>5. InputBytesOrSwept' /\ PutBeforeRecord' /\ StepFitsType' /\
       OutputHasBytes' /\ OutputIsOwn'
    BY <1>5 DEF CancelWrite, Reply, Await, InputBytesOrSwept, PutBeforeRecord,
          StepFitsType, OutputHasBytes, KeyOf, OutputIsOwn
  <2> QED
    BY <2>1, <2>2, <2>3, <2>4, <2>5
<1>6. ASSUME NEW c \in Clients, RequestFails(c)
      PROVE  IInv'
  <2>1. EntryHasRow'
    BY <1>6 DEF RequestFails, Reply, Await, TypeOK, EntryHasRow
  <2>2. FilesExist'
    BY <1>6 DEF RequestFails, Reply, Await, TypeOK, FilesExist, EntryHasRow
  <2>3. RowHasInput' /\ UnsettledIsInFlight' /\ InputBytesOrSwept' /\
       PutBeforeRecord' /\ StepFitsType' /\ HolderHasWritten' /\
       InFlightInputKept' /\ OutputHasBytes' /\ OutputIsOwn' /\
       QueueAndRowAgree'
    BY <1>6 DEF RequestFails, Reply, Await, RowHasInput, UnsettledIsInFlight,
          InputBytesOrSwept, PutBeforeRecord, StepFitsType, HolderHasWritten,
          RowIsDone, Holds, InFlightInputKept, KeyOf, OutputHasBytes,
          OutputIsOwn, QueueAndRowAgree, FailureShows
  <2> QED
    BY <2>1, <2>2, <2>3
<1>7. ASSUME NEW f \in Files, UserDelete(f)
      PROVE  IInv'
  <2>1. FilesExist' /\ RowHasInput' /\ HolderHasWritten' /\
       InFlightInputKept' /\ OutputHasBytes' /\ OutputIsOwn' /\
       QueueAndRowAgree'
    BY <1>7 DEF UserDelete, TypeOK, FilesExist, EntryHasRow, RowHasInput,
          HolderHasWritten, StepFitsType, OutputIsOwn, RowIsDone, Holds,
          InFlightInputKept, UnsettledIsInFlight, InputBytesOrSwept, KeyOf,
          OutputHasBytes, PutBeforeRecord, QueueAndRowAgree, FailureShows
  <2>2. EntryHasRow' /\ UnsettledIsInFlight' /\ InputBytesOrSwept' /\
       PutBeforeRecord' /\ StepFitsType'
    BY <1>7 DEF UserDelete, EntryHasRow, UnsettledIsInFlight,
          InputBytesOrSwept, PutBeforeRecord, StepFitsType
  <2> QED
    BY <2>1, <2>2
<1>8. ASSUME NEW r \in Runs, Activate(r)
      PROVE  IInv'
  <2>1. UnsettledIsInFlight'
    BY <1>8 DEF Activate, SetRow, Goto, Touch, Holds, TypeOK,
          UnsettledIsInFlight
  <2>2. HolderHasWritten'
    \* another run of the job would make it a stray
    BY <1>8 DEF Activate, SetRow, Goto, Touch, Holds, TypeOK,
          HolderHasWritten, EntryHasRow, StepFitsType, FilesExist,
          OutputIsOwn, RowIsDone
  <2>3. InFlightInputKept'
    BY <1>8 DEF Activate, SetRow, Goto, Touch, Holds, TypeOK,
          InFlightInputKept, RowHasInput, UnsettledIsInFlight,
          InputBytesOrSwept, FilesExist, KeyOf
  <2>4. OutputIsOwn'
    BY <1>8 DEF Activate, SetRow, Goto, Touch, Holds, TypeOK, OutputIsOwn,
          FilesExist, EntryHasRow
  <2>5. QueueAndRowAgree'
    \* a run with the lock works on an active entry
    BY <1>8 DEF Activate, SetRow, Goto, Touch, Holds, TypeOK,
          QueueAndRowAgree, EntryHasRow, HolderHasWritten, FilesExist,
          OutputIsOwn, RowIsDone, FailureShows
  <2>6. EntryHasRow' /\ RowHasInput' /\ PutBeforeRecord' /\ StepFitsType'
    BY <1>8 DEF Activate, SetRow, Goto, Touch, Holds, TypeOK, EntryHasRow,
          RowHasInput, FilesExist, PutBeforeRecord, KeyOf, StepFitsType
  <2>7. FilesExist' /\ InputBytesOrSwept' /\ OutputHasBytes'
    BY <1>8 DEF Activate, SetRow, Goto, Touch, Holds, FilesExist,
          InputBytesOrSwept, OutputHasBytes, KeyOf
  <2> QED
    BY <2>1, <2>2, <2>3, <2>4, <2>5, <2>6, <2>7
<1>9. ASSUME NEW r \in Runs, ReadInput(r)
      PROVE  IInv'
  <2>1. PutBeforeRecord' /\ StepFitsType' /\ HolderHasWritten'
    BY <1>9 DEF ReadInput, Goto, TypeOK, PutBeforeRecord, KeyOf, StepFitsType,
          EntryHasRow, HolderHasWritten, FilesExist, OutputIsOwn, RowIsDone,
          Holds
  <2>2. EntryHasRow' /\ FilesExist' /\ RowHasInput' /\ UnsettledIsInFlight' /\
       InputBytesOrSwept' /\ InFlightInputKept' /\ OutputHasBytes' /\
       OutputIsOwn' /\ QueueAndRowAgree'
    BY <1>9 DEF ReadInput, Goto, EntryHasRow, FilesExist, RowHasInput,
          UnsettledIsInFlight, InputBytesOrSwept, InFlightInputKept, KeyOf,
          OutputHasBytes, OutputIsOwn, QueueAndRowAgree, RowIsDone,
          FailureShows
  <2> QED
    BY <2>1, <2>2
<1>10. ASSUME NEW r \in Runs, Fetch(r)
      PROVE  IInv'
  <2>1. PutBeforeRecord' /\ StepFitsType' /\ HolderHasWritten'
    BY <1>10 DEF Fetch, Goto, TypeOK, PutBeforeRecord, KeyOf, StepFitsType,
          EntryHasRow, HolderHasWritten, FilesExist, OutputIsOwn, RowIsDone,
          Holds
  <2>2. EntryHasRow' /\ FilesExist' /\ RowHasInput' /\ UnsettledIsInFlight' /\
       InputBytesOrSwept' /\ InFlightInputKept' /\ OutputHasBytes' /\
       OutputIsOwn' /\ QueueAndRowAgree'
    BY <1>10 DEF Fetch, Goto, EntryHasRow, FilesExist, RowHasInput,
          UnsettledIsInFlight, InputBytesOrSwept, InFlightInputKept, KeyOf,
          OutputHasBytes, OutputIsOwn, QueueAndRowAgree, RowIsDone,
          FailureShows
  <2> QED
    BY <2>1, <2>2
<1>11. ASSUME NEW r \in Runs, Stage(r)
      PROVE  IInv'
  <2>1. QueueAndRowAgree'
    \* a run with the lock works on an active entry, any other leaves a stray
    <3>1. rjob[r] \notin strays' => bull[rjob[r]] = "active"
      BY <1>11 DEF TypeOK, Stage, Touch, Holds, EntryHasRow
    <3> QED
      BY <1>11, <3>1 DEF TypeOK, Stage, Goto, Touch, QueueAndRowAgree, RowIsDone, FailureShows
  <2>2. HolderHasWritten'
    \* another run of the job would make it a stray
    BY <1>11 DEF Stage, StageProgress, AfterStage, Goto, Touch, Holds, TypeOK,
          HolderHasWritten, EntryHasRow, StepFitsType, FilesExist,
          OutputIsOwn, RowIsDone
  <2>3. PutBeforeRecord' /\ StepFitsType'
    BY <1>11 DEF Stage, StageProgress, AfterStage, Goto, Touch, Holds, TypeOK,
          PutBeforeRecord, KeyOf, StepFitsType, EntryHasRow
  <2>4. EntryHasRow' /\ FilesExist' /\ RowHasInput' /\ UnsettledIsInFlight' /\
       InputBytesOrSwept' /\ InFlightInputKept' /\ OutputHasBytes' /\
       OutputIsOwn'
    BY <1>11 DEF Stage, StageProgress, AfterStage, Goto, Touch, Holds,
          EntryHasRow, FilesExist, RowHasInput, UnsettledIsInFlight,
          InputBytesOrSwept, InFlightInputKept, KeyOf, OutputHasBytes,
          OutputIsOwn
  <2> QED
    BY <2>1, <2>2, <2>3, <2>4
<1>12. ASSUME NEW r \in Runs, Put(r)
      PROVE  IInv'
  <2>1. InputBytesOrSwept' /\ PutBeforeRecord' /\ StepFitsType' /\
       HolderHasWritten' /\ InFlightInputKept' /\ OutputHasBytes'
    BY <1>12 DEF Put, Goto, TypeOK, InputBytesOrSwept, KeyOf, PutBeforeRecord,
          StepFitsType, EntryHasRow, HolderHasWritten, FilesExist,
          OutputIsOwn, RowIsDone, Holds, InFlightInputKept, RowHasInput,
          UnsettledIsInFlight, OutputHasBytes
  <2>2. EntryHasRow' /\ FilesExist' /\ RowHasInput' /\ UnsettledIsInFlight' /\
       OutputIsOwn' /\ QueueAndRowAgree'
    BY <1>12 DEF Put, Goto, EntryHasRow, FilesExist, RowHasInput,
          UnsettledIsInFlight, OutputIsOwn, QueueAndRowAgree, RowIsDone,
          FailureShows
  <2> QED
    BY <2>1, <2>2
<1>13. ASSUME NEW r \in Runs, NEW o \in Outputs, Record(r, o)
      PROVE  IInv'
  <2>1. FilesExist'
    \* the output row is new: nothing refers to it yet
    BY <1>13 DEF Record, Goto, TypeOK, FilesExist, EntryHasRow
  <2>2. OutputHasBytes'
    \* the bytes were stored before
    BY <1>13 DEF Record, Goto, TypeOK, OutputHasBytes, PutBeforeRecord,
          FilesExist, KeyOf
  <2>3. RowHasInput' /\ PutBeforeRecord' /\ StepFitsType' /\
       HolderHasWritten' /\ InFlightInputKept' /\ OutputIsOwn' /\
       QueueAndRowAgree'
    BY <1>13 DEF Record, Goto, TypeOK, RowHasInput, FilesExist,
          PutBeforeRecord, KeyOf, StepFitsType, EntryHasRow, HolderHasWritten,
          OutputIsOwn, RowIsDone, Holds, InFlightInputKept,
          UnsettledIsInFlight, InputBytesOrSwept, QueueAndRowAgree,
          FailureShows
  <2>4. EntryHasRow' /\ UnsettledIsInFlight' /\ InputBytesOrSwept'
    BY <1>13 DEF Record, Goto, EntryHasRow, UnsettledIsInFlight,
          InputBytesOrSwept
  <2> QED
    BY <2>1, <2>2, <2>3, <2>4
<1>14. ASSUME NEW r \in Runs, Complete(r)
      PROVE  IInv'
  <2>1. OutputIsOwn'
    <3>1. rjob[r] \in Jobs
      BY <1>14 DEF TypeOK, Complete
    <3>2. rout[r] # None =>
            producer[rout[r]] = rjob[r] /\ fstatus[rout[r]] \in {"ready", "deleted"}
      BY <1>14 DEF TypeOK, Complete, FilesExist, FileStatus
    <3> QED
      BY <1>14, <3>1, <3>2 DEF TypeOK, Complete, SetRow, OutputIsOwn
  <2>2. QueueAndRowAgree'
    \* a run with the lock works on an active entry, any other leaves a stray
    <3>1. rjob[r] \notin strays' => bull[rjob[r]] = "active"
      BY <1>14 DEF Complete, Touch, Holds, TypeOK, EntryHasRow
    <3>2. ASSUME NEW j \in Jobs, j # rjob[r]
          PROVE  /\ (RowExists(j)' <=> RowExists(j))
                 /\ (RowIsDone(j)' <=> RowIsDone(j))
                 /\ (FailureShows(j)' <=> FailureShows(j))
      BY <1>14, <3>2 DEF Complete, SetRow, TypeOK, RowIsDone, FailureShows
    <3> QED
      BY <1>14, <3>1, <3>2 DEF Complete, Touch, Goto, QueueAndRowAgree
  <2>3. UnsettledIsInFlight'
    BY <1>14 DEF Complete, SetRow, Goto, Touch, Holds, TypeOK,
          UnsettledIsInFlight
  <2>4. HolderHasWritten'
    \* the run writes what it must leave
    BY <1>14 DEF Complete, SetRow, Goto, Touch, Holds, TypeOK,
          HolderHasWritten, EntryHasRow, StepFitsType, FilesExist,
          OutputIsOwn, RowIsDone
  <2>5. InFlightInputKept'
    BY <1>14 DEF Complete, SetRow, Goto, Touch, Holds, TypeOK,
          InFlightInputKept, RowHasInput, UnsettledIsInFlight,
          InputBytesOrSwept, FilesExist, KeyOf
  <2>6. EntryHasRow' /\ RowHasInput' /\ PutBeforeRecord' /\ StepFitsType'
    BY <1>14, SMTT(20)
       DEF Complete, SetRow, Goto, Touch, Holds, TypeOK, EntryHasRow,
          RowHasInput, FilesExist, PutBeforeRecord, KeyOf, StepFitsType
  <2>7. FilesExist' /\ InputBytesOrSwept' /\ OutputHasBytes'
    BY <1>14 DEF Complete, SetRow, Goto, Touch, Holds, FilesExist,
          InputBytesOrSwept, OutputHasBytes, KeyOf
  <2> QED
    BY <2>1, <2>2, <2>3, <2>4, <2>5, <2>6, <2>7
<1>15. ASSUME NEW r \in Runs, Return(r)
      PROVE  IInv'
  <2>1. QueueAndRowAgree'
    \* the run had the lock and left the row completed
    <3>1. Holds(r) /\ rjob[r] \notin strays /\ RowExists(rjob[r]) => RowIsDone(rjob[r])
      BY <1>15 DEF TypeOK, Return, HolderHasWritten
    <3> QED
      BY <1>15, <3>1 DEF TypeOK, Return, QueueAndRowAgree, RowIsDone, FailureShows
  <2>2. EntryHasRow'
    BY <1>15 DEF Return, Holds, FreeRun, TypeOK, EntryHasRow
  <2>3. FilesExist' /\ PutBeforeRecord' /\ StepFitsType' /\ HolderHasWritten'
    BY <1>15 DEF Return, Holds, FreeRun, TypeOK, FilesExist, EntryHasRow,
          PutBeforeRecord, KeyOf, StepFitsType, HolderHasWritten, OutputIsOwn,
          RowIsDone
  <2>4. RowHasInput' /\ UnsettledIsInFlight' /\ InputBytesOrSwept' /\
       InFlightInputKept' /\ OutputHasBytes' /\ OutputIsOwn'
    BY <1>15 DEF Return, Holds, FreeRun, RowHasInput, UnsettledIsInFlight,
          InputBytesOrSwept, InFlightInputKept, KeyOf, OutputHasBytes,
          OutputIsOwn
  <2> QED
    BY <2>1, <2>2, <2>3, <2>4
<1>16. ASSUME NEW r \in Runs, Throws(r)
      PROVE  IInv'
  <2>1. QueueAndRowAgree'
    <3>1. rjob[r] \in Jobs
      BY <1>16 DEF TypeOK, Throws, Throw
    <3>2. Holds(r) => <<rjob[r], attempts[rjob[r]] + 1>> \in failWrites' /\
                      attempts[rjob[r]] + 1 \in 1..(MaxAttempts + 1)
      BY <1>16, <3>1 DEF TypeOK, Throws, Throw, MoveToFailed
    <3>3. Holds(r) => bull'[rjob[r]] \in {"delayed", "failed"}
      BY <1>16, <3>1 DEF TypeOK, Throws, Throw, MoveToFailed
    <3> QED
      BY <1>16, <3>1, <3>2, <3>3 DEF TypeOK, Throws, Throw, MoveToFailed, QueueAndRowAgree,
            RowIsDone, FailureShows
  <2>2. EntryHasRow'
    BY <1>16 DEF Throws, Throw, MoveToFailed, Holds, FreeRun, TypeOK,
          EntryHasRow
  <2>3. FilesExist' /\ PutBeforeRecord' /\ StepFitsType' /\ HolderHasWritten'
    BY <1>16 DEF Throws, Throw, MoveToFailed, Holds, FreeRun, TypeOK,
          FilesExist, EntryHasRow, PutBeforeRecord, KeyOf, StepFitsType,
          HolderHasWritten, OutputIsOwn, RowIsDone
  <2>4. RowHasInput' /\ UnsettledIsInFlight' /\ InputBytesOrSwept' /\
       InFlightInputKept' /\ OutputHasBytes' /\ OutputIsOwn'
    BY <1>16 DEF Throws, Throw, MoveToFailed, Holds, FreeRun, RowHasInput,
          UnsettledIsInFlight, InputBytesOrSwept, InFlightInputKept, KeyOf,
          OutputHasBytes, OutputIsOwn
  <2> QED
    BY <2>1, <2>2, <2>3, <2>4
<1>17. ASSUME NEW r \in Runs, StageRejects(r)
      PROVE  IInv'
  <2>1. QueueAndRowAgree'
    <3>1. rjob[r] \in Jobs
      BY <1>17 DEF TypeOK, StageRejects, Throw
    <3>2. Holds(r) => <<rjob[r], attempts[rjob[r]] + 1>> \in failWrites' /\
                      attempts[rjob[r]] + 1 \in 1..(MaxAttempts + 1)
      BY <1>17, <3>1 DEF TypeOK, StageRejects, Throw, MoveToFailed
    <3>3. Holds(r) => bull'[rjob[r]] \in {"delayed", "failed"}
      BY <1>17, <3>1 DEF TypeOK, StageRejects, Throw, MoveToFailed
    <3> QED
      BY <1>17, <3>1, <3>2, <3>3 DEF TypeOK, StageRejects, Throw, MoveToFailed, QueueAndRowAgree,
            RowIsDone, FailureShows
  <2>2. EntryHasRow'
    BY <1>17 DEF StageRejects, StageProgress, Throw, MoveToFailed, Holds,
          FreeRun, TypeOK, EntryHasRow
  <2>3. FilesExist' /\ PutBeforeRecord' /\ StepFitsType' /\ HolderHasWritten'
    BY <1>17 DEF StageRejects, StageProgress, Throw, MoveToFailed, Holds,
          FreeRun, TypeOK, FilesExist, EntryHasRow, PutBeforeRecord, KeyOf,
          StepFitsType, HolderHasWritten, OutputIsOwn, RowIsDone
  <2>4. RowHasInput' /\ UnsettledIsInFlight' /\ InputBytesOrSwept' /\
       InFlightInputKept' /\ OutputHasBytes' /\ OutputIsOwn'
    BY <1>17 DEF StageRejects, StageProgress, Throw, MoveToFailed, Holds,
          FreeRun, RowHasInput, UnsettledIsInFlight, InputBytesOrSwept,
          InFlightInputKept, KeyOf, OutputHasBytes, OutputIsOwn
  <2> QED
    BY <2>1, <2>2, <2>3, <2>4
<1>18. ASSUME NEW j \in Jobs, NEW r \in Runs, Take(r, j)
      PROVE  IInv'
  <2>1. EntryHasRow'
    BY <1>18 DEF Take, TypeOK, EntryHasRow
  <2>2. FilesExist'
    \* a free run has no output row
    BY <1>18 DEF Take, TypeOK, FilesExist, EntryHasRow
  <2>3. PutBeforeRecord' /\ StepFitsType' /\ HolderHasWritten' /\
       QueueAndRowAgree'
    BY <1>18 DEF Take, TypeOK, PutBeforeRecord, KeyOf, StepFitsType,
          EntryHasRow, HolderHasWritten, FilesExist, OutputIsOwn, RowIsDone,
          Holds, QueueAndRowAgree, FailureShows
  <2>4. RowHasInput' /\ UnsettledIsInFlight' /\ InputBytesOrSwept' /\
       InFlightInputKept' /\ OutputHasBytes' /\ OutputIsOwn'
    BY <1>18 DEF Take, RowHasInput, UnsettledIsInFlight, InputBytesOrSwept,
          InFlightInputKept, KeyOf, OutputHasBytes, OutputIsOwn
  <2> QED
    BY <2>1, <2>2, <2>3, <2>4
<1>19. ASSUME NEW j \in Jobs, Retry(j)
      PROVE  IInv'
  <2>1. EntryHasRow' /\ QueueAndRowAgree'
    BY <1>19, SMTT(30) DEF Retry, TypeOK, EntryHasRow, QueueAndRowAgree,
          HolderHasWritten, FilesExist, OutputIsOwn, RowIsDone, FailureShows,
          Holds
  <2>2. FilesExist' /\ RowHasInput' /\ UnsettledIsInFlight' /\
       InputBytesOrSwept' /\ PutBeforeRecord' /\ StepFitsType' /\
       HolderHasWritten' /\ InFlightInputKept' /\ OutputHasBytes' /\
       OutputIsOwn'
    BY <1>19 DEF Retry, FilesExist, RowHasInput, UnsettledIsInFlight,
          InputBytesOrSwept, PutBeforeRecord, StepFitsType, HolderHasWritten,
          RowIsDone, Holds, InFlightInputKept, KeyOf, OutputHasBytes,
          OutputIsOwn
  <2> QED
    BY <2>1, <2>2
<1>20. ASSUME NEW j \in Jobs, Redeliver(j)
      PROVE  IInv'
  <2>1. QueueAndRowAgree'
    <3>1. ASSUME NEW k \in Jobs, FailureShows(k)
          PROVE  FailureShows(k)'
      BY <1>20, <3>1 DEF Redeliver, FailureShows
    <3>2. bull'[j] = "failed" => FailureShows(j)'
      <4>1. attempts[j] + 1 \in 1..(MaxAttempts + 1)
        BY DEF TypeOK
      <4> QED
        BY <1>20, <4>1 DEF Redeliver, TypeOK, FailureShows
    <3>3. bull'[j] # "completed" /\ \A k \in Jobs \ {j} : bull'[k] = bull[k]
      BY <1>20 DEF Redeliver, TypeOK
    <3> QED
      BY <1>20, <3>1, <3>2, <3>3 DEF Redeliver, QueueAndRowAgree, RowIsDone
  <2>2. EntryHasRow'
    BY <1>20 DEF Redeliver, TypeOK, EntryHasRow
  <2>3. FilesExist' /\ RowHasInput' /\ UnsettledIsInFlight' /\
       InputBytesOrSwept' /\ PutBeforeRecord' /\ StepFitsType' /\
       HolderHasWritten' /\ InFlightInputKept' /\ OutputHasBytes' /\
       OutputIsOwn'
    BY <1>20 DEF Redeliver, FilesExist, RowHasInput, UnsettledIsInFlight,
          InputBytesOrSwept, PutBeforeRecord, StepFitsType, HolderHasWritten,
          RowIsDone, Holds, InFlightInputKept, KeyOf, OutputHasBytes,
          OutputIsOwn
  <2> QED
    BY <2>1, <2>2, <2>3
<1>21. ASSUME NEW j \in Jobs, LoseLock(j)
      PROVE  IInv'
  <2>1. EntryHasRow' /\ HolderHasWritten'
    BY <1>21, SMTT(30) DEF LoseLock, TypeOK, EntryHasRow, HolderHasWritten,
          StepFitsType, FilesExist, OutputIsOwn, RowIsDone, Holds
  <2>2. FilesExist' /\ RowHasInput' /\ UnsettledIsInFlight' /\
       InputBytesOrSwept' /\ PutBeforeRecord' /\ StepFitsType' /\
       InFlightInputKept' /\ OutputHasBytes' /\ OutputIsOwn' /\
       QueueAndRowAgree'
    BY <1>21 DEF LoseLock, FilesExist, RowHasInput, UnsettledIsInFlight,
          InputBytesOrSwept, PutBeforeRecord, StepFitsType, InFlightInputKept,
          KeyOf, OutputHasBytes, OutputIsOwn, QueueAndRowAgree, RowIsDone,
          FailureShows
  <2> QED
    BY <2>1, <2>2
<1>22. ASSUME NEW j \in Jobs, NEW n \in 1..(MaxAttempts + 1), LandFailed(j, n)
      PROVE  IInv'
  <2>1. HolderHasWritten'
    \* a locked entry is active, so the update is a stray
    BY <1>22 DEF LandFailed, StrayIfOvertaken, Overtaken, TypeOK,
          HolderHasWritten, EntryHasRow, StepFitsType, FilesExist,
          OutputIsOwn, RowIsDone, Holds
  <2>2. QueueAndRowAgree'
    \* the awaited update arrives, or it is a stray
    BY <1>22 DEF LandFailed, StrayIfOvertaken, Overtaken, TypeOK,
          QueueAndRowAgree, EntryHasRow, HolderHasWritten, FilesExist,
          OutputIsOwn, RowIsDone, FailureShows, Holds
  <2>3. EntryHasRow' /\ RowHasInput' /\ UnsettledIsInFlight' /\
       InFlightInputKept'
    BY <1>22 DEF LandFailed, StrayIfOvertaken, Overtaken, TypeOK, EntryHasRow,
          RowHasInput, FilesExist, UnsettledIsInFlight, InFlightInputKept,
          InputBytesOrSwept, KeyOf
  <2>4. FilesExist' /\ InputBytesOrSwept' /\ PutBeforeRecord' /\
       StepFitsType' /\ OutputHasBytes' /\ OutputIsOwn'
    BY <1>22 DEF LandFailed, StrayIfOvertaken, Overtaken, FilesExist,
          InputBytesOrSwept, PutBeforeRecord, StepFitsType, OutputHasBytes,
          KeyOf, OutputIsOwn
  <2> QED
    BY <2>1, <2>2, <2>3, <2>4
<1>23. ASSUME NEW j \in Jobs, NEW p \in 1..3, LandProgress(j, p)
      PROVE  IInv'
  <2>1. HolderHasWritten'
    \* a locked entry is active, so the update is a stray
    BY <1>23 DEF LandProgress, StrayIfOvertaken, Overtaken, TypeOK,
          HolderHasWritten, EntryHasRow, StepFitsType, FilesExist,
          OutputIsOwn, RowIsDone, Holds
  <2>2. QueueAndRowAgree'
    BY <1>23 DEF LandProgress, StrayIfOvertaken, Overtaken, TypeOK,
          QueueAndRowAgree, EntryHasRow, HolderHasWritten, FilesExist,
          OutputIsOwn, RowIsDone, FailureShows, Holds
  <2>3. EntryHasRow' /\ FilesExist' /\ RowHasInput' /\ UnsettledIsInFlight' /\
       InputBytesOrSwept' /\ PutBeforeRecord' /\ StepFitsType' /\
       InFlightInputKept' /\ OutputHasBytes' /\ OutputIsOwn'
    BY <1>23 DEF LandProgress, StrayIfOvertaken, Overtaken, EntryHasRow,
          FilesExist, RowHasInput, UnsettledIsInFlight, InputBytesOrSwept,
          PutBeforeRecord, StepFitsType, InFlightInputKept, KeyOf,
          OutputHasBytes, OutputIsOwn
  <2> QED
    BY <2>1, <2>2, <2>3
<1>24. ASSUME NEW j \in Jobs, NEW n \in 1..(MaxAttempts + 1), DropFailed(j, n)
      PROVE  IInv'
  <2>1. QueueAndRowAgree'
    \* a dropped update is lost
    <3>1. ASSUME NEW i \in Jobs, FailureShows(i) PROVE FailureShows(i)'
      BY <1>24, <3>1 DEF DropFailed, FailureShows
    <3>2. ASSUME NEW i \in Jobs, RowIsDone(i) PROVE RowIsDone(i)'
      BY <1>24, <3>2 DEF DropFailed, RowIsDone
    <3>3. ASSUME NEW i \in Jobs PROVE RowExists(i)' = RowExists(i)
      BY <1>24 DEF DropFailed, RowExists
    <3> QED BY <1>24, <3>1, <3>2, <3>3 DEF DropFailed, QueueAndRowAgree
  <2>2. EntryHasRow' /\ FilesExist' /\ RowHasInput' /\ UnsettledIsInFlight' /\
       InputBytesOrSwept' /\ PutBeforeRecord' /\ StepFitsType' /\
       HolderHasWritten' /\ InFlightInputKept' /\ OutputHasBytes' /\
       OutputIsOwn'
    BY <1>24 DEF DropFailed, EntryHasRow, FilesExist, RowHasInput,
          UnsettledIsInFlight, InputBytesOrSwept, PutBeforeRecord,
          StepFitsType, HolderHasWritten, RowIsDone, Holds, InFlightInputKept,
          KeyOf, OutputHasBytes, OutputIsOwn
  <2> QED
    BY <2>1, <2>2
<1>25. CASE WorkerCrash
  <2>1. QueueAndRowAgree'
    \* an update under way is lost
    <3>1. ASSUME NEW j \in Jobs, FailureShows(j)
          PROVE  FailureShows(j)'
      <4>1. ASSUME NEW n \in 1..(MaxAttempts + 1), <<j, n>> \in failWrites
            PROVE  j \in lost'
        BY <1>25, <4>1 DEF TypeOK, WorkerCrash
      <4> QED
        BY <1>25, <3>1, <4>1 DEF TypeOK, WorkerCrash, FailureShows
    <3> QED
      BY <1>25, <3>1 DEF TypeOK, WorkerCrash, QueueAndRowAgree, RowIsDone
  <2>2. EntryHasRow' /\ FilesExist' /\ PutBeforeRecord' /\ StepFitsType' /\
       HolderHasWritten' /\ InFlightInputKept'
    BY <1>25 DEF WorkerCrash, TypeOK, EntryHasRow, FilesExist,
          PutBeforeRecord, KeyOf, StepFitsType, HolderHasWritten, OutputIsOwn,
          RowIsDone, Holds, InFlightInputKept, RowHasInput,
          UnsettledIsInFlight, InputBytesOrSwept
  <2>3. RowHasInput' /\ UnsettledIsInFlight' /\ InputBytesOrSwept' /\
       OutputHasBytes' /\ OutputIsOwn'
    BY <1>25 DEF WorkerCrash, RowHasInput, UnsettledIsInFlight,
          InputBytesOrSwept, OutputHasBytes, KeyOf, OutputIsOwn
  <2> QED
    BY <2>1, <2>2, <2>3
<1>26. ASSUME NEW s \in Sweeps, GuestFind(s)
      PROVE  IInv'
  <2>1. FilesExist'
    BY <1>26 DEF GuestFind, Sweepable, TypeOK, FilesExist, EntryHasRow
  <2>2. InFlightInputKept'
    \* the query leaves out the files of pending and active jobs
    BY <1>26 DEF GuestFind, Sweepable, TypeOK, InFlightInputKept, RowHasInput,
          UnsettledIsInFlight, InputBytesOrSwept, FilesExist, KeyOf
  <2>3. EntryHasRow' /\ RowHasInput' /\ UnsettledIsInFlight' /\
       InputBytesOrSwept' /\ PutBeforeRecord' /\ StepFitsType' /\
       HolderHasWritten' /\ OutputHasBytes' /\ OutputIsOwn' /\
       QueueAndRowAgree'
    BY <1>26 DEF GuestFind, Sweepable, EntryHasRow, RowHasInput,
          UnsettledIsInFlight, InputBytesOrSwept, PutBeforeRecord,
          StepFitsType, HolderHasWritten, RowIsDone, Holds, OutputHasBytes,
          KeyOf, OutputIsOwn, QueueAndRowAgree, FailureShows
  <2> QED
    BY <2>1, <2>2, <2>3
<1>27. ASSUME NEW s \in Sweeps, NEW f \in Files, GuestRemove(s, f)
      PROVE  IInv'
  <2>1. InFlightInputKept'
    \* a key that is an upload's belongs to no other row
    BY <1>27 DEF GuestRemove, KeyOf, TypeOK, InFlightInputKept, RowHasInput,
          UnsettledIsInFlight, InputBytesOrSwept, FilesExist
  <2>2. InputBytesOrSwept' /\ PutBeforeRecord' /\ OutputHasBytes'
    BY <1>27 DEF GuestRemove, KeyOf, TypeOK, InputBytesOrSwept,
          PutBeforeRecord, OutputHasBytes, FilesExist
  <2>3. EntryHasRow' /\ FilesExist' /\ RowHasInput' /\ UnsettledIsInFlight' /\
       StepFitsType' /\ HolderHasWritten' /\ OutputIsOwn' /\ QueueAndRowAgree'
    BY <1>27 DEF GuestRemove, KeyOf, EntryHasRow, FilesExist, RowHasInput,
          UnsettledIsInFlight, StepFitsType, HolderHasWritten, RowIsDone,
          Holds, OutputIsOwn, QueueAndRowAgree, FailureShows
  <2> QED
    BY <2>1, <2>2, <2>3
<1>28. ASSUME NEW s \in Sweeps, GuestHardDelete(s)
      PROVE  IInv'
  <2>1. HolderHasWritten'
    <3>1. ASSUME NEW j \in Jobs, RowExists(j)'
          PROVE  RowExists(j) /\ (RowIsDone(j) => RowIsDone(j)')
      <4> HIDE DEF RowExists, Files
      <4> QED
        BY <1>28, <3>1, DoneSurvivesSweep
    <3> QED
      BY <1>28, <3>1 DEF TypeOK, GuestHardDelete, HolderHasWritten, Holds
  <2>2. QueueAndRowAgree'
    <3>1. ASSUME NEW j \in Jobs, RowExists(j)'
          PROVE  RowExists(j) /\ (RowIsDone(j) => RowIsDone(j)')
      <4> HIDE DEF RowExists, Files
      <4> QED
        BY <1>28, <3>1, DoneSurvivesSweep
    <3> QED
      BY <1>28, <3>1 DEF TypeOK, GuestHardDelete, QueueAndRowAgree, FailureShows
  <2>3. RowHasInput'
    \* the cascade takes the jobs of the file
    BY <1>28 DEF GuestHardDelete, TypeOK, RowHasInput, FilesExist
  <2>4. EntryHasRow' /\ FilesExist' /\ UnsettledIsInFlight' /\
       InFlightInputKept' /\ OutputHasBytes' /\ OutputIsOwn'
    BY <1>28 DEF GuestHardDelete, TypeOK, EntryHasRow, FilesExist,
          UnsettledIsInFlight, InFlightInputKept, RowHasInput,
          InputBytesOrSwept, KeyOf, OutputHasBytes, PutBeforeRecord,
          OutputIsOwn
  <2>5. InputBytesOrSwept' /\ PutBeforeRecord' /\ StepFitsType'
    BY <1>28 DEF GuestHardDelete, InputBytesOrSwept, PutBeforeRecord,
          StepFitsType
  <2> QED
    BY <2>1, <2>2, <2>3, <2>4, <2>5
<1>29. CASE UNCHANGED vars
  BY <1>29 DEF vars, EntryHasRow, FilesExist, RowHasInput,
        UnsettledIsInFlight, InputBytesOrSwept, PutBeforeRecord, StepFitsType,
        HolderHasWritten, RowIsDone, Holds, InFlightInputKept, KeyOf,
        OutputHasBytes, OutputIsOwn, QueueAndRowAgree, FailureShows
<1> QED
  BY <1>1, <1>2, <1>3, <1>4, <1>5, <1>6, <1>7, <1>8, <1>9, <1>10,
     <1>11, <1>12, <1>13, <1>14, <1>15, <1>16, <1>17, <1>18, <1>19, <1>20,
     <1>21, <1>22, <1>23, <1>24, <1>25, <1>26, <1>27, <1>28, <1>29
     DEF Next, Api, RunStepOk, RunFails, Deliver, Land, Drop, GuestSweep

-----------------------------------------------------------------------------
(***************************************************************************)
(* The theorems.                                                           *)
(***************************************************************************)
\* The inductive invariant holds in every reachable state.
THEOREM Invariance == Spec => []IInv
<1>1. Init => IInv
  BY PipelineAssumption DEF Init, IInv, TypeOK, FileStatus, JobStatus, BullState,
        RunStep, Files, RowExists, KeyOf, EntryHasRow, FilesExist, RowHasInput,
        UnsettledIsInFlight, InputBytesOrSwept, PutBeforeRecord, StepFitsType,
        HolderHasWritten, InFlightInputKept, OutputHasBytes, OutputIsOwn,
        QueueAndRowAgree
<1>2. IInv /\ [Next]_vars => IInv'
  BY TypeStep, InvStep
<1> QED
  BY <1>1, <1>2, PTL DEF Spec

\* The state always has its shape.
THEOREM TypeCorrect == Spec => []TypeOK
<1>1. IInv => TypeOK
  BY DEF IInv
<1> QED
  BY <1>1, Invariance, PTL

\* The guest sweep keeps the input of every job that never left pending/active and
\* was created before a sweep run had its file in hand, for any number of jobs on
\* one file, overlapping sweep runs and crashes.
THEOREM InFlightInputIsSafe == Spec => []InFlightInputKept
<1>1. IInv => InFlightInputKept
  BY DEF IInv
<1> QED
  BY <1>1, Invariance, PTL

\* However attempts overlap, fail and repeat, an output row has bytes until a sweep
\* removes them.
THEOREM OutputRowsHaveBytes == Spec => []OutputHasBytes
<1>1. IInv => OutputHasBytes
  BY DEF IInv
<1> QED
  BY <1>1, Invariance, PTL

\* A job refers to no row but an existing one of its own.
THEOREM OutputsBelongToTheirJob == Spec => []OutputIsOwn
<1>1. IInv => OutputIsOwn
  BY DEF IInv
<1> QED
  BY <1>1, Invariance, PTL

\* A job that the queue completed or failed for good has a row that says so, however
\* attempts, the 'failed' handler, cancellations, sweeps and crashes interleave.
THEOREM QueueAndRowsAgree == Spec => []QueueAndRowAgree
<1>1. IInv => QueueAndRowAgree
  BY DEF IInv
<1> QED
  BY <1>1, Invariance, PTL
=============================================================================
