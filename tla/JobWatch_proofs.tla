--------------------------- MODULE JobWatch_proofs ---------------------------
(***************************************************************************)
(* Proofs about JobWatch, for any pages, files, jobs and sockets: types,   *)
(* that a page has no socket but that of the job it follows, that an end   *)
(* it shows was committed before, and that its card is never blank.        *)
(***************************************************************************)
EXTENDS JobWatch, TLAPS, SequenceTheorems

\* o is the result of an attempt that completed j, in the rows given.
ResultOf(o, j, rows) == \E n \in rows[j].outs : o = ResultId(rows[j], j, n)

\* What an event says was committed, in the rows given.
Sound(m, rows) ==
  /\ m.type = "completed" => ResultOf(m.out, m.job, rows)
  /\ m.type = "failed"    => rows[m.job].broke

\* No event under way says more than the rows.
EventsAreSound ==
  /\ \A i \in 1..Len(bus) : Sound(bus[i], job)
  /\ \A k \in Sockets : \A i \in 1..Len(sock[k].down) : Sound(sock[k].down[i], job)

\* Attempts are counted when they begin, and each fails once; a job has its input
\* before it completes.
Counted(x) ==
  /\ x.pc \in {"none", "asked"} => x.tries = 0 /\ x.outs = {}
  /\ x.pc # "none" => x.file \in Files
  /\ x.pc = "queued" => x.tries < MaxAttempts
  /\ x.pc \in {"working", "stored"} => x.tell < x.tries
  /\ x.pc = "stored" => x.tries \in x.outs
  /\ x.tell <= x.tries

AttemptsAdd == \A j \in Jobs : Counted(job[j])

\* A page's live socket is that of the last run of its effect.
OwnSockets ==
  \A p \in Pages, k \in Sockets :
    sock[k].page = p /\ sock[k].end \in {"connecting", "open"} =>
      /\ hook[p].sk = k
      /\ sock[k].job = hook[p].deps[1]
      /\ hook[p].deps[3] \notin Terminal

\* A socket that exists was opened for a job.
Placed(x) == x = NoSocket \/ (x.end # "none" /\ x.job \in Jobs)

SocketsPlaced == \A k \in Sockets : Placed(sock[k])

IInv ==
  TypeOK /\ AttemptsAdd /\ EventsAreSound /\ EndIsCommitted /\ OwnSockets /\ SocketsPlaced

-----------------------------------------------------------------------------
(***************************************************************************)
(* The worker's steps.                                                     *)
(***************************************************************************)
\* Nothing that was committed to x is taken back in y, and its type and input are kept.
Keeps(x, y) ==
  /\ x.outs \subseteq y.outs
  /\ x.broke => y.broke
  /\ x.outs # {} => y.makes = x.makes /\ y.file = x.file

\* What a step of the worker or of POST /jobs does to the jobs: they keep their
\* types and counts, and nothing committed is taken back.
JobsMove ==
  /\ job' \in [Jobs -> Job]
  /\ AttemptsAdd'
  /\ \A j \in Jobs : Keeps(job[j], job'[j])

LEMMA OneJobMoves ==
  ASSUME IInv, NEW j \in Jobs, NEW n \in Job, Counted(n), job' = [job EXCEPT ![j] = n],
         Keeps(job[j], n)
  PROVE  JobsMove
<1>1. job \in [Jobs -> Job] /\ job' \in [Jobs -> Job] BY DEF IInv, TypeOK
<1>2. ASSUME NEW i \in Jobs PROVE job'[i] = IF i = j THEN n ELSE job[i] BY <1>1
<1>3. AttemptsAdd' BY <1>2 DEF IInv, AttemptsAdd, Counted
<1>4. ASSUME NEW i \in Jobs PROVE Keeps(job[i], job'[i])
  <2>1. Keeps(job[i], job[i]) BY DEF Keeps
  <2> QED BY <1>2, <2>1
<1> QED BY <1>1, <1>3, <1>4 DEF JobsMove

LEMMA JobSteps ==
  ASSUME IInv, NEW j \in Jobs,
         \/ WorkerStep(j) \/ Create(j) \/ Failed(j) \/ TellNothing(j) \/ Redeliver(j)
         \/ \E p \in Pages : Submit(p, j) \/ NotStarted(p, j)
  PROVE  JobsMove
<1>0. MaxAttempts \in Nat \ {0} /\ Reports \in Nat \ {0} /\ job[j] \in Job /\ Counted(job[j])
  BY WatchAssumption DEF IInv, TypeOK, AttemptsAdd
<1>1. CASE Activate(j)
  <2> DEFINE n == [job[j] EXCEPT !.pc = "working", !.tries = @ + 1, !.said = 0]
  <2>1. job' = [job EXCEPT ![j] = n] BY <1>1 DEF Activate
  <2> DEFINE v == job[j].tries + 1
  <2>0. v \in 0..MaxAttempts BY <1>1, <1>0 DEF Activate, Job, Counted
  <2>2. n \in Job
    <3> HIDE DEF v
    <3>1. 0 \in 0..Reports BY <1>0
    <3>2. [job[j] EXCEPT !.pc = "working", !.tries = v, !.said = 0] \in Job
      BY <1>0, <2>0, <3>1 DEF Job
    <3> QED BY <3>2 DEF v
  <2>3. Counted(n) /\ Keeps(job[j], n)
    BY <1>1, <1>0, <2>2 DEF Activate, Job, Counted, Keeps
  <2> QED BY <2>1, <2>2, <2>3, OneJobMoves
<1>2. CASE Finish(j)
  <2> DEFINE n == [job[j] EXCEPT !.pc = "stored", !.outs = @ \cup {job[j].tries}]
  <2>1. job' = [job EXCEPT ![j] = n] BY <1>2 DEF Finish
  <2> DEFINE v == job[j].outs \cup {job[j].tries}
  <2>0. v \in SUBSET (1..MaxAttempts) BY <1>2, <1>0 DEF Finish, Job, Counted
  <2>2. n \in Job
    <3> HIDE DEF v
    <3>1. [job[j] EXCEPT !.pc = "stored", !.outs = v] \in Job BY <1>0, <2>0 DEF Job
    <3> QED BY <3>1 DEF v
  <2>3. Counted(n) /\ Keeps(job[j], n)
    BY <1>2, <1>0, <2>2 DEF Finish, Job, Counted, Keeps
  <2> QED BY <2>1, <2>2, <2>3, OneJobMoves
<1>3. CASE Announce(j)
  <2> DEFINE n == [job[j] EXCEPT !.pc = "done"]
  <2>1. job' = [job EXCEPT ![j] = n] BY <1>3 DEF Announce
  <2>2. n \in Job BY <1>3, <1>0 DEF Announce, Job, Counted
  <2>3. Counted(n) /\ Keeps(job[j], n)
    BY <1>3, <1>0, <2>2 DEF Announce, Job, Counted, Keeps
  <2> QED BY <2>1, <2>2, <2>3, OneJobMoves
<1>4. CASE TellFailure(j)
  <2> DEFINE n == [job[j] EXCEPT !.tell = @ - 1, !.broke = TRUE]
  <2>1. job' = [job EXCEPT ![j] = n] BY <1>4 DEF TellFailure
  <2> DEFINE v == job[j].tell - 1
  <2>0. v \in 0..MaxAttempts BY <1>4, <1>0 DEF TellFailure, Job, Counted
  <2>2. n \in Job
    <3> HIDE DEF v
    <3>1. [job[j] EXCEPT !.tell = v, !.broke = TRUE] \in Job BY <1>0, <2>0 DEF Job
    <3> QED BY <3>1 DEF v
  <2>3. Counted(n) /\ Keeps(job[j], n)
    BY <1>4, <1>0, <2>2 DEF TellFailure, Job, Counted, Keeps
  <2> QED BY <2>1, <2>2, <2>3, OneJobMoves
<1>5. CASE Create(j)
  <2> DEFINE n == [job[j] EXCEPT !.pc = "queued"]
  <2>1. job' = [job EXCEPT ![j] = n] BY <1>5 DEF Create
  <2>2. n \in Job BY <1>5, <1>0 DEF Create, Job, Counted
  <2>3. Counted(n) /\ Keeps(job[j], n)
    BY <1>5, <1>0, <2>2 DEF Create, Job, Counted, Keeps
  <2> QED BY <2>1, <2>2, <2>3, OneJobMoves
<1>6. CASE Failed(j)
  <2> DEFINE n == [job[j] EXCEPT !.pc = IF job[j].tries < MaxAttempts THEN "queued" ELSE "dead",
                                 !.tell = @ + 1]
  <2>1. job' = [job EXCEPT ![j] = n] BY <1>6 DEF Failed
  <2> DEFINE v == job[j].tell + 1
            c == IF job[j].tries < MaxAttempts THEN "queued" ELSE "dead"
  <2>0. v \in 0..MaxAttempts /\ c \in {"queued", "dead"}
    BY <1>6, <1>0 DEF Failed, Job, Counted
  <2>2. n \in Job
    <3> HIDE DEF v, c
    <3>1. [job[j] EXCEPT !.pc = c, !.tell = v] \in Job BY <1>0, <2>0 DEF Job
    <3> QED BY <3>1 DEF v, c
  <2>3. Counted(n) /\ Keeps(job[j], n)
    BY <1>6, <1>0, <2>2 DEF Failed, Job, Counted, Keeps
  <2> QED BY <2>1, <2>2, <2>3, OneJobMoves
<1>7. CASE TellNothing(j)
  <2> DEFINE n == [job[j] EXCEPT !.tell = @ - 1]
  <2>1. job' = [job EXCEPT ![j] = n] BY <1>7 DEF TellNothing
  <2> DEFINE v == job[j].tell - 1
  <2>0. v \in 0..MaxAttempts BY <1>7, <1>0 DEF TellNothing, Job, Counted
  <2>2. n \in Job
    <3> HIDE DEF v
    <3>1. [job[j] EXCEPT !.tell = v] \in Job BY <1>0, <2>0 DEF Job
    <3> QED BY <3>1 DEF v
  <2>3. Counted(n) /\ Keeps(job[j], n)
    BY <1>7, <1>0, <2>2 DEF TellNothing, Job, Counted, Keeps
  <2> QED BY <2>1, <2>2, <2>3, OneJobMoves
<1>8. CASE Redeliver(j)
  <2> DEFINE n == [job[j] EXCEPT !.pc = "queued"]
  <2>1. job' = [job EXCEPT ![j] = n] BY <1>8 DEF Redeliver
  <2>2. n \in Job BY <1>8, <1>0 DEF Redeliver, Job, Counted
  <2>3. Counted(n) /\ Keeps(job[j], n)
    BY <1>8, <1>0, <2>2 DEF Redeliver, Job, Counted, Keeps
  <2> QED BY <2>1, <2>2, <2>3, OneJobMoves
<1>9. ASSUME NEW p \in Pages, Submit(p, j) PROVE JobsMove
  <2>0. PICK makes \in BOOLEAN :
          job' = [job EXCEPT ![j].pc = "asked", ![j].makes = makes, ![j].file = flow[p].up]
    BY <1>9 DEF Submit
  <2> DEFINE n == [job[j] EXCEPT !.pc = "asked", !.makes = makes, !.file = flow[p].up]
  <2>1. job' = [job EXCEPT ![j] = n] /\ job[j].pc = "none" BY <1>9, <2>0 DEF Submit
  <2>2. flow[p].up \in Files BY <1>9 DEF IInv, TypeOK, Flow, Submit
  <2>3. n \in Job BY <1>0, <2>2 DEF Job
  <2>4. Counted(n) /\ Keeps(job[j], n)
    BY <1>0, <2>1, <2>2, <2>3 DEF Job, Counted, Keeps
  <2> QED BY <2>1, <2>3, <2>4, OneJobMoves
<1>10. ASSUME NEW p \in Pages, NotStarted(p, j) PROVE JobsMove
  <2> DEFINE n == [job[j] EXCEPT !.pc = "none"]
  <2>1. CASE job[j].pc = "asked"
    <3>1. job' = [job EXCEPT ![j] = n] BY <1>10, <2>1 DEF NotStarted
    <3>2. n \in Job BY <1>0 DEF Job
    <3>3. Counted(n) /\ Keeps(job[j], n)
      BY <1>0, <2>1, <3>2 DEF Job, Counted, Keeps
    <3> QED BY <3>1, <3>2, <3>3, OneJobMoves
  <2>2. CASE job[j].pc # "asked"
    BY <1>10, <2>2 DEF NotStarted, IInv, TypeOK, AttemptsAdd, JobsMove, Counted, Keeps
  <2> QED BY <2>1, <2>2
<1>11. CASE Progress(j)
  <2> DEFINE n == [job[j] EXCEPT !.said = @ + 1]
  <2>1. job' = [job EXCEPT ![j] = n] BY <1>11 DEF Progress
  <2> DEFINE v == job[j].said + 1
  <2>0. v \in 0..Reports BY <1>11, <1>0 DEF Progress, Job
  <2>2. n \in Job
    <3> HIDE DEF v
    <3>1. [job[j] EXCEPT !.said = v] \in Job BY <1>0, <2>0 DEF Job
    <3> QED BY <3>1 DEF v
  <2>3. Counted(n) /\ Keeps(job[j], n)
    BY <1>11, <1>0, <2>2 DEF Progress, Job, Counted, Keeps
  <2> QED BY <2>1, <2>2, <2>3, OneJobMoves
<1> QED
  BY <1>1, <1>2, <1>3, <1>4, <1>5, <1>6, <1>7, <1>8, <1>9, <1>10, <1>11 DEF WorkerStep

\* What was true of the committed rows stays so.
LEMMA ResultStays ==
  ASSUME JobsMove, NEW j \in Jobs, NEW o, ResultOf(o, j, job)
  PROVE  ResultOf(o, j, job')
<1>1. PICK n \in job[j].outs : o = ResultId(job[j], j, n) BY DEF ResultOf
<1>2. n \in job'[j].outs /\ job'[j].makes = job[j].makes /\ job'[j].file = job[j].file
  BY <1>1 DEF JobsMove, Keeps
<1>3. o = ResultId(job'[j], j, n) BY <1>1, <1>2 DEF ResultId
<1> QED BY <1>2, <1>3 DEF ResultOf

LEMMA CommittedIs == \A o : Committed(o) <=> \E j \in Jobs : ResultOf(o, j, job)
BY DEF Committed, ResultOf

\* The result of a job is the id of a file.
LEMMA ResultIsFile ==
  ASSUME TypeOK, AttemptsAdd, NEW j \in Jobs, NEW o, ResultOf(o, j, job)
  PROVE  o \in FileId
<1>1. PICK n \in job[j].outs : o = ResultId(job[j], j, n) BY DEF ResultOf
<1>2. job[j] \in Job /\ Counted(job[j]) BY DEF TypeOK, AttemptsAdd
<1>3. n \in 1..MaxAttempts BY <1>1, <1>2 DEF Job
<1>4. job[j].file \in Files BY <1>1, <1>2 DEF Counted, Job
<1>5. [job |-> j, attempt |-> n] \in Output BY <1>3 DEF Output
<1> QED BY <1>1, <1>4, <1>5 DEF ResultId, FileId

LEMMA SoundStays ==
  ASSUME IInv, JobsMove, NEW m \in Event, Sound(m, job)
  PROVE  Sound(m, job')
<1>1. m.job \in Jobs BY DEF Event
<1>2. m.type = "completed" => ResultOf(m.out, m.job, job') BY <1>1, ResultStays DEF Sound
<1>3. m.type = "failed" => job'[m.job].broke BY <1>1 DEF Sound, JobsMove, Keeps
<1> QED BY <1>2, <1>3 DEF Sound

LEMMA CommittedStays ==
  ASSUME IInv, JobsMove, UNCHANGED hook
  PROVE  EndIsCommitted'
<1>1. ASSUME NEW p \in Pages, hook[p].out # None
      PROVE  \E j \in Jobs : ResultOf(hook[p].out, j, job')
  <2>1. PICK j \in Jobs : ResultOf(hook[p].out, j, job)
    BY <1>1, CommittedIs DEF IInv, EndIsCommitted
  <2> QED BY <2>1, ResultStays
<1>2. \A p \in Pages : hook[p].error \in Jobs => job'[hook[p].error].broke
  BY DEF IInv, EndIsCommitted, JobsMove, Keeps
<1> QED BY <1>1, <1>2 DEF EndIsCommitted, Committed, ResultOf

\* The ends that are shown are as they were, and so are the jobs.
LEMMA EndsKept ==
  ASSUME IInv, job' = job,
         \A p \in Pages : hook'[p].out = hook[p].out /\ hook'[p].error = hook[p].error
  PROVE  EndIsCommitted'
BY DEF IInv, EndIsCommitted, Committed

\* The elements of sequences.
LEMMA AppendElements ==
  ASSUME NEW S, NEW s \in Seq(S), NEW x \in S
  PROVE  /\ Append(s, x) \in Seq(S)
         /\ \A i \in 1..Len(Append(s, x)) :
              Append(s, x)[i] = x \/ \E n \in 1..Len(s) : Append(s, x)[i] = s[n]
OBVIOUS

LEMMA TailElements ==
  ASSUME NEW S, NEW s \in Seq(S), s # <<>>
  PROVE  /\ Tail(s) \in Seq(S)
         /\ Head(s) \in S /\ 1 \in 1..Len(s) /\ Head(s) = s[1]
         /\ \A i \in 1..Len(Tail(s)) : i + 1 \in 1..Len(s) /\ Tail(s)[i] = s[i + 1]
OBVIOUS

LEMMA Elements ==
  ASSUME NEW S, NEW s \in Seq(S), NEW i \in 1..Len(s)
  PROVE  s[i] \in S
OBVIOUS

\* The events under way stay sound while the jobs move.
LEMMA EventsStay ==
  ASSUME IInv, JobsMove, UNCHANGED sock,
         \/ bus' = bus
         \/ \E m \in Event : Sound(m, job') /\ bus' = Append(bus, m)
  PROVE  EventsAreSound' /\ bus' \in Seq(Event)
<1>1. bus \in Seq(Event) /\ \A k \in Sockets : sock[k].down \in Seq(Event)
  BY DEF IInv, TypeOK, Socket
<1>2. \A i \in 1..Len(bus) : Sound(bus[i], job')
  BY <1>1, SoundStays, Elements DEF IInv, EventsAreSound
<1>3. \A k \in Sockets : \A i \in 1..Len(sock[k].down) : Sound(sock[k].down[i], job')
  BY <1>1, SoundStays, Elements DEF IInv, EventsAreSound
<1>4. CASE bus' = bus
  BY <1>1, <1>2, <1>3, <1>4 DEF EventsAreSound, Sound
<1>5. ASSUME NEW m \in Event, Sound(m, job'), bus' = Append(bus, m)
      PROVE  EventsAreSound' /\ bus' \in Seq(Event)
  <2>1. bus' \in Seq(Event) BY <1>1, <1>5, AppendElements
  <2>2. ASSUME NEW i \in 1..Len(bus') PROVE Sound(bus'[i], job')
    <3>1. bus'[i] = m \/ \E n \in 1..Len(bus) : bus'[i] = bus[n]
      BY <1>1, <1>5, AppendElements
    <3> QED BY <3>1, <1>2, <1>5 DEF Sound
  <2> QED BY <2>1, <2>2, <1>3 DEF EventsAreSound, Sound
<1> QED BY <1>4, <1>5

\* A step that moves jobs and at most adds a sound event keeps the invariant.
LEMMA JobPart ==
  ASSUME IInv, JobsMove, UNCHANGED <<sock, hook>>,
         flow' \in [Pages -> Flow], upsets' = upsets \/ Upset,
         \/ bus' = bus
         \/ \E m \in Event : Sound(m, job') /\ bus' = Append(bus, m)
  PROVE  IInv'
<1>1. EventsAreSound' /\ bus' \in Seq(Event) BY EventsStay
<1>2. EndIsCommitted' BY CommittedStays
<1>3. upsets' \in 0..MaxUpsets
  BY WatchAssumption DEF IInv, TypeOK, Upset
<1>4. TypeOK' BY <1>1, <1>3 DEF IInv, TypeOK, JobsMove
<1>5. OwnSockets' /\ SocketsPlaced'
  BY DEF IInv, OwnSockets, SocketsPlaced, Placed, NoSocket
<1> QED BY <1>1, <1>2, <1>4, <1>5 DEF IInv, JobsMove

LEMMA WorkerKeeps ==
  ASSUME IInv, NEW j \in Jobs,
         WorkerStep(j) \/ Create(j) \/ Failed(j) \/ TellNothing(j) \/ Redeliver(j)
  PROVE  IInv'
<1>0. JobsMove BY JobSteps
<1>1. job[j] \in Job /\ Counted(job[j]) /\ job' \in [Jobs -> Job] /\ flow \in [Pages -> Flow]
  BY <1>0 DEF IInv, TypeOK, AttemptsAdd, JobsMove
<1>2. CASE Progress(j)
  <2> DEFINE m == [type |-> "progress", job |-> j, out |-> None]
  <2>1. m \in Event /\ Sound(m, job') BY DEF Event, Sound
  <2> QED BY <1>0, <1>1, <1>2, <2>1, JobPart DEF Progress, Publish
<1>3. CASE Announce(j)
  <2> DEFINE o == ResultId(job[j], j, job[j].tries)
             m == [type |-> "completed", job |-> j, out |-> o]
  <2>0. ResultOf(o, j, job) BY <1>1, <1>3 DEF Announce, Counted, ResultOf
  <2>1. m \in Event
    <3>1. o \in FileId BY <2>0, ResultIsFile DEF IInv
    <3> HIDE DEF o
    <3> QED BY <3>1 DEF Event
  <2>2. ResultOf(o, j, job') BY <1>0, <2>0, ResultStays
  <2>3. Sound(m, job') BY <2>2 DEF Sound
  <2> QED BY <1>0, <1>1, <1>3, <2>1, <2>3, JobPart DEF Announce, Publish
<1>4. CASE TellFailure(j)
  <2> DEFINE m == [type |-> "failed", job |-> j, out |-> None]
  <2>1. m \in Event BY DEF Event
  <2>2. job'[j].broke
    BY <1>1, <1>4 DEF TellFailure, Job, IInv, TypeOK
  <2>3. Sound(m, job') BY <2>2 DEF Sound
  <2> QED BY <1>0, <1>1, <1>4, <2>1, <2>3, JobPart DEF TellFailure, Publish
<1>5. CASE Activate(j) \/ Finish(j) \/ Create(j) \/ Failed(j)
  BY <1>0, <1>1, <1>5, JobPart DEF Activate, Finish, Create, Failed
<1>6. CASE TellNothing(j) \/ Redeliver(j)
  BY <1>0, <1>1, <1>6, JobPart DEF TellNothing, Redeliver
<1> QED BY <1>2, <1>3, <1>4, <1>5, <1>6 DEF WorkerStep

-----------------------------------------------------------------------------
(***************************************************************************)
(* Steps of a socket.                                                      *)
(***************************************************************************)
Live(x) == x.end \in {"connecting", "open"}

\* Sockets that may replace those of now: with sound events, and no live one that
\* was not live for the same page and job.
Narrowed(after) ==
  /\ after \in [Sockets -> Socket] /\ \A k \in Sockets : Placed(after[k])
  /\ \A k \in Sockets : \A i \in 1..Len(after[k].down) : Sound(after[k].down[i], job)
  /\ \A k \in Sockets : Live(after[k]) =>
       Live(sock[k]) /\ after[k].page = sock[k].page /\ after[k].job = sock[k].job

LEMMA OneSocketMoves ==
  ASSUME IInv, NEW k \in Sockets, NEW n \in Socket, Placed(n),
         \A i \in 1..Len(n.down) : Sound(n.down[i], job),
         Live(n) => Live(sock[k]) /\ n.page = sock[k].page /\ n.job = sock[k].job
  PROVE  Narrowed([sock EXCEPT ![k] = n])
<1> DEFINE after == [sock EXCEPT ![k] = n]
<1>1. sock \in [Sockets -> Socket] BY DEF IInv, TypeOK
<1>2. after \in [Sockets -> Socket] BY <1>1
<1>3. \A l \in Sockets : after[l] = IF l = k THEN n ELSE sock[l] BY <1>1
<1>4. \A l \in Sockets : \A i \in 1..Len(after[l].down) : Sound(after[l].down[i], job)
  BY <1>3 DEF IInv, EventsAreSound
<1>6. \A l \in Sockets : Placed(after[l]) BY <1>3 DEF IInv, SocketsPlaced
<1> HIDE DEF after
<1>5. Narrowed(after) BY <1>2, <1>3, <1>4, <1>6 DEF Narrowed
<1> QED BY <1>5 DEF after

LEMMA CleanupNarrows ==
  ASSUME IInv, NEW k \in Sockets \cup {None}
  PROVE  /\ Narrowed(Cleanup(k))
         /\ k \in Sockets => ~Live(Cleanup(k)[k])
<1>0. sock \in [Sockets -> Socket] /\ None \notin Sockets
  BY WatchAssumption DEF IInv, TypeOK
<1>1. Narrowed(sock) BY <1>0 DEF Narrowed, IInv, EventsAreSound, SocketsPlaced
<1>2. CASE k = None BY <1>0, <1>1, <1>2 DEF Cleanup
<1>3. CASE k # None /\ sock[k].end = "open"
  <2>0. sock[k] \in Socket BY <1>0, <1>3
  <2> DEFINE u == Append(sock[k].up, "unsubscribe")
             n == [sock[k] EXCEPT !.end = "closed", !.up = u, !.down = <<>>]
  <2>1. u \in Seq({"subscribe", "unsubscribe"}) BY <2>0 DEF Socket
  <2>2. n \in Socket
    <3> HIDE DEF u
    <3>1. <<>> \in Seq(Event) OBVIOUS
    <3> QED BY <2>0, <2>1, <3>1 DEF Socket
  <2>3. n.end = "closed" /\ n.down = <<>> /\ Placed(n)
    BY <1>3, <2>0 DEF Socket, Placed, NoSocket, IInv, SocketsPlaced
  <2>4. Cleanup(k) = [sock EXCEPT ![k] = n] BY <1>0, <1>3 DEF Cleanup
  <2> HIDE DEF n
  <2>5. ~Live(n) /\ \A i \in 1..Len(n.down) : Sound(n.down[i], job) BY <2>3 DEF Live
  <2>6. Narrowed([sock EXCEPT ![k] = n]) BY <1>3, <2>2, <2>3, <2>5, OneSocketMoves
  <2>7. [sock EXCEPT ![k] = n][k] = n BY <1>0, <1>3
  <2> QED BY <2>4, <2>5, <2>6, <2>7
<1>4. CASE k # None /\ sock[k].end = "connecting"
  <2>0. sock[k] \in Socket BY <1>0, <1>4
  <2> DEFINE n == [sock[k] EXCEPT !.end = "aborted"]
  <2>1. n \in Socket /\ n.end = "aborted" /\ n.down = sock[k].down /\ Placed(n)
    BY <1>4, <2>0 DEF Socket, Placed, NoSocket, IInv, SocketsPlaced
  <2>2. Cleanup(k) = [sock EXCEPT ![k] = n] BY <1>0, <1>4 DEF Cleanup
  <2> HIDE DEF n
  <2>3. ~Live(n) /\ \A i \in 1..Len(n.down) : Sound(n.down[i], job)
    BY <1>4, <2>1 DEF Live, IInv, EventsAreSound
  <2>4. Narrowed([sock EXCEPT ![k] = n]) BY <1>4, <2>1, <2>3, OneSocketMoves
  <2>5. [sock EXCEPT ![k] = n][k] = n BY <1>0, <1>4
  <2> QED BY <2>2, <2>3, <2>4, <2>5
<1>5. CASE k # None /\ sock[k].end \notin {"open", "connecting"}
  <2>1. Cleanup(k) = sock BY <1>5 DEF Cleanup
  <2> QED BY <1>1, <1>5, <2>1 DEF Live
<1> QED BY <1>2, <1>3, <1>4, <1>5

LEMMA UnmountedNarrows ==
  ASSUME IInv, NEW p \in Pages, hook[p].sk \in Sockets \cup {None}
  PROVE  /\ Narrowed(Unmounted(p))
         /\ hook[p].sk \in Sockets => ~Live(Unmounted(p)[hook[p].sk])
<1> DEFINE left == Cleanup(hook[p].sk)
           after == Unmounted(p)
<1>1. Narrowed(left) /\ (hook[p].sk \in Sockets => ~Live(left[hook[p].sk]))
  BY CleanupNarrows
<1>2. after = [k \in Sockets |-> IF left[k].end = "aborted" /\ left[k].page = p
                                 THEN [left[k] EXCEPT !.end = "closed"] ELSE left[k]]
  BY DEF Unmounted
<1> HIDE DEF left, after
<1>3. ASSUME NEW k \in Sockets
      PROVE  /\ after[k] \in Socket /\ after[k].down = left[k].down /\ Placed(after[k])
             /\ after[k].page = left[k].page /\ after[k].job = left[k].job
             /\ Live(after[k]) => Live(left[k])
  <2>1. left[k] \in Socket /\ Placed(left[k]) BY <1>1 DEF Narrowed
  <2>2. CASE left[k].end = "aborted" /\ left[k].page = p
    <3>1. after[k] = [left[k] EXCEPT !.end = "closed"] BY <1>2, <2>2
    <3>2. /\ after[k] \in Socket /\ after[k].down = left[k].down /\ after[k].end = "closed"
          /\ after[k].page = left[k].page /\ after[k].job = left[k].job
      BY <2>1, <3>1 DEF Socket
    <3>3. left[k].job \in Jobs BY <2>1, <2>2 DEF Placed, NoSocket
    <3> QED BY <3>2, <3>3 DEF Placed, Live
  <2>3. CASE ~(left[k].end = "aborted" /\ left[k].page = p)
    <3>1. after[k] = left[k] BY <1>2, <2>3
    <3> QED BY <2>1, <3>1
  <2> QED BY <2>2, <2>3
<1>4. after \in [Sockets -> Socket] BY <1>2, <1>3
<1>5. Narrowed(after) BY <1>1, <1>3, <1>4 DEF Narrowed
<1>6. hook[p].sk \in Sockets => ~Live(after[hook[p].sk]) BY <1>1, <1>3
<1> QED BY <1>5, <1>6 DEF after

\* Sockets that are narrowed keep the invariant, whatever a message or an error
\* sets in a page's hook besides its socket and its dependencies.
LEMMA SocketPart ==
  ASSUME IInv, Narrowed(sock'), UNCHANGED <<job, flow>>,
         bus' = bus \/ (bus # <<>> /\ bus' = Tail(bus)),
         upsets' = upsets \/ Upset,
         hook' \in [Pages -> Hook], EndIsCommitted',
         \A p \in Pages : /\ hook'[p].sk = hook[p].sk
                          /\ hook'[p].deps[1] = hook[p].deps[1]
                          /\ hook'[p].deps[3] = hook[p].deps[3]
  PROVE  IInv'
<1>1. bus' \in Seq(Event) /\ \A i \in 1..Len(bus') : Sound(bus'[i], job)
  <2>1. bus \in Seq(Event) /\ \A i \in 1..Len(bus) : Sound(bus[i], job)
    BY DEF IInv, TypeOK, EventsAreSound
  <2>2. CASE bus' = bus BY <2>1, <2>2
  <2>3. CASE bus # <<>> /\ bus' = Tail(bus) BY <2>1, <2>3, TailElements
  <2> QED BY <2>2, <2>3
<1>2. upsets' \in 0..MaxUpsets
  BY WatchAssumption DEF IInv, TypeOK, Upset
<1>3. TypeOK' BY <1>1, <1>2 DEF IInv, TypeOK, Narrowed
<1>4. EventsAreSound' BY <1>1 DEF EventsAreSound, Narrowed, Sound
<1>5. OwnSockets' BY DEF IInv, OwnSockets, Narrowed, Live
<1>6. AttemptsAdd' BY DEF IInv, AttemptsAdd
<1>7. SocketsPlaced' BY DEF Narrowed, SocketsPlaced, Placed, NoSocket
<1> QED BY <1>3, <1>4, <1>5, <1>6, <1>7 DEF IInv

\* A step of one socket that no page notices.
LEMMA QuietSocketStep ==
  ASSUME IInv, NEW k \in Sockets, NEW n \in Socket, sock' = [sock EXCEPT ![k] = n],
         Placed(n), \A i \in 1..Len(n.down) : Sound(n.down[i], job),
         Live(n) => Live(sock[k]) /\ n.page = sock[k].page /\ n.job = sock[k].job,
         UNCHANGED <<job, flow, hook, bus>>, upsets' = upsets \/ Upset
  PROVE  IInv'
<1>1. Narrowed(sock') BY OneSocketMoves
<1>2. hook' \in [Pages -> Hook] /\ EndIsCommitted' BY EndsKept DEF IInv, TypeOK
<1> QED BY <1>1, <1>2, SocketPart

LEMMA SocketStepsKeep ==
  ASSUME IInv, NEW k \in Sockets,
         Accept(k) \/ Refuse(k) \/ Frame(k) \/ Remove(k) \/ Opened(k)
  PROVE  IInv'
<1>0. /\ sock \in [Sockets -> Socket] /\ sock[k] \in Socket /\ Placed(sock[k])
      /\ \A i \in 1..Len(sock[k].down) : Sound(sock[k].down[i], job)
  BY DEF IInv, TypeOK, EventsAreSound, SocketsPlaced
<1>1. CASE Accept(k)
  <2> DEFINE n == [sock[k] EXCEPT !.subs = {}]
  <2>1. n \in Socket /\ n.down = sock[k].down /\ n.end = sock[k].end
        /\ n.page = sock[k].page /\ n.job = sock[k].job BY <1>0 DEF Socket
  <2>2. sock' = [sock EXCEPT ![k] = n] BY <1>1 DEF Accept
  <2>3. Placed(n) BY <1>0, <1>1, <2>1 DEF Accept, Placed, NoSocket
  <2> HIDE DEF n
  <2> QED BY <1>0, <1>1, <2>1, <2>2, <2>3, QuietSocketStep DEF Accept, Live
<1>2. CASE Refuse(k)
  <2> DEFINE n == [sock[k] EXCEPT !.end = "closed"]
  <2>1. n \in Socket /\ n.down = sock[k].down /\ n.end = "closed" /\ n.job = sock[k].job
    BY <1>0 DEF Socket
  <2>2. sock' = [sock EXCEPT ![k] = n] BY <1>2 DEF Refuse
  <2>3. Placed(n) BY <1>0, <1>2, <2>1 DEF Refuse, Placed, NoSocket
  <2> HIDE DEF n
  <2> QED BY <1>0, <1>2, <2>1, <2>2, <2>3, QuietSocketStep DEF Refuse, Live
<1>3. CASE Frame(k)
  <2>0. sock[k].job \in Jobs /\ sock[k].end # "none"
    BY <1>0, <1>3 DEF Frame, Placed, NoSocket
  <2>1. sock[k].subs \in SUBSET Jobs /\ sock[k].up \in Seq({"subscribe", "unsubscribe"})
        /\ sock[k].up # <<>>
    BY <1>0, <1>3 DEF Frame, Socket
  <2> DEFINE s == IF Head(sock[k].up) = "subscribe"
                  THEN sock[k].subs \cup {sock[k].job} ELSE sock[k].subs \ {sock[k].job}
             u == Tail(sock[k].up)
             n == [sock[k] EXCEPT !.subs = s, !.up = u]
  <2>2. s \in SUBSET Jobs BY <2>0, <2>1
  <2>3. u \in Seq({"subscribe", "unsubscribe"}) BY <2>1
  <2>4. sock' = [sock EXCEPT ![k] = n]
    BY <1>0, <1>3 DEF Frame, Unsubscribe, Socket
  <2>5. n \in Socket /\ n.down = sock[k].down /\ n.end = sock[k].end
        /\ n.page = sock[k].page /\ n.job = sock[k].job
    <3> HIDE DEF s, u
    <3> QED BY <1>0, <2>2, <2>3 DEF Socket
  <2> HIDE DEF n
  <2>6. Placed(n) BY <2>0, <2>5 DEF Placed
  <2> QED BY <1>0, <1>3, <2>4, <2>5, <2>6, QuietSocketStep DEF Frame, Live
<1>4. CASE Remove(k)
  <2> DEFINE n == NoSocket
  <2>1. n \in Socket /\ n.down = <<>> /\ n.end = "none" /\ Placed(n)
    BY DEF Socket, NoSocket, Placed
  <2>2. sock' = [sock EXCEPT ![k] = n] BY <1>4 DEF Remove
  <2> HIDE DEF n
  <2>3. ~Live(n) /\ \A i \in 1..Len(n.down) : Sound(n.down[i], job) BY <2>1 DEF Live
  <2>4. UNCHANGED <<job, flow, hook, bus>> /\ upsets' = upsets BY <1>4 DEF Remove
  <2> QED BY <2>1, <2>2, <2>3, <2>4, QuietSocketStep
<1>5. CASE Opened(k)
  <2> DEFINE u == Append(sock[k].up, "subscribe")
             n == [sock[k] EXCEPT !.end = "open", !.up = u]
  <2>1. u \in Seq({"subscribe", "unsubscribe"}) BY <1>0 DEF Socket
  <2>2. n \in Socket /\ n.down = sock[k].down /\ n.end = "open"
        /\ n.page = sock[k].page /\ n.job = sock[k].job
    <3> HIDE DEF u
    <3> QED BY <1>0, <2>1 DEF Socket
  <2>3. sock' = [sock EXCEPT ![k] = n] BY <1>5 DEF Opened
  <2>4. Placed(n) BY <1>0, <1>5, <2>2 DEF Opened, Placed, NoSocket
  <2> HIDE DEF n
  <2> QED BY <1>0, <1>5, <2>2, <2>3, <2>4, QuietSocketStep DEF Opened, Live
<1> QED BY <1>1, <1>2, <1>3, <1>4, <1>5

\* The same event is sent to every open socket that is subscribed to its job.
LEMMA BroadcastKeeps ==
  ASSUME IInv, Broadcast
  PROVE  IInv'
<1>0. sock \in [Sockets -> Socket] /\ bus \in Seq(Event) /\ bus # <<>>
  BY DEF IInv, TypeOK, Broadcast
<1> DEFINE m == Head(bus)
<1>1. m \in Event /\ Sound(m, job) BY <1>0, TailElements DEF IInv, EventsAreSound
<1>2. ASSUME NEW k \in Sockets
      PROVE  /\ sock'[k] \in Socket /\ Placed(sock'[k])
             /\ \A i \in 1..Len(sock'[k].down) : Sound(sock'[k].down[i], job)
             /\ sock'[k].end = sock[k].end /\ sock'[k].page = sock[k].page
             /\ sock'[k].job = sock[k].job
  <2>0. sock[k] \in Socket /\ Placed(sock[k]) /\ sock[k].down \in Seq(Event)
        /\ \A i \in 1..Len(sock[k].down) : Sound(sock[k].down[i], job)
    BY <1>0 DEF IInv, SocketsPlaced, EventsAreSound, Socket
  <2>1. CASE Listens(k, m.job) /\ sock[k].end = "open"
    <3> DEFINE d == Append(sock[k].down, m)
    <3>1. sock'[k] = [sock[k] EXCEPT !.down = d] BY <2>1 DEF Broadcast
    <3>2. d \in Seq(Event) /\ \A i \in 1..Len(d) : Sound(d[i], job)
      BY <1>1, <2>0, AppendElements
    <3> HIDE DEF d
    <3>3. sock'[k] \in Socket /\ sock'[k].down = d /\ sock'[k].end = sock[k].end
          /\ sock'[k].page = sock[k].page /\ sock'[k].job = sock[k].job
      BY <2>0, <3>1, <3>2 DEF Socket
    <3>4. Placed(sock'[k]) BY <2>0, <2>1, <3>3 DEF Placed, NoSocket
    <3> QED BY <3>2, <3>3, <3>4
  <2>2. CASE ~(Listens(k, m.job) /\ sock[k].end = "open")
    <3>1. sock'[k] = sock[k] BY <2>2 DEF Broadcast
    <3> QED BY <2>0, <3>1
  <2> QED BY <2>1, <2>2
<1>3. sock' \in [Sockets -> Socket]
  <2>1. sock' = [k \in Sockets |-> sock'[k]] BY DEF Broadcast
  <2> QED BY <1>2, <2>1
<1>4. Narrowed(sock') BY <1>2, <1>3 DEF Narrowed, Live
<1>5. hook' \in [Pages -> Hook] /\ EndIsCommitted'
  BY EndsKept DEF Broadcast, IInv, TypeOK
<1> QED BY <1>0, <1>4, <1>5, SocketPart DEF Broadcast

LEMMA LossKeeps ==
  ASSUME IInv, LoseEvent
  PROVE  IInv'
<1>1. Narrowed(sock) BY DEF Narrowed, IInv, TypeOK, EventsAreSound, SocketsPlaced
<1>2. hook' \in [Pages -> Hook] /\ EndIsCommitted' /\ sock' = sock
  BY EndsKept DEF LoseEvent, IInv, TypeOK
<1>3. Narrowed(sock') BY <1>1, <1>2
<1> QED BY <1>2, <1>3, SocketPart DEF LoseEvent

LEMMA RenewKeeps ==
  ASSUME IInv, Renew
  PROVE  IInv'
<1>1. Narrowed(sock) BY DEF Narrowed, IInv, TypeOK, EventsAreSound, SocketsPlaced
<1>2. Narrowed(sock') BY <1>1 DEF Renew
<1>3. ASSUME NEW p \in Pages
      PROVE  /\ hook'[p] \in Hook /\ hook'[p].sk = hook[p].sk
             /\ hook'[p].deps[1] = hook[p].deps[1] /\ hook'[p].deps[3] = hook[p].deps[3]
             /\ hook'[p].out = hook[p].out /\ hook'[p].error = hook[p].error
  <2> DEFINE h == hook[p]
             n == [h EXCEPT !.deps[2] = "new"]
  <2>1. h \in Hook /\ hook'[p] = n BY DEF IInv, TypeOK, Renew
  <2> HIDE DEF h
  <2>2. n \in Hook /\ n.sk = h.sk /\ n.out = h.out /\ n.error = h.error
        /\ n.deps[1] = h.deps[1] /\ n.deps[3] = h.deps[3]
    BY <2>1 DEF Hook
  <2> QED BY <2>1, <2>2 DEF h
<1>4. hook' \in [Pages -> Hook] BY <1>3 DEF Renew
<1>5. EndIsCommitted' BY <1>3, EndsKept DEF Renew
<1> QED BY <1>2, <1>3, <1>4, <1>5, SocketPart DEF Renew

-----------------------------------------------------------------------------
(***************************************************************************)
(* Steps of a page.                                                        *)
(***************************************************************************)
\* The hook of a page, after a message or an error.
LEMMA OneHookMoves ==
  ASSUME IInv, NEW p \in Pages, NEW n \in Hook, hook' = [hook EXCEPT ![p] = n],
         n.sk = hook[p].sk, n.deps = hook[p].deps, UNCHANGED job,
         n.out # None => Committed(n.out),
         n.error \in Jobs => job[n.error].broke
  PROVE  /\ hook' \in [Pages -> Hook] /\ EndIsCommitted'
         /\ \A q \in Pages : hook'[q].sk = hook[q].sk /\ hook'[q].deps = hook[q].deps
<1>1. hook \in [Pages -> Hook] BY DEF IInv, TypeOK
<1>2. \A q \in Pages : hook'[q] = IF q = p THEN n ELSE hook[q] BY <1>1
<1>3. EndIsCommitted' BY <1>2 DEF IInv, EndIsCommitted, Committed
<1> QED BY <1>1, <1>2, <1>3

LEMMA ReceiveKeeps ==
  ASSUME IInv, NEW k \in Sockets, Receive(k)
  PROVE  IInv'
<1>0. /\ sock \in [Sockets -> Socket] /\ sock[k] \in Socket /\ Placed(sock[k])
      /\ sock[k].down \in Seq(Event) /\ sock[k].down # <<>> /\ sock[k].end = "open"
      /\ \A i \in 1..Len(sock[k].down) : Sound(sock[k].down[i], job)
  BY DEF IInv, TypeOK, EventsAreSound, SocketsPlaced, Receive, Socket
<1> DEFINE m == Head(sock[k].down)
           d == Tail(sock[k].down)
<1>1. m \in Event /\ Sound(m, job) BY <1>0, TailElements
<1>2. d \in Seq(Event) /\ \A i \in 1..Len(d) : Sound(d[i], job) BY <1>0, TailElements
<1>3. Narrowed(sock')
  <2> DEFINE n == [sock[k] EXCEPT !.down = d]
  <2>1. sock' = [sock EXCEPT ![k] = n] BY DEF Receive
  <2>2. n \in Socket /\ n.down = d /\ n.end = sock[k].end
        /\ n.page = sock[k].page /\ n.job = sock[k].job
    <3> HIDE DEF d
    <3> QED BY <1>0, <1>2 DEF Socket
  <2> HIDE DEF n
  <2>3. Placed(n) BY <1>0, <2>2 DEF Placed, NoSocket
  <2> QED BY <1>0, <1>2, <2>1, <2>2, <2>3, OneSocketMoves DEF Live
<1>4. CASE sock[k].page \in Pages /\ m.job = sock[k].job
  <2> DEFINE h == hook[sock[k].page]
             n == Told(h, m)
  <2>0. h \in Hook /\ (h.out # None => Committed(h.out))
        /\ (h.error \in Jobs => job[h.error].broke)
    BY <1>4 DEF IInv, TypeOK, EndIsCommitted
  <2>1. hook' = [hook EXCEPT ![sock[k].page] = n] BY <1>4 DEF Receive
  <2>2. /\ n \in Hook /\ n.sk = h.sk /\ n.deps = h.deps
        /\ n.out # None => Committed(n.out)
        /\ n.error \in Jobs => job[n.error].broke
    <3> HIDE DEF h, m
    <3>1. CASE m.type = "progress"
      BY WatchAssumption, <2>0, <3>1 DEF Told, Hook, Statuses
    <3>2. CASE m.type = "failed"
      BY <1>1, <2>0, <3>2 DEF Told, Hook, Statuses, Event, Sound
    <3>3. CASE m.type = "completed"
      <4>1. ResultOf(m.out, m.job, job) /\ m.job \in Jobs BY <1>1, <3>3 DEF Event, Sound
      <4>2. m.out \in FileId BY <4>1, ResultIsFile DEF IInv
      <4>3. Committed(m.out) BY <4>1, CommittedIs
      <4>4. n = [h EXCEPT !.status = "completed", !.error = None, !.out = m.out]
        BY <3>3 DEF Told
      <4> HIDE DEF n
      <4> QED BY WatchAssumption, <2>0, <4>2, <4>3, <4>4 DEF Hook, Statuses
    <3> QED BY <1>1, <3>1, <3>2, <3>3 DEF Event
  <2> HIDE DEF n
  <2>3. UNCHANGED <<job, bus, flow, upsets>> BY DEF Receive
  <2>4. /\ hook' \in [Pages -> Hook] /\ EndIsCommitted'
        /\ \A q \in Pages : hook'[q].sk = hook[q].sk /\ hook'[q].deps = hook[q].deps
    BY <1>4, <2>1, <2>2, <2>3, OneHookMoves
  <2> QED BY <1>3, <2>3, <2>4, SocketPart
<1>5. CASE sock[k].page \notin Pages \/ m.job # sock[k].job
  <2>1. UNCHANGED <<job, bus, flow, upsets>> BY DEF Receive
  <2>2. hook' = hook
    <3>1. hook \in [Pages -> Hook] BY DEF IInv, TypeOK
    <3>2. CASE m.job # sock[k].job BY <3>2 DEF Receive
    <3>3. CASE sock[k].page \notin Pages
      <4> DEFINE n == Told(hook[sock[k].page], m)
      <4>1. [hook EXCEPT ![sock[k].page] = n] = hook
        <5> HIDE DEF n
        <5> QED BY <3>1, <3>3
      <4> QED BY <4>1 DEF Receive
    <3> QED BY <1>5, <3>2, <3>3
  <2>3. hook' \in [Pages -> Hook] /\ EndIsCommitted'
    BY <2>1, <2>2, EndsKept DEF IInv, TypeOK
  <2> QED BY <1>3, <2>1, <2>2, <2>3, SocketPart
<1> QED BY <1>4, <1>5

\* A socket's error is set in the hook of its page, if that is there.
LEMMA SocketErrorKeeps ==
  ASSUME IInv, NEW k \in Sockets, Narrowed(sock'), UNCHANGED <<job, bus, flow>>,
         upsets' = upsets \/ Upset,
         hook' = [hook EXCEPT ![sock[k].page].error = "socket"]
  PROVE  IInv'
<1>0. hook \in [Pages -> Hook] BY DEF IInv, TypeOK
<1>1. CASE sock[k].page \in Pages
  <2> DEFINE h == hook[sock[k].page]
             n == [h EXCEPT !.error = "socket"]
  <2>0. h \in Hook /\ (h.out # None => Committed(h.out))
    BY <1>0, <1>1 DEF IInv, EndIsCommitted
  <2>1. n \in Hook /\ n.sk = h.sk /\ n.deps = h.deps /\ n.out = h.out
        /\ n.error = "socket"
    <3> HIDE DEF h
    <3> QED BY <2>0 DEF Hook
  <2>2. hook' = [hook EXCEPT ![sock[k].page] = n] OBVIOUS
  <2> HIDE DEF n
  <2>3. /\ hook' \in [Pages -> Hook] /\ EndIsCommitted'
        /\ \A q \in Pages : hook'[q].sk = hook[q].sk /\ hook'[q].deps = hook[q].deps
    <3>1. (n.out # None => Committed(n.out)) /\ n.error \notin Jobs
      BY WatchAssumption, <2>0, <2>1
    <3>2. UNCHANGED job OBVIOUS
    <3> QED BY <1>1, <2>1, <2>2, <3>1, <3>2, OneHookMoves
  <2> QED BY <2>3, SocketPart
<1>2. CASE sock[k].page \notin Pages
  <2>1. hook' = hook BY <1>0, <1>2
  <2>2. hook' \in [Pages -> Hook] /\ EndIsCommitted'
    BY <1>0, <2>1, EndsKept
  <2> QED BY <2>1, <2>2, SocketPart
<1> QED BY <1>1, <1>2

LEMMA LoseKeeps ==
  ASSUME IInv, NEW k \in Sockets, Lose(k)
  PROVE  IInv'
<1>0. sock \in [Sockets -> Socket] /\ sock[k] \in Socket /\ Placed(sock[k])
  BY DEF IInv, TypeOK, SocketsPlaced
<1>1. Narrowed(sock')
  <2> DEFINE n == [sock[k] EXCEPT !.end = "closed", !.up = <<>>, !.down = <<>>]
  <2>1. sock' = [sock EXCEPT ![k] = n] BY DEF Lose
  <2>2. <<>> \in Seq(Event) /\ <<>> \in Seq({"subscribe", "unsubscribe"}) OBVIOUS
  <2>3. n \in Socket /\ n.down = <<>> /\ n.end = "closed" /\ n.job = sock[k].job
    BY <1>0, <2>2 DEF Socket
  <2> HIDE DEF n
  <2>4. Placed(n) BY <1>0, <2>3 DEF Lose, Placed, NoSocket
  <2>5. ~Live(n) /\ \A i \in 1..Len(n.down) : Sound(n.down[i], job) BY <2>3 DEF Live
  <2> QED BY <2>1, <2>3, <2>4, <2>5, OneSocketMoves
<1>2. UNCHANGED <<job, bus, flow>> /\ Upset BY DEF Lose
<1>3. CASE hook' = hook
  <2>1. hook' \in [Pages -> Hook] /\ EndIsCommitted'
    BY <1>2, <1>3, EndsKept DEF IInv, TypeOK
  <2> QED BY <1>1, <1>2, <1>3, <2>1, SocketPart
<1>4. CASE hook' = [hook EXCEPT ![sock[k].page].error = "socket"]
  BY <1>1, <1>2, <1>4, SocketErrorKeeps
<1> QED BY <1>3, <1>4 DEF Lose

LEMMA ErroredKeeps ==
  ASSUME IInv, NEW k \in Sockets, Errored(k)
  PROVE  IInv'
<1>0. /\ sock \in [Sockets -> Socket] /\ sock[k] \in Socket /\ Placed(sock[k])
      /\ \A i \in 1..Len(sock[k].down) : Sound(sock[k].down[i], job)
  BY DEF IInv, TypeOK, SocketsPlaced, EventsAreSound
<1> DEFINE n == [sock[k] EXCEPT !.end = "closed"]
<1>1. n \in Socket /\ n.down = sock[k].down /\ n.end = "closed" /\ n.job = sock[k].job
  BY <1>0 DEF Socket
<1>2. sock' = [sock EXCEPT ![k] = n] BY DEF Errored
<1>3. Placed(n) BY <1>0, <1>1 DEF Errored, Placed, NoSocket
<1> HIDE DEF n
<1>4. Narrowed(sock') BY <1>0, <1>1, <1>2, <1>3, OneSocketMoves DEF Live
<1> QED BY <1>4, SocketErrorKeeps DEF Errored

\* The effect of one page is run: the others keep their sockets.
LEMMA EffectKeeps ==
  ASSUME IInv, NEW p \in Pages, NEW arg \in Jobs \cup {None}, Effect(p, arg),
         flow' \in [Pages -> Flow], UNCHANGED <<job, bus, upsets>>
  PROVE  IInv'
<1> DEFINE h == hook[p]
           d == <<arg, "same", h.status>>
           left == Cleanup(h.sk)
<1>0. /\ hook \in [Pages -> Hook] /\ h \in Hook /\ sock \in [Sockets -> Socket]
      /\ upsets \in 0..MaxUpsets
      /\ None \notin Sockets \cup Pages \cup Jobs
  BY WatchAssumption DEF IInv, TypeOK
<1>1. d \in (Jobs \cup {None}) \X {"same", "new"} \X Statuses
  BY WatchAssumption, <1>0 DEF Hook
<1>2. Narrowed(left) /\ (h.sk \in Sockets => ~Live(left[h.sk])) /\ h.sk \in Sockets \cup {None}
  BY <1>0, CleanupNarrows DEF Hook
<1>3. Narrowed(sock) BY <1>0 DEF Narrowed, IInv, EventsAreSound, SocketsPlaced
<1>4. CASE d = h.deps /\ UNCHANGED <<hook, sock>>
  <2>1. bus \in Seq(Event) /\ job \in [Jobs -> Job] BY DEF IInv, TypeOK
  <2>2. TypeOK' BY <1>0, <1>4, <2>1 DEF TypeOK
  <2>3. EventsAreSound' BY <1>4 DEF IInv, EventsAreSound, Sound
  <2>4. AttemptsAdd' /\ EndIsCommitted' /\ OwnSockets' /\ SocketsPlaced'
    BY <1>4, EndsKept DEF IInv, AttemptsAdd, OwnSockets, SocketsPlaced, Placed, NoSocket
  <2> QED BY <2>2, <2>3, <2>4 DEF IInv
<1>5. ASSUME NEW s \in Sockets \cup {None}, hook' = [hook EXCEPT ![p].deps = d, ![p].sk = s],
             Narrowed(left),
             \/ s = None /\ sock' = left
             \/ /\ s \in Sockets /\ sock' = [left EXCEPT ![s] = Connecting(p, arg)]
                /\ arg \in Jobs /\ h.status \notin Terminal
      PROVE  IInv'
  <2> DEFINE n == [h EXCEPT !.deps = d, !.sk = s]
  <2>1. hook' = [hook EXCEPT ![p] = n] BY <1>0, <1>5
  <2>2. n \in Hook /\ n.sk = s /\ n.deps = d /\ n.out = h.out /\ n.error = h.error
    <3> HIDE DEF h, d
    <3> QED BY <1>0, <1>1, <1>5 DEF Hook
  <2> HIDE DEF n
  <2>3. \A q \in Pages : hook'[q] = IF q = p THEN n ELSE hook[q] BY <1>0, <2>1
  <2>4. hook' \in [Pages -> Hook] BY <1>0, <2>1, <2>2
  <2>5. EndIsCommitted' BY <2>2, <2>3, EndsKept
  <2> DEFINE c == Connecting(p, arg)
  <2> HIDE DEF c
  <2>6. s \in Sockets => /\ c \in Socket /\ c.end = "connecting" /\ c.page = p
                         /\ c.job = arg /\ c.down = <<>> /\ Placed(c)
    <3> SUFFICES ASSUME s \in Sockets
                 PROVE  /\ c \in Socket /\ c.end = "connecting" /\ c.page = p
                        /\ c.job = arg /\ c.down = <<>> /\ Placed(c)
      OBVIOUS
    <3>1. arg \in Jobs BY <1>0, <1>5
    <3>2. <<>> \in Seq(Event) /\ <<>> \in Seq({"subscribe", "unsubscribe"}) OBVIOUS
    <3>3. NoSocket \in Socket /\ NoSocket.down = <<>> BY <3>2 DEF NoSocket, Socket
    <3>4. /\ c \in Socket /\ c.end = "connecting" /\ c.page = p /\ c.job = arg
          /\ c.down = NoSocket.down
      BY <3>1, <3>3 DEF c, Connecting, Socket
    <3> QED BY <3>1, <3>3, <3>4 DEF Placed
  <2>7. \A k \in Sockets : sock'[k] = IF k = s THEN c ELSE left[k]
    BY <1>0, <1>5 DEF Narrowed, c
  <2>8. sock' \in [Sockets -> Socket]
    BY <1>0, <1>5, <2>6 DEF Narrowed, c
  <2>9. /\ \A k \in Sockets : Placed(sock'[k])
        /\ \A k \in Sockets : \A i \in 1..Len(sock'[k].down) : Sound(sock'[k].down[i], job)
    BY <1>2, <2>6, <2>7 DEF Narrowed
  <2>10. OwnSockets'
    <3> SUFFICES ASSUME NEW q \in Pages, NEW k \in Sockets, sock'[k].page = q, Live(sock'[k])
                 PROVE  /\ hook'[q].sk = k
                        /\ sock'[k].job = hook'[q].deps[1]
                        /\ hook'[q].deps[3] \notin Terminal
      BY DEF OwnSockets, Live
    <3>1. CASE k = s
      <4>1. q = p /\ hook'[q] = n /\ sock'[k].job = arg BY <2>3, <2>6, <2>7, <3>1
      <4>2. h.status \notin Terminal BY <1>0, <1>5, <3>1
      <4> QED BY <2>2, <3>1, <4>1, <4>2
    <3>2. CASE k # s
      <4>1. Live(sock[k]) /\ sock[k].page = q /\ sock'[k].job = sock[k].job /\ Live(left[k])
        BY <1>2, <2>7, <3>2 DEF Narrowed
      <4>2. /\ hook[q].sk = k /\ sock[k].job = hook[q].deps[1]
            /\ hook[q].deps[3] \notin Terminal
        BY <4>1 DEF IInv, OwnSockets, Live
      <4>3. q # p BY <1>2, <4>1, <4>2
      <4> QED BY <2>3, <4>1, <4>2, <4>3
    <3> QED BY <3>1, <3>2
  <2>11. bus \in Seq(Event) /\ job \in [Jobs -> Job] BY DEF IInv, TypeOK
  <2>12. TypeOK' BY <1>0, <2>4, <2>8, <2>11 DEF TypeOK
  <2>13. EventsAreSound' BY <2>9 DEF IInv, EventsAreSound, Sound
  <2>14. AttemptsAdd' /\ SocketsPlaced'
    BY <2>9 DEF IInv, AttemptsAdd, SocketsPlaced, Placed, NoSocket
  <2> QED BY <2>5, <2>10, <2>12, <2>13, <2>14 DEF IInv
<1>6. CASE /\ hook' = [hook EXCEPT ![p].deps = d, ![p].sk = None] /\ sock' = left
  BY <1>2, <1>5, <1>6
<1>7. CASE \E k \in Sockets : /\ hook' = [hook EXCEPT ![p].deps = d, ![p].sk = k]
                              /\ sock' = [left EXCEPT ![k] = Connecting(p, arg)]
                              /\ arg # None /\ h.status \notin Terminal
  BY <1>2, <1>5, <1>7
<1> QED
  <2> HIDE DEF left, d, h
  <2>1. \/ d = h.deps /\ UNCHANGED <<hook, sock>>
        \/ hook' = [hook EXCEPT ![p].deps = d, ![p].sk = None] /\ sock' = left
        \/ /\ arg # None /\ h.status \notin Terminal /\ {k \in Sockets : left[k].end = "none"} # {}
           /\ LET k == CHOOSE k \in {k \in Sockets : left[k].end = "none"} : TRUE
              IN /\ hook' = [hook EXCEPT ![p].deps = d, ![p].sk = k]
                 /\ sock' = [left EXCEPT ![k] = Connecting(p, arg)]
    BY DEF Effect, left, d, h
  <2> DEFINE k == CHOOSE k \in {l \in Sockets : left[l].end = "none"} : TRUE
  <2>2. CASE {l \in Sockets : left[l].end = "none"} # {}
    <3>1. k \in Sockets BY <2>2
    <3> HIDE DEF k
    <3> QED BY <1>4, <1>6, <1>7, <2>1, <3>1 DEF k
  <2>3. CASE {l \in Sockets : left[l].end = "none"} = {}
    BY <1>4, <1>6, <2>1, <2>3
  <2> QED BY <2>2, <2>3

LEMMA CommitKeeps ==
  ASSUME IInv, NEW p \in Pages, Commit(p)
  PROVE  IInv'
<1>1. flow[p] \in Flow /\ flow \in [Pages -> Flow] BY DEF IInv, TypeOK
<1>2. Followed(flow[p]) \in Jobs \cup {None} BY <1>1 DEF Followed, Flow
<1> QED BY <1>1, <1>2, EffectKeeps DEF Commit

LEMMA SelectKeeps ==
  ASSUME IInv, NEW p \in Pages, NEW f \in Files, Select(p, f)
  PROVE  IInv'
<1>1. flow \in [Pages -> Flow] /\ flow[p] \in Flow BY DEF IInv, TypeOK
<1> DEFINE u == flow[p].uploads \cup {f}
           c == flow[p].clean /\ ~Crossed(flow[p])
           n == [FreshFlow EXCEPT !.file = f, !.uploads = @ \cup flow[p].uploads \cup {f},
                                  !.uploading = f, !.asks = flow[p].asks,
                                  !.asking = flow[p].asking, !.clean = c]
<1>2. FreshFlow \in Flow /\ FreshFlow.uploads = {} BY DEF FreshFlow, Flow
<1>3. u \in SUBSET Files /\ c \in BOOLEAN BY <1>1 DEF Flow
<1>4. flow' = [flow EXCEPT ![p] = n] BY DEF Select
<1>5. n \in Flow
  <2>1. n = [FreshFlow EXCEPT !.file = f, !.uploads = u, !.uploading = f,
                              !.asks = flow[p].asks, !.asking = flow[p].asking, !.clean = c]
    BY <1>2
  <2> HIDE DEF n, u, c
  <2> QED BY <1>1, <1>2, <1>3, <2>1 DEF Flow
<1> HIDE DEF n
<1>6. flow' \in [Pages -> Flow] BY <1>1, <1>4, <1>5
<1>7. Effect(p, None) /\ UNCHANGED <<job, bus, upsets>> BY DEF Select
<1>8. None \in Jobs \cup {None} OBVIOUS
<1> QED BY <1>6, <1>7, <1>8, EffectKeeps

LEMMA ResetKeeps ==
  ASSUME IInv, NEW p \in Pages, Reset(p)
  PROVE  IInv'
<1>1. flow \in [Pages -> Flow] /\ flow[p] \in Flow BY DEF IInv, TypeOK
<1> DEFINE c == flow[p].clean /\ ~Crossed(flow[p])
           n == [FreshFlow EXCEPT !.uploads = flow[p].uploads, !.uploading = flow[p].uploading,
                                  !.asks = flow[p].asks, !.asking = flow[p].asking,
                                  !.clean = c]
<1>2. FreshFlow \in Flow BY DEF FreshFlow, Flow
<1>3. c \in BOOLEAN BY <1>1 DEF Flow
<1>4. flow' = [flow EXCEPT ![p] = n] BY DEF Reset
<1>5. n \in Flow
  <2> HIDE DEF c
  <2> QED BY <1>1, <1>2, <1>3 DEF Flow
<1> HIDE DEF n
<1>6. flow' \in [Pages -> Flow] BY <1>1, <1>4, <1>5
<1>7. Effect(p, None) /\ UNCHANGED <<job, bus, upsets>> BY DEF Reset
<1>8. None \in Jobs \cup {None} OBVIOUS
<1> QED BY <1>6, <1>7, <1>8, EffectKeeps

LEMMA LeaveKeeps ==
  ASSUME IInv, NEW p \in Pages, Leave(p)
  PROVE  IInv'
<1> DEFINE n == FreshHook
<1>0. /\ hook \in [Pages -> Hook] /\ hook[p] \in Hook /\ flow \in [Pages -> Flow]
      /\ upsets \in 0..MaxUpsets
      /\ None \notin Sockets \cup Pages \cup Jobs
      /\ bus \in Seq(Event) /\ job \in [Jobs -> Job]
  BY WatchAssumption DEF IInv, TypeOK
<1>1. /\ Narrowed(sock') /\ hook[p].sk \in Sockets \cup {None}
      /\ hook[p].sk \in Sockets => ~Live(sock'[hook[p].sk])
  BY <1>0, UnmountedNarrows DEF Leave, Hook
<1>3. FreshHook \in Hook /\ FreshHook.out = None /\ FreshHook.error = None
  <2>1. <<None, "same", "pending">> \in (Jobs \cup {None}) \X {"same", "new"} \X Statuses BY DEF Statuses
  <2> QED BY <2>1 DEF FreshHook, Hook, Statuses
<1>4. hook' = [hook EXCEPT ![p] = n] BY DEF Leave
<1>5. n \in Hook /\ n.out = None /\ n.error = None BY <1>3
<1> HIDE DEF n
<1>6. hook' \in [Pages -> Hook] /\ \A q \in Pages : hook'[q] = IF q = p THEN n ELSE hook[q]
  BY <1>0, <1>4, <1>5
<1>7. EndIsCommitted'
  <2>1. job' = job BY DEF Leave
  <2>2. ASSUME NEW q \in Pages
        PROVE  /\ hook'[q].out # None => Committed(hook'[q].out)
               /\ hook'[q].error \in Jobs => job[hook'[q].error].broke
    BY <1>0, <1>5, <1>6 DEF IInv, EndIsCommitted
  <2> QED BY <2>1, <2>2 DEF EndIsCommitted, Committed
<1>8. FreshFlow \in Flow BY DEF FreshFlow, Flow
<1>9. flow' \in [Pages -> Flow] BY <1>0, <1>8 DEF Leave
<1>10. TypeOK' BY <1>0, <1>1, <1>6, <1>9 DEF TypeOK, Leave, Narrowed
<1>11. OwnSockets'
  <2> SUFFICES ASSUME NEW q \in Pages, NEW k \in Sockets, sock'[k].page = q, Live(sock'[k])
               PROVE  /\ hook'[q].sk = k
                      /\ sock'[k].job = hook'[q].deps[1]
                      /\ hook'[q].deps[3] \notin Terminal
    BY DEF OwnSockets, Live
  <2>1. Live(sock[k]) /\ sock[k].page = q /\ sock'[k].job = sock[k].job
    BY <1>1 DEF Narrowed
  <2>2. /\ hook[q].sk = k /\ sock[k].job = hook[q].deps[1]
        /\ hook[q].deps[3] \notin Terminal
    BY <2>1 DEF IInv, OwnSockets, Live
  <2>3. q # p BY <1>1, <2>2
  <2> QED BY <1>6, <2>1, <2>2, <2>3
<1>12. EventsAreSound' /\ SocketsPlaced'
  <2>1. job' = job /\ bus' = bus BY DEF Leave
  <2>2. EventsAreSound' BY <1>1, <2>1 DEF IInv, EventsAreSound, Narrowed, Sound
  <2>3. SocketsPlaced' BY <1>1 DEF Narrowed, SocketsPlaced, Placed, NoSocket
  <2> QED BY <2>2, <2>3
<1>13. AttemptsAdd' BY DEF Leave, IInv, AttemptsAdd
<1> QED BY <1>7, <1>10, <1>11, <1>12, <1>13 DEF IInv

\* Answers move a flow, and the job a submission is about.
LEMMA AnswersKeep ==
  ASSUME IInv, NEW p \in Pages,
         \/ \E f \in Files : (Upload(p, f, TRUE) /\ UNCHANGED upsets)
                           \/ (Upload(p, f, FALSE) /\ Upset)
         \/ \E j \in Jobs : Submit(p, j) \/ Started(p, j) \/ NotStarted(p, j)
  PROVE  IInv'
<1>0. flow \in [Pages -> Flow] /\ flow[p] \in Flow /\ job \in [Jobs -> Job]
  BY DEF IInv, TypeOK
<1>1. ASSUME job' = job PROVE JobsMove
  BY <1>0, <1>1 DEF IInv, AttemptsAdd, JobsMove, Keeps
<1>2. ASSUME NEW n \in Flow PROVE [flow EXCEPT ![p] = n] \in [Pages -> Flow]
  BY <1>0
<1>3. ASSUME NEW f \in Files, NEW ok \in BOOLEAN, Upload(p, f, ok), upsets' = upsets \/ Upset
      PROVE  IInv'
  <2> DEFINE u == flow[p].uploads \ {f}
             g == IF flow[p].uploading = f THEN None ELSE flow[p].uploading
             n == IF ok THEN [flow[p] EXCEPT !.uploads = u, !.uploading = g, !.step = "options", !.up = f]
                        ELSE [flow[p] EXCEPT !.uploads = u, !.uploading = g, !.step = "error"]
  <2>1. u \in SUBSET Files /\ g \in Files \cup {None} BY <1>0 DEF Flow
  <2>2. n \in Flow
    <3> HIDE DEF u, g
    <3> QED BY <1>0, <2>1 DEF Flow
  <2>3. flow' = [flow EXCEPT ![p] = n] BY <1>0, <1>3 DEF Upload, Flow
  <2> HIDE DEF n
  <2>4. flow' \in [Pages -> Flow] BY <1>2, <2>2, <2>3
  <2>5. UNCHANGED <<job, bus, sock, hook>> BY <1>3 DEF Upload
  <2> QED BY <1>1, <1>3, <2>4, <2>5, JobPart
<1>4. ASSUME NEW j \in Jobs, Submit(p, j) PROVE IInv'
  <2> DEFINE a == flow[p].asks \cup {j}
             n == [flow[p] EXCEPT !.asks = a, !.asking = j]
  <2>1. a \in SUBSET Jobs BY <1>0 DEF Flow
  <2>2. n \in Flow
    <3> HIDE DEF a
    <3> QED BY <1>0, <2>1 DEF Flow
  <2>3. flow' = [flow EXCEPT ![p] = n] BY <1>0, <1>4 DEF Submit
  <2> HIDE DEF n
  <2>4. flow' \in [Pages -> Flow] BY <1>2, <2>2, <2>3
  <2>5. JobsMove BY <1>4, JobSteps
  <2>6. UNCHANGED <<bus, sock, hook, upsets>> BY <1>4 DEF Submit
  <2> QED BY <2>4, <2>5, <2>6, JobPart
<1>5. ASSUME NEW j \in Jobs PROVE Answered(flow[p], j) \in Flow
  <2> DEFINE a == flow[p].asks \ {j}
             g == IF flow[p].asking = j THEN None ELSE flow[p].asking
  <2>1. a \in SUBSET Jobs /\ g \in Jobs \cup {None} BY <1>0 DEF Flow
  <2>2. Answered(flow[p], j) = [flow[p] EXCEPT !.asks = a, !.asking = g] BY DEF Answered
  <2> HIDE DEF a, g
  <2> QED BY <1>0, <2>1, <2>2 DEF Flow
<1>6. ASSUME NEW j \in Jobs, Started(p, j) PROVE IInv'
  <2> DEFINE n == [Answered(flow[p], j) EXCEPT !.step = "processing", !.job = j]
  <2>1. n \in Flow BY <1>5 DEF Flow
  <2>2. flow' = [flow EXCEPT ![p] = n] BY <1>6 DEF Started
  <2> HIDE DEF n
  <2>3. flow' \in [Pages -> Flow] BY <1>2, <2>1, <2>2
  <2>4. UNCHANGED <<job, bus, sock, hook, upsets>> BY <1>6 DEF Started
  <2> QED BY <1>1, <2>3, <2>4, JobPart
<1>7. ASSUME NEW j \in Jobs, NotStarted(p, j) PROVE IInv'
  <2> DEFINE n == [Answered(flow[p], j) EXCEPT !.step = "error"]
  <2>1. n \in Flow BY <1>5 DEF Flow
  <2>2. flow' = [flow EXCEPT ![p] = n] BY <1>7 DEF NotStarted
  <2> HIDE DEF n
  <2>3. flow' \in [Pages -> Flow] BY <1>2, <2>1, <2>2
  <2>4. JobsMove BY <1>7, JobSteps
  <2>5. UNCHANGED <<bus, sock, hook>> /\ Upset BY <1>7 DEF NotStarted
  <2> QED BY <2>3, <2>4, <2>5, JobPart
<1> QED BY <1>3, <1>4, <1>6, <1>7

-----------------------------------------------------------------------------
(***************************************************************************)
(* The theorems.                                                           *)
(***************************************************************************)
LEMMA InitHolds == Init => IInv
<1> SUFFICES ASSUME Init PROVE IInv OBVIOUS
<1>1. <<>> \in Seq(Event) /\ <<>> \in Seq({"subscribe", "unsubscribe"}) OBVIOUS
<1>2. NoSocket \in Socket /\ NoSocket.end = "none" /\ NoSocket.down = <<>>
  BY <1>1 DEF NoSocket, Socket
<1>3. FreshHook \in Hook /\ FreshHook.out = None /\ FreshHook.error = None
  <2>1. <<None, "same", "pending">> \in (Jobs \cup {None}) \X {"same", "new"} \X Statuses BY DEF Statuses
  <2> QED BY <2>1 DEF FreshHook, Hook, Statuses
<1>4. FreshFlow \in Flow BY DEF FreshFlow, Flow
<1> DEFINE x == [pc |-> "none", makes |-> TRUE, file |-> None, tries |-> 0, said |-> 0, tell |-> 0,
                 outs |-> {}, broke |-> FALSE]
<1>5. x \in Job /\ Counted(x) BY WatchAssumption DEF Job, Counted
<1>6. job = [j \in Jobs |-> x] BY DEF Init
<1> HIDE DEF x
<1>7. TypeOK
  <2>1. job \in [Jobs -> Job] BY <1>5, <1>6
  <2>2. sock \in [Sockets -> Socket] BY <1>2 DEF Init
  <2>3. hook \in [Pages -> Hook] BY <1>3 DEF Init
  <2>4. flow \in [Pages -> Flow] BY <1>4 DEF Init
  <2>5. bus \in Seq(Event) BY <1>1 DEF Init
  <2>6. upsets \in 0..MaxUpsets BY WatchAssumption DEF Init
  <2> QED BY <2>1, <2>2, <2>3, <2>4, <2>5, <2>6 DEF TypeOK
<1>8. EventsAreSound BY <1>2 DEF Init, EventsAreSound
<1>9. EndIsCommitted BY <1>3, WatchAssumption DEF Init, EndIsCommitted
<1>10. OwnSockets /\ SocketsPlaced BY <1>2 DEF Init, OwnSockets, SocketsPlaced, Placed
<1> QED BY <1>5, <1>6, <1>7, <1>8, <1>9, <1>10 DEF IInv, AttemptsAdd

LEMMA StutterKeeps ==
  ASSUME IInv, UNCHANGED vars
  PROVE  IInv'
<1>1. TypeOK' /\ AttemptsAdd' BY DEF IInv, TypeOK, AttemptsAdd, vars
<1>2. EventsAreSound' /\ EndIsCommitted'
  BY EndsKept DEF IInv, EventsAreSound, Sound, vars
<1>3. OwnSockets' /\ SocketsPlaced'
  BY DEF IInv, OwnSockets, SocketsPlaced, Placed, NoSocket, vars
<1> QED BY <1>1, <1>2, <1>3 DEF IInv

LEMMA NextKeeps == IInv /\ [Next]_vars => IInv'
<1> SUFFICES ASSUME IInv, [Next]_vars PROVE IInv' OBVIOUS
<1>1. ASSUME NEW j \in Jobs,
             WorkerStep(j) \/ Create(j) \/ Failed(j) \/ TellNothing(j) \/ Redeliver(j)
      PROVE  IInv'
  BY <1>1, WorkerKeeps
<1>2. CASE ApiStep BY <1>2, BroadcastKeeps, SocketStepsKeep DEF ApiStep
<1>3. ASSUME NEW k \in Sockets, SocketStep(k) \/ Refuse(k) \/ Lose(k) PROVE IInv'
  BY <1>3, SocketStepsKeep, ReceiveKeeps, LoseKeeps, ErroredKeeps DEF SocketStep
<1>4. ASSUME NEW p \in Pages, Commit(p) \/ Answer(p) \/ UserStep(p) PROVE IInv'
  BY <1>4, CommitKeeps, AnswersKeep, SelectKeeps, ResetKeeps, LeaveKeeps
     DEF Answer, UserStep
<1>5. CASE LoseEvent \/ Renew BY <1>5, LossKeeps, RenewKeeps
<1>6. CASE Failure BY <1>1, <1>3, <1>5, <1>6, AnswersKeep DEF Failure
<1>7. CASE UNCHANGED vars BY <1>7, StutterKeeps
<1> QED BY <1>1, <1>2, <1>3, <1>4, <1>5, <1>6, <1>7 DEF Next, BrowserStep

LEMMA InvariantHolds == Spec => []IInv
<1> QED BY InitHolds, NextKeeps, PTL DEF Spec

\* Every reachable state of the worker, the bus, the sockets and the pages has the
\* types declared in JobWatch.
THEOREM TypeCorrect == Spec => []TypeOK
<1>1. IInv => TypeOK BY DEF IInv
<1> QED BY <1>1, InvariantHolds, PTL

\* useJobWebSocket's effect: once it has run for the current job, token and status,
\* the only socket of the page that can still deliver is that of this job, and
\* there is none when the job has ended.
THEOREM PageFollowsItsJob == Spec => []FollowsCurrentJob
<1>1. IInv => FollowsCurrentJob
  BY DEF IInv, OwnSockets, FollowsCurrentJob, Current
<1> QED BY <1>1, InvariantHolds, PTL

\* The order of update and publish in the processors and in worker.on('failed'):
\* whatever is redelivered, dropped or reordered by a reconnection, what a page takes
\* for the output is the result of an attempt that completed its row first (of the
\* default processor, which makes no output, the input), and a failure it shows was
\* written to the row of its job.
THEOREM ShownEndIsCommitted == Spec => []EndIsCommitted
<1>1. IInv => EndIsCommitted BY DEF IInv
<1> QED BY <1>1, InvariantHolds, PTL

-----------------------------------------------------------------------------
(***************************************************************************)
(* The card is never blank. Besides the types this needs what NeverBlank   *)
(* itself does not say: which of a page's states still have a request      *)
(* whose answer moves the flow on.                                         *)
(***************************************************************************)
\* A completion comes with its output, and only a message takes both away.
EndHasOutput(h) == h.status = "completed" => h.out # None

\* A flow without a file, and which nothing crossed, waits for no answer and is
\* where it began: no answer can bring it to a step that needs the file.
NoFileNoAnswers(f) ==
  f.clean /\ f.file = None => f.step = "idle" /\ f.uploads = {} /\ f.asks = {}

CardsAreSound ==
  \A p \in Pages : EndHasOutput(hook[p]) /\ NoFileNoAnswers(flow[p])

\* One flow changes, to one that is sound.
LEMMA OneFlowMoves ==
  ASSUME TypeOK, CardsAreSound, NEW p \in Pages, NEW g, NoFileNoAnswers(g),
         flow' = [flow EXCEPT ![p] = g],
         \A q \in Pages : EndHasOutput(hook'[q])
  PROVE  CardsAreSound'
BY DEF TypeOK, CardsAreSound, EndHasOutput, NoFileNoAnswers

\* The hooks keep their ends, and the flows are as they were.
LEMMA HooksMove ==
  ASSUME TypeOK, CardsAreSound, UNCHANGED flow, \A q \in Pages : EndHasOutput(hook'[q])
  PROVE  CardsAreSound'
BY DEF CardsAreSound

\* A run of the effect sets neither the status nor the output.
LEMMA EffectKeepsEnds ==
  ASSUME TypeOK, CardsAreSound, NEW p \in Pages, NEW arg, Effect(p, arg)
  PROVE  \A q \in Pages : EndHasOutput(hook'[q])
<1> DEFINE Set(d, k) == hook' = [hook EXCEPT ![p].deps = d, ![p].sk = k]
<1>1. UNCHANGED hook \/ \E d, k : Set(d, k)
  BY Zenon DEF Effect
<1>2. ASSUME NEW d, NEW k, Set(d, k) PROVE \A q \in Pages : EndHasOutput(hook'[q])
  BY <1>2 DEF TypeOK, Hook, CardsAreSound, EndHasOutput
<1> QED BY <1>1, <1>2 DEF CardsAreSound

\* A message that completes brings an output.
LEMMA ReceiveKeepsCards ==
  ASSUME IInv, CardsAreSound, NEW k \in Sockets, Receive(k)
  PROVE  CardsAreSound'
<1> DEFINE m == Head(sock[k].down)
           h == hook[sock[k].page]
           n == Told(h, m)
<1>1. m \in Event /\ Sound(m, job)
  <2>1. /\ sock[k].down \in Seq(Event) /\ sock[k].down # <<>>
        /\ \A i \in 1..Len(sock[k].down) : Sound(sock[k].down[i], job)
    BY DEF IInv, TypeOK, EventsAreSound, Receive, Socket
  <2> QED BY <2>1, TailElements
<1>2. hook \in [Pages -> Hook] BY DEF IInv, TypeOK
<1>3. hook' = hook \/ hook' = [hook EXCEPT ![sock[k].page] = n] BY DEF Receive
<1>4. ASSUME sock[k].page \in Pages PROVE EndHasOutput(n)
  <2>0. h \in Hook BY <1>2, <1>4
  <2> HIDE DEF h, m
  <2>1. CASE m.type # "completed"
    <3>1. n.status \in {"active", "failed"}
      BY <1>1, <2>0, <2>1 DEF Told, Hook, Event
    <3> QED BY <3>1 DEF EndHasOutput
  <2>2. CASE m.type = "completed"
    <3>1. ResultOf(m.out, m.job, job) /\ m.job \in Jobs BY <1>1, <2>2 DEF Event, Sound
    <3>2. m.out \in FileId BY <3>1, ResultIsFile DEF IInv
    <3>3. n = [h EXCEPT !.status = "completed", !.error = None, !.out = m.out]
      BY <2>2 DEF Told
    <3> HIDE DEF n
    <3>4. n.out = m.out BY <2>0, <3>3 DEF Hook
    <3> QED BY <3>2, <3>4, NoneIsNoFile DEF EndHasOutput
  <2> QED BY <2>1, <2>2
<1> HIDE DEF n
<1>5. \A q \in Pages : EndHasOutput(hook'[q])
  BY <1>2, <1>3, <1>4 DEF CardsAreSound
<1> QED BY <1>5, HooksMove DEF Receive, IInv

\* A connection that ends sets an error, and no status.
LEMMA LoseKeepsCards ==
  ASSUME IInv, CardsAreSound, NEW k \in Sockets, Lose(k) \/ Errored(k)
  PROVE  CardsAreSound'
<1>1. hook \in [Pages -> Hook] BY DEF IInv, TypeOK
<1>2. hook' = hook \/ hook' = [hook EXCEPT ![sock[k].page].error = "socket"] BY DEF Lose, Errored
<1>3. \A q \in Pages : EndHasOutput(hook'[q])
  BY <1>1, <1>2 DEF CardsAreSound, EndHasOutput, Hook
<1> QED BY <1>3, HooksMove DEF Lose, Errored, IInv

\* A click: another file, Clear or Try again. A flow that kept a request is one that
\* something crossed, and a flow that asks for a job has a file.
LEMMA ClicksKeepCards ==
  ASSUME IInv, CardsAreSound, NEW p \in Pages, UserStep(p)
  PROVE  CardsAreSound'
<1>0. TypeOK /\ flow[p] \in Flow /\ NoFileNoAnswers(flow[p]) /\ EndHasOutput(hook[p])
  BY DEF IInv, TypeOK, CardsAreSound
<1>1. ASSUME NEW f \in Files, Select(p, f) PROVE CardsAreSound'
  <2> DEFINE g ==
        [FreshFlow EXCEPT !.file = f, !.uploads = @ \cup flow[p].uploads \cup {f},
                          !.uploading = f, !.asks = flow[p].asks, !.asking = flow[p].asking,
                          !.clean = flow[p].clean /\ ~Crossed(flow[p])]
  <2>1. flow' = [flow EXCEPT ![p] = g] /\ Effect(p, None) BY <1>1 DEF Select
  <2>2. NoFileNoAnswers(g) BY WatchAssumption DEF NoFileNoAnswers, FreshFlow
  <2> HIDE DEF g
  <2> QED BY <1>0, <2>1, <2>2, EffectKeepsEnds, OneFlowMoves
<1>2. ASSUME Reset(p) PROVE CardsAreSound'
  <2> DEFINE g ==
        [FreshFlow EXCEPT !.uploads = flow[p].uploads, !.uploading = flow[p].uploading,
                          !.asks = flow[p].asks, !.asking = flow[p].asking,
                          !.clean = flow[p].clean /\ ~Crossed(flow[p])]
  <2>1. flow' = [flow EXCEPT ![p] = g] /\ Effect(p, None) BY <1>2 DEF Reset
  <2>2. NoFileNoAnswers(g) BY DEF NoFileNoAnswers, FreshFlow, Crossed
  <2> HIDE DEF g
  <2> QED BY <1>0, <2>1, <2>2, EffectKeepsEnds, OneFlowMoves
<1>3. ASSUME NEW j \in Jobs, Submit(p, j) PROVE CardsAreSound'
  <2> DEFINE g == [flow[p] EXCEPT !.asks = @ \cup {j}, !.asking = j]
  <2>1. flow' = [flow EXCEPT ![p] = g] /\ UNCHANGED hook
    BY <1>0, <1>3 DEF Submit, TypeOK
  <2>2. flow[p].file # None BY <1>3 DEF Submit, OptionsShown
  <2>3. NoFileNoAnswers(g) BY <1>0, <2>2 DEF NoFileNoAnswers, Flow
  <2> HIDE DEF g
  <2> QED BY <1>0, <2>1, <2>3, OneFlowMoves DEF CardsAreSound
<1>4. ASSUME Leave(p) PROVE CardsAreSound'
  <2>1. NoFileNoAnswers(FreshFlow) BY DEF NoFileNoAnswers, FreshFlow
  <2>2. \A q \in Pages : EndHasOutput(hook'[q])
    BY <1>4 DEF Leave, CardsAreSound, EndHasOutput, FreshHook, IInv, TypeOK
  <2> QED BY <1>0, <1>4, <2>1, <2>2, OneFlowMoves DEF Leave
<1> QED BY <1>1, <1>2, <1>3, <1>4 DEF UserStep

\* An answer is one that the flow waits for, so that a flow without a file gets none.
LEMMA AnswersKeepCards ==
  ASSUME IInv, CardsAreSound, NEW p \in Pages
  PROVE  /\ \A f \in Files, ok \in BOOLEAN : Upload(p, f, ok) => CardsAreSound'
         /\ \A j \in Jobs : Started(p, j) \/ NotStarted(p, j) => CardsAreSound'
<1>0. /\ TypeOK /\ flow[p] \in Flow /\ NoFileNoAnswers(flow[p])
      /\ \A q \in Pages : EndHasOutput(hook[q])
  BY DEF IInv, TypeOK, CardsAreSound
<1>1. ASSUME NEW f \in Files, NEW ok \in BOOLEAN, Upload(p, f, ok) PROVE CardsAreSound'
  <2> DEFINE over == [flow[p] EXCEPT !.uploads = @ \ {f},
                                     !.uploading = IF @ = f THEN None ELSE @]
             g == IF ok THEN [over EXCEPT !.step = "options", !.up = f]
                        ELSE [over EXCEPT !.step = "error"]
  <2>1. flow' = [flow EXCEPT ![p] = g] /\ UNCHANGED hook BY <1>1 DEF Upload
  <2>2. g.clean = flow[p].clean /\ g.file = flow[p].file BY <1>0 DEF Flow
  <2>3. ~(flow[p].clean /\ flow[p].file = None)
    BY <1>0, <1>1 DEF Upload, NoFileNoAnswers
  <2>4. NoFileNoAnswers(g)
    <3> HIDE DEF g
    <3> QED BY <2>2, <2>3 DEF NoFileNoAnswers
  <2> HIDE DEF g
  <2> QED BY <1>0, <2>1, <2>4, OneFlowMoves
<1>2. ASSUME NEW j \in Jobs, Started(p, j) \/ NotStarted(p, j) PROVE CardsAreSound'
  <2> DEFINE s == [Answered(flow[p], j) EXCEPT !.step = "processing", !.job = j]
             e == [Answered(flow[p], j) EXCEPT !.step = "error"]
  <2>1. /\ flow' = [flow EXCEPT ![p] = s] \/ flow' = [flow EXCEPT ![p] = e]
        /\ UNCHANGED hook
    BY <1>2 DEF Started, NotStarted
  <2>2. /\ s.clean = flow[p].clean /\ s.file = flow[p].file
        /\ e.clean = flow[p].clean /\ e.file = flow[p].file
    BY <1>0 DEF Flow, Answered
  <2>3. ~(flow[p].clean /\ flow[p].file = None)
    BY <1>0, <1>2 DEF Started, NotStarted, NoFileNoAnswers
  <2> HIDE DEF s, e
  <2>4. NoFileNoAnswers(s) /\ NoFileNoAnswers(e) BY <2>2, <2>3 DEF NoFileNoAnswers
  <2> QED BY <1>0, <2>1, <2>4, OneFlowMoves
<1> QED BY <1>1, <1>2

LEMMA NextKeepsCards == IInv /\ CardsAreSound /\ [Next]_vars => CardsAreSound'
<1> SUFFICES ASSUME IInv, CardsAreSound, [Next]_vars PROVE CardsAreSound' OBVIOUS
<1>0. UNCHANGED <<flow, hook>> => CardsAreSound' BY DEF CardsAreSound
<1>1. ASSUME NEW j \in Jobs, WorkerStep(j) \/ Create(j) PROVE CardsAreSound'
  BY <1>0, <1>1
  DEF WorkerStep, Create, Activate, Progress, Finish, Announce, TellFailure
<1>2. ASSUME ApiStep PROVE CardsAreSound'
  BY <1>0, <1>2 DEF ApiStep, Broadcast, Accept, Frame, Remove
<1>3. ASSUME NEW k \in Sockets, SocketStep(k) PROVE CardsAreSound'
  BY <1>0, <1>3, ReceiveKeepsCards, LoseKeepsCards DEF SocketStep, Opened
<1>4. ASSUME NEW p \in Pages, Commit(p) \/ Answer(p) \/ UserStep(p) PROVE CardsAreSound'
  <2>1. CASE Commit(p)
    <3>1. \A q \in Pages : EndHasOutput(hook'[q])
      BY <2>1, EffectKeepsEnds DEF Commit, IInv
    <3> QED BY <2>1, <3>1, HooksMove DEF Commit, IInv
  <2>2. CASE Answer(p) BY <2>2, AnswersKeepCards DEF Answer
  <2>3. CASE UserStep(p) BY <2>3, ClicksKeepCards
  <2> QED BY <1>4, <2>1, <2>2, <2>3
<1>5. ASSUME Failure PROVE CardsAreSound'
  <2>1. ASSUME NEW j \in Jobs, Failed(j) \/ TellNothing(j) \/ Redeliver(j)
        PROVE  CardsAreSound'
    BY <1>0, <2>1 DEF Failed, TellNothing, Redeliver
  <2>2. ASSUME NEW k \in Sockets, Refuse(k) \/ Lose(k) PROVE CardsAreSound'
    BY <1>0, <2>2, LoseKeepsCards DEF Refuse
  <2>3. CASE LoseEvent BY <1>0, <2>3 DEF LoseEvent
  <2>4. ASSUME NEW p \in Pages,
               \/ \E f \in Files : Upload(p, f, FALSE)
               \/ \E j \in Jobs : NotStarted(p, j)
        PROVE  CardsAreSound'
    BY <2>4, AnswersKeepCards
  <2> QED BY <1>5, <2>1, <2>2, <2>3, <2>4 DEF Failure
<1>6. CASE Renew
  <2>1. \A q \in Pages : EndHasOutput(hook'[q])
    BY <1>6 DEF Renew, IInv, TypeOK, Hook, CardsAreSound, EndHasOutput
  <2> QED BY <1>6, <2>1, HooksMove DEF Renew, IInv
<1>7. CASE UNCHANGED vars BY <1>0, <1>7 DEF vars
<1> QED BY <1>1, <1>2, <1>3, <1>4, <1>5, <1>6, <1>7 DEF Next, BrowserStep

\* The flow's card always offers something to do, unless a request crossed a Clear or
\* another file: the options have their file, the result has its file and its output,
\* in whatever order answers, messages and clicks came (useCompressFlow.ts).
THEOREM CardIsNeverBlank == Spec => []NeverBlank
<1>1. Init => CardsAreSound
  <2>1. EndHasOutput(FreshHook) BY DEF EndHasOutput, FreshHook
  <2>2. NoFileNoAnswers(FreshFlow) BY DEF NoFileNoAnswers, FreshFlow
  <2> QED BY <2>1, <2>2 DEF Init, CardsAreSound
<1>2. IInv /\ CardsAreSound => NeverBlank
  <2> SUFFICES ASSUME IInv, CardsAreSound, NEW p \in Pages, flow[p].clean
               PROVE  /\ Step(p) = "options" => OptionsShown(p)
                      /\ Step(p) = "done" => ResultShown(p)
    BY DEF NeverBlank
  <2>1. EndHasOutput(hook[p]) /\ NoFileNoAnswers(flow[p]) BY DEF CardsAreSound
  <2>2. Step(p) \in {"options", "done"} => flow[p].step # "idle" BY DEF Step
  <2>3. flow[p].step # "done" BY DEF IInv, TypeOK, Flow
  <2>4. Step(p) = "done" => hook[p].status = "completed" BY <2>3 DEF Step
  <2> QED BY <2>1, <2>2, <2>4 DEF OptionsShown, ResultShown, EndHasOutput, NoFileNoAnswers
<1> QED BY <1>1, <1>2, NextKeepsCards, InvariantHolds, PTL DEF Spec
=============================================================================
