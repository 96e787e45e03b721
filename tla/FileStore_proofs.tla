-------------------------- MODULE FileStore_proofs --------------------------
(***************************************************************************)
(* Proofs about FileStore, for every set of rows, requests and sweep runs, *)
(* every size and every time-out that satisfies TtlAssumption.             *)
(***************************************************************************)
EXTENDS FileStore, TLAPS

\* The row is old enough for findExpiredPending.
Overdue(f) == createdAt[f] + PendingTtl < now

-----------------------------------------------------------------------------
(***************************************************************************)
(* The inductive invariant, in parts.                                      *)
(***************************************************************************)
\* A row that is not there yet has left no trace anywhere.
NoTraceBeforeInsert ==
  \A f \in Files :
    status[f] = "none" =>
      /\ expires[f] = 0 /\ object[f] = 0 /\ uploading[f] = 0
      /\ \A r \in Requests : arg[r] # f
      /\ \A s \in Sweeps : f \notin found[s]
      /\ f \notin removed

\* Only bytes of the reserved size reach a row's key.
BytesMatch ==
  \A f \in Files : object[f] \in {0, size[f]} /\ uploading[f] \in {0, size[f]}

\* A row not confirmed yet has no confirmation time.
UnconfirmedHasNoTime ==
  \A f \in Files : status[f] \in {"none", "pending"} => confirmedAt[f] = 0

\* A reservation, its policy and the POSTs under it end in time.
PolicyEndsInTime ==
  /\ \A r \in Requests :
       step[r] = "presign" => now <= createdAt[arg[r]] + ReplyLatency
  /\ \A f \in Files :
       /\ expires[f] # 0 =>
            expires[f] <= createdAt[f] + ReplyLatency + PresignedTtl
       /\ uploading[f] # 0 => expires[f] # 0 /\ now <= expires[f] + UploadTime

\* A row in the hands of a sweep run, or handled by one, is overdue, and was
\* not confirmed in time.
SweptIsOverdue ==
  \A f \in Files :
    (f \in removed \/ \E s \in Sweeps : f \in found[s]) =>
      /\ Overdue(f)
      /\ confirmedAt[f] # 0 => confirmedAt[f] > createdAt[f] + PendingTtl

\* What statObject saw is still there when markReady runs, unless the row is
\* overdue by then.
VerifiedUntilOverdue ==
  \A r \in Requests :
    step[r] = "markReady" =>
      object[arg[r]] = size[arg[r]] \/ Overdue(arg[r])

IInv ==
  /\ TypeOK
  /\ NoTraceBeforeInsert
  /\ BytesMatch
  /\ UnconfirmedHasNoTime
  /\ PolicyEndsInTime
  /\ SweptIsOverdue
  /\ VerifiedUntilOverdue
  /\ PromptConfirmKept
  /\ SweptStaysEmpty
-----------------------------------------------------------------------------
(***************************************************************************)
(* Type correctness.                                                       *)
(***************************************************************************)
\* Every step keeps the shape of the state.
LEMMA TypeStep == TypeOK /\ [Next]_vars => TypeOK'
<1> SUFFICES ASSUME TypeOK, [Next]_vars PROVE TypeOK'
  OBVIOUS
<1> USE ConstantsAssumption DEF TypeOK, Status, Steps, Await, Reply
<1>1. ASSUME NEW r \in Requests, NEW f \in Files, NEW n \in Sizes, ReserveRow(r, f, n)
      PROVE  TypeOK'
  BY <1>1 DEF ReserveRow, rows, bucket, requests, sweep, history
<1>2. ASSUME NEW r \in Requests, Presign(r)
      PROVE  TypeOK'
  BY <1>2 DEF Presign, rows, bucket, requests, sweep, history
<1>3. ASSUME NEW r \in Requests, NEW f \in Files, ConfirmRead(r, f)
      PROVE  TypeOK'
  BY <1>3 DEF ConfirmRead, rows, bucket, requests, sweep, history
<1>4. ASSUME NEW r \in Requests, ConfirmStat(r)
      PROVE  TypeOK'
  BY <1>4 DEF ConfirmStat, rows, bucket, requests, sweep, history
<1>5. ASSUME NEW r \in Requests, ConfirmMarkReady(r)
      PROVE  TypeOK'
  BY <1>5 DEF ConfirmMarkReady, rows, bucket, requests, sweep, history
<1>6. ASSUME NEW r \in Requests, NEW f \in Files, DeleteRead(r, f)
      PROVE  TypeOK'
  BY <1>6 DEF DeleteRead, rows, bucket, requests, sweep, history
<1>7. ASSUME NEW r \in Requests, DeleteWrite(r)
      PROVE  TypeOK'
  BY <1>7 DEF DeleteWrite, rows, bucket, requests, sweep, history
<1>8. ASSUME NEW r \in Requests, RequestFails(r)
      PROVE  TypeOK'
  BY <1>8 DEF RequestFails, rows, bucket, requests, sweep, history
<1>9. ASSUME NEW f \in Files, NEW n \in Sizes, BeginUpload(f, n)
      PROVE  TypeOK'
  BY <1>9 DEF BeginUpload, rows, bucket, requests, sweep, history
<1>10. ASSUME NEW f \in Files, EndUpload(f)
      PROVE  TypeOK'
  BY <1>10 DEF EndUpload, rows, bucket, requests, sweep, history
<1>11. ASSUME NEW s \in Sweeps, SweepFind(s)
      PROVE  TypeOK'
  BY <1>11 DEF SweepFind, ExpiredPending, rows, bucket, requests, sweep, history
<1>12. ASSUME NEW s \in Sweeps, NEW f \in Files, SweepRemove(s, f)
      PROVE  TypeOK'
  BY <1>12 DEF SweepRemove, rows, bucket, requests, sweep, history
<1>13. ASSUME NEW s \in Sweeps, SweepSoftDelete(s)
      PROVE  TypeOK'
  BY <1>13 DEF SweepSoftDelete, rows, bucket, requests, sweep, history
<1>14. ASSUME NEW s \in Sweeps, SweepFails(s)
      PROVE  TypeOK'
  BY <1>14 DEF SweepFails, rows, bucket, requests, sweep, history
<1>15. CASE Tick
  BY <1>15 DEF Tick, rows, bucket, requests, sweep, history
<1>16. CASE UNCHANGED vars
  BY <1>16 DEF vars, rows, bucket, requests, sweep, history
<1> QED
  BY <1>1, <1>2, <1>3, <1>4, <1>5, <1>6, <1>7, <1>8, <1>9, <1>10, <1>11, <1>12, <1>13, <1>14, <1>15, <1>16 DEF Next, Api, SweepStep

-----------------------------------------------------------------------------
(***************************************************************************)
(* The step of the inductive invariant.  Under each action, the parts that *)
(* need facts of other parts come first, the rest follow each from itself. *)
(***************************************************************************)
\* Every step keeps the inductive invariant.
LEMMA InvStep == IInv /\ TypeOK' /\ [Next]_vars => IInv'
<1> SUFFICES ASSUME IInv, TypeOK', [Next]_vars PROVE IInv'
  OBVIOUS
<1> USE ConstantsAssumption, TtlAssumption
    DEF IInv, TypeOK, Await, Reply, Overdue, rows, bucket, requests, sweep, history
<1>1. ASSUME NEW r \in Requests, NEW f \in Files, NEW n \in Sizes, ReserveRow(r, f, n)
      PROVE  IInv'
  \* the row was not there: nothing refers to it yet
  <2>1. BytesMatch' /\ PolicyEndsInTime' /\ SweptIsOverdue' /\
        VerifiedUntilOverdue'
    BY <1>1 DEF ReserveRow, BytesMatch, PolicyEndsInTime, SweptIsOverdue,
            VerifiedUntilOverdue, NoTraceBeforeInsert
  <2>2. PromptConfirmKept'
    BY <1>1 DEF ReserveRow, PromptConfirmKept, UnconfirmedHasNoTime
  <2>3. NoTraceBeforeInsert' /\ UnconfirmedHasNoTime' /\ SweptStaysEmpty'
    BY <1>1 DEF ReserveRow, NoTraceBeforeInsert, UnconfirmedHasNoTime,
            SweptStaysEmpty
  <2> QED
    BY <2>1, <2>2, <2>3
<1>2. ASSUME NEW r \in Requests, Presign(r)
      PROVE  IInv'
  BY <1>2 DEF Presign, NoTraceBeforeInsert, BytesMatch,
          UnconfirmedHasNoTime, PolicyEndsInTime, SweptIsOverdue,
          VerifiedUntilOverdue, PromptConfirmKept, SweptStaysEmpty
<1>3. ASSUME NEW r \in Requests, NEW f \in Files, ConfirmRead(r, f)
      PROVE  IInv'
  BY <1>3 DEF ConfirmRead, NoTraceBeforeInsert, BytesMatch,
          UnconfirmedHasNoTime, PolicyEndsInTime, SweptIsOverdue,
          VerifiedUntilOverdue, PromptConfirmKept, SweptStaysEmpty
<1>4. ASSUME NEW r \in Requests, ConfirmStat(r)
      PROVE  IInv'
  BY <1>4 DEF ConfirmStat, NoTraceBeforeInsert, BytesMatch,
          UnconfirmedHasNoTime, PolicyEndsInTime, SweptIsOverdue,
          VerifiedUntilOverdue, PromptConfirmKept, SweptStaysEmpty
<1>5. ASSUME NEW r \in Requests, ConfirmMarkReady(r)
      PROVE  IInv'
  \* a row confirmed in time still has the bytes that statObject saw
  <2>1. PromptConfirmKept'
    BY <1>5 DEF ConfirmMarkReady, PromptConfirmKept, VerifiedUntilOverdue
  <2>2. NoTraceBeforeInsert' /\ BytesMatch' /\ UnconfirmedHasNoTime' /\
        PolicyEndsInTime' /\ SweptIsOverdue' /\ VerifiedUntilOverdue' /\
        SweptStaysEmpty'
    BY <1>5 DEF ConfirmMarkReady, NoTraceBeforeInsert, BytesMatch,
            UnconfirmedHasNoTime, PolicyEndsInTime, SweptIsOverdue,
            VerifiedUntilOverdue, SweptStaysEmpty
  <2> QED
    BY <2>1, <2>2
<1>6. ASSUME NEW r \in Requests, NEW f \in Files, DeleteRead(r, f)
      PROVE  IInv'
  BY <1>6 DEF DeleteRead, NoTraceBeforeInsert, BytesMatch,
          UnconfirmedHasNoTime, PolicyEndsInTime, SweptIsOverdue,
          VerifiedUntilOverdue, PromptConfirmKept, SweptStaysEmpty
<1>7. ASSUME NEW r \in Requests, DeleteWrite(r)
      PROVE  IInv'
  BY <1>7 DEF DeleteWrite, NoTraceBeforeInsert, BytesMatch,
          UnconfirmedHasNoTime, PolicyEndsInTime, SweptIsOverdue,
          VerifiedUntilOverdue, PromptConfirmKept, SweptStaysEmpty
<1>8. ASSUME NEW r \in Requests, RequestFails(r)
      PROVE  IInv'
  BY <1>8 DEF RequestFails, NoTraceBeforeInsert, BytesMatch,
          UnconfirmedHasNoTime, PolicyEndsInTime, SweptIsOverdue,
          VerifiedUntilOverdue, PromptConfirmKept, SweptStaysEmpty
<1>9. ASSUME NEW f \in Files, NEW n \in Sizes, BeginUpload(f, n)
      PROVE  IInv'
  BY <1>9 DEF BeginUpload, NoTraceBeforeInsert, BytesMatch,
          UnconfirmedHasNoTime, PolicyEndsInTime, SweptIsOverdue,
          VerifiedUntilOverdue, PromptConfirmKept, SweptStaysEmpty
<1>10. ASSUME NEW f \in Files, EndUpload(f)
      PROVE  IInv'
  \* the POST ends before the row can be overdue, and its bytes have the
  \* reserved size
  <2>1. VerifiedUntilOverdue' /\ PromptConfirmKept'
    BY <1>10 DEF EndUpload, VerifiedUntilOverdue, PromptConfirmKept,
            BytesMatch
  <2>2. SweptStaysEmpty'
    BY <1>10 DEF EndUpload, SweptStaysEmpty, PolicyEndsInTime,
            SweptIsOverdue
  <2>3. NoTraceBeforeInsert' /\ BytesMatch' /\ UnconfirmedHasNoTime' /\
        PolicyEndsInTime' /\ SweptIsOverdue'
    BY <1>10 DEF EndUpload, NoTraceBeforeInsert, BytesMatch,
            UnconfirmedHasNoTime, PolicyEndsInTime, SweptIsOverdue
  <2> QED
    BY <2>1, <2>2, <2>3
<1>11. ASSUME NEW s \in Sweeps, SweepFind(s)
      PROVE  IInv'
  \* an overdue pending row has not been confirmed
  <2>1. SweptIsOverdue'
    BY <1>11 DEF SweepFind, ExpiredPending, SweptIsOverdue,
            UnconfirmedHasNoTime
  <2>2. NoTraceBeforeInsert' /\ BytesMatch' /\ UnconfirmedHasNoTime' /\
        PolicyEndsInTime' /\ VerifiedUntilOverdue' /\ PromptConfirmKept' /\
        SweptStaysEmpty'
    BY <1>11 DEF SweepFind, ExpiredPending, NoTraceBeforeInsert, BytesMatch,
            UnconfirmedHasNoTime, PolicyEndsInTime, VerifiedUntilOverdue,
            PromptConfirmKept, SweptStaysEmpty
  <2> QED
    BY <2>1, <2>2
<1>12. ASSUME NEW s \in Sweeps, NEW f \in Files, SweepRemove(s, f)
      PROVE  IInv'
  \* the run holds an overdue row that was not confirmed in time
  <2>1. VerifiedUntilOverdue' /\ PromptConfirmKept'
    BY <1>12 DEF SweepRemove, VerifiedUntilOverdue, PromptConfirmKept,
            SweptIsOverdue
  <2>2. NoTraceBeforeInsert' /\ BytesMatch' /\ UnconfirmedHasNoTime' /\
        PolicyEndsInTime' /\ SweptIsOverdue' /\ SweptStaysEmpty'
    BY <1>12 DEF SweepRemove, NoTraceBeforeInsert, BytesMatch,
            UnconfirmedHasNoTime, PolicyEndsInTime, SweptIsOverdue,
            SweptStaysEmpty
  <2> QED
    BY <2>1, <2>2
<1>13. ASSUME NEW s \in Sweeps, SweepSoftDelete(s)
      PROVE  IInv'
  \* likewise
  <2>1. PromptConfirmKept'
    BY <1>13 DEF SweepSoftDelete, PromptConfirmKept, SweptIsOverdue
  <2>2. NoTraceBeforeInsert' /\ BytesMatch' /\ UnconfirmedHasNoTime' /\
        PolicyEndsInTime' /\ SweptIsOverdue' /\ VerifiedUntilOverdue' /\
        SweptStaysEmpty'
    BY <1>13 DEF SweepSoftDelete, NoTraceBeforeInsert, BytesMatch,
            UnconfirmedHasNoTime, PolicyEndsInTime, SweptIsOverdue,
            VerifiedUntilOverdue, SweptStaysEmpty
  <2> QED
    BY <2>1, <2>2
<1>14. ASSUME NEW s \in Sweeps, SweepFails(s)
      PROVE  IInv'
  BY <1>14 DEF SweepFails, NoTraceBeforeInsert, BytesMatch,
          UnconfirmedHasNoTime, PolicyEndsInTime, SweptIsOverdue,
          VerifiedUntilOverdue, PromptConfirmKept, SweptStaysEmpty
<1>15. CASE Tick
  BY <1>15 DEF Tick, NoTraceBeforeInsert, BytesMatch, UnconfirmedHasNoTime,
          PolicyEndsInTime, SweptIsOverdue, VerifiedUntilOverdue,
          PromptConfirmKept, SweptStaysEmpty
<1>16. CASE UNCHANGED vars
  BY <1>16 DEF vars, NoTraceBeforeInsert, BytesMatch, UnconfirmedHasNoTime,
          PolicyEndsInTime, SweptIsOverdue, VerifiedUntilOverdue,
          PromptConfirmKept, SweptStaysEmpty
<1> QED
  BY <1>1, <1>2, <1>3, <1>4, <1>5, <1>6, <1>7, <1>8, <1>9, <1>10, <1>11,
     <1>12, <1>13, <1>14, <1>15, <1>16
     DEF Next, Api, SweepStep

-----------------------------------------------------------------------------
(***************************************************************************)
(* The theorems.                                                           *)
(***************************************************************************)
\* The state always has its shape.
THEOREM TypeCorrect == Spec => []TypeOK
<1>1. Init => TypeOK
  BY ConstantsAssumption DEF Init, TypeOK, Status, Steps
<1> QED
  BY <1>1, TypeStep, PTL DEF Spec

\* The inductive invariant holds of every reachable state.
THEOREM Invariance == Spec => []IInv
<1>1. Init => IInv
  BY ConstantsAssumption
  DEF Init, IInv, TypeOK, Status, Steps, NoTraceBeforeInsert, BytesMatch,
      UnconfirmedHasNoTime, PolicyEndsInTime, SweptIsOverdue,
      VerifiedUntilOverdue, PromptConfirmKept, SweptStaysEmpty
<1> QED
  BY <1>1, InvStep, TypeStep, TypeCorrect, PTL DEF Spec

\* A file confirmed within PendingTtl of its reservation keeps its row and its
\* bytes until its owner deletes it (confirmUpload against the sweep).
THEOREM PromptConfirmIsSafe == Spec => []PromptConfirmKept
<1>1. IInv => PromptConfirmKept
  BY DEF IInv
<1> QED
  BY <1>1, Invariance, PTL

\* No bytes come back under the key of a swept reservation, provided that the
\* time-outs leave room (TtlAssumption).
THEOREM NoUploadAfterSweep == Spec => []SweptStaysEmpty
<1>1. IInv => SweptStaysEmpty
  BY DEF IInv
<1> QED
  BY <1>1, Invariance, PTL

\* Setting the status of an inserted row to deleted is a Discard or, when it is
\* deleted already, a stutter.
LEMMA DiscardOrStutter ==
  ASSUME TypeOK, NEW f \in Files, status[f] # "none",
         status' = [status EXCEPT ![f] = "deleted"]
  PROVE  [Lifecycle!Next]_status
<1>1. CASE status[f] = "deleted"
  <2>1. status' = status
    BY <1>1 DEF TypeOK
  <2> QED
    BY <2>1
<1>2. CASE status[f] # "deleted"
  <2>1. status[f] \in {"pending", "ready"}
    BY <1>2 DEF TypeOK, Status
  <2>2. Lifecycle!Discard(f)
    BY <2>1 DEF Lifecycle!Discard, Lifecycle!Move
  <2> QED
    BY <2>2 DEF Lifecycle!Next
<1> QED
  BY <1>1, <1>2

\* The handlers and the sweep implement the promised life of a row: every step
\* of the system is a Reserve, Confirm or Discard of one row, or changes none.
THEOREM Refinement == Spec => FollowsLifecycle
<1>1. Init => Lifecycle!Init
  BY DEF Init, Lifecycle!Init
<1>2. IInv /\ [Next]_vars => [Lifecycle!Next]_status
  <2> SUFFICES ASSUME IInv, [Next]_vars PROVE [Lifecycle!Next]_status
    OBVIOUS
  <2> USE ConstantsAssumption
      DEF IInv, TypeOK, Status, NoTraceBeforeInsert, rows,
          Lifecycle!Next, Lifecycle!Move
  <2>1. ASSUME NEW r \in Requests, NEW f \in Files, NEW n \in Sizes, ReserveRow(r, f, n)
        PROVE  [Lifecycle!Next]_status
    BY <2>1 DEF ReserveRow, Lifecycle!Reserve
  <2>2. ASSUME NEW r \in Requests, Presign(r)
        PROVE  [Lifecycle!Next]_status
    BY <2>2 DEF Presign
  <2>3. ASSUME NEW r \in Requests, NEW f \in Files, ConfirmRead(r, f)
        PROVE  [Lifecycle!Next]_status
    BY <2>3 DEF ConfirmRead
  <2>4. ASSUME NEW r \in Requests, ConfirmStat(r)
        PROVE  [Lifecycle!Next]_status
    BY <2>4 DEF ConfirmStat
  <2>5. ASSUME NEW r \in Requests, ConfirmMarkReady(r)
        PROVE  [Lifecycle!Next]_status
    BY <2>5 DEF ConfirmMarkReady, Lifecycle!Confirm
  <2>6. ASSUME NEW r \in Requests, NEW f \in Files, DeleteRead(r, f)
        PROVE  [Lifecycle!Next]_status
    BY <2>6 DEF DeleteRead
  <2>7. ASSUME NEW r \in Requests, DeleteWrite(r)
        PROVE  [Lifecycle!Next]_status
    <3>1. arg[r] \in Files /\ status[arg[r]] # "none"
      BY <2>7 DEF DeleteWrite
    <3> QED
      BY <2>7, <3>1, DiscardOrStutter DEF DeleteWrite
  <2>8. ASSUME NEW r \in Requests, RequestFails(r)
        PROVE  [Lifecycle!Next]_status
    BY <2>8 DEF RequestFails
  <2>9. ASSUME NEW f \in Files, NEW n \in Sizes, BeginUpload(f, n)
        PROVE  [Lifecycle!Next]_status
    BY <2>9 DEF BeginUpload
  <2>10. ASSUME NEW f \in Files, EndUpload(f)
        PROVE  [Lifecycle!Next]_status
    BY <2>10 DEF EndUpload
  <2>11. ASSUME NEW s \in Sweeps, SweepFind(s)
        PROVE  [Lifecycle!Next]_status
    BY <2>11 DEF SweepFind
  <2>12. ASSUME NEW s \in Sweeps, NEW f \in Files, SweepRemove(s, f)
        PROVE  [Lifecycle!Next]_status
    BY <2>12 DEF SweepRemove
  <2>13. ASSUME NEW s \in Sweeps, SweepSoftDelete(s)
        PROVE  [Lifecycle!Next]_status
    <3>1. cur[s] \in Files /\ status[cur[s]] # "none"
      BY <2>13 DEF SweepSoftDelete
    <3> QED
      BY <2>13, <3>1, DiscardOrStutter DEF SweepSoftDelete
  <2>14. ASSUME NEW s \in Sweeps, SweepFails(s)
        PROVE  [Lifecycle!Next]_status
    BY <2>14 DEF SweepFails
  <2>15. CASE Tick
    BY <2>15 DEF Tick
  <2>16. CASE UNCHANGED vars
    BY <2>16 DEF vars
  <2> QED
    BY <2>1, <2>2, <2>3, <2>4, <2>5, <2>6, <2>7, <2>8, <2>9, <2>10, <2>11,
       <2>12, <2>13, <2>14, <2>15, <2>16
       DEF Next, Api, SweepStep
<1> QED
  BY <1>1, <1>2, Invariance, PTL DEF Spec, FollowsLifecycle, Lifecycle!Spec
=============================================================================
