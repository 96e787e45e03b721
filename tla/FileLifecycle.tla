--------------------------- MODULE FileLifecycle ---------------------------
(***************************************************************************)
(* What the platform promises about the life of one row of the files       *)
(* table, whoever acts on it: a row is reserved, confirmed at most once    *)
(* and only while it is reserved, and discarded for good.  It is the       *)
(* FileStatus state machine of packages/types/src/enums.ts, written as a   *)
(* specification that the handlers and sweeps are shown to implement.      *)
(***************************************************************************)
CONSTANT Files        \* ids of rows that may ever be inserted

VARIABLE status

Status == {"none", "pending", "ready", "deleted"}

Init == status = [f \in Files |-> "none"]

\* A row moves from one of the statuses `from` to the status `to`; the
\* others stay as they are.
Move(f, from, to) ==
  /\ status[f] \in from
  /\ status' = [status EXCEPT ![f] = to]

Reserve(f) == Move(f, {"none"}, "pending")

Confirm(f) == Move(f, {"pending"}, "ready")

Discard(f) == Move(f, {"pending", "ready"}, "deleted")

Next == \E f \in Files : Reserve(f) \/ Confirm(f) \/ Discard(f)

Spec == Init /\ [][Next]_status
=============================================================================
