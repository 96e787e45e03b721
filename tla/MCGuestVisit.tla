---------------------------- MODULE MCGuestVisit ----------------------------
(* Instances of GuestVisit for TLC. *)
EXTENDS GuestVisit
=============================================================================
