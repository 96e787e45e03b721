----------------------------- MODULE MCJobLists -----------------------------
(* Instances of JobLists for TLC. *)
EXTENDS JobLists
=============================================================================
