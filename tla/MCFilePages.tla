---------------------------- MODULE MCFilePages -----------------------------
(* Instances of FilePages for TLC. *)
EXTENDS FilePages
=============================================================================
