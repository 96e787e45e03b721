--------------------------- MODULE MCJobPipeline ---------------------------
(* Instances of JobPipeline for TLC. *)
EXTENDS JobPipeline, TLC

\* Slots and ids are interchangeable; sound for the safety runs only.
Symmetry ==
  UNION {Permutations(S) : S \in {Jobs, Inputs, Outputs, Runs, Clients, Sweeps}}
=============================================================================
