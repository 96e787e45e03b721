----------------------------- MODULE MCSessions -----------------------------
(* Instances of Sessions for TLC. *)
EXTENDS Sessions, TLC

CONSTANTS t1, t2, b1, b2

\* Two browsers with a tab each; two tabs of one browser; one tab.
TwoBrowsers == t1 :> b1 @@ t2 :> b2
OneBrowser  == t1 :> b1 @@ t2 :> b1
OneTab      == t1 :> b1

\* Slots are interchangeable, and so are the two browsers with their tabs; sound
\* for the safety runs with TwoBrowsers only.
Swap == t1 :> t2 @@ t2 :> t1 @@ b1 :> b2 @@ b2 :> b1
Symmetry == Permutations(Requests) \cup {Swap}
=============================================================================
