---------------------------- MODULE MCIndexJobs ----------------------------
(***************************************************************************)
(* Small instances of IndexJobs.                                           *)
(***************************************************************************)
EXTENDS IndexJobs, TLC

CONSTANTS s1, s2, w1

OneWorker == s1 :> w1 @@ s2 :> w1

FourIds == 1..4
TenIds  == 1..10

Symmetry == Permutations(Articles) \cup Permutations(Slots)
=============================================================================
