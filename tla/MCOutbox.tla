------------------------------ MODULE MCOutbox ------------------------------
(***************************************************************************)
(* Small instances of Outbox.                                              *)
(***************************************************************************)
EXTENDS Outbox, TLC

FourTokens == 1..4
FiveTokens == 1..5
Symmetry == Permutations(Dispatchers) \cup Permutations(Articles)
=============================================================================
