---------------------------- MODULE MCIndexingPath ----------------------------
(***************************************************************************)
(* Small instances of IndexingPath.                                        *)
(***************************************************************************)
EXTENDS IndexingPath, TLC

CONSTANTS s1, s2, w1

TwoTasks == (s1 :> w1) @@ (s2 :> w1)
ThreeTokens == 1..3
SomeIds == 1..5
===============================================================================
