---------------------------- MODULE MCRebuildIndex ----------------------------
(***************************************************************************)
(* Small instances of RebuildIndex.                                        *)
(***************************************************************************)
EXTENDS RebuildIndex
=============================================================================
