---------------------------- MODULE MCSearchCache ----------------------------
(***************************************************************************)
(* A small instance of SearchCache.                                        *)
(***************************************************************************)
EXTENDS SearchCache
=============================================================================
