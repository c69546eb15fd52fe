------------------------------- MODULE MCIngest --------------------------------
(***************************************************************************)
(* Ingest for TLC.  Blocks without INIT come in two interchangeable kinds. *)
(***************************************************************************)
EXTENDS Ingest, TLC

ContentSymmetry == Permutations(Content)
===============================================================================
