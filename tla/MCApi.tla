--------------------------------- MODULE MCApi ---------------------------------
(***************************************************************************)
(* Api for TLC.                                                            *)
(***************************************************************************)
EXTENDS Api, TLC

ContentSymmetry == Permutations(Content)
===============================================================================
