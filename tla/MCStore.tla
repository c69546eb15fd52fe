-------------------------------- MODULE MCStore --------------------------------
(***************************************************************************)
(* Store for TLC.                                                          *)
(***************************************************************************)
EXTENDS Store, TLC

StoreSymmetry ==
    Permutations(Writer) \cup Permutations(Content) \cup Permutations(Deployment) \cup Permutations(Release)
================================================================================
