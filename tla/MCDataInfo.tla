----------------------------- MODULE MCDataInfo -----------------------------
(* Instances of DataInfo for TLC. *)
EXTENDS DataInfo, TLC

Symmetry == Permutations(Params) \cup Permutations(Apps)
=============================================================================
