----------------------------- MODULE MCStorage ------------------------------
(***************************************************************************)
(* Instances of Storage for TLC.  Workers and hosts are interchangeable.   *)
(***************************************************************************)
EXTENDS Storage, TLC

Symmetry == Permutations(Workers) \union Permutations(Hosts)

=============================================================================
