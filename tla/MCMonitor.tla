----------------------------- MODULE MCMonitor ------------------------------
(***************************************************************************)
(* Instances of Monitor for TLC.  Workers and hosts are interchangeable.   *)
(***************************************************************************)
EXTENDS Monitor, TLC

Symmetry == Permutations(Workers) \union Permutations(Hosts)

=============================================================================
