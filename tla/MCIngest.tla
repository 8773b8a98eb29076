------------------------------ MODULE MCIngest ------------------------------
(***************************************************************************)
(* Instances of Ingest for TLC.  Workers are interchangeable; so are hosts *)
(* when all or none of them are configured.                                *)
(***************************************************************************)
EXTENDS Ingest, TLC

Symmetry == Permutations(Workers)

=============================================================================
