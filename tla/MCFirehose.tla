----------------------------- MODULE MCFirehose -----------------------------
(***************************************************************************)
(* Instances of Firehose for TLC.  Connections and workers are             *)
(* interchangeable, so safety runs use both as symmetry sets.              *)
(***************************************************************************)
EXTENDS Firehose, TLC

Symmetry == Permutations(Clients) \union Permutations(Workers)

=============================================================================
