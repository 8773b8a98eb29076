------------------------------ MODULE MCRelay -------------------------------
(***************************************************************************)
(* Instances of Relay for TLC.  Raw messages are left to Firehose: their   *)
(* numbers mean nothing beside those of the rows, so PdsSeqs is empty.     *)
(***************************************************************************)
EXTENDS Relay

=============================================================================
