------------------------------ MODULE Messages ------------------------------
(***************************************************************************)
(* What a subscriber of the relay receives.  The field via stands for the  *)
(* parts of the JSON that differ: a replayed message has no host and       *)
(* claims the action "create"; a raw one carries the upstream server's     *)
(* sequence number because the database gave none.                         *)
(***************************************************************************)
EXTENDS Integers

Message == [seq : Nat, via : {"live", "raw", "replay"}]

Live(s)     == [seq |-> s, via |-> "live"]
Raw(p)      == [seq |-> p, via |-> "raw"]
Replayed(s) == [seq |-> s, via |-> "replay"]

=============================================================================
