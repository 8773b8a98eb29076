---------------------------- MODULE MCFeedViewer ----------------------------
(***************************************************************************)
(* Instances of FeedViewer for TLC: a job card of every shape, an update   *)
(* of a post, a deletion, an identity event, and two events that could not *)
(* be stored, whose numbers are missing and another event's.  Sockets are  *)
(* interchangeable.                                                        *)
(***************************************************************************)
EXTENDS FeedViewer, TLC

Commit(action, collection, record) ==
  [kind |-> "commit", blocks |-> TRUE,
   ops |-> <<[action |-> action, path |-> [collection |-> collection, key |-> TRUE],
              record |-> record]>>]

Post == [text |-> "string"]

\* The required fields and any of the optional ones.
Cards ==
  LET required == {"taskType", "description"}
      optional == ToSet(CardOrder) \ required
  IN  {[f \in required \union others |-> IF f = "pricing.amount" THEN amount ELSE "string"] :
         others \in SUBSET optional, amount \in {"float64", "uint64", "int64"}}

AnyCard ==
  {<<Commit("create", "jobCard", card), Commit("update", "post", Post),
     Commit("delete", "post", NoRecord),
     [kind |-> "identity", blocks |-> FALSE, ops |-> <<>>]>> : card \in Cards}

TwoUnstored ==
  {[seq |-> 0, event |-> Commit("create", "post", Post)],
   [seq |-> 4, event |-> Commit("create", "follow", [subject |-> "string"])]}

Symmetry == Permutations(Sockets)

=============================================================================
