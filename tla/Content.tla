------------------------------- MODULE Content -------------------------------
(***************************************************************************)
(* What the relay says of an upstream event: what the PDS client takes out *)
(* of a commit (relay/internal/ingest/pds_client.go), what the events      *)
(* table keeps of that (relay/internal/storage/postgres.go), and what the  *)
(* live and the replayed message make of it                                *)
(* (relay/internal/firehose/server.go).                                    *)
(*                                                                         *)
(* A record is a function from its fields, nested ones by their path, to   *)
(* the Go type the decoder gives them, or "blank" for the empty string.    *)
(* A text is the sequence of its pieces, a piece the sequence of its words *)
(* and of the fields whose values stand in it; the empty text is <<>>.     *)
(***************************************************************************)
EXTENDS Integers, Sequences

\* The type cbor.Unmarshal gives a map inside a map[string]interface{}.
ByString == "map[string]interface{}"
Nested   == "map[interface{}]interface{}"

Is(record, field, types) == field \in DOMAIN record /\ record[field] \in types

IsText(record, field) == Is(record, field, {"string", "blank"})
Text(record, field)   == IF record[field] = "blank" THEN <<>> ELSE <<<<field>>>>

Piece(said, words) == IF said THEN <<words>> ELSE <<>>

-----------------------------------------------------------------------------
(* extractRecordContent.                                                   *)

FloatOnly   == {"float64"}
AmountTypes == IF Nested = ByString THEN {"float64"} ELSE {"float64", "uint64", "int64"}

Price(record) ==
  LET amount   == Is(record, "pricing.amount", AmountTypes)
      currency == IsText(record, "pricing.currency")
  IN  Piece(amount /\ currency, <<"Price", "pricing.amount", "pricing.currency">>)
        \o Piece(amount /\ ~currency, <<"Price", "pricing.amount">>)

Sla(record) ==
  LET terms == Piece(IsText(record, "sla.maxResponseTime"), "sla.maxResponseTime")
                 \o Piece(IsText(record, "sla.availability"), "sla.availability")
  IN  Piece(terms # <<>>, <<"SLA">> \o terms)

\* [Job Card - taskType] description | Type: ... | Price: ... | Deadline: ... | SLA: ...
JobCard(record) ==
  LET typed == IsText(record, "taskType")
  IN  <<IF typed THEN <<"Job Card", "taskType">> ELSE <<"Job Card">>>>
        \o Piece(IsText(record, "description"), <<"description">>)
        \o Piece(typed, <<"Type", "taskType">>)
        \o Price(record)
        \o Piece(IsText(record, "deadline"), <<"Deadline", "deadline">>)
        \o Sla(record)

\* The subject of a like or a repost is looked up in a map with string keys only.
Subject(record, word) ==
  Piece(Nested = ByString /\ IsText(record, "subject.uri"), <<word, "subject.uri">>)

RecordContent(record, type) ==
  CASE type = "post" /\ IsText(record, "text") -> Text(record, "text")
    [] type = "like"   -> Subject(record, "Liked")
    [] type = "repost" -> Subject(record, "Reposted")
    [] type = "follow" -> Piece(IsText(record, "subject"), <<"Followed", "subject">>)
    [] type = "profile" /\ IsText(record, "displayName") -> Text(record, "displayName")
    [] type = "profile" /\ ~IsText(record, "displayName") /\ IsText(record, "description") ->
         Text(record, "description")
    [] type = "jobCard" -> JobCard(record)
    [] OTHER -> <<>>

-----------------------------------------------------------------------------
(* handleRepoStreamEvent.  An upstream event has a kind; a commit also has *)
(* its operations, and blocks unless it was too big.  An operation has an  *)
(* action, a path of a collection and a key, and the record it leaves, if  *)
(* it leaves one and the blocks let it be read.                            *)

NoRecord == [none |-> "blank"]

\* What comes before the path's first slash.
TypeOf(path) == IF path.key THEN path.collection ELSE ""

NoPath == [collection |-> "", key |-> FALSE]

Leaves(op) == op.action \in {"create", "update"} /\ op.record # NoRecord

\* Of a commit only the first operation is looked at.
Extracted(upstream) ==
  IF upstream.kind = "commit" /\ upstream.ops # <<>> /\ upstream.blocks
    THEN LET op == Head(upstream.ops) IN
         [type |-> upstream.kind, path |-> op.path, action |-> op.action,
          record_type |-> TypeOf(op.path),
          content |-> IF Leaves(op) THEN RecordContent(op.record, TypeOf(op.path)) ELSE <<>>]
    ELSE [type |-> upstream.kind, path |-> NoPath, action |-> "", record_type |-> "",
          content |-> <<>>]

\* Which kinds become an event at all.
IsEvent(upstream) == upstream.kind \in {"commit", "identity", "account", "sync"}

-----------------------------------------------------------------------------
(* The messages, and the row between them.                                 *)

\* BroadcastWithSeq and eventToMessage
LiveMessage(n, event) ==
  [seq |-> n, type |-> event.type, record_type |-> event.record_type,
   action |-> event.action, content |-> event.content]

\* InsertEvent keeps neither the action nor the record type.
Row(event) == [type |-> event.type, path |-> event.path, content |-> event.content]

\* replayFromCursor: the record type again from the path, and "Historical events
\* are creates"
RowTypeUnknown(row) == ""
RowType(row)        == IF row.path.key THEN row.path.collection ELSE ""

ReplayedMessage(n, row) ==
  [seq |-> n, type |-> row.type, record_type |-> RowType(row),
   action |-> "create", content |-> row.content]

=============================================================================
