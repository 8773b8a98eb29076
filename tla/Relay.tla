-------------------------------- MODULE Relay --------------------------------
(***************************************************************************)
(* The relay from end to end: an upstream event is received and stored     *)
(* (module Ingest, in full) and reaches a subscriber of the firehose       *)
(* (module Feed, which Firehose is shown to implement), across crashes and *)
(* restarts of the one process both live in.                               *)
(*                                                                         *)
(* The two meet in the events table: the INSERT an ingest worker begins    *)
(* draws a number from event_seq, and its commit is the commit of a row of *)
(* the feed.  Which event a row holds is kept in origin.                   *)
(***************************************************************************)
EXTENDS Feed

CONSTANTS
  Hosts, InitialHosts, Workers, BufferSize, SaveEvery, BaseDelay, MaxDelay,
  DbFails, MaxSeq, MaxRestarts  \* as in Ingest

VARIABLES
  (* as in Ingest *)
  log, stored, saved, restarts, dropped, unstored, from, base, life, cancelled,
  stop, chan, closed, phase, quit, cursor, position, delay, wpc, task,
  (* the events table *)
  lastSeq,  \* last number drawn from event_seq
  drawn,    \* the number each worker's INSERT has drawn
  origin    \* the event each row holds, and the life of the process that stored it

In == INSTANCE Ingest

ASSUME RelayConstants == In!IngestConstants

ASSUME FiniteWorkers == IsFiniteSet(Workers)

ingestVars ==
  <<log, stored, saved, restarts, dropped, unstored, from, base, life, cancelled,
    stop, chan, closed, phase, quit, cursor, position, delay, wpc, task>>
tableVars == <<lastSeq, drawn, origin>>

relayVars == <<vars, ingestVars, tableVars>>

NoOrigin == [host |-> "none", seq |-> 0, run |-> 0]

\* The first process finds an empty table.
RelayInit ==
  /\ Init /\ rows = {}
  /\ In!Init
  /\ lastSeq = 0
  /\ drawn = [w \in Workers |-> 0]
  /\ origin = [s \in Numbers |-> NoOrigin]

-----------------------------------------------------------------------------

\* Steps of one part that the other does not take part in.
IngestAlone ==
  /\ \/ \E h \in Hosts : In!Publish(h) \/ In!AddHost(h) \/ In!Client(h)
     \/ \E w \in Workers : In!TakeEvent(w) \/ In!SaveCursor(w) \/ In!WorkerEnds(w)
     \/ In!Stop \/ In!Exit
  /\ UNCHANGED <<vars, tableVars>>

FeedAlone ==
  /\ In!Up
  /\ \/ Announce \/ Withhold
     \/ \E c \in Clients : Join(c) \/ Leave(c) \/ Replay(c) \/ EndScan(c)
  /\ UNCHANGED <<ingestVars, tableVars>>

\* The event handler reaches StoreEvent, and if a statement is begun it draws
\* the next number.
BeginInsert(w) ==
  /\ In!HandleEvent(w)
  /\ IF cancelled
       THEN UNCHANGED <<lastSeq, drawn>>
       ELSE /\ lastSeq + 1 \in Numbers
            /\ lastSeq' = lastSeq + 1
            /\ drawn' = [drawn EXCEPT ![w] = lastSeq + 1]
  /\ UNCHANGED <<vars, origin>>

\* Both ends of a commit: the event has been stored, and the feed has its row.
CommitRow(w) ==
  /\ Commit
  /\ rows' = rows \union {drawn[w]}
  /\ origin' = [origin EXCEPT ![drawn[w]] =
       [host |-> task[w].host, seq |-> task[w].seq, run |-> restarts]]
  /\ UNCHANGED <<lastSeq, drawn>>

EndInsert(w) ==
  \/ In!InsertCommits(w) /\ CommitRow(w) /\ UNCHANGED orphaned
  \/ In!InsertUnanswered(w) /\ CommitRow(w) /\ orphaned' = orphaned \union {drawn[w]}
  \/ In!InsertFails(w) /\ UNCHANGED <<vars, tableVars>>

\* The process ends and is started again; the tables and event_seq are kept.
RestartRelay ==
  /\ In!Restart
  /\ Crash
  /\ drawn' = [w \in Workers |-> 0]
  /\ UNCHANGED <<lastSeq, origin>>

RelayNext ==
  \/ IngestAlone \/ FeedAlone \/ RestartRelay
  \/ \E w \in Workers : BeginInsert(w) \/ EndInsert(w)

RelaySpec == RelayInit /\ [][RelayNext]_relayVars

\* The fairness of both parts: of the feed it is only assumed that a row to be
\* announced is announced or withheld in the end, as the run loop does.
FairRelaySpec ==
  RelaySpec /\ In!Fairness /\ WF_relayVars(FeedAlone /\ (Announce \/ Withhold))

-----------------------------------------------------------------------------
(* Properties.                                                             *)

RowsOf(h, n) == {s \in rows : origin[s].host = h /\ origin[s].seq = n}

\* rows that one process made of events of one host
SameStream(s, t) == origin[s].host = origin[t].host /\ origin[s].run = origin[t].run

\* rows that hold earlier events than s does, and have got higher numbers
Overtaken(s) == {t \in rows : s < t /\ SameStream(s, t) /\ origin[t].seq < origin[s].seq}

\* While a process lives the relay numbers every event of a host at most once,
\* however often the connection breaks.  (A later process may store some of them
\* again.)  And it numbers them almost in the host's order: an event overtakes
\* fewer others than there are workers, with one worker none at all.
RowsFollowHost ==
  \A s \in rows :
    /\ \A t \in rows : SameStream(s, t) /\ origin[s].seq = origin[t].seq => s = t
    /\ Cardinality(Overtaken(s)) < Cardinality(Workers)

\* From end to end: once a subscriber that asked for everything has been replayed
\* to, it lacks no event that the relay was there to hear, up to a host's saved
\* cursor.  The event has reached it or is to be announced to it, or there is a record
\* of its loss: the relay reported it dropped or not stored on the way in, or its
\* announcement went past this subscriber while it was online.  A row whose process
\* died before broadcasting it is no exception: the replay delivers it.
NothingLostEndToEnd ==
  \A c \in Online : since[c] = 0 /\ scan[c] = "done" =>
    \A h \in Hosts : \A n \in log[h] : In!BelowCursor(h, n) =>
      \/ n \in dropped[h] \union unstored[h]
      \/ \E s \in RowsOf(h, n) : Accounted(c, s)

\* While the relay runs and a subscriber stays, an event that a host with a cursor
\* publishes reaches the subscriber in the end, or the relay records its loss.
EventsArrive ==
  \A c \in Clients, h \in Hosts, n \in 1..MaxSeq :
    (c \in Online /\ 0 < cursor[h] /\ cursor[h] < n /\ n \in log[h]) ~>
      \/ n \in dropped[h] \union unstored[h]
      \/ \E s \in RowsOf(h, n) : Has(c, s) \/ Lost(c, s)
      \/ c \notin Online \/ quit[h] \/ cancelled \/ cursor[h] = 0 \/ life # "up"

=============================================================================
