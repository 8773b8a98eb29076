------------------------------ MODULE Firehose ------------------------------
(***************************************************************************)
(* The outbound half of the relay (relay/internal/firehose/server.go) with *)
(* the ingest workers that feed it (the event handler in                   *)
(* relay/cmd/relay/main.go) and the event table it replays from            *)
(* (relay/internal/storage/postgres.go), in the deployment that runs with  *)
(* a database (relay.service starts the relay with --db).                  *)
(*                                                                         *)
(* Goroutines: the ingest workers, the server's run loop, and for every    *)
(* subscriber its HTTP handler, writePump, readPump and, when it asked for *)
(* a cursor, replayFromCursor.  They share the broadcast channel, the map  *)
(* of clients and each client's send channel.  One action below is one     *)
(* channel operation, one statement the database executes, or one critical *)
(* section under Server.mu together with the local steps around it.        *)
(*                                                                         *)
(* Channels are kept as a history and an index: what was ever sent into    *)
(* the channel, and how many messages its receiver has taken.              *)
(***************************************************************************)
EXTENDS Messages, FiniteSets, Sequences

CONSTANTS
  Clients,      \* subscriber connections; an id is never used twice (Server.nextID)
  Workers,      \* ingest workers, each running the event handler
  NoCursor,     \* the request had no cursor parameter
  Cursors,      \* cursor values a subscriber may ask for
  PdsSeqs,      \* sequence numbers the upstream servers put on their own events
  BroadcastCap, \* capacity of Server.broadcast, 1000 in the code
  SendCap,      \* capacity of Client.send, 256 in the code
  BatchSize,    \* rows per replay query, 100 in the code
  MaxEvents     \* bound: events there are and faults of the database, see WithinBound

ASSUME FirehoseConstants ==
  /\ IsFiniteSet(Workers)
  /\ NoCursor \notin Int
  /\ Cursors \subseteq Int
  /\ PdsSeqs \subseteq Nat \ {0} /\ PdsSeqs # {}
  /\ BroadcastCap \in Nat \ {0}
  /\ SendCap \in Nat \ {0}
  /\ BatchSize \in Nat \ {0}
  /\ MaxEvents \in Nat

VARIABLES
  (* the event table and its sequence *)
  lastSeq,      \* last value drawn from event_seq
  stored,       \* sequence numbers of the committed rows
  orphaned,     \* those that are never broadcast with their number: earlier processes
                \* left them, or their INSERT was reported to have failed
  (* the workers *)
  eventCount,   \* events so far, those of earlier processes included, and faults so far
  wpc,          \* what each worker does next
  wseq,         \* the sequence number the worker's INSERT has drawn
  (* the server *)
  published,    \* messages ever accepted by the broadcast channel
  dispatched,   \* how many of them the run loop has taken
  shed,         \* messages the full broadcast channel refused
  clients,      \* keys of Server.clients
  clientCount,  \* Server.clientCount
  running,      \* the run loop has not returned
  stop,         \* progress of Server.Stop
  panic,        \* which goroutine, if any, brought the process down
  (* the subscribers *)
  handler,      \* progress of the HTTP handler
  cursor,       \* the cursor the request asked for
  conn,         \* the connection is open on the server's side
  sent,         \* messages ever accepted by the client's send channel
  taken,        \* how many of them writePump has taken
  closed,       \* the send channel is closed
  dropped,      \* live messages that went past the client while it was in the map
  writer,       \* progress of writePump
  reader,       \* progress of readPump
  replay,       \* progress of replayFromCursor
  position,     \* its currentCursor
  batch,        \* rows of the query at hand not yet sent
  lastBatch     \* that query returned fewer than BatchSize rows

storeVars  == <<lastSeq, stored, orphaned>>
workVars   == <<eventCount, wpc, wseq>>
queueVars  == <<published, dispatched, shed>>
rosterVars == <<clients, clientCount>>
stopVars   == <<running, stop>>
pumpVars   == <<writer, reader>>
sendVars   == <<sent, taken, closed, dropped>>
replayVars == <<replay, position, batch, lastBatch>>

vars == <<storeVars, workVars, queueVars, rosterVars, stopVars, panic,
          handler, cursor, conn, sendVars, pumpVars, replayVars>>

-----------------------------------------------------------------------------
\* messages waiting in the broadcast channel, and in a client's send channel
Waiting     == Len(published) - dispatched
Buffered(c) == Len(sent[c]) - taken[c]

\* no room in c's send channel: a select with a default case skips the message
FullOffByOne(c) == Buffered(c) > SendCap
Full(c)         == Buffered(c) >= SendCap

\* the messages writePump has written to the connection without an error
Delivered(c) == IF writer[c] = "failed" THEN taken[c] - 1 ELSE taken[c]

\* A panic in any goroutine ends the process; every action needs it alive.
Alive == panic = "no"

\* The table holds what earlier processes have left; of it this one knows nothing.
Init ==
  /\ lastSeq \in 0..MaxEvents
  /\ stored \in SUBSET (1..lastSeq)
  /\ orphaned = stored
  /\ eventCount = lastSeq
  /\ wpc = [w \in Workers |-> "idle"]
  /\ wseq = [w \in Workers |-> 0]
  /\ published = <<>>
  /\ dispatched = 0
  /\ shed = {}
  /\ clients = {}
  /\ clientCount = 0
  /\ running = TRUE
  /\ stop = "no"
  /\ panic = "no"
  /\ handler = [c \in Clients |-> "none"]
  /\ cursor = [c \in Clients |-> NoCursor]
  /\ conn = [c \in Clients |-> FALSE]
  /\ sent = [c \in Clients |-> <<>>]
  /\ taken = [c \in Clients |-> 0]
  /\ closed = [c \in Clients |-> FALSE]
  /\ dropped = [c \in Clients |-> {}]
  /\ writer = [c \in Clients |-> "none"]
  /\ reader = [c \in Clients |-> "none"]
  /\ replay = [c \in Clients |-> "none"]
  /\ position = [c \in Clients |-> 0]
  /\ batch = [c \in Clients |-> {}]
  /\ lastBatch = [c \in Clients |-> FALSE]

-----------------------------------------------------------------------------
(* The event handler, run by every worker.                                 *)

\* Bound on the behaviours: an event counts once, and once more if the database
\* lets it down.
WithinBound == eventCount < MaxEvents

\* The message m goes past every client in the map.
GoesPast(m) ==
  dropped' = [c \in Clients |-> IF c \in clients THEN dropped[c] \union {m} ELSE dropped[c]]

\* nextval of event_seq
NextSeqFromBlock == IF lastSeq = 0 THEN MaxEvents ELSE lastSeq - 1
NextSeq          == lastSeq + 1

\* The handler reaches StoreEvent: the INSERT draws a number from event_seq,
\* or the host's row cannot be found or made and no number is drawn.  Server.Stop
\* comes after the workers have ended.
StoreEvent(w) ==
  /\ Alive
  /\ wpc[w] = "idle"
  /\ stop = "no"
  /\ WithinBound
  /\ \/ /\ eventCount' = eventCount + 1
        /\ lastSeq' = NextSeq
        /\ wseq' = [wseq EXCEPT ![w] = NextSeq]
        /\ wpc' = [wpc EXCEPT ![w] = "insert"]
     \/ /\ eventCount' = eventCount + 2
        /\ wpc' = [wpc EXCEPT ![w] = "unsaved"]
        /\ UNCHANGED <<lastSeq, wseq>>
  /\ UNCHANGED <<stored, orphaned, queueVars, rosterVars, stopVars, panic,
                 handler, cursor, conn, sendVars, pumpVars, replayVars>>

\* The INSERT commits and the row becomes visible; or it fails and its number is
\* used up for nothing; or it commits and the answer is lost, so that the handler
\* takes it for a failure and nobody who is connected hears of the row.
FinishInsert(w) ==
  /\ Alive
  /\ wpc[w] = "insert"
  /\ \/ /\ stored' = stored \union {wseq[w]}
        /\ wpc' = [wpc EXCEPT ![w] = "saved"]
        /\ UNCHANGED <<eventCount, orphaned, dropped>>
     \/ /\ WithinBound
        /\ eventCount' = eventCount + 1
        /\ wpc' = [wpc EXCEPT ![w] = "unsaved"]
        /\ UNCHANGED <<stored, orphaned, dropped>>
     \/ /\ WithinBound
        /\ eventCount' = eventCount + 1
        /\ stored' = stored \union {wseq[w]}
        /\ orphaned' = orphaned \union {wseq[w]}
        /\ GoesPast(Live(wseq[w]))
        /\ wpc' = [wpc EXCEPT ![w] = "unsaved"]
  /\ UNCHANGED <<lastSeq, wseq, queueVars, rosterVars, stopVars, panic, handler,
                 cursor, conn, sent, taken, closed, pumpVars, replayVars>>

\* select { case s.broadcast <- msg: default: drop }
OfferTwice(m) ==
  IF Waiting < BroadcastCap
    THEN /\ published' = Append(Append(published, m), m)
         /\ UNCHANGED <<shed, dropped>>
    ELSE /\ shed' = shed \union {m}
         /\ GoesPast(m)
         /\ UNCHANGED published

Offer(m) ==
  IF Waiting < BroadcastCap
    THEN /\ published' = Append(published, m)
         /\ UNCHANGED <<shed, dropped>>
    ELSE /\ shed' = shed \union {m}
         /\ GoesPast(m)
         /\ UNCHANGED published

\* seq > 0: the event goes out with its database sequence number.
BroadcastWithSeq(w) ==
  /\ Alive
  /\ wpc[w] = "saved"
  /\ Offer(Live(wseq[w]))
  /\ wpc' = [wpc EXCEPT ![w] = "idle"]
  /\ UNCHANGED <<storeVars, eventCount, wseq, dispatched, rosterVars, stopVars, panic,
                 handler, cursor, conn, sent, taken, closed, pumpVars, replayVars>>

\* seq = 0: the event goes out with the number its own server gave it.
Broadcast(w) ==
  /\ Alive
  /\ wpc[w] = "unsaved"
  /\ \E p \in PdsSeqs : Offer(Raw(p))
  /\ wpc' = [wpc EXCEPT ![w] = "idle"]
  /\ UNCHANGED <<storeVars, eventCount, wseq, dispatched, rosterVars, stopVars, panic,
                 handler, cursor, conn, sent, taken, closed, pumpVars, replayVars>>

-----------------------------------------------------------------------------
(* The HTTP handler of the subscription endpoint.                          *)

\* The upgrade succeeds and the handler blocks on the register channel.  It
\* may do so at any time, also while and after the server stops.
Connect(c) ==
  /\ Alive
  /\ handler[c] = "none"
  /\ handler' = [handler EXCEPT ![c] = "registering"]
  /\ \E k \in Cursors \union {NoCursor} : cursor' = [cursor EXCEPT ![c] = k]
  /\ conn' = [conn EXCEPT ![c] = TRUE]
  /\ UNCHANGED <<storeVars, workVars, queueVars, rosterVars, stopVars, panic,
                 sendVars, pumpVars, replayVars>>

\* Once registered it starts the pumps, and the replay if a cursor was given.
StartPumps(c) ==
  /\ Alive
  /\ handler[c] = "registered"
  /\ handler' = [handler EXCEPT ![c] = "served"]
  /\ writer' = [writer EXCEPT ![c] = "running"]
  /\ reader' = [reader EXCEPT ![c] = "running"]
  /\ IF cursor[c] # NoCursor
       THEN /\ replay' = [replay EXCEPT ![c] = "query"]
            /\ position' = [position EXCEPT ![c] = cursor[c]]
       ELSE UNCHANGED <<replay, position>>
  /\ UNCHANGED <<storeVars, workVars, queueVars, rosterVars, stopVars, panic,
                 cursor, conn, sendVars, batch, lastBatch>>

-----------------------------------------------------------------------------
(* The run loop: one case of its select at a time.                         *)

Register(c) ==
  /\ Alive
  /\ running
  /\ handler[c] = "registering"
  /\ handler' = [handler EXCEPT ![c] = "registered"]
  /\ clients' = clients \union {c}
  /\ clientCount' = clientCount + 1
  /\ UNCHANGED <<storeVars, workVars, queueVars, stopVars, panic, cursor, conn,
                 sendVars, pumpVars, replayVars>>

\* A client that is still in the map leaves it and its send channel is
\* closed; closing a closed channel panics.
ForgetKeepingKey(c) ==
  /\ clientCount' = clientCount - 1
  /\ closed' = [closed EXCEPT ![c] = TRUE]
  /\ panic' = IF closed[c] THEN "close" ELSE panic
  /\ UNCHANGED clients

ForgetKeepingCount(c) ==
  /\ clients' = clients \ {c}
  /\ closed' = [closed EXCEPT ![c] = TRUE]
  /\ panic' = IF closed[c] THEN "close" ELSE panic
  /\ UNCHANGED clientCount

Forget(c) ==
  /\ clients' = clients \ {c}
  /\ clientCount' = clientCount - 1
  /\ closed' = [closed EXCEPT ![c] = TRUE]
  /\ panic' = IF closed[c] THEN "close" ELSE panic

Unregister(c) ==
  /\ Alive
  /\ running
  /\ reader[c] = "leaving"
  /\ reader' = [reader EXCEPT ![c] = "released"]
  /\ IF c \in clients
       THEN Forget(c)
       ELSE UNCHANGED <<clients, clientCount, closed, panic>>
  /\ UNCHANGED <<storeVars, workVars, queueVars, stopVars, handler, cursor,
                 conn, sent, taken, dropped, writer, replayVars>>

\* One message to every client in the map, skipping those whose channel is
\* full; a send to a closed channel panics.  The sends to different clients
\* are independent, so the loop over the map is one step.
Dispatch ==
  /\ Alive
  /\ running
  /\ Waiting > 0
  /\ dispatched' = dispatched + 1
  /\ LET m == published[dispatched + 1]
     IN  /\ sent' = [c \in Clients |->
              IF c \in clients /\ ~Full(c)
                THEN Append(sent[c], m) ELSE sent[c]]
         /\ dropped' = [c \in Clients |->
              IF c \in clients /\ Full(c)
                THEN dropped[c] \union {m} ELSE dropped[c]]
  /\ panic' = IF \E c \in clients : closed[c] THEN "dispatch" ELSE panic
  /\ UNCHANGED <<storeVars, workVars, published, shed, rosterVars, stopVars,
                 handler, cursor, conn, taken, closed, pumpVars, replayVars>>

\* case <-s.ctx.Done()
CancelledTooSoon == TRUE
Cancelled        == stop # "no"

ExitLoop ==
  /\ Alive
  /\ running
  /\ Cancelled
  /\ running' = FALSE
  /\ UNCHANGED <<storeVars, workVars, queueVars, rosterVars, stop, panic,
                 handler, cursor, conn, sendVars, pumpVars, replayVars>>

-----------------------------------------------------------------------------
(* Server.Stop, called by main after every worker has ended.               *)

StopCancel ==
  /\ Alive
  /\ stop = "no"
  /\ \A w \in Workers : wpc[w] = "idle"
  /\ stop' = "cancelled"
  /\ UNCHANGED <<storeVars, workVars, queueVars, rosterVars, running, panic,
                 handler, cursor, conn, sendVars, pumpVars, replayVars>>

StopCloseConns ==
  /\ Alive
  /\ stop = "cancelled"
  /\ stop' = "done"
  /\ conn' = [c \in Clients |-> conn[c] /\ c \notin clients]
  /\ UNCHANGED <<storeVars, workVars, queueVars, rosterVars, running, panic,
                 handler, cursor, sendVars, pumpVars, replayVars>>

-----------------------------------------------------------------------------
(* writePump.                                                              *)

CanWriteAllButLast(c) == writer[c] = "running" /\ conn[c] /\ Buffered(c) > 1
CanWrite(c)           == writer[c] = "running" /\ conn[c] /\ Buffered(c) > 0

WriteMessage(c) ==
  /\ Alive
  /\ CanWrite(c)
  /\ taken' = [taken EXCEPT ![c] = @ + 1]
  /\ UNCHANGED <<storeVars, workVars, queueVars, rosterVars, stopVars, panic,
                 handler, cursor, conn, sent, closed, dropped, pumpVars,
                 replayVars>>

\* writePump's deferred calls: the connection is closed however it ends.
EndWriterLeavingConn(c, how) == writer' = [writer EXCEPT ![c] = how] /\ UNCHANGED conn

EndWriter(c, how) ==
  /\ writer' = [writer EXCEPT ![c] = how]
  /\ conn' = [conn EXCEPT ![c] = FALSE]

\* The peer is gone or too slow: the write of a message fails, or a ping does.
WriteFails(c) ==
  /\ Alive
  /\ writer[c] = "running"
  /\ \/ /\ Buffered(c) > 0
        /\ taken' = [taken EXCEPT ![c] = @ + 1]
        /\ EndWriter(c, "failed")
     \/ /\ EndWriter(c, "done")
        /\ UNCHANGED taken
  /\ UNCHANGED <<storeVars, workVars, queueVars, rosterVars, stopVars, panic,
                 handler, cursor, sent, closed, dropped, reader, replayVars>>

\* The channel is closed and empty: a close frame, and the pump ends.
WriteClose(c) ==
  /\ Alive
  /\ writer[c] = "running"
  /\ closed[c]
  /\ Buffered(c) = 0
  /\ EndWriter(c, "done")
  /\ UNCHANGED <<storeVars, workVars, queueVars, rosterVars, stopVars, panic,
                 handler, cursor, sendVars, reader, replayVars>>

-----------------------------------------------------------------------------
(* readPump.                                                               *)

\* ReadMessage fails: the peer left, its pongs stopped, or the connection was
\* closed on this side.  The pump then blocks on the unregister channel.
ReadFails(c) ==
  /\ Alive
  /\ reader[c] = "running"
  /\ reader' = [reader EXCEPT ![c] = "leaving"]
  /\ UNCHANGED <<storeVars, workVars, queueVars, rosterVars, stopVars, panic,
                 handler, cursor, conn, sendVars, writer, replayVars>>

\* After the run loop took the unregistration, the pump closes the connection.
ReadEnds(c) ==
  /\ Alive
  /\ reader[c] = "released"
  /\ reader' = [reader EXCEPT ![c] = "done"]
  /\ conn' = [conn EXCEPT ![c] = FALSE]
  /\ UNCHANGED <<storeVars, workVars, queueVars, rosterVars, stopVars, panic,
                 handler, cursor, sendVars, writer, replayVars>>

-----------------------------------------------------------------------------
(* replayFromCursor.                                                       *)

\* SELECT ... WHERE seq > k (not, as a cache of the events in memory would, among
\* the rows this process knows of)
AfterOrAt(k)  == {s \in stored : s >= k}
AfterKnown(k) == {s \in stored \ orphaned : s > k}
After(k) == {s \in stored : s > k}

\* ... ORDER BY seq LIMIT BatchSize: the first rows after k
IsBatch(B, k) ==
  /\ \A s \in B : \A t \in After(k) \ B : s < t
  /\ \/ B = After(k) /\ Cardinality(B) <= BatchSize
     \/ Cardinality(B) = BatchSize

\* What it means that a query was the last one: it returned fewer rows than asked.
ShortOrFull(B) == Cardinality(B) <= BatchSize
Short(B)       == Cardinality(B) < BatchSize

\* One query; an empty answer ends the replay, and so does an error.
ReplayQuery(c) ==
  /\ Alive
  /\ replay[c] = "query"
  /\ \/ \E B \in SUBSET After(position[c]) :
          /\ IsBatch(B, position[c])
          /\ batch' = [batch EXCEPT ![c] = B]
          /\ lastBatch' = [lastBatch EXCEPT ![c] = Short(B)]
          /\ replay' = [replay EXCEPT ![c] = IF B = {} THEN "done" ELSE "send"]
     \/ /\ replay' = [replay EXCEPT ![c] = "failed"]
        /\ UNCHANGED <<batch, lastBatch>>
  /\ UNCHANGED <<storeVars, workVars, queueVars, rosterVars, stopVars, panic,
                 handler, cursor, conn, sendVars, pumpVars, position>>

\* What follows the row s of the batch at hand.
AfterRow(c, s) ==
  IF batch[c] # {s} THEN "send" ELSE IF lastBatch[c] THEN "done" ELSE "query"

\* The next row goes into the send channel.  If the channel is full the
\* replay gives up; if it has been closed the send panics.
ReplaySend(c) ==
  /\ Alive
  /\ replay[c] = "send"
  /\ \E s \in batch[c] :
       /\ \A t \in batch[c] : s <= t
       /\ \/ /\ closed[c]
             /\ panic' = "replay"
             /\ UNCHANGED <<sent, replayVars>>
          \/ /\ ~closed[c] /\ ~Full(c)
             /\ sent' = [sent EXCEPT ![c] = Append(@, Replayed(s))]
             /\ position' = [position EXCEPT ![c] = s]
             /\ batch' = [batch EXCEPT ![c] = @ \ {s}]
             /\ replay' = [replay EXCEPT ![c] = AfterRow(c, s)]
             /\ UNCHANGED <<panic, lastBatch>>
          \/ /\ ~closed[c] /\ Full(c)
             /\ replay' = [replay EXCEPT ![c] = "aborted"]
             /\ UNCHANGED <<panic, sent, position, batch, lastBatch>>
  /\ UNCHANGED <<storeVars, workVars, queueVars, rosterVars, stopVars, handler,
                 cursor, conn, taken, closed, dropped, pumpVars>>

-----------------------------------------------------------------------------

Work(w)  == StoreEvent(w) \/ FinishInsert(w) \/ BroadcastWithSeq(w) \/ Broadcast(w)
Serve(c) == Connect(c) \/ StartPumps(c)
Loop     == (\E c \in Clients : Register(c) \/ Unregister(c)) \/ Dispatch \/ ExitLoop
Stopping == StopCancel \/ StopCloseConns
Write(c) == WriteMessage(c) \/ WriteFails(c) \/ WriteClose(c)
Read(c)  == ReadFails(c) \/ ReadEnds(c)
Replay(c) == ReplayQuery(c) \/ ReplaySend(c)

Next ==
  \/ \E w \in Workers : Work(w)
  \/ \E c \in Clients : Serve(c) \/ Write(c) \/ Read(c) \/ Replay(c)
  \/ Loop
  \/ Stopping

Spec == Init /\ [][Next]_vars

\* Fairness.  Go's select chooses at random among the cases that are ready, so
\* none waits forever while the loop goes round; a goroutine that can run does,
\* a database statement returns, and on a connection closed on this side the
\* next write (a ping at the latest) and the pending read fail.  Nothing is
\* assumed of new events, of peers, or of a write to an open connection failing.
Fairness ==
  /\ \A w \in Workers :
       WF_vars(FinishInsert(w)) /\ WF_vars(BroadcastWithSeq(w)) /\ WF_vars(Broadcast(w))
  /\ WF_vars(Dispatch) /\ WF_vars(ExitLoop) /\ WF_vars(StopCloseConns)
  /\ \A c \in Clients :
       /\ WF_vars(Register(c)) /\ WF_vars(Unregister(c)) /\ WF_vars(StartPumps(c))
       /\ WF_vars(WriteMessage(c)) /\ WF_vars(WriteClose(c))
       /\ WF_vars(~conn[c] /\ WriteFails(c))
       /\ WF_vars(~conn[c] /\ ReadFails(c)) /\ WF_vars(ReadEnds(c))
       /\ WF_vars(Replay(c))

FairSpec == Spec /\ Fairness

-----------------------------------------------------------------------------
(* Properties.                                                             *)

WorkerSteps  == {"idle", "insert", "saved", "unsaved"}
HandlerSteps == {"none", "registering", "registered", "served"}
WriterSteps  == {"none", "running", "failed", "done"}
ReaderSteps  == {"none", "running", "leaving", "released", "done"}
ReplaySteps  == {"none", "query", "send", "done", "aborted", "failed"}

WorkTypes ==
  /\ lastSeq \in Nat
  /\ stored \in SUBSET Nat
  /\ orphaned \in SUBSET stored
  /\ eventCount \in Nat
  /\ wpc \in [Workers -> WorkerSteps]
  /\ wseq \in [Workers -> Nat]

QueueTypes ==
  /\ published \in Seq(Message)
  /\ dispatched \in Nat
  /\ Waiting \in 0..BroadcastCap
  /\ shed \in SUBSET Message

ServerTypes ==
  /\ clients \in SUBSET Clients
  /\ clientCount \in Int
  /\ running \in BOOLEAN
  /\ stop \in {"no", "cancelled", "done"}
  /\ panic \in {"no", "dispatch", "close", "replay"}

ConnTypes ==
  /\ handler \in [Clients -> HandlerSteps]
  /\ cursor \in [Clients -> Cursors \union {NoCursor}]
  /\ conn \in [Clients -> BOOLEAN]
  /\ writer \in [Clients -> WriterSteps]
  /\ reader \in [Clients -> ReaderSteps]

SendTypes ==
  /\ sent \in [Clients -> Seq(Message)]
  /\ taken \in [Clients -> Nat]
  /\ \A c \in Clients : Buffered(c) \in 0..SendCap
  /\ closed \in [Clients -> BOOLEAN]
  /\ dropped \in [Clients -> SUBSET Message]

ReplayTypes ==
  /\ replay \in [Clients -> ReplaySteps]
  /\ position \in [Clients -> Int]
  /\ batch \in [Clients -> SUBSET Nat]
  /\ lastBatch \in [Clients -> BOOLEAN]

\* Every variable has its type; no channel holds more than its capacity and
\* no receiver has taken more than was sent.
TypeOK ==
  WorkTypes /\ QueueTypes /\ ServerTypes /\ ConnTypes /\ SendTypes /\ ReplayTypes

\* Whatever order subscribers come and go in, the run loop never sends to a
\* closed channel and never closes one twice: the map holds no client whose
\* channel is closed.  (replayFromCursor, which does not look at the map, is
\* the only goroutine that can bring the process down.)
LoopNeverPanics == panic \in {"no", "replay"}

\* The map holds exactly the clients that were registered and have not been
\* unregistered, those are the ones whose channel is open, and the counter
\* the statistics report is the number of them.
RosterExact ==
  /\ \A c \in Clients :
       /\ c \in clients <=> /\ handler[c] \in {"registered", "served"}
                            /\ reader[c] \notin {"released", "done"}
       /\ closed[c] <=> reader[c] \in {"released", "done"}
  /\ clientCount = Cardinality(clients)

\* positions in c's send channel of the messages that came the given way
Places(c, via) == {i \in DOMAIN sent[c] : sent[c][i].via = via}

\* What the replay puts into a client's channel is a strictly increasing list
\* of committed rows beyond the client's cursor: no row twice, none out of
\* order, whatever is committed between its queries.
ReplayOrdered ==
  \A c \in Clients :
    /\ \A i \in Places(c, "replay") :
         sent[c][i].seq \in stored /\ sent[c][i].seq > cursor[c]
    /\ \A i, j \in Places(c, "replay") : i < j => sent[c][i].seq < sent[c][j].seq

\* No event is broadcast twice: a client can see an event a second time only
\* as the replayed copy of it.
LiveOnce ==
  \A c \in Clients : \A i, j \in Places(c, "live") :
    sent[c][i].seq = sent[c][j].seq => i = j

\* Workers that draw numbers in one order and broadcast in another disturb the
\* live stream only so far: a message overtakes at most one smaller number for
\* each other worker, so a subscriber that waits for that many late ones has the
\* live stream in order.
LiveNearlyOrdered ==
  \A i \in DOMAIN published : published[i].via = "live" =>
    Cardinality({j \in DOMAIN published :
      /\ j > i
      /\ published[j].via = "live" /\ published[j].seq < published[i].seq})
        < Cardinality(Workers)

\* the row s has been put into c's send channel, live or replayed
Queued(c, s) == \E i \in DOMAIN sent[c] : sent[c][i] \in {Live(s), Replayed(s)}

\* its live message is still on the way: with a worker or in the broadcast channel
WithWorker(s) == \E w \in Workers : wpc[w] = "saved" /\ wseq[w] = s
InChannel(s)  == \E i \in (dispatched + 1)..Len(published) : published[i] = Live(s)
OnItsWay(s)   == WithWorker(s) \/ InChannel(s)

\* the live message went past c: a channel was full, or the INSERT was reported to
\* have failed, while c was in the map
Missed(c, s) == Live(s) \in dropped[c]

Covered(c, s) == Queued(c, s) \/ OnItsWay(s) \/ Missed(c, s)

\* A client that resumed from a cursor and is still connected misses nothing
\* once its replay has run to its end: every committed row after the cursor
\* has been queued for it, or is on its way to it, or, since it registered, was
\* refused by a full channel or reported not to have been stored.  What was lost to
\* others before it came, and what an earlier process died before broadcasting,
\* the replay has delivered.  Rows that commit while the replay runs, in any order,
\* are caught by the live stream because the client is registered before its first
\* query.
ResumeComplete ==
  \A c \in clients : replay[c] = "done" =>
    \A s \in stored : s > cursor[c] => Covered(c, s)

\* A subscriber whose writePump gave up does not stay in the map for ever,
\* collecting messages nobody writes: its connection is closed, so its readPump
\* fails and the run loop drops it.  It may stay when the server is stopping.
DeadWriterLeaves ==
  \A c \in Clients : writer[c] \in {"failed", "done"} ~>
    (c \notin clients \/ stop # "no" \/ panic # "no")

\* What the run loop has accepted for broadcasting is dispatched unless the
\* server stops, and what a client's channel holds is written unless its
\* writePump has failed.
NothingStaysQueued ==
  /\ \A n \in 1..MaxEvents : Len(published) >= n ~>
       (dispatched >= n \/ stop # "no" \/ panic # "no")
  /\ \A c \in Clients : \A n \in 1..SendCap : Len(sent[c]) >= n ~>
       (taken[c] >= n \/ ~conn[c] \/ panic # "no")

\* Nobody waits for ever for the run loop while it runs: a new subscriber gets
\* registered, and one whose connection failed gets rid of its registration.
\* After Stop, and only then, handlers and readPumps may block for good.
NobodyBlocks ==
  \A c \in Clients :
    /\ handler[c] = "registering" ~> (handler[c] # "registering" \/ stop # "no" \/ panic # "no")
    /\ reader[c] = "leaving" ~> (reader[c] # "leaving" \/ stop # "no" \/ panic # "no")

-----------------------------------------------------------------------------
(* The promise this server keeps (module Feed).  Of the channels only what *)
(* the run loop has taken and what the send channels have been given       *)
(* shows; a subscriber is online from its registration to its              *)
(* unregistration.                                                         *)

Place(c) ==
  IF handler[c] \in {"none", "registering"} THEN "away"
  ELSE IF reader[c] \in {"released", "done"} THEN "gone" ELSE "online"

Since(c) == IF Place(c) = "away" THEN NoCursor ELSE cursor[c]

Scan(c) ==
  IF Since(c) = NoCursor THEN "none"
  ELSE IF Place(c) = "gone" \/ replay[c] \in {"aborted", "failed"} THEN "stopped"
  ELSE IF replay[c] = "done" THEN "done" ELSE "running"

At(c) ==
  IF Since(c) = NoCursor THEN 0
  ELSE IF replay[c] = "none" THEN cursor[c] ELSE position[c]

Promise == INSTANCE Feed WITH
  Numbers   <- 1..MaxEvents,
  rows      <- stored,
  announced <- {published[i] : i \in 1..dispatched},
  withheld  <- shed,
  place     <- [c \in Clients |-> Place(c)],
  since     <- [c \in Clients |-> Since(c)],
  scan      <- [c \in Clients |-> Scan(c)],
  at        <- [c \in Clients |-> At(c)],
  got       <- sent,
  missed    <- dropped

\* However workers, run loop, pumps and replays interleave, and however full the
\* channels are, subscribers see an atomic broadcast with a scan beside it.
KeepsPromise == Promise!Spec

-----------------------------------------------------------------------------
(* Statements of the repository's documentation that the code does not     *)
(* keep; each has a run that shows how.                                    *)

\* relay/README.md:29, "Clients can resume from any sequence number": asking
\* for a cursor and leaving must not bring the relay down.
NoPanic == panic = "no"

\* ... and the largest number a client has received must be a cursor to come
\* back with: nothing before it, back to the client's own cursor, is missing.
ResumePointSound ==
  \A c \in Clients : cursor[c] # NoCursor =>
    \A i \in 1..Delivered(c) : \A s \in stored :
      cursor[c] < s /\ s < sent[c][i].seq => \E j \in 1..Delivered(c) : sent[c][j].seq = s

=============================================================================
