------------------------------- MODULE Ingest -------------------------------
(***************************************************************************)
(* The inbound half of the relay: one PDSClient per upstream host          *)
(* (relay/internal/ingest/pds_client.go), the Manager with its workers     *)
(* (relay/internal/ingest/manager.go), the event and cursor tables they    *)
(* write (relay/internal/storage/postgres.go), and what main does with     *)
(* them from start to shutdown (relay/cmd/relay/main.go), across crashes   *)
(* and restarts of the process, in the deployment with a database.         *)
(*                                                                         *)
(* A client dials its host, receives events one by one, records each       *)
(* number in its cursor and puts the event into the event channel all      *)
(* clients share.  Workers take events from the channel, hand them to the  *)
(* event handler, which stores them, and save the host's cursor now and    *)
(* then.  Only the two tables survive the process.                         *)
(***************************************************************************)
EXTENDS Integers, FiniteSets, Sequences, FiniteSetsExt

CONSTANTS
  Hosts,         \* upstream servers
  InitialHosts,  \* those the configuration names; the others come by requestCrawl
  Workers,       \* ingest workers (cfg.WorkerCount)
  BufferSize,    \* capacity of the event channel (cfg.BufferSize)
  SaveEvery,     \* a cursor divisible by this is saved, 100 in the code
  BaseDelay,     \* cfg.ReconnectDelay
  MaxDelay,      \* cfg.MaxReconnectDelay
  DbFails,       \* bound: may a database statement fail on its own
  MaxSeq,        \* bound: largest sequence number an upstream server reaches
  MaxRestarts    \* bound: restarts of the process

ASSUME IngestConstants ==
  /\ InitialHosts \subseteq Hosts
  /\ BufferSize \in Nat \ {0}
  /\ SaveEvery \in Nat \ {0}
  /\ BaseDelay \in Nat \ {0} /\ MaxDelay \in Nat \ {0}
  /\ DbFails \in BOOLEAN
  /\ MaxSeq \in Nat /\ MaxRestarts \in Nat

VARIABLES
  (* outside the process *)
  log,        \* sequence numbers each host has put on its stream
  stored,     \* of each host, the events that have a row in the events table
  saved,      \* of each host, the cursor column; 0 when there is none
  restarts,
  (* what the log files tell: events given up, and why *)
  dropped,    \* refused by the full event channel for five seconds
  unstored,   \* the database reported a failure while the manager was running
  (* history, for the properties only: the number after which the relay has been *)
  (* listening to the host without a gap                                         *)
  from,       \* for the client's cursor
  base,       \* for the saved one
  (* the process *)
  life,       \* up, panicked or exited
  cancelled,  \* Manager.ctx is done
  stop,       \* progress of Manager.Stop
  chan,       \* the event channel
  closed,     \* it has been closed
  phase,      \* what each host's client is doing
  quit,       \* the client's ctx is done
  cursor,     \* PDSClient.cursor
  position,   \* how far the open stream has got, on the host's side
  delay,      \* PDSClient.currentDelay
  wpc,        \* what each worker does next
  task        \* the event it is working on

outsideVars == <<log, restarts>>
tableVars   == <<stored, saved, base>>
lossVars    == <<dropped, unstored>>
stopVars    == <<life, cancelled, stop>>
chanVars    == <<chan, closed>>
clientVars  == <<phase, quit, cursor, position, from, delay>>
workerVars  == <<wpc, task>>

vars == <<outsideVars, tableVars, lossVars, stopVars, chanVars, clientVars, workerVars>>

-----------------------------------------------------------------------------

Event == [host : Hosts, seq : Nat]

NoTask == [host |-> "none", seq |-> 0]

\* nothing has been heard of the host yet
Unheard == -1

\* NewManager and Manager.Start, up to the first AddHost.
Init ==
  /\ log = [h \in Hosts |-> {}]
  /\ stored = [h \in Hosts |-> {}]
  /\ saved = [h \in Hosts |-> 0]
  /\ restarts = 0
  /\ dropped = [h \in Hosts |-> {}]
  /\ unstored = [h \in Hosts |-> {}]
  /\ from = [h \in Hosts |-> Unheard]
  /\ base = [h \in Hosts |-> Unheard]
  /\ life = "up"
  /\ cancelled = FALSE
  /\ stop = "no"
  /\ chan = <<>>
  /\ closed = FALSE
  /\ phase = [h \in Hosts |-> "absent"]
  /\ quit = [h \in Hosts |-> FALSE]
  /\ cursor = [h \in Hosts |-> 0]
  /\ position = [h \in Hosts |-> 0]
  /\ delay = [h \in Hosts |-> BaseDelay]
  /\ wpc = [w \in Workers |-> "idle"]
  /\ task = [w \in Workers |-> NoTask]

Up == life = "up"

-----------------------------------------------------------------------------
(* The upstream host (external).                                           *)

Newest(h) == Max(log[h] \union {0})

\* Its sequence numbers grow, and may leave gaps.
Publish(h) ==
  /\ \E s \in (Newest(h) + 1)..MaxSeq : log' = [log EXCEPT ![h] = @ \union {s}]
  /\ UNCHANGED <<restarts, tableVars, lossVars, stopVars, chanVars, clientVars, workerVars>>

\* Where a new subscription starts: after the cursor, or live without one.
StreamStart(h, k) == IF k > 0 THEN k ELSE Newest(h)

-----------------------------------------------------------------------------
(* Manager.AddHost, from Manager.Start or from a requestCrawl.             *)

\* A host that has a client already is left alone.
AddsAlways(h) == TRUE
Unknown(h)    == phase[h] = "absent"

\* The cursor a new client starts with: the saved one, which is 0 if there is none.
ResumeLive(h) == 0
Resume(h)     == saved[h]

\* Manager.mu is held throughout.  A cursor that cannot be read counts as none;
\* once the manager's context is done none can be read.
AddHost(h) ==
  /\ Up
  /\ Unknown(h)
  /\ phase' = [phase EXCEPT ![h] = "loop"]
  /\ \/ /\ ~cancelled
        /\ cursor' = [cursor EXCEPT ![h] = Resume(h)]
        /\ from' = [from EXCEPT ![h] = base[h]]
     \/ /\ cancelled \/ DbFails
        /\ cursor' = [cursor EXCEPT ![h] = 0]
        /\ UNCHANGED from
  /\ UNCHANGED <<outsideVars, tableVars, lossVars, stopVars, chanVars, quit,
                 position, delay, workerVars>>

-----------------------------------------------------------------------------
(* PDSClient.connectionLoop.                                               *)

\* Top of the loop: a client whose context is done ends.
TopUnchecked(h) == "dial"
Top(h)          == IF quit[h] THEN "stopped" ELSE "dial"

LoopTop(h) ==
  /\ Up
  /\ phase[h] = "loop"
  /\ phase' = [phase EXCEPT ![h] = Top(h)]
  /\ UNCHANGED <<outsideVars, tableVars, lossVars, stopVars, chanVars, quit,
                 cursor, position, from, delay, workerVars>>

\* The cursor the client asks from: its own, if it has one.
AsksOneBack(h) == IF cursor[h] > 0 THEN cursor[h] - 1 ELSE 0
AsksOneOn(h)   == IF cursor[h] > 0 THEN cursor[h] + 1 ELSE 0
Asks(h)        == IF cursor[h] > 0 THEN cursor[h] ELSE 0

Connect(h) ==
  /\ Up
  /\ phase[h] = "dial"
  /\ phase' = [phase EXCEPT ![h] = "stream"]
  /\ position' = [position EXCEPT ![h] = StreamStart(h, Asks(h))]
  /\ delay' = [delay EXCEPT ![h] = BaseDelay]
  /\ UNCHANGED <<outsideVars, tableVars, lossVars, stopVars, chanVars, quit,
                 cursor, from, workerVars>>

ConnectFails(h) ==
  /\ Up
  /\ phase[h] = "dial"
  /\ phase' = [phase EXCEPT ![h] = "backoff"]
  /\ UNCHANGED <<outsideVars, tableVars, lossVars, stopVars, chanVars, quit,
                 cursor, position, from, delay, workerVars>>

\* The select of the backoff: the timer, or the client's context.
BackoffOver(h) ==
  /\ Up
  /\ phase[h] = "backoff"
  /\ \/ /\ phase' = [phase EXCEPT ![h] = "loop"]
        /\ delay' = [delay EXCEPT ![h] = IF 2 * @ < MaxDelay THEN 2 * @ ELSE MaxDelay]
     \/ /\ quit[h]
        /\ phase' = [phase EXCEPT ![h] = "stopped"]
        /\ UNCHANGED delay
  /\ UNCHANGED <<outsideVars, tableVars, lossVars, stopVars, chanVars, quit,
                 cursor, position, from, workerVars>>

\* Where a client goes when its stream is over: it dials again.
AfterStreamForGood == "stopped"
AfterStream        == "loop"

\* The stream ends: the host or the network, an error event, or Stop.
StreamEnds(h) ==
  /\ Up
  /\ phase[h] = "stream"
  /\ phase' = [phase EXCEPT ![h] = AfterStream]
  /\ UNCHANGED <<outsideVars, tableVars, lossVars, stopVars, chanVars, quit,
                 cursor, position, from, delay, workerVars>>

-----------------------------------------------------------------------------
(* PDSClient.handleRepoStreamEvent.                                        *)

\* The next event of the stream.
Ahead(h) == {s \in log[h] : s > position[h]}

\* The cursor moves before the event is handed on.
Advance(h, s) == cursor' = [cursor EXCEPT ![h] = s]

Receive(h) ==
  /\ Up
  /\ phase[h] = "stream"
  /\ Ahead(h) # {}
  /\ LET s == Min(Ahead(h)) IN
       /\ position' = [position EXCEPT ![h] = s]
       /\ Advance(h, s)
  /\ from' = [from EXCEPT ![h] = IF @ = Unheard THEN position[h] ELSE @]
  /\ phase' = [phase EXCEPT ![h] = "enqueue"]
  /\ UNCHANGED <<outsideVars, tableVars, lossVars, stopVars, chanVars, quit,
                 delay, workerVars>>

\* Info events and unknown ones are passed over.  But the log line of an info event
\* takes its message for granted, which is optional: without one it panics.
ReceiveInfo(h) ==
  /\ Up
  /\ phase[h] = "stream"
  /\ life' = "panicked"
  /\ UNCHANGED <<outsideVars, tableVars, lossVars, cancelled, stop, chanVars,
                 clientVars, workerVars>>

RoomForOneMore == Len(chan) <= BufferSize
Room           == Len(chan) < BufferSize

\* The event goes into the channel; position[h] is its number.
Enqueue(h) ==
  /\ Up
  /\ phase[h] = "enqueue"
  /\ ~closed /\ Room
  /\ chan' = Append(chan, [host |-> h, seq |-> position[h]])
  /\ phase' = [phase EXCEPT ![h] = "stream"]
  /\ UNCHANGED <<outsideVars, tableVars, lossVars, stopVars, closed, quit,
                 cursor, position, from, delay, workerVars>>

EnqueueTimesOut(h) ==
  /\ Up
  /\ phase[h] = "enqueue"
  /\ ~closed /\ ~Room
  /\ dropped' = [dropped EXCEPT ![h] = @ \union {position[h]}]
  /\ phase' = [phase EXCEPT ![h] = "stream"]
  /\ UNCHANGED <<outsideVars, tableVars, unstored, stopVars, chanVars, quit,
                 cursor, position, from, delay, workerVars>>

\* ctx.Done: the handler's error ends the stream.
EnqueueCancelled(h) ==
  /\ Up
  /\ phase[h] = "enqueue"
  /\ quit[h]
  /\ phase' = [phase EXCEPT ![h] = AfterStream]
  /\ UNCHANGED <<outsideVars, tableVars, lossVars, stopVars, chanVars, quit,
                 cursor, position, from, delay, workerVars>>

\* Sending to the closed channel panics; where the context is done as well the
\* select may take either case.
EnqueuePanics(h) ==
  /\ Up
  /\ phase[h] = "enqueue"
  /\ closed
  /\ life' = "panicked"
  /\ UNCHANGED <<outsideVars, tableVars, lossVars, cancelled, stop, chanVars,
                 clientVars, workerVars>>

-----------------------------------------------------------------------------
(* Manager.processEvents.                                                  *)

TakeEvent(w) ==
  /\ Up
  /\ wpc[w] = "idle"
  /\ chan # <<>>
  /\ task' = [task EXCEPT ![w] = Head(chan)]
  /\ chan' = Tail(chan)
  /\ wpc' = [wpc EXCEPT ![w] = "handle"]
  /\ UNCHANGED <<outsideVars, tableVars, lossVars, stopVars, closed, clientVars>>

\* What follows the handler: a cursor to save, or the next event.
SaveDue(s)    == s % SaveEvery = 0
AfterEvent(s) == IF SaveDue(s) THEN "save" ELSE "idle"

\* The event handler reaches StoreEvent.  Under a cancelled context no statement
\* is begun; the handler logs the error and the worker goes on as ever.
HandleEvent(w) ==
  /\ Up
  /\ wpc[w] = "handle"
  /\ wpc' = [wpc EXCEPT ![w] = IF cancelled THEN AfterEvent(task[w].seq) ELSE "insert"]
  /\ UNCHANGED <<outsideVars, tableVars, lossVars, stopVars, chanVars, clientVars, task>>

\* How the INSERT ends.  It commits; or it fails, by itself or because its context
\* is cancelled; or it commits and the handler is told that it failed.
FinishInsert(w) ==
  /\ Up
  /\ wpc[w] = "insert"
  /\ wpc' = [wpc EXCEPT ![w] = AfterEvent(task[w].seq)]
  /\ UNCHANGED <<outsideVars, saved, base, dropped, stopVars, chanVars,
                 clientVars, task>>

Keep(w) == stored' = [stored EXCEPT ![task[w].host] = @ \union {task[w].seq}]

ReportFailure(w) ==
  \/ cancelled /\ UNCHANGED unstored
  \/ DbFails /\ unstored' = [unstored EXCEPT ![task[w].host] = @ \union {task[w].seq}]

InsertCommits(w)    == FinishInsert(w) /\ Keep(w) /\ UNCHANGED unstored
InsertFails(w)      == FinishInsert(w) /\ ReportFailure(w) /\ UNCHANGED stored
InsertUnanswered(w) == FinishInsert(w) /\ ReportFailure(w) /\ Keep(w)

\* May SaveCursor's statements succeed?  They run under the manager's context.
CanSave == ~cancelled

\* A failed SaveCursor leaves the row as it was.
SaveFailsHalfway(h) == saved' = [saved EXCEPT ![h] = 0]
SaveFails(h)        == UNCHANGED saved

SaveCursor(w) ==
  /\ Up
  /\ wpc[w] = "save"
  /\ \/ /\ CanSave
        /\ saved' = [saved EXCEPT ![task[w].host] = task[w].seq]
        /\ base' = [base EXCEPT ![task[w].host] = from[task[w].host]]
     \/ /\ ~CanSave \/ DbFails
        /\ SaveFails(task[w].host)
        /\ UNCHANGED base
  /\ wpc' = [wpc EXCEPT ![w] = "idle"]
  /\ UNCHANGED <<outsideVars, stored, lossVars, stopVars, chanVars, clientVars, task>>

\* The range over the channel ends once it is closed and empty.
WorkerEnds(w) ==
  /\ Up
  /\ wpc[w] = "idle"
  /\ closed /\ chan = <<>>
  /\ wpc' = [wpc EXCEPT ![w] = "ended"]
  /\ UNCHANGED <<outsideVars, tableVars, lossVars, stopVars, chanVars, clientVars, task>>

-----------------------------------------------------------------------------
(* Manager.Stop, and the end of the process.                               *)

\* main has added the configured hosts before it waits for the signal.
StopCancel ==
  /\ Up
  /\ stop = "no"
  /\ \A h \in InitialHosts : phase[h] # "absent"
  /\ cancelled' = TRUE
  /\ stop' = "clients"
  /\ UNCHANGED <<outsideVars, tableVars, lossVars, life, chanVars, clientVars, workerVars>>

StopClients ==
  /\ Up
  /\ stop = "clients"
  /\ quit' = [h \in Hosts |-> phase[h] # "absent"]
  /\ stop' = "close"
  /\ UNCHANGED <<outsideVars, tableVars, lossVars, life, cancelled, chanVars,
                 phase, cursor, position, from, delay, workerVars>>

StopLeavesOpen ==
  /\ Up
  /\ stop = "close"
  /\ stop' = "wait"
  /\ UNCHANGED <<outsideVars, tableVars, lossVars, life, cancelled, chanVars,
                 clientVars, workerVars>>

StopClose ==
  /\ Up
  /\ stop = "close"
  /\ closed' = TRUE
  /\ stop' = "wait"
  /\ UNCHANGED <<outsideVars, tableVars, lossVars, life, cancelled, chan,
                 clientVars, workerVars>>

StopWait ==
  /\ Up
  /\ stop = "wait"
  /\ \A w \in Workers : wpc[w] = "ended"
  /\ stop' = "done"
  /\ UNCHANGED <<outsideVars, tableVars, lossVars, life, cancelled, chanVars,
                 clientVars, workerVars>>

\* main stops the other servers, which requests in flight may delay, and returns.
Exit ==
  /\ Up
  /\ stop = "done"
  /\ life' = "exited"
  /\ UNCHANGED <<outsideVars, tableVars, lossVars, cancelled, stop, chanVars,
                 clientVars, workerVars>>

\* systemd starts the relay again: after it exited, panicked, or was killed at
\* any point.
Restart ==
  /\ restarts < MaxRestarts
  /\ restarts' = restarts + 1
  /\ life' = "up" /\ cancelled' = FALSE /\ stop' = "no"
  /\ chan' = <<>> /\ closed' = FALSE
  /\ phase' = [h \in Hosts |-> "absent"]
  /\ quit' = [h \in Hosts |-> FALSE]
  /\ cursor' = [h \in Hosts |-> 0]
  /\ position' = [h \in Hosts |-> 0]
  /\ from' = [h \in Hosts |-> Unheard]
  /\ delay' = [h \in Hosts |-> BaseDelay]
  /\ wpc' = [w \in Workers |-> "idle"]
  /\ task' = [w \in Workers |-> NoTask]
  /\ UNCHANGED <<log, tableVars, lossVars>>

-----------------------------------------------------------------------------

Client(h) ==
  \/ LoopTop(h) \/ Connect(h) \/ ConnectFails(h) \/ BackoffOver(h) \/ StreamEnds(h)
  \/ Receive(h) \/ ReceiveInfo(h) \/ Enqueue(h) \/ EnqueueTimesOut(h)
  \/ EnqueueCancelled(h) \/ EnqueuePanics(h)
Insert(w) == InsertCommits(w) \/ InsertFails(w) \/ InsertUnanswered(w)
Worker(w) == TakeEvent(w) \/ HandleEvent(w) \/ Insert(w) \/ SaveCursor(w) \/ WorkerEnds(w)
Stop      == StopCancel \/ StopClients \/ StopClose \/ StopWait

Next ==
  \/ \E h \in Hosts : Publish(h) \/ AddHost(h) \/ Client(h)
  \/ \E w \in Workers : Worker(w)
  \/ Stop \/ Exit \/ Restart

Spec == Init /\ [][Next]_vars

\* Fairness.  Goroutines that can run do, statements return, a connection that
\* Stop closed ends its stream.  Of the upstream hosts it is assumed only that
\* one which is asked again and again answers in the end, and that a stream which
\* has an event to deliver again and again delivers it.  Nothing obliges a host to
\* publish, an operator to stop the relay, or a process to crash.
Fairness ==
  /\ \A h \in Hosts :
       /\ WF_vars(LoopTop(h)) /\ WF_vars(BackoffOver(h))
       /\ WF_vars(Connect(h) \/ ConnectFails(h)) /\ SF_vars(Connect(h))
       /\ SF_vars(Receive(h)) /\ WF_vars(quit[h] /\ StreamEnds(h))
       /\ WF_vars(Enqueue(h) \/ EnqueueTimesOut(h) \/ EnqueueCancelled(h) \/ EnqueuePanics(h))
  /\ \A w \in Workers : WF_vars(Worker(w))
  /\ WF_vars(StopClients) /\ WF_vars(StopClose) /\ WF_vars(StopWait)

FairSpec == Spec /\ Fairness

-----------------------------------------------------------------------------
(* Properties.                                                             *)

ClientSteps == {"absent", "loop", "dial", "backoff", "stream", "enqueue", "stopped"}
WorkerSteps == {"idle", "handle", "insert", "save", "ended"}

SeqSets == [Hosts -> SUBSET Nat]
Counts  == [Hosts -> Nat]
Marks   == Nat \union {Unheard}

\* Every variable has its type, and the event channel holds no more than its
\* capacity.
TypeOK ==
  /\ log \in SeqSets /\ stored \in SeqSets /\ saved \in Counts /\ restarts \in Nat
  /\ dropped \in SeqSets /\ unstored \in SeqSets
  /\ from \in [Hosts -> Marks] /\ base \in [Hosts -> Marks]
  /\ life \in {"up", "panicked", "exited"}
  /\ cancelled \in BOOLEAN
  /\ stop \in {"no", "clients", "close", "wait", "done"}
  /\ chan \in Seq(Event) /\ Len(chan) <= BufferSize
  /\ closed \in BOOLEAN
  /\ phase \in [Hosts -> ClientSteps]
  /\ quit \in [Hosts -> BOOLEAN]
  /\ cursor \in Counts /\ position \in Counts /\ delay \in Counts
  /\ wpc \in [Workers -> WorkerSteps]
  /\ task \in [Workers -> Event \union {NoTask}]

\* places of h's events in the channel, and workers that hold one
Queued(h) == {i \in DOMAIN chan : chan[i].host = h}
Busy(h)   == {w \in Workers : wpc[w] \in {"handle", "insert", "save"} /\ task[w].host = h}

\* However often a client reconnects, and whatever it drops, an event passes
\* through the event channel at most once in the life of a process and in its
\* host's order: the channel holds increasing numbers, all beyond those the
\* workers hold, none of which two workers hold, and none beyond the cursor.
StreamOrder ==
  \A h \in Hosts :
    /\ \A i, j \in Queued(h) : i < j => chan[i].seq < chan[j].seq
    /\ \A i \in Queued(h) :
         /\ chan[i].seq <= cursor[h]
         /\ phase[h] = "enqueue" => chan[i].seq < cursor[h]
         /\ \A w \in Busy(h) : task[w].seq < chan[i].seq
    /\ \A v, w \in Busy(h) : v # w => task[v].seq # task[w].seq

\* events with a row or a record of their loss
Traced(h) == stored[h] \union dropped[h] \union unstored[h]

\* an event on its way from the stream to the events table
Pending(h, s) ==
  \/ phase[h] = "enqueue" /\ s = position[h]
  \/ \E i \in Queued(h) : s = chan[i].seq
  \/ \E w \in Busy(h) : wpc[w] # "save" /\ s = task[w].seq

\* What the client has behind it, and will never ask for again, since it began to
\* listen without a gap; and what a process that starts from the saved cursor has.
Streaming(h)       == phase[h] \in {"stream", "enqueue"}
Passed(h, s)       == /\ from[h] # Unheard /\ from[h] < s
                      /\ s <= cursor[h] \/ (Streaming(h) /\ s <= position[h])
BelowCursor(h, s)  == base[h] < s /\ s <= saved[h]

\* events no process will ask for again, without a trace and not on their way
Lost(h) ==
  {s \in log[h] : (BelowCursor(h, s) \/ Passed(h, s)) /\ s \notin Traced(h) /\ ~Pending(h, s)}

\* manager.go:84 and :206, for any number of workers: a relay that is neither being
\* stopped nor dying loses no event without a trace, whatever its workers save in
\* whatever order and however often its clients reconnect.  Only the shutdown and
\* the death of the process can.
RunningLosesNothing ==
  [][~cancelled /\ restarts' = restarts => \A h \in Hosts : Lost(h)' \subseteq Lost(h)]_vars

\* With one worker: a host's saved cursor, from which the next process resumes, leaves
\* no event behind that the relay was there to hear.  Every event after the point
\* at which it began to listen, up to the cursor, has its row or is reported dropped
\* or not stored, whoever received it: crashes at any point, the statements that
\* Stop cancels and any number of reconnections and restarts lose none.
\* That point is moved by nothing but the first event of a client that has no cursor.
\* Events before it are outside the claim, and may well be lost: those the host
\* published before, and those an earlier process received but died before it had
\* saved any cursor, or whose saved cursor could not be read.
NothingLostBelowCursor ==
  \A h \in Hosts : \A s \in log[h] : BelowCursor(h, s) => s \in Traced(h)

\* With one worker: the saved cursor of a host never goes back, not across
\* restarts either.
SavedAdvances == [][\A h \in Hosts : saved'[h] >= saved[h]]_saved

\* Manager.Stop returns: the workers drain what the channel still holds and end,
\* unless a client still at its select panics on the closed channel, or it is killed.
StopReturns == stop = "clients" ~> (stop \in {"done", "no"} \/ life # "up")

\* A client that Stop cancelled ends, whatever it was doing: dialling, waiting to
\* retry, reading, or blocked on the full event channel.
ClientsEnd ==
  \A h \in Hosts : quit[h] ~> (phase[h] \in {"stopped", "absent"} \/ life # "up")

\* While the relay runs, a client with a cursor receives everything its host
\* publishes, through any number of broken connections.
CatchesUp ==
  \A h \in Hosts : \A n \in 1..MaxSeq :
    (cursor[h] > 0 /\ n \in log[h]) ~>
      (cursor[h] >= n \/ cursor[h] = 0 \/ quit[h] \/ life # "up")

-----------------------------------------------------------------------------
(* A statement of the repository's documentation that the code does not    *)
(* keep; a run shows how.                                                  *)

\* relay/README.md:36, "Graceful Shutdown - Clean connection handling and cursor
\* persistence", for several workers: after Stop has returned, nothing at or
\* before the saved cursor is missing.
CleanShutdown == stop = "done" => NothingLostBelowCursor

=============================================================================
