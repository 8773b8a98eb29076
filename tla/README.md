# A TLA+ model of the AT Protocol relay

The repository holds a relay for the AT Protocol (`relay/`, Go), two lexicons for
job cards (`lexicons/`), and scripts that install a PDS (`pds-server/`). The logic of
its own is in the relay: it subscribes to the event streams of any number of PDS hosts,
optionally verifies and stores the events, numbers them, and streams them to any number
of subscribers, who may come back with a cursor. This directory models the relay and
checks it with TLC and TLAPS. Paths below are relative to the repository.

## The system

| Part | State it keeps | Operations | Talks to |
|---|---|---|---|
| PDS client, one per host (`relay/internal/ingest/pds_client.go`) | cursor, connection, backoff delay | connection loop, stream callback, Stop | upstream host; event channel |
| ingest manager (`relay/internal/ingest/manager.go`) | map of clients (`mu`), event channel (10000), context | Start, AddHost, workers, Stop | clients, event handler, cursor store |
| event handler (`relay/cmd/relay/main.go`) | none | verify, store, broadcast | pipeline, event store, firehose |
| verification (`relay/internal/verify/`) | two plain counters, metrics, DID cache | Verify, Stats | PLC directory |
| storage (`relay/internal/storage/postgres.go`) | tables `hosts`, `events`, sequence `event_seq`; map of host ids | StoreEvent, GetEventsFromSeq, GetCursor, SaveCursor | PostgreSQL |
| firehose server (`relay/internal/firehose/server.go`) | map of clients (`mu`), broadcast channel (1000), send channel per client (256) | run loop, handler, writePump, readPump, replay, Stop | subscribers, event store |
| health and statistics (`relay/pkg/health/handler.go`, `main.go`) | ready flag | checks | manager, database, pipeline, firehose |
| feed viewer (`relay/web/feed.html`) | `ws`, status, seen numbers, page | three buttons, socket callbacks | firehose |

An event travels: host -> client (advances its cursor) -> event channel -> one of the
workers -> event handler (row in `events`, number from `event_seq`) -> broadcast channel
-> run loop -> send channel of every client -> writePump. The worker then saves the
host's cursor if the event's own number is divisible by 100. A replay reads rows and
puts them into the same send channel, concurrently with the run loop.

What is hard here: channels closed by one goroutine and used by another, `select` with a
default case that loses messages, workers without an order between them, a cursor that
runs ahead of what has been stored, shutdown in several steps, crashes between two
steps, shared data without a lock, and callbacks of objects that have been replaced.
`PROJECT.json` lists the hazards at their lines with the properties that watch them.

What makes the parts correct:

- firehose: never panic; the map, the channels and the count agree; a replay is ordered
  and complete; no event twice; dead subscribers leave; the stream is ordered and its
  numbers are global.
- ingest: nothing it was there to hear is lost below the saved cursor; the cursor does not
  go back; each event once and in its host's order; Stop and the clients end; reconnecting catches up.
- storage: an event and a cursor belong to the row of their host.
- verification: statistics and metrics count what happened.
- health: the worst check wins and each verdict has a reason.
- viewer: no event twice; what it says of the connection is so.

## The modules

| Module | Models | Checked by | Proofs |
|---|---|---|---|
| `Messages` | the three kinds of messages a subscriber gets | with its users | |
| `Feed` | what the firehose promises: an atomic broadcast of numbered rows with a scan beside it | `MCRelay` | `FeedProofs` |
| `Firehose` | firehose server, the workers that feed it, the event table it replays from; implements `Feed` | `MCFirehose` | `FirehoseProofs`, `FirehoseRefinement` |
| `Ingest` | PDS clients, manager, workers, cursor and event tables, shutdown, crash and restart | `MCIngest`, `MCRelay` | `IngestProofs` |
| `Relay` | `Ingest` and `Feed` composed through the events table, end to end across restarts | `MCRelay` | `RelayProofs` |
| `Storage` | hosts and events tables under StoreEvent and SaveCursor, cache of host ids | `MCStorage` | `StorageProofs` |
| `Verify` | pipeline and resolver, their counters | `MCMonitor` | in `MonitorProofs` |
| `Health` | the health endpoint and its checks | `MCMonitor` | in `MonitorProofs` |
| `Monitor` | `Verify` and `Health` composed: the endpoint reads what workers write without a lock | `MCMonitor` | `MonitorProofs` |
| `Content` | what the client extracts from a commit, what a row keeps, what live and replayed messages say | `MCFeedViewer` | in `FeedViewerProofs` |
| `FeedViewer` | the script of the feed viewer, fed with the messages of `Content` | `MCFeedViewer` | `FeedViewerProofs` |

In each module the operator that stands for a line where a slip would be easy is preceded
by one or two variants of it with other names (`FullOffByOne` before `Full`): what the
code would say with a plausible bug. The specification never uses a variant;
`PROJECT.json` pairs it with the property that fails when it takes the operator's place.

### Firehose

One action is one channel operation, one database statement, or one critical section
with the local steps around it. State and code:

- `lastSeq`, `stored`: `event_seq` and the committed rows. `StoreEvent` draws the number,
  `FinishInsert` commits or fails: numbers are drawn in one order and become visible in
  another, as sequences do in PostgreSQL. A third outcome commits the row and loses the
  answer: the handler takes it for a failure and sends the event out with its host's
  number, and the row stands in `orphaned`: it is never broadcast, and a replay must
  deliver it. `Init` finds in the table whatever earlier processes may have left there,
  any set of rows below the sequence, and these are orphaned too: the process that would
  have broadcast them is dead.
- `published`, `dispatched`: everything the broadcast channel ever accepted, and how much
  of it the run loop has taken; `sent`, `taken` likewise for each send channel. The
  contents of a channel is the rest. Histories make ordering and completeness plain
  invariants; they grow only with the bound on events.
- `shed`: what found the broadcast channel full. `dropped`: of each subscriber, the live
  messages that went past it while it was in the map, because its own channel or the
  broadcast channel was full or the row's `StoreEvent` was reported to have failed
  (`GoesPast`). Only who was connected at that moment has missed a message; who comes
  later with a cursor has a right to the row.
- `clients`, `clientCount`, `closed`: the map, the counter, and which send channels the
  run loop has closed. `panic`: which goroutine brought the process down; nothing moves
  afterwards.
- `handler`, `writer`, `reader`, `replay`: the four goroutines of a subscriber.

`Dispatch` serves all clients in one step: the loop holds `mu`, its sends never block, and
what a send finds depends on that client only. A subscriber's writePump could free a slot
between the first and the last send, which is the same as its step coming before the
whole loop or after it. A replay's send commutes in the same way. `Register` is the
handover on the unbuffered channel together with the critical section. A readPump that
reached its deferred calls waits in `leaving` until `Unregister` takes it; after the run
loop's end it waits for ever, as the goroutine does. `Server.Stop` is called by main when
the manager's Stop has returned, so it waits for idle workers.

The module models the deployment with a database (`relay.service` passes `--db`).
Without it nothing is stored and every message is a `Raw` one: the behaviours in which
every insert fails and no cursor is given. `MaxEvents` bounds the events, of which the
numbers that earlier processes have drawn are some, and a statement that goes wrong counts
as one more (`WithinBound`): the instances have behaviours with many events, with inherited
rows, and with faults, and not the product of all three.

`KeepsPromise` is the refinement. `Feed` has neither channel, goroutine nor query: a row is
committed, announced at most once to all who are online (the relay may refuse it to some or
withhold it from all), and a scan goes up beside it. The scan may pass over a row only if
the row has reached this subscriber, is still to be announced, or went past it while it was
online (`missed`). That a row is orphaned, or was refused to others, excuses nothing: a scan
must deliver it. `Feed` starts with any rows, all orphaned, and a `Crash` orphans those whose
turn had not come. What follows from this for one subscriber (`Complete`) follows from the
guards of `Feed`, so no run checks it; it is a lemma on which the end-to-end theorems rest.
The mapping: what the run loop has taken from the broadcast
channel is announced, what found the channel full is withheld; a subscriber is online from
its registration to its unregistration (`Place`); its scan runs from the registration until
the replay ends (`Scan`), from its cursor (`Since`) to the last row sent (`At`). Queries,
batches, pumps and the steps of stopping are stutters.

### Ingest

- `log`: what each host has published, with gaps; `position`: how far the open stream has
  got. Both are outside the repository, modelled from what the client does with them: a
  subscription with a cursor continues after it, one without starts with the next event.
- `phase`: where a client's goroutine is. `Receive` is the callback up to and including
  the cursor's update; the three outcomes of its `select`, and the panic on a closed
  channel, are actions of their own. What follows a stream's end (closing the
  connection) changes nothing another goroutine acts on, and is merged with the way back
  to the top of the loop. A timeout of the `select` is possible only when the channel is
  full: with room in it the send is ready at once.
- `wpc`, `task`: the workers. `HandleEvent` reaches StoreEvent; the INSERT then commits,
  fails, or commits and is reported to have failed. The handler returns no error, so the
  worker goes on to the cursor whether the row was made or not. Statements run under the
  manager's context: once it is cancelled none is begun, and one under way may still
  commit. `SaveCursor` is one step here; its two statements are apart in `Storage`.
- `ReceiveInfo`: an info event without a message, which is an optional field, is a nil
  dereference in the log line (`pds_client.go:305`) and ends the process.
- `AddHost` holds `Manager.mu` throughout, so it is one step; `StopClients` likewise.
- `dropped`, `unstored` record what was lost for a reason the log files tell. What is lost
  in neither way is lost without a trace.
- `from`, `base` are history variables. `from[h]` is the number after which the relay has
  been listening to the host without a gap, for the client's cursor; it is set by the first
  event a client without a cursor receives (to where its stream began), and taken from
  `base[h]` by a client that resumes. `SaveCursor` takes `base[h]` from `from[h]`, so that
  `base[h]` says the same for the saved cursor, across restarts. `NothingLostBelowCursor`
  speaks of the events after `base[h]`, up to the saved cursor, whichever process received
  them. Outside it are events the host published before, and also events the relay did
  receive when it had no cursor to come back with: a process that dies before its first save,
  or a cursor that cannot be read (`manager.go:117`), makes the next one subscribe live, and
  what was received and not stored is lost without a record, below a cursor saved later.
  The code promises nothing of these events and keeps no account of them; see the
  disagreements below.
- `Restart`: systemd starts the relay again after a panic, an exit, or a kill at any
  point (`Restart=always`); only the tables survive.

### Relay

`Relay` takes all of `Ingest` and, for the firehose, `Feed`, which `Firehose` implements;
they meet in the events table. A worker that begins an INSERT draws the next number
(`BeginInsert`); its commit is at once the end of Ingest's statement and a `Commit` of the
feed (`CommitRow`), and `origin` remembers which event the row holds. `RestartRelay` is a
restart of `Ingest` and a `Crash` of `Feed` in one step: subscribers are cut off, and rows
whose turn had not come are never announced, so that only a scan can deliver them to the
subscribers of the next process. `PdsSeqs` is empty, because a raw message says
nothing of a row. `RelayConstants` repeats the assumption of `Ingest`, which an INSTANCE does not
bring along.

### Storage, Verify, Health, Monitor

`Storage` splits StoreEvent into lookup, upsert, the write to the map (its begin and its
end) and insert, and SaveCursor into its two statements. An access to the Go map that
overlaps a write may be noticed by the runtime, which ends the process, or not, and then
sees the map before or after the write. `ON CONFLICT DO UPDATE` keeps the row's id and
still uses up a number of the sequence.

`Verify` reduces the cryptography to its outcome and keeps the bookkeeping: `counter++` is
a read and a write. `judged` and `failures` count what really happened.

`Health` runs the checks one after the other in any order while hosts, connections, the
database and the counters change. Requests only read what they share, so one at a time
is general. `steadyUp` and `steadyDown` remember what stayed as it was since the ingest
check listed the hosts.

`Monitor` runs the two side by side: the verification check reads `verified`, then
`failed`, and the workers may step between the two reads.

### Content and FeedViewer

A record is a function from its fields, nested ones by their path, to the Go type the
decoder gives them, and a text is the sequence of its pieces, a piece the sequence of its
words and of the fields whose values stand in it. That keeps what can go wrong, a field of
a type nobody expected, a field left out, the order, and leaves out the characters.
`Nested` is a fact about the CBOR library: a map inside a `map[string]interface{}` decodes
as `map[interface{}]interface{}`, so code that looks only for the former finds nothing.

`FeedViewer` has one action per click or callback, as the browser runs them. A closing
socket delivers no message but still calls `onclose`. The relay may send the messages of
`Content` in any order and any number of times, live and replayed, and events it could not
store under their host's number, so whatever `Firehose` can do is covered.

## What the runs check

`monitor_verdicts` checks for deadlock. The other runs turn that check off: the bounds stop
their behaviours, and a relay that has been stopped, or has panicked, does nothing more.

| Run | Instance | Shows |
|---|---|---|
| `firehose_safety` | 1 subscriber, 2 workers, capacities and batches of 2, 3 events, inherited rows, failing statements and lost answers | `TypeOK`, `LoopNeverPanics`, `RosterExact`, `ReplayOrdered`, `LiveOnce`, `ResumeComplete`, `LiveNearlyOrdered`, `KeepsPromise` |
| `firehose_live` | 1 subscriber, 1 worker, 2 events, inherited rows, fair | `DeadWriterLeaves`, `NothingStaysQueued`, `NobodyBlocks` |
| `ingest_cursor` | 1 host, 1 worker, 4 numbers, every cursor saved, 2 restarts, failing statements and lost answers | `NothingLostBelowCursor`, `SavedAdvances` |
| `ingest_workers` | 1 host, 2 workers, channel of 2, 4 numbers, every second cursor saved, fair | `TypeOK`, `StreamOrder`, `RunningLosesNothing`, `StopReturns`, `ClientsEnd`, `CatchesUp` |
| `relay_end_to_end` | 1 host, 1 worker, 2 events, 4 rows, 1 subscriber, 1 restart, fair | `RowsFollowHost`, `NothingLostEndToEnd`, `EventsArrive` |
| `monitor_verdicts` | 2 workers, 2 commits, 2 hosts | `NeverOvercounted`, `VerdictsExact`, `VerificationVerdict`, `WorstWins`, `IngestVerdict` |
| `storage_rows` | 2 hosts, 2 workers, 5 calls, 1 restart | `EventsKeepTheirHost`, `CursorsKeepTheirHost`, `SafeOnceSettled` |
| `viewer_page` | 3 sockets, a job card of each of 64 shapes, an update, a deletion, an identity event, 2 events without a row, page of 2 | `TypeOK`, `NoDuplicates`, `ConnectedReceives`, `EitherCopyAlike`, `DeletionsStayDeletions`, `CardsToldInFull` |

Four more runs expect a violation; see below.

Why the bounds are enough.

- `Firehose`: `TypeOK` and every other invariant of `firehose_safety`, and the refinement,
  are proved for all constants, so the run is there to find a mistake quickly. Three
  events with batches of two give a full batch, a short one and an event that arrives
  between them; capacities of two are full with fewer events than the bound allows.
  Some, all or none of the three may be inherited, so a replay meets rows nobody was ever
  told of below, between and above the ones that are broadcast. Two
  workers are enough for each order of two steps. The liveness properties speak of one
  subscriber; others cannot block it, because the run loop's sends never wait.
- `Ingest`: hosts share the event channel and the workers and nothing else, and each
  property speaks of one host. Four numbers with gaps exceed what the channel and the
  workers can hold at once, so events are dropped as well as queued. Two restarts give a
  crash of a process that itself resumed. `MaxDelay` is 1 except in `ingest_clean_shutdown`:
  no property counts time. The runs differ because they ask different
  questions: `ingest_cursor` restarts and lets statements fail but has the one worker its
  properties need, `ingest_workers` has two and never restarts, so that its liveness
  properties are not satisfied by the process going away.
- `Relay`: two events and four rows let each event be stored by the first process and
  again by the second; the second event's cursor is the one that is saved. The restart may
  fall between a row's commit and its announcement, and the subscriber may come after it,
  so rows that only a scan can deliver occur below a saved cursor. Statements fail
  in the other modules' runs and not here (`DbFails` is FALSE), except that a cancelled
  statement may have committed.
- `Monitor`: two workers are enough for a lost increment, and two commits for a check
  between a failure and a success; two hosts tell "all", "some" and "none" connected apart.
- `Storage`: two hosts and two workers give each race for a first row; the restart
  empties the cache while the rows stay.
- `FeedViewer`: three sockets are one that was replaced, the one that replaced it, and
  one created after the first one's `onclose`. Job cards have each combination of the five
  optional fields and each number type of an amount. Of the events without a row one has
  the number 0, which the page takes for no number, and one the number of a stored event.

`NothingLostBelowCursor`, `SavedAdvances` and `NothingLostEndToEnd` hold
with one worker. With the default of four they fail, because workers finish in any
order: the later cursor may be saved first and then overwritten, or be left standing while
the earlier event is lost, which `ingest_clean_shutdown` shows. What holds with any number
of workers is `RunningLosesNothing`: that an event is gone without a trace, neither stored nor
on record as lost nor on its way, and will not be asked for again, comes about only in a
shutdown or at the death of the process, never in a step of the running relay. Likewise
`RowsFollowHost` says for any number of workers that a process makes at most one row of an
event, and how far the rows may be out of the host's order: a row overtakes those of fewer
earlier events than there are workers. The run has one worker, whose rows are in order; the
theorem `RowsInOrder` has any number.

Two of the runs that expect a violation have a counterpart that says how far the trouble
goes. `SafeOnceSettled`: the fatal error of `storage_fatal` is confined to the first events
of a host, for a process that knows its hosts writes the map of ids no more.
`RunningLosesNothing`: what `ingest_clean_shutdown` loses is lost in the shutdown only.

### Fairness

`Firehose!Fairness`: Go's `select` picks at random among the ready cases, so each case of
the run loop is weakly fair; goroutines that can run do; statements return; on a
connection that was closed on this side the next write (a ping at the latest) and the
pending read fail. Nothing is assumed of subscribers, of new events, or of writes to an
open connection failing. `Ingest!Fairness`: the same for goroutines and statements; of a
host only that one which is dialled again and again answers at last, and that a stream
that has an event to deliver again and again delivers it. Nobody has to publish, stop the
relay, or crash. `Relay!FairRelaySpec`: the same, and of the feed only that a row that is
to be announced is announced or withheld in the end, which the run loop does.

## What the code does not keep

Each of these runs checks one sentence of the repository and TLC shows a behaviour that
breaks it. `PROJECT.json` ("findings") quotes the sentences.

| Run | Sentence | What happens |
|---|---|---|
| `firehose_no_panic` | clients can resume from any sequence number (`relay/README.md:29`) | the replay sends on the channel the run loop closed when the subscriber left: panic |
| `firehose_resume_point` | the same | live messages overtake the replay, so the largest number received is no cursor |
| `ingest_clean_shutdown` | graceful shutdown, cursor persistence (`relay/README.md:36`) | a later cursor is saved while an earlier event is cancelled: lost |
| `storage_fatal` | several hosts simultaneously (`relay/README.md:27`) | concurrent access to a Go map: fatal error |

Further disagreements met while modelling. The models have each of these behaviours, and no
run is spent on them:

- One ordered stream (`README.md:28`): workers draw numbers in one order
  (`main.go:171`) and broadcast in another.
- Global sequence numbers (`relay/README.md:28`): an event that could not be stored goes
  out with its host's own number (`main.go:186`, `server.go:222`).
- Graceful shutdown (`relay/README.md:36`): Stop closes the event channel while clients
  may still send to it (`manager.go:94`), a panic; and it saves no cursor, so the next
  process fetches again what has been stored.
- "start from beginning" (`postgres.go:203`, `manager.go:120`): a cursor of 0 is not sent
  (`pds_client.go:160-166`), and a host asked without one streams from now on. So when a
  process dies before it has saved a first cursor, or a saved one cannot be read, what it
  had received and not stored is lost: event 1 received, a crash, event 2 stored and cursor
  2 saved, and event 1 is missing below the cursor with no record of it. Ingest has this
  behaviour; `NothingLostBelowCursor` leaves it out, by name, with `base`.
- "every 100 events per host" (`manager.go:204`): only numbers divisible by 100 count, and
  a host's numbers have gaps.
- Verification statistics (`pipeline.go:166`) lose increments; the number of verification
  attempts (`prometheus.go:108`) counts a failed lookup twice (`identity.go:64`,
  `pipeline.go:75`).
- The viewer's button (`feed.html:281-286`): after Replay All the old socket's `onclose`
  forgets the new one, and a click on Disconnect opens another connection; so does a
  click on Cancel.
- Likes and reposts (`pds_client.go:394`, `:400`) never get content: the subject is a nested
  map, whose Go type is not the one the code asserts, so the viewer never shows one.
- A replayed event is a "create" whatever it was (`server.go:383`). Updates change their
  label; deletions have no content, and the viewer hides them.
- Only the first operation of a commit is looked at (`pds_client.go:236`); the others are
  neither shown nor named.
- An event that could not be stored carries its host's number, and the viewer takes it for
  the duplicate of the stored event with that number, or the other way round.
- "env vars can override" (`config.go:71`): no replacer turns the dot of a nested key into the
  underscore of a variable's name (`config.go:68-69`), so the nested keys, which are nearly
  all, cannot be overridden by a variable a shell can set.
- The statistics' counters may go backwards: a late write-back overwrites a larger count.

## What is proved

`tlapm` proves these for every value of the constants that satisfies the named assumptions
of the modules (`FirehoseConstants`, `IngestConstants`, ...): bounds are numbers, capacities
and periods are positive, the workers of the firehose and of `Relay` are finitely many
(`FiniteWorkers`: the configuration gives their number), a model value that
stands for "none" is none of the others. Nothing is assumed of the number of subscribers,
hosts, sockets or events. Of the four theorems
the table marks, the hypothesis that there is one worker is part of the statement: the relay
lets the configuration choose the number of workers, its default is four, and with two the
properties are false (`ingest_clean_shutdown`, `storage_fatal`). All other theorems hold for
any number.

| Theorem | Module | States |
|---|---|---|
| `Types` | `FirehoseProofs` | `[]TypeOK` |
| `Roster` | `FirehoseProofs` | `[]RosterExact` |
| `LoopIsSafe` | `FirehoseProofs` | `[]LoopNeverPanics` |
| `Resume` | `FirehoseProofs` | `[]ResumeComplete` |
| `Implements` | `FirehoseRefinement` | `Spec => KeepsPromise`: `Firehose` implements `Feed` |
| `NoRepeat` | `FirehoseRefinement` | `[]LiveOnce` |
| `ReplayGoesUp` | `FirehoseRefinement` | `[]ReplayOrdered` |
| `NearlyOrdered` | `FirehoseRefinement` | `[]LiveNearlyOrdered` |
| `TypeCorrect` | `IngestProofs` | `[]TypeOK` |
| `EventsInOrder` | `IngestProofs` | `[]StreamOrder` |
| `OnlyAnEndLoses` | `IngestProofs` | `RunningLosesNothing` |
| `CursorIsSafe` | `IngestProofs` | `[]NothingLostBelowCursor`, with one worker |
| `CursorAdvances` | `IngestProofs` | `SavedAdvances`, with one worker |
| `RelayIngests` | `RelayProofs` | `RelaySpec => In!Spec`: `Relay` implements `Ingest` |
| `RelayKeepsPromise` | `RelayProofs` | `RelaySpec => Spec`: `Relay` implements `Feed` |
| `RowsInOrder` | `RelayProofs` | `[]RowsFollowHost` |
| `StoredReachesSubscribers` | `RelayProofs` | `[]StoredIsServed`: a stored event reaches who asked for everything |
| `RelayLosesNothing` | `RelayProofs` | `InP!RunningLosesNothing`, of the relay |
| `EndToEnd` | `RelayProofs` | `[]NothingLostEndToEnd`, with one worker |
| `EventsStayWithHost` | `StorageProofs` | `[]EventsKeepTheirHost` |
| `CursorsStayWithHost` | `StorageProofs` | `[]CursorsKeepTheirHost` |
| `SettledIsSafe` | `StorageProofs` | `SafeOnceSettled` |
| `AloneNeverFatal` | `StorageProofs` | `[]NoFatalError`, with one worker |
| `StatisticsNeverTooLarge` | `MonitorProofs` | `[]NeverOvercounted` |
| `LabelledCounterExact` | `MonitorProofs` | `[]VerdictsExact` |
| `VerificationJudged` | `MonitorProofs` | `[]VerificationVerdict` |
| `WorstResultWins` | `MonitorProofs` | `[]WorstWins` |
| `IngestStatusJudged` | `MonitorProofs` | `[]IngestVerdict` |
| `PageTypes` | `FeedViewerProofs` | `[]TypeOK` |
| `ShownOnce` | `FeedViewerProofs` | `[]NoDuplicates` |
| `ConnectedIsOpen` | `FeedViewerProofs` | `[]ConnectedReceives` |
| `SameFromEitherCopy` | `FeedViewerProofs` | `[]EitherCopyAlike` |
| `DeletionsNeverCreate` | `FeedViewerProofs` | `[]DeletionsStayDeletions` |
| `CardsInFull` | `FeedViewerProofs` | `[]CardsToldInFull` |

The argument for `Firehose`:

- `Types`: `TypeOK` is inductive as it stands. That no channel exceeds its capacity follows
  from the guards of the sends; `Message` closes the types of the histories.
- `Roster`: `RosterExact` is not inductive alone, because the count is a cardinality
  and because whether a subscriber may be in the map depends on which of its goroutines
  have started. `RosterInv` adds for each subscriber how far handler, reader and channel
  may have got relative to each other (`RosterOf`), and that the map is finite.
- `LoopIsSafe`: a client in the map has an open channel, by `RosterInv`; so the loop's send
  and its close meet an open channel.
- `Resume`: `ResumeComplete` speaks of a finished replay only. `ResumeInv` says what holds
  before: for a client in the map with a replay under way, every committed row after its
  cursor is covered (queued, on its way, or refused), or is still ahead of the replay's
  position or in the batch at hand; and every row about to commit (`Pending`) will be
  broadcast after the client was registered. Covered means queued for it, on its way to it,
  or gone past it since it registered; rows that were orphaned before, by this process or
  an earlier one, are none of these, and the replay has to deliver them. `BatchIsPrefix` says that a query skips no row,
  `CoveredStays` that no step uncovers one.
- `Implements`: the abstract scan may pass over a row only if it is accounted for, which
  `ResumeInv` gives; the announcement must be of a row whose turn has not come. That needs
  three more invariants. `NumberInv`: no two workers hold the same number, and none
  holds one above `lastSeq`. `OutInv`: a row's live message leaves its worker once, after
  the commit, and never for an orphaned row. `ReplayInv`: the batch at hand consists of rows
  after the replay's position, and the position is not before the cursor.
- `NoRepeat`, `ReplayGoesUp`: `SentInv` says where each message of a subscriber's channel
  comes from (dispatched, or a row between cursor and position) and that the channel is
  sorted. A new live message is not among the dispatched ones, by `OutInv`; a new replayed
  row is above the position, by `ReplayInv`.
- `NearlyOrdered`: a smaller number published later must have been with another worker
  when the larger one went out. `OvertakenInv` counts, for each published message, the
  smaller ones after it and the workers that still hold one: together fewer than the
  workers, since the one that published holds none. Publishing a smaller number moves one
  from the second count to the first; a number drawn later is larger.

For `Feed`: `JoinInv` (who is away has received nothing, and a scan is not before its cursor)
and `NewsInv` (only a committed row is announced or withheld, and only what was announced
reaches a subscriber live) carry `ScanInv`, which says of a running scan what `Complete` says
of the finished one. A row that a crash orphans was to be announced to subscribers that the
crash cuts off, so nobody who is online counts on it.

For `Ingest`, one invariant builds on the other:

- `TypeCorrect`: `Types` adds to `TypeOK` that published numbers are positive, so that the
  cursor 0 is none of them.
- `EventsInOrder`: `StreamOrder` relates the channel to itself and to the workers.
  `OrderInv` adds the client: what is queued or held is not ahead of the cursor, and
  strictly behind it while an event waits to be enqueued; an open stream is not behind the
  cursor. So what a reconnection delivers is beyond all that is under way.
- `OnlyAnEndLoses`: `Kept` says what each step of a running relay does: what the client
  newly passes is on its way or traced, and what leaves the way has been traced. A worker's
  save lies at or below the client's cursor (`ClientOrder`), and an event published later is
  beyond all that is remembered (`Published`), so neither adds to `Lost`.
- `CursorIsSafe`: the property speaks of the saved cursor only, and of the events after
  `base`. `Heard` ties the two history variables to the cursors: the relay knows since when
  it has listened exactly if it has a number to go on from, so a client that resumes
  continues after the saved cursor what the last process had heard, with no gap. `Trail` says, while the
  manager's context is not done, of everything the client has passed that it is stored,
  on record as lost, or under way, which follows from `Kept`; so with one worker, at the
  save, everything up to that event is one of the first two, because what is still
  queued comes after it. `Trail` breaks at the shutdown, when the workers drain the
  channel without storing, and then no cursor is saved any more; that is why the two
  stand apart in `CursorInv`. `Published` and `StopOrder` close the cases of a client
  that is told to stop or has nothing to ask for.
- `CursorAdvances`: `BeyondSaved` keeps all that is queued, held, streamed or remembered
  beyond what is saved, across a restart too, when a client begins at the saved cursor.

For `Relay`:

- `RelayIngests` and `RelayKeepsPromise` map each step of the relay to a step or a stutter
  of `Ingest` and of `Feed`; what is proved of these holds of the relay.
- `RowsInOrder`: what an event overtakes is counted from the moment it draws its number.
  `LateRows` are the rows of earlier events with greater numbers, `LateWorkers` the workers
  that hold an earlier event and have drawn a greater number or none yet. `OvertakeInv` says
  that the two together are fewer than the workers: when the number is drawn no row has a
  greater one, and the worker that draws it is not late itself. A commit then moves a worker
  to the rows, and no step adds to either, because what is queued or ahead in the stream
  comes after all that workers hold or rows have. `RowOrder` says that an event with a row
  is `Behind` (`IngestProofs`): it is not queued, not ahead in the stream and with no worker
  that has not stored it, which is why it gets no second row.
- `StoredReachesSubscribers`: a stored event has its row (`Linked`), and the row has reached
  the subscriber, is to be announced to it, or went past it while it was online (`Complete`).
  The rows of a process that died before announcing them have only the first way.
- `EndToEnd`: an event between `base` and the saved cursor is stored or on record as lost,
  and what is stored has reached the subscriber in the sense above.

For `Storage` the two properties need that a worker that has an id has that of its host's
row (`WorkerIds`), which in turn needs that ids are unique and rows never change
(`RowIds`): the race for the map can make a worker miss an id, never see a wrong one.
`Settled` is inductive up to the next restart: a lookup then finds an id, so no worker comes
to the write, and without a write under way no access is noticed.

For `Monitor`: `NeverOvercounted` is not inductive, because a worker holds a value that it
will write over whatever the others have counted meanwhile. `Lags` says that a counter,
and every value about to be written to it, is behind by at least the number of workers that
have not written: a write then takes the counter up by no more than that worker's own
judgement. `Tally` counts for the running ingest check the hosts asked so far against those
that stayed as they were; `OverallInv` says that the status so far is the worst of the
results so far; `VerificationInv` remembers what the first of the two reads saw.

For `FeedViewer`: `PageInv` adds that every entry on the page has content or is a deletion
and that the seen numbers are finitely many, so that their count means something. What
`ShownEntries` says of a new entry, one more unless the page is full, keeps the page as long
as its counter says. Each entry
was made of one of the messages the relay may send (`TypeOK`); that the two copies of an
event look alike is then a fact about the functions of `Content` (`TypeSurvives`).
`CardsInFull` needs what `FlattenSeq` makes of a text, which the library defines by recursion.
Its one step, appending a piece, can be proved without an induction theorem: the function
the definition speaks of exists and is unique, or there would be a least place where it
fails (`ConcatenationExists`, `ConcatenationUnique`, by `LeastNumber`), so `FlattenAppend`
follows, and from it what one more word (`KeptAppend`) and one more piece (`TellsPiece`) add
to the fields told. `CardTells` then goes through the card piece by piece and through the
documented order field by field, and finds the same.

Only model-checked:

- Liveness, because fairness and ENABLED are out of the provers' reach:
  `DeadWriterLeaves`, `NothingStaysQueued`, `NobodyBlocks`, `StopReturns`, `ClientsEnd`,
  `CatchesUp`, `EventsArrive`.

Every safety property and every action property of the passing runs is the subject of a
theorem.

## What is not modelled

- Wording, formatting and rounding in the messages (`%.0f` rounds a job card's price), and
  the fields of a message no property tells apart (host, time, CID).
- Verification inside the event handler: it changes nothing the other modules see, so
  `Verify` runs apart. The cryptography and the PLC directory are outcomes.
- Time: a timeout may happen whenever its select can be waiting. So a host that is
  redialled without delay because it accepts and hangs up (`pds_client.go:133`) is in the
  model, but no property measures how often.
- Configuration is read once and has no state: its values are the constants. Gauges and
  counters of the metrics are written and never read by the relay, but for the one in
  `Verify`. `/stats` and the getters only read. The test client prints what it receives.
- Lexicons, deployment scripts, nginx, and the PDS itself, which is not in the repository.

## Plan

Done: the modules above, the refinement of `Feed` by `Firehose` and by `Relay`, a proof of
every safety property the passing runs check.

Left: model-checking two subscribers and two hosts in `Relay`, when a reduction makes them
affordable, and a module for the time between two dials of a host
(`pds_client.go:133`), should the documentation come to state a bound on it.
