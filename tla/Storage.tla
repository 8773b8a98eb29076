------------------------------ MODULE Storage -------------------------------
(***************************************************************************)
(* The hosts and events tables (relay/internal/storage/postgres.go): how   *)
(* EventStore.StoreEvent and CursorStore.SaveCursor, called by all ingest  *)
(* workers at once, find the row of a host.  EventStore keeps the row's id *)
(* in a Go map that nothing protects; the process may crash at any point   *)
(* and start again with the map empty.                                     *)
(*                                                                         *)
(* A Go map notices some of the accesses that overlap a write and ends the *)
(* process ("concurrent map read and map write"); those it does not notice *)
(* see the map as it was before the write or after it.                     *)
(***************************************************************************)
EXTENDS Integers, FiniteSets

CONSTANTS
  Hosts,       \* upstream servers
  Workers,     \* ingest workers
  NoHost,      \* a cursor column that is still NULL
  MaxCalls,    \* bound: StoreEvent and SaveCursor calls in one behaviour
  MaxRestarts  \* bound: restarts of the process

ASSUME StorageConstants ==
  /\ NoHost \notin Hosts
  /\ MaxCalls \in Nat /\ MaxRestarts \in Nat

VARIABLES
  hosts,     \* hosts table: the id of each hostname's row, 0 when it has none
  serial,    \* last id drawn for the table
  savedFor,  \* hosts table, column cursor: the host whose events it counts
  events,    \* events table: the host an event came from and its host_id
  calls, restarts,
  up,        \* the process is running
  hostIDs,   \* EventStore.hostIDs, 0 for a key that is not in the map
  step,      \* what each worker does next
  call,      \* which of the two it is in
  host,      \* for which host
  hostID     \* the id it works with

tableVars  == <<hosts, serial, savedFor, events>>
boundVars  == <<calls, restarts>>
workerVars == <<step, call, host, hostID>>

vars == <<tableVars, boundVars, up, hostIDs, workerVars>>

Idle == [w \in Workers |-> "idle"]

\* The tables are new and empty.
Init ==
  /\ hosts = [h \in Hosts |-> 0]
  /\ serial = 0
  /\ savedFor = [h \in Hosts |-> NoHost]
  /\ events = {}
  /\ calls = 0
  /\ restarts = 0
  /\ up = TRUE
  /\ hostIDs = [h \in Hosts |-> 0]
  /\ step = Idle
  /\ call = [w \in Workers |-> "event"]
  /\ host \in [Workers -> Hosts]
  /\ hostID = [w \in Workers |-> 0]

\* another worker is in the middle of a write to the map
Racing(w) == \E v \in Workers \ {w} : step[v] = "caching"

\* what the Go runtime may do when it notices an overlapping access
Fatal(w) ==
  /\ Racing(w)
  /\ up' = FALSE
  /\ UNCHANGED <<tableVars, boundVars, hostIDs, workerVars>>

-----------------------------------------------------------------------------

\* A worker calls StoreEvent, or SaveCursor for the event it stored.
Call(w) ==
  /\ up
  /\ step[w] = "idle"
  /\ calls < MaxCalls
  /\ calls' = calls + 1
  /\ \E h \in Hosts : host' = [host EXCEPT ![w] = h]
  /\ \/ call' = [call EXCEPT ![w] = "event"] /\ step' = [step EXCEPT ![w] = "lookup"]
     \/ call' = [call EXCEPT ![w] = "cursor"] /\ step' = [step EXCEPT ![w] = "upsert"]
  /\ UNCHANGED <<tableVars, restarts, up, hostIDs, hostID>>

\* hostID, ok := es.hostIDs[hostname].  While another worker's write to this key
\* is under way the lookup may also see what is being written.
SeenUncached(w) == {0}
Seen(w) ==
  {hostIDs[host[w]]} \union
    {hostID[v] : v \in {x \in Workers \ {w} : step[x] = "caching" /\ host[x] = host[w]}}

Lookup(w) ==
  /\ up
  /\ step[w] = "lookup"
  /\ \/ Fatal(w)
     \/ \E id \in Seen(w) :
          /\ hostID' = [hostID EXCEPT ![w] = id]
          /\ step' = [step EXCEPT ![w] = IF id = 0 THEN "upsert" ELSE "insert"]
          /\ UNCHANGED <<tableVars, boundVars, up, hostIDs, call, host>>

\* INSERT ... ON CONFLICT (hostname) DO UPDATE ... RETURNING id: an existing row
\* keeps its id, though an id has been drawn for the row that was not made.
RowRenewed(h) == serial + 1
Row(h)        == IF hosts[h] = 0 THEN serial + 1 ELSE hosts[h]

UpsertHost(w) ==
  /\ up
  /\ step[w] = "upsert"
  /\ \/ /\ serial' = serial + 1
        /\ hosts' = [hosts EXCEPT ![host[w]] = Row(host[w])]
        /\ hostID' = [hostID EXCEPT ![w] = Row(host[w])]
        /\ step' = [step EXCEPT ![w] = IF call[w] = "event" THEN "cache" ELSE "update"]
     \/ /\ step' = [step EXCEPT ![w] = "idle"]
        /\ UNCHANGED <<serial, hosts, hostID>>
  /\ UNCHANGED <<savedFor, events, boundVars, up, hostIDs, call, host>>

\* es.hostIDs[hostname] = hostID: the write begins, and ends.
BeginCaching(w) ==
  /\ up
  /\ step[w] = "cache"
  /\ \/ Fatal(w)
     \/ /\ step' = [step EXCEPT ![w] = "caching"]
        /\ UNCHANGED <<tableVars, boundVars, up, hostIDs, call, host, hostID>>

EndCaching(w) ==
  /\ up
  /\ step[w] = "caching"
  /\ hostIDs' = [hostIDs EXCEPT ![host[w]] = hostID[w]]
  /\ step' = [step EXCEPT ![w] = "insert"]
  /\ UNCHANGED <<tableVars, boundVars, up, call, host, hostID>>

InsertEvent(w) ==
  /\ up
  /\ step[w] = "insert"
  /\ step' = [step EXCEPT ![w] = "idle"]
  /\ \/ events' = events \union {[from |-> host[w], host_id |-> hostID[w]]}
     \/ UNCHANGED events
  /\ UNCHANGED <<hosts, serial, savedFor, boundVars, up, hostIDs, call, host, hostID>>

\* UPDATE hosts SET cursor ... WHERE id = $2
EveryRow(id) == {h \in Hosts : hosts[h] # 0}
RowsOf(id)   == {h \in Hosts : hosts[h] = id}

UpdateHostCursor(w) ==
  /\ up
  /\ step[w] = "update"
  /\ step' = [step EXCEPT ![w] = "idle"]
  /\ \/ savedFor' = [h \in Hosts |-> IF h \in RowsOf(hostID[w]) THEN host[w] ELSE savedFor[h]]
     \/ UNCHANGED savedFor
  /\ UNCHANGED <<hosts, serial, events, boundVars, up, hostIDs, call, host, hostID>>

\* The process ends, by a fatal error or otherwise, and is started again.
Restart ==
  /\ restarts < MaxRestarts
  /\ restarts' = restarts + 1
  /\ up' = TRUE
  /\ hostIDs' = [h \in Hosts |-> 0]
  /\ step' = Idle
  /\ UNCHANGED <<tableVars, calls, call, host, hostID>>

Next ==
  \/ \E w \in Workers :
       \/ Call(w) \/ Lookup(w) \/ UpsertHost(w) \/ BeginCaching(w) \/ EndCaching(w)
       \/ InsertEvent(w) \/ UpdateHostCursor(w)
  \/ Restart

Spec == Init /\ [][Next]_vars

-----------------------------------------------------------------------------
(* Properties.                                                             *)

\* However the workers race for a host's first row, and across restarts: every
\* stored event refers to the row of the host it came from, and the cached ids
\* still are the ids of the rows.
EventsKeepTheirHost ==
  /\ \A e \in events : hosts[e.from] = e.host_id /\ e.host_id # 0
  /\ \A h \in Hosts : hostIDs[h] \in {0, hosts[h]}

\* A cursor saved for one host never lands in the row of another, although the
\* row is found by one statement and updated by a second one.
CursorsKeepTheirHost == \A h \in Hosts : savedFor[h] \in {h, NoHost}

\* every host's id is in the map, and no worker is about to put one there
Settled ==
  /\ up /\ \A h \in Hosts : hostIDs[h] # 0
  /\ \A w \in Workers : /\ step[w] \notin {"cache", "caching"}
                        /\ step[w] = "upsert" => call[w] = "cursor"

\* postgres.go:235, for any number of workers: the unprotected map can bring the relay
\* down only while some host is new to it.  A process that has stored an event of
\* each of its hosts never writes the map again, so its workers race no more.
SafeOnceSettled == [][Settled /\ restarts' = restarts => Settled']_vars

-----------------------------------------------------------------------------

\* relay/README.md:27, "Connect to multiple Personal Data Servers
\* simultaneously": storing their events must not bring the relay down.
NoFatalError == up

=============================================================================
