---------------------------- MODULE StorageProofs ----------------------------
(***************************************************************************)
(* Proofs about Storage: however many workers race for the rows of however *)
(* many hosts, and however often the process crashes, events and cursors   *)
(* find the row of their own host.                                         *)
(***************************************************************************)
EXTENDS Storage, TLAPS

Steps == {"idle", "lookup", "upsert", "cache", "caching", "insert", "update"}

\* The columns hold ids and hosts, a worker is in one of the two calls.
Types ==
  /\ hosts \in [Hosts -> Nat] /\ serial \in Nat
  /\ hostIDs \in [Hosts -> Nat]
  /\ savedFor \in [Hosts -> Hosts \union {NoHost}]
  /\ events \subseteq [from : Hosts, host_id : Nat]
  /\ step \in [Workers -> Steps]
  /\ host \in [Workers -> Hosts] /\ hostID \in [Workers -> Nat]
  /\ call \in [Workers -> {"event", "cursor"}]

\* Ids come from the table's sequence and no two rows have the same one.
RowIds ==
  /\ \A h \in Hosts : hosts[h] <= serial
  /\ \A h, k \in Hosts : hosts[h] # 0 /\ hosts[h] = hosts[k] => h = k

\* A worker that works with an id has that of its host's row.
Knowing == {"cache", "caching", "insert", "update"}

WorkerIds ==
  \A w \in Workers : step[w] \in Knowing => hostID[w] = hosts[host[w]] /\ hostID[w] # 0

IdInv ==
  /\ Types /\ RowIds /\ WorkerIds
  /\ EventsKeepTheirHost /\ CursorsKeepTheirHost

-----------------------------------------------------------------------------

\* A lookup sees the id of the host's row or none, an overlapping write or not.
LEMMA SeenIsRow ==
  ASSUME IdInv, NEW w \in Workers, NEW id \in Seen(w)
  PROVE  id \in Nat /\ id \in {0, hosts[host[w]]}
  <1>1. CASE id = hostIDs[host[w]]
    BY <1>1 DEF IdInv, Types, EventsKeepTheirHost
  <1>2. CASE \E v \in Workers \ {w} :
               step[v] = "caching" /\ host[v] = host[w] /\ id = hostID[v]
    BY <1>2 DEF IdInv, Types, WorkerIds, Knowing
  <1> QED BY <1>1, <1>2 DEF Seen

\* An upsert leaves every row that is there its id, and gives a new row an id that
\* no row has.
LEMMA UpsertKeepsIds ==
  ASSUME Types, RowIds, NEW h \in Hosts, serial' = serial + 1,
         hosts' = [hosts EXCEPT ![h] = Row(h)]
  PROVE  /\ hosts' \in [Hosts -> Nat] /\ Row(h) \in Nat /\ Row(h) # 0
         /\ hosts'[h] = Row(h)
         /\ \A k \in Hosts : hosts[k] # 0 => hosts'[k] = hosts[k]
         /\ RowIds'
  <1> USE DEF Types
  <1>1. Row(h) \in Nat /\ Row(h) # 0 /\ Row(h) <= serial'
    BY DEF Row, RowIds
  <1>2. \A k \in Hosts : hosts'[k] = IF k = h THEN Row(h) ELSE hosts[k]
    OBVIOUS
  <1>3. \A k \in Hosts : k # h => hosts[k] = 0 \/ hosts[k] # Row(h)
    BY DEF Row, RowIds
  <1>4. \A k \in Hosts : hosts[k] # 0 => hosts'[k] = hosts[k]
    BY <1>2 DEF Row
  <1>5. \A k \in Hosts : hosts'[k] <= serial'
    BY <1>1, <1>2 DEF RowIds
  <1>6. \A j, k \in Hosts : hosts'[j] # 0 /\ hosts'[j] = hosts'[k] => j = k
    BY <1>1, <1>2, <1>3 DEF RowIds
  <1> QED BY <1>1, <1>2, <1>4, <1>5, <1>6 DEF RowIds

LEMMA InitIds == Init => IdInv
  BY StorageConstants DEF Init, Idle, IdInv, Types, RowIds, WorkerIds, Steps, Knowing,
     EventsKeepTheirHost, CursorsKeepTheirHost

\* No step loses an id or gives one to two rows.
LEMMA NextIds == IdInv /\ [Next]_vars => IdInv'
  <1> SUFFICES ASSUME IdInv, [Next]_vars PROVE IdInv'
    OBVIOUS
  <1> USE DEF IdInv, Types, Steps, Knowing, tableVars, boundVars, workerVars
  <1>1. ASSUME NEW w \in Workers, Fatal(w) PROVE IdInv'
    BY <1>1 DEF Fatal, RowIds, WorkerIds, EventsKeepTheirHost, CursorsKeepTheirHost
  <1>2. ASSUME NEW w \in Workers, Call(w) PROVE IdInv'
    <2>1. Types' /\ WorkerIds'
      BY <1>2 DEF Call, WorkerIds
    <2> QED BY <1>2, <2>1 DEF Call, RowIds, EventsKeepTheirHost, CursorsKeepTheirHost
  <1>3. ASSUME NEW w \in Workers, Lookup(w) PROVE IdInv'
    <2>1. CASE Fatal(w)
      BY <1>1, <2>1
    <2>2. CASE \E id \in Seen(w) :
                 /\ hostID' = [hostID EXCEPT ![w] = id]
                 /\ step' = [step EXCEPT ![w] = IF id = 0 THEN "upsert" ELSE "insert"]
                 /\ UNCHANGED <<tableVars, boundVars, up, hostIDs, call, host>>
      <3>1. PICK id \in Seen(w) :
              /\ hostID' = [hostID EXCEPT ![w] = id]
              /\ step' = [step EXCEPT ![w] = IF id = 0 THEN "upsert" ELSE "insert"]
              /\ UNCHANGED <<tableVars, boundVars, up, hostIDs, call, host>>
        BY <2>2
      <3>2. id \in Nat /\ id \in {0, hosts[host[w]]}
        BY SeenIsRow
      <3>3. Types' /\ WorkerIds'
        BY <3>1, <3>2 DEF WorkerIds
      <3> QED BY <3>1, <3>3 DEF RowIds, EventsKeepTheirHost, CursorsKeepTheirHost
    <2> QED BY <1>3, <2>1, <2>2 DEF Lookup
  <1>4. ASSUME NEW w \in Workers, UpsertHost(w) PROVE IdInv'
    <2>1. CASE UNCHANGED <<serial, hosts, hostID>> /\ step' = [step EXCEPT ![w] = "idle"]
      <3>1. Types' /\ WorkerIds'
        BY <1>4, <2>1 DEF UpsertHost, WorkerIds
      <3> QED BY <1>4, <2>1, <3>1 DEF UpsertHost, RowIds, EventsKeepTheirHost, CursorsKeepTheirHost
    <2>2. CASE /\ serial' = serial + 1
               /\ hosts' = [hosts EXCEPT ![host[w]] = Row(host[w])]
               /\ hostID' = [hostID EXCEPT ![w] = Row(host[w])]
               /\ step' = [step EXCEPT ![w] = IF call[w] = "event" THEN "cache" ELSE "update"]
      <3>1. UNCHANGED <<savedFor, events, hostIDs, host, call>>
        BY <1>4 DEF UpsertHost
      <3>2. /\ hosts' \in [Hosts -> Nat] /\ Row(host[w]) \in Nat /\ Row(host[w]) # 0
            /\ hosts'[host[w]] = Row(host[w])
            /\ \A k \in Hosts : hosts[k] # 0 => hosts'[k] = hosts[k]
            /\ RowIds'
        BY <2>2, UpsertKeepsIds
      <3>3. Types'
        <4>1. step' \in [Workers -> Steps] /\ hostID' \in [Workers -> Nat] /\ serial' \in Nat
          BY <2>2, <3>2
        <4> QED BY <3>1, <3>2, <4>1
      <3>4. WorkerIds'
        BY <2>2, <3>1, <3>2 DEF WorkerIds
      <3>5. EventsKeepTheirHost'
        BY <3>1, <3>2 DEF EventsKeepTheirHost
      <3> QED BY <3>1, <3>2, <3>3, <3>4, <3>5 DEF CursorsKeepTheirHost
    <2> QED BY <1>4, <2>1, <2>2 DEF UpsertHost
  <1>5. ASSUME NEW w \in Workers, BeginCaching(w) PROVE IdInv'
    <2>1. CASE Fatal(w)
      BY <1>1, <2>1
    <2>2. CASE ~Fatal(w)
      <3>1. /\ UNCHANGED <<tableVars, hostIDs, host, call, hostID>>
            /\ step[w] = "cache" /\ step' = [step EXCEPT ![w] = "caching"]
        BY <1>5, <2>2 DEF BeginCaching
      <3>2. Types' /\ WorkerIds'
        BY <3>1 DEF WorkerIds
      <3>3. RowIds' /\ EventsKeepTheirHost' /\ CursorsKeepTheirHost'
        BY <3>1 DEF RowIds, EventsKeepTheirHost, CursorsKeepTheirHost
      <3> QED BY <3>2, <3>3
    <2> QED BY <2>1, <2>2
  <1>6. ASSUME NEW w \in Workers, EndCaching(w) PROVE IdInv'
    <2>1. hostID[w] = hosts[host[w]]
      BY <1>6 DEF EndCaching, WorkerIds
    <2>2. Types' /\ WorkerIds'
      BY <1>6 DEF EndCaching, WorkerIds
    <2>3. EventsKeepTheirHost'
      BY <1>6, <2>1 DEF EndCaching, EventsKeepTheirHost
    <2> QED BY <1>6, <2>2, <2>3 DEF EndCaching, RowIds, CursorsKeepTheirHost
  <1>7. ASSUME NEW w \in Workers, InsertEvent(w) PROVE IdInv'
    <2>1. hostID[w] = hosts[host[w]] /\ hostID[w] # 0
      BY <1>7 DEF InsertEvent, WorkerIds
    <2>2. Types' /\ WorkerIds'
      BY <1>7 DEF InsertEvent, WorkerIds
    <2>3. EventsKeepTheirHost'
      BY <1>7, <2>1 DEF InsertEvent, EventsKeepTheirHost
    <2> QED BY <1>7, <2>2, <2>3 DEF InsertEvent, RowIds, CursorsKeepTheirHost
  <1>8. ASSUME NEW w \in Workers, UpdateHostCursor(w) PROVE IdInv'
    <2>1. RowsOf(hostID[w]) = {host[w]}
      BY <1>8 DEF UpdateHostCursor, WorkerIds, RowIds, RowsOf
    <2>2. Types' /\ WorkerIds'
      BY <1>8, <2>1 DEF UpdateHostCursor, WorkerIds
    <2>3. CursorsKeepTheirHost'
      BY <1>8, <2>1 DEF UpdateHostCursor, CursorsKeepTheirHost
    <2> QED BY <1>8, <2>2, <2>3 DEF UpdateHostCursor, RowIds, EventsKeepTheirHost
  <1>9. CASE Restart
    <2>1. Types' /\ WorkerIds'
      BY <1>9 DEF Restart, Idle, WorkerIds
    <2>2. EventsKeepTheirHost'
      BY <1>9 DEF Restart, EventsKeepTheirHost
    <2> QED BY <1>9, <2>1, <2>2 DEF Restart, RowIds, CursorsKeepTheirHost
  <1>10. CASE UNCHANGED vars
    BY <1>10 DEF vars, RowIds, WorkerIds, EventsKeepTheirHost, CursorsKeepTheirHost
  <1> HIDE DEF IdInv
  <1> QED BY <1>2, <1>3, <1>4, <1>5, <1>6, <1>7, <1>8, <1>9, <1>10 DEF Next

\* Of a settled process a worker's lookup finds an id, and nobody else writes the map.
LEMMA StaysSettled ==
  ASSUME IdInv, [Next]_vars, Settled, restarts' = restarts
  PROVE  Settled'
  <1>0. Types
    BY DEF IdInv
  <1> USE <1>0 DEF Types, Steps, tableVars, boundVars, workerVars
  <1>1. \A w \in Workers : ~Racing(w) /\ ~Fatal(w) /\ Seen(w) = {hostIDs[host[w]]}
    BY DEF Settled, Racing, Fatal, Seen
  <1>2. ASSUME NEW w \in Workers, Call(w) PROVE Settled'
    BY <1>2 DEF Call, Settled
  <1>3. ASSUME NEW w \in Workers, Lookup(w) PROVE Settled'
    <2>1. PICK id \in Seen(w) :
            /\ step' = [step EXCEPT ![w] = IF id = 0 THEN "upsert" ELSE "insert"]
            /\ UNCHANGED <<tableVars, boundVars, up, hostIDs, call, host>>
      BY <1>1, <1>3 DEF Lookup
    <2>2. id # 0
      BY <1>1 DEF Settled
    <2>3. step' = [step EXCEPT ![w] = "insert"]
      BY <2>1, <2>2
    <2> QED BY <2>1, <2>3 DEF Settled
  <1>4. ASSUME NEW w \in Workers, UpsertHost(w) PROVE Settled'
    <2>1. call[w] = "cursor" /\ UNCHANGED <<up, hostIDs, call>>
      BY <1>4 DEF UpsertHost, Settled
    <2>2. step' = [step EXCEPT ![w] = "update"] \/ step' = [step EXCEPT ![w] = "idle"]
      BY <1>4, <2>1 DEF UpsertHost
    <2> QED BY <2>1, <2>2 DEF Settled
  <1>5. ASSUME NEW w \in Workers, BeginCaching(w) \/ EndCaching(w) PROVE Settled'
    BY <1>5 DEF BeginCaching, EndCaching, Settled
  <1>6. ASSUME NEW w \in Workers, InsertEvent(w) \/ UpdateHostCursor(w) PROVE Settled'
    BY <1>6 DEF InsertEvent, UpdateHostCursor, Settled
  <1>7. CASE Restart
    BY <1>7 DEF Restart
  <1>8. CASE UNCHANGED vars
    BY <1>8 DEF vars, Settled
  <1> QED BY <1>2, <1>3, <1>4, <1>5, <1>6, <1>7, <1>8 DEF Next

-----------------------------------------------------------------------------

\* Every stored event refers to the row of the host it came from, and a cached id
\* is that of the host's row, whatever the workers' accesses to the unprotected
\* map see of each other.
THEOREM EventsStayWithHost == Spec => []EventsKeepTheirHost
  <1>1. IdInv => EventsKeepTheirHost
    BY DEF IdInv
  <1> QED BY InitIds, NextIds, <1>1, PTL DEF Spec

\* Once every host is in the map and no worker is writing it, no step short of a
\* restart makes a worker write it, and so none ends the process.
THEOREM SettledIsSafe == Spec => SafeOnceSettled
  <1>1. IdInv /\ [Next]_vars => (Settled /\ restarts' = restarts => Settled')
    BY StaysSettled
  <1> QED BY InitIds, NextIds, <1>1, PTL DEF Spec, SafeOnceSettled

\* The fatal error takes two workers: a relay configured with one never meets it.
THEOREM AloneNeverFatal ==
  ASSUME \A v, w \in Workers : v = w PROVE Spec => []NoFatalError
  <1>1. Init => NoFatalError
    BY DEF Init, NoFatalError
  <1>2. NoFatalError /\ [Next]_vars => NoFatalError'
    <2>1. \A w \in Workers : ~Fatal(w)
      BY DEF Fatal, Racing
    <2> QED BY <2>1 DEF Next, vars, NoFatalError, Call, Lookup, UpsertHost, BeginCaching,
               EndCaching, InsertEvent, UpdateHostCursor, Restart
  <1> QED BY <1>1, <1>2, PTL DEF Spec

\* A cursor is saved in the row of the host whose events it counts.
THEOREM CursorsStayWithHost == Spec => []CursorsKeepTheirHost
  <1>1. IdInv => CursorsKeepTheirHost
    BY DEF IdInv
  <1> QED BY InitIds, NextIds, <1>1, PTL DEF Spec

=============================================================================
