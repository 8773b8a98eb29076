----------------------------- MODULE RelayProofs -----------------------------
(***************************************************************************)
(* Proofs about Relay: it keeps the promise of Feed, its inbound half is   *)
(* Ingest, and what the two give together from end to end.  What depends   *)
(* on the saved cursor is proved for one worker, of which alone it is true;*)
(* all else for any number.                                                *)
(***************************************************************************)
EXTENDS Relay, FeedProofs, FiniteSetTheorems

InP == INSTANCE IngestProofs

-----------------------------------------------------------------------------
(* The two parts.                                                          *)

\* Relay's instance of Ingest and that of the proofs are the same text.
LEMMA SameIngest ==
  /\ In!Init <=> InP!Init
  /\ [In!Next]_(In!vars) <=> [InP!Next]_(InP!vars)
  BY Zenon DEF
         In!outsideVars, In!tableVars, In!lossVars, In!stopVars, In!chanVars,
         In!clientVars, In!workerVars, In!vars, In!NoTask, In!Init, In!Up,
         In!Newest, In!Publish, In!StreamStart, In!Unknown, In!Unheard, In!Resume, In!AddHost, In!Top,
         In!LoopTop, In!Asks, In!Connect, In!ConnectFails, In!BackoffOver,
         In!AfterStream, In!StreamEnds, In!Ahead, In!Advance, In!Receive,
         In!ReceiveInfo, In!Room, In!Enqueue, In!EnqueueTimesOut,
         In!EnqueueCancelled, In!EnqueuePanics, In!TakeEvent, In!SaveDue,
         In!AfterEvent, In!HandleEvent, In!FinishInsert, In!Keep, In!ReportFailure,
         In!InsertCommits, In!InsertFails, In!InsertUnanswered, In!CanSave,
         In!SaveFails, In!SaveCursor, In!WorkerEnds, In!StopCancel, In!StopClients,
         In!StopClose, In!StopWait, In!Exit, In!Restart, In!Client, In!Insert,
         In!Worker, In!Stop, In!Next, In!Min, In!Max, InP!outsideVars,
         InP!tableVars, InP!lossVars, InP!stopVars, InP!chanVars, InP!clientVars,
         InP!workerVars, InP!vars, InP!NoTask, InP!Init, InP!Up, InP!Newest,
         InP!Publish, InP!StreamStart, InP!Unknown, InP!Unheard, InP!Resume, InP!AddHost, InP!Top,
         InP!LoopTop, InP!Asks, InP!Connect, InP!ConnectFails, InP!BackoffOver,
         InP!AfterStream, InP!StreamEnds, InP!Ahead, InP!Advance, InP!Receive,
         InP!ReceiveInfo, InP!Room, InP!Enqueue, InP!EnqueueTimesOut,
         InP!EnqueueCancelled, InP!EnqueuePanics, InP!TakeEvent, InP!SaveDue,
         InP!AfterEvent, InP!HandleEvent, InP!FinishInsert, InP!Keep,
         InP!ReportFailure, InP!InsertCommits, InP!InsertFails,
         InP!InsertUnanswered, InP!CanSave, InP!SaveFails, InP!SaveCursor,
         InP!WorkerEnds, InP!StopCancel, InP!StopClients, InP!StopClose,
         InP!StopWait, InP!Exit, InP!Restart, InP!Client, InP!Insert, InP!Worker,
         InP!Stop, InP!Next, InP!Min, InP!Max

\* Every step of the relay is a step of ingest, or leaves it alone.
LEMMA RelayStepsIngest == [RelayNext]_relayVars => [In!Next]_(In!vars)
  <1>1. UNCHANGED ingestVars => UNCHANGED In!vars
    BY DEF ingestVars, In!outsideVars, In!tableVars, In!lossVars, In!stopVars, In!chanVars, In!clientVars, In!workerVars, In!vars
  <1>2. IngestAlone => In!Next
    BY DEF IngestAlone, In!Next, In!Worker
  <1>3. FeedAlone => UNCHANGED ingestVars
    BY DEF FeedAlone
  <1>4. RestartRelay => In!Next
    BY DEF RestartRelay, In!Next
  <1>5. ASSUME NEW w \in Workers, BeginInsert(w) \/ EndInsert(w) PROVE In!Next
    BY <1>5 DEF BeginInsert, EndInsert, In!Next, In!Worker, In!Insert
  <1>6. UNCHANGED relayVars => UNCHANGED ingestVars
    BY DEF relayVars
  <1> QED BY <1>1, <1>2, <1>3, <1>4, <1>5, <1>6 DEF RelayNext

\* Every step of the relay is a step of the feed, or leaves it alone.
LEMMA RelayStepsFeed == [RelayNext]_relayVars => [Next]_vars
  <1>1. IngestAlone => UNCHANGED vars
    BY DEF IngestAlone
  <1>2. FeedAlone => Next
    BY DEF FeedAlone, Next
  <1>3. RestartRelay => Next
    BY DEF RestartRelay, Next
  <1>4. ASSUME NEW w \in Workers, BeginInsert(w) \/ EndInsert(w) PROVE [Next]_vars
    BY <1>4 DEF BeginInsert, EndInsert, CommitRow, Next
  <1>5. UNCHANGED relayVars => UNCHANGED vars
    BY DEF relayVars
  <1> QED BY <1>1, <1>2, <1>3, <1>4, <1>5 DEF RelayNext

\* The relay, crashes and restarts included, does what Ingest says.
THEOREM RelayIngests == RelaySpec => In!Spec
  <1>1. RelayInit => In!Init
    BY DEF RelayInit
  <1> QED BY <1>1, RelayStepsIngest, PTL DEF RelaySpec, In!Spec

\* The relay keeps the promise to its subscribers although the rows are those its
\* own workers commit, in whatever order, and die with the same process.
THEOREM RelayKeepsPromise == RelaySpec => Spec
  <1>1. RelayInit => Init
    BY DEF RelayInit
  <1> QED BY <1>1, RelayStepsFeed, PTL DEF RelaySpec, Spec

\* A subscriber of the relay whose scan has run to its end lacks only rows that are
\* coming to it or went past it while it was online.
LEMMA RelayComplete == RelaySpec => []Complete
  BY RelayKeepsPromise, FeedComplete, PTL

\* The inductive invariant of the event channel holds in the whole relay.
LEMMA RelayChannel == RelaySpec => []InP!OrderInv
  <1>1. RelayInit => InP!OrderInv
    BY SameIngest, RelayConstants, InP!InitOrder DEF RelayInit
  <1>2. InP!OrderInv /\ [RelayNext]_relayVars => InP!OrderInv'
    BY SameIngest, RelayStepsIngest, RelayConstants, InP!NextOrder
  <1> QED BY <1>1, <1>2, PTL DEF RelaySpec

\* With one worker, nothing at or below a saved cursor is missing without a trace.
LEMMA RelayCursorIsSafe ==
  ASSUME InP!OneWorker PROVE RelaySpec => []InP!NothingLostBelowCursor
  <1>1. RelayInit => InP!CursorInv
    BY SameIngest, RelayConstants, InP!InitCursor DEF RelayInit
  <1>2. InP!CursorInv /\ [RelayNext]_relayVars => InP!CursorInv'
    BY InP!OneWorker, SameIngest, RelayStepsIngest, RelayConstants, InP!NextCursor
  <1>3. InP!CursorInv => InP!NothingLostBelowCursor
    BY DEF InP!CursorInv, InP!NothingLost, InP!NothingLostBelowCursor, InP!Traced
  <1> QED BY <1>1, <1>2, <1>3, PTL DEF RelaySpec

-----------------------------------------------------------------------------
(* The rows and the events they hold.                                      *)

Inserting(w) == wpc[w] = "insert"

\* The numbers are those event_seq has given out, and a row names the event it
\* holds and the process that stored it.
RowTypes ==
  /\ lastSeq \in Nat /\ drawn \in [Workers -> Nat]
  /\ \A w \in Workers : /\ drawn[w] <= lastSeq
                        /\ Inserting(w) => 0 < drawn[w] /\ drawn[w] \in Numbers
  /\ rows \subseteq Numbers /\ DOMAIN origin = Numbers
  /\ \A s \in rows : /\ 0 < s /\ s <= lastSeq
                     /\ origin[s].seq \in Nat
                     /\ origin[s].run \in Nat /\ origin[s].run <= restarts

\* Every event that is stored has its row.
Linked == \A h \in Hosts : \A n \in stored[h] : RowsOf(h, n) # {}

LinkInv == RowTypes /\ Linked

\* What the rows of this process hold is behind, and held by one row only.
RowOrder ==
  /\ \A s \in rows : origin[s].host \in Hosts
  /\ \A s \in rows : \A h \in Hosts : \A n \in Nat :
       origin[s].host = h /\ origin[s].seq = n /\ origin[s].run = restarts => InP!Behind(h, n)
  /\ \A s, t \in rows : SameStream(s, t) /\ origin[s].seq = origin[t].seq => s = t

\* Rows of this process, and workers, that the n-th event of h overtakes when it
\* gets the number k: those that have a greater number or will get one.
LateRows(h, n, k) ==
  {t \in rows : /\ k < t /\ origin[t].seq < n
                /\ origin[t].host = h /\ origin[t].run = restarts}
LateWorkers(h, n, k) ==
  {w \in Workers : /\ wpc[w] = "handle" \/ (Inserting(w) /\ k < drawn[w])
                   /\ task[w].host = h /\ task[w].seq < n}
FewLate(h, n, k) ==
  Cardinality(LateRows(h, n, k)) + Cardinality(LateWorkers(h, n, k)) < Cardinality(Workers)

\* The n-th event of h has the number k, from this process.
Numbered(h, n, k) ==
  \/ /\ k \in rows /\ origin[k].run = restarts
     /\ origin[k].host = h /\ origin[k].seq = n
  \/ \E w \in Workers : Inserting(w) /\ drawn[w] = k /\ task[w].host = h /\ task[w].seq = n

\* Every number of this process overtakes few; what earlier ones did stays as it was.
OvertakeInv ==
  /\ \A h \in Hosts : \A n, k \in Nat : Numbered(h, n, k) => FewLate(h, n, k)
  /\ \A s \in rows :
       origin[s].run # restarts => Cardinality(Overtaken(s)) < Cardinality(Workers)

OrderedRowsInv ==
  /\ InP!OrderInv /\ InP!Held
  /\ LinkInv /\ RowOrder /\ OvertakeInv

\* Relay's actions that the lemmas about ingest are cited for.
LEMMA SameActions ==
  \A w \in Workers : In!FinishInsert(w) <=> InP!FinishInsert(w)
  BY Zenon DEF In!FinishInsert, In!Up, In!AfterEvent, In!SaveDue, In!outsideVars, In!stopVars,
     In!chanVars, In!clientVars, InP!FinishInsert, InP!Up, InP!AfterEvent, InP!SaveDue,
     InP!outsideVars, InP!stopVars, InP!chanVars, InP!clientVars

\* What the two parts leave alone when they step by themselves.
LEMMA AloneSteps ==
  ASSUME InP!Types, IngestAlone \/ FeedAlone \/ UNCHANGED relayVars
  PROVE  /\ UNCHANGED <<rows, lastSeq, drawn, origin, stored, restarts>>
         /\ \A w \in Workers : Inserting(w)' => Inserting(w)
  <1> USE RelayConstants, InP!TypeFacts DEF Inserting
  <1>1. CASE IngestAlone
    <2>1. UNCHANGED <<rows, lastSeq, drawn, origin>>
      BY <1>1 DEF IngestAlone, vars, rowVars, tableVars
    <2>2. ASSUME NEW h \in Hosts, In!Publish(h) \/ In!AddHost(h) \/ In!Client(h)
          PROVE  UNCHANGED <<stored, restarts, wpc>>
      BY <2>2 DEF In!Publish, In!AddHost, In!Client, In!LoopTop, In!Connect, In!ConnectFails,
         In!BackoffOver, In!StreamEnds, In!Receive, In!ReceiveInfo, In!Enqueue,
         In!EnqueueTimesOut, In!EnqueueCancelled, In!EnqueuePanics, In!outsideVars,
         In!tableVars, In!workerVars
    <2>3. ASSUME NEW u \in Workers, In!TakeEvent(u) \/ In!SaveCursor(u) \/ In!WorkerEnds(u)
          PROVE  /\ UNCHANGED <<stored, restarts>>
                 /\ \A w \in Workers : Inserting(w)' => Inserting(w)
      BY <2>3 DEF In!TakeEvent, In!SaveCursor, In!WorkerEnds, In!outsideVars, In!tableVars
    <2>4. ASSUME In!Stop \/ In!Exit PROVE UNCHANGED <<stored, restarts, wpc>>
      BY <2>4 DEF In!Stop, In!StopCancel, In!StopClients, In!StopClose, In!StopWait, In!Exit,
         In!outsideVars, In!tableVars, In!workerVars
    <2>5. /\ UNCHANGED <<stored, restarts>>
          /\ \A w \in Workers : Inserting(w)' => Inserting(w)
      BY ONLY <1>1, <2>2, <2>3, <2>4 DEF IngestAlone, Inserting
    <2> QED BY ONLY <2>1, <2>5
  <1>2. CASE FeedAlone
    <2>1. rows' = rows
      BY <1>2 DEF FeedAlone, Announce, Withhold, Join, Leave, Replay, EndScan, rowVars
    <2> QED BY <1>2, <2>1 DEF FeedAlone, ingestVars, tableVars
  <1>3. CASE UNCHANGED relayVars
    BY <1>3 DEF relayVars, ingestVars, tableVars, vars, rowVars
  <1> QED BY <1>1, <1>2, <1>3

\* What BeginInsert does: a statement begun under the worker's hand has the next
\* number.
LEMMA BeginInsertDraws ==
  ASSUME InP!Types, RowTypes, NEW u \in Workers, BeginInsert(u)
  PROVE  /\ UNCHANGED <<rows, origin, stored, restarts>>
         /\ lastSeq' \in Nat /\ lastSeq <= lastSeq'
         /\ \A w \in Workers : w # u => wpc'[w] = wpc[w] /\ drawn'[w] = drawn[w]
         /\ drawn' \in [Workers -> Nat] /\ drawn'[u] <= lastSeq'
         /\ Inserting(u)' => drawn'[u] = lastSeq + 1 /\ lastSeq + 1 \in Numbers
  <1> USE RelayConstants, InP!TypeFacts
  <1>1. UNCHANGED <<rows, origin, stored, restarts>>
    BY DEF BeginInsert, In!HandleEvent, In!outsideVars, In!tableVars, vars, rowVars
  <1>2. \A w \in Workers : w # u => wpc'[w] = wpc[w]
    BY DEF BeginInsert, In!HandleEvent
  <1>3. CASE cancelled
    <2>1. lastSeq' = lastSeq /\ drawn' = drawn
      BY <1>3 DEF BeginInsert
    <2>2. ~Inserting(u)'
      BY <1>3 DEF BeginInsert, In!HandleEvent, In!AfterEvent, Inserting
    <2> QED BY <1>1, <1>2, <2>1, <2>2 DEF RowTypes
  <1>4. CASE ~cancelled
    <2>1. /\ lastSeq' = lastSeq + 1 /\ lastSeq + 1 \in Numbers
          /\ drawn' = [drawn EXCEPT ![u] = lastSeq + 1]
      BY <1>4 DEF BeginInsert
    <2> QED BY <1>1, <1>2, <2>1 DEF RowTypes
  <1> QED BY <1>3, <1>4

\* What EndInsert does: nothing to the rows, or a row that was not there.
LEMMA EndInsertEffect ==
  ASSUME InP!Types, RowTypes, NEW u \in Workers, EndInsert(u)
  PROVE  /\ InP!FinishInsert(u) /\ Inserting(u) /\ ~Inserting(u)'
         /\ \A w \in Workers : w # u => wpc'[w] = wpc[w]
         /\ UNCHANGED <<lastSeq, drawn, restarts>>
         /\ \/ UNCHANGED <<rows, origin, stored>>
            \/ /\ drawn[u] \in Numbers \ rows
               /\ rows' = rows \union {drawn[u]}
               /\ origin' = [origin EXCEPT ![drawn[u]] =
                    [host |-> task[u].host, seq |-> task[u].seq, run |-> restarts]]
               /\ stored' = [stored EXCEPT ![task[u].host] = @ \union {task[u].seq}]
  <1> USE RelayConstants, InP!TypeFacts
  <1>1. In!FinishInsert(u)
    BY DEF EndInsert, In!InsertCommits, In!InsertUnanswered, In!InsertFails
  <1>2. /\ Inserting(u) /\ ~Inserting(u)' /\ restarts' = restarts
        /\ \A w \in Workers : w # u => wpc'[w] = wpc[w]
    BY <1>1 DEF In!FinishInsert, In!AfterEvent, In!outsideVars, Inserting
  <1>3. CASE In!InsertFails(u) /\ UNCHANGED <<vars, tableVars>>
    BY <1>1, <1>2, <1>3, SameActions DEF In!InsertFails, vars, rowVars, tableVars
  <1>4. CASE In!Keep(u) /\ CommitRow(u)
    <2>1. drawn[u] \in Numbers \ rows
      BY <1>4 DEF CommitRow, Commit
    <2> QED BY <1>1, <1>2, <1>4, <2>1, SameActions DEF CommitRow, In!Keep
  <1> QED BY <1>3, <1>4 DEF EndInsert, In!InsertCommits, In!InsertUnanswered

LEMMA InitLink == RelayInit => LinkInv
  <1> SUFFICES ASSUME RelayInit PROVE LinkInv
    OBVIOUS
  <1>1. \A w \in Workers : ~Inserting(w)
    BY DEF RelayInit, In!Init, Inserting
  <1> QED BY <1>1 DEF RelayInit, Init, In!Init, LinkInv, RowTypes, Linked

LEMMA NextLink == InP!OrderInv /\ LinkInv /\ [RelayNext]_relayVars => LinkInv'
  <1> SUFFICES ASSUME InP!OrderInv, LinkInv, [RelayNext]_relayVars PROVE LinkInv'
    OBVIOUS
  <1>0. InP!Types /\ RowTypes /\ Linked
    BY DEF InP!OrderInv, LinkInv
  <1> USE <1>0, FeedConstants
  <1>1. CASE IngestAlone \/ FeedAlone \/ UNCHANGED relayVars
    <2>1. /\ UNCHANGED <<rows, lastSeq, drawn, origin, stored, restarts>>
          /\ \A w \in Workers : Inserting(w)' => Inserting(w)
      BY <1>1, AloneSteps
    <2>2. RowTypes'
      BY <2>1 DEF RowTypes
    <2>3. Linked'
      BY <2>1 DEF Linked, RowsOf
    <2> QED BY <2>2, <2>3 DEF LinkInv
  <1>2. ASSUME NEW u \in Workers, BeginInsert(u) PROVE LinkInv'
    <2>1. Linked'
      BY <1>2, BeginInsertDraws DEF Linked, RowsOf
    <2>2. /\ UNCHANGED <<rows, origin, stored, restarts>>
          /\ lastSeq' \in Nat /\ lastSeq <= lastSeq'
          /\ \A w \in Workers : w # u => wpc'[w] = wpc[w] /\ drawn'[w] = drawn[w]
          /\ drawn' \in [Workers -> Nat] /\ drawn'[u] <= lastSeq'
          /\ Inserting(u)' => drawn'[u] = lastSeq + 1 /\ lastSeq + 1 \in Numbers
      BY <1>2, BeginInsertDraws
    <2>3. \A w \in Workers : /\ drawn'[w] <= lastSeq'
                             /\ Inserting(w)' => 0 < drawn'[w] /\ drawn'[w] \in Numbers
      BY <2>2 DEF RowTypes, Inserting
    <2>4. \A s \in rows' : s \in Nat /\ 0 < s /\ s <= lastSeq'
      BY <2>2 DEF RowTypes
    <2>5. RowTypes'
      BY <2>2, <2>3, <2>4 DEF RowTypes
    <2> QED BY <2>1, <2>5 DEF LinkInv
  <1>3. ASSUME NEW u \in Workers, EndInsert(u) PROVE LinkInv'
    <2>1. /\ Inserting(u) /\ ~Inserting(u)' /\ UNCHANGED <<lastSeq, drawn, restarts>>
          /\ \A w \in Workers : Inserting(w)' => Inserting(w)
      BY <1>3, EndInsertEffect DEF Inserting
    <2>2. CASE UNCHANGED <<rows, origin, stored>>
      <3>1. RowTypes'
        BY <2>1, <2>2 DEF RowTypes
      <3>2. Linked'
        BY <2>2 DEF Linked, RowsOf
      <3> QED BY <3>1, <3>2 DEF LinkInv
    <2>3. CASE /\ drawn[u] \in Numbers \ rows
               /\ rows' = rows \union {drawn[u]}
               /\ origin' = [origin EXCEPT ![drawn[u]] =
                    [host |-> task[u].host, seq |-> task[u].seq, run |-> restarts]]
               /\ stored' = [stored EXCEPT ![task[u].host] = @ \union {task[u].seq}]
      <3>1. /\ origin'[drawn[u]].host = task[u].host /\ origin'[drawn[u]].seq = task[u].seq
            /\ origin'[drawn[u]].run = restarts /\ DOMAIN origin' = Numbers
            /\ \A s \in rows : origin'[s] = origin[s]
        BY <2>3 DEF RowTypes
      <3>2. task[u].seq \in Nat /\ restarts \in Nat
        BY RelayConstants, InP!TypeFacts DEF InP!Types, InP!TypeOK
      <3>3. RowTypes'
        <4>1. \A w \in Workers : /\ drawn'[w] <= lastSeq'
                                 /\ Inserting(w)' => 0 < drawn'[w] /\ drawn'[w] \in Numbers
          BY <2>1 DEF RowTypes
        <4>2. 0 < drawn[u] /\ drawn[u] <= lastSeq
          BY <2>1 DEF RowTypes
        <4>3. \A s \in rows' : /\ 0 < s /\ s <= lastSeq'
                               /\ origin'[s].seq \in Nat
                               /\ origin'[s].run \in Nat /\ origin'[s].run <= restarts'
          BY <2>1, <2>3, <3>1, <3>2, <4>2 DEF RowTypes
        <4>4. rows' \subseteq Numbers
          BY <2>3 DEF RowTypes
        <4> QED BY <2>1, <3>1, <4>1, <4>3, <4>4 DEF RowTypes
      <3>4. ASSUME NEW h \in Hosts, NEW n \in stored'[h] PROVE RowsOf(h, n)' # {}
        <4>1. CASE n \in stored[h]
          <5>1. PICK s \in rows : origin[s].host = h /\ origin[s].seq = n
            BY <4>1 DEF Linked, RowsOf
          <5> QED BY <2>3, <3>1, <5>1 DEF RowsOf
        <4>2. CASE n \notin stored[h]
          <5>1. h = task[u].host /\ n = task[u].seq
            BY <2>3, <3>4, <4>2, RelayConstants, InP!TypeFacts
          <5> QED BY <2>3, <3>1, <5>1 DEF RowsOf
        <4> QED BY <4>1, <4>2
      <3> QED BY <3>3, <3>4 DEF LinkInv, Linked
    <2> QED BY <1>3, <2>2, <2>3, EndInsertEffect
  <1>4. CASE RestartRelay
    <2>1. /\ UNCHANGED <<rows, lastSeq, origin, stored>>
          /\ restarts' = restarts + 1 /\ drawn' = [w \in Workers |-> 0]
          /\ \A w \in Workers : ~Inserting(w)'
      BY <1>4 DEF RestartRelay, Crash, In!Restart, In!tableVars, Inserting
    <2>2. restarts \in Nat
      BY DEF InP!Types, InP!TypeOK
    <2> QED BY <2>1, <2>2 DEF LinkInv, RowTypes, Linked, RowsOf
  <1> QED BY <1>1, <1>2, <1>3, <1>4 DEF RelayNext

-----------------------------------------------------------------------------
(* The order of the rows.                                                  *)

\* What is behind stays behind while the process lives.
LEMMA BehindKept ==
  ASSUME InP!OrderInv, [RelayNext]_relayVars, restarts' = restarts,
         NEW h \in Hosts, NEW n \in Nat, InP!Behind(h, n)
  PROVE  InP!Behind(h, n)'
  <1>1. [InP!Next]_(InP!vars)
    BY RelayStepsIngest, SameIngest
  <1>2. ~InP!Restart
    BY DEF InP!Restart, InP!OrderInv, InP!Types, InP!TypeOK
  <1>3. CASE InP!Next
    BY <1>2, <1>3, RelayConstants, InP!BehindStays
  <1>4. CASE UNCHANGED InP!vars
    BY <1>4 DEF InP!vars, InP!clientVars, InP!chanVars, InP!workerVars, InP!Behind,
       InP!Queued, InP!Busy
  <1> QED BY <1>1, <1>3, <1>4

\* Counts of two sets stay below a bound when the sets shrink, or when what one of
\* them gains the other loses.
LEMMA CountsStay ==
  ASSUME NEW A, NEW B, IsFiniteSet(A), IsFiniteSet(B), NEW N \in Nat,
         Cardinality(A) + Cardinality(B) < N, NEW C, NEW D,
         \/ C \subseteq A /\ D \subseteq B
         \/ \E x : \E y \in B : C \subseteq A \union {x} /\ D \subseteq B \ {y}
  PROVE  Cardinality(C) + Cardinality(D) < N
  <1>1. Cardinality(A) \in Nat /\ Cardinality(B) \in Nat
    BY FS_CardinalityType
  <1>2. CASE C \subseteq A /\ D \subseteq B
    <2>1. /\ IsFiniteSet(C) /\ Cardinality(C) <= Cardinality(A)
          /\ IsFiniteSet(D) /\ Cardinality(D) <= Cardinality(B)
      BY <1>2, FS_Subset
    <2>2. Cardinality(C) \in Nat /\ Cardinality(D) \in Nat
      BY <2>1, FS_CardinalityType
    <2> QED BY <1>1, <2>1, <2>2
  <1>3. ASSUME NEW x, NEW y \in B, C \subseteq A \union {x}, D \subseteq B \ {y}
        PROVE  Cardinality(C) + Cardinality(D) < N
    <2>1. /\ IsFiniteSet(A \union {x}) /\ Cardinality(A \union {x}) <= Cardinality(A) + 1
          /\ IsFiniteSet(B \ {y}) /\ Cardinality(B \ {y}) = Cardinality(B) - 1
      BY <1>1, FS_AddElement, FS_RemoveElement
    <2>2. /\ IsFiniteSet(C) /\ Cardinality(C) <= Cardinality(A \union {x})
          /\ IsFiniteSet(D) /\ Cardinality(D) <= Cardinality(B \ {y})
      BY <1>3, <2>1, FS_Subset
    <2>3. /\ Cardinality(C) \in Nat /\ Cardinality(D) \in Nat
          /\ Cardinality(A \union {x}) \in Nat /\ Cardinality(B \ {y}) \in Nat
      BY <2>1, <2>2, FS_CardinalityType
    <2> QED BY <1>1, <2>1, <2>2, <2>3
  <1> QED BY <1>2, <1>3

LEMMA LateFacts ==
  ASSUME RowTypes
  PROVE  /\ rows \subseteq Nat /\ IsFiniteSet(rows)
         /\ Cardinality(Workers) \in Nat
         /\ \A h, n, k : /\ IsFiniteSet(LateRows(h, n, k))
                         /\ Cardinality(LateRows(h, n, k)) \in Nat
                         /\ IsFiniteSet(LateWorkers(h, n, k))
                         /\ Cardinality(LateWorkers(h, n, k)) \in Nat
  <1>1. lastSeq \in Nat /\ rows \subseteq Nat /\ \A s \in rows : 0 < s /\ s <= lastSeq
    BY FeedConstants DEF RowTypes
  <1>2. IsFiniteSet(rows)
    <2>1. rows \subseteq 1..lastSeq
      BY <1>1
    <2>2. IsFiniteSet(1..lastSeq)
      BY <1>1, FS_Interval
    <2> QED BY <2>1, <2>2, FS_Subset
  <1>3. \A h, n, k : IsFiniteSet(LateRows(h, n, k))
    BY <1>2, FS_Subset DEF LateRows
  <1>4. \A h, n, k : IsFiniteSet(LateWorkers(h, n, k))
    BY FiniteWorkers, FS_Subset DEF LateWorkers
  <1> QED BY <1>1, <1>2, <1>3, <1>4, FiniteWorkers, FS_CardinalityType

\* Whoever holds an earlier event than those of the channel has held it before.
LEMMA HandsStay ==
  ASSUME InP!Types, IngestAlone \/ FeedAlone \/ UNCHANGED relayVars,
         NEW h \in Hosts, NEW n \in Nat, \A i \in InP!Queued(h) : n < chan[i].seq,
         NEW w \in Workers, wpc'[w] \in {"handle", "insert"},
         task'[w].host = h, task'[w].seq < n
  PROVE  wpc'[w] = wpc[w] /\ task'[w] = task[w]
  <1> USE RelayConstants, InP!TypeFacts
  <1>1. ASSUME NEW g \in Hosts, In!Publish(g) \/ In!AddHost(g) \/ In!Client(g)
        PROVE  UNCHANGED <<wpc, task>>
    BY <1>1 DEF In!Publish, In!AddHost, In!Client, In!LoopTop, In!Connect, In!ConnectFails,
       In!BackoffOver, In!StreamEnds, In!Receive, In!ReceiveInfo, In!Enqueue,
       In!EnqueueTimesOut, In!EnqueueCancelled, In!EnqueuePanics, In!workerVars
  <1>2. ASSUME In!Stop \/ In!Exit PROVE UNCHANGED <<wpc, task>>
    BY <1>2 DEF In!Stop, In!StopCancel, In!StopClients, In!StopClose, In!StopWait, In!Exit,
       In!workerVars
  <1>3. ASSUME NEW u \in Workers, In!SaveCursor(u) \/ In!WorkerEnds(u)
        PROVE  wpc'[w] = wpc[w] /\ task'[w] = task[w]
    BY <1>3 DEF In!SaveCursor, In!WorkerEnds
  <1>4. ASSUME NEW u \in Workers, In!TakeEvent(u)
        PROVE  wpc'[w] = wpc[w] /\ task'[w] = task[w]
    <2>1. /\ chan # <<>> /\ task' = [task EXCEPT ![u] = Head(chan)]
          /\ wpc' = [wpc EXCEPT ![u] = "handle"]
      BY <1>4 DEF In!TakeEvent
    <2>2. 1 \in DOMAIN chan /\ Head(chan) = chan[1] /\ chan[1].seq \in Nat
      BY <2>1, InP!ChanShrinks, InP!ChanEntries
    <2>3. w # u
      <3> SUFFICES ASSUME w = u PROVE FALSE
        OBVIOUS
      <3>1. chan[1].host = h /\ chan[1].seq < n
        BY <2>1, <2>2
      <3>2. n < chan[1].seq
        BY <2>2, <3>1 DEF InP!Queued
      <3> QED BY <2>2, <3>1, <3>2
    <2> QED BY <2>1, <2>3
  <1>5. FeedAlone \/ UNCHANGED relayVars => UNCHANGED <<wpc, task>>
    BY DEF FeedAlone, ingestVars, relayVars
  <1> QED BY <1>1, <1>2, <1>3, <1>4, <1>5 DEF IngestAlone

\* A step of one part alone leaves an INSERT its event.
LEMMA AloneKeepsTasks ==
  ASSUME InP!Types, IngestAlone \/ FeedAlone \/ UNCHANGED relayVars, NEW w \in Workers,
         Inserting(w)'
  PROVE  task'[w] = task[w]
  <1> USE RelayConstants, InP!TypeFacts DEF Inserting
  <1>1. ASSUME NEW g \in Hosts, In!Publish(g) \/ In!AddHost(g) \/ In!Client(g)
        PROVE  task'[w] = task[w]
    BY <1>1 DEF In!Publish, In!AddHost, In!Client, In!LoopTop, In!Connect, In!ConnectFails,
       In!BackoffOver, In!StreamEnds, In!Receive, In!ReceiveInfo, In!Enqueue,
       In!EnqueueTimesOut, In!EnqueueCancelled, In!EnqueuePanics, In!workerVars
  <1>2. ASSUME In!Stop \/ In!Exit PROVE task'[w] = task[w]
    BY <1>2 DEF In!Stop, In!StopCancel, In!StopClients, In!StopClose, In!StopWait, In!Exit,
       In!workerVars
  <1>3. ASSUME NEW u \in Workers, In!TakeEvent(u) \/ In!SaveCursor(u) \/ In!WorkerEnds(u)
        PROVE  task'[w] = task[w]
    BY <1>3 DEF In!TakeEvent, In!SaveCursor, In!WorkerEnds
  <1>4. FeedAlone \/ UNCHANGED relayVars => task' = task
    BY DEF FeedAlone, ingestVars, relayVars
  <1> QED BY <1>1, <1>2, <1>3, <1>4 DEF IngestAlone

\* The rows a process finds stay as they are, and those it adds are its own.
LEMMA RowsGrow ==
  ASSUME InP!Types, RowTypes, [RelayNext]_relayVars, ~RestartRelay
  PROVE  /\ restarts' = restarts
         /\ \/ UNCHANGED <<rows, origin>>
            \/ \E d : /\ rows' = rows \union {d} /\ d \notin rows
                     /\ origin'[d].run = restarts
                     /\ \A t \in rows : origin'[t] = origin[t]
  <1>1. CASE IngestAlone \/ FeedAlone \/ UNCHANGED relayVars
    BY <1>1, AloneSteps
  <1>2. ASSUME NEW u \in Workers, BeginInsert(u) PROVE UNCHANGED <<rows, origin, restarts>>
    BY <1>2, BeginInsertDraws
  <1>3. ASSUME NEW u \in Workers, EndInsert(u)
        PROVE  /\ restarts' = restarts
               /\ \/ UNCHANGED <<rows, origin>>
                  \/ \E d : /\ rows' = rows \union {d} /\ d \notin rows
                           /\ origin'[d].run = restarts
                           /\ \A t \in rows : origin'[t] = origin[t]
    <2>1. restarts' = restarts
      BY <1>3, EndInsertEffect
    <2>2. CASE /\ drawn[u] \in Numbers \ rows
               /\ rows' = rows \union {drawn[u]}
               /\ origin' = [origin EXCEPT ![drawn[u]] =
                    [host |-> task[u].host, seq |-> task[u].seq, run |-> restarts]]
      <3>1. /\ drawn[u] \notin rows /\ origin'[drawn[u]].run = restarts
            /\ \A t \in rows : origin'[t] = origin[t]
        BY <2>2 DEF RowTypes
      <3> QED BY <2>1, <2>2, <3>1
    <2> QED BY <1>3, <2>1, <2>2, EndInsertEffect
  <1> QED BY <1>1, <1>2, <1>3 DEF RelayNext

\* What has a number overtakes no more than it did when it got it.
LEMMA FewLateStays ==
  ASSUME InP!Types, RowTypes, [RelayNext]_relayVars, ~RestartRelay,
         NEW h \in Hosts, NEW n \in Nat, \A i \in InP!Queued(h) : n < chan[i].seq,
         NEW k \in Nat, FewLate(h, n, k)
  PROVE  FewLate(h, n, k)'
  <1> USE RelayConstants, InP!TypeFacts
  <1> DEFINE A == LateRows(h, n, k)
             B == LateWorkers(h, n, k)
  <1>1. ASSUME \/ A' \subseteq A /\ B' \subseteq B
               \/ \E x : \E y \in B : A' \subseteq A \union {x} /\ B' \subseteq B \ {y}
        PROVE  FewLate(h, n, k)'
    <2>1. /\ IsFiniteSet(A) /\ IsFiniteSet(B) /\ Cardinality(Workers) \in Nat
          /\ Cardinality(A) + Cardinality(B) < Cardinality(Workers)
      BY LateFacts DEF FewLate
    <2>2. Cardinality(A') + Cardinality(B') < Cardinality(Workers)
      <3> HIDE DEF A, B
      <3>1. CASE A' \subseteq A /\ B' \subseteq B
        BY <2>1, <3>1, CountsStay
      <3>2. CASE \E x : \E y \in B : A' \subseteq A \union {x} /\ B' \subseteq B \ {y}
        <4> HIDE RelayConstants, InP!TypeFacts
        <4> QED BY <2>1, <3>2, CountsStay, SMTT(30)
      <3> QED BY <1>1, <3>1, <3>2
    <2> QED BY <2>2 DEF FewLate
  <1>2. CASE IngestAlone \/ FeedAlone \/ UNCHANGED relayVars
    <2>1. UNCHANGED <<rows, drawn, origin, restarts>>
      BY <1>2, AloneSteps
    <2>2. \A w \in Workers : wpc'[w] \in {"handle", "insert"} /\ task'[w].host = h /\ task'[w].seq < n
            => wpc'[w] = wpc[w] /\ task'[w] = task[w]
      BY <1>2, HandsStay
    <2>3. A' \subseteq A /\ B' \subseteq B
      BY <2>1, <2>2 DEF LateRows, LateWorkers, Inserting
    <2> QED BY <1>1, <2>3
  <1>3. ASSUME NEW u \in Workers, BeginInsert(u) PROVE FewLate(h, n, k)'
    <2>1. /\ UNCHANGED <<rows, origin, restarts>>
          /\ \A w \in Workers : w # u => wpc'[w] = wpc[w] /\ drawn'[w] = drawn[w]
      BY <1>3, BeginInsertDraws
    <2>2. wpc[u] = "handle" /\ task' = task
      BY <1>3 DEF BeginInsert, In!HandleEvent
    <2>3. A' \subseteq A /\ B' \subseteq B
      BY <2>1, <2>2 DEF LateRows, LateWorkers, Inserting
    <2> QED BY <1>1, <2>3
  <1>4. ASSUME NEW u \in Workers, EndInsert(u) PROVE FewLate(h, n, k)'
    <2>1. /\ Inserting(u) /\ \A w \in Workers : w # u => wpc'[w] = wpc[w]
          /\ UNCHANGED <<drawn, restarts>>
      BY <1>4, EndInsertEffect
    <2>2. task' = task /\ wpc'[u] \in {"save", "idle"}
      <3>1. InP!FinishInsert(u) /\ wpc \in [Workers -> InP!WorkerSteps]
        BY <1>4, EndInsertEffect
      <3> QED BY <3>1 DEF InP!FinishInsert, InP!AfterEvent
    <2>3. B' \subseteq B \ {u}
      BY <2>1, <2>2 DEF LateWorkers, Inserting
    <2>4. CASE UNCHANGED <<rows, origin>>
      <3>1. A' \subseteq A
        BY <2>1, <2>4 DEF LateRows
      <3> QED BY <1>1, <2>3, <3>1
    <2>5. CASE /\ drawn[u] \in Numbers \ rows
               /\ rows' = rows \union {drawn[u]}
               /\ origin' = [origin EXCEPT ![drawn[u]] =
                    [host |-> task[u].host, seq |-> task[u].seq, run |-> restarts]]
      <3>1. /\ origin'[drawn[u]].host = task[u].host /\ origin'[drawn[u]].seq = task[u].seq
            /\ \A s \in rows : origin'[s] = origin[s]
        BY <2>5 DEF RowTypes
      <3>2. A' \subseteq A \union {drawn[u]}
        BY <2>1, <2>5, <3>1 DEF LateRows
      <3>3. drawn[u] \in A' => u \in B
        BY <2>1, <3>1 DEF LateRows, LateWorkers
      <3>4. CASE u \in B
        BY <1>1, <2>3, <3>2, <3>4
      <3>5. CASE u \notin B
        BY <1>1, <2>3, <3>2, <3>3, <3>5
      <3> QED BY <3>4, <3>5
    <2> QED BY <1>4, <2>4, <2>5, EndInsertEffect
  <1> QED BY <1>2, <1>3, <1>4 DEF RelayNext

\* So every row overtakes few.
LEMMA FewOvertaken ==
  ASSUME RowTypes, RowOrder, OvertakeInv, NEW s \in rows
  PROVE  Cardinality(Overtaken(s)) < Cardinality(Workers)
  <1>1. CASE origin[s].run # restarts
    BY <1>1 DEF OvertakeInv
  <1>2. CASE origin[s].run = restarts
    <2>1. PICK h \in Hosts, n \in Nat : h = origin[s].host /\ n = origin[s].seq
      BY DEF RowOrder, RowTypes
    <2>2. s \in Nat /\ Numbered(h, n, s)
      BY <1>2, <2>1, LateFacts DEF Numbered
    <2>3. FewLate(h, n, s)
      BY <2>1, <2>2 DEF OvertakeInv
    <2>4. Overtaken(s) = LateRows(h, n, s)
      BY <1>2, <2>1 DEF Overtaken, LateRows, SameStream
    <2>5. /\ Cardinality(LateRows(h, n, s)) \in Nat
          /\ Cardinality(LateWorkers(h, n, s)) \in Nat /\ Cardinality(Workers) \in Nat
      BY LateFacts
    <2> QED BY <2>3, <2>4, <2>5 DEF FewLate
  <1> QED BY <1>1, <1>2

\* What gets a number has overtaken no row, and at most the other workers.
LEMMA DrawnOvertakesFew ==
  ASSUME InP!Types, RowTypes, NEW u \in Workers, BeginInsert(u), Inserting(u)',
         NEW h, NEW n \in Nat, n = task[u].seq, NEW k \in Nat, k = drawn'[u]
  PROVE  FewLate(h, n, k)'
  <1>1. UNCHANGED <<rows, task>> /\ k = lastSeq + 1
    BY BeginInsertDraws DEF BeginInsert, In!HandleEvent
  <1>2. \A s \in rows : s \in Nat /\ s < k
    BY <1>1, LateFacts DEF RowTypes
  <1>3. LateRows(h, n, k)' = {}
    BY <1>1, <1>2 DEF LateRows
  <1>4. LateWorkers(h, n, k)' \subseteq Workers \ {u}
    BY <1>1 DEF LateWorkers
  <1>5. IsFiniteSet(Workers \ {u}) /\ Cardinality(Workers \ {u}) = Cardinality(Workers) - 1
    BY FiniteWorkers, FS_RemoveElement
  <1>6. /\ Cardinality(LateWorkers(h, n, k)') <= Cardinality(Workers) - 1
        /\ Cardinality(LateWorkers(h, n, k)') \in Nat /\ Cardinality(Workers) \in Nat
    BY <1>4, <1>5, FS_Subset, FS_CardinalityType, FiniteWorkers
  <1>7. Cardinality(LateRows(h, n, k)') = 0
    BY <1>3, FS_EmptySet
  <1> QED BY <1>1, <1>2, <1>6, <1>7 DEF FewLate

LEMMA InitRows == RelayInit => OrderedRowsInv
  <1> SUFFICES ASSUME RelayInit PROVE OrderedRowsInv
    OBVIOUS
  <1>1. InP!OrderInv
    BY SameIngest, RelayConstants, InP!InitOrder DEF RelayInit
  <1>2. InP!Held /\ rows = {} /\ \A w \in Workers : ~Inserting(w)
    BY DEF RelayInit, Init, In!Init, InP!Held, InP!Holding, Inserting
  <1> QED BY <1>1, <1>2, InitLink DEF OrderedRowsInv, RowOrder, OvertakeInv, Numbered

\* What the rows hold stays in order, and a new row comes from a worker's hand.
LEMMA NextRowOrder ==
  ASSUME OrderedRowsInv, [RelayNext]_relayVars PROVE RowOrder'
  <1>1. InP!OrderInv /\ InP!Types /\ InP!Held /\ RowTypes /\ RowOrder
    BY DEF OrderedRowsInv, InP!OrderInv, LinkInv
  <1>2. ASSUME UNCHANGED <<rows, origin, restarts>> PROVE RowOrder'
    <2>1. \A s \in rows : \A h \in Hosts : \A n \in Nat :
            origin[s].host = h /\ origin[s].seq = n /\ origin[s].run = restarts
              => InP!Behind(h, n)'
      BY <1>1, <1>2, BehindKept DEF RowOrder
    <2> QED BY <1>1, <1>2, <2>1 DEF RowOrder, SameStream
  <1>3. ASSUME IngestAlone \/ FeedAlone \/ UNCHANGED relayVars PROVE RowOrder'
    BY <1>1, <1>2, <1>3, AloneSteps
  <1>4. ASSUME NEW u \in Workers, BeginInsert(u) PROVE RowOrder'
    BY <1>1, <1>2, <1>4, BeginInsertDraws
  <1>5. ASSUME NEW u \in Workers, EndInsert(u) PROVE RowOrder'
    <2>1. InP!FinishInsert(u) /\ Inserting(u) /\ restarts' = restarts
      BY <1>1, <1>5, EndInsertEffect
    <2>2. CASE UNCHANGED <<rows, origin>>
      BY <1>2, <2>1, <2>2
    <2>3. CASE /\ drawn[u] \in Numbers \ rows
               /\ rows' = rows \union {drawn[u]}
               /\ origin' = [origin EXCEPT ![drawn[u]] =
                    [host |-> task[u].host, seq |-> task[u].seq, run |-> restarts]]
      <3>1. PICK k \in Hosts : k = task[u].host
        BY <1>1, <2>1 DEF InP!Held, InP!Holding, Inserting
      <3>2. PICK m \in Nat : m = task[u].seq
        BY <1>1, RelayConstants, InP!TypeFacts
      <3>3. /\ origin'[drawn[u]].host = k /\ origin'[drawn[u]].seq = m
            /\ origin'[drawn[u]].run = restarts
            /\ \A s \in rows : origin'[s] = origin[s]
        BY <2>3, <3>1, <3>2, <1>1 DEF RowTypes
      <3>4. task' = task
        BY <2>1 DEF InP!FinishInsert
      <3>5. InP!Behind(k, m)'
        BY <1>1, <2>1, <3>1, <3>2, <3>4, RelayConstants, InP!InsertedIsBehind DEF InP!Behind
      <3>6. \A s \in rows : \A h \in Hosts : \A n \in Nat :
              origin[s].host = h /\ origin[s].seq = n /\ origin[s].run = restarts
                => InP!Behind(h, n)'
        BY <1>1, <2>1, BehindKept DEF RowOrder
      <3>7. \A s \in rows' : \A h \in Hosts : \A n \in Nat :
              origin'[s].host = h /\ origin'[s].seq = n /\ origin'[s].run = restarts
                => InP!Behind(h, n)'
        BY <2>3, <3>1, <3>3, <3>5, <3>6
      <3>8. \A s \in rows : origin[s].host = k /\ origin[s].run = restarts => origin[s].seq # m
        <4>1. u \in InP!Busy(k) /\ wpc[u] # "save"
          BY <2>1, <3>1 DEF InP!Busy, Inserting
        <4> QED BY <1>1, <3>1, <3>2, <4>1 DEF RowOrder, InP!Behind
      <3>9. \A s, t \in rows' :
              origin'[s].host = origin'[t].host /\ origin'[s].run = origin'[t].run
                /\ origin'[s].seq = origin'[t].seq => s = t
        BY <1>1, <2>3, <3>3, <3>8 DEF RowOrder, SameStream
      <3>10. \A s \in rows' : origin'[s].host \in Hosts
        BY <1>1, <2>3, <3>1, <3>3 DEF RowOrder
      <3> QED BY <2>1, <3>7, <3>9, <3>10 DEF RowOrder, SameStream
    <2> QED BY <1>1, <1>5, <2>2, <2>3, EndInsertEffect
  <1>6. ASSUME RestartRelay PROVE RowOrder'
    <2>1. UNCHANGED <<rows, origin>> /\ restarts' = restarts + 1
      BY <1>6 DEF RestartRelay, Crash, In!Restart
    <2>2. \A s \in rows' : origin'[s].run # restarts'
      BY <1>1, <2>1 DEF RowTypes, InP!Types, InP!TypeOK
    <2> QED BY <1>1, <2>1, <2>2 DEF RowOrder, SameStream
  <1> QED BY <1>3, <1>4, <1>5, <1>6 DEF RelayNext

LEMMA NumberedIsPast ==
  ASSUME InP!OrderInv, RowOrder, NEW h \in Hosts, NEW n \in Nat, NEW k, Numbered(h, n, k)
  PROVE  \A i \in InP!Queued(h) : n < chan[i].seq
  <1>1. CASE k \in rows /\ origin[k].host = h /\ origin[k].seq = n /\ origin[k].run = restarts
    BY <1>1 DEF RowOrder, InP!Behind
  <1>2. ASSUME NEW w \in Workers, Inserting(w), task[w].host = h, task[w].seq = n
        PROVE  \A i \in InP!Queued(h) : n < chan[i].seq
    <2>1. w \in InP!Busy(h)
      BY <1>2 DEF InP!Busy, Inserting
    <2> QED BY <1>2, <2>1 DEF InP!OrderInv, InP!ChanOrder
  <1> QED BY <1>1, <1>2 DEF Numbered

\* A number that an event has was its number before, or is the one just drawn.
LEMMA NumberedBefore ==
  ASSUME InP!Types, RowTypes, [RelayNext]_relayVars, ~RestartRelay,
         NEW h, NEW n, NEW k, Numbered(h, n, k)'
  PROVE  \/ Numbered(h, n, k)
         \/ \E u \in Workers : /\ BeginInsert(u) /\ Inserting(u)'
                              /\ n = task[u].seq /\ k = drawn'[u]
  <1> USE RelayConstants, InP!TypeFacts
  <1>1. CASE IngestAlone \/ FeedAlone \/ UNCHANGED relayVars
    <2>1. /\ UNCHANGED <<rows, drawn, origin, restarts>>
          /\ \A w \in Workers : Inserting(w)' => Inserting(w) /\ task'[w] = task[w]
      BY <1>1, AloneSteps, AloneKeepsTasks
    <2> QED BY <2>1 DEF Numbered
  <1>2. ASSUME NEW u \in Workers, BeginInsert(u)
        PROVE  \/ Numbered(h, n, k)
               \/ Inserting(u)' /\ n = task[u].seq /\ k = drawn'[u]
    <2>1. /\ UNCHANGED <<rows, origin, restarts, task>>
          /\ \A w \in Workers : w # u => wpc'[w] = wpc[w] /\ drawn'[w] = drawn[w]
      BY <1>2, BeginInsertDraws DEF BeginInsert, In!HandleEvent
    <2> QED BY <2>1 DEF Numbered, Inserting
  <1>3. ASSUME NEW u \in Workers, EndInsert(u) PROVE Numbered(h, n, k)
    <2>1. /\ Inserting(u) /\ ~Inserting(u)' /\ UNCHANGED <<drawn, restarts, task>>
          /\ \A w \in Workers : w # u => wpc'[w] = wpc[w]
      BY <1>3, EndInsertEffect DEF InP!FinishInsert
    <2>2. CASE UNCHANGED <<rows, origin>>
      BY <2>1, <2>2 DEF Numbered, Inserting
    <2>3. CASE /\ drawn[u] \in Numbers \ rows
               /\ rows' = rows \union {drawn[u]}
               /\ origin' = [origin EXCEPT ![drawn[u]] =
                    [host |-> task[u].host, seq |-> task[u].seq, run |-> restarts]]
      <3>1. /\ origin'[drawn[u]].host = task[u].host /\ origin'[drawn[u]].seq = task[u].seq
            /\ \A s \in rows : origin'[s] = origin[s]
        BY <2>3 DEF RowTypes
      <3> QED BY <2>1, <2>3, <3>1 DEF Numbered, Inserting
    <2> QED BY <1>3, <2>2, <2>3, EndInsertEffect
  <1> QED BY <1>1, <1>2, <1>3 DEF RelayNext

LEMMA NextOvertake ==
  ASSUME OrderedRowsInv, [RelayNext]_relayVars PROVE OvertakeInv'
  <1>1. InP!OrderInv /\ InP!Types /\ RowTypes /\ RowOrder /\ OvertakeInv
    BY DEF OrderedRowsInv, InP!OrderInv, LinkInv
  <1>2. CASE RestartRelay
    <2>1. /\ UNCHANGED <<rows, origin>> /\ restarts' = restarts + 1
          /\ \A w \in Workers : ~Inserting(w)'
      BY <1>2 DEF RestartRelay, Crash, In!Restart, Inserting
    <2>2. \A s \in rows : origin[s].run # restarts'
      BY <1>1, <2>1 DEF RowTypes, InP!Types, InP!TypeOK
    <2>3. \A s \in rows : Cardinality(Overtaken(s)) < Cardinality(Workers)
      BY <1>1, FewOvertaken
    <2>4. \A s \in rows : Overtaken(s)' = Overtaken(s)
      BY <2>1 DEF Overtaken, SameStream
    <2> QED BY <2>1, <2>2, <2>3, <2>4 DEF OvertakeInv, Numbered
  <1>3. CASE ~RestartRelay
    <2>1. ASSUME NEW h \in Hosts, NEW n \in Nat, NEW k \in Nat, Numbered(h, n, k)'
          PROVE  FewLate(h, n, k)'
      <3>1. CASE Numbered(h, n, k)
        BY <1>1, <1>3, <2>1, <3>1, NumberedIsPast, FewLateStays DEF OvertakeInv
      <3>2. ASSUME NEW u \in Workers, BeginInsert(u), Inserting(u)', n = task[u].seq,
                   k = drawn'[u]
            PROVE  FewLate(h, n, k)'
        BY <1>1, <2>1, <3>2, DrawnOvertakesFew
      <3> QED BY <1>1, <1>3, <2>1, <3>1, <3>2, NumberedBefore
    <2>2. ASSUME NEW s \in rows', origin'[s].run # restarts'
          PROVE  Cardinality(Overtaken(s)') < Cardinality(Workers)
      <3>1. /\ restarts' = restarts
            /\ \/ UNCHANGED <<rows, origin>>
               \/ \E d : /\ rows' = rows \union {d} /\ d \notin rows
                        /\ origin'[d].run = restarts
                        /\ \A t \in rows : origin'[t] = origin[t]
        BY <1>1, <1>3, RowsGrow
      <3>2. s \in rows /\ origin[s].run # restarts /\ Overtaken(s)' = Overtaken(s)
        BY <2>2, <3>1 DEF Overtaken, SameStream
      <3> QED BY <1>1, <3>2 DEF OvertakeInv
    <2> QED BY <2>1, <2>2 DEF OvertakeInv
  <1> QED BY <1>2, <1>3

LEMMA NextRows == OrderedRowsInv /\ [RelayNext]_relayVars => OrderedRowsInv'
  <1> SUFFICES ASSUME OrderedRowsInv, [RelayNext]_relayVars PROVE OrderedRowsInv'
    OBVIOUS
  <1>1. InP!OrderInv /\ InP!Types /\ InP!Held /\ LinkInv
    BY DEF OrderedRowsInv, InP!OrderInv
  <1>2. InP!OrderInv' /\ InP!Held'
    BY <1>1, SameIngest, RelayStepsIngest, RelayConstants, InP!NextOrder, InP!HeldStays
  <1>3. LinkInv'
    BY <1>1, NextLink
  <1> QED BY <1>2, <1>3, NextRowOrder, NextOvertake DEF OrderedRowsInv

\* While a process lives the relay numbers every event of a host at most once, and
\* an event overtakes fewer others of its host than there are workers: for any
\* number of hosts and workers, however often a connection breaks.
THEOREM RowsInOrder == RelaySpec => []RowsFollowHost
  <1>1. OrderedRowsInv => RowsFollowHost
    BY FewOvertaken DEF OrderedRowsInv, LinkInv, RowOrder, RowsFollowHost
  <1> QED BY InitRows, NextRows, <1>1, PTL DEF RelaySpec

\* Every stored event has its row, and every row was numbered by event_seq.
LEMMA RelayLinked == RelaySpec => []LinkInv
  <1>1. InP!OrderInv /\ LinkInv /\ [RelayNext]_relayVars => LinkInv'
    BY NextLink
  <1> QED BY <1>1, InitLink, RelayChannel, PTL DEF RelaySpec

\* Every stored event has reached a subscriber that asked for everything and has been
\* replayed to, or is coming to it, or its announcement went past it while it was
\* online.  What another process stored and died before announcing has reached it.
StoredIsServed ==
  \A c \in Online : since[c] = 0 /\ scan[c] = "done" =>
    \A h \in Hosts : \A n \in stored[h] : \E s \in RowsOf(h, n) : Accounted(c, s)

LEMMA CompleteServes == Complete /\ LinkInv => StoredIsServed
  <1> SUFFICES ASSUME Complete, LinkInv, NEW c \in Online, since[c] = 0, scan[c] = "done",
                      NEW h \in Hosts, NEW n \in stored[h]
               PROVE  \E s \in RowsOf(h, n) : Accounted(c, s)
    BY DEF StoredIsServed
  <1>1. PICK s \in RowsOf(h, n) : TRUE
    BY DEF LinkInv, Linked
  <1>2. s \in rows /\ 0 < s
    BY <1>1 DEF RowsOf, LinkInv, RowTypes
  <1> QED BY <1>1, <1>2 DEF Complete, AccountedFrom

\* From the events table to the subscribers, for any number of workers and restarts: no
\* stored event is missing that did not go past the subscriber while it was online, and
\* none because the process that stored it died.
THEOREM StoredReachesSubscribers == RelaySpec => []StoredIsServed
  BY CompleteServes, RelayComplete, RelayLinked, PTL

\* From the hosts to the events table, for any number of workers: while the relay runs,
\* with its subscribers attached, no event is lost without a trace.
THEOREM RelayLosesNothing == RelaySpec => InP!RunningLosesNothing
  <1>1. In!Init => InP!Init
    BY SameIngest
  <1>2. [In!Next]_(In!vars) => [InP!Next]_(InP!vars)
    BY SameIngest
  <1>3. In!Spec => InP!Spec
    BY <1>1, <1>2, PTL DEF In!Spec, InP!Spec
  <1>4. InP!Spec => InP!RunningLosesNothing
    BY RelayConstants, InP!OnlyAnEndLoses
  <1> QED BY <1>3, <1>4, RelayIngests, PTL

\* With one worker, from the host's stream to a subscriber that asked for
\* everything and has been replayed to: of the events the relay was there to hear, none
\* at or below the host's saved cursor is missing unless it was reported on the way in
\* or went past this subscriber while it was online, whatever crashes there were.
THEOREM EndToEnd ==
  ASSUME InP!OneWorker PROVE RelaySpec => []NothingLostEndToEnd
  <1>1. InP!NothingLostBelowCursor /\ StoredIsServed => NothingLostEndToEnd
    BY DEF InP!NothingLostBelowCursor, InP!Traced, InP!BelowCursor, In!BelowCursor,
           StoredIsServed, NothingLostEndToEnd
  <1> QED BY InP!OneWorker, <1>1, StoredReachesSubscribers, RelayCursorIsSafe, PTL

=============================================================================
