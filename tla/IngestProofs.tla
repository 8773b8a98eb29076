---------------------------- MODULE IngestProofs ----------------------------
(***************************************************************************)
(* Proofs about Ingest, for any hosts, channel capacity and bounds: types, *)
(* the order of the event channel, and that a running relay loses nothing, *)
(* for any number of workers; what the cursor promises for one worker,     *)
(* which is all the code can promise it for (the run ingest_clean_shutdown *)
(* shows two breaking it).                                                 *)
(***************************************************************************)
EXTENDS Ingest, SequenceTheorems, WellFoundedInduction, TLAPS

-----------------------------------------------------------------------------
(* The inductive invariants.                                               *)

\* TypeOK, and the numbers of the upstream hosts are positive.
Types == TypeOK /\ \A h \in Hosts : log[h] \subseteq 1..MaxSeq

\* Nothing of a host is under way before it has a client; an open stream is not
\* behind the cursor; what the workers hold is not ahead of it.
ClientOrder(h) ==
  /\ phase[h] = "absent" => cursor[h] = 0 /\ Queued(h) = {} /\ Busy(h) = {}
  /\ Streaming(h) => cursor[h] <= position[h]
  /\ phase[h] = "enqueue" => position[h] = cursor[h]
  /\ \A w \in Busy(h) : /\ task[w].seq <= cursor[h]
                        /\ phase[h] = "enqueue" => task[w].seq < cursor[h]

\* StreamOrder, of one host.
ChanOrder(h) ==
  /\ \A i, j \in Queued(h) : i < j => chan[i].seq < chan[j].seq
  /\ \A i \in Queued(h) :
       /\ chan[i].seq <= cursor[h]
       /\ phase[h] = "enqueue" => chan[i].seq < cursor[h]
       /\ \A w \in Busy(h) : task[w].seq < chan[i].seq
  /\ \A v, w \in Busy(h) : v # w => task[v].seq # task[w].seq

\* Every number the relay remembers of a host is one the host has published.
Published(h) ==
  /\ saved[h] \in log[h] \union {0}
  /\ cursor[h] \in log[h] \union {0}
  /\ position[h] \in log[h] \union {0}
  /\ phase[h] = "enqueue" => position[h] \in log[h]
  /\ \A i \in Queued(h) : chan[i].seq \in log[h]
  /\ \A w \in Busy(h) : task[w].seq \in log[h]

\* The relay knows since when it has listened exactly if it has a number to go on from.
Heard(h) ==
  /\ from[h] # Unheard <=> 0 < cursor[h]
  /\ base[h] # Unheard <=> 0 < saved[h]

\* Clients are told to stop only once the manager's context is done.
StopOrder == ~cancelled => stop = "no" /\ \A h \in Hosts : ~quit[h]

\* Whatever a client has passed is traced or under way.
Trail(h) == \A s \in log[h] : Passed(h, s) => s \in Traced(h) \/ Pending(h, s)

\* NothingLostBelowCursor, of one host.
NothingLost(h) == \A s \in log[h] : BelowCursor(h, s) => s \in Traced(h)

\* All that is under way lies beyond the saved cursor.
BeyondSaved(h) ==
  /\ cursor[h] = 0 \/ saved[h] <= cursor[h]
  /\ Streaming(h) => saved[h] <= position[h]
  /\ phase[h] = "enqueue" => saved[h] < position[h]
  /\ \A i \in Queued(h) : saved[h] < chan[i].seq
  /\ \A w \in Busy(h) : saved[h] < task[w].seq

OneWorker == \A v, w \in Workers : v = w

OrderInv   == Types /\ \A h \in Hosts : ClientOrder(h) /\ ChanOrder(h)
KnownInv   == OrderInv /\ StopOrder /\ \A h \in Hosts : Published(h) /\ Heard(h)
CursorInv  == /\ KnownInv
              /\ \A h \in Hosts : NothingLost(h)
              /\ ~cancelled => \A h \in Hosts : Trail(h)
AdvanceInv == KnownInv /\ \A h \in Hosts : BeyondSaved(h)

-----------------------------------------------------------------------------
(* Lemmas about the operators of the model.                                *)

LEMMA MinIsLeast ==
  ASSUME NEW S \in SUBSET Nat, S # {}
  PROVE  Min(S) \in S /\ \A t \in S : Min(S) <= t
  <1> DEFINE Less == {ss \in Nat \X Nat : ss[1] < ss[2]}
  <1>1. IsWellFoundedOn(Less, Nat)
    BY NatLessThanWellFounded DEF OpToRel
  <1>2. PICK x \in S : \A y \in S : ~(<<y, x>> \in Less)
    <2>1. S \subseteq Nat
      OBVIOUS
    <2> HIDE DEF Less
    <2> QED BY <1>1, <2>1, WFMin
  <1>3. \A y \in S : x <= y
    <2>1. TAKE y \in S
    <2>2. ~(y < x)
      <3>1. y < x => <<y, x>> \in Less
        OBVIOUS
      <3> HIDE DEF Less
      <3> QED BY <3>1, <1>2
    <2> QED BY <2>2
  <1> QED BY <1>3 DEF Min

LEMMA MaxIsGreatest ==
  ASSUME NEW N \in Nat, NEW S \in SUBSET (0..N), S # {}
  PROVE  Max(S) \in S /\ \A t \in S : t <= Max(S)
  <1> DEFINE T == {N - t : t \in S}
  <1>1. T \in SUBSET Nat /\ T # {}
    <2>1. \A t \in S : N - t \in Nat
      OBVIOUS
    <2> QED BY <2>1
  <1>2. Min(T) \in T /\ \A t \in T : Min(T) <= t
    <2> HIDE DEF T
    <2> QED BY <1>1, MinIsLeast
  <1>3. PICK x \in S : Min(T) = N - x
    BY <1>2
  <1>4. \A t \in S : N - x <= N - t
    BY <1>2, <1>3
  <1>5. \A t \in S : x >= t
    BY <1>4
  <1> QED BY <1>5 DEF Max

LEMMA NewestIsLast ==
  ASSUME Types, NEW h \in Hosts
  PROVE  /\ Newest(h) \in log[h] \union {0}
         /\ Newest(h) \in Nat
         /\ \A s \in log[h] : s <= Newest(h)
  <1>1. log[h] \union {0} \in SUBSET (0..MaxSeq) /\ MaxSeq \in Nat
    BY IngestConstants DEF Types
  <1>2. /\ Newest(h) \in log[h] \union {0}
        /\ \A s \in log[h] \union {0} : s <= Newest(h)
    BY <1>1, MaxIsGreatest DEF Newest
  <1> QED BY <1>1, <1>2

LEMMA NextOnStream ==
  ASSUME Types, NEW h \in Hosts, Ahead(h) # {}
  PROVE  LET s == Min(Ahead(h)) IN
           /\ s \in log[h] /\ s \in Nat /\ position[h] < s
           /\ \A t \in log[h] : t > position[h] => s <= t
  <1>1. Ahead(h) \in SUBSET Nat
    BY DEF Ahead, Types, TypeOK, SeqSets
  <1>2. Min(Ahead(h)) \in Ahead(h) /\ \A t \in Ahead(h) : Min(Ahead(h)) <= t
    BY <1>1, MinIsLeast
  <1> QED BY <1>1, <1>2 DEF Ahead

\* What the event channel holds, and how it grows and shrinks.
LEMMA ChanEntries ==
  ASSUME Types
  PROVE  /\ Len(chan) \in Nat
         /\ DOMAIN chan = 1..Len(chan)
         /\ \A i \in 1..Len(chan) : /\ chan[i] \in Event
                                    /\ chan[i].host \in Hosts /\ chan[i].seq \in Nat
  <1>1. chan \in Seq(Event)
    BY DEF Types, TypeOK
  <1>2. \A i \in 1..Len(chan) : chan[i] \in Event
    BY <1>1, ElementOfSeq
  <1> QED BY <1>1, <1>2, LenProperties DEF Event

LEMMA ChanGrows ==
  ASSUME Types, NEW e \in Event
  PROVE  /\ Append(chan, e) \in Seq(Event)
         /\ Len(Append(chan, e)) = Len(chan) + 1
         /\ DOMAIN Append(chan, e) = 1..(Len(chan) + 1)
         /\ \A i \in 1..Len(chan) : Append(chan, e)[i] = chan[i]
         /\ Append(chan, e)[Len(chan) + 1] = e
  <1>1. chan \in Seq(Event)
    BY DEF Types, TypeOK
  <1> QED BY <1>1, AppendProperties, LenProperties

LEMMA ChanShrinks ==
  ASSUME Types, chan # <<>>
  PROVE  /\ 1 \in DOMAIN chan /\ Head(chan) = chan[1] /\ Head(chan) \in Event
         /\ Tail(chan) \in Seq(Event)
         /\ Len(Tail(chan)) = Len(chan) - 1
         /\ DOMAIN Tail(chan) = 1..(Len(chan) - 1)
         /\ \A i \in 1..(Len(chan) - 1) : Tail(chan)[i] = chan[i + 1]
  <1>1. chan \in Seq(Event)
    BY DEF Types, TypeOK
  <1>2. Len(chan) \in Nat \ {0}
    BY <1>1, EmptySeq
  <1>3. 1 \in DOMAIN chan /\ Head(chan) = chan[1]
    BY <1>1, <1>2, LenProperties
  <1> QED BY <1>1, <1>2, <1>3, HeadTailProperties, LenProperties

-----------------------------------------------------------------------------
(* Types.                                                                  *)

LEMMA InitTypes == Init => Types
  <1> SUFFICES ASSUME Init PROVE Types
    OBVIOUS
  <1>1. chan \in Seq(Event) /\ Len(chan) <= BufferSize
    BY EmptySeq, IngestConstants DEF Init
  <1> QED BY <1>1, IngestConstants
       DEF Init, Types, TypeOK, SeqSets, Counts, Marks, ClientSteps, WorkerSteps

LEMMA TaskParts == Types => \A w \in Workers : task[w].seq \in Nat
  <1> SUFFICES ASSUME Types, NEW w \in Workers PROVE task[w].seq \in Nat
    OBVIOUS
  <1>1. task[w] \in Event \/ task[w] = NoTask
    BY DEF Types, TypeOK
  <1> QED BY <1>1 DEF Event, NoTask

LEMMA NextTypes == Types /\ [Next]_vars => Types'
  <1> SUFFICES ASSUME Types, [Next]_vars PROVE Types'
    OBVIOUS
  <1> USE IngestConstants DEF Types, TypeOK, SeqSets, Counts, ClientSteps, WorkerSteps,
        outsideVars, tableVars, lossVars, stopVars, chanVars, clientVars, workerVars
  <1>1. ASSUME NEW h \in Hosts, Publish(h) PROVE Types'
    <2>1. PICK s \in (Newest(h) + 1)..MaxSeq : log' = [log EXCEPT ![h] = @ \union {s}]
      <3> HIDE DEF Types, TypeOK
      <3> QED BY <1>1 DEF Publish
    <2>2. s \in 1..MaxSeq
      <3>1. Newest(h) \in Nat /\ MaxSeq \in Nat
        BY NewestIsLast
      <3> HIDE DEF Types, TypeOK
      <3> QED BY <3>1
    <2>3. log' \in SeqSets /\ \A k \in Hosts : log'[k] \subseteq 1..MaxSeq
      <3>1. /\ log \in [Hosts -> SUBSET Nat] /\ \A k \in Hosts : log[k] \subseteq 1..MaxSeq
            /\ s \in Nat
        BY <2>2
      <3> HIDE DEF Types, TypeOK, SeqSets, Counts, ClientSteps, WorkerSteps,
                   outsideVars, tableVars, lossVars, stopVars, chanVars, clientVars, workerVars
      <3>2. log' \in [Hosts -> SUBSET Nat]
        BY <2>1, <3>1
      <3>3. \A k \in Hosts : log'[k] \subseteq 1..MaxSeq
        BY <2>1, <2>2, <3>1
      <3> QED BY <3>2, <3>3 DEF SeqSets
    <2>4. UNCHANGED <<restarts, tableVars, lossVars, stopVars, chanVars, clientVars, workerVars>>
      BY <1>1, Zenon DEF Publish
    <2> QED BY <2>3, <2>4
  <1>2. ASSUME NEW h \in Hosts, AddHost(h) PROVE Types'
    <2>1. /\ \/ cursor' = [cursor EXCEPT ![h] = saved[h]]
             \/ cursor' = [cursor EXCEPT ![h] = 0]
          /\ from' = from \/ from' = [from EXCEPT ![h] = base[h]]
      BY <1>2, Zenon DEF AddHost, Resume
    <2>2. cursor' \in Counts
      <3>1. cursor \in [Hosts -> Nat] /\ saved[h] \in Nat
        OBVIOUS
      <3> HIDE DEF Types, TypeOK
      <3> QED BY <2>1, <3>1
    <2>4. from' \in [Hosts -> Marks]
      <3>1. from \in [Hosts -> Marks] /\ base[h] \in Marks
        OBVIOUS
      <3> HIDE DEF Types, TypeOK
      <3> QED BY <2>1, <3>1
    <2>3. /\ phase' = [phase EXCEPT ![h] = "loop"]
          /\ UNCHANGED <<outsideVars, tableVars, lossVars, stopVars, chanVars, quit,
                         position, delay, workerVars>>
      BY <1>2, Zenon DEF AddHost
    <2> QED BY <2>2, <2>3, <2>4
  <1>3. ASSUME NEW h \in Hosts, Client(h) PROVE Types'
    <2>1. CASE LoopTop(h)
      BY <2>1 DEF LoopTop, Top
    <2>2. CASE Connect(h)
      <3>1. StreamStart(h, Asks(h)) \in Nat
        BY NewestIsLast DEF StreamStart, Asks
      <3> QED BY <2>2, <3>1 DEF Connect
    <2>3. CASE ConnectFails(h)
      BY <2>3 DEF ConnectFails
    <2>4. CASE BackoffOver(h)
      <3>1. /\ \E p \in ClientSteps : phase' = [phase EXCEPT ![h] = p]
            /\ delay' = delay \/ \E d \in {2 * delay[h], MaxDelay} : delay' = [delay EXCEPT ![h] = d]
        BY <2>4, Zenon DEF BackoffOver
      <3>2. phase' \in [Hosts -> ClientSteps]
        BY <3>1
      <3>3. delay' \in Counts
        <4>1. delay \in [Hosts -> Nat] /\ 2 * delay[h] \in Nat /\ MaxDelay \in Nat
          OBVIOUS
        <4> HIDE DEF Types, TypeOK
        <4> QED BY <3>1, <4>1
      <3>4. UNCHANGED <<outsideVars, tableVars, lossVars, stopVars, chanVars, quit,
                        cursor, position, from, workerVars>>
        BY <2>4, Zenon DEF BackoffOver
      <3> QED BY <3>2, <3>3, <3>4
    <2>5. CASE StreamEnds(h)
      BY <2>5 DEF StreamEnds, AfterStream
    <2>6. CASE Receive(h)
      <3>1. \/ from' = [from EXCEPT ![h] = position[h]]
            \/ from' = [from EXCEPT ![h] = from[h]]
        BY <2>6, Zenon DEF Receive
      <3>2. from' \in [Hosts -> Marks]
        <4>1. from \in [Hosts -> Marks] /\ position[h] \in Marks
          BY DEF Marks
        <4> HIDE DEF Types, TypeOK
        <4> QED BY <3>1, <4>1
      <3> QED BY <2>6, <3>2, NextOnStream DEF Receive, Advance
    <2>7. CASE ReceiveInfo(h)
      BY <2>7 DEF ReceiveInfo
    <2>8. CASE Enqueue(h)
      <3>1. [host |-> h, seq |-> position[h]] \in Event
        BY DEF Event
      <3>2. /\ chan' = Append(chan, [host |-> h, seq |-> position[h]]) /\ Len(chan) < BufferSize
            /\ phase' = [phase EXCEPT ![h] = "stream"]
            /\ UNCHANGED <<outsideVars, tableVars, lossVars, stopVars, closed, quit,
                           cursor, position, from, delay, workerVars>>
        BY <2>8, Zenon DEF Enqueue, Room
      <3>3. chan' \in Seq(Event) /\ Len(chan') <= BufferSize
        <4>1. Len(chan) \in Nat /\ Types
          BY LenProperties
        <4> HIDE DEF Types, TypeOK
        <4> QED BY <3>1, <3>2, <4>1, ChanGrows
      <3>4. phase' \in [Hosts -> ClientSteps]
        BY <3>2
      <3> QED BY <3>2, <3>3, <3>4
    <2>9. CASE EnqueueTimesOut(h)
      BY <2>9 DEF EnqueueTimesOut
    <2>10. CASE EnqueueCancelled(h)
      BY <2>10 DEF EnqueueCancelled, AfterStream
    <2>11. CASE EnqueuePanics(h)
      BY <2>11 DEF EnqueuePanics
    <2> QED BY <1>3, <2>1, <2>2, <2>3, <2>4, <2>5, <2>6, <2>7, <2>8, <2>9, <2>10, <2>11
         DEF Client
  <1>4. ASSUME NEW w \in Workers, Worker(w) PROVE Types'
    <2>1. CASE TakeEvent(w)
      <3>1. /\ chan # <<>> /\ chan' = Tail(chan)
            /\ task' = [task EXCEPT ![w] = Head(chan)] /\ wpc' = [wpc EXCEPT ![w] = "handle"]
            /\ UNCHANGED <<outsideVars, tableVars, lossVars, stopVars, closed, clientVars>>
        BY <2>1, Zenon DEF TakeEvent
      <3>2. /\ chan' \in Seq(Event) /\ Len(chan') <= BufferSize
            /\ Head(chan) \in Event
        <4>1. Types /\ Len(chan) \in Nat /\ Len(chan) <= BufferSize
          BY LenProperties
        <4> HIDE DEF Types, TypeOK
        <4> QED BY <3>1, <4>1, ChanShrinks
      <3>3. task' \in [Workers -> Event \union {NoTask}] /\ wpc' \in [Workers -> WorkerSteps]
        BY <3>1, <3>2
      <3> QED BY <3>1, <3>2, <3>3
    <2>0. AfterEvent(task[w].seq) \in {"save", "idle"}
      BY DEF AfterEvent
    <2>8. ReportFailure(w) => unstored' \in SeqSets
      <3>1. ReportFailure(w) =>
              \/ unstored' = unstored
              \/ unstored' = [unstored EXCEPT ![task[w].host] = @ \union {task[w].seq}]
        BY Zenon DEF ReportFailure
      <3>2. task[w].seq \in Nat /\ unstored \in [Hosts -> SUBSET Nat]
        BY TaskParts
      <3> HIDE DEF Types, TypeOK
      <3> QED BY <3>1, <3>2
    <2>9. Keep(w) => stored' \in SeqSets
      <3>1. Keep(w) => stored' = [stored EXCEPT ![task[w].host] = @ \union {task[w].seq}]
        BY Zenon DEF Keep
      <3>2. task[w].seq \in Nat /\ stored \in [Hosts -> SUBSET Nat]
        BY TaskParts
      <3> HIDE DEF Types, TypeOK
      <3> QED BY <3>1, <3>2
    <2>10. FinishInsert(w) =>
             /\ wpc' \in [Workers -> WorkerSteps]
             /\ UNCHANGED <<outsideVars, saved, base, dropped, stopVars, chanVars,
                            clientVars, task>>
      BY <2>0 DEF FinishInsert
    <2>2. CASE HandleEvent(w)
      BY <2>0, <2>2 DEF HandleEvent
    <2>3. CASE InsertCommits(w)
      BY <2>3, <2>9, <2>10 DEF InsertCommits
    <2>4. CASE InsertFails(w)
      BY <2>4, <2>8, <2>10 DEF InsertFails
    <2>5. CASE InsertUnanswered(w)
      BY <2>5, <2>8, <2>9, <2>10 DEF InsertUnanswered
    <2>6. CASE SaveCursor(w)
      <3>1. /\ saved' = saved \/ saved' = [saved EXCEPT ![task[w].host] = task[w].seq]
            /\ base' = base \/ base' = [base EXCEPT ![task[w].host] = from[task[w].host]]
            /\ wpc' = [wpc EXCEPT ![w] = "idle"]
            /\ UNCHANGED <<outsideVars, stored, lossVars, stopVars, chanVars, clientVars, task>>
        BY <2>6, Zenon DEF SaveCursor, SaveFails
      <3>2. saved' \in Counts
        <4>1. saved \in [Hosts -> Nat] /\ task[w].seq \in Nat
          BY TaskParts
        <4> HIDE DEF Types, TypeOK
        <4> QED BY <3>1, <4>1
      <3>3. wpc' \in [Workers -> WorkerSteps]
        BY <3>1
      <3>4. base' \in [Hosts -> Marks]
        <4>1. /\ base \in [Hosts -> Marks]
              /\ task[w].host \in Hosts => from[task[w].host] \in Marks
          OBVIOUS
        <4> HIDE DEF Types, TypeOK
        <4> QED BY <3>1, <4>1
      <3> QED BY <3>1, <3>2, <3>3, <3>4
    <2>7. CASE WorkerEnds(w)
      BY <2>7 DEF WorkerEnds
    <2> QED BY <1>4, <2>1, <2>2, <2>3, <2>4, <2>5, <2>6, <2>7 DEF Worker, Insert
  <1>5. CASE Stop
    <2>1. CASE StopCancel
      BY <2>1 DEF StopCancel
    <2>2. CASE StopClients
      BY <2>2 DEF StopClients
    <2>3. CASE StopClose
      BY <2>3 DEF StopClose
    <2>4. CASE StopWait
      BY <2>4 DEF StopWait
    <2> QED BY <1>5, <2>1, <2>2, <2>3, <2>4 DEF Stop
  <1>6. CASE Exit
    BY <1>6 DEF Exit
  <1>7. CASE Restart
    <2>1. chan' \in Seq(Event) /\ Len(chan') <= BufferSize
      BY <1>7, EmptySeq DEF Restart
    <2>2. /\ phase' \in [Hosts -> ClientSteps] /\ quit' \in [Hosts -> BOOLEAN]
          /\ cursor' \in Counts /\ position' \in Counts /\ delay' \in Counts
          /\ from' \in [Hosts -> Marks]
          /\ wpc' \in [Workers -> WorkerSteps] /\ task' \in [Workers -> Event \union {NoTask}]
      BY <1>7 DEF Restart, Marks
    <2>3. /\ life' = "up" /\ cancelled' \in BOOLEAN /\ stop' = "no" /\ closed' \in BOOLEAN
          /\ restarts' = restarts + 1 /\ UNCHANGED <<log, tableVars, lossVars>>
      BY <1>7, Zenon DEF Restart
    <2>4. restarts' \in Nat
      BY <2>3
    <2> QED BY <2>1, <2>2, <2>3, <2>4
  <1>8. CASE UNCHANGED vars
    BY <1>8 DEF vars
  <1> QED BY <1>1, <1>2, <1>3, <1>4, <1>5, <1>6, <1>7, <1>8 DEF Next

\* Every variable keeps its type, and the event channel its capacity, for any
\* number of hosts and workers.
THEOREM TypeCorrect == Spec => []TypeOK
  <1>1. Types => TypeOK
    BY DEF Types
  <1> QED BY InitTypes, NextTypes, <1>1, PTL DEF Spec

-----------------------------------------------------------------------------
(* The order of the event channel.                                         *)

\* The types the other proofs need, without those of sequences.
LEMMA TypeFacts ==
  ASSUME Types
  PROVE  /\ log \in [Hosts -> SUBSET Nat] /\ stored \in [Hosts -> SUBSET Nat]
         /\ dropped \in [Hosts -> SUBSET Nat] /\ unstored \in [Hosts -> SUBSET Nat]
         /\ from \in [Hosts -> Int] /\ base \in [Hosts -> Int]
         /\ saved \in [Hosts -> Nat] /\ cursor \in [Hosts -> Nat]
         /\ position \in [Hosts -> Nat]
         /\ phase \in [Hosts -> ClientSteps] /\ quit \in [Hosts -> BOOLEAN]
         /\ wpc \in [Workers -> WorkerSteps]
         /\ DOMAIN task = Workers /\ \A w \in Workers : task[w].seq \in Nat
         /\ \A h \in Hosts : \A s \in log[h] : s \in Nat /\ 0 < s
  <1>1. from \in [Hosts -> Int] /\ base \in [Hosts -> Int]
    BY DEF Types, TypeOK, Marks, Unheard
  <1> QED BY <1>1, TaskParts DEF Types, TypeOK, SeqSets, Counts

Holding == {"handle", "insert", "save"}

\* A step that moves no event of the host and leaves its cursor alone.
Quiet(h) ==
  /\ chan' = chan /\ task' = task /\ cursor'[h] = cursor[h]
  /\ \A w \in Workers : /\ wpc'[w] \in Holding => wpc[w] \in Holding
                        /\ wpc'[w] \in Holding \ {"save"} => wpc[w] \in Holding \ {"save"}
  /\ phase'[h] = "absent" => phase[h] = "absent"
  /\ Streaming(h)' => cursor[h] <= position'[h]
  /\ phase'[h] = "enqueue" => phase[h] = "enqueue" /\ position'[h] = position[h]

LEMMA QuietKeepsOrder ==
  ASSUME NEW h \in Hosts, Types, ClientOrder(h), ChanOrder(h), Quiet(h)
  PROVE  ClientOrder(h)' /\ ChanOrder(h)'
  <1>1. Queued(h)' = Queued(h)
    BY DEF Quiet, Queued
  <1>2. Busy(h)' \subseteq Busy(h)
    BY DEF Quiet, Busy, Holding
  <1>3. ClientOrder(h)'
    BY <1>1, <1>2 DEF ClientOrder, Quiet
  <1>4. ChanOrder(h)'
    BY <1>1, <1>2 DEF ChanOrder, Quiet
  <1> QED BY <1>3, <1>4

\* Most steps are quiet.
LEMMA QuietSteps ==
  ASSUME OrderInv, NEW k \in Hosts,
         \/ \E h \in Hosts : \/ Publish(h) \/ LoopTop(h) \/ Connect(h) \/ ConnectFails(h)
                             \/ BackoffOver(h) \/ StreamEnds(h) \/ ReceiveInfo(h)
                             \/ EnqueueTimesOut(h) \/ EnqueueCancelled(h) \/ EnqueuePanics(h)
         \/ \E w \in Workers : HandleEvent(w) \/ Insert(w) \/ SaveCursor(w) \/ WorkerEnds(w)
         \/ Stop \/ Exit \/ UNCHANGED vars
  PROVE  Quiet(k)
  <1> USE TypeFacts DEF OrderInv, ClientSteps, WorkerSteps, Holding, ClientOrder, Quiet, Streaming,
        chanVars, clientVars, workerVars
  <1>1. ASSUME NEW h \in Hosts, Publish(h) PROVE Quiet(k)
    BY <1>1 DEF Publish
  <1>2. ASSUME NEW h \in Hosts, LoopTop(h) PROVE Quiet(k)
    BY <1>2 DEF LoopTop, Top
  <1>3. ASSUME NEW h \in Hosts, Connect(h) PROVE Quiet(k)
    <2>1. StreamStart(h, Asks(h)) \in Nat /\ cursor[h] <= StreamStart(h, Asks(h))
      BY NewestIsLast DEF StreamStart, Asks
    <2> QED BY <1>3, <2>1 DEF Connect
  <1>4. ASSUME NEW h \in Hosts, ConnectFails(h) PROVE Quiet(k)
    BY <1>4 DEF ConnectFails
  <1>5. ASSUME NEW h \in Hosts, BackoffOver(h) PROVE Quiet(k)
    BY <1>5 DEF BackoffOver
  <1>6. ASSUME NEW h \in Hosts, StreamEnds(h) PROVE Quiet(k)
    BY <1>6 DEF StreamEnds, AfterStream
  <1>7. ASSUME NEW h \in Hosts, ReceiveInfo(h) PROVE Quiet(k)
    BY <1>7 DEF ReceiveInfo
  <1>8. ASSUME NEW h \in Hosts, EnqueueTimesOut(h) PROVE Quiet(k)
    BY <1>8 DEF EnqueueTimesOut
  <1>9. ASSUME NEW h \in Hosts, EnqueueCancelled(h) PROVE Quiet(k)
    BY <1>9 DEF EnqueueCancelled, AfterStream
  <1>10. ASSUME NEW h \in Hosts, EnqueuePanics(h) PROVE Quiet(k)
    BY <1>10 DEF EnqueuePanics
  <1>11. ASSUME NEW w \in Workers, HandleEvent(w) PROVE Quiet(k)
    BY <1>11 DEF HandleEvent
  <1>12. ASSUME NEW w \in Workers, Insert(w) PROVE Quiet(k)
    <2>1. FinishInsert(w)
      BY <1>12 DEF Insert, InsertCommits, InsertFails, InsertUnanswered
    <2> QED BY <2>1 DEF FinishInsert
  <1>13. ASSUME NEW w \in Workers, SaveCursor(w) PROVE Quiet(k)
    BY <1>13 DEF SaveCursor
  <1>14. ASSUME NEW w \in Workers, WorkerEnds(w) PROVE Quiet(k)
    BY <1>14 DEF WorkerEnds
  <1>15. CASE Stop
    BY <1>15 DEF Stop, StopCancel, StopClients, StopClose, StopWait
  <1>16. CASE Exit \/ UNCHANGED vars
    BY <1>16 DEF Exit, vars
  <1> HIDE TypeFacts DEF OrderInv, Quiet
  <1> QED BY <1>1, <1>2, <1>3, <1>4, <1>5, <1>6, <1>7, <1>8, <1>9, <1>10, <1>11, <1>12,
             <1>13, <1>14, <1>15, <1>16

LEMMA InitOrder == Init => OrderInv
  <1> SUFFICES ASSUME Init, NEW h \in Hosts PROVE ClientOrder(h) /\ ChanOrder(h)
    BY InitTypes DEF OrderInv
  <1>1. Queued(h) = {} /\ Busy(h) = {}
    BY DEF Init, Queued, Busy
  <1> QED BY <1>1 DEF Init, ClientOrder, ChanOrder, Streaming

LEMMA AddHostKeepsOrder ==
  ASSUME OrderInv, NEW k \in Hosts, NEW h \in Hosts, AddHost(h)
  PROVE  ClientOrder(k)' /\ ChanOrder(k)'
  <1> USE TypeFacts DEF OrderInv, ClientSteps
  <1>1. /\ Queued(k)' = Queued(k) /\ Busy(k)' = Busy(k)
        /\ chan' = chan /\ task' = task /\ position' = position
    BY DEF AddHost, Queued, Busy, chanVars, workerVars
  <1>2. CASE k = h
    <2>1. phase[k] = "absent" /\ phase'[k] = "loop"
      BY <1>2 DEF AddHost, Unknown
    <2>2. Queued(k) = {} /\ Busy(k) = {}
      BY <2>1 DEF ClientOrder
    <2> QED BY <1>1, <2>1, <2>2 DEF ClientOrder, ChanOrder, Streaming
  <1>3. CASE k # h
    <2>1. phase'[k] = phase[k] /\ cursor'[k] = cursor[k]
      BY <1>3 DEF AddHost
    <2> QED BY <1>1, <2>1 DEF ClientOrder, ChanOrder, Streaming
  <1> QED BY <1>2, <1>3

LEMMA ReceiveKeepsOrder ==
  ASSUME OrderInv, NEW k \in Hosts, NEW h \in Hosts, Receive(h)
  PROVE  ClientOrder(k)' /\ ChanOrder(k)'
  <1> USE TypeFacts DEF OrderInv, ClientSteps
  <1>1. /\ Queued(k)' = Queued(k) /\ Busy(k)' = Busy(k)
        /\ chan' = chan /\ task' = task
    BY DEF Receive, Queued, Busy, chanVars, workerVars
  <1>2. \A i \in Queued(k) : chan[i].seq \in Nat
    BY ChanEntries DEF Queued
  <1>3. CASE k = h
    <2>1. PICK s \in Nat : /\ position[k] < s
                           /\ phase'[k] = "enqueue" /\ position'[k] = s /\ cursor'[k] = s
      BY <1>3, NextOnStream DEF Receive, Advance
    <2>2. cursor[k] <= position[k]
      BY <1>3 DEF Receive, ClientOrder, Streaming
    <2>3. cursor[k] < s
      BY <2>1, <2>2
    <2>4. \A w \in Busy(k) : task[w].seq < s
      BY <2>3 DEF ClientOrder, Busy
    <2>5. \A i \in Queued(k) : chan[i].seq < s
      BY <1>2, <2>3 DEF ChanOrder
    <2>6. ClientOrder(k)'
      BY <1>1, <2>1, <2>4 DEF ClientOrder, Streaming, Busy
    <2>7. ChanOrder(k)'
      BY <1>1, <1>2, <2>1, <2>5 DEF ChanOrder
    <2> QED BY <2>6, <2>7
  <1>4. CASE k # h
    <2>1. phase'[k] = phase[k] /\ cursor'[k] = cursor[k] /\ position'[k] = position[k]
      BY <1>4 DEF Receive, Advance
    <2> QED BY <1>1, <2>1 DEF ClientOrder, ChanOrder, Streaming
  <1> QED BY <1>3, <1>4

LEMMA EnqueueKeepsOrder ==
  ASSUME OrderInv, NEW k \in Hosts, NEW h \in Hosts, Enqueue(h)
  PROVE  ClientOrder(k)' /\ ChanOrder(k)'
  <1> USE TypeFacts DEF OrderInv, ClientSteps
  <1> DEFINE e == [host |-> h, seq |-> position[h]]
  <1>1. e \in Event /\ e.host = h /\ e.seq = position[h]
    BY DEF Event
  <1>2. /\ chan' = Append(chan, e) /\ task' = task
        /\ cursor' = cursor /\ position' = position
        /\ phase[h] = "enqueue" /\ phase' = [phase EXCEPT ![h] = "stream"]
        /\ Busy(k)' = Busy(k)
    BY DEF Enqueue, Busy, workerVars
  <1> HIDE DEF e
  <1>3. /\ Len(chan) \in Nat
        /\ DOMAIN chan = 1..Len(chan) /\ DOMAIN chan' = 1..(Len(chan) + 1)
        /\ \A i \in 1..Len(chan) : chan'[i] = chan[i] /\ chan[i].seq \in Nat
        /\ chan'[Len(chan) + 1] = e
    BY <1>1, <1>2, ChanGrows, ChanEntries
  <1>4. CASE k = h
    <2>1. Queued(k)' = Queued(k) \union {Len(chan) + 1}
      BY <1>1, <1>3, <1>4 DEF Queued
    <2>2. phase'[k] = "stream" /\ position[k] = cursor[k]
      BY <1>2, <1>4 DEF ClientOrder
    <2>3. \A i \in Queued(k) : chan[i].seq < e.seq
      BY <1>1, <1>2, <1>4, <2>2 DEF ChanOrder
    <2>4. \A w \in Busy(k) : task[w].seq < e.seq
      BY <1>1, <1>2, <1>4, <2>2 DEF ClientOrder
    <2>5. ClientOrder(k)'
      BY <1>2, <2>2 DEF ClientOrder, Streaming
    <2>6. \A i \in Queued(k) : i \in 1..Len(chan) /\ i < Len(chan) + 1
      BY <1>3 DEF Queued
    <2>7. ChanOrder(k)'
      BY <1>1, <1>2, <1>3, <1>4, <2>1, <2>2, <2>3, <2>4, <2>6 DEF ChanOrder
    <2> QED BY <2>5, <2>7
  <1>5. CASE k # h
    <2>1. Queued(k)' = Queued(k) /\ phase'[k] = phase[k]
      BY <1>1, <1>2, <1>3, <1>5 DEF Queued
    <2>2. \A i \in Queued(k) : chan'[i] = chan[i]
      BY <1>3 DEF Queued
    <2>3. ClientOrder(k)'
      BY <1>2, <2>1 DEF ClientOrder, Streaming
    <2>4. ChanOrder(k)'
      <3>1. ChanOrder(k)
        OBVIOUS
      <3>2. /\ cursor'[k] = cursor[k] /\ task' = task /\ Busy(k)' = Busy(k)
            /\ Queued(k)' = Queued(k) /\ phase'[k] = phase[k]
        BY <1>2, <2>1
      <3> HIDE TypeFacts DEF OrderInv, ClientSteps
      <3> QED BY <2>2, <3>1, <3>2 DEF ChanOrder
    <2> QED BY <2>3, <2>4
  <1> QED BY <1>4, <1>5

LEMMA TakeEventKeepsOrder ==
  ASSUME OrderInv, NEW k \in Hosts, NEW u \in Workers, TakeEvent(u)
  PROVE  ClientOrder(k)' /\ ChanOrder(k)'
  <1> USE TypeFacts DEF OrderInv, WorkerSteps
  <1>1. /\ chan # <<>> /\ chan' = Tail(chan)
        /\ task' = [task EXCEPT ![u] = Head(chan)]
        /\ wpc[u] = "idle" /\ wpc' = [wpc EXCEPT ![u] = "handle"]
        /\ cursor' = cursor /\ position' = position /\ phase' = phase
    BY DEF TakeEvent, clientVars
  <1>2. /\ Len(chan) \in Nat /\ 1 \in DOMAIN chan
        /\ DOMAIN chan = 1..Len(chan) /\ DOMAIN chan' = 1..(Len(chan) - 1)
        /\ \A i \in 1..(Len(chan) - 1) : chan'[i] = chan[i + 1]
        /\ \A i \in 1..Len(chan) : chan[i].seq \in Nat
        /\ Head(chan) = chan[1]
    BY <1>1, ChanShrinks, ChanEntries
  <1>3. \A i \in Queued(k)' : i + 1 \in Queued(k) /\ chan'[i] = chan[i + 1]
    BY <1>2 DEF Queued
  <1>4. \A w \in Busy(k) : w # u /\ w \in Busy(k)' /\ task'[w] = task[w]
    BY <1>1 DEF Busy
  <1>5. \A w \in Busy(k)' : \/ w \in Busy(k) /\ task'[w] = task[w]
                            \/ w = u /\ task'[w] = chan[1] /\ 1 \in Queued(k)
    BY <1>1, <1>2 DEF Busy, Queued
  <1>6. phase[k] = "absent" => Queued(k)' = {} /\ Busy(k)' = {}
    BY <1>3, <1>5 DEF ClientOrder
  <1>7. ClientOrder(k)'
    BY <1>1, <1>5, <1>6 DEF ClientOrder, ChanOrder, Streaming
  <1>8. \A i \in Queued(k)' : i \in 1..(Len(chan) - 1)
    BY <1>2 DEF Queued
  <1>9. \A i, j \in Queued(k)' : i < j => chan'[i].seq < chan'[j].seq
    <2> SUFFICES ASSUME NEW i \in Queued(k)', NEW j \in Queued(k)', i < j
                 PROVE  chan'[i].seq < chan'[j].seq
      OBVIOUS
    <2>1. i + 1 < j + 1
      BY <1>8
    <2> HIDE TypeFacts
    <2> QED BY <1>3, <2>1 DEF ChanOrder
  <1>10. \A i \in Queued(k)' : /\ chan'[i].seq <= cursor[k]
                               /\ phase[k] = "enqueue" => chan'[i].seq < cursor[k]
                               /\ \A w \in Busy(k)' : task'[w].seq < chan'[i].seq
    <2> SUFFICES ASSUME NEW i \in Queued(k)'
                 PROVE  /\ chan'[i].seq <= cursor[k]
                        /\ phase[k] = "enqueue" => chan'[i].seq < cursor[k]
                        /\ \A w \in Busy(k)' : task'[w].seq < chan'[i].seq
      OBVIOUS
    <2>1. /\ i + 1 \in Queued(k) /\ chan'[i] = chan[i + 1]
          /\ 1 \in Queued(k) => chan[1].seq < chan[i + 1].seq
      <3>1. 1 < i + 1
        BY <1>8
      <3> HIDE TypeFacts
      <3> QED BY <1>3, <3>1 DEF ChanOrder
    <2> HIDE TypeFacts
    <2> QED BY <1>5, <2>1 DEF ChanOrder
  <1>11. \A v, w \in Busy(k)' : v # w => task'[v].seq # task'[w].seq
    <2>1. \A w \in Busy(k) : 1 \in Queued(k) => task[w].seq # chan[1].seq
      <3> SUFFICES ASSUME NEW w \in Busy(k), 1 \in Queued(k)
                   PROVE  task[w].seq # chan[1].seq
        OBVIOUS
      <3>1. task[w].seq < chan[1].seq
        BY DEF ChanOrder
      <3>2. task[w].seq \in Nat /\ chan[1].seq \in Nat
        BY <1>2 DEF Busy
      <3> QED BY <3>1, <3>2
    <2> HIDE TypeFacts
    <2> QED BY <1>5, <2>1 DEF ChanOrder
  <1>12. ChanOrder(k)'
    BY <1>1, <1>9, <1>10, <1>11 DEF ChanOrder
  <1> QED BY <1>7, <1>12

LEMMA NextOrder == OrderInv /\ [Next]_vars => OrderInv'
  <1> SUFFICES ASSUME OrderInv, [Next]_vars, NEW k \in Hosts
               PROVE  ClientOrder(k)' /\ ChanOrder(k)'
    BY NextTypes DEF OrderInv
  <1>1. ASSUME Quiet(k) PROVE ClientOrder(k)' /\ ChanOrder(k)'
    BY <1>1, QuietKeepsOrder DEF OrderInv
  <1>2. CASE Restart
    <2>1. /\ Queued(k)' = {} /\ Busy(k)' = {}
          /\ phase'[k] = "absent" /\ cursor'[k] = 0 /\ position'[k] = 0
      BY <1>2 DEF Restart, Queued, Busy
    <2> QED BY <2>1 DEF ClientOrder, ChanOrder, Streaming
  <1>3. ASSUME NEW h \in Hosts, AddHost(h) \/ Receive(h) \/ Enqueue(h)
        PROVE  ClientOrder(k)' /\ ChanOrder(k)'
    BY <1>3, AddHostKeepsOrder, ReceiveKeepsOrder, EnqueueKeepsOrder
  <1>4. ASSUME NEW w \in Workers, TakeEvent(w)
        PROVE  ClientOrder(k)' /\ ChanOrder(k)'
    BY <1>4, TakeEventKeepsOrder
  <1>5. \/ Restart
        \/ \E h \in Hosts : AddHost(h) \/ Receive(h) \/ Enqueue(h)
        \/ \E w \in Workers : TakeEvent(w)
        \/ Quiet(k)
    BY QuietSteps DEF Next, Client, Worker
  <1> QED BY <1>1, <1>2, <1>3, <1>4, <1>5

\* However often a client reconnects, a host's events pass through the event
\* channel in the host's order and no two workers ever hold the same one: for any
\* number of hosts and workers and any capacity of the channel.
THEOREM EventsInOrder == Spec => []StreamOrder
  <1>1. OrderInv => StreamOrder
    BY DEF OrderInv, ChanOrder, StreamOrder
  <1> QED BY InitOrder, NextOrder, <1>1, PTL DEF Spec

-----------------------------------------------------------------------------
(* What the relay remembers of a host was published by it.                 *)

\* A step that leaves what is queued and what the workers hold as it is, or less.
Still(h) == chan' = chan /\ task' = task /\ Busy(h)' \subseteq Busy(h)

LEMMA StillSteps ==
  ASSUME OrderInv, Next, NEW k \in Hosts
  PROVE  \/ Restart
         \/ \E h \in Hosts : Enqueue(h)
         \/ \E w \in Workers : TakeEvent(w)
         \/ Still(k)
  <1>1. ASSUME Quiet(k) PROVE Still(k)
    BY <1>1 DEF Quiet, Still, Busy, Holding
  <1>2. ASSUME NEW h \in Hosts, AddHost(h) \/ Receive(h) PROVE Still(k)
    BY <1>2 DEF AddHost, Receive, Still, Busy, chanVars, workerVars
  <1>3. \/ Restart
        \/ \E h \in Hosts : AddHost(h) \/ Receive(h) \/ Enqueue(h)
        \/ \E w \in Workers : TakeEvent(w)
        \/ Quiet(k)
    BY QuietSteps DEF Next, Client, Worker
  <1> QED BY <1>1, <1>2, <1>3

LEMMA RestartEmpties ==
  ASSUME Restart, NEW k \in Hosts
  PROVE  /\ Queued(k)' = {} /\ Busy(k)' = {} /\ phase'[k] = "absent"
         /\ cursor'[k] = 0 /\ position'[k] = 0
         /\ from'[k] = Unheard
         /\ log' = log /\ saved' = saved /\ base' = base /\ Traced(k)' = Traced(k)
  BY DEF Restart, Queued, Busy, Traced, tableVars, lossVars

\* What Enqueue adds to the channel, and that it removes nothing.
LEMMA EnqueueAdds ==
  ASSUME Types, NEW k \in Hosts, NEW h \in Hosts, Enqueue(h)
  PROVE  /\ \A j \in Queued(k) : \E i \in Queued(k)' : chan'[i] = chan[j]
         /\ k = h => \E i \in Queued(k)' : chan'[i].seq = position[k]
         /\ \A i \in Queued(k)' : \/ i \in Queued(k) /\ chan'[i] = chan[i]
                                  \/ k = h /\ chan'[i].seq = position[k]
         /\ Busy(k)' = Busy(k) /\ task' = task /\ wpc' = wpc
  <1> DEFINE e == [host |-> h, seq |-> position[h]]
  <1>1. e \in Event /\ e.host = h /\ e.seq = position[h]
    BY TypeFacts DEF Event
  <1>2. chan' = Append(chan, e) /\ task' = task /\ wpc' = wpc /\ Busy(k)' = Busy(k)
    BY DEF Enqueue, Busy, workerVars
  <1> HIDE DEF e
  <1>3. /\ Len(chan) \in Nat
        /\ DOMAIN chan = 1..Len(chan) /\ DOMAIN chan' = 1..(Len(chan) + 1)
        /\ \A i \in 1..Len(chan) : chan'[i] = chan[i]
        /\ chan'[Len(chan) + 1] = e
    BY <1>1, <1>2, ChanGrows, ChanEntries
  <1>4. \A j \in Queued(k) : j \in Queued(k)' /\ chan'[j] = chan[j]
    BY <1>3 DEF Queued
  <1>5. k = h => Len(chan) + 1 \in Queued(k)' /\ chan'[Len(chan) + 1].seq = position[k]
    BY <1>1, <1>3 DEF Queued
  <1>6. \A i \in Queued(k)' : \/ i \in Queued(k) /\ chan'[i] = chan[i]
                              \/ k = h /\ chan'[i].seq = position[k]
    BY <1>1, <1>3 DEF Queued
  <1> QED BY <1>2, <1>4, <1>5, <1>6

\* What TakeEvent moves from the channel to the worker.
LEMMA TakeEventMoves ==
  ASSUME Types, NEW k \in Hosts, NEW u \in Workers, TakeEvent(u)
  PROVE  /\ \A j \in Queued(k) : \/ \E i \in Queued(k)' : chan'[i] = chan[j]
                                 \/ u \in Busy(k)' /\ task'[u] = chan[j]
         /\ \A i \in Queued(k)' : \E j \in Queued(k) : chan'[i] = chan[j]
         /\ \A w \in Busy(k)' : \/ w \in Busy(k) /\ task'[w] = task[w]
                                \/ w = u /\ \E j \in Queued(k) : task'[w] = chan[j]
         /\ \A w \in Busy(k) : w \in Busy(k)' /\ task'[w] = task[w] /\ wpc'[w] = wpc[w]
         /\ wpc'[u] = "handle"
  <1> USE TypeFacts
  <1>1. /\ chan # <<>> /\ chan' = Tail(chan)
        /\ task' = [task EXCEPT ![u] = Head(chan)]
        /\ wpc[u] = "idle" /\ wpc' = [wpc EXCEPT ![u] = "handle"]
    BY DEF TakeEvent
  <1>2. /\ Len(chan) \in Nat /\ 1 \in DOMAIN chan
        /\ DOMAIN chan = 1..Len(chan) /\ DOMAIN chan' = 1..(Len(chan) - 1)
        /\ \A i \in 1..(Len(chan) - 1) : chan'[i] = chan[i + 1]
        /\ Head(chan) = chan[1]
    BY <1>1, ChanShrinks, ChanEntries
  <1>3. /\ \A i \in Queued(k)' : i + 1 \in Queued(k) /\ chan'[i] = chan[i + 1]
        /\ \A j \in Queued(k) : j # 1 => j - 1 \in Queued(k)' /\ chan'[j - 1] = chan[j]
    <2> HIDE TypeFacts
    <2>1. \A i \in Queued(k)' : i + 1 \in Queued(k) /\ chan'[i] = chan[i + 1]
      BY <1>2 DEF Queued
    <2>2. ASSUME NEW j \in Queued(k), j # 1
          PROVE  j - 1 \in Queued(k)' /\ chan'[j - 1] = chan[j]
      <3>1. j \in 1..Len(chan) /\ chan[j].host = k
        BY <1>2 DEF Queued
      <3>2. j - 1 \in 1..(Len(chan) - 1) /\ (j - 1) + 1 = j
        BY <1>2, <2>2, <3>1
      <3>3. chan'[j - 1] = chan[j]
        BY <1>2, <3>2
      <3> QED BY <1>2, <3>1, <3>2, <3>3 DEF Queued
    <2> QED BY <2>1, <2>2
  <1>4. 1 \in Queued(k) => u \in Busy(k)' /\ task'[u] = chan[1]
    BY <1>1, <1>2 DEF Queued, Busy
  <1>5. \A w \in Busy(k) : w # u /\ w \in Busy(k)' /\ task'[w] = task[w] /\ wpc'[w] = wpc[w]
    BY <1>1 DEF Busy
  <1>6. \A w \in Busy(k)' : \/ w \in Busy(k) /\ task'[w] = task[w]
                            \/ w = u /\ task'[w] = chan[1] /\ 1 \in Queued(k)
    BY <1>1, <1>2 DEF Busy, Queued
  <1>7. wpc'[u] = "handle"
    BY <1>1
  <1> HIDE TypeFacts
  <1> QED BY <1>3, <1>4, <1>5, <1>6, <1>7

LEMMA LogGrows ==
  ASSUME Types, Next, NEW k \in Hosts
  PROVE  /\ log[k] \subseteq log'[k]
         /\ \A s \in log'[k] \ log[k] : \A t \in log[k] \union {0} : t < s
  <1> USE TypeFacts
  <1>1. ASSUME NEW h \in Hosts, Publish(h) PROVE
          /\ log[k] \subseteq log'[k]
          /\ \A s \in log'[k] \ log[k] : \A t \in log[k] \union {0} : t < s
    <2>1. PICK s \in (Newest(h) + 1)..MaxSeq : log' = [log EXCEPT ![h] = @ \union {s}]
      BY <1>1 DEF Publish
    <2>2. \A t \in log[h] \union {0} : t < s
      BY NewestIsLast, <2>1
    <2> QED BY <2>1, <2>2
  <1>2. (\E h \in Hosts : Publish(h)) \/ log' = log
    BY DEF Next, AddHost, Client, LoopTop, Connect, ConnectFails, BackoffOver, StreamEnds,
           Receive, ReceiveInfo, Enqueue, EnqueueTimesOut, EnqueueCancelled, EnqueuePanics,
           Worker, TakeEvent, HandleEvent, Insert, InsertCommits, InsertFails,
           InsertUnanswered, FinishInsert, SaveCursor, WorkerEnds, Stop, StopCancel,
           StopClients, StopClose, StopWait, Exit, Restart, outsideVars
  <1> QED BY <1>1, <1>2

LEMMA NextStopOrder == Types /\ StopOrder /\ [Next]_vars => StopOrder'
  <1> SUFFICES ASSUME Types, StopOrder, [Next]_vars PROVE StopOrder'
    OBVIOUS
  <1>1. CASE Restart
    BY <1>1 DEF Restart, StopOrder
  <1>2. CASE StopCancel
    BY <1>2 DEF StopCancel, StopOrder
  <1>3. CASE StopClients \/ StopClose \/ StopWait
    <2>1. cancelled /\ cancelled' = cancelled
      BY <1>3 DEF StopClients, StopClose, StopWait, StopOrder
    <2> QED BY <2>1 DEF StopOrder
  <1>4. CASE UNCHANGED <<cancelled, stop, quit>>
    BY <1>4 DEF StopOrder
  <1>5. \/ Restart \/ StopCancel \/ StopClients \/ StopClose \/ StopWait
        \/ UNCHANGED <<cancelled, stop, quit>>
    BY DEF Next, vars, Publish, AddHost, Client, LoopTop, Connect, ConnectFails, BackoffOver,
           StreamEnds, Receive, ReceiveInfo, Enqueue, EnqueueTimesOut, EnqueueCancelled,
           EnqueuePanics, Worker, TakeEvent, HandleEvent, Insert, InsertCommits, InsertFails,
           InsertUnanswered, FinishInsert, SaveCursor, WorkerEnds, Stop, Exit,
           stopVars, clientVars
  <1> QED BY <1>1, <1>2, <1>3, <1>4, <1>5

\* The numbers a step may put in the place of saved, cursor and position.
LEMMA NumbersKnown ==
  ASSUME OrderInv, NEW k \in Hosts, Published(k), Next
  PROVE  /\ saved'[k] \in log[k] \union {0}
         /\ cursor'[k] \in log[k] \union {0}
         /\ position'[k] \in log[k] \union {0}
         /\ phase'[k] = "enqueue" => position'[k] \in log[k]
  <1> DEFINE Known == /\ saved'[k] \in log[k] \union {0}
                      /\ cursor'[k] \in log[k] \union {0}
                      /\ position'[k] \in log[k] \union {0}
                      /\ phase'[k] = "enqueue" => position'[k] \in log[k]
  <1> USE TypeFacts DEF OrderInv, ClientSteps, Published, tableVars, clientVars
  <1>1. ASSUME NEW h \in Hosts, AddHost(h) PROVE Known
    <2>1. cursor'[k] \in {cursor[k], saved[k], 0}
      <3>1. cursor' = [cursor EXCEPT ![h] = saved[h]] \/ cursor' = [cursor EXCEPT ![h] = 0]
        BY <1>1, Zenon DEF AddHost, Resume
      <3> QED BY <3>1
    <2>2. /\ phase' = [phase EXCEPT ![h] = "loop"]
          /\ saved' = saved /\ position' = position
      BY <1>1 DEF AddHost
    <2> QED BY <2>1, <2>2
  <1>2. ASSUME NEW h \in Hosts, Connect(h) PROVE Known
    <2>1. h = k => StreamStart(h, Asks(h)) \in log[h] \union {0}
      BY NewestIsLast DEF StreamStart, Asks
    <2> QED BY <1>2, <2>1 DEF Connect
  <1>3. ASSUME NEW h \in Hosts, Receive(h) PROVE Known
    BY <1>3, NextOnStream DEF Receive, Advance
  <1>4. ASSUME NEW w \in Workers, SaveCursor(w) PROVE Known
    <2>1. saved'[k] = saved[k] \/ (task[w].host = k /\ saved'[k] = task[w].seq)
      BY <1>4 DEF SaveCursor, SaveFails
    <2>2. task[w].host = k => task[w].seq \in log[k]
      BY <1>4 DEF SaveCursor, Busy
    <2> QED BY <1>4, <2>1, <2>2 DEF SaveCursor
  <1>5. CASE Restart
    BY <1>5 DEF Restart
  <1>6. CASE /\ UNCHANGED <<saved, cursor, position>>
             /\ phase'[k] = "enqueue" => phase[k] = "enqueue"
    BY <1>6
  <1>7. ASSUME NEW h \in Hosts,
               \/ LoopTop(h) \/ ConnectFails(h) \/ BackoffOver(h) \/ StreamEnds(h)
               \/ Enqueue(h) \/ EnqueueTimesOut(h) \/ EnqueueCancelled(h)
        PROVE  Known
    <2>1. UNCHANGED <<saved, cursor, position>>
      BY <1>7 DEF LoopTop, ConnectFails, BackoffOver, StreamEnds, Enqueue, EnqueueTimesOut,
                  EnqueueCancelled
    <2>2. phase'[h] # "enqueue" /\ (k # h => phase'[k] = phase[k])
      BY <1>7 DEF LoopTop, Top, ConnectFails, BackoffOver, StreamEnds, AfterStream, Enqueue,
                  EnqueueTimesOut, EnqueueCancelled
    <2> QED BY <1>6, <2>1, <2>2
  <1>8. \/ \E h \in Hosts : \/ AddHost(h) \/ Connect(h) \/ Receive(h)
                            \/ LoopTop(h) \/ ConnectFails(h) \/ BackoffOver(h) \/ StreamEnds(h)
                            \/ Enqueue(h) \/ EnqueueTimesOut(h) \/ EnqueueCancelled(h)
        \/ \E w \in Workers : SaveCursor(w)
        \/ Restart
        \/ UNCHANGED <<saved, cursor, position, phase>>
    BY DEF Next, Publish, Client, ReceiveInfo, EnqueuePanics, Worker, TakeEvent, HandleEvent,
           Insert, InsertCommits, InsertFails, InsertUnanswered, FinishInsert, WorkerEnds, Stop,
           StopCancel, StopClients, StopClose, StopWait, Exit
  <1> HIDE TypeFacts DEF OrderInv, Published
  <1> QED BY <1>1, <1>2, <1>3, <1>4, <1>5, <1>6, <1>7, <1>8

\* What the relay has heard of a host moves with its cursors.
LEMMA HeardStays ==
  ASSUME OrderInv, NEW k \in Hosts, Published(k), Heard(k), Next
  PROVE  Heard(k)'
  <1> USE TypeFacts DEF OrderInv, Heard, Unheard, tableVars, clientVars
  <1>1. ASSUME NEW h \in Hosts, AddHost(h) PROVE Heard(k)'
    <2>1. /\ UNCHANGED <<saved, base>> /\ phase[h] = "absent"
          /\ \/ /\ cursor' = [cursor EXCEPT ![h] = saved[h]]
                /\ from' = [from EXCEPT ![h] = base[h]]
             \/ /\ cursor' = [cursor EXCEPT ![h] = 0]
                /\ from' = from
      BY <1>1, Zenon DEF AddHost, Resume, Unknown, tableVars
    <2>2. cursor[h] = 0
      BY <2>1 DEF ClientOrder
    <2> QED BY <2>1, <2>2
  <1>2. ASSUME NEW h \in Hosts, Receive(h) PROVE Heard(k)'
    <2>1. /\ UNCHANGED <<saved, base>>
          /\ cursor' = [cursor EXCEPT ![h] = Min(Ahead(h))]
          /\ from' = [from EXCEPT ![h] = IF @ = Unheard THEN position[h] ELSE @]
      BY <1>2 DEF Receive, Advance
    <2>2. Min(Ahead(h)) \in log[h]
      BY <1>2, NextOnStream DEF Receive
    <2> QED BY <2>1, <2>2
  <1>3. ASSUME NEW u \in Workers, SaveCursor(u) PROVE Heard(k)'
    <2>1. /\ UNCHANGED <<cursor, from>> /\ wpc[u] = "save"
          /\ \/ UNCHANGED <<saved, base>>
             \/ /\ saved' = [saved EXCEPT ![task[u].host] = task[u].seq]
                /\ base' = [base EXCEPT ![task[u].host] = from[task[u].host]]
      BY <1>3, Zenon DEF SaveCursor, SaveFails, clientVars
    <2>2. task[u].host = k => task[u].seq \in log[k] /\ task[u].seq <= cursor[k]
      BY <2>1 DEF Busy, Published, ClientOrder
    <2>3. task[u].host = k => 0 < task[u].seq /\ 0 < cursor[k]
      BY <2>2
    <2> QED BY <2>1, <2>3
  <1>4. CASE Restart
    BY <1>4 DEF Restart
  <1>5. \/ \E h \in Hosts : AddHost(h) \/ Receive(h)
        \/ \E w \in Workers : SaveCursor(w)
        \/ Restart
        \/ UNCHANGED <<saved, base, cursor, from>>
    BY DEF Next, Publish, Client, LoopTop, Connect, ConnectFails, BackoffOver, StreamEnds,
           ReceiveInfo, Enqueue, EnqueueTimesOut, EnqueueCancelled, EnqueuePanics, Worker,
           TakeEvent, HandleEvent, Insert, InsertCommits, InsertFails, InsertUnanswered,
           FinishInsert, WorkerEnds, Stop, StopCancel, StopClients, StopClose, StopWait, Exit
  <1>6. CASE UNCHANGED <<saved, base, cursor, from>>
    BY <1>6
  <1> HIDE TypeFacts DEF OrderInv, Heard
  <1> QED BY <1>1, <1>2, <1>3, <1>4, <1>5, <1>6

LEMMA InitKnown == Init => KnownInv
  <1> SUFFICES ASSUME Init PROVE KnownInv
    OBVIOUS
  <1>1. \A h \in Hosts : Queued(h) = {} /\ Busy(h) = {}
    BY DEF Init, Queued, Busy
  <1>2. \A h \in Hosts : Published(h) /\ Heard(h)
    BY <1>1 DEF Init, Published, Heard, Unheard
  <1>3. StopOrder
    BY DEF Init, StopOrder
  <1> QED BY InitOrder, <1>2, <1>3 DEF KnownInv

LEMMA NextKnown == KnownInv /\ [Next]_vars => KnownInv'
  <1> SUFFICES ASSUME KnownInv, Next, NEW k \in Hosts PROVE Published(k)' /\ Heard(k)'
    <2>1. UNCHANGED vars /\ KnownInv => \A k \in Hosts : Published(k)' /\ Heard(k)'
      BY DEF KnownInv, Published, Heard, Queued, Busy, vars, outsideVars, tableVars, chanVars,
             clientVars, workerVars
    <2> QED BY <2>1, NextOrder, NextStopOrder DEF KnownInv, OrderInv
  <1>1. OrderInv /\ Types /\ Published(k) /\ Heard(k)
    BY DEF KnownInv, OrderInv
  <1>2. log[k] \subseteq log'[k]
    BY <1>1, LogGrows
  <1>3. \A i \in Queued(k)' : chan'[i].seq \in log[k]
    <2>1. CASE Restart
      BY <2>1, RestartEmpties
    <2>2. ASSUME NEW h \in Hosts, Enqueue(h) PROVE \A i \in Queued(k)' : chan'[i].seq \in log[k]
      <3>1. k = h => position[k] \in log[k]
        BY <1>1, <2>2 DEF Enqueue, Published
      <3> QED BY <1>1, <2>2, <3>1, EnqueueAdds DEF Published
    <2>3. ASSUME NEW w \in Workers, TakeEvent(w) PROVE \A i \in Queued(k)' : chan'[i].seq \in log[k]
      BY <1>1, <2>3, TakeEventMoves DEF Published
    <2>4. CASE Still(k)
      BY <1>1, <2>4 DEF Still, Queued, Published
    <2> QED BY <1>1, <2>1, <2>2, <2>3, <2>4, StillSteps
  <1>4. \A w \in Busy(k)' : task'[w].seq \in log[k]
    <2>1. CASE Restart
      BY <2>1, RestartEmpties
    <2>2. ASSUME NEW h \in Hosts, Enqueue(h) PROVE \A w \in Busy(k)' : task'[w].seq \in log[k]
      BY <1>1, <2>2, EnqueueAdds DEF Published
    <2>3. ASSUME NEW u \in Workers, TakeEvent(u) PROVE \A w \in Busy(k)' : task'[w].seq \in log[k]
      BY <1>1, <2>3, TakeEventMoves DEF Published
    <2>4. CASE Still(k)
      BY <1>1, <2>4 DEF Still, Published
    <2> QED BY <1>1, <2>1, <2>2, <2>3, <2>4, StillSteps
  <1>5. /\ saved'[k] \in log[k] \union {0}
        /\ cursor'[k] \in log[k] \union {0}
        /\ position'[k] \in log[k] \union {0}
        /\ phase'[k] = "enqueue" => position'[k] \in log[k]
    BY <1>1, NumbersKnown
  <1>6. Heard(k)'
    BY <1>1, HeardStays
  <1> QED BY <1>2, <1>3, <1>4, <1>5, <1>6 DEF Published

-----------------------------------------------------------------------------
(* A running relay loses nothing.                                          *)

LEMMA TracedGrows ==
  ASSUME Types, Next, NEW k \in Hosts
  PROVE  Traced(k) \subseteq Traced(k)'
  <1> USE TypeFacts DEF Traced, tableVars, lossVars
  <1>1. ASSUME NEW h \in Hosts, Publish(h) \/ AddHost(h) \/ Client(h)
        PROVE  Traced(k) \subseteq Traced(k)'
    <2>1. CASE EnqueueTimesOut(h)
      BY <2>1 DEF EnqueueTimesOut
    <2>2. CASE ~EnqueueTimesOut(h)
      <3>1. UNCHANGED <<stored, dropped, unstored>>
        BY <1>1, <2>2 DEF Publish, AddHost, Client, LoopTop, Connect, ConnectFails, BackoffOver,
             StreamEnds, Receive, ReceiveInfo, Enqueue, EnqueueCancelled, EnqueuePanics
      <3> QED BY <3>1
    <2> QED BY <2>1, <2>2
  <1>2. ASSUME NEW w \in Workers, Worker(w) PROVE Traced(k) \subseteq Traced(k)'
    <2>1. /\ dropped' = dropped
          /\ stored' = stored \/ Keep(w)
          /\ unstored' = unstored \/ unstored' = [unstored EXCEPT ![task[w].host] = @ \union {task[w].seq}]
      BY <1>2, Zenon DEF Worker, TakeEvent, HandleEvent, Insert, InsertCommits, InsertFails,
           InsertUnanswered, FinishInsert, ReportFailure, SaveCursor, WorkerEnds
    <2>2. stored[k] \subseteq stored'[k]
      BY <2>1 DEF Keep
    <2>3. unstored[k] \subseteq unstored'[k]
      BY <2>1
    <2> QED BY <2>1, <2>2, <2>3
  <1>3. CASE Stop \/ Exit \/ Restart
    BY <1>3 DEF Stop, StopCancel, StopClients, StopClose, StopWait, Exit, Restart
  <1> HIDE TypeFacts DEF Traced
  <1> QED BY <1>1, <1>2, <1>3 DEF Next

\* What a step that loses nothing does: it passes nothing that is neither traced nor
\* on its way, and what it takes off the way has been traced.
Kept(k) ==
  /\ \A s \in log'[k] : Passed(k, s)' => \/ s \in log[k] /\ (Passed(k, s) \/ BelowCursor(k, s))
                                        \/ s \in Traced(k)'
                                        \/ Pending(k, s)'
  /\ \A s \in log[k] : Pending(k, s) => Pending(k, s)' \/ s \in Traced(k)'

LEMMA TrailKept ==
  ASSUME NEW k \in Hosts, Trail(k), NothingLost(k), Kept(k), Traced(k) \subseteq Traced(k)'
  PROVE  Trail(k)'
  BY DEF Trail, NothingLost, Kept

\* Steps that leave the channel and the workers alone, and with them the events
\* under way other than the one the client holds.
LEMMA PendingStill ==
  ASSUME NEW k \in Hosts, chan' = chan, task' = task, wpc' = wpc,
         phase[k] = "enqueue" => phase'[k] = "enqueue" /\ position'[k] = position[k]
  PROVE  \A s \in log[k] : Pending(k, s) => Pending(k, s)'
  BY DEF Pending, Queued, Busy

LEMMA ClientLosesNothing ==
  ASSUME KnownInv, ~cancelled, Next, NEW k \in Hosts, NEW h \in Hosts,
         Publish(h) \/ AddHost(h) \/ Client(h)
  PROVE  Kept(k)
  <1>1. Types /\ OrderInv /\ ClientOrder(k) /\ Published(k) /\ Heard(k) /\ ~quit[h]
    BY DEF KnownInv, OrderInv, StopOrder
  <1>2. Traced(k) \subseteq Traced(k)'
    BY <1>1, TracedGrows
  <1> USE TypeFacts, <1>1 DEF ClientSteps, outsideVars, tableVars, chanVars, clientVars, workerVars
  <1>3. CASE Publish(h)
    <2>1. UNCHANGED <<chan, task, wpc, phase, cursor, position, from>>
      BY <1>3 DEF Publish
    <2>2. \A s \in log'[k] : Passed(k, s)' => s \in log[k] /\ Passed(k, s)
      <3> SUFFICES ASSUME NEW s \in log'[k], Passed(k, s), s \notin log[k] PROVE FALSE
        BY <2>1 DEF Passed, Streaming
      <3>1. cursor[k] < s /\ position[k] < s /\ s \in Nat
        <4>1. Types'
          BY NextTypes
        <4>2. s \in Nat
          BY <4>1 DEF Types
        <4> QED BY LogGrows, <4>2 DEF Published
      <3> QED BY <3>1 DEF Passed
    <2>3. \A s \in log[k] : Pending(k, s) => Pending(k, s)'
      BY <2>1, PendingStill
    <2> HIDE TypeFacts
    <2> QED BY <2>2, <2>3, <1>2 DEF Kept
  <1>4. CASE AddHost(h)
    <2>1. UNCHANGED <<log, chan, task, wpc, position>> /\ phase[h] = "absent"
      BY <1>4 DEF AddHost, Unknown
    <2>2. phase' = [phase EXCEPT ![h] = "loop"]
      BY <1>4 DEF AddHost
    <2>3. \/ /\ cursor' = [cursor EXCEPT ![h] = saved[h]]
             /\ from' = [from EXCEPT ![h] = base[h]]
          \/ /\ cursor' = [cursor EXCEPT ![h] = 0]
             /\ from' = from
      BY <1>4, Zenon DEF AddHost, Resume
    <2>4. \A s \in log'[k] : Passed(k, s)' =>
            s \in log[k] /\ (Passed(k, s) \/ BelowCursor(k, s))
      <3> SUFFICES ASSUME NEW s \in log[k], Passed(k, s)'
                   PROVE  Passed(k, s) \/ BelowCursor(k, s)
        BY <2>1
      <3>1. CASE k = h
        <4>1. /\ from'[k] < s /\ s <= cursor'[k]
              /\ \/ cursor'[k] = saved[k] /\ from'[k] = base[k]
                 \/ cursor'[k] = 0
          BY <2>2, <2>3, <3>1 DEF Passed, Streaming
        <4>2. 0 < s /\ s \in Nat
          OBVIOUS
        <4> QED BY <4>1, <4>2 DEF BelowCursor
      <3>2. CASE k # h
        BY <2>1, <2>2, <2>3, <3>2 DEF Passed, Streaming
      <3> QED BY <3>1, <3>2
    <2>5. \A s \in log[k] : Pending(k, s) => Pending(k, s)'
      BY <2>1, <2>2, PendingStill
    <2> HIDE TypeFacts
    <2> QED BY <2>1, <2>4, <2>5, <1>2 DEF Kept
  <1>5. CASE Connect(h)
    <2>1. /\ UNCHANGED <<log, chan, task, wpc, cursor, from>>
          /\ phase[h] = "dial" /\ phase' = [phase EXCEPT ![h] = "stream"]
          /\ position' = [position EXCEPT ![h] = StreamStart(h, Asks(h))]
      BY <1>5 DEF Connect
    <2>2. \A s \in log'[k] : Passed(k, s)' => Passed(k, s)
      <3>1. CASE k = h /\ cursor[k] > 0
        <4>1. position'[k] = cursor[k]
          BY <2>1, <3>1 DEF StreamStart, Asks
        <4> QED BY <2>1, <4>1 DEF Passed
      <3>2. CASE k = h /\ cursor[k] = 0
        <4>1. from'[k] = Unheard
          BY <2>1, <3>2 DEF Heard
        <4> QED BY <4>1 DEF Passed
      <3>3. CASE k # h
        BY <2>1, <3>3 DEF Passed, Streaming
      <3> QED BY <3>1, <3>2, <3>3
    <2>3. \A s \in log[k] : Pending(k, s) => Pending(k, s)'
      BY <2>1, PendingStill
    <2> HIDE TypeFacts
    <2> QED BY <2>1, <2>2, <2>3, <1>2 DEF Kept
  <1>6. CASE Receive(h)
    <2>1. /\ UNCHANGED <<log, chan, task, wpc>>
          /\ phase[h] = "stream" /\ phase' = [phase EXCEPT ![h] = "enqueue"]
          /\ position' = [position EXCEPT ![h] = Min(Ahead(h))]
          /\ cursor' = [cursor EXCEPT ![h] = Min(Ahead(h))]
          /\ from' = [from EXCEPT ![h] = IF @ = Unheard THEN position[h] ELSE @]
      BY <1>6 DEF Receive, Advance
    <2>2. \A s \in log'[k] : Passed(k, s)' => Passed(k, s) \/ Pending(k, s)'
      <3> SUFFICES ASSUME NEW s \in log[k], Passed(k, s)' PROVE Passed(k, s) \/ Pending(k, s)'
        BY <2>1
      <3>1. CASE k = h
        <4>1. Min(Ahead(h)) \in Nat /\ \A t \in log[h] : t > position[h] => Min(Ahead(h)) <= t
          BY <1>6, NextOnStream DEF Receive
        <4>2. s <= Min(Ahead(h)) /\ position'[k] = Min(Ahead(h)) /\ phase'[k] = "enqueue"
          BY <2>1, <3>1 DEF Passed
        <4>3. s <= position[k] \/ s = Min(Ahead(h))
          BY <3>1, <4>1, <4>2
        <4>4. /\ from'[k] = IF from[k] = Unheard THEN position[k] ELSE from[k]
              /\ from'[k] < s
          BY <2>1, <3>1 DEF Passed
        <4>5. s = Min(Ahead(h)) => Pending(k, s)'
          BY <4>2 DEF Pending
        <4>6. s <= position[k] => Passed(k, s)
          BY <2>1, <3>1, <4>4 DEF Passed, Streaming
        <4> QED BY <4>3, <4>5, <4>6
      <3>2. CASE k # h
        BY <2>1, <3>2 DEF Passed, Streaming
      <3> QED BY <3>1, <3>2
    <2>3. \A s \in log[k] : Pending(k, s) => Pending(k, s)'
      BY <2>1, PendingStill
    <2> HIDE TypeFacts
    <2> QED BY <2>1, <2>2, <2>3, <1>2 DEF Kept
  <1>7. CASE Enqueue(h)
    <2>1. /\ UNCHANGED <<log, cursor, position, from>>
          /\ phase[h] = "enqueue" /\ phase' = [phase EXCEPT ![h] = "stream"]
      BY <1>7 DEF Enqueue
    <2>2. \A s \in log'[k] : Passed(k, s)' => Passed(k, s)
      BY <2>1 DEF Passed, Streaming
    <2>3. \A s \in log[k] : Pending(k, s) => Pending(k, s)'
      <3> SUFFICES ASSUME NEW s \in log[k], Pending(k, s) PROVE Pending(k, s)'
        OBVIOUS
      <3>1. CASE phase[k] = "enqueue" /\ s = position[k]
        <4>1. CASE k = h
          BY <1>7, <3>1, <4>1, EnqueueAdds DEF Pending
        <4>2. CASE k # h
          BY <2>1, <3>1, <4>2 DEF Pending
        <4> QED BY <4>1, <4>2
      <3>2. CASE \E i \in Queued(k) : s = chan[i].seq
        BY <1>7, <3>2, EnqueueAdds DEF Pending
      <3>3. CASE \E w \in Busy(k) : wpc[w] # "save" /\ s = task[w].seq
        <4>1. Busy(k)' = Busy(k) /\ task' = task /\ wpc' = wpc
          BY <1>7, EnqueueAdds
        <4> QED BY <3>3, <4>1 DEF Pending
      <3> QED BY <3>1, <3>2, <3>3 DEF Pending
    <2> HIDE TypeFacts
    <2> QED BY <2>1, <2>2, <2>3, <1>2 DEF Kept
  <1>8. CASE EnqueueTimesOut(h)
    <2>1. /\ UNCHANGED <<log, cursor, position, from, chan, task, wpc>>
          /\ phase[h] = "enqueue" /\ phase' = [phase EXCEPT ![h] = "stream"]
          /\ dropped' = [dropped EXCEPT ![h] = @ \union {position[h]}]
      BY <1>8 DEF EnqueueTimesOut
    <2>2. \A s \in log'[k] : Passed(k, s)' => Passed(k, s)
      BY <2>1 DEF Passed, Streaming
    <2>3. \A s \in log[k] : Pending(k, s) => Pending(k, s)' \/ s \in Traced(k)'
      BY <2>1 DEF Pending, Queued, Busy, Traced
    <2> HIDE TypeFacts
    <2> QED BY <2>1, <2>2, <2>3, <1>2 DEF Kept
  <1>9. CASE \/ LoopTop(h) \/ ConnectFails(h) \/ BackoffOver(h) \/ StreamEnds(h)
             \/ ReceiveInfo(h) \/ EnqueuePanics(h)
    <2>1. UNCHANGED <<log, cursor, position, from, chan, task, wpc>>
      BY <1>9 DEF LoopTop, ConnectFails, BackoffOver, StreamEnds, ReceiveInfo, EnqueuePanics
    <2>2. \/ phase' = phase
          \/ phase[h] # "enqueue" /\ \E p \in ClientSteps \ {"stream", "enqueue"} :
                                        phase' = [phase EXCEPT ![h] = p]
      BY <1>9 DEF LoopTop, Top, ConnectFails, BackoffOver, StreamEnds, AfterStream, ReceiveInfo,
                  EnqueuePanics
    <2>3. \A s \in log'[k] : Passed(k, s)' => Passed(k, s)
      BY <2>1, <2>2 DEF Passed, Streaming
    <2>4. \A s \in log[k] : Pending(k, s) => Pending(k, s)'
      BY <2>1, <2>2, PendingStill
    <2> HIDE TypeFacts
    <2> QED BY <2>1, <2>3, <2>4, <1>2 DEF Kept
  <1>10. ~EnqueueCancelled(h)
    BY DEF EnqueueCancelled
  <1> HIDE TypeFacts, <1>1
  <1> QED BY <1>3, <1>4, <1>5, <1>6, <1>7, <1>8, <1>9, <1>10 DEF Client

LEMMA WorkerLosesNothing ==
  ASSUME KnownInv, ~cancelled, Next, NEW k \in Hosts, NEW u \in Workers, Worker(u)
  PROVE  Kept(k)
  <1>1. Types
    BY DEF KnownInv, OrderInv
  <1>2. Traced(k) \subseteq Traced(k)'
    BY <1>1, TracedGrows
  <1>3. UNCHANGED <<log, phase, cursor, position, from>>
    BY DEF Worker, TakeEvent, HandleEvent, Insert, InsertCommits, InsertFails,
           InsertUnanswered, FinishInsert, SaveCursor, WorkerEnds, outsideVars, clientVars
  <1>4. \A s \in log'[k] : Passed(k, s)' => s \in log[k] /\ Passed(k, s)
    BY <1>3 DEF Passed, Streaming
  <1> USE <1>1 DEF chanVars, workerVars
  <1>5. CASE TakeEvent(u)
    <2> SUFFICES ASSUME NEW s \in log[k], Pending(k, s) PROVE Pending(k, s)'
      BY <1>4 DEF Kept
    <2>1. CASE phase[k] = "enqueue" /\ s = position[k]
      BY <1>3, <2>1 DEF Pending
    <2>2. CASE \E i \in Queued(k) : s = chan[i].seq
      BY <1>5, <2>2, TakeEventMoves DEF Pending
    <2>3. CASE \E w \in Busy(k) : wpc[w] # "save" /\ s = task[w].seq
      BY <1>5, <2>3, TakeEventMoves DEF Pending
    <2> QED BY <2>1, <2>2, <2>3 DEF Pending
  <1>6. CASE HandleEvent(u) \/ SaveCursor(u) \/ WorkerEnds(u)
    <2> SUFFICES ASSUME NEW s \in log[k], Pending(k, s) PROVE Pending(k, s)'
      BY <1>4 DEF Kept
    <2>1. /\ UNCHANGED <<chan, task>>
          /\ \A w \in Workers : w # u => wpc'[w] = wpc[w]
          /\ wpc[u] \in {"handle", "insert"} => wpc'[u] = "insert"
      BY <1>6, TypeFacts DEF HandleEvent, SaveCursor, WorkerEnds
    <2>2. \A w \in Busy(k) : wpc[w] # "save" => w \in Busy(k)' /\ wpc'[w] # "save"
      BY <2>1 DEF Busy
    <2> QED BY <1>3, <2>1, <2>2 DEF Pending, Queued
  <1>7. CASE Insert(u)
    <2> SUFFICES ASSUME NEW s \in log[k], Pending(k, s)
                 PROVE  Pending(k, s)' \/ s \in Traced(k)'
      BY <1>4 DEF Kept
    <2>1. /\ UNCHANGED <<chan, task>>
          /\ \A w \in Workers : w # u => wpc'[w] = wpc[w]
      BY <1>7, TypeFacts DEF Insert, InsertCommits, InsertFails, InsertUnanswered, FinishInsert
    <2>2. task[u].host = k => task[u].seq \in Traced(k)'
      <3>1. Keep(u) \/ unstored' = [unstored EXCEPT ![task[u].host] = @ \union {task[u].seq}]
        BY <1>7, Zenon DEF Insert, InsertCommits, InsertFails, InsertUnanswered, ReportFailure
      <3>2. CASE Keep(u)
        BY <3>2, TypeFacts DEF Keep, Traced
      <3>3. CASE unstored' = [unstored EXCEPT ![task[u].host] = @ \union {task[u].seq}]
        BY <3>3, TypeFacts DEF Traced
      <3> QED BY <3>1, <3>2, <3>3
    <2>3. \A w \in Busy(k) : w # u => w \in Busy(k)' /\ wpc'[w] = wpc[w]
      BY <2>1 DEF Busy
    <2>4. u \in Busy(k) => task[u].seq \in Traced(k)'
      BY <2>2 DEF Busy
    <2> QED BY <1>3, <2>1, <2>3, <2>4 DEF Pending, Queued
  <1> QED BY <1>5, <1>6, <1>7 DEF Worker

LEMMA StopLosesNothing ==
  ASSUME KnownInv, NEW k \in Hosts, Stop \/ Exit
  PROVE  Kept(k)
  <1>1. UNCHANGED <<log, stored, dropped, unstored, chan, task, wpc, phase, cursor, position,
                    from>>
    BY DEF Stop, StopCancel, StopClients, StopClose, StopWait, Exit, outsideVars, tableVars,
           lossVars, chanVars, clientVars, workerVars
  <1> QED BY <1>1 DEF Kept, Passed, Streaming, Pending, Queued, Busy

LEMMA NextLosesNothing ==
  ASSUME KnownInv, Next, ~cancelled, ~Restart, NEW k \in Hosts
  PROVE  Kept(k)
  BY ClientLosesNothing, WorkerLosesNothing, StopLosesNothing DEF Next

\* After a restart no client has passed anything.
LEMMA RestartKeepsTrail ==
  ASSUME KnownInv, Restart, NEW k \in Hosts
  PROVE  Trail(k)'
  <1>1. \A s \in log'[k] : ~Passed(k, s)'
    BY RestartEmpties, TypeFacts DEF KnownInv, OrderInv, Passed, Streaming
  <1> QED BY <1>1 DEF Trail

LEMMA SavedChanges ==
  ASSUME Types, Next
  PROVE  \/ UNCHANGED <<saved, base>>
         \/ \E u \in Workers : /\ SaveCursor(u) /\ ~cancelled
                               /\ saved' = [saved EXCEPT ![task[u].host] = task[u].seq]
                               /\ base' = [base EXCEPT ![task[u].host] = from[task[u].host]]
  <1>1. ASSUME NEW u \in Workers, SaveCursor(u)
        PROVE  \/ UNCHANGED <<saved, base>>
               \/ /\ ~cancelled
                  /\ saved' = [saved EXCEPT ![task[u].host] = task[u].seq]
                  /\ base' = [base EXCEPT ![task[u].host] = from[task[u].host]]
    BY <1>1, Zenon DEF SaveCursor, SaveFails, CanSave
  <1>2. (\E u \in Workers : SaveCursor(u)) \/ UNCHANGED <<saved, base>>
    BY DEF Next, Publish, AddHost, Client, LoopTop, Connect, ConnectFails, BackoffOver,
       StreamEnds, Receive, ReceiveInfo, Enqueue, EnqueueTimesOut, EnqueueCancelled,
       EnqueuePanics, Worker, TakeEvent, HandleEvent, Insert, InsertCommits, InsertFails,
       InsertUnanswered, FinishInsert, WorkerEnds, Stop, StopCancel, StopClients, StopClose,
       StopWait, Exit, Restart, tableVars
  <1> QED BY <1>1, <1>2

\* A save puts only what the client has passed below the cursor.
LEMMA SavedWasPassed ==
  ASSUME KnownInv, NEW k \in Hosts, NEW u \in Workers, u \in Busy(k),
         NEW s \in log[k], from[k] < s, s <= task[u].seq
  PROVE  Passed(k, s)
  <1>1. Types /\ Published(k) /\ ClientOrder(k) /\ Heard(k)
    BY DEF KnownInv, OrderInv
  <1>2. task[u].seq <= cursor[k] /\ 0 < task[u].seq
    BY <1>1, TypeFacts DEF ClientOrder, Published
  <1>3. s \in Nat /\ task[u].seq \in Nat /\ cursor[k] \in Nat
    BY <1>1, TypeFacts
  <1>4. s <= cursor[k] /\ from[k] # Unheard
    BY <1>1, <1>2, <1>3 DEF Heard
  <1> QED BY <1>4 DEF Passed

LEMMA LostShrinks ==
  ASSUME KnownInv, Next, ~cancelled, ~Restart, NEW k \in Hosts
  PROVE  Lost(k)' \subseteq Lost(k)
  <1>1. Types /\ Published(k)
    BY DEF KnownInv, OrderInv
  <1>2. Kept(k) /\ Traced(k) \subseteq Traced(k)'
    BY <1>1, NextLosesNothing, TracedGrows
  <1> SUFFICES ASSUME NEW s \in log'[k], BelowCursor(k, s)' \/ Passed(k, s)',
                      s \notin Traced(k)', ~Pending(k, s)'
               PROVE  s \in log[k] /\ (BelowCursor(k, s) \/ Passed(k, s))
    BY <1>2 DEF Lost, Kept
  <1>3. CASE Passed(k, s)'
    BY <1>2, <1>3 DEF Kept
  <1>4. ASSUME s <= saved[k] PROVE s \in log[k]
    <2>1. s \in Nat /\ saved[k] \in Nat
      <3>1. Types'
        BY <1>1, NextTypes
      <3> QED BY <1>1, <3>1, TypeFacts DEF Types
    <2>2. s \notin log[k] => saved[k] < s
      BY <1>1, LogGrows DEF Published
    <2> QED BY <1>4, <2>1, <2>2
  <1>5. CASE BelowCursor(k, s)'
    <2>1. CASE saved'[k] = saved[k] /\ base'[k] = base[k]
      BY <1>4, <1>5, <2>1 DEF BelowCursor
    <2>2. CASE ~(saved'[k] = saved[k] /\ base'[k] = base[k])
      <3>1. PICK u \in Workers : /\ SaveCursor(u)
                                 /\ saved' = [saved EXCEPT ![task[u].host] = task[u].seq]
                                 /\ base' = [base EXCEPT ![task[u].host] = from[task[u].host]]
        BY <1>1, <2>2, SavedChanges
      <3>2. task[u].host = k /\ saved'[k] = task[u].seq /\ base'[k] = from[k]
        BY <1>1, <2>2, <3>1, TypeFacts
      <3>3. u \in Busy(k) /\ log' = log
        BY <3>1, <3>2 DEF SaveCursor, Busy, outsideVars
      <3> QED BY <1>5, <3>2, <3>3, SavedWasPassed DEF BelowCursor
    <2> QED BY <2>1, <2>2
  <1> QED BY <1>3, <1>5

\* A relay that is neither being stopped nor dying loses no event without a trace: for
\* any number of workers, in whatever order they store events and save cursors.
THEOREM OnlyAnEndLoses == Spec => RunningLosesNothing
  <1>1. KnownInv /\ [Next]_vars =>
          [~cancelled /\ restarts' = restarts => \A h \in Hosts : Lost(h)' \subseteq Lost(h)]_vars
    <2> SUFFICES ASSUME KnownInv, Next, ~cancelled, restarts' = restarts, NEW h \in Hosts
                 PROVE  Lost(h)' \subseteq Lost(h)
      OBVIOUS
    <2>1. ~Restart
      <3>1. restarts \in Nat
        BY DEF KnownInv, OrderInv, Types, TypeOK
      <3> QED BY <3>1 DEF Restart
    <2> QED BY <2>1, LostShrinks
  <1> QED BY InitKnown, NextKnown, <1>1, PTL DEF Spec, RunningLosesNothing

-----------------------------------------------------------------------------
(* Nothing is lost below the cursor.                                       *)

\* What a worker saves has everything before it traced: with one worker.
LEMMA SavedIsTraced ==
  ASSUME OneWorker, CursorInv, ~cancelled, NEW u \in Workers, Up, wpc[u] = "save",
         NEW k \in Hosts, task[u].host = k
  PROVE  \A s \in log[k] : from[k] < s /\ s <= task[u].seq => s \in Traced(k)
  <1>1. Types /\ ClientOrder(k) /\ ChanOrder(k) /\ Trail(k) /\ u \in Busy(k)
    BY DEF CursorInv, KnownInv, OrderInv, Busy
  <1> SUFFICES ASSUME NEW s \in log[k], from[k] < s, s <= task[u].seq PROVE s \in Traced(k)
    OBVIOUS
  <1>2. s \in Nat /\ task[u].seq \in Nat /\ cursor[k] \in Nat /\ position[k] \in Nat
    BY <1>1, TypeFacts
  <1>3. Passed(k, s)
    BY <1>1, SavedWasPassed DEF CursorInv
  <1>4. ~Pending(k, s)
    <2>1. ~(phase[k] = "enqueue" /\ s = position[k])
      BY <1>1, <1>2 DEF ClientOrder
    <2>2. \A i \in Queued(k) : s # chan[i].seq
      BY <1>1, <1>2, ChanEntries DEF ChanOrder, Queued
    <2>3. \A w \in Busy(k) : wpc[w] = "save"
      BY DEF OneWorker, Busy
    <2> QED BY <2>1, <2>2, <2>3 DEF Pending
  <1> QED BY <1>1, <1>3, <1>4 DEF Trail

LEMMA NextNothingLost ==
  ASSUME OneWorker, CursorInv, Next, NEW k \in Hosts
  PROVE  NothingLost(k)'
  <1>1. Types /\ Published(k) /\ NothingLost(k) /\ Traced(k) \subseteq Traced(k)'
    BY TracedGrows DEF CursorInv, KnownInv, OrderInv
  <1>2. CASE saved'[k] = saved[k] /\ base'[k] = base[k]
    <2>1. \A s \in log'[k] : s <= saved[k] => s \in log[k]
      <3> SUFFICES ASSUME NEW s \in log'[k], s <= saved[k], s \notin log[k] PROVE FALSE
        OBVIOUS
      <3>1. saved[k] < s
        BY <1>1, LogGrows DEF Published
      <3>2. s \in Nat /\ saved[k] \in Nat
        <4>1. Types'
          BY <1>1, NextTypes
        <4> QED BY <1>1, <4>1, TypeFacts DEF Types
      <3> QED BY <3>1, <3>2
    <2> QED BY <1>1, <1>2, <2>1 DEF NothingLost, BelowCursor
  <1>3. CASE ~(saved'[k] = saved[k] /\ base'[k] = base[k])
    <2>1. PICK u \in Workers : /\ SaveCursor(u) /\ ~cancelled
                               /\ saved' = [saved EXCEPT ![task[u].host] = task[u].seq]
                               /\ base' = [base EXCEPT ![task[u].host] = from[task[u].host]]
      BY <1>1, <1>3, SavedChanges
    <2>2. Up /\ wpc[u] = "save" /\ log' = log
      BY <2>1 DEF SaveCursor, outsideVars
    <2>3. task[u].host = k /\ saved'[k] = task[u].seq /\ base'[k] = from[k]
      BY <1>1, <1>3, <2>1, TypeFacts
    <2> QED BY <1>1, <2>1, <2>2, <2>3, SavedIsTraced DEF NothingLost, BelowCursor
  <1> QED BY <1>2, <1>3

LEMMA CancelledStays ==
  ASSUME Next, ~Restart, cancelled PROVE cancelled'
  BY DEF Next, Publish, AddHost, Client, LoopTop, Connect, ConnectFails, BackoffOver,
       StreamEnds, Receive, ReceiveInfo, Enqueue, EnqueueTimesOut, EnqueueCancelled,
       EnqueuePanics, Worker, TakeEvent, HandleEvent, Insert, InsertCommits, InsertFails,
       InsertUnanswered, FinishInsert, SaveCursor, WorkerEnds, Stop, StopCancel, StopClients,
       StopClose, StopWait, Exit, stopVars

LEMMA InitCursor == Init => CursorInv
  <1> SUFFICES ASSUME Init PROVE CursorInv
    OBVIOUS
  <1>1. \A h \in Hosts : NothingLost(h) /\ Trail(h)
    BY DEF Init, NothingLost, BelowCursor, Trail
  <1> QED BY <1>1, InitKnown DEF CursorInv

LEMMA NextCursor == OneWorker /\ CursorInv /\ [Next]_vars => CursorInv'
  <1> SUFFICES ASSUME OneWorker, CursorInv, Next PROVE CursorInv'
    <2>1. UNCHANGED vars /\ CursorInv => CursorInv'
      <3> SUFFICES ASSUME UNCHANGED vars, CursorInv PROVE CursorInv'
        OBVIOUS
      <3>1. KnownInv'
        BY NextKnown DEF CursorInv
      <3>2. \A h \in Hosts : NothingLost(h)'
        BY DEF CursorInv, NothingLost, BelowCursor, Traced, vars, outsideVars, tableVars, lossVars
      <3>3. ~cancelled' => \A h \in Hosts : Trail(h)'
        BY DEF CursorInv, Trail, Traced, Passed, Streaming, Pending, Queued, Busy, vars,
               outsideVars, tableVars, lossVars, chanVars, clientVars, workerVars, stopVars
      <3> QED BY <3>1, <3>2, <3>3 DEF CursorInv
    <2> QED BY <2>1
  <1>1. KnownInv'
    BY NextKnown DEF CursorInv
  <1>2. \A h \in Hosts : NothingLost(h)'
    BY NextNothingLost
  <1>3. ASSUME ~cancelled', NEW k \in Hosts PROVE Trail(k)'
    <2>1. KnownInv /\ Types /\ NothingLost(k)
      BY DEF CursorInv, KnownInv, OrderInv
    <2>2. CASE Restart
      BY <2>1, <2>2, RestartKeepsTrail
    <2>3. CASE ~Restart
      <3>1. ~cancelled
        BY <1>3, <2>3, CancelledStays
      <3>2. Trail(k)
        BY <3>1 DEF CursorInv
      <3> QED BY <2>1, <2>3, <3>1, <3>2, NextLosesNothing, TracedGrows, TrailKept
    <2> QED BY <2>2, <2>3
  <1> QED BY <1>1, <1>2, <1>3 DEF CursorInv

\* With one worker, nothing at or before a saved cursor is missing without a trace,
\* through any number of crashes, shutdowns, broken connections and failing
\* statements.
THEOREM CursorIsSafe ==
  ASSUME OneWorker PROVE Spec => []NothingLostBelowCursor
  <1>1. CursorInv => NothingLostBelowCursor
    BY DEF CursorInv, NothingLost, NothingLostBelowCursor, Traced
  <1> QED BY OneWorker, InitCursor, NextCursor, <1>1, PTL DEF Spec

-----------------------------------------------------------------------------
(* The saved cursor never goes back.                                       *)

LEMMA ClientKeepsBeyondSaved ==
  ASSUME OrderInv, NEW k \in Hosts, Published(k), BeyondSaved(k), Next, saved' = saved
  PROVE  /\ cursor'[k] = 0 \/ saved[k] <= cursor'[k]
         /\ Streaming(k)' => saved[k] <= position'[k]
         /\ phase'[k] = "enqueue" => saved[k] < position'[k]
  <1> DEFINE Beyond == /\ cursor'[k] = 0 \/ saved[k] <= cursor'[k]
                       /\ Streaming(k)' => saved[k] <= position'[k]
                       /\ phase'[k] = "enqueue" => saved[k] < position'[k]
  <1> USE TypeFacts DEF OrderInv, ClientSteps, BeyondSaved, Streaming, clientVars
  <1>1. ASSUME NEW h \in Hosts, AddHost(h) PROVE Beyond
    <2>1. k = h => cursor'[k] \in {saved[k], 0}
      <3>1. cursor' = [cursor EXCEPT ![h] = saved[h]] \/ cursor' = [cursor EXCEPT ![h] = 0]
        BY <1>1, Zenon DEF AddHost, Resume
      <3> QED BY <3>1
    <2>2. k # h => cursor'[k] = cursor[k]
      BY <1>1 DEF AddHost
    <2>3. phase' = [phase EXCEPT ![h] = "loop"] /\ position' = position
      BY <1>1 DEF AddHost
    <2> QED BY <2>1, <2>2, <2>3
  <1>2. ASSUME NEW h \in Hosts, Connect(h) PROVE Beyond
    <2>1. k = h => saved[k] <= StreamStart(h, Asks(h)) /\ StreamStart(h, Asks(h)) \in Nat
      BY NewestIsLast DEF StreamStart, Asks, Published
    <2>2. /\ cursor' = cursor /\ phase' = [phase EXCEPT ![h] = "stream"]
          /\ position' = [position EXCEPT ![h] = StreamStart(h, Asks(h))]
      BY <1>2 DEF Connect
    <2> QED BY <2>1, <2>2
  <1>3. ASSUME NEW h \in Hosts, Receive(h) PROVE Beyond
    <2>1. k = h => saved[k] <= position[k]
      BY <1>3 DEF Receive
    <2>2. k = h => saved[k] < Min(Ahead(h)) /\ Min(Ahead(h)) \in Nat
      BY <1>3, <2>1, NextOnStream DEF Receive
    <2>3. /\ cursor' = [cursor EXCEPT ![h] = Min(Ahead(h))]
          /\ position' = [position EXCEPT ![h] = Min(Ahead(h))]
          /\ phase' = [phase EXCEPT ![h] = "enqueue"]
      BY <1>3 DEF Receive, Advance
    <2> QED BY <2>2, <2>3
  <1>4. CASE Restart
    BY <1>4, RestartEmpties
  <1>5. CASE /\ UNCHANGED <<cursor, position>>
             /\ Streaming(k)' => Streaming(k)
             /\ phase'[k] = "enqueue" => phase[k] = "enqueue"
    BY <1>5
  <1>6. ASSUME NEW h \in Hosts,
               \/ LoopTop(h) \/ ConnectFails(h) \/ BackoffOver(h) \/ StreamEnds(h)
               \/ Enqueue(h) \/ EnqueueTimesOut(h) \/ EnqueueCancelled(h)
        PROVE  Beyond
    <2>1. UNCHANGED <<cursor, position>>
      BY <1>6 DEF LoopTop, ConnectFails, BackoffOver, StreamEnds, Enqueue, EnqueueTimesOut,
                  EnqueueCancelled
    <2>2. /\ phase'[h] # "enqueue" /\ (phase'[h] = "stream" => phase[h] = "enqueue")
          /\ k # h => phase'[k] = phase[k]
      BY <1>6 DEF LoopTop, Top, ConnectFails, BackoffOver, StreamEnds, AfterStream, Enqueue,
                  EnqueueTimesOut, EnqueueCancelled
    <2> QED BY <1>5, <2>1, <2>2
  <1>7. \/ \E h \in Hosts : \/ AddHost(h) \/ Connect(h) \/ Receive(h)
                            \/ LoopTop(h) \/ ConnectFails(h) \/ BackoffOver(h) \/ StreamEnds(h)
                            \/ Enqueue(h) \/ EnqueueTimesOut(h) \/ EnqueueCancelled(h)
        \/ Restart
        \/ UNCHANGED <<cursor, position, phase>>
    BY DEF Next, Publish, Client, ReceiveInfo, EnqueuePanics, Worker, TakeEvent, HandleEvent,
           Insert, InsertCommits, InsertFails, InsertUnanswered, FinishInsert, SaveCursor,
           WorkerEnds, Stop, StopCancel, StopClients, StopClose, StopWait, Exit
  <1>8. UNCHANGED <<cursor, position, phase>> => Beyond
    BY <1>5
  <1> HIDE TypeFacts DEF OrderInv, BeyondSaved
  <1> QED BY <1>1, <1>2, <1>3, <1>4, <1>6, <1>7, <1>8

LEMMA NextBeyondSaved ==
  ASSUME OneWorker, AdvanceInv, Next, NEW k \in Hosts
  PROVE  BeyondSaved(k)'
  <1>1. /\ Types /\ OrderInv /\ ClientOrder(k) /\ ChanOrder(k) /\ Published(k) /\ BeyondSaved(k)
        /\ saved[k] \in Nat /\ cursor[k] \in Nat /\ position[k] \in Nat
    BY TypeFacts DEF AdvanceInv, KnownInv, OrderInv
  <1>2. ASSUME NEW u \in Workers, SaveCursor(u),
               saved' = [saved EXCEPT ![task[u].host] = task[u].seq]
        PROVE  BeyondSaved(k)'
    <2>1. /\ UNCHANGED <<chan, task, cursor, position, phase>>
          /\ wpc[u] = "save" /\ wpc' = [wpc EXCEPT ![u] = "idle"]
      BY <1>2 DEF SaveCursor, chanVars, clientVars
    <2>2. Busy(k)' = {}
      BY <1>1, <2>1, TypeFacts DEF Busy, OneWorker
    <2>3. CASE task[u].host = k
      <3>1. u \in Busy(k) /\ saved'[k] = task[u].seq /\ task[u].seq \in Nat
        BY <1>1, <1>2, <2>1, <2>3, TypeFacts DEF Busy
      <3>2. /\ task[u].seq <= cursor[k]
            /\ phase[k] = "enqueue" => task[u].seq < position[k]
            /\ Streaming(k) => task[u].seq <= position[k]
        BY <1>1, <3>1 DEF ClientOrder
      <3>3. \A i \in Queued(k) : task[u].seq < chan[i].seq
        BY <1>1, <3>1 DEF ChanOrder
      <3> QED BY <2>1, <2>2, <3>1, <3>2, <3>3 DEF BeyondSaved, Streaming, Queued
    <2>4. CASE task[u].host # k
      <3>1. saved'[k] = saved[k]
        BY <1>1, <1>2, <2>4, TypeFacts
      <3> QED BY <1>1, <2>1, <2>2, <3>1 DEF BeyondSaved, Streaming, Queued
    <2> QED BY <2>3, <2>4
  <1>3. ASSUME saved' = saved PROVE BeyondSaved(k)'
    <2>1. \A i \in Queued(k)' : saved[k] < chan'[i].seq
      <3>1. CASE Restart
        BY <3>1, RestartEmpties
      <3>2. ASSUME NEW h \in Hosts, Enqueue(h) PROVE \A i \in Queued(k)' : saved[k] < chan'[i].seq
        <4>1. k = h => saved[k] < position[k]
          BY <1>1, <3>2 DEF Enqueue, BeyondSaved
        <4> QED BY <1>1, <3>2, <4>1, EnqueueAdds DEF BeyondSaved
      <3>3. ASSUME NEW u \in Workers, TakeEvent(u)
            PROVE  \A i \in Queued(k)' : saved[k] < chan'[i].seq
        BY <1>1, <3>3, TakeEventMoves DEF BeyondSaved
      <3>4. CASE Still(k)
        BY <1>1, <3>4 DEF Still, Queued, BeyondSaved
      <3> QED BY <1>1, <3>1, <3>2, <3>3, <3>4, StillSteps
    <2>2. \A w \in Busy(k)' : saved[k] < task'[w].seq
      <3>1. CASE Restart
        BY <3>1, RestartEmpties
      <3>2. ASSUME NEW h \in Hosts, Enqueue(h) PROVE \A w \in Busy(k)' : saved[k] < task'[w].seq
        BY <1>1, <3>2, EnqueueAdds DEF BeyondSaved
      <3>3. ASSUME NEW u \in Workers, TakeEvent(u)
            PROVE  \A w \in Busy(k)' : saved[k] < task'[w].seq
        BY <1>1, <3>3, TakeEventMoves DEF BeyondSaved
      <3>4. CASE Still(k)
        BY <1>1, <3>4 DEF Still, BeyondSaved
      <3> QED BY <1>1, <3>1, <3>2, <3>3, <3>4, StillSteps
    <2>3. /\ cursor'[k] = 0 \/ saved[k] <= cursor'[k]
          /\ Streaming(k)' => saved[k] <= position'[k]
          /\ phase'[k] = "enqueue" => saved[k] < position'[k]
      BY <1>1, <1>3, ClientKeepsBeyondSaved
    <2> QED BY <1>3, <2>1, <2>2, <2>3 DEF BeyondSaved
  <1> QED BY <1>1, <1>2, <1>3, SavedChanges

LEMMA InitAdvance == Init => AdvanceInv
  <1> SUFFICES ASSUME Init, NEW h \in Hosts PROVE BeyondSaved(h)
    BY InitKnown DEF AdvanceInv
  <1>1. Queued(h) = {} /\ Busy(h) = {}
    BY DEF Init, Queued, Busy
  <1> QED BY <1>1 DEF Init, BeyondSaved, Streaming

LEMMA NextAdvance == OneWorker /\ AdvanceInv /\ [Next]_vars => AdvanceInv'
  <1>1. AdvanceInv /\ UNCHANGED vars => \A h \in Hosts : BeyondSaved(h)'
    BY DEF AdvanceInv, BeyondSaved, Streaming, Queued, Busy, vars, tableVars, chanVars, clientVars,
           workerVars
  <1>2. OneWorker /\ AdvanceInv /\ Next => \A h \in Hosts : BeyondSaved(h)'
    BY NextBeyondSaved
  <1> QED BY <1>1, <1>2, NextKnown DEF AdvanceInv

\* With one worker, the saved cursor of a host never goes back, across restarts of
\* the process too: no process receives again what an earlier one had saved.
THEOREM CursorAdvances ==
  ASSUME OneWorker PROVE Spec => SavedAdvances
  <1>1. AdvanceInv /\ [Next]_vars => [\A h \in Hosts : saved'[h] >= saved[h]]_saved
    <2>0. UNCHANGED vars => saved' = saved
      BY DEF vars, tableVars
    <2> SUFFICES ASSUME AdvanceInv, Next, NEW k \in Hosts, saved' # saved
                 PROVE  saved'[k] >= saved[k]
      BY <2>0
    <2>1. Types /\ saved[k] \in Nat /\ BeyondSaved(k)
      BY TypeFacts DEF AdvanceInv, KnownInv, OrderInv
    <2>2. PICK u \in Workers : /\ SaveCursor(u)
                               /\ saved' = [saved EXCEPT ![task[u].host] = task[u].seq]
      BY <2>1, SavedChanges
    <2>3. task[u].host = k => saved[k] < task[u].seq /\ task[u].seq \in Nat
      BY <2>1, <2>2, TypeFacts DEF SaveCursor, Busy, BeyondSaved
    <2> QED BY <2>1, <2>2, <2>3, TypeFacts
  <1> QED BY OneWorker, InitAdvance, NextAdvance, <1>1, PTL DEF Spec, SavedAdvances

-----------------------------------------------------------------------------
(* Events that have been handled: what a composition with the events table *)
(* needs to know of them.                                                  *)

\* Whatever of the host is still to be taken comes after n, and nobody handles n.
Behind(h, n) ==
  /\ phase[h] # "absent"
  /\ n <= cursor[h]
  /\ phase[h] = "enqueue" => n < cursor[h]
  /\ \A i \in Queued(h) : n < chan[i].seq
  /\ \A w \in Busy(h) : wpc[w] # "save" => n # task[w].seq

LEMMA BehindStays ==
  ASSUME OrderInv, Next, ~Restart, NEW k \in Hosts, NEW n \in Nat, Behind(k, n)
  PROVE  Behind(k, n)'
  <1>1. Types /\ ClientOrder(k)
    BY DEF OrderInv
  <1>2. CASE Quiet(k)
    <2>1. Queued(k)' = Queued(k)
      BY <1>2 DEF Quiet, Queued
    <2>2. \A w \in Busy(k)' : w \in Busy(k) /\ (wpc'[w] # "save" => wpc[w] # "save")
      BY <1>2 DEF Quiet, Busy, Holding
    <2> QED BY <1>2, <2>1, <2>2 DEF Behind, Quiet
  <1>3. ASSUME NEW h \in Hosts, AddHost(h) PROVE Behind(k, n)'
    <2>1. h # k
      BY <1>3 DEF AddHost, Unknown, Behind
    <2>2. UNCHANGED <<chan, wpc, task>> /\ cursor'[k] = cursor[k] /\ phase'[k] = phase[k]
      BY <1>1, <1>3, <2>1, TypeFacts DEF AddHost, chanVars, workerVars
    <2> QED BY <2>2 DEF Behind, Queued, Busy
  <1>4. ASSUME NEW h \in Hosts, Receive(h) PROVE Behind(k, n)'
    <2>1. UNCHANGED <<chan, wpc, task>>
      BY <1>4 DEF Receive, chanVars, workerVars
    <2>2. CASE h # k
      <3>1. cursor'[k] = cursor[k] /\ phase'[k] = phase[k]
        BY <1>1, <1>4, <2>2, TypeFacts DEF Receive, Advance
      <3> QED BY <2>1, <3>1 DEF Behind, Queued, Busy
    <2>3. CASE h = k
      <3>1. PICK s \in Nat : position[k] < s /\ cursor'[k] = s /\ phase'[k] = "enqueue"
        BY <1>1, <1>4, <2>3, NextOnStream, TypeFacts DEF Receive, Advance
      <3>2. cursor[k] <= position[k] /\ cursor[k] \in Nat /\ position[k] \in Nat
        BY <1>1, <1>4, <2>3, TypeFacts DEF Receive, ClientOrder, Streaming
      <3>3. n < s
        BY <3>1, <3>2 DEF Behind
      <3> QED BY <2>1, <3>1, <3>3 DEF Behind, Queued, Busy
    <2> QED BY <2>2, <2>3
  <1>5. ASSUME NEW h \in Hosts, Enqueue(h) PROVE Behind(k, n)'
    <2>1. /\ cursor' = cursor /\ phase[h] = "enqueue" /\ phase' = [phase EXCEPT ![h] = "stream"]
      BY <1>5 DEF Enqueue
    <2>2. h = k => n < position[k]
      BY <2>1, <1>1 DEF ClientOrder, Behind
    <2>3. \A i \in Queued(k)' : n < chan'[i].seq
      BY <1>1, <1>5, <2>2, EnqueueAdds DEF Behind
    <2>4. Busy(k)' = Busy(k) /\ task' = task /\ wpc' = wpc
      BY <1>1, <1>5, EnqueueAdds
    <2>5. /\ phase'[k] # "absent" /\ (phase'[k] = "enqueue" => phase[k] = "enqueue")
      BY <1>1, <2>1, TypeFacts DEF Behind
    <2> QED BY <2>1, <2>3, <2>4, <2>5 DEF Behind
  <1>6. ASSUME NEW u \in Workers, TakeEvent(u) PROVE Behind(k, n)'
    <2>1. cursor' = cursor /\ phase' = phase
      BY <1>6 DEF TakeEvent, clientVars
    <2>2. \A i \in Queued(k)' : n < chan'[i].seq
      BY <1>1, <1>6, TakeEventMoves DEF Behind
    <2>3. \A w \in Busy(k)' : wpc'[w] # "save" => n # task'[w].seq
      <3>1. \A j \in Queued(k) : n # chan[j].seq
        BY <1>1, ChanEntries DEF Behind, Queued
      <3> QED BY <1>1, <1>6, <3>1, TakeEventMoves DEF Behind
    <2> QED BY <2>1, <2>2, <2>3 DEF Behind
  <1>7. \/ \E h \in Hosts : AddHost(h) \/ Receive(h) \/ Enqueue(h)
        \/ \E w \in Workers : TakeEvent(w)
        \/ Quiet(k)
    BY QuietSteps DEF Next, Client, Worker
  <1> QED BY <1>2, <1>3, <1>4, <1>5, <1>6, <1>7

\* The event whose INSERT has just ended is behind.
LEMMA InsertedIsBehind ==
  ASSUME OrderInv, NEW u \in Workers, FinishInsert(u), NEW k \in Hosts, task[u].host = k
  PROVE  Behind(k, task[u].seq)'
  <1>1. Types /\ ClientOrder(k) /\ ChanOrder(k) /\ u \in Busy(k)
    BY DEF OrderInv, FinishInsert, Busy
  <1>2. /\ UNCHANGED <<chan, task, phase, cursor>> /\ wpc'[u] \in {"save", "idle"}
        /\ \A w \in Workers : w # u => wpc'[w] = wpc[w]
    BY <1>1, TypeFacts DEF FinishInsert, AfterEvent, chanVars, clientVars
  <1>3. \A w \in Busy(k)' : wpc'[w] # "save" => w # u /\ w \in Busy(k)
    BY <1>2 DEF Busy
  <1>4. \A i \in Queued(k) : task[u].seq < chan[i].seq
    BY <1>1 DEF ChanOrder
  <1>5. \A w \in Busy(k) : w # u => task[u].seq # task[w].seq
    BY <1>1 DEF ChanOrder
  <1>6. /\ phase[k] # "absent" /\ task[u].seq <= cursor[k]
        /\ phase[k] = "enqueue" => task[u].seq < cursor[k]
    BY <1>1 DEF ClientOrder
  <1> QED BY <1>2, <1>3, <1>4, <1>5, <1>6 DEF Behind, Queued

\* What a worker has in hand is an event of a host.
Held == \A w \in Workers : wpc[w] \in Holding => task[w].host \in Hosts

LEMMA HeldStays == Types /\ Held /\ [Next]_vars => Held'
  <1> SUFFICES ASSUME Types, Held, [Next]_vars PROVE Held'
    OBVIOUS
  <1> USE TypeFacts DEF Held, Holding
  <1>1. CASE UNCHANGED workerVars
    BY <1>1 DEF workerVars
  <1>2. ASSUME NEW h \in Hosts, Publish(h) \/ AddHost(h) \/ Client(h)
        PROVE  UNCHANGED workerVars
    BY ONLY <1>2 DEF Publish, AddHost, Client, LoopTop, Connect, ConnectFails, BackoffOver,
       StreamEnds, Receive, ReceiveInfo, Enqueue, EnqueueTimesOut, EnqueueCancelled,
       EnqueuePanics
  <1>3. ASSUME Stop \/ Exit \/ UNCHANGED vars PROVE UNCHANGED workerVars
    BY ONLY <1>3 DEF Stop, StopCancel, StopClients, StopClose, StopWait, Exit, vars
  <1>4. ASSUME NEW u \in Workers, TakeEvent(u) PROVE Held'
    <2>1. /\ chan # <<>> /\ task' = [task EXCEPT ![u] = Head(chan)]
          /\ wpc' = [wpc EXCEPT ![u] = "handle"]
      BY <1>4 DEF TakeEvent
    <2>2. Head(chan) = chan[1] /\ 1 \in 1..Len(chan)
      BY <2>1, ChanShrinks, ChanEntries
    <2>3. Head(chan).host \in Hosts
      BY <2>2, ChanEntries
    <2> QED BY <2>1, <2>3
  <1>5. ASSUME NEW u \in Workers, HandleEvent(u) \/ FinishInsert(u) PROVE Held'
    BY <1>5 DEF HandleEvent, FinishInsert
  <1>6. ASSUME NEW u \in Workers, SaveCursor(u) \/ WorkerEnds(u) PROVE Held'
    BY <1>6 DEF SaveCursor, WorkerEnds
  <1>7. CASE Restart
    BY <1>7 DEF Restart
  <1>8. \A u \in Workers : Insert(u) => FinishInsert(u)
    BY ONLY DEF Insert, InsertCommits, InsertFails, InsertUnanswered
  <1> QED BY ONLY [Next]_vars, <1>1, <1>2, <1>3, <1>4, <1>5, <1>6, <1>7, <1>8 DEF Next, Worker

=============================================================================
