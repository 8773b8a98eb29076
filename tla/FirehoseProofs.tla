--------------------------- MODULE FirehoseProofs ---------------------------
(***************************************************************************)
(* Theorems about Firehose, for every number of subscribers and workers,   *)
(* every capacity and every number of events.                              *)
(***************************************************************************)
EXTENDS Firehose, FiniteSetTheorems, SequenceTheorems, TLAPS

-----------------------------------------------------------------------------
(* Types.  A step that leaves a group of variables alone keeps its types.  *)

LEMMA SameWork == WorkTypes /\ UNCHANGED <<storeVars, workVars>> => WorkTypes'
  BY DEF WorkTypes, storeVars, workVars

LEMMA SameQueue == QueueTypes /\ UNCHANGED queueVars => QueueTypes'
  BY DEF QueueTypes, queueVars, Waiting

LEMMA SameServer == ServerTypes /\ UNCHANGED <<rosterVars, stopVars, panic>> => ServerTypes'
  BY DEF ServerTypes, rosterVars, stopVars

LEMMA SameConn == ConnTypes /\ UNCHANGED <<handler, cursor, conn, pumpVars>> => ConnTypes'
  BY DEF ConnTypes, pumpVars

LEMMA SameSend == SendTypes /\ UNCHANGED sendVars => SendTypes'
  BY DEF SendTypes, sendVars, Buffered

LEMMA SameReplay == ReplayTypes /\ UNCHANGED replayVars => ReplayTypes'
  BY DEF ReplayTypes, replayVars

LEMMA InitTypes == Init => TypeOK
  <1> SUFFICES ASSUME Init PROVE TypeOK
    OBVIOUS
  <1>1. <<>> \in Seq(Message) /\ Len(<<>>) = 0
    BY EmptySeq
  <1>2. QueueTypes
    BY <1>1, FirehoseConstants DEF Init, QueueTypes, Waiting
  <1>3. SendTypes
    BY <1>1, FirehoseConstants DEF Init, SendTypes, Buffered
  <1>4. WorkTypes /\ ServerTypes /\ ConnTypes /\ ReplayTypes
    BY FirehoseConstants DEF Init, WorkTypes, ServerTypes, ConnTypes, ReplayTypes, WorkerSteps,
           HandlerSteps, WriterSteps, ReaderSteps, ReplaySteps
  <1> QED BY <1>2, <1>3, <1>4 DEF TypeOK

\* Every message a worker offers is a message, and the broadcast channel takes
\* it only while it has room.
LEMMA OfferTypes ==
  ASSUME QueueTypes, NEW m \in Message, Offer(m), UNCHANGED dispatched
  PROVE  QueueTypes'
  <1> DEFINE grown == Append(published, m)
  <1>1. /\ published \in Seq(Message) /\ Len(published) \in Nat
        /\ grown \in Seq(Message) /\ Len(grown) = Len(published) + 1
    BY AppendProperties, LenProperties DEF QueueTypes
  <1>2. /\ dispatched \in Nat /\ dispatched' = dispatched
        /\ Waiting \in 0..BroadcastCap /\ shed \in SUBSET Message
    BY DEF QueueTypes
  <1> HIDE DEF grown
  <1>3. CASE Waiting < BroadcastCap
    <2>1. published' = grown /\ shed' = shed
      BY <1>3 DEF Offer, grown
    <2> QED BY <1>1, <1>2, <1>3, <2>1, FirehoseConstants DEF QueueTypes, Waiting
  <1>4. CASE ~(Waiting < BroadcastCap)
    <2>1. published' = published /\ shed' = shed \union {m}
      BY <1>4 DEF Offer
    <2> QED BY <1>1, <1>2, <2>1 DEF QueueTypes, Waiting
  <1> QED BY <1>3, <1>4

\* Whom a message goes past has it in the record, and the record only grows.
LEMMA PastIsDropped ==
  ASSUME SendTypes, NEW m \in Message, GoesPast(m)
  PROVE  /\ dropped' \in [Clients -> SUBSET Message]
         /\ \A c \in Clients : /\ dropped[c] \subseteq dropped'[c]
                               /\ c \in clients => m \in dropped'[c]
  BY DEF GoesPast, SendTypes

LEMMA SameBuffers ==
  ASSUME SendTypes, UNCHANGED <<sent, taken, closed>>, dropped' \in [Clients -> SUBSET Message]
  PROVE  SendTypes'
  BY DEF SendTypes, Buffered

LEMMA OfferDrops ==
  ASSUME SendTypes, NEW m \in Message, Offer(m)
  PROVE  /\ dropped' \in [Clients -> SUBSET Message]
         /\ \A c \in Clients : dropped[c] \subseteq dropped'[c]
  <1>1. UNCHANGED dropped \/ GoesPast(m)
    BY DEF Offer
  <1>2. dropped \in [Clients -> SUBSET Message]
    BY DEF SendTypes
  <1> QED BY <1>1, <1>2, PastIsDropped

LEMMA NextTypes == TypeOK /\ [Next]_vars => TypeOK'
  <1> SUFFICES ASSUME TypeOK, [Next]_vars PROVE TypeOK'
    OBVIOUS
  <1> USE SameWork, SameQueue, SameServer, SameConn, SameSend, SameReplay DEF TypeOK
  <1>1. ASSUME NEW w \in Workers, StoreEvent(w) PROVE TypeOK'
    <2>1. WorkTypes'
      BY <1>1, FirehoseConstants DEF StoreEvent, NextSeq, WorkTypes, WorkerSteps, storeVars, workVars
    <2> QED BY <1>1, <2>1 DEF StoreEvent
  <1>2. ASSUME NEW w \in Workers, FinishInsert(w) PROVE TypeOK'
    <2>1. WorkTypes'
      <3>1. /\ \/ stored' = stored /\ orphaned' = orphaned
               \/ stored' = stored \union {wseq[w]} /\ orphaned' = orphaned
               \/ stored' = stored \union {wseq[w]} /\ orphaned' = orphaned \union {wseq[w]}
            /\ eventCount' = eventCount \/ eventCount' = eventCount + 1
            /\ lastSeq' = lastSeq /\ wseq' = wseq
        BY <1>2 DEF FinishInsert
      <3>2. wpc' \in [Workers -> WorkerSteps]
        BY <1>2 DEF FinishInsert, WorkTypes, WorkerSteps
      <3>3. /\ wseq[w] \in Nat /\ eventCount \in Nat
            /\ stored \in SUBSET Nat /\ orphaned \in SUBSET stored
        BY DEF WorkTypes
      <3>4. stored' \in SUBSET Nat /\ orphaned' \in SUBSET stored'
        BY <3>1, <3>3, Zenon
      <3>5. eventCount' \in Nat
        BY <3>1, <3>3
      <3> QED BY <3>1, <3>2, <3>4, <3>5 DEF WorkTypes
    <2>2. Live(wseq[w]) \in Message
      BY DEF Live, Message, WorkTypes
    <2>3. UNCHANGED dropped \/ GoesPast(Live(wseq[w]))
      BY <1>2 DEF FinishInsert
    <2>4. dropped' \in [Clients -> SUBSET Message]
      BY <2>2, <2>3, PastIsDropped DEF SendTypes
    <2>5. SendTypes'
      BY <1>2, <2>4, SameBuffers DEF FinishInsert
    <2> QED BY <1>2, <2>1, <2>5 DEF FinishInsert
  <1>3. ASSUME NEW w \in Workers, BroadcastWithSeq(w) PROVE TypeOK'
    <2>1. Live(wseq[w]) \in Message
      BY DEF Live, Message, WorkTypes
    <2>2. QueueTypes'
      BY <1>3, <2>1, OfferTypes DEF BroadcastWithSeq
    <2>3. WorkTypes'
      BY <1>3 DEF BroadcastWithSeq, WorkTypes, WorkerSteps, storeVars
    <2>4. SendTypes'
      BY <1>3, <2>1, OfferDrops, SameBuffers DEF BroadcastWithSeq
    <2> QED BY <1>3, <2>2, <2>3, <2>4 DEF BroadcastWithSeq
  <1>4. ASSUME NEW w \in Workers, Broadcast(w) PROVE TypeOK'
    <2>1. PICK p \in PdsSeqs : Offer(Raw(p))
      BY <1>4 DEF Broadcast
    <2>2. Raw(p) \in Message
      BY FirehoseConstants DEF Raw, Message
    <2>3. QueueTypes'
      BY <1>4, <2>1, <2>2, OfferTypes DEF Broadcast
    <2>4. WorkTypes'
      BY <1>4 DEF Broadcast, WorkTypes, WorkerSteps, storeVars
    <2>5. SendTypes'
      BY <1>4, <2>1, <2>2, OfferDrops, SameBuffers DEF Broadcast
    <2> QED BY <1>4, <2>3, <2>4, <2>5 DEF Broadcast
  <1>5. ASSUME NEW c \in Clients, Connect(c) PROVE TypeOK'
    <2>1. ConnTypes'
      BY <1>5, FirehoseConstants DEF Connect, ConnTypes, HandlerSteps, WriterSteps, ReaderSteps, pumpVars
    <2> QED BY <1>5, <2>1 DEF Connect
  <1>6. ASSUME NEW c \in Clients, StartPumps(c) PROVE TypeOK'
    <2>1. ConnTypes'
      BY <1>6, FirehoseConstants DEF StartPumps, ConnTypes, HandlerSteps, WriterSteps, ReaderSteps, pumpVars
    <2>2. ReplayTypes'
      <3>1. cursor[c] # NoCursor => cursor[c] \in Int
        BY FirehoseConstants DEF ConnTypes
      <3>2. batch' = batch /\ lastBatch' = lastBatch
        BY <1>6 DEF StartPumps
      <3>3. CASE cursor[c] # NoCursor
        BY <1>6, <3>1, <3>2, <3>3 DEF StartPumps, ReplayTypes, ReplaySteps
      <3>4. CASE cursor[c] = NoCursor
        BY <1>6, <3>2, <3>4 DEF StartPumps, ReplayTypes
      <3> QED BY <3>3, <3>4
    <2> QED BY <1>6, <2>1, <2>2 DEF StartPumps
  <1>7. ASSUME NEW c \in Clients, Register(c) PROVE TypeOK'
    <2>1. ServerTypes'
      BY <1>7, FirehoseConstants DEF Register, ServerTypes, rosterVars, stopVars
    <2>2. ConnTypes'
      BY <1>7, FirehoseConstants DEF Register, ConnTypes, HandlerSteps, WriterSteps, ReaderSteps, pumpVars
    <2> QED BY <1>7, <2>1, <2>2 DEF Register
  <1>8. ASSUME NEW c \in Clients, Unregister(c) PROVE TypeOK'
    <2>1. ConnTypes'
      BY <1>8 DEF Unregister, ConnTypes, ReaderSteps
    <2>2. CASE c \in clients
      <3>1. ServerTypes'
        BY <1>8, <2>2 DEF Unregister, Forget, ServerTypes, stopVars
      <3>2. SendTypes'
        BY <1>8, <2>2 DEF Unregister, Forget, SendTypes, Buffered
      <3> QED BY <1>8, <2>1, <3>1, <3>2 DEF Unregister
    <2>3. CASE c \notin clients
      BY <1>8, <2>1, <2>3 DEF Unregister, rosterVars, sendVars
    <2> QED BY <2>2, <2>3
  <1>9. ASSUME Dispatch PROVE TypeOK'
    <2>1. published[dispatched + 1] \in Message
      BY <1>9 DEF Dispatch, QueueTypes, Waiting
    <2>2. QueueTypes'
      <3>1. /\ published' = published /\ shed' = shed
            /\ dispatched' = dispatched + 1 /\ Waiting > 0
        BY <1>9 DEF Dispatch
      <3>2. Len(published) \in Nat
        BY LenProperties DEF QueueTypes
      <3> QED BY <3>1, <3>2, FirehoseConstants DEF QueueTypes, Waiting
    <2>3. ServerTypes'
      BY <1>9 DEF Dispatch, ServerTypes, rosterVars, stopVars
    <2>4. SendTypes'
      <3>1. /\ sent' \in [Clients -> Seq(Message)]
            /\ dropped' \in [Clients -> SUBSET Message]
        BY <1>9, <2>1 DEF Dispatch, SendTypes
      <3>2. ASSUME NEW d \in Clients PROVE Buffered(d)' \in 0..SendCap
        BY <1>9, <2>1, FirehoseConstants DEF Dispatch, SendTypes, Buffered, Full
      <3> QED BY <1>9, <3>1, <3>2 DEF Dispatch, SendTypes
    <2> QED BY <1>9, <2>2, <2>3, <2>4 DEF Dispatch
  <1>10. ASSUME ExitLoop PROVE TypeOK'
    <2>1. ServerTypes'
      BY <1>10, FirehoseConstants DEF ExitLoop, ServerTypes, rosterVars, stopVars
    <2> QED BY <1>10, <2>1 DEF ExitLoop
  <1>11. ASSUME StopCancel PROVE TypeOK'
    <2>1. ServerTypes'
      BY <1>11, FirehoseConstants DEF StopCancel, ServerTypes, rosterVars, stopVars
    <2> QED BY <1>11, <2>1 DEF StopCancel
  <1>12. ASSUME StopCloseConns PROVE TypeOK'
    <2>1. ServerTypes'
      BY <1>12, FirehoseConstants DEF StopCloseConns, ServerTypes, rosterVars, stopVars
    <2>2. ConnTypes'
      BY <1>12, FirehoseConstants DEF StopCloseConns, ConnTypes, HandlerSteps, WriterSteps, ReaderSteps, pumpVars
    <2> QED BY <1>12, <2>1, <2>2 DEF StopCloseConns
  <1>13. ASSUME NEW c \in Clients, WriteMessage(c) PROVE TypeOK'
    <2>1. SendTypes'
      BY <1>13, FirehoseConstants DEF WriteMessage, CanWrite, SendTypes, Buffered, sendVars
    <2> QED BY <1>13, <2>1 DEF WriteMessage
  <1>14. ASSUME NEW c \in Clients, WriteFails(c) PROVE TypeOK'
    <2>1. ConnTypes'
      BY <1>14 DEF WriteFails, EndWriter, ConnTypes, WriterSteps
    <2>2. SendTypes'
      <3>1. sent' = sent /\ closed' = closed /\ dropped' = dropped
        BY <1>14 DEF WriteFails
      <3>2. \/ Buffered(c) > 0 /\ taken' = [taken EXCEPT ![c] = @ + 1]
            \/ taken' = taken
        BY <1>14 DEF WriteFails
      <3>3. CASE Buffered(c) > 0 /\ taken' = [taken EXCEPT ![c] = @ + 1]
        BY <3>1, <3>3, FirehoseConstants DEF SendTypes, Buffered
      <3>4. CASE taken' = taken
        BY <3>1, <3>4 DEF sendVars
      <3> QED BY <3>2, <3>3, <3>4
    <2> QED BY <1>14, <2>1, <2>2 DEF WriteFails
  <1>15. ASSUME NEW c \in Clients, WriteClose(c) PROVE TypeOK'
    <2>1. ConnTypes'
      BY <1>15, FirehoseConstants DEF WriteClose, EndWriter, ConnTypes, HandlerSteps, WriterSteps, ReaderSteps, pumpVars
    <2> QED BY <1>15, <2>1 DEF WriteClose
  <1>16. ASSUME NEW c \in Clients, ReadFails(c) PROVE TypeOK'
    <2>1. ConnTypes'
      BY <1>16, FirehoseConstants DEF ReadFails, ConnTypes, HandlerSteps, WriterSteps, ReaderSteps, pumpVars
    <2> QED BY <1>16, <2>1 DEF ReadFails
  <1>17. ASSUME NEW c \in Clients, ReadEnds(c) PROVE TypeOK'
    <2>1. ConnTypes'
      BY <1>17, FirehoseConstants DEF ReadEnds, ConnTypes, HandlerSteps, WriterSteps, ReaderSteps, pumpVars
    <2> QED BY <1>17, <2>1 DEF ReadEnds
  <1>18. ASSUME NEW c \in Clients, ReplayQuery(c) PROVE TypeOK'
    <2>1. CASE \E B \in SUBSET After(position[c]) :
                 /\ batch' = [batch EXCEPT ![c] = B]
                 /\ lastBatch' = [lastBatch EXCEPT ![c] = Short(B)]
                 /\ replay' = [replay EXCEPT ![c] = IF B = {} THEN "done" ELSE "send"]
      <3>1. PICK B \in SUBSET After(position[c]) :
              /\ batch' = [batch EXCEPT ![c] = B]
              /\ lastBatch' = [lastBatch EXCEPT ![c] = Short(B)]
              /\ replay' = [replay EXCEPT ![c] = IF B = {} THEN "done" ELSE "send"]
        BY <2>1
      <3>2. B \in SUBSET Nat /\ Short(B) \in BOOLEAN
        BY DEF After, WorkTypes, Short
      <3>3. ReplayTypes'
        BY <1>18, <3>1, <3>2 DEF ReplayQuery, ReplayTypes, ReplaySteps
      <3> QED BY <1>18, <3>3 DEF ReplayQuery
    <2>2. CASE /\ replay' = [replay EXCEPT ![c] = "failed"]
               /\ UNCHANGED <<batch, lastBatch>>
      <3>1. ReplayTypes'
        BY <1>18, <2>2 DEF ReplayQuery, ReplayTypes, ReplaySteps
      <3> QED BY <1>18, <3>1 DEF ReplayQuery
    <2> QED BY <1>18, <2>1, <2>2 DEF ReplayQuery
  <1>19. ASSUME NEW c \in Clients, ReplaySend(c) PROVE TypeOK'
    <2>1. PICK s \in batch[c] :
            \/ /\ panic' = "replay"
               /\ UNCHANGED <<sent, replayVars>>
            \/ /\ ~Full(c)
               /\ sent' = [sent EXCEPT ![c] = Append(@, Replayed(s))]
               /\ position' = [position EXCEPT ![c] = s]
               /\ batch' = [batch EXCEPT ![c] = @ \ {s}]
               /\ replay' = [replay EXCEPT ![c] = AfterRow(c, s)]
               /\ UNCHANGED <<panic, lastBatch>>
            \/ /\ replay' = [replay EXCEPT ![c] = "aborted"]
               /\ UNCHANGED <<panic, sent, position, batch, lastBatch>>
      BY <1>19 DEF ReplaySend
    <2>2. s \in Nat /\ Replayed(s) \in Message /\ AfterRow(c, s) \in ReplaySteps
      BY DEF ReplayTypes, Replayed, Message, AfterRow, ReplaySteps
    <2>3. SendTypes'
      <3>1. /\ Len(sent[c]) \in Nat
            /\ Append(sent[c], Replayed(s)) \in Seq(Message)
            /\ Len(Append(sent[c], Replayed(s))) = Len(sent[c]) + 1
        BY <2>2, AppendProperties, LenProperties DEF SendTypes
      <3>2. CASE sent' = sent
        BY <1>19, <3>2 DEF ReplaySend, sendVars
      <3>3. CASE /\ ~Full(c)
                 /\ sent' = [sent EXCEPT ![c] = Append(@, Replayed(s))]
        BY <1>19, <3>1, <3>3, FirehoseConstants DEF ReplaySend, SendTypes, Buffered, Full
      <3> QED BY <2>1, <3>2, <3>3
    <2>4. ReplayTypes'
      <3>1. CASE UNCHANGED replayVars
        BY <3>1
      <3>2. CASE /\ position' = [position EXCEPT ![c] = s]
                 /\ batch' = [batch EXCEPT ![c] = @ \ {s}]
                 /\ replay' = [replay EXCEPT ![c] = AfterRow(c, s)]
                 /\ lastBatch' = lastBatch
        BY <2>2, <3>2 DEF ReplayTypes
      <3>3. CASE /\ replay' = [replay EXCEPT ![c] = "aborted"]
                 /\ UNCHANGED <<position, batch, lastBatch>>
        BY <3>3 DEF ReplayTypes, ReplaySteps
      <3> QED BY <2>1, <3>1, <3>2, <3>3
    <2>5. ServerTypes'
      BY <1>19, <2>1 DEF ReplaySend, ServerTypes, rosterVars, stopVars
    <2> QED BY <1>19, <2>3, <2>4, <2>5 DEF ReplaySend
  <1>20. CASE UNCHANGED vars
    BY <1>20 DEF vars
  <1> QED
    BY <1>1, <1>2, <1>3, <1>4, <1>5, <1>6, <1>7, <1>8, <1>9, <1>10, <1>11, <1>12,
       <1>13, <1>14, <1>15, <1>16, <1>17, <1>18, <1>19, <1>20
       DEF Next, Work, Serve, Loop, Stopping, Write, Read, Replay

\* No channel ever holds more than its capacity, whatever the interleaving of
\* the run loop's sends, the replay's sends and writePump's receives.
THEOREM Types == Spec => []TypeOK
  <1>1. Init => TypeOK
    BY InitTypes
  <1>2. TypeOK /\ [Next]_vars => TypeOK'
    BY NextTypes
  <1> QED BY <1>1, <1>2, PTL DEF Spec

-----------------------------------------------------------------------------
(* The roster.  RosterExact is not inductive: that the run loop never meets *)
(* a client twice rests on the order in which one client's handler and     *)
(* readPump take their steps, which RosterOf adds.                         *)

RosterOf(c) ==
  /\ c \in clients <=> /\ handler[c] \in {"registered", "served"}
                       /\ reader[c] \notin {"released", "done"}
  /\ closed[c] <=> reader[c] \in {"released", "done"}
  /\ reader[c] # "none" <=> handler[c] = "served"
  /\ replay[c] # "none" => handler[c] = "served" /\ cursor[c] # NoCursor

RosterInv ==
  /\ \A c \in Clients : RosterOf(c)
  /\ IsFiniteSet(clients) /\ clientCount = Cardinality(clients)
  /\ panic \in {"no", "replay"}

LEMMA InitRoster == Init => RosterInv
  BY FS_EmptySet DEF Init, RosterInv, RosterOf

\* A step that changes nothing RosterInv speaks of.
LEMMA SameRoster ==
  ASSUME RosterInv,
         UNCHANGED <<rosterVars, panic, handler, cursor, closed, reader, replay>>
  PROVE  RosterInv'
  BY DEF RosterInv, RosterOf, rosterVars

LEMMA NextRoster == TypeOK /\ RosterInv /\ [Next]_vars => RosterInv'
  <1> SUFFICES ASSUME TypeOK, RosterInv, [Next]_vars PROVE RosterInv'
    OBVIOUS
  <1> USE SameRoster
      DEF rosterVars, stopVars, pumpVars, sendVars, replayVars
  <1>1. ASSUME NEW w \in Workers, Work(w) PROVE RosterInv'
    BY <1>1 DEF Work, StoreEvent, FinishInsert, BroadcastWithSeq, Broadcast
  <1>2. ASSUME NEW c \in Clients, Connect(c) PROVE RosterInv'
    <2>1. \A d \in Clients : RosterOf(d)'
      BY <1>2 DEF Connect, RosterInv, RosterOf, TypeOK, ConnTypes
    <2> QED BY <1>2, <2>1 DEF Connect, RosterInv
  <1>3. ASSUME NEW c \in Clients, StartPumps(c) PROVE RosterInv'
    <2>1. \A d \in Clients : RosterOf(d)'
      BY <1>3 DEF StartPumps, RosterInv, RosterOf, TypeOK, ConnTypes, ReplayTypes
    <2> QED BY <1>3, <2>1 DEF StartPumps, RosterInv
  <1>4. ASSUME NEW c \in Clients, Register(c) PROVE RosterInv'
    <2>1. \A d \in Clients : RosterOf(d)'
      BY <1>4 DEF Register, RosterInv, RosterOf, TypeOK, ConnTypes
    <2>2. c \notin clients
      BY <1>4 DEF Register, RosterInv, RosterOf
    <2>3. IsFiniteSet(clients') /\ clientCount' = Cardinality(clients')
      BY <1>4, <2>2, FS_AddElement DEF Register, RosterInv
    <2> QED BY <1>4, <2>1, <2>3 DEF Register, RosterInv
  <1>5. ASSUME NEW c \in Clients, Unregister(c) PROVE RosterInv'
    <2>1. c \in clients /\ ~closed[c]
      BY <1>5 DEF Unregister, RosterInv, RosterOf
    <2>2. Forget(c)
      BY <1>5, <2>1 DEF Unregister
    <2>3. \A d \in Clients : RosterOf(d)'
      BY <1>5, <2>2 DEF Unregister, Forget, RosterInv, RosterOf, TypeOK,
                        ConnTypes, SendTypes
    <2>4. IsFiniteSet(clients') /\ clientCount' = Cardinality(clients')
      <3>1. clients' = clients \ {c} /\ clientCount' = clientCount - 1
        BY <2>2 DEF Forget
      <3> QED BY <2>1, <3>1, FS_RemoveElement DEF RosterInv
    <2> QED BY <2>1, <2>2, <2>3, <2>4 DEF Forget, RosterInv
  <1>6. ASSUME Dispatch PROVE RosterInv'
    <2>1. \A c \in clients : ~closed[c]
      BY DEF RosterInv, RosterOf, TypeOK, ServerTypes
    <2> QED BY <1>6, <2>1 DEF Dispatch
  <1>7. ASSUME ExitLoop \/ Stopping PROVE RosterInv'
    BY <1>7 DEF ExitLoop, Stopping, StopCancel, StopCloseConns
  <1>8. ASSUME NEW c \in Clients, Write(c) PROVE RosterInv'
    BY <1>8 DEF Write, WriteMessage, WriteFails, WriteClose
  <1>9. ASSUME NEW c \in Clients, Read(c) PROVE RosterInv'
    <2>1. \A d \in Clients : RosterOf(d)'
      BY <1>9 DEF Read, ReadFails, ReadEnds, RosterInv, RosterOf, TypeOK, ConnTypes
    <2> QED BY <1>9, <2>1 DEF Read, ReadFails, ReadEnds, RosterInv
  <1>10. ASSUME NEW c \in Clients, Replay(c) PROVE RosterInv'
    <2>1. /\ replay[c] # "none"
          /\ replay' = [replay EXCEPT ![c] = replay'[c]]
          /\ panic' \in {panic, "replay"}
          /\ UNCHANGED <<rosterVars, handler, cursor, closed, reader>>
      BY <1>10 DEF Replay, ReplayQuery, ReplaySend, TypeOK, ReplayTypes
    <2>2. \A d \in Clients : RosterOf(d)'
      BY <2>1 DEF RosterInv, RosterOf, TypeOK, ReplayTypes
    <2> QED BY <2>1, <2>2 DEF RosterInv
  <1>11. CASE UNCHANGED vars
    BY <1>11 DEF vars
  <1> QED
    BY <1>1, <1>2, <1>3, <1>4, <1>5, <1>6, <1>7, <1>8, <1>9, <1>10, <1>11
       DEF Next, Serve, Loop

LEMMA AlwaysRoster == Spec => [](TypeOK /\ RosterInv)
  <1>1. Init => TypeOK /\ RosterInv
    BY InitTypes, InitRoster
  <1>2. (TypeOK /\ RosterInv) /\ [Next]_vars => (TypeOK /\ RosterInv)'
    BY NextTypes, NextRoster
  <1> QED BY <1>1, <1>2, PTL DEF Spec

\* The map of subscribers, their open channels and the reported count agree in
\* every order of connecting, failing and leaving.
THEOREM Roster == Spec => []RosterExact
  <1>1. RosterInv => RosterExact
    BY DEF RosterInv, RosterOf, RosterExact
  <1> QED BY <1>1, AlwaysRoster, PTL

\* The run loop neither sends to a closed channel nor closes one twice.
THEOREM LoopIsSafe == Spec => []LoopNeverPanics
  <1>1. RosterInv => LoopNeverPanics
    BY DEF RosterInv, LoopNeverPanics
  <1> QED BY <1>1, AlwaysRoster, PTL

-----------------------------------------------------------------------------
(* Resuming.  While a replay runs, a committed row after the cursor that is *)
(* not covered yet must still lie ahead of it.                             *)

Pending(c, s) ==
  \/ replay[c] = "none"
  \/ replay[c] = "query" /\ s > position[c]
  \/ replay[c] = "send" /\ \/ s \in batch[c]
                           \/ ~lastBatch[c] /\ \A t \in batch[c] : t < s

Ongoing == {"none", "query", "send", "done"}

ResumeInv ==
  \A c \in clients : cursor[c] # NoCursor /\ replay[c] \in Ongoing =>
    \A s \in stored : s > cursor[c] => Covered(c, s) \/ Pending(c, s)

\* What a send channel has held it has held for ever.
LEMMA QueuedGrows ==
  ASSUME SendTypes, NEW c \in Clients, NEW s, NEW m \in Message, Queued(c, s),
         sent'[c] = sent[c] \/ sent'[c] = Append(sent[c], m)
  PROVE  Queued(c, s)'
  <1> DEFINE q == sent[c]
             r == Append(q, m)
  <1>1. q \in Seq(Message)
    BY DEF SendTypes
  <1>2. /\ Len(q) \in Nat /\ DOMAIN q = 1..Len(q)
        /\ DOMAIN r = 1..(Len(q) + 1)
        /\ \A i \in 1..Len(q) : r[i] = q[i]
    BY <1>1, AppendProperties, LenProperties
  <1>3. PICK i \in 1..Len(q) : q[i] \in {Live(s), Replayed(s)}
    BY <1>2 DEF Queued
  <1>4. i \in DOMAIN r /\ r[i] = q[i]
    BY <1>2
  <1> HIDE DEF r
  <1> QED BY <1>2, <1>3, <1>4 DEF Queued, r, Live, Replayed

LEMMA QueuedLast ==
  ASSUME SendTypes, NEW c \in Clients, NEW s, NEW m \in Message,
         m \in {Live(s), Replayed(s)}, sent'[c] = Append(sent[c], m)
  PROVE  Queued(c, s)'
  <1>1. sent[c] \in Seq(Message)
    BY DEF SendTypes
  <1>2. /\ Len(sent[c]) \in Nat
        /\ DOMAIN sent'[c] = 1..(Len(sent[c]) + 1)
        /\ sent'[c][Len(sent[c]) + 1] = m
    BY <1>1, AppendProperties, LenProperties
  <1>3. Len(sent[c]) + 1 \in DOMAIN sent'[c]
    BY <1>2
  <1> QED BY <1>2, <1>3 DEF Queued, Live, Replayed

\* An offered message goes to the end of the broadcast channel, or past everybody in
\* the map, and nothing else in the channel changes.
LEMMA OfferKeeps ==
  ASSUME QueueTypes, SendTypes, NEW m \in Message, Offer(m), dispatched' = dispatched,
         NEW c \in Clients, c \in clients, NEW s
  PROVE  /\ InChannel(s) => InChannel(s)'
         /\ m = Live(s) => InChannel(s)' \/ Missed(c, s)'
  <1> DEFINE q == published
             r == Append(q, m)
  <1>1. /\ Len(q) \in Nat /\ Len(r) = Len(q) + 1 /\ r[Len(q) + 1] = m
        /\ \A i \in 1..Len(q) : r[i] = q[i]
    BY AppendProperties, LenProperties DEF QueueTypes
  <1>2. dispatched \in Nat /\ dispatched <= Len(q)
    BY <1>1, FirehoseConstants DEF QueueTypes, Waiting
  <1>3. CASE published' = published /\ GoesPast(m)
    BY <1>3, PastIsDropped DEF InChannel, Missed, Live
  <1>4. CASE published' = r
    <2>1. InChannel(s) => InChannel(s)'
      <3> SUFFICES ASSUME InChannel(s) PROVE InChannel(s)'
        OBVIOUS
      <3>1. PICK i \in (dispatched + 1)..Len(q) : q[i] = Live(s)
        BY DEF InChannel
      <3>2. r[i] = Live(s) /\ i \in (dispatched' + 1)..Len(r)
        BY <1>1, <1>2, <3>1
      <3> HIDE DEF r
      <3> QED BY <1>4, <3>2 DEF InChannel, Live
    <2>2. m = Live(s) => InChannel(s)'
      <3>1. Len(q) + 1 \in (dispatched' + 1)..Len(r)
        BY <1>1, <1>2
      <3> HIDE DEF r
      <3> QED BY <1>1, <1>4, <3>1 DEF InChannel, Live
    <2> QED BY <1>4, <2>1, <2>2
  <1> QED BY <1>3, <1>4 DEF Offer

\* A row that is covered for a client in the map stays covered: a message moves
\* from the worker to the broadcast channel to the send channel, and where it
\* does not fit it is refused.
LEMMA CoveredStays ==
  ASSUME TypeOK, [Next]_vars, NEW c \in clients, NEW s, Covered(c, s)
  PROVE  Covered(c, s)'
  <1>c. c \in Clients
    BY DEF TypeOK, ServerTypes
  <1> USE <1>c DEF TypeOK, vars, storeVars, workVars, queueVars, rosterVars,
                   stopVars, pumpVars, sendVars, replayVars
  <1>1. ASSUME UNCHANGED <<wpc, wseq, published, dispatched, sent, dropped>>
        PROVE  Covered(c, s)'
    BY <1>1 DEF Covered, Queued, OnItsWay, WithWorker, InChannel, Missed
  <1>2. ASSUME NEW w \in Workers, StoreEvent(w) \/ FinishInsert(w)
        PROVE  Covered(c, s)'
    <2>1. /\ \A v \in Workers : wpc[v] = "saved" => wpc'[v] = "saved" /\ wseq'[v] = wseq[v]
          /\ UNCHANGED <<published, dispatched, sent>>
      BY <1>2 DEF StoreEvent, FinishInsert, WorkTypes
    <2>2. Live(wseq[w]) \in Message
      BY DEF Live, Message, WorkTypes
    <2>3. UNCHANGED dropped \/ GoesPast(Live(wseq[w]))
      BY <1>2 DEF StoreEvent, FinishInsert
    <2>4. dropped[c] \subseteq dropped'[c]
      BY <2>2, <2>3, PastIsDropped
    <2> QED BY <2>1, <2>4 DEF Covered, Queued, OnItsWay, WithWorker, InChannel, Missed, Live, Replayed
  <1>3. ASSUME NEW w \in Workers, NEW m \in Message, Offer(m),
               wpc[w] = "saved" => m = Live(wseq[w]),
               wpc' = [wpc EXCEPT ![w] = "idle"],
               UNCHANGED <<wseq, dispatched, sent>>
        PROVE  Covered(c, s)'
    <2>1. /\ InChannel(s) => InChannel(s)'
          /\ m = Live(s) => InChannel(s)' \/ Missed(c, s)'
          /\ dropped[c] \subseteq dropped'[c]
      BY <1>3, OfferKeeps, OfferDrops
    <2>2. WithWorker(s) => WithWorker(s)' \/ m = Live(s)
      BY <1>3 DEF WithWorker, WorkTypes
    <2>3. Queued(c, s) => Queued(c, s)'
      BY <1>3 DEF Queued
    <2>4. Missed(c, s) => Missed(c, s)'
      BY <1>3, <2>1 DEF Missed, Live
    <2> QED BY <1>3, <2>1, <2>2, <2>3, <2>4 DEF Covered, OnItsWay, Missed, Live
  <1>4. ASSUME NEW w \in Workers, BroadcastWithSeq(w) PROVE Covered(c, s)'
    <2>1. Live(wseq[w]) \in Message
      BY DEF Live, Message, WorkTypes
    <2> QED BY <1>4, <2>1, <1>3 DEF BroadcastWithSeq
  <1>5. ASSUME NEW w \in Workers, Broadcast(w) PROVE Covered(c, s)'
    <2>1. PICK p \in PdsSeqs : Offer(Raw(p))
      BY <1>5 DEF Broadcast
    <2>2. Raw(p) \in Message
      BY FirehoseConstants DEF Raw, Message
    <2> QED BY <1>5, <2>1, <2>2, <1>3 DEF Broadcast
  <1>6. ASSUME Dispatch PROVE Covered(c, s)'
    <2> DEFINE m == published[dispatched + 1]
    <2>1. /\ dispatched \in Nat /\ Len(published) \in Nat
          /\ dispatched < Len(published) /\ m \in Message
      BY <1>6, LenProperties DEF Dispatch, Waiting, QueueTypes
    <2>2. IF Full(c) THEN sent'[c] = sent[c] /\ dropped'[c] = dropped[c] \union {m}
                     ELSE sent'[c] = Append(sent[c], m) /\ dropped'[c] = dropped[c]
      BY <1>6 DEF Dispatch, SendTypes
    <2>3. UNCHANGED <<wpc, wseq, published>> /\ dispatched' = dispatched + 1
      BY <1>6 DEF Dispatch
    <2>4. WithWorker(s) => WithWorker(s)'
      BY <2>3 DEF WithWorker
    <2>5. InChannel(s) => InChannel(s)' \/ m = Live(s)
      BY <2>1, <2>3 DEF InChannel, Live
    <2>6. m = Live(s) => Queued(c, s)' \/ Missed(c, s)'
      <3>1. ASSUME Full(c), m = Live(s) PROVE Missed(c, s)'
        BY <2>2, <3>1 DEF Missed, Live
      <3>2. ASSUME ~Full(c), m = Live(s) PROVE Queued(c, s)'
        BY <2>1, <2>2, <3>2, QueuedLast
      <3> QED BY <3>1, <3>2
    <2>7. Queued(c, s) => Queued(c, s)'
      BY <2>1, <2>2, QueuedGrows
    <2>8. Missed(c, s) => Missed(c, s)'
      BY <2>2, <2>3 DEF Missed, Live
    <2> QED BY <2>4, <2>5, <2>6, <2>7, <2>8 DEF Covered, OnItsWay
  <1>7. ASSUME NEW d \in Clients, ReplaySend(d) PROVE Covered(c, s)'
    <2>1. PICK t \in batch[d] :
            sent' = sent \/ sent' = [sent EXCEPT ![d] = Append(@, Replayed(t))]
      BY <1>7 DEF ReplaySend
    <2>2. Replayed(t) \in Message
      BY DEF Replayed, Message, ReplayTypes
    <2>3. sent'[c] = sent[c] \/ sent'[c] = Append(sent[c], Replayed(t))
      BY <2>1 DEF SendTypes
    <2>4. Queued(c, s) => Queued(c, s)'
      BY <2>2, <2>3, QueuedGrows
    <2>5. UNCHANGED <<wpc, wseq, published, dispatched, dropped>>
      BY <1>7 DEF ReplaySend
    <2> QED BY <2>4, <2>5 DEF Covered, OnItsWay, WithWorker, InChannel, Missed
  <1>8. ASSUME NEW d \in Clients,
               Serve(d) \/ Register(d) \/ Unregister(d) \/ Write(d) \/ Read(d) \/ ReplayQuery(d)
        PROVE  Covered(c, s)'
    BY <1>8, <1>1 DEF Serve, Connect, StartPumps, Register, Unregister, Forget, Write,
                      WriteMessage, WriteFails, WriteClose, Read, ReadFails, ReadEnds,
                      ReplayQuery
  <1>9. ASSUME ExitLoop \/ Stopping PROVE Covered(c, s)'
    BY <1>9, <1>1 DEF ExitLoop, Stopping, StopCancel, StopCloseConns
  <1>10. CASE UNCHANGED vars
    BY <1>10, <1>1
  <1> QED
    BY <1>2, <1>4, <1>5, <1>6, <1>7, <1>8, <1>9, <1>10
       DEF Next, Work, Loop, Replay

\* Only its handler and its own replay touch a client's replay state.
LEMMA ReplayMoves ==
  ASSUME TypeOK, [Next]_vars, NEW c \in Clients
  PROVE  \/ StartPumps(c) \/ ReplayQuery(c) \/ ReplaySend(c)
         \/ UNCHANGED <<replay[c], position[c], batch[c], lastBatch[c]>>
  <1> USE DEF TypeOK, ReplayTypes
  <1>1. ASSUME NEW d \in Clients \ {c}, StartPumps(d) \/ ReplayQuery(d)
        PROVE  UNCHANGED <<replay[c], position[c], batch[c], lastBatch[c]>>
    BY <1>1 DEF StartPumps, ReplayQuery
  <1>2. ASSUME NEW d \in Clients \ {c}, ReplaySend(d)
        PROVE  UNCHANGED <<replay[c], position[c], batch[c], lastBatch[c]>>
    BY <1>2 DEF ReplaySend, replayVars
  <1>3. \/ UNCHANGED replayVars
        \/ \E d \in Clients : StartPumps(d) \/ ReplayQuery(d) \/ ReplaySend(d)
    BY DEF Next, Work, StoreEvent, FinishInsert, BroadcastWithSeq, Broadcast, Serve,
           Connect, Loop, Register, Unregister, Dispatch, ExitLoop, Stopping, StopCancel,
           StopCloseConns, Write, WriteMessage, WriteFails, WriteClose, Read, ReadFails,
           ReadEnds, Replay, vars
  <1> QED BY <1>1, <1>2, <1>3 DEF replayVars

\* The first rows after k: a short batch is all of them, and what a full one
\* leaves out lies behind it.
LEMMA BatchIsPrefix ==
  ASSUME NEW k, NEW B \in SUBSET After(k), IsBatch(B, k)
  PROVE  /\ B = {} => Short(B)
         /\ Short(B) => B = After(k)
         /\ \A s \in After(k) \ B : \A t \in B : t < s
  <1>1. Cardinality({}) = 0
    BY FS_EmptySet
  <1>2. B = {} => Short(B)
    BY <1>1, FirehoseConstants DEF Short
  <1>3. Short(B) => Cardinality(B) # BatchSize
    BY FirehoseConstants DEF Short
  <1> QED BY <1>2, <1>3 DEF IsBatch

LEMMA PendingStays ==
  ASSUME TypeOK, NEW c \in Clients, NEW s, Pending(c, s),
         UNCHANGED <<replay[c], position[c], batch[c], lastBatch[c]>>
  PROVE  Pending(c, s)'
  BY DEF Pending

\* The query hands the replay a batch; what is pending is in it or behind it.
LEMMA QueryKeepsPending ==
  ASSUME TypeOK, NEW c \in Clients, NEW s \in stored, Pending(c, s),
         ReplayQuery(c), replay'[c] \in Ongoing
  PROVE  Pending(c, s)'
  <1> USE DEF TypeOK, ReplayTypes
  <1>1. PICK B \in SUBSET After(position[c]) :
          /\ IsBatch(B, position[c])
          /\ batch' = [batch EXCEPT ![c] = B]
          /\ lastBatch' = [lastBatch EXCEPT ![c] = Short(B)]
          /\ replay' = [replay EXCEPT ![c] = IF B = {} THEN "done" ELSE "send"]
    BY DEF ReplayQuery, Ongoing
  <1>2. s \in After(position[c])
    BY DEF ReplayQuery, Pending, After
  <1>3. B # {} /\ (s \in B \/ (~Short(B) /\ \A t \in B : t < s))
    BY <1>1, <1>2, BatchIsPrefix
  <1> QED BY <1>1, <1>3 DEF Pending

\* Sending the first row of the batch: it is queued, and everything else that
\* was pending still is.
LEMMA SendKeepsPending ==
  ASSUME TypeOK, NEW c \in Clients, NEW s \in Nat, Pending(c, s),
         ReplaySend(c), replay'[c] \in Ongoing
  PROVE  Queued(c, s)' \/ Pending(c, s)'
  <1> USE DEF TypeOK, ReplayTypes
  <1>0. CASE UNCHANGED replayVars
    BY <1>0, PendingStays DEF replayVars
  <1> SUFFICES ASSUME ~UNCHANGED replayVars PROVE Queued(c, s)' \/ Pending(c, s)'
    BY <1>0
  <1>1. PICK r \in batch[c] :
          /\ \A t \in batch[c] : r <= t
          /\ sent' = [sent EXCEPT ![c] = Append(@, Replayed(r))]
          /\ position' = [position EXCEPT ![c] = r]
          /\ batch' = [batch EXCEPT ![c] = @ \ {r}]
          /\ replay' = [replay EXCEPT ![c] = AfterRow(c, r)]
          /\ lastBatch' = lastBatch
    BY DEF ReplaySend, Ongoing
  <1>2. r \in Nat /\ Replayed(r) \in Message
    BY DEF Replayed, Message
  <1>3. replay[c] = "send"
    BY DEF ReplaySend
  <1>4. /\ sent'[c] = Append(sent[c], Replayed(r)) /\ position'[c] = r
        /\ batch'[c] = batch[c] \ {r} /\ replay'[c] = AfterRow(c, r)
        /\ lastBatch'[c] = lastBatch[c]
    BY <1>1 DEF SendTypes
  <1>5. CASE s = r
    BY <1>2, <1>4, <1>5, QueuedLast
  <1>6. CASE s # r /\ s \in batch[c]
    BY <1>3, <1>4, <1>6 DEF Pending, AfterRow
  <1>7. CASE ~lastBatch[c] /\ \A t \in batch[c] : t < s
    <2>1. r < s
      BY <1>7
    <2>2. CASE batch[c] = {r}
      BY <1>2, <1>4, <1>7, <2>1, <2>2 DEF Pending, AfterRow
    <2>3. CASE batch[c] # {r}
      BY <1>4, <1>7, <2>3 DEF Pending, AfterRow
    <2> QED BY <2>2, <2>3
  <1> QED BY <1>3, <1>5, <1>6, <1>7 DEF Pending

LEMMA InitResume == Init => ResumeInv
  BY DEF Init, ResumeInv

LEMMA NextResume ==
  TypeOK /\ RosterInv /\ ResumeInv /\ [Next]_vars => ResumeInv'
  <1> SUFFICES ASSUME TypeOK, RosterInv, ResumeInv, [Next]_vars,
                      NEW c \in clients', cursor'[c] # NoCursor, replay'[c] \in Ongoing,
                      NEW s \in stored', s > cursor'[c]
               PROVE  Covered(c, s)' \/ Pending(c, s)'
    BY DEF ResumeInv
  <1>0. c \in Clients /\ s \in stored' /\ s \in Nat
    BY NextTypes DEF TypeOK, ServerTypes, WorkTypes
  <1>1. CASE c \notin clients
    <2>1. \E d \in Clients : Register(d)
      BY <1>1 DEF Next, Work, StoreEvent, FinishInsert, BroadcastWithSeq, Broadcast, Serve,
                  Connect, StartPumps, Loop, Unregister, Forget, Dispatch, ExitLoop, Stopping,
                  StopCancel, StopCloseConns, Write, WriteMessage, WriteFails, WriteClose,
                  Read, ReadFails, ReadEnds, Replay, ReplayQuery, ReplaySend, vars, rosterVars
    <2>2. Register(c)
      BY <1>1, <2>1 DEF Register
    <2>3. replay'[c] = "none"
      BY <1>0, <2>2 DEF Register, RosterInv, RosterOf, replayVars
    <2> QED BY <2>3 DEF Pending
  <1>2. CASE c \in clients /\ s \notin stored
    <2>1. PICK w \in Workers : FinishInsert(w)
      BY <1>0, <1>2
         DEF Next, Work, StoreEvent, BroadcastWithSeq, Broadcast, Serve, Connect, StartPumps,
             Loop, Register, Unregister, Dispatch, ExitLoop, Stopping, StopCancel,
             StopCloseConns, Write, WriteMessage, WriteFails, WriteClose, Read, ReadFails,
             ReadEnds, Replay, ReplayQuery, ReplaySend, vars, storeVars
    <2>2. s = wseq[w] /\ ((wpc'[w] = "saved" /\ wseq'[w] = s) \/ GoesPast(Live(s)))
      BY <1>0, <1>2, <2>1 DEF FinishInsert, TypeOK, WorkTypes
    <2>3. GoesPast(Live(s)) => Missed(c, s)'
      <3>1. Live(s) \in Message
        BY <1>0 DEF Live, Message
      <3> QED BY <1>0, <1>2, <3>1, PastIsDropped DEF Missed, Live, TypeOK
    <2> QED BY <2>2, <2>3 DEF Covered, OnItsWay, WithWorker
  <1>3. CASE c \in clients /\ s \in stored
    <2>1. cursor'[c] = cursor[c]
      <3>1. handler[c] # "none"
        BY <1>0, <1>3 DEF RosterInv, RosterOf
      <3> QED
        BY <1>0, <3>1
           DEF Next, Work, StoreEvent, FinishInsert, BroadcastWithSeq, Broadcast, Serve,
               Connect, StartPumps, Loop, Register, Unregister, Dispatch, ExitLoop, Stopping,
               StopCancel, StopCloseConns, Write, WriteMessage, WriteFails, WriteClose, Read,
               ReadFails, ReadEnds, Replay, ReplayQuery, ReplaySend, vars, TypeOK, ConnTypes
    <2>2. s \in stored /\ s > cursor[c]
      BY <1>3, <2>1
    <2>3. CASE Covered(c, s)
      BY <1>3, <2>3, CoveredStays
    <2>4. CASE replay[c] \in Ongoing /\ Pending(c, s)
      <3>1. CASE UNCHANGED <<replay[c], position[c], batch[c], lastBatch[c]>>
        BY <1>0, <2>4, <3>1, PendingStays
      <3>2. CASE StartPumps(c)
        BY <1>0, <2>1, <2>2, <2>4, <3>2
           DEF StartPumps, Pending, TypeOK, ReplayTypes, RosterInv, RosterOf
      <3>3. CASE ReplayQuery(c)
        BY <1>0, <1>3, <2>4, <3>3, QueryKeepsPending
      <3>4. CASE ReplaySend(c)
        BY <1>0, <2>4, <3>4, SendKeepsPending DEF Covered
      <3>5. QED BY <1>0, <3>1, <3>2, <3>3, <3>4, ReplayMoves
    <2>5. replay[c] \in Ongoing
      <3>1. CASE UNCHANGED <<replay[c], position[c], batch[c], lastBatch[c]>>
        BY <3>1
      <3>2. CASE StartPumps(c)
        BY <1>0, <3>2 DEF StartPumps, RosterInv, RosterOf, Ongoing
      <3>3. CASE ReplayQuery(c) \/ ReplaySend(c)
        BY <3>3 DEF ReplayQuery, ReplaySend, Ongoing
      <3> QED BY <1>0, <3>1, <3>2, <3>3, ReplayMoves
    <2> QED BY <1>3, <2>1, <2>2, <2>3, <2>4, <2>5 DEF ResumeInv
  <1> QED BY <1>1, <1>2, <1>3

\* A subscriber whose replay has run to its end has every committed row after its
\* cursor, queued or on its way, but those whose live message went past it since it
\* registered: whatever rows earlier processes left, whatever was refused to others,
\* for any cursor, batch size and capacities, and whatever the workers commit while
\* the replay runs.
THEOREM Resume == Spec => []ResumeComplete
  <1>1. Init => TypeOK /\ RosterInv /\ ResumeInv
    BY InitTypes, InitRoster, InitResume
  <1>2. (TypeOK /\ RosterInv /\ ResumeInv) /\ [Next]_vars => (TypeOK /\ RosterInv /\ ResumeInv)'
    BY NextTypes, NextRoster, NextResume
  <1>3. TypeOK /\ RosterInv /\ ResumeInv => ResumeComplete
    BY DEF TypeOK, ServerTypes, RosterInv, RosterOf, ResumeInv, ResumeComplete, Pending, Ongoing
  <1> QED BY <1>1, <1>2, <1>3, PTL DEF Spec

=============================================================================
