------------------------- MODULE FirehoseRefinement -------------------------
(***************************************************************************)
(* Firehose implements Feed, for every number of subscribers and workers,  *)
(* every capacity and every number of events; and in what order messages   *)
(* stand in a subscriber's channel and in the broadcast channel.           *)
(***************************************************************************)
EXTENDS FirehoseProofs

-----------------------------------------------------------------------------
(* Numbers.                                                                *)

\* A worker holds the number its INSERT has drawn until it has broadcast it.
Holds(w) == wpc[w] \in {"insert", "saved"}

NumberInv ==
  /\ lastSeq <= eventCount /\ lastSeq <= MaxEvents
  /\ stored \subseteq 1..lastSeq
  /\ \A w \in Workers : Holds(w) => wseq[w] \in 1..lastSeq
  /\ \A v, w \in Workers : Holds(v) /\ Holds(w) /\ wseq[v] = wseq[w] => v = w
  /\ \A w \in Workers : wpc[w] = "insert" => wseq[w] \notin stored
  /\ \A w \in Workers : wpc[w] = "saved" => wseq[w] \in stored \ orphaned

\* the live message of s has left its worker, into the broadcast channel or nowhere
Out(s) == (\E i \in DOMAIN published : published[i] = Live(s)) \/ Live(s) \in shed

\* Each row leaves its worker once, after it has been committed.
OutInv ==
  /\ \A s \in Nat : Out(s) => s \in stored \ orphaned
  /\ \A w \in Workers : wpc[w] = "saved" => ~Out(wseq[w])
  /\ \A i, j \in DOMAIN published :
       published[i].via = "live" /\ published[i] = published[j] => i = j
  /\ \A i \in DOMAIN published : published[i].via = "live" => published[i] \notin shed
  /\ \A i \in DOMAIN published :
       \/ \E s \in Nat : published[i] = Live(s)
       \/ \E p \in PdsSeqs : published[i] = Raw(p)

LEMMA InitNumbers == Init => NumberInv /\ OutInv
  BY FirehoseConstants DEF Init, NumberInv, OutInv, Holds, Out, Live

LEMMA NextNumbers == TypeOK /\ NumberInv /\ [Next]_vars => NumberInv'
  <1> SUFFICES ASSUME TypeOK, NumberInv, [Next]_vars PROVE NumberInv'
    OBVIOUS
  <1> USE DEF NumberInv, Holds, TypeOK, WorkTypes
  <1>1. ASSUME NEW w \in Workers, StoreEvent(w) PROVE NumberInv'
    BY <1>1, FirehoseConstants DEF StoreEvent, NextSeq, WithinBound
  <1>2. ASSUME NEW w \in Workers, FinishInsert(w) PROVE NumberInv'
    <2>1. /\ wpc[w] = "insert" /\ UNCHANGED <<lastSeq, wseq>>
          /\ eventCount' = eventCount \/ eventCount' = eventCount + 1
          /\ \/ /\ stored' = stored \union {wseq[w]} /\ orphaned' = orphaned
                /\ wpc' = [wpc EXCEPT ![w] = "saved"]
             \/ stored' = stored /\ orphaned' = orphaned /\ wpc' = [wpc EXCEPT ![w] = "unsaved"]
             \/ /\ stored' = stored \union {wseq[w]} /\ orphaned' = orphaned \union {wseq[w]}
                /\ wpc' = [wpc EXCEPT ![w] = "unsaved"]
      BY <1>2 DEF FinishInsert
    <2>2. lastSeq' <= eventCount' /\ lastSeq' <= MaxEvents
      BY <2>1
    <2> QED BY <2>1, <2>2
  <1>3. ASSUME NEW w \in Workers, BroadcastWithSeq(w) \/ Broadcast(w) PROVE NumberInv'
    BY <1>3 DEF BroadcastWithSeq, Broadcast, storeVars
  <1>4. UNCHANGED <<storeVars, workVars>> => NumberInv'
    BY DEF storeVars, workVars
  <1>5. \/ UNCHANGED <<storeVars, workVars>>
        \/ \E w \in Workers : StoreEvent(w) \/ FinishInsert(w) \/ BroadcastWithSeq(w) \/ Broadcast(w)
    BY DEF Next, Work, Serve, Connect, StartPumps, Loop, Register, Unregister, Dispatch,
           ExitLoop, Stopping, StopCancel, StopCloseConns, Write, WriteMessage, WriteFails,
           WriteClose, Read, ReadFails, ReadEnds, Replay, ReplayQuery, ReplaySend, vars
  <1> QED BY <1>1, <1>2, <1>3, <1>4, <1>5

\* An offered message goes to the end of the broadcast channel or is shed.
LEMMA Offered ==
  ASSUME QueueTypes, NEW m \in Message, Offer(m)
  PROVE  /\ Len(published) \in Nat /\ DOMAIN published = 1..Len(published)
         /\ dispatched \in 0..Len(published)
         /\ \/ /\ shed' = shed \union {m} /\ published' = published
            \/ /\ shed' = shed
               /\ DOMAIN published' = 1..(Len(published) + 1)
               /\ \A i \in 1..Len(published) : published'[i] = published[i]
               /\ published'[Len(published) + 1] = m
  <1>1. published \in Seq(Message) /\ dispatched \in Nat /\ Waiting \in 0..BroadcastCap
    BY DEF QueueTypes
  <1>2. /\ Len(published) \in Nat /\ DOMAIN published = 1..Len(published)
        /\ DOMAIN Append(published, m) = 1..(Len(published) + 1)
        /\ \A i \in 1..Len(published) : Append(published, m)[i] = published[i]
        /\ Append(published, m)[Len(published) + 1] = m
    BY <1>1, AppendProperties, LenProperties
  <1>3. dispatched \in 0..Len(published)
    BY <1>1, <1>2, FirehoseConstants DEF Waiting
  <1> QED BY <1>2, <1>3 DEF Offer

LEMMA OfferedOut ==
  ASSUME QueueTypes, NEW m \in Message, Offer(m), NEW s \in Nat
  PROVE  Out(s)' <=> Out(s) \/ m = Live(s)
  <1>1. CASE shed' = shed \union {m} /\ published' = published
    BY <1>1 DEF Out, Live
  <1>2. CASE shed' = shed /\ ~(published' = published)
    <2>1. /\ Len(published) \in Nat /\ DOMAIN published = 1..Len(published)
          /\ DOMAIN published' = 1..(Len(published) + 1)
          /\ \A i \in 1..Len(published) : published'[i] = published[i]
          /\ published'[Len(published) + 1] = m
      BY <1>2, Offered
    <2>2. ASSUME Out(s)' PROVE Out(s) \/ m = Live(s)
      BY <1>2, <2>1, <2>2 DEF Out, Live
    <2>3. ASSUME Out(s) \/ m = Live(s) PROVE Out(s)'
      BY <1>2, <2>1, <2>3 DEF Out, Live
    <2> QED BY <2>2, <2>3
  <1>3. CASE shed' = shed /\ published' = published
    <2>1. m \in shed
      BY <1>3, Offered
    <2> QED BY <1>3, <2>1 DEF Out, Live
  <1> QED BY <1>1, <1>2, <1>3, Offered

LEMMA NextOut == TypeOK /\ NumberInv /\ OutInv /\ [Next]_vars => OutInv'
  <1> SUFFICES ASSUME TypeOK, NumberInv, OutInv, [Next]_vars PROVE OutInv'
    OBVIOUS
  <1>t. WorkTypes /\ QueueTypes
    BY DEF TypeOK
  <1>1. ASSUME NEW w \in Workers, StoreEvent(w) PROVE OutInv'
    <2>1. /\ UNCHANGED <<published, shed, stored, orphaned>>
          /\ \A v \in Workers : wpc'[v] = "saved" => wpc[v] = "saved" /\ wseq'[v] = wseq[v]
      BY <1>t, <1>1 DEF StoreEvent, WorkTypes, queueVars
    <2> QED BY <2>1 DEF OutInv, Out, Live
  <1>2. ASSUME NEW w \in Workers, FinishInsert(w) PROVE OutInv'
    <2>1. /\ UNCHANGED <<published, shed, wseq>> /\ wseq[w] \in Nat
          /\ wseq[w] \notin stored
          /\ stored \subseteq stored' /\ orphaned' \subseteq orphaned \union {wseq[w]}
          /\ \A v \in Workers : wpc'[v] = "saved" => wpc[v] = "saved" \/ v = w
      BY <1>t, <1>2 DEF FinishInsert, WorkTypes, queueVars, NumberInv
    <2>2. \A s \in Nat : Out(s)' <=> Out(s)
      BY <2>1 DEF Out, Live
    <2>3. \A s \in Nat : Out(s)' => s \in stored' \ orphaned'
      BY <2>1, <2>2 DEF OutInv
    <2>4. ASSUME NEW v \in Workers, wpc'[v] = "saved" PROVE ~Out(wseq[v])'
      <3>1. ~Out(wseq[v])
        BY <1>t, <2>1, <2>4 DEF OutInv, WorkTypes
      <3> QED BY <2>1, <3>1 DEF Out, Live
    <2>5. /\ \A i, j \in DOMAIN published' :
               published'[i].via = "live" /\ published'[i] = published'[j] => i = j
          /\ \A i \in DOMAIN published' : published'[i].via = "live" => published'[i] \notin shed'
          /\ \A i \in DOMAIN published' :
               \/ \E s \in Nat : published'[i] = Live(s)
               \/ \E p \in PdsSeqs : published'[i] = Raw(p)
      BY <2>1 DEF OutInv
    <2> QED BY <2>3, <2>4, <2>5 DEF OutInv, Live, Raw
  <1>3. ASSUME NEW w \in Workers, NEW m \in Message, Offer(m),
               \/ m = Live(wseq[w]) /\ wpc[w] = "saved"
               \/ \E p \in PdsSeqs : m = Raw(p),
               wpc' = [wpc EXCEPT ![w] = "idle"], UNCHANGED <<storeVars, wseq>>
        PROVE  OutInv'
    <2>0. /\ \A s \in Nat : Out(s)' <=> Out(s) \/ m = Live(s)
          /\ wseq[w] \in Nat
      BY <1>t, <1>3, OfferedOut DEF WorkTypes
    <2>1. ASSUME NEW s \in Nat, Out(s)' PROVE s \in stored' \ orphaned'
      BY <1>3, <2>0, <2>1 DEF OutInv, NumberInv, Live, Raw, storeVars
    <2>2. ASSUME NEW v \in Workers, wpc'[v] = "saved" PROVE ~Out(wseq[v])'
      <3>1. v # w /\ wpc[v] = "saved" /\ wseq' = wseq /\ wseq[v] \in Nat
        BY <1>t, <1>3, <2>2 DEF WorkTypes
      <3>2. m # Live(wseq[v])
        BY <1>3, <3>1 DEF NumberInv, Holds, Live, Raw
      <3>3. PICK n \in Nat : n = wseq[v] /\ ~Out(n)'
        BY <2>0, <3>1, <3>2 DEF OutInv
      <3> QED BY <3>1, <3>3 DEF Out, Live
    <2>3. m.via = "live" => m \notin shed /\ \A i \in DOMAIN published : published[i] # m
      <3>1. m.via = "live" => m = Live(wseq[w]) /\ wpc[w] = "saved"
        BY <1>3 DEF Raw
      <3> QED BY <3>1 DEF OutInv, Out
    <2>4. \/ \E s \in Nat : m = Live(s)
          \/ \E p \in PdsSeqs : m = Raw(p)
      BY <1>3, <2>0
    <2>5. CASE shed' = shed \union {m} /\ published' = published
      <3>1. /\ \A i, j \in DOMAIN published' :
                 published'[i].via = "live" /\ published'[i] = published'[j] => i = j
            /\ \A i \in DOMAIN published' :
                 published'[i].via = "live" => published'[i] \notin shed'
            /\ \A i \in DOMAIN published' :
                 \/ \E s \in Nat : published'[i] = Live(s)
                 \/ \E p \in PdsSeqs : published'[i] = Raw(p)
        BY <2>3, <2>5 DEF OutInv
      <3> QED BY <2>1, <2>2, <3>1 DEF OutInv, Live, Raw
    <2>6. CASE /\ Len(published) \in Nat /\ DOMAIN published = 1..Len(published)
               /\ shed' = shed
               /\ DOMAIN published' = 1..(Len(published) + 1)
               /\ \A i \in 1..Len(published) : published'[i] = published[i]
               /\ published'[Len(published) + 1] = m
      <3>1. \A i \in DOMAIN published' :
              \/ i \in DOMAIN published /\ published'[i] = published[i]
              \/ i = Len(published) + 1 /\ published'[i] = m
        BY <2>6
      <3>2. \A i, j \in DOMAIN published' :
              published'[i].via = "live" /\ published'[i] = published'[j] => i = j
        BY <2>3, <3>1 DEF OutInv
      <3>3. \A i \in DOMAIN published' : published'[i].via = "live" => published'[i] \notin shed'
        BY <2>3, <2>6, <3>1 DEF OutInv
      <3>4. \A i \in DOMAIN published' :
              \/ \E s \in Nat : published'[i] = Live(s)
              \/ \E p \in PdsSeqs : published'[i] = Raw(p)
        BY <2>4, <3>1 DEF OutInv
      <3> QED BY <2>1, <2>2, <3>2, <3>3, <3>4 DEF OutInv, Live, Raw
    <2> QED BY <1>t, <1>3, <2>5, <2>6, Offered
  <1>4. ASSUME NEW w \in Workers, BroadcastWithSeq(w) PROVE OutInv'
    <2>1. Live(wseq[w]) \in Message
      BY <1>t DEF Live, Message, WorkTypes
    <2> QED BY <1>4, <2>1, <1>3 DEF BroadcastWithSeq
  <1>5. ASSUME NEW w \in Workers, Broadcast(w) PROVE OutInv'
    <2>1. PICK p \in PdsSeqs : Offer(Raw(p))
      BY <1>5 DEF Broadcast
    <2>2. Raw(p) \in Message
      BY FirehoseConstants DEF Raw, Message
    <2> QED BY <1>5, <2>1, <2>2, <1>3 DEF Broadcast
  <1>6. UNCHANGED <<stored, orphaned, wpc, wseq, published, shed>> => OutInv'
    BY DEF OutInv, Out, Live, Raw
  <1>7. \/ UNCHANGED <<stored, orphaned, wpc, wseq, published, shed>>
        \/ \E w \in Workers : StoreEvent(w) \/ FinishInsert(w) \/ BroadcastWithSeq(w) \/ Broadcast(w)
    BY DEF Next, Work, Serve, Connect, StartPumps, Loop, Register, Unregister, Dispatch,
           ExitLoop, Stopping, StopCancel, StopCloseConns, Write, WriteMessage, WriteFails,
           WriteClose, Read, ReadFails, ReadEnds, Replay, ReplayQuery, ReplaySend, vars,
           storeVars, workVars, queueVars
  <1> QED BY <1>1, <1>2, <1>4, <1>5, <1>6, <1>7

-----------------------------------------------------------------------------
(* Where a replay stands.                                                  *)

ReplayOf(c) ==
  /\ replay[c] # "none" => cursor[c] <= position[c]
  /\ replay[c] = "send" => /\ batch[c] # {} /\ batch[c] \subseteq stored
                           /\ \A s \in batch[c] : position[c] < s

ReplayInv == \A c \in Clients : ReplayOf(c)

LEMMA StoredGrows == [Next]_vars => stored \subseteq stored'
  BY DEF Next, Work, StoreEvent, FinishInsert, BroadcastWithSeq, Broadcast, Serve,
         Connect, StartPumps, Loop, Register, Unregister, Dispatch, ExitLoop, Stopping,
         StopCancel, StopCloseConns, Write, WriteMessage, WriteFails, WriteClose, Read,
         ReadFails, ReadEnds, Replay, ReplayQuery, ReplaySend, vars, storeVars

\* The cursor is set once, by the request.
LEMMA CursorStays ==
  ASSUME TypeOK, [Next]_vars, NEW c \in Clients, handler[c] # "none"
  PROVE  cursor'[c] = cursor[c]
  BY DEF Next, Work, StoreEvent, FinishInsert, BroadcastWithSeq, Broadcast, Serve,
         Connect, StartPumps, Loop, Register, Unregister, Dispatch, ExitLoop, Stopping,
         StopCancel, StopCloseConns, Write, WriteMessage, WriteFails, WriteClose, Read,
         ReadFails, ReadEnds, Replay, ReplayQuery, ReplaySend, vars, TypeOK, ConnTypes

\* A row the replay sends is the first of its batch; where it goes on from there.
LEMMA RowSent ==
  ASSUME TypeOK, NEW c \in Clients, ReplaySend(c), ~closed[c], ~Full(c)
  PROVE  \E s \in batch[c] :
           /\ s \in Nat /\ \A t \in batch[c] : s <= t
           /\ sent' = [sent EXCEPT ![c] = Append(@, Replayed(s))]
           /\ position' = [position EXCEPT ![c] = s]
           /\ batch' = [batch EXCEPT ![c] = @ \ {s}]
           /\ replay' = [replay EXCEPT ![c] = AfterRow(c, s)]
           /\ UNCHANGED <<panic, lastBatch>>
  BY DEF ReplaySend, TypeOK, ReplayTypes

LEMMA NextReplay ==
  TypeOK /\ RosterInv /\ ReplayInv /\ [Next]_vars => ReplayInv'
  <1> SUFFICES ASSUME TypeOK, RosterInv, ReplayInv, [Next]_vars, NEW c \in Clients
               PROVE  ReplayOf(c)'
    BY DEF ReplayInv
  <1> USE DEF TypeOK, ReplayTypes
  <1>1. /\ ReplayOf(c) /\ RosterOf(c)
        /\ stored \subseteq stored'
        /\ cursor[c] \in Cursors \union {NoCursor} /\ (cursor[c] # NoCursor => cursor[c] \in Int)
    BY StoredGrows, FirehoseConstants DEF ReplayInv, RosterInv, ConnTypes
  <1>2. replay[c] # "none" => cursor'[c] = cursor[c]
    BY <1>1, CursorStays DEF RosterOf
  <1>3. CASE UNCHANGED <<replay[c], position[c], batch[c], lastBatch[c]>>
    BY <1>1, <1>2, <1>3 DEF ReplayOf
  <1>4. CASE StartPumps(c)
    <2>1. CASE cursor[c] = NoCursor
      BY <1>1, <1>2, <1>4, <2>1 DEF StartPumps, ReplayOf, RosterOf
    <2>2. CASE cursor[c] # NoCursor
      <3>1. replay'[c] = "query" /\ position'[c] = cursor[c] /\ cursor'[c] = cursor[c]
        BY <1>4, <2>2 DEF StartPumps
      <3> QED BY <1>1, <2>2, <3>1 DEF ReplayOf
    <2> QED BY <2>1, <2>2
  <1>5. CASE ReplayQuery(c)
    <2>1. position'[c] = position[c] /\ replay[c] = "query"
      BY <1>5 DEF ReplayQuery
    <2>2. replay'[c] = "send" => /\ batch'[c] # {}
                                 /\ batch'[c] \subseteq After(position[c])
      BY <1>5 DEF ReplayQuery
    <2> QED BY <1>1, <1>2, <2>1, <2>2 DEF ReplayOf, After
  <1>6. CASE ReplaySend(c)
    <2>1. CASE closed[c] \/ Full(c)
      <3>1. /\ replay[c] = "send" /\ replay'[c] \in {"send", "aborted"}
            /\ position'[c] = position[c] /\ batch'[c] = batch[c]
        BY <1>6, <2>1 DEF ReplaySend, replayVars
      <3> QED BY <1>1, <1>2, <3>1 DEF ReplayOf
    <2>2. CASE ~closed[c] /\ ~Full(c)
      <3>1. replay[c] = "send"
        BY <1>6 DEF ReplaySend
      <3>2. PICK s \in batch[c] :
              /\ s \in Nat /\ \A t \in batch[c] : s <= t
              /\ position'[c] = s /\ batch'[c] = batch[c] \ {s}
              /\ replay'[c] = AfterRow(c, s)
        BY <1>6, <2>2, RowSent
      <3>3. cursor[c] <= position[c] /\ position[c] < s /\ cursor[c] \in Int /\ position[c] \in Int
        BY <1>1, <3>1, <3>2 DEF ReplayOf, RosterOf
      <3>4. replay'[c] = "send" => batch'[c] # {}
        BY <3>2 DEF AfterRow
      <3>5. \A t \in batch'[c] : t \in stored' /\ s < t
        BY <1>1, <3>1, <3>2 DEF ReplayOf
      <3> QED BY <1>2, <3>1, <3>2, <3>3, <3>4, <3>5 DEF ReplayOf
    <2> QED BY <2>1, <2>2
  <1> QED BY <1>3, <1>4, <1>5, <1>6, ReplayMoves

-----------------------------------------------------------------------------
(* The mapping.                                                            *)

\* All that holds in every reachable state.
Inv == TypeOK /\ RosterInv /\ ResumeInv /\ NumberInv /\ OutInv /\ ReplayInv

LEMMA AlwaysInv == Spec => []Inv
  <1>1. Init => Inv
    BY InitTypes, InitRoster, InitResume, InitNumbers DEF Inv, Init, ReplayInv, ReplayOf
  <1>2. Inv /\ [Next]_vars => Inv'
    BY NextTypes, NextRoster, NextResume, NextNumbers, NextOut, NextReplay DEF Inv
  <1> QED BY <1>1, <1>2, PTL DEF Spec

\* A row is still to be announced if its message is with a worker or in the
\* broadcast channel.
LEMMA OnItsWayIsComing ==
  ASSUME TypeOK, NumberInv, OutInv, NEW s \in Nat, OnItsWay(s)
  PROVE  Promise!Coming(s)
  <1>1. published \in Seq(Message) /\ dispatched \in Nat /\ DOMAIN published = 1..Len(published)
        /\ Len(published) \in Nat /\ dispatched <= Len(published)
    BY LenProperties, FirehoseConstants DEF TypeOK, QueueTypes, Waiting
  <1>2. CASE WithWorker(s)
    <2>1. s \in stored \ orphaned /\ ~Out(s)
      BY <1>2 DEF WithWorker, NumberInv, OutInv
    <2> QED BY <1>1, <2>1 DEF Out, Promise!Coming, Promise!Live, Live
  <1>3. CASE InChannel(s)
    <2>1. PICK i \in (dispatched + 1)..Len(published) : published[i] = Live(s)
      BY <1>3 DEF InChannel
    <2>2. i \in DOMAIN published /\ published[i].via = "live"
      BY <1>1, <2>1 DEF Live
    <2>3. s \in stored \ orphaned /\ Live(s) \notin shed
      BY <2>1, <2>2 DEF OutInv, Out
    <2>4. \A j \in 1..dispatched : published[j] # Live(s)
      BY <1>1, <2>1, <2>2 DEF OutInv
    <2> QED BY <2>3, <2>4 DEF Promise!Coming, Promise!Live, Live
  <1> QED BY <1>2, <1>3 DEF OnItsWay

LEMMA CoveredIsAccounted ==
  ASSUME TypeOK, NumberInv, OutInv, NEW c \in Clients, NEW s \in Nat, Covered(c, s)
  PROVE  Promise!Accounted(c, s)
  <1>1. CASE Queued(c, s)
    BY <1>1 DEF Queued, Promise!Accounted, Promise!Has, Promise!Live, Promise!Replayed, Live, Replayed
  <1>2. CASE OnItsWay(s)
    BY <1>2, OnItsWayIsComing DEF Promise!Accounted
  <1>3. CASE Missed(c, s)
    BY <1>3 DEF Missed, Promise!Accounted, Promise!Lost, Promise!Live, Live
  <1> QED BY <1>1, <1>2, <1>3 DEF Covered

\* What a worker holds, and what is next in the broadcast channel, is news.
LEMMA IsNews ==
  ASSUME TypeOK, NumberInv, OutInv
  PROVE  /\ \A w \in Workers : wpc[w] = "saved" => Live(wseq[w]) \in Promise!News
         /\ \A p \in PdsSeqs : Raw(p) \in Promise!News
         /\ Waiting > 0 => published[dispatched + 1] \in Promise!News
  <1>1. \A s \in Nat : OnItsWay(s) => Live(s) \in Promise!News
    <2> SUFFICES ASSUME NEW s \in Nat, OnItsWay(s) PROVE Live(s) \in Promise!News
      OBVIOUS
    <2>1. Promise!Coming(s)
      BY OnItsWayIsComing
    <2>2. s \in stored
      BY <2>1 DEF Promise!Coming
    <2> QED BY <2>1, <2>2 DEF Promise!News, Promise!Live, Live
  <1>2. \A w \in Workers : wpc[w] = "saved" => Live(wseq[w]) \in Promise!News
    BY <1>1 DEF OnItsWay, WithWorker, TypeOK, WorkTypes
  <1>3. \A p \in PdsSeqs : Raw(p) \in Promise!News
    BY DEF Promise!News, Promise!Raw, Raw
  <1>4. ASSUME Waiting > 0 PROVE published[dispatched + 1] \in Promise!News
    <2>1. /\ dispatched + 1 \in DOMAIN published
          /\ dispatched + 1 \in (dispatched + 1)..Len(published)
      BY <1>4, LenProperties DEF TypeOK, QueueTypes, Waiting
    <2>2. CASE \E s \in Nat : published[dispatched + 1] = Live(s)
      BY <1>1, <2>1, <2>2 DEF OnItsWay, InChannel
    <2>3. CASE \E p \in PdsSeqs : published[dispatched + 1] = Raw(p)
      BY <1>3, <2>3
    <2> QED BY <2>1, <2>2, <2>3 DEF OutInv
  <1> QED BY <1>2, <1>3, <1>4

LEMMA SameFeed ==
  ASSUME UNCHANGED <<stored, orphaned, published, dispatched, shed, sent, dropped>>,
         \A c \in Clients : UNCHANGED <<Place(c), Since(c), Scan(c), At(c)>>
  PROVE  UNCHANGED Promise!vars
  BY DEF Promise!vars, Promise!rowVars, Promise!newsVars, Promise!scanVars

LEMMA OnlineIsRoster ==
  ASSUME TypeOK, RosterInv
  PROVE  Promise!Online = clients
  BY DEF Promise!Online, Place, TypeOK, ServerTypes, ConnTypes, HandlerSteps, RosterInv, RosterOf

LEMMA RefinesInit == Init => Promise!Init
  <1> SUFFICES ASSUME Init PROVE Promise!Init
    OBVIOUS
  <1>1. stored \in SUBSET (1..MaxEvents) /\ orphaned = stored
    BY FirehoseConstants DEF Init
  <1>2. {published[i] : i \in 1..dispatched} = {} /\ shed = {}
    BY DEF Init
  <1>3. \A c \in Clients : Place(c) = "away" /\ Since(c) = NoCursor /\ Scan(c) = "none" /\ At(c) = 0
    BY DEF Init, Place, Since, Scan, At
  <1>4. sent = [c \in Clients |-> <<>>] /\ dropped = [c \in Clients |-> {}]
    BY DEF Init
  <1> QED BY <1>1, <1>2, <1>3, <1>4 DEF Promise!Init

-----------------------------------------------------------------------------
(* Every step of the server is a step of the promise, or none at all.      *)

\* What the mapping sees of the subscribers.
FacesSame == \A c \in Clients : UNCHANGED <<Place(c), Since(c), Scan(c), At(c)>>

LEMMA SameFaces ==
  ASSUME UNCHANGED <<handler, cursor, reader, replay, position>>
  PROVE  FacesSame
  BY DEF FacesSame, Place, Since, Scan, At

\* The values the mapping gives a subscriber whose own variables a step leaves alone.
LEMMA SameFace ==
  ASSUME NEW c \in Clients,
         UNCHANGED <<handler[c], cursor[c], reader[c], replay[c], position[c]>>
  PROVE  UNCHANGED <<Place(c), Since(c), Scan(c), At(c)>>
  BY DEF Place, Since, Scan, At

LEMMA SamePast ==
  ASSUME Promise!Online = clients, NEW m, GoesPast(m)
  PROVE  Promise!GoesPast(Promise!Online, m)
  BY DEF GoesPast, Promise!GoesPast

LEMMA InsertRefines ==
  ASSUME Inv, NEW w \in Workers, FinishInsert(w)
  PROVE  Promise!Commit \/ UNCHANGED Promise!vars
  <1>1. FacesSame
    BY SameFaces DEF FinishInsert, replayVars, pumpVars
  <1>2. UNCHANGED <<published, dispatched, shed, sent>>
    BY DEF FinishInsert, queueVars
  <1>3. CASE UNCHANGED <<stored, orphaned, dropped>>
    BY <1>1, <1>2, <1>3, SameFeed DEF FacesSame
  <1>4. CASE /\ stored' = stored \union {wseq[w]}
             /\ \/ orphaned' = orphaned /\ dropped' = dropped
                \/ orphaned' = orphaned \union {wseq[w]} /\ GoesPast(Live(wseq[w]))
    <2>1. wseq[w] \in (1..MaxEvents) \ stored
      BY FirehoseConstants DEF Inv, NumberInv, Holds, FinishInsert, TypeOK, WorkTypes
    <2>2. Promise!Online = clients
      BY OnlineIsRoster DEF Inv
    <2>3. GoesPast(Live(wseq[w])) => Promise!GoesPast(Promise!Online, Promise!Live(wseq[w]))
      BY <2>2, SamePast DEF Promise!Live, Live
    <2>4. \/ orphaned' = orphaned /\ dropped' = dropped
          \/ /\ orphaned' = orphaned \union {wseq[w]}
             /\ Promise!GoesPast(Promise!Online, Promise!Live(wseq[w]))
      BY <1>4, <2>3
    <2> QED BY <1>1, <1>2, <1>4, <2>1, <2>4
            DEF FacesSame, Promise!Commit, Promise!newsVars, Promise!scanVars
  <1> QED BY <1>3, <1>4 DEF FinishInsert

LEMMA OfferRefines ==
  ASSUME Inv, NEW m \in Message, m \in Promise!News, Offer(m), FacesSame,
         UNCHANGED <<stored, orphaned, dispatched, sent>>
  PROVE  Promise!Withhold \/ UNCHANGED Promise!vars
  <1>1. {published[i] : i \in 1..dispatched}' = {published[i] : i \in 1..dispatched}
    <2>1. /\ Len(published) \in Nat /\ dispatched \in 0..Len(published)
          /\ \A i \in 1..Len(published) : published'[i] = published[i]
      BY Offered DEF Inv, TypeOK
    <2> QED BY <2>1
  <1>2. CASE shed' = shed \union {m} /\ GoesPast(m)
    <2>1. Promise!GoesPast(Promise!Online, m)
      BY <1>2, OnlineIsRoster, SamePast DEF Inv
    <2> QED BY <1>1, <1>2, <2>1
            DEF FacesSame, Promise!Withhold, Promise!rowVars, Promise!scanVars
  <1>3. CASE shed' = shed /\ dropped' = dropped
    BY <1>1, <1>3 DEF FacesSame, Promise!vars, Promise!rowVars, Promise!newsVars, Promise!scanVars
  <1> QED BY <1>2, <1>3 DEF Offer

LEMMA BroadcastRefines ==
  ASSUME Inv, NEW w \in Workers, BroadcastWithSeq(w) \/ Broadcast(w)
  PROVE  Promise!Withhold \/ UNCHANGED Promise!vars
  <1>1. FacesSame
    BY SameFaces DEF BroadcastWithSeq, Broadcast, replayVars, pumpVars
  <1>2. UNCHANGED <<stored, orphaned, dispatched, sent>>
    BY DEF BroadcastWithSeq, Broadcast, storeVars
  <1>3. PICK m \in Promise!News : Offer(m)
    BY IsNews DEF Inv, BroadcastWithSeq, Broadcast
  <1>4. m \in Message
    BY FirehoseConstants
       DEF Promise!News, Promise!Live, Promise!Raw, Message, Inv, TypeOK, WorkTypes
  <1> QED BY <1>1, <1>2, <1>3, <1>4, OfferRefines

LEMMA DispatchRefines ==
  ASSUME Inv, Dispatch
  PROVE  Promise!Announce
  <1> DEFINE m == published[dispatched + 1]
             refused == {c \in clients : Full(c)}
  <1>1. FacesSame /\ UNCHANGED <<stored, orphaned, shed, published>>
    BY SameFaces DEF Dispatch, storeVars, replayVars, pumpVars
  <1>2. m \in Promise!News
    BY IsNews DEF Inv, Dispatch
  <1>3. Promise!Online = clients
    BY OnlineIsRoster DEF Inv
  <1>4. {published[i] : i \in 1..dispatched}' = {published[i] : i \in 1..dispatched} \union {m}
    <2>1. dispatched \in Nat /\ dispatched' = dispatched + 1
      BY DEF Inv, TypeOK, QueueTypes, Dispatch
    <2>2. 1..(dispatched + 1) = (1..dispatched) \union {dispatched + 1}
      BY <2>1
    <2> QED BY <1>1, <2>1, <2>2
  <1>5. sent' = [c \in Clients |->
          IF c \in Promise!Online \ refused THEN Append(sent[c], m) ELSE sent[c]]
    BY <1>3 DEF Dispatch
  <1>6. Promise!GoesPast(refused, m)
    BY DEF Dispatch, Promise!GoesPast
  <1>7. refused \in SUBSET Promise!Online
    BY <1>3
  <1> HIDE DEF m, refused
  <1> QED BY <1>1, <1>2, <1>4, <1>5, <1>6, <1>7
          DEF FacesSame, Promise!Announce, Promise!rowVars, Promise!scanVars

\* The variables of the mapping that no subscriber's own goroutine writes.
SharedSame == UNCHANGED <<stored, orphaned, published, dispatched, shed, dropped>>

LEMMA RegisterRefines ==
  ASSUME Inv, NEW c \in Clients, Register(c)
  PROVE  Promise!Join(c)
  <1>1. SharedSame /\ sent' = sent
    BY DEF Register, SharedSame, storeVars, queueVars, sendVars
  <1>2. \A d \in Clients \ {c} : UNCHANGED <<Place(d), Since(d), Scan(d), At(d)>>
    BY SameFace DEF Register, pumpVars, replayVars, Inv, TypeOK, ConnTypes
  <1>3. replay[c] = "none" /\ replay' = replay /\ reader[c] = "none" /\ reader' = reader
    BY DEF Register, pumpVars, replayVars, Inv, RosterInv, RosterOf
  <1>4. handler[c] = "registering" /\ handler'[c] = "registered" /\ cursor' = cursor
    BY DEF Register, Inv, TypeOK, ConnTypes
  <1>5. Place(c) = "away" /\ Place(c)' = "online"
    BY <1>3, <1>4 DEF Place
  <1>6. Since(c) = NoCursor /\ Scan(c) = "none" /\ At(c) = 0
    BY <1>5 DEF Since, Scan, At
  <1>7. CASE cursor[c] = NoCursor
    <2>1. Since(c)' = NoCursor /\ Scan(c)' = "none" /\ At(c)' = 0
      BY <1>4, <1>5, <1>7 DEF Since, Scan, At
    <2> QED BY <1>1, <1>2, <1>5, <1>6, <2>1
            DEF SharedSame, Promise!Join, Promise!rowVars, Promise!newsVars, Promise!scanVars
  <1>8. CASE cursor[c] # NoCursor
    <2>1. Since(c)' = cursor[c] /\ Scan(c)' = "running" /\ At(c)' = cursor[c] /\ cursor[c] \in Cursors
      BY <1>3, <1>4, <1>5, <1>8 DEF Since, Scan, At, Inv, TypeOK, ConnTypes
    <2> QED BY <1>1, <1>2, <1>5, <1>6, <2>1
            DEF SharedSame, Promise!Join, Promise!rowVars, Promise!newsVars
  <1> QED BY <1>7, <1>8

LEMMA UnregisterRefines ==
  ASSUME Inv, NEW c \in Clients, Unregister(c)
  PROVE  Promise!Leave(c)
  <1>1. SharedSame /\ sent' = sent
    BY DEF Unregister, SharedSame, storeVars, queueVars
  <1>2. \A d \in Clients \ {c} : UNCHANGED <<Place(d), Since(d), Scan(d), At(d)>>
    BY SameFace DEF Unregister, replayVars, Inv, TypeOK, ConnTypes
  <1>3. /\ reader[c] = "leaving" /\ reader'[c] = "released" /\ handler[c] = "served"
        /\ UNCHANGED <<handler, cursor, replay, position>>
    BY DEF Unregister, replayVars, Inv, TypeOK, ConnTypes, RosterInv, RosterOf
  <1>4. Place(c) = "online" /\ Place(c)' = "gone"
    BY <1>3 DEF Place
  <1>5. /\ Since(c)' = Since(c) /\ At(c)' = At(c)
        /\ Scan(c)' = IF Scan(c) = "none" THEN "none" ELSE "stopped"
    BY <1>3, <1>4 DEF Since, At, Scan
  <1> QED BY <1>1, <1>2, <1>4, <1>5
          DEF SharedSame, Promise!Leave, Promise!rowVars, Promise!newsVars

LEMMA RefinesQuietly ==
  ASSUME Inv, NEW c \in Clients, Connect(c) \/ StartPumps(c) \/ Read(c)
  PROVE  UNCHANGED Promise!vars
  <1>1. SharedSame /\ sent' = sent
    BY DEF Connect, StartPumps, Read, ReadFails, ReadEnds, SharedSame, storeVars, queueVars, sendVars
  <1>2. \A d \in Clients \ {c} : UNCHANGED <<Place(d), Since(d), Scan(d), At(d)>>
    BY SameFace DEF Connect, StartPumps, Read, ReadFails, ReadEnds, pumpVars, replayVars,
                    Inv, TypeOK, ConnTypes, ReplayTypes
  <1>3. UNCHANGED <<Place(c), Since(c), Scan(c), At(c)>>
    <2>0. RosterOf(c)
      BY DEF Inv, RosterInv
    <2>1. CASE Connect(c)
      <3>1. Place(c) = "away" /\ Place(c)' = "away"
        BY <2>1 DEF Connect, Place, Inv, TypeOK, ConnTypes
      <3> QED BY <3>1 DEF Since, Scan, At
    <2>2. CASE StartPumps(c)
      <3>1. /\ handler[c] = "registered" /\ handler'[c] = "served" /\ cursor' = cursor
            /\ reader[c] = "none" /\ reader'[c] = "running" /\ replay[c] = "none"
            /\ IF cursor[c] # NoCursor
                 THEN replay'[c] = "query" /\ position'[c] = cursor[c]
                 ELSE replay'[c] = "none"
        BY <2>0, <2>2 DEF StartPumps, RosterOf, Inv, TypeOK, ConnTypes, ReplayTypes
      <3> QED BY <3>1 DEF Place, Since, Scan, At
    <2>3. CASE Read(c)
      <3>1. /\ UNCHANGED <<handler, cursor, replay, position>>
            /\ \/ reader[c] \in {"running", "leaving"} /\ reader'[c] \in {"running", "leaving"}
               \/ reader[c] \in {"released", "done"} /\ reader'[c] \in {"released", "done"}
        BY <2>3 DEF Read, ReadFails, ReadEnds, replayVars, Inv, TypeOK, ConnTypes
      <3> QED BY <3>1 DEF Place, Since, Scan, At
    <2> QED BY <2>1, <2>2, <2>3
  <1> QED BY <1>1, <1>2, <1>3, SameFeed DEF SharedSame

\* For a subscriber online whose replay runs, what is neither covered nor pending
\* is accounted for; so is what a query or a batch has behind it.
LEMMA BehindIsAccounted ==
  ASSUME Inv, NEW c \in Clients, c \in clients, replay[c] \in {"query", "send"},
         NEW s \in stored, s > position[c], ~Pending(c, s)
  PROVE  Promise!Accounted(c, s)
  <1>1. cursor[c] # NoCursor /\ cursor[c] \in Int /\ position[c] \in Int /\ s \in Nat
    BY FirehoseConstants
       DEF Inv, RosterInv, RosterOf, TypeOK, ConnTypes, ReplayTypes, WorkTypes
  <1>2. s > cursor[c]
    BY <1>1 DEF Inv, ReplayInv, ReplayOf
  <1>3. Covered(c, s)
    BY <1>1, <1>2 DEF Inv, ResumeInv, Ongoing
  <1> QED BY <1>1, <1>3, CoveredIsAccounted DEF Inv

LEMMA FaceOfReplay ==
  ASSUME Inv, NEW c \in Clients, c \in clients, replay[c] \in {"query", "send"}
  PROVE  Place(c) = "online" /\ Scan(c) = "running" /\ At(c) = position[c]
  BY DEF Inv, RosterInv, RosterOf, TypeOK, ConnTypes, Place, Since, Scan, At

LEMMA QueryRefines ==
  ASSUME Inv, NEW c \in Clients, ReplayQuery(c)
  PROVE  Promise!EndScan(c) \/ UNCHANGED Promise!vars
  <1>1. SharedSame /\ sent' = sent
    BY DEF ReplayQuery, SharedSame, storeVars, queueVars, sendVars
  <1>2. \A d \in Clients \ {c} : UNCHANGED <<Place(d), Since(d), Scan(d), At(d)>>
    BY SameFace DEF ReplayQuery, pumpVars, Inv, TypeOK, ReplayTypes
  <1>3. /\ UNCHANGED <<handler, cursor, reader, position>> /\ replay[c] = "query"
        /\ replay'[c] \in {"send", "done", "failed"}
    BY DEF ReplayQuery, pumpVars, Inv, TypeOK, ReplayTypes
  <1>4. UNCHANGED <<Place(c), Since(c), At(c)>>
    BY <1>3 DEF Place, Since, At
  <1>5. CASE c \notin clients
    <2>1. Place(c) = "gone"
      BY <1>3, <1>5 DEF Place, Inv, RosterInv, RosterOf
    <2>2. Scan(c)' = Scan(c)
      BY <1>4, <2>1 DEF Scan
    <2> QED BY <1>1, <1>2, <1>4, <2>2, SameFeed DEF SharedSame
  <1>6. CASE c \in clients /\ replay'[c] = "send"
    <2>1. Scan(c)' = Scan(c)
      BY <1>3, <1>4, <1>6 DEF Scan
    <2> QED BY <1>1, <1>2, <1>4, <2>1, SameFeed DEF SharedSame
  <1>7. CASE c \in clients /\ replay'[c] # "send"
    <2>1. Place(c) = "online" /\ Scan(c) = "running" /\ At(c) = position[c]
      BY <1>3, <1>7, FaceOfReplay
    <2>2. Since(c) # NoCursor
      BY <2>1 DEF Scan
    <2>3. CASE replay'[c] = "failed"
      <3>1. Scan(c)' = "stopped"
        BY <1>4, <2>1, <2>2, <2>3 DEF Scan
      <3> QED BY <1>1, <1>2, <1>4, <2>1, <3>1
              DEF SharedSame, Promise!EndScan, Promise!Scanning, Promise!rowVars, Promise!newsVars
    <2>4. CASE replay'[c] = "done"
      <3>1. Scan(c)' = "done"
        BY <1>4, <2>1, <2>2, <2>4 DEF Scan
      <3>2. After(position[c]) = {}
        <4>1. PICK B \in SUBSET After(position[c]) :
                IsBatch(B, position[c]) /\ replay'[c] = IF B = {} THEN "done" ELSE "send"
          BY <2>4 DEF ReplayQuery, Inv, TypeOK, ReplayTypes
        <4> QED BY <2>4, <4>1, BatchIsPrefix
      <3>3. Promise!AccountedFrom(c, At(c))
        BY <2>1, <3>2 DEF Promise!AccountedFrom, After
      <3> QED BY <1>1, <1>2, <1>4, <2>1, <3>1, <3>3
              DEF SharedSame, Promise!EndScan, Promise!Scanning, Promise!rowVars, Promise!newsVars
    <2> QED BY <1>3, <1>7, <2>3, <2>4
  <1> QED BY <1>5, <1>6, <1>7

LEMMA SendRefines ==
  ASSUME Inv, NEW c \in Clients, ReplaySend(c)
  PROVE  Promise!Replay(c) \/ Promise!EndScan(c) \/ UNCHANGED Promise!vars
  <1>1. SharedSame /\ UNCHANGED <<handler, cursor, reader>> /\ replay[c] = "send"
    BY DEF ReplaySend, SharedSame, storeVars, queueVars, pumpVars
  <1>2. \A d \in Clients \ {c} : UNCHANGED <<Place(d), Since(d), Scan(d), At(d)>>
    BY SameFace DEF ReplaySend, pumpVars, replayVars, Inv, TypeOK, ReplayTypes
  <1>3. UNCHANGED <<Place(c), Since(c)>>
    BY <1>1 DEF Place, Since
  <1>4. CASE closed[c]
    <2>1. UNCHANGED <<sent, replay, position>>
      BY <1>4 DEF ReplaySend, replayVars
    <2>2. UNCHANGED <<Scan(c), At(c)>>
      BY <1>3, <2>1, <1>1 DEF Scan, At
    <2> QED BY <1>1, <1>2, <1>3, <2>1, <2>2, SameFeed DEF SharedSame
  <1> SUFFICES ASSUME ~closed[c]
               PROVE  Promise!Replay(c) \/ Promise!EndScan(c) \/ UNCHANGED Promise!vars
    BY <1>4
  <1>5. c \in clients
    BY <1>1 DEF Inv, RosterInv, RosterOf
  <1>6. Place(c) = "online" /\ Scan(c) = "running" /\ At(c) = position[c] /\ Since(c) # NoCursor
    BY <1>1, <1>5, FaceOfReplay DEF Scan
  <1>7. CASE Full(c)
    <2>1. UNCHANGED <<sent, position>> /\ replay'[c] = "aborted"
      BY <1>7 DEF ReplaySend, Inv, TypeOK, ReplayTypes
    <2>2. Scan(c)' = "stopped" /\ At(c)' = At(c)
      BY <1>1, <1>3, <1>6, <2>1 DEF Scan, At
    <2> QED BY <1>1, <1>2, <1>3, <1>6, <2>1, <2>2
            DEF SharedSame, Promise!EndScan, Promise!Scanning, Promise!rowVars, Promise!newsVars
  <1>8. CASE ~Full(c)
    <2>1. PICK s \in batch[c] :
            /\ s \in Nat /\ \A t \in batch[c] : s <= t
            /\ sent' = [sent EXCEPT ![c] = Append(@, Replayed(s))]
            /\ position' = [position EXCEPT ![c] = s]
            /\ replay' = [replay EXCEPT ![c] = AfterRow(c, s)]
      BY <1>8, RowSent DEF Inv
    <2>2. /\ position'[c] = s /\ replay'[c] = AfterRow(c, s) /\ position[c] \in Int
          /\ s \in stored /\ position[c] < s /\ stored \subseteq Nat
      BY <1>1, <2>1 DEF Inv, TypeOK, ReplayTypes, WorkTypes, ReplayInv, ReplayOf
    <2>3. At(c)' = s
      BY <1>3, <1>6, <2>2 DEF At, AfterRow
    <2>4. Promise!Passes(c, At(c), s)
      <3>1. ASSUME NEW t \in stored, position[c] < t, t < s PROVE Promise!Accounted(c, t)
        <4>1. ~Pending(c, t)
          BY <1>1, <2>1, <2>2, <3>1 DEF Pending
        <4> QED BY <1>1, <1>5, <2>2, <3>1, <4>1, BehindIsAccounted
      <3> QED BY <1>6, <2>2, <3>1 DEF Promise!Passes
    <2>5. CASE replay'[c] # "done"
      <3>1. Scan(c)' = Scan(c)
        BY <1>3, <1>6, <2>2, <2>5 DEF Scan, AfterRow
      <3> QED BY <1>1, <1>2, <1>3, <1>6, <2>1, <2>2, <2>3, <2>4, <3>1
              DEF SharedSame, Promise!Replay, Promise!Scanning, Promise!Replayed, Replayed,
                  Promise!rowVars, Promise!newsVars
    <2>6. CASE replay'[c] = "done"
      <3>1. Scan(c)' = "done"
        BY <1>3, <1>6, <2>6 DEF Scan
      <3>2. Promise!AccountedFrom(c, s)
        <4>1. ASSUME NEW t \in stored, t > s PROVE Promise!Accounted(c, t)
          <5>1. batch[c] = {s} /\ lastBatch[c]
            BY <2>2, <2>6 DEF AfterRow
          <5>2. ~Pending(c, t)
            BY <1>1, <2>2, <4>1, <5>1 DEF Pending
          <5>3. t > position[c]
            BY <2>2, <4>1
          <5> QED BY <1>1, <1>5, <5>2, <5>3, BehindIsAccounted
        <4> QED BY <4>1 DEF Promise!AccountedFrom
      <3> QED BY <1>1, <1>2, <1>3, <1>6, <2>1, <2>2, <2>3, <2>4, <3>1, <3>2
              DEF SharedSame, Promise!Replay, Promise!Scanning, Promise!Replayed, Replayed,
                  Promise!rowVars, Promise!newsVars
    <2> QED BY <2>5, <2>6
  <1> QED BY <1>7, <1>8

LEMMA RefinesNext == Inv /\ [Next]_vars => [Promise!Next]_(Promise!vars)
  <1> SUFFICES ASSUME Inv, [Next]_vars PROVE Promise!Next \/ UNCHANGED Promise!vars
    OBVIOUS
  <1>1. ASSUME NEW w \in Workers, StoreEvent(w) PROVE UNCHANGED Promise!vars
    <2>1. FacesSame /\ SharedSame /\ sent' = sent
      BY <1>1, SameFaces DEF StoreEvent, SharedSame, queueVars, sendVars, replayVars, pumpVars
    <2> QED BY <2>1, SameFeed DEF FacesSame, SharedSame
  <1>2. ASSUME ExitLoop \/ Stopping \/ \E c \in Clients : Write(c) PROVE UNCHANGED Promise!vars
    <2>1. FacesSame /\ SharedSame /\ sent' = sent
      BY <1>2, SameFaces
         DEF ExitLoop, Stopping, StopCancel, StopCloseConns, Write, WriteMessage, WriteFails,
             WriteClose, EndWriter, SharedSame, storeVars, queueVars, sendVars, replayVars,
             pumpVars
    <2> QED BY <2>1, SameFeed DEF FacesSame, SharedSame
  <1>3. CASE UNCHANGED vars
    <2>1. FacesSame /\ SharedSame /\ sent' = sent
      BY <1>3, SameFaces DEF vars, SharedSame, storeVars, queueVars, sendVars, replayVars, pumpVars
    <2> QED BY <2>1, SameFeed DEF FacesSame, SharedSame
  <1>4. ASSUME NEW w \in Workers, Work(w) PROVE Promise!Next \/ UNCHANGED Promise!vars
    BY <1>1, <1>4, InsertRefines, BroadcastRefines DEF Work, Promise!Next
  <1>5. CASE Dispatch
    BY <1>5, DispatchRefines DEF Promise!Next
  <1>6. ASSUME NEW c \in Clients, Register(c) \/ Unregister(c) PROVE Promise!Next
    BY <1>6, RegisterRefines, UnregisterRefines DEF Promise!Next
  <1>7. ASSUME NEW c \in Clients, Serve(c) \/ Read(c) PROVE UNCHANGED Promise!vars
    BY <1>7, RefinesQuietly DEF Serve
  <1>8. ASSUME NEW c \in Clients, Replay(c) PROVE Promise!Next \/ UNCHANGED Promise!vars
    BY <1>8, QueryRefines, SendRefines DEF Replay, Promise!Next
  <1> QED BY <1>2, <1>3, <1>4, <1>5, <1>6, <1>7, <1>8 DEF Next, Loop

\* The server keeps the promise of Feed: whatever the order of its goroutines and
\* the capacities of its channels, subscribers see an atomic broadcast of
\* committed rows with a scan beside it.
THEOREM Implements == Spec => KeepsPromise
  BY RefinesInit, RefinesNext, AlwaysInv, PTL DEF Spec, KeepsPromise, Promise!Spec

-----------------------------------------------------------------------------
(* A subscriber's channel.                                                 *)

Dispatched == {published[i] : i \in 1..dispatched}

\* c's channel holds messages of the run loop, and rows between the cursor and
\* the place the replay has got to.
SourcesOf(c) ==
  \A i \in DOMAIN sent[c] :
    \/ sent[c][i] \in Dispatched
    \/ /\ sent[c][i].via = "replay" /\ replay[c] # "none"
       /\ sent[c][i].seq \in stored
       /\ cursor[c] < sent[c][i].seq /\ sent[c][i].seq <= position[c]

\* a live message stands there once, and the replayed rows go up
Sorted(q) ==
  \A i, j \in DOMAIN q : i < j =>
    /\ q[i].via = "live" => q[i] # q[j]
    /\ q[i].via = "replay" /\ q[j].via = "replay" => q[i].seq < q[j].seq

SentInv == \A c \in Clients : SourcesOf(c) /\ Sorted(sent[c])

\* What the run loop has dispatched stays dispatched, and is live or raw.
LEMMA DispatchedGrows ==
  ASSUME Inv, [Next]_vars
  PROVE  Dispatched \subseteq Dispatched' /\ \A m \in Dispatched : m.via # "replay"
  <1> USE DEF Inv, TypeOK
  <1>1. /\ Len(published) \in Nat /\ DOMAIN published = 1..Len(published)
        /\ dispatched \in 0..Len(published)
    BY LenProperties, FirehoseConstants DEF QueueTypes, Waiting
  <1>2. \A m \in Dispatched : m.via # "replay"
    BY <1>1 DEF Dispatched, OutInv, Live, Raw
  <1>3. ASSUME NEW m \in Message, Offer(m), dispatched' = dispatched
        PROVE  Dispatched \subseteq Dispatched'
    BY <1>1, <1>3, Offered DEF Dispatched
  <1>4. ASSUME NEW w \in Workers, BroadcastWithSeq(w) \/ Broadcast(w)
        PROVE  Dispatched \subseteq Dispatched'
    <2>1. Live(wseq[w]) \in Message /\ \A p \in PdsSeqs : Raw(p) \in Message
      BY FirehoseConstants DEF WorkTypes, Live, Raw, Message
    <2> QED BY <1>3, <1>4, <2>1 DEF BroadcastWithSeq, Broadcast
  <1>5. CASE published' = published /\ dispatched' \in {dispatched, dispatched + 1}
    BY <1>1, <1>2, <1>5 DEF Dispatched
  <1>6. \/ published' = published /\ dispatched' \in {dispatched, dispatched + 1}
        \/ \E w \in Workers : BroadcastWithSeq(w) \/ Broadcast(w)
    BY DEF Next, Work, StoreEvent, FinishInsert, Serve, Connect, StartPumps, Loop,
           Register, Unregister, Dispatch, ExitLoop, Stopping, StopCancel, StopCloseConns,
           Write, WriteMessage, WriteFails, WriteClose, Read, ReadFails, ReadEnds, Replay,
           ReplayQuery, ReplaySend, vars, queueVars
  <1> QED BY <1>2, <1>4, <1>5, <1>6

\* Only the run loop and c's own replay put messages into c's channel.
LEMMA SentMoves ==
  ASSUME Inv, [Next]_vars, NEW c \in Clients
  PROVE  \/ sent'[c] = sent[c]
         \/ Dispatch /\ sent'[c] = Append(sent[c], published[dispatched + 1])
         \/ ReplaySend(c) /\ ~closed[c] /\ ~Full(c)
  <1> USE DEF Inv, TypeOK, SendTypes
  <1>1. CASE Dispatch
    BY <1>1 DEF Dispatch
  <1>2. ASSUME NEW d \in Clients \ {c}, ReplaySend(d) PROVE sent'[c] = sent[c]
    BY <1>2 DEF ReplaySend
  <1>3. ASSUME ReplaySend(c), closed[c] \/ Full(c) PROVE sent'[c] = sent[c]
    BY <1>3 DEF ReplaySend
  <1>4. \/ sent' = sent \/ Dispatch
        \/ \E d \in Clients : ReplaySend(d)
    BY DEF Next, Work, StoreEvent, FinishInsert, BroadcastWithSeq, Broadcast, Serve,
           Connect, StartPumps, Loop, Register, Unregister, ExitLoop, Stopping, StopCancel,
           StopCloseConns, Write, WriteMessage, WriteFails, WriteClose, Read, ReadFails,
           ReadEnds, Replay, ReplayQuery, vars, sendVars
  <1> QED BY <1>1, <1>2, <1>3, <1>4

\* A replay keeps its cursor and only moves forward.
LEMMA ReplayAdvances ==
  ASSUME Inv, [Next]_vars, NEW c \in Clients, replay[c] # "none"
  PROVE  /\ replay'[c] # "none" /\ cursor'[c] = cursor[c]
         /\ position[c] \in Int /\ position'[c] \in Int /\ position[c] <= position'[c]
         /\ cursor[c] \in Int /\ cursor[c] <= position[c]
  <1> USE DEF Inv, TypeOK, ReplayTypes
  <1>1. RosterOf(c) /\ ReplayOf(c) /\ position[c] \in Int
    BY DEF RosterInv, ReplayInv
  <1>2. /\ cursor'[c] = cursor[c]
        /\ cursor[c] \in Int /\ cursor[c] <= position[c]
    BY <1>1, CursorStays, FirehoseConstants DEF RosterOf, ReplayOf, ConnTypes
  <1>3. CASE StartPumps(c)
    BY <1>1, <1>3 DEF StartPumps, RosterOf
  <1>4. CASE ReplayQuery(c)
    BY <1>1, <1>2, <1>4 DEF ReplayQuery
  <1>5. CASE ReplaySend(c)
    <2>1. CASE closed[c] \/ Full(c)
      BY <1>1, <1>2, <1>5, <2>1 DEF ReplaySend, replayVars
    <2>2. CASE ~closed[c] /\ ~Full(c)
      <3>1. PICK s \in batch[c] :
              s \in Nat /\ position'[c] = s /\ replay'[c] = AfterRow(c, s)
        BY <1>5, <2>2, RowSent
      <3>2. position[c] < s
        BY <1>1, <1>5 DEF ReplaySend, ReplayOf
      <3> QED BY <1>1, <1>2, <3>1, <3>2 DEF AfterRow
    <2> QED BY <2>1, <2>2
  <1>6. CASE UNCHANGED <<replay[c], position[c]>>
    BY <1>1, <1>2, <1>6
  <1> QED BY <1>3, <1>4, <1>5, <1>6, ReplayMoves

LEMMA NextSent == Inv /\ SentInv /\ [Next]_vars => SentInv'
  <1> SUFFICES ASSUME Inv, SentInv, [Next]_vars, NEW c \in Clients
               PROVE  (SourcesOf(c) /\ Sorted(sent[c]))'
    BY DEF SentInv
  <1>1. /\ sent[c] \in Seq(Message) /\ Len(sent[c]) \in Nat
        /\ DOMAIN sent[c] = 1..Len(sent[c])
        /\ \A i \in DOMAIN sent[c] : sent[c][i] \in Message /\ sent[c][i].seq \in Nat
    <2>1. /\ sent[c] \in Seq(Message) /\ Len(sent[c]) \in Nat
          /\ DOMAIN sent[c] = 1..Len(sent[c])
      BY LenProperties DEF Inv, TypeOK, SendTypes
    <2>2. \A i \in DOMAIN sent[c] : sent[c][i] \in Message
      BY <2>1, ElementOfSeq
    <2> QED BY <2>1, <2>2 DEF Message
  <1>2. SourcesOf(c) /\ Sorted(sent[c])
    BY DEF SentInv
  <1>3. \A i \in DOMAIN sent[c] :
          \/ sent[c][i] \in Dispatched'
          \/ /\ sent[c][i].via = "replay" /\ replay'[c] # "none"
             /\ sent[c][i].seq \in stored'
             /\ cursor'[c] < sent[c][i].seq /\ sent[c][i].seq <= position'[c]
    <2> TAKE i \in DOMAIN sent[c]
    <2>1. CASE sent[c][i] \in Dispatched
      BY <2>1, DispatchedGrows
    <2>2. CASE /\ sent[c][i].via = "replay" /\ replay[c] # "none"
               /\ sent[c][i].seq \in stored
               /\ cursor[c] < sent[c][i].seq /\ sent[c][i].seq <= position[c]
      BY <1>1, <2>2, ReplayAdvances, StoredGrows
    <2> QED BY <1>2, <2>1, <2>2 DEF SourcesOf
  <1>4. CASE sent'[c] = sent[c]
    BY <1>2, <1>3, <1>4 DEF SourcesOf, Sorted
  <1>5. ASSUME NEW m \in Message, sent'[c] = Append(sent[c], m)
        PROVE  /\ DOMAIN sent'[c] = 1..(Len(sent[c]) + 1)
               /\ \A i \in DOMAIN sent[c] : sent'[c][i] = sent[c][i]
               /\ sent'[c][Len(sent[c]) + 1] = m
    BY <1>1, <1>5, AppendProperties, LenProperties
  <1>6. ASSUME NEW m \in Message, sent'[c] = Append(sent[c], m),
               \/ m \in Dispatched'
               \/ /\ m.via = "replay" /\ replay'[c] # "none" /\ m.seq \in stored'
                  /\ cursor'[c] < m.seq /\ m.seq <= position'[c],
               \A i \in DOMAIN sent[c] :
                 /\ sent[c][i].via = "live" => sent[c][i] # m
                 /\ sent[c][i].via = "replay" /\ m.via = "replay" => sent[c][i].seq < m.seq
        PROVE  (SourcesOf(c) /\ Sorted(sent[c]))'
    <2> DEFINE q == sent'[c]
               n == Len(sent[c]) + 1
    <2>1. \A i \in DOMAIN q : \/ i \in DOMAIN sent[c] /\ q[i] = sent[c][i]
                              \/ i = n /\ q[i] = m
      BY <1>1, <1>5, <1>6
    <2>2. \A i \in DOMAIN q : i <= n /\ (i < n => i \in DOMAIN sent[c])
      BY <1>1, <1>5, <1>6
    <2> HIDE DEF q, n
    <2>3. Sorted(q)
      <3> SUFFICES ASSUME NEW i \in DOMAIN q, NEW j \in DOMAIN q, i < j
                   PROVE  /\ q[i].via = "live" => q[i] # q[j]
                          /\ q[i].via = "replay" /\ q[j].via = "replay" => q[i].seq < q[j].seq
        BY DEF Sorted
      <3>1. i < n /\ i \in DOMAIN sent[c] /\ q[i] = sent[c][i]
        <4>1. n \in Int /\ i \in Int /\ j \in Int
          BY <1>1, <1>5, <1>6 DEF q, n
        <4> QED BY <2>1, <2>2, <4>1
      <3>2. CASE j = n /\ q[j] = m
        BY <1>6, <3>1, <3>2
      <3>3. CASE j \in DOMAIN sent[c] /\ q[j] = sent[c][j]
        BY <1>2, <3>1, <3>3 DEF Sorted
      <3> QED BY <2>1, <3>2, <3>3
    <2>4. SourcesOf(c)'
      BY <1>3, <1>6, <2>1 DEF SourcesOf, q
    <2> QED BY <2>3, <2>4 DEF q, Sorted
  <1>7. CASE Dispatch /\ sent'[c] = Append(sent[c], published[dispatched + 1])
    <2> DEFINE m == published[dispatched + 1]
    <2>1. /\ published \in Seq(Message)
          /\ Len(published) \in Nat /\ DOMAIN published = 1..Len(published)
          /\ dispatched \in Nat /\ dispatched + 1 \in 1..Len(published)
          /\ dispatched' = dispatched + 1 /\ published' = published
      BY <1>7, LenProperties DEF Inv, TypeOK, QueueTypes, Waiting, Dispatch
    <2>2. m \in Message /\ m.via # "replay" /\ m \in Dispatched'
      <3>1. m \in Message
        BY <2>1, ElementOfSeq
      <3>2. m.via # "replay"
        BY <2>1 DEF Inv, OutInv, Live, Raw
      <3>3. m \in Dispatched'
        BY <2>1 DEF Dispatched
      <3> QED BY <3>1, <3>2, <3>3
    <2>3. m.via = "live" => m \notin Dispatched
      BY <2>1 DEF Inv, OutInv, Dispatched
    <2> HIDE DEF m
    <2>4. \A i \in DOMAIN sent[c] : sent[c][i].via = "live" => sent[c][i] # m
      BY <1>2, <2>3 DEF SourcesOf
    <2> QED BY <1>6, <1>7, <2>2, <2>4 DEF m
  <1>8. CASE ReplaySend(c) /\ ~closed[c] /\ ~Full(c)
    <2>1. PICK s \in batch[c] :
            /\ s \in Nat
            /\ sent' = [sent EXCEPT ![c] = Append(@, Replayed(s))]
            /\ position' = [position EXCEPT ![c] = s]
            /\ replay' = [replay EXCEPT ![c] = AfterRow(c, s)]
      BY <1>8, RowSent DEF Inv
    <2>2. replay[c] = "send" /\ s \in stored /\ position[c] < s
      BY <1>8 DEF ReplaySend, Inv, ReplayInv, ReplayOf
    <2>3. /\ sent'[c] = Append(sent[c], Replayed(s)) /\ position'[c] = s
      BY <2>1 DEF Inv, TypeOK, SendTypes, ReplayTypes
    <2>4. Replayed(s) \in Message /\ Replayed(s).via = "replay" /\ Replayed(s).seq = s
      BY <2>1 DEF Replayed, Message
    <2>5. /\ replay'[c] # "none" /\ cursor'[c] = cursor[c] /\ s \in stored'
          /\ cursor[c] \in Int /\ position[c] \in Int /\ cursor[c] <= position[c]
      BY <2>2, ReplayAdvances, StoredGrows
    <2>6. \A i \in DOMAIN sent[c] : sent[c][i].via = "replay" => sent[c][i].seq < s
      BY <1>1, <1>2, <2>1, <2>2, <2>5, DispatchedGrows DEF SourcesOf
    <2>7. \A i \in DOMAIN sent[c] : sent[c][i].via = "live" => sent[c][i] # Replayed(s)
      BY <2>4
    <2> QED BY <1>6, <2>1, <2>2, <2>3, <2>4, <2>5, <2>6, <2>7
  <1> QED BY <1>4, <1>7, <1>8, SentMoves

LEMMA AlwaysSent == Spec => [](Inv /\ SentInv)
  <1>1. Init => SentInv
    BY DEF Init, SentInv, SourcesOf, Sorted
  <1> QED BY <1>1, NextSent, AlwaysInv, PTL DEF Spec

\* What a channel holds are messages with natural numbers.
LEMMA SentMessages ==
  ASSUME Inv, NEW c \in Clients, NEW i \in DOMAIN sent[c]
  PROVE  sent[c][i] \in Message /\ i \in Nat
  <1>1. sent[c] \in Seq(Message)
    BY DEF Inv, TypeOK, SendTypes
  <1>2. DOMAIN sent[c] = 1..Len(sent[c]) /\ Len(sent[c]) \in Nat
    BY <1>1, LenProperties
  <1> QED BY <1>1, <1>2, ElementOfSeq

\* The relay does not broadcast an event twice: no subscriber gets two live
\* messages with the same number, whatever workers and run loop do meanwhile.
THEOREM NoRepeat == Spec => []LiveOnce
  <1>1. Inv /\ SentInv => LiveOnce
    <2> SUFFICES ASSUME Inv, SentInv, NEW c \in Clients,
                        NEW i \in Places(c, "live"), NEW j \in Places(c, "live"),
                        sent[c][i].seq = sent[c][j].seq
                 PROVE  i = j
      BY DEF LiveOnce
    <2>1. /\ i \in DOMAIN sent[c] /\ j \in DOMAIN sent[c]
          /\ sent[c][i].via = "live" /\ sent[c][j].via = "live"
      BY DEF Places
    <2>2. sent[c][i] \in Message /\ sent[c][j] \in Message /\ i \in Nat /\ j \in Nat
      BY <2>1, SentMessages
    <2>3. sent[c][i] = sent[c][j]
      BY <2>1, <2>2 DEF Message
    <2>4. ~(i < j) /\ ~(j < i)
      BY <2>1, <2>3 DEF SentInv, Sorted
    <2> QED BY <2>2, <2>4
  <1> QED BY <1>1, AlwaysSent, PTL

\* A replay gives a subscriber committed rows after its cursor, each once and in
\* order, whatever the workers commit between two of its queries.
THEOREM ReplayGoesUp == Spec => []ReplayOrdered
  <1>1. Inv /\ SentInv => ReplayOrdered
    <2> SUFFICES ASSUME Inv, SentInv, NEW c \in Clients
                 PROVE  /\ \A i \in Places(c, "replay") :
                             sent[c][i].seq \in stored /\ sent[c][i].seq > cursor[c]
                        /\ \A i, j \in Places(c, "replay") :
                             i < j => sent[c][i].seq < sent[c][j].seq
      BY DEF ReplayOrdered
    <2>1. \A m \in Dispatched : m.via # "replay"
      <3>1. /\ Len(published) \in Nat /\ DOMAIN published = 1..Len(published)
            /\ dispatched \in 0..Len(published)
        BY LenProperties, FirehoseConstants DEF Inv, TypeOK, QueueTypes, Waiting
      <3> QED BY <3>1 DEF Dispatched, Inv, OutInv, Live, Raw
    <2>2. ASSUME NEW i \in Places(c, "replay")
          PROVE  sent[c][i].seq \in stored /\ cursor[c] < sent[c][i].seq
      BY <2>1, <2>2 DEF SentInv, SourcesOf, Places
    <2>3. \A i, j \in Places(c, "replay") : i < j => sent[c][i].seq < sent[c][j].seq
      BY DEF SentInv, Sorted, Places
    <2> QED BY <2>2, <2>3
  <1> QED BY <1>1, AlwaysSent, PTL

-----------------------------------------------------------------------------
(* The broadcast channel.  A number smaller than one already published can *)
(* only come from a worker that held it then, so for every published       *)
(* message the smaller ones that came later and those still to come are    *)
(* together fewer than the workers.                                        *)

Late(i) ==
  {j \in DOMAIN published :
     /\ j > i
     /\ published[j].via = "live" /\ published[j].seq < published[i].seq}

Early(i) == {w \in Workers : Holds(w) /\ wseq[w] < published[i].seq}

OvertakenOf(i) == Cardinality(Late(i)) + Cardinality(Early(i)) < Cardinality(Workers)

OvertakenInv == \A i \in DOMAIN published : published[i].via = "live" => OvertakenOf(i)

\* the sets are finite, and a number already published is smaller than any to come
LEMMA OvertakenFacts ==
  ASSUME Inv
  PROVE  /\ Len(published) \in Nat /\ DOMAIN published = 1..Len(published)
         /\ IsFiniteSet(Workers) /\ Cardinality(Workers) \in Nat
         /\ \A i \in DOMAIN published :
              /\ IsFiniteSet(Late(i)) /\ IsFiniteSet(Early(i))
              /\ Cardinality(Late(i)) \in Nat /\ Cardinality(Early(i)) \in Nat
              /\ published[i].seq \in Nat
              /\ published[i].via = "live" => published[i].seq <= lastSeq
  <1>1. /\ published \in Seq(Message)
        /\ Len(published) \in Nat /\ DOMAIN published = 1..Len(published)
    BY LenProperties DEF Inv, TypeOK, QueueTypes
  <1>2. IsFiniteSet(Workers) /\ Cardinality(Workers) \in Nat
    BY FirehoseConstants, FS_CardinalityType
  <1>3. ASSUME NEW i \in DOMAIN published
        PROVE  /\ IsFiniteSet(Late(i)) /\ IsFiniteSet(Early(i))
               /\ Cardinality(Late(i)) \in Nat /\ Cardinality(Early(i)) \in Nat
    <2>1. IsFiniteSet(1..Len(published))
      BY <1>1, FS_Interval
    <2>2. Late(i) \subseteq 1..Len(published) /\ Early(i) \subseteq Workers
      BY <1>1 DEF Late, Early
    <2>3. IsFiniteSet(Late(i)) /\ IsFiniteSet(Early(i))
      BY <1>2, <2>1, <2>2, FS_Subset
    <2> QED BY <2>3, FS_CardinalityType
  <1>4. ASSUME NEW i \in DOMAIN published
        PROVE  /\ published[i].seq \in Nat
               /\ published[i].via = "live" => published[i].seq <= lastSeq
    <2>1. published[i] \in Message
      BY <1>1, <1>4, ElementOfSeq
    <2>2. ASSUME published[i].via = "live" PROVE published[i].seq <= lastSeq
      <3>1. PICK s \in Nat : published[i] = Live(s)
        BY <2>2 DEF Inv, OutInv, Raw
      <3>2. s \in stored
        BY <3>1 DEF Inv, OutInv, Out
      <3>3. s <= lastSeq
        BY <3>2 DEF Inv, NumberInv, TypeOK, WorkTypes
      <3> QED BY <3>1, <3>3 DEF Live
    <2> QED BY <2>1, <2>2 DEF Message
  <1> QED BY <1>1, <1>2, <1>3, <1>4

\* A message stays as little overtaken as it was when nothing is published and
\* no worker comes to hold a smaller number.
LEMMA NotOvertaken ==
  ASSUME Inv, NEW i \in DOMAIN published, OvertakenOf(i),
         Late(i)' \subseteq Late(i), Early(i)' \subseteq Early(i)
  PROVE  OvertakenOf(i)'
  <1>1. /\ Cardinality(Late(i)') \in Nat /\ Cardinality(Late(i)') <= Cardinality(Late(i))
        /\ Cardinality(Early(i)') \in Nat /\ Cardinality(Early(i)') <= Cardinality(Early(i))
    BY OvertakenFacts, FS_Subset, FS_CardinalityType
  <1> QED BY <1>1, OvertakenFacts DEF OvertakenOf

LEMMA NextOvertaken == Inv /\ OvertakenInv /\ [Next]_vars => OvertakenInv'
  <1> SUFFICES ASSUME Inv, OvertakenInv, [Next]_vars PROVE OvertakenInv'
    OBVIOUS
  <1>t. WorkTypes /\ QueueTypes /\ NumberInv
    BY DEF Inv, TypeOK
  <1>1. ASSUME published' = published,
               \A w \in Workers : Holds(w)' /\ wseq'[w] <= lastSeq =>
                                    Holds(w) /\ wseq'[w] = wseq[w]
        PROVE  OvertakenInv'
    <2> SUFFICES ASSUME NEW i \in DOMAIN published, published[i].via = "live"
                 PROVE  OvertakenOf(i)'
      BY <1>1 DEF OvertakenInv
    <2>1. /\ Late(i)' = Late(i)
          /\ published[i].seq \in Nat /\ published[i].seq <= lastSeq /\ lastSeq \in Nat
      BY <1>1, <1>t, OvertakenFacts DEF Late, WorkTypes
    <2>2. \A w \in Workers : wseq'[w] \in Nat
      BY NextTypes DEF Inv, TypeOK, WorkTypes
    <2>3. Early(i)' \subseteq Early(i)
      BY <1>1, <2>1, <2>2 DEF Early
    <2> QED BY <2>1, <2>3, NotOvertaken DEF OvertakenInv
  <1>2. ASSUME NEW w \in Workers, StoreEvent(w) PROVE OvertakenInv'
    <2>1. published' = published /\ lastSeq \in Nat
      BY <1>t, <1>2 DEF StoreEvent, queueVars, WorkTypes
    <2>2. ASSUME NEW v \in Workers, Holds(v)', wseq'[v] <= lastSeq
          PROVE  Holds(v) /\ wseq'[v] = wseq[v]
      BY <1>t, <1>2, <2>1, <2>2 DEF StoreEvent, NextSeq, Holds, WorkTypes
    <2> QED BY <1>1, <2>1, <2>2
  <1>3. ASSUME NEW w \in Workers, FinishInsert(w) PROVE OvertakenInv'
    <2>1. published' = published /\ wseq' = wseq
      BY <1>3 DEF FinishInsert, queueVars
    <2>2. \A v \in Workers : Holds(v)' => Holds(v)
      BY <1>t, <1>3 DEF FinishInsert, Holds, WorkTypes
    <2> QED BY <1>1, <2>1, <2>2
  <1>4. ASSUME NEW w \in Workers, NEW m \in Message, Offer(m),
               \/ m = Live(wseq[w]) /\ wpc[w] = "saved"
               \/ m.via = "raw",
               wpc' = [wpc EXCEPT ![w] = "idle"], UNCHANGED wseq
        PROVE  OvertakenInv'
    <2>1. \A v \in Workers : Holds(v)' => Holds(v) /\ v # w
      BY <1>t, <1>4 DEF Holds, WorkTypes
    <2>2. CASE published' = published
      BY <1>1, <1>4, <2>1, <2>2
    <2> DEFINE n == Len(published) + 1
    <2>3. CASE /\ DOMAIN published' = 1..n
               /\ \A i \in 1..Len(published) : published'[i] = published[i]
               /\ published'[n] = m
      <3>1. /\ Len(published) \in Nat /\ DOMAIN published = 1..Len(published)
            /\ IsFiniteSet(Workers) /\ Cardinality(Workers) \in Nat
        BY OvertakenFacts
      <3>2. ASSUME NEW i \in DOMAIN published, published[i].via = "live"
            PROVE  OvertakenOf(i)'
        <4>0. OvertakenOf(i) /\ i \in 1..Len(published) /\ published'[i] = published[i]
          BY <2>3, <3>1, <3>2 DEF OvertakenInv
        <4>1. Early(i)' \subseteq Early(i) \ {w}
          BY <1>4, <2>1, <4>0 DEF Early
        <4>2. \A j \in DOMAIN published' :
                \/ j \in DOMAIN published /\ published'[j] = published[j]
                \/ j = n /\ published'[j] = m
          BY <2>3, <3>1
        <4>3. CASE m.via = "live" /\ m.seq < published[i].seq
          <5>1. m = Live(wseq[w]) /\ wpc[w] = "saved"
            BY <1>4, <4>3
          <5>2. w \in Early(i)
            BY <4>3, <5>1 DEF Early, Holds, Live
          <5>3. Late(i)' \subseteq Late(i) \union {n}
            BY <4>0, <4>2 DEF Late
          <5>4. n \notin Late(i)
            BY <3>1 DEF Late
          <5>5. /\ IsFiniteSet(Late(i)) /\ IsFiniteSet(Early(i))
                /\ Cardinality(Late(i)) \in Nat /\ Cardinality(Early(i)) \in Nat
            BY OvertakenFacts
          <5>6. /\ IsFiniteSet(Late(i) \union {n})
                /\ Cardinality(Late(i) \union {n}) = Cardinality(Late(i)) + 1
            BY <5>4, <5>5, FS_AddElement
          <5>7. /\ IsFiniteSet(Early(i) \ {w})
                /\ Cardinality(Early(i) \ {w}) = Cardinality(Early(i)) - 1
            BY <5>2, <5>5, FS_RemoveElement
          <5>8. /\ IsFiniteSet(Late(i)') /\ Cardinality(Late(i)') <= Cardinality(Late(i)) + 1
                /\ IsFiniteSet(Early(i)') /\ Cardinality(Early(i)') <= Cardinality(Early(i)) - 1
            BY <4>1, <5>3, <5>6, <5>7, FS_Subset
          <5>9. Cardinality(Late(i)') \in Nat /\ Cardinality(Early(i)') \in Nat
            BY <5>8, FS_CardinalityType
          <5> QED BY <3>1, <4>0, <5>5, <5>8, <5>9 DEF OvertakenOf
        <4>4. CASE ~(m.via = "live" /\ m.seq < published[i].seq)
          <5>1. Late(i)' \subseteq Late(i)
            BY <4>0, <4>2, <4>4 DEF Late
          <5> QED BY <4>0, <4>1, <5>1, NotOvertaken
        <4> QED BY <4>3, <4>4
      <3>3. ASSUME NEW i \in DOMAIN published', i = n PROVE OvertakenOf(i)'
        <4>1. Late(i)' = {}
          BY <2>3, <3>1, <3>3 DEF Late
        <4>2. Early(i)' \subseteq Workers \ {w}
          BY <2>1 DEF Early
        <4>3. /\ IsFiniteSet(Workers \ {w})
              /\ Cardinality(Workers \ {w}) = Cardinality(Workers) - 1
          BY <3>1, FS_RemoveElement
        <4>4. IsFiniteSet(Early(i)') /\ Cardinality(Early(i)') <= Cardinality(Workers) - 1
          BY <4>2, <4>3, FS_Subset
        <4>5. Cardinality(Early(i)') \in Nat /\ Cardinality(Late(i)') = 0
          BY <4>1, <4>4, FS_CardinalityType, FS_EmptySet
        <4> QED BY <3>1, <4>4, <4>5 DEF OvertakenOf
      <3>4. \A i \in DOMAIN published' :
              \/ i \in DOMAIN published /\ published'[i] = published[i]
              \/ i = n
        BY <2>3, <3>1
      <3> QED BY <3>2, <3>3, <3>4 DEF OvertakenInv
    <2> QED BY <1>4, <1>t, <2>2, <2>3, Offered
  <1>5. ASSUME NEW w \in Workers, BroadcastWithSeq(w) PROVE OvertakenInv'
    <2>1. Live(wseq[w]) \in Message
      BY <1>t DEF Live, Message, WorkTypes
    <2> QED BY <1>4, <1>5, <2>1 DEF BroadcastWithSeq
  <1>6. ASSUME NEW w \in Workers, Broadcast(w) PROVE OvertakenInv'
    <2>1. PICK p \in PdsSeqs : Offer(Raw(p))
      BY <1>6 DEF Broadcast
    <2>2. Raw(p) \in Message /\ Raw(p).via = "raw"
      BY FirehoseConstants DEF Raw, Message
    <2> QED BY <1>4, <1>6, <2>1, <2>2 DEF Broadcast
  <1>7. UNCHANGED <<wpc, wseq, published>> => OvertakenInv'
    BY <1>1 DEF Holds
  <1>8. \/ UNCHANGED <<wpc, wseq, published>>
        \/ \E w \in Workers : StoreEvent(w) \/ FinishInsert(w) \/ BroadcastWithSeq(w) \/ Broadcast(w)
    BY DEF Next, Work, Serve, Connect, StartPumps, Loop, Register, Unregister, Dispatch,
           ExitLoop, Stopping, StopCancel, StopCloseConns, Write, WriteMessage, WriteFails,
           WriteClose, Read, ReadFails, ReadEnds, Replay, ReplayQuery, ReplaySend, vars,
           workVars, queueVars
  <1> QED BY <1>2, <1>3, <1>5, <1>6, <1>7, <1>8

\* Workers that draw numbers in one order and broadcast in another disturb the
\* live stream only so far: fewer smaller numbers follow a message than there
\* are workers.
THEOREM NearlyOrdered == Spec => []LiveNearlyOrdered
  <1>1. Init => OvertakenInv
    BY DEF Init, OvertakenInv
  <1>2. Inv /\ OvertakenInv => LiveNearlyOrdered
    <2> SUFFICES ASSUME Inv, OvertakenInv,
                        NEW i \in DOMAIN published, published[i].via = "live"
                 PROVE  Cardinality(Late(i)) < Cardinality(Workers)
      BY DEF LiveNearlyOrdered, Late
    <2> QED BY OvertakenFacts DEF OvertakenInv, OvertakenOf
  <1> QED BY <1>1, <1>2, NextOvertaken, AlwaysInv, PTL DEF Spec

=============================================================================
