-------------------------- MODULE FeedViewerProofs --------------------------
(***************************************************************************)
(* Proofs about FeedViewer: what the page shows, for any number of         *)
(* sockets, any stored events, any page size and however many messages.    *)
(***************************************************************************)
EXTENDS FeedViewer, SequenceTheorems, FiniteSetTheorems, WellFoundedInduction, TLAPS

-----------------------------------------------------------------------------
(* The messages and the page.                                              *)

Entries == {Entry(m) : m \in SentMessages}

LEMMA MessageFacts ==
  ASSUME history \in Histories, NEW m \in SentMessages
  PROVE  m.seq \in Nat /\ Entry(m).seq = m.seq
  <1>1. DOMAIN history \subseteq Nat /\ \A u \in Unstored : u.seq \in Nat
    BY ViewerConstants
  <1> QED BY <1>1 DEF SentMessages, LiveMessage, ReplayedMessage, Entry

\* The new entry stands first, the others follow as far as the page goes.
LEMMA ShownEntries ==
  ASSUME TypeOK, NEW m \in SentMessages
  PROVE  /\ Shown(m) \in Seq(Entries)
         /\ Len(Shown(m)) \in Nat /\ DOMAIN Shown(m) = 1..Len(Shown(m))
         /\ Len(Shown(m)) = Least(Len(feed) + 1, FeedLimit)
         /\ Len(Shown(m)) > 0 /\ Shown(m)[1] = Entry(m)
         /\ \A i \in DOMAIN Shown(m) : i # 1 => i - 1 \in DOMAIN feed /\ Shown(m)[i] = feed[i - 1]
  <1>1. feed \in Seq(Entries) /\ <<Entry(m)>> \in Seq(Entries) /\ Entry(m) \in Entries
    BY DEF TypeOK, Entries
  <1>2. Len(feed) \in Nat /\ DOMAIN feed = 1..Len(feed)
    BY <1>1, LenProperties
  <1> DEFINE page == <<Entry(m)>> \o feed
  <1>3. /\ page \in Seq(Entries) /\ Len(page) = Len(feed) + 1
        /\ page[1] = Entry(m) /\ \A i \in 2..Len(feed) + 1 : page[i] = feed[i - 1]
    <2>1. Len(<<Entry(m)>>) = 1 /\ <<Entry(m)>>[1] = Entry(m)
      OBVIOUS
    <2> QED BY <1>1, <1>2, <2>1, ConcatProperties
  <1> DEFINE n == Least(Len(page), FeedLimit)
  <1>4. n \in 1..Len(page) /\ n <= FeedLimit
    BY <1>2, <1>3, ViewerConstants DEF Least
  <1>5. \A i \in 1..n : page[i] \in Entries
    BY <1>3, <1>4, <1>2, ElementOfSeq
  <1>6. /\ SubSeq(page, 1, n) \in Seq(Entries) /\ Len(SubSeq(page, 1, n)) = n
        /\ \A i \in 1..n : SubSeq(page, 1, n)[i] = page[i]
    <2> HIDE DEF page, n
    <2>1. n \in Int /\ n >= 1
      BY <1>2, <1>3, <1>4
    <2> QED BY <1>5, <2>1, SubSeqProperties
  <1>7. Shown(m) = SubSeq(page, 1, n)
    BY DEF Shown, Trimmed
  <1>8. DOMAIN Shown(m) = 1..n /\ Len(Shown(m)) = n
    BY <1>6, <1>7, LenProperties
  <1>10. n = Least(Len(feed) + 1, FeedLimit)
    BY <1>3
  <1> HIDE DEF page, n
  <1>9. \A i \in 1..n : i # 1 => i - 1 \in DOMAIN feed /\ Shown(m)[i] = feed[i - 1]
    BY <1>2, <1>3, <1>4, <1>6, <1>7
  <1> QED BY <1>2, <1>3, <1>4, <1>6, <1>7, <1>8, <1>9, <1>10

-----------------------------------------------------------------------------
(* The inductive invariant.                                                *)

\* Everything on the page had something to show, and what has been counted is finite.
PageInv ==
  /\ TypeOK /\ NoDuplicates /\ ConnectedReceives
  /\ IsFiniteSet(seenSeqs)
  /\ \A i \in DOMAIN feed : feed[i].content # <<>> \/ feed[i].action = "delete"

LEMMA InitPage == Init => PageInv
  <1> SUFFICES ASSUME Init PROVE PageInv
    OBVIOUS
  <1>1. feed = <<>> /\ feed \in Seq(Entries) /\ Len(feed) = 0 /\ DOMAIN feed = {}
    BY EmptySeq DEF Init
  <1>2. TypeOK
    BY <1>1, ViewerConstants DEF Init, TypeOK, Entries
  <1>3. NoDuplicates
    BY <1>1, FS_EmptySet, ViewerConstants DEF Init, NoDuplicates, Least
  <1> QED BY <1>1, <1>2, <1>3, FS_EmptySet DEF Init, PageInv, ConnectedReceives, Button

\* Clicks and the callbacks of sockets leave the page alone; what they do to the
\* sockets keeps the status honest.
LEMMA SocketsKeepPage ==
  ASSUME PageInv, UNCHANGED <<history, feedVars>>,
         state' \in [Sockets -> {"none", "connecting", "open", "closing", "closed"}],
         ws' \in Sockets \union {NoSocket},
         status' \in {"connected", "connecting", "disconnected"},
         status' = "connected" => \E s \in Sockets : state'[s] = "open"
  PROVE  PageInv'
  <1>1. TypeOK'
    BY DEF PageInv, TypeOK, feedVars, SentMessages, Stored
  <1>2. NoDuplicates'
    BY DEF PageInv, NoDuplicates, feedVars
  <1>3. ConnectedReceives'
    BY DEF ConnectedReceives, Button, PageInv, TypeOK
  <1> QED BY <1>1, <1>2, <1>3 DEF PageInv, feedVars

LEMMA MessageKeepsPage ==
  ASSUME PageInv, NEW s \in Sockets, NEW m \in SentMessages, OnMessage(s, m)
  PROVE  PageInv'
  <1>0. /\ TypeOK /\ NoDuplicates /\ history' = history
        /\ UNCHANGED <<state, ws, status>>
    BY DEF PageInv, OnMessage, socketVars
  <1>1. ConnectedReceives' /\ SentMessages' = SentMessages
    BY <1>0 DEF PageInv, ConnectedReceives, Button, SentMessages, Stored
  <1>2. CASE UNCHANGED feedVars
    BY <1>0, <1>1, <1>2 DEF PageInv, TypeOK, NoDuplicates, feedVars
  <1>3. CASE /\ New(m) /\ HasContent(m)
             /\ seenSeqs' = IF m.seq # 0 THEN seenSeqs \union {m.seq} ELSE seenSeqs
             /\ eventCount' = eventCount + 1
             /\ lastSeq' = m.seq
             /\ feed' = Shown(m)
    <2>1. m.seq \in Nat /\ Entry(m).seq = m.seq
      BY <1>0, MessageFacts DEF TypeOK
    <2>2. /\ feed' \in Seq(Entries) /\ Len(feed') \in Nat /\ DOMAIN feed' = 1..Len(feed')
          /\ Len(feed') = Least(Len(feed) + 1, FeedLimit)
          /\ feed'[1] = Entry(m)
          /\ \A i \in DOMAIN feed' : i # 1 => i - 1 \in DOMAIN feed /\ feed'[i] = feed[i - 1]
      BY <1>0, <1>3, ShownEntries
    <2>3. Len(feed) \in Nat /\ eventCount \in Nat /\ DOMAIN feed = 1..Len(feed)
      BY <1>0, LenProperties DEF TypeOK
    <2>4. TypeOK'
      <3>1. eventCount' \in Nat /\ lastSeq' \in Nat
        BY <1>3, <2>1, <2>3
      <3>2. seenSeqs' \in SUBSET Nat
        BY <1>0, <1>3, <2>1 DEF TypeOK
      <3>3. {Entry(k) : k \in SentMessages}' = Entries
        BY <1>1 DEF Entries
      <3>4. feed' \in Seq({Entry(k) : k \in SentMessages})' /\ Len(feed') <= FeedLimit
        BY <2>2, <2>3, <3>3, ViewerConstants DEF Least
      <3> QED BY <1>0, <3>1, <3>2, <3>4 DEF TypeOK
    <2>5. IsFiniteSet(seenSeqs') /\ Cardinality(seenSeqs') <= eventCount'
      <3>1. IsFiniteSet(seenSeqs) /\ Cardinality(seenSeqs) \in Nat /\ Cardinality(seenSeqs) <= eventCount
        BY <1>0, FS_CardinalityType DEF PageInv, NoDuplicates
      <3>2. CASE m.seq = 0
        <4>1. seenSeqs' = seenSeqs
          BY <1>3, <3>2
        <4>2. IsFiniteSet(seenSeqs') /\ Cardinality(seenSeqs') = Cardinality(seenSeqs)
          BY <3>1, <4>1, Zenon
        <4> QED BY <1>3, <2>3, <3>1, <4>2
      <3>3. CASE m.seq # 0
        <4>1. seenSeqs' = seenSeqs \union {m.seq}
          BY <1>3, <3>3
        <4>2. /\ IsFiniteSet(seenSeqs')
              /\ \/ Cardinality(seenSeqs') = Cardinality(seenSeqs)
                 \/ Cardinality(seenSeqs') = Cardinality(seenSeqs) + 1
          BY <3>1, <4>1, FS_AddElement
        <4> QED BY <1>3, <2>3, <3>1, <4>2
      <3> QED BY <3>2, <3>3
    <2>6. Len(feed') = Least(eventCount', FeedLimit)
      <3>1. Len(feed) = Least(eventCount, FeedLimit)
        BY <1>0 DEF NoDuplicates
      <3> QED BY <1>3, <2>2, <2>3, <3>1, ViewerConstants DEF Least
    <2>7. \A i \in DOMAIN feed : feed[i].seq # 0 => feed[i].seq # m.seq
      BY <1>0, <1>3 DEF NoDuplicates, New
    <2>8. \A i, j \in DOMAIN feed' : feed'[i].seq = feed'[j].seq /\ feed'[i].seq # 0 => i = j
      <3> SUFFICES ASSUME NEW i \in DOMAIN feed', NEW j \in DOMAIN feed',
                          feed'[i].seq = feed'[j].seq, feed'[i].seq # 0
                   PROVE  i = j
        OBVIOUS
      <3>1. CASE i # 1 /\ j # 1
        BY <1>0, <2>2, <2>3, <3>1 DEF NoDuplicates
      <3>2. CASE i = 1 \/ j = 1
        BY <2>1, <2>2, <2>7, <3>2
      <3> QED BY <3>1, <3>2
    <2>9. \A i \in DOMAIN feed' : feed'[i].seq \in seenSeqs' \union {0}
      <3>1. \A i \in DOMAIN feed : feed[i].seq \in seenSeqs \union {0}
        BY <1>0 DEF NoDuplicates
      <3>2. seenSeqs \subseteq seenSeqs' /\ m.seq \in seenSeqs' \union {0}
        BY <1>3
      <3> QED BY <2>1, <2>2, <3>1, <3>2
    <2>10. \A i \in DOMAIN feed' : feed'[i].content # <<>> \/ feed'[i].action = "delete"
      <3>1. Entry(m).content # <<>> \/ Entry(m).action = "delete"
        BY <1>3 DEF Entry, HasContent
      <3>2. \A i \in DOMAIN feed : feed[i].content # <<>> \/ feed[i].action = "delete"
        BY DEF PageInv
      <3> QED BY <2>2, <3>1, <3>2
    <2>11. NoDuplicates'
      BY <2>5, <2>6, <2>8, <2>9 DEF NoDuplicates
    <2> QED BY <1>1, <2>4, <2>5, <2>10, <2>11 DEF PageInv
  <1> QED BY <1>2, <1>3 DEF OnMessage

LEMMA NextPage == PageInv /\ [Next]_vars => PageInv'
  <1> SUFFICES ASSUME PageInv, [Next]_vars PROVE PageInv'
    OBVIOUS
  <1>0. /\ state \in [Sockets -> {"none", "connecting", "open", "closing", "closed"}]
        /\ ws \in Sockets \union {NoSocket} /\ TypeOK
    BY DEF PageInv, TypeOK
  <1>1. \A t \in Sockets :
          Closed(t) \in [Sockets -> {"none", "connecting", "open", "closing", "closed"}]
    BY <1>0 DEF Closed
  <1>2. ASSUME ConnectNew, UNCHANGED <<history, feedVars>> PROVE PageInv'
    <2>1. PICK s \in Sockets :
            /\ state' = [(IF ws # NoSocket THEN Closed(ws) ELSE state) EXCEPT ![s] = "connecting"]
            /\ ws' = s /\ status' = "connecting"
      BY <1>2 DEF ConnectNew
    <2>2. state' \in [Sockets -> {"none", "connecting", "open", "closing", "closed"}]
      BY <1>0, <1>1, <2>1
    <2> QED BY <1>2, <2>1, <2>2, SocketsKeepPage
  <1>3. ASSUME ws # NoSocket, Disconnect, UNCHANGED <<history, feedVars>> PROVE PageInv'
    BY <1>0, <1>1, <1>3, SocketsKeepPage DEF Disconnect
  <1>4. CASE ClickConnect \/ ClickReplay
    BY <1>2, <1>3, <1>4 DEF ClickConnect, ClickReplay
  <1>5. CASE ClickClear
    <2>1. /\ eventCount' = 0 /\ seenSeqs' = {} /\ feed' = <<>> /\ lastSeq' = lastSeq
          /\ UNCHANGED <<history, state, ws, status>>
      BY <1>5 DEF ClickClear, ClearFeed, socketVars
    <2>2. feed' \in Seq(Entries) /\ Len(feed') = 0 /\ DOMAIN feed' = {}
      BY <2>1, EmptySeq
    <2>3. SentMessages' = SentMessages /\ ConnectedReceives'
      BY <2>1 DEF PageInv, ConnectedReceives, Button, SentMessages, Stored
    <2>4. TypeOK'
      BY <1>0, <2>1, <2>2, <2>3, ViewerConstants DEF TypeOK, Entries
    <2>5. NoDuplicates'
      BY <2>1, <2>2, FS_EmptySet, ViewerConstants DEF NoDuplicates, Least
    <2> QED BY <2>1, <2>2, <2>3, <2>4, <2>5, FS_EmptySet DEF PageInv
  <1>6. ASSUME NEW s \in Sockets, OnOpen(s) PROVE PageInv'
    <2>1. state' \in [Sockets -> {"none", "connecting", "open", "closing", "closed"}]
          /\ state'[s] = "open"
      BY <1>0, <1>6 DEF OnOpen
    <2> QED BY <1>0, <1>6, <2>1, SocketsKeepPage DEF OnOpen
  <1>7. ASSUME NEW s \in Sockets, OnClose(s) PROVE PageInv'
    <2>1. state' \in [Sockets -> {"none", "connecting", "open", "closing", "closed"}]
      BY <1>0, <1>7 DEF OnClose
    <2> QED BY <1>7, <2>1, SocketsKeepPage DEF OnClose
  <1>8. CASE UNCHANGED vars
    BY <1>8 DEF vars, socketVars, feedVars, PageInv, TypeOK, NoDuplicates, ConnectedReceives,
       Button, SentMessages, Stored
  <1> QED BY <1>4, <1>5, <1>6, <1>7, <1>8, MessageKeepsPage DEF Next

LEMMA AlwaysPage == Spec => []PageInv
  BY InitPage, NextPage, PTL DEF Spec

-----------------------------------------------------------------------------
(* Live and replayed copies.                                               *)

\* An entry whose number only a stored event has was made of a copy of that event.
LEMMA GenuineCopy ==
  ASSUME PageInv, NEW e \in Genuine
  PROVE  \/ e = Entry(LiveMessage(e.seq, Stored(e.seq)))
         \/ e = Entry(ReplayedMessage(e.seq, Row(Stored(e.seq))))
  <1>1. e \in ToSet(feed) /\ \A u \in Unstored : u.seq # e.seq
    BY DEF Genuine
  <1>2. PICK i \in DOMAIN feed : e = feed[i]
    BY <1>1 DEF ToSet
  <1>3. feed \in Seq(Entries)
    BY DEF PageInv, TypeOK, Entries
  <1>4. feed[i] \in Entries
    BY <1>2, <1>3, LenProperties, ElementOfSeq
  <1>5. PICK m \in SentMessages : e = Entry(m)
    BY <1>2, <1>4 DEF Entries
  <1>6. e.seq = m.seq
    BY <1>5 DEF Entry
  <1>7. ASSUME NEW u \in Unstored PROVE m # LiveMessage(u.seq, Extracted(u.event))
    BY <1>1, <1>6, <1>7 DEF LiveMessage
  <1>8. PICK n \in DOMAIN history : m = LiveMessage(n, Stored(n))
                                   \/ m = ReplayedMessage(n, Row(Stored(n)))
    BY <1>5, <1>7 DEF SentMessages
  <1>9. n = e.seq
    BY <1>6, <1>8 DEF LiveMessage, ReplayedMessage
  <1> QED BY <1>5, <1>8, <1>9

\* The row keeps enough for a replay to name the record's type.
LEMMA TypeSurvives ==
  ASSUME NEW upstream
  PROVE  RowType(Row(Extracted(upstream))) = Extracted(upstream).record_type
  BY DEF RowType, Row, Extracted, TypeOf, NoPath

LEMMA CopyParts ==
  ASSUME NEW n, NEW event
  PROVE  /\ Entry(LiveMessage(n, event)).action = event.action
         /\ Entry(ReplayedMessage(n, Row(event))).content = event.content
  BY DEF Entry, LiveMessage, ReplayedMessage, Row

LEMMA CopiesAlike == PageInv => EitherCopyAlike
  <1> SUFFICES ASSUME PageInv, NEW e \in Genuine,
                      NEW m \in {LiveMessage(e.seq, Stored(e.seq)),
                                 ReplayedMessage(e.seq, Row(Stored(e.seq)))}
               PROVE  e.label = Entry(m).label /\ e.content = Entry(m).content
    BY DEF EitherCopyAlike
  <1> DEFINE event == Stored(e.seq)
  <1>1. RowType(Row(event)) = event.record_type
    BY TypeSurvives DEF Stored
  <1>2. /\ Entry(LiveMessage(e.seq, event)).label = Entry(ReplayedMessage(e.seq, Row(event))).label
        /\ Entry(LiveMessage(e.seq, event)).content = Entry(ReplayedMessage(e.seq, Row(event))).content
    BY <1>1 DEF Entry, LiveMessage, ReplayedMessage, Row
  <1> QED BY <1>2, GenuineCopy

LEMMA CreationsAreNone == PageInv => DeletionsStayDeletions
  <1> SUFFICES ASSUME PageInv, NEW e \in Genuine, e.action = "create"
               PROVE  Head(history[e.seq].ops).action # "delete"
    BY DEF DeletionsStayDeletions
  <1> DEFINE upstream == history[e.seq]
  <1>1. e.content # <<>>
    BY DEF PageInv, Genuine, ToSet
  <1>2. CASE e = Entry(LiveMessage(e.seq, Stored(e.seq)))
    <2>1. Extracted(upstream).action = "create"
      BY <1>2, CopyParts DEF Stored
    <2> QED BY <2>1 DEF Extracted
  <1>3. CASE e = Entry(ReplayedMessage(e.seq, Row(Stored(e.seq))))
    <2>1. Extracted(upstream).content # <<>>
      BY <1>1, <1>3, CopyParts DEF Stored
    <2> QED BY <2>1 DEF Extracted, Leaves
  <1> QED BY <1>2, <1>3, GenuineCopy

-----------------------------------------------------------------------------
(* Flattening and filtering, from the definition of FlattenSeq.            *)

LEMMA LeastNumber ==
  ASSUME NEW S \in SUBSET Nat, S # {}
  PROVE  \E m \in S : \A n \in S : m <= n
  <1> DEFINE Less == {ss \in Nat \X Nat : ss[1] < ss[2]}
  <1>1. IsWellFoundedOn(Less, Nat)
    BY NatLessThanWellFounded DEF OpToRel
  <1>2. PICK m \in S : \A n \in S : ~(<<n, m>> \in Less)
    <2> HIDE DEF Less
    <2> QED BY <1>1, WFMin
  <1>3. \A n \in S : n < m => <<n, m>> \in Less
    OBVIOUS
  <1> HIDE DEF Less
  <1>4. \A n \in S : ~(n < m)
    BY <1>2, <1>3
  <1> QED BY <1>4

\* f holds the concatenations of the first parts of ss, up to the n-th.
Concatenates(f, ss, n) ==
  \A i \in 1..n : f[i] = IF i = 1 THEN ss[i] ELSE f[i - 1] \o ss[i]

LEMMA ConcatenationUnique ==
  ASSUME NEW ss, NEW n \in Nat, NEW f, NEW g,
         Concatenates(f, ss, n), Concatenates(g, ss, n)
  PROVE  \A i \in 1..n : f[i] = g[i]
  <1> DEFINE Bad == {i \in 1..n : f[i] # g[i]}
  <1> SUFFICES ASSUME Bad # {} PROVE FALSE
    OBVIOUS
  <1>1. PICK m \in Bad : \A i \in Bad : m <= i
    <2>1. Bad \in SUBSET Nat
      OBVIOUS
    <2> HIDE DEF Bad
    <2> QED BY <2>1, LeastNumber
  <1>2. m \in 1..n /\ f[m] # g[m]
    OBVIOUS
  <1>3. CASE m = 1
    BY <1>2, <1>3 DEF Concatenates
  <1>4. CASE m # 1
    <2>1. m - 1 \in 1..n /\ m - 1 \notin Bad
      BY <1>1, <1>2, <1>4
    <2>2. f[m - 1] = g[m - 1]
      BY <2>1
    <2> QED BY <1>2, <1>4, <2>2 DEF Concatenates
  <1> QED BY <1>3, <1>4

LEMMA ConcatenationExists ==
  ASSUME NEW T, NEW ss \in Seq(Seq(T)), NEW n \in 1..Len(ss)
  PROVE  \E f \in [1..n -> Seq(T)] : Concatenates(f, ss, n)
  <1> DEFINE Some(m) == \E f \in [1..m -> Seq(T)] : Concatenates(f, ss, m)
             Bad == {m \in 1..n : ~Some(m)}
  <1>0. Len(ss) \in Nat /\ n \in Nat /\ \A i \in 1..n : ss[i] \in Seq(T)
    BY LenProperties, ElementOfSeq
  <1> SUFFICES ASSUME Bad # {} PROVE FALSE
    <2>1. n \in 1..n
      BY <1>0
    <2>2. Some(n)
      <3> HIDE DEF Some
      <3> QED BY <2>1
    <2> QED BY <2>2
  <1>1. PICK m \in Bad : \A i \in Bad : m <= i
    <2>1. Bad \in SUBSET Nat
      BY <1>0
    <2> HIDE DEF Bad
    <2> QED BY <2>1, LeastNumber
  <1>2. m \in 1..n /\ ~Some(m)
    <2> HIDE DEF Some
    <2> QED OBVIOUS
  <1>3. CASE m = 1
    <2>1. [i \in 1..1 |-> ss[1]] \in [1..1 -> Seq(T)]
      BY <1>0, <1>2, <1>3
    <2>2. Concatenates([i \in 1..1 |-> ss[1]], ss, 1)
      BY DEF Concatenates
    <2> QED BY <1>2, <1>3, <2>1, <2>2
  <1>4. CASE m # 1
    <2>1. m - 1 \in 1..n /\ Some(m - 1)
      <3>1. m - 1 \in 1..n /\ ~(m <= m - 1)
        BY <1>0, <1>2, <1>4
      <3>2. m - 1 \notin Bad
        <4> HIDE DEF Bad
        <4> QED BY <1>1, <3>1
      <3> HIDE DEF Some
      <3> QED BY <3>1, <3>2
    <2>2. PICK f \in [1..(m - 1) -> Seq(T)] : Concatenates(f, ss, m - 1)
      BY <2>1
    <2> DEFINE g == [i \in 1..m |-> IF i = m THEN f[m - 1] \o ss[m] ELSE f[i]]
    <2>3. f[m - 1] \o ss[m] \in Seq(T)
      <3>1. f[m - 1] \in Seq(T) /\ ss[m] \in Seq(T)
        BY <1>0, <1>2, <2>1
      <3> QED BY <3>1, ConcatProperties
    <2>4. g \in [1..m -> Seq(T)]
      <3>1. \A i \in 1..m : i # m => f[i] \in Seq(T)
        BY <1>0, <1>2
      <3> QED BY <2>3, <3>1
    <2>5. Concatenates(g, ss, m)
      <3> SUFFICES ASSUME NEW i \in 1..m
                   PROVE  g[i] = IF i = 1 THEN ss[i] ELSE g[i - 1] \o ss[i]
        BY DEF Concatenates
      <3>1. CASE i = m
        <4>1. g[m - 1] = f[m - 1]
          BY <1>0, <1>2, <2>1
        <4> QED BY <1>4, <3>1, <4>1
      <3>2. CASE i # m
        <4>1. i \in 1..(m - 1) /\ g[i] = f[i] /\ (i # 1 => g[i - 1] = f[i - 1])
          BY <1>0, <1>2, <3>2
        <4> QED BY <2>2, <4>1 DEF Concatenates
      <3> QED BY <3>1, <3>2
    <2> HIDE DEF g
    <2> QED BY <1>2, <2>4, <2>5
  <1> QED BY <1>3, <1>4

\* What FlattenSeq computes.
LEMMA FlattenParts ==
  ASSUME NEW T, NEW ss \in Seq(Seq(T)), ss # <<>>
  PROVE  \E f \in [1..Len(ss) -> Seq(T)] :
           Concatenates(f, ss, Len(ss)) /\ FlattenSeq(ss) = f[Len(ss)]
  <1> DEFINE n == Len(ss)
             Solves(g) == g = [i \in 1..n |-> IF i = 1 THEN ss[i] ELSE g[i - 1] \o ss[i]]
             h == CHOOSE g : Solves(g)
  <1>1. n \in Nat /\ n # 0 /\ n \in 1..n
    BY LenProperties, EmptySeq
  <1>2. PICK f \in [1..n -> Seq(T)] : Concatenates(f, ss, n)
    BY <1>1, ConcatenationExists
  <1>3. Solves(f)
    BY <1>2 DEF Concatenates
  <1>4. Solves(h)
    <2> HIDE DEF Solves
    <2> QED BY <1>3
  <1>5. Concatenates(h, ss, n)
    <2> HIDE DEF h
    <2> QED BY <1>4 DEF Concatenates
  <1>6. h[n] = f[n]
    <2> HIDE DEF h
    <2> QED BY <1>1, <1>2, <1>5, ConcatenationUnique
  <1>7. FlattenSeq(ss) = h[n]
    BY <1>1, Zenon DEF FlattenSeq
  <1> QED BY <1>2, <1>6, <1>7

LEMMA FlattenAppend ==
  ASSUME NEW T, NEW ss \in Seq(Seq(T)), NEW t \in Seq(T)
  PROVE  /\ FlattenSeq(ss) \in Seq(T)
         /\ FlattenSeq(Append(ss, t)) = FlattenSeq(ss) \o t
  <1>0. PICK n \in Nat : n = Len(ss)
    BY LenProperties
  <1> DEFINE tt == Append(ss, t)
  <1>1. /\ n \in Nat /\ tt \in Seq(Seq(T)) /\ Len(tt) = n + 1 /\ tt # <<>>
        /\ \A i \in 1..n : tt[i] = ss[i]
        /\ tt[n + 1] = t
    BY <1>0, AppendProperties, LenProperties, EmptySeq
  <1>2. /\ ss = <<>> => n = 0
        /\ ss # <<>> => /\ n # 0
                        /\ \E f \in [1..n -> Seq(T)] :
                             Concatenates(f, ss, n) /\ FlattenSeq(ss) = f[n]
    BY <1>0, FlattenParts, EmptySeq
  <1> HIDE DEF tt
  <1>3. PICK g \in [1..(n + 1) -> Seq(T)] :
          Concatenates(g, tt, n + 1) /\ FlattenSeq(tt) = g[n + 1]
    BY <1>1, FlattenParts
  <1>4. \A i \in 1..(n + 1) : g[i] = IF i = 1 THEN tt[i] ELSE g[i - 1] \o tt[i]
    BY <1>3 DEF Concatenates
  <1>5. CASE ss = <<>>
    <2>1. n = 0 /\ FlattenSeq(ss) = <<>> /\ <<>> \in Seq(T)
      BY <1>2, <1>5, EmptySeq DEF FlattenSeq
    <2>2. FlattenSeq(tt) = t
      BY <1>1, <1>3, <1>4, <2>1
    <2>3. <<>> \o t = t
      BY ConcatEmptySeq
    <2> QED BY <2>1, <2>2, <2>3 DEF tt
  <1>6. CASE ss # <<>>
    <2>1. PICK f \in [1..n -> Seq(T)] : Concatenates(f, ss, n) /\ FlattenSeq(ss) = f[n]
      BY <1>2, <1>6
    <2>2. n \in 1..n /\ n + 1 \in 1..(n + 1) /\ n + 1 # 1 /\ (n + 1) - 1 = n
      BY <1>1, <1>2, <1>6
    <2>3. Concatenates(g, ss, n)
      <3>1. \A i \in 1..n : i \in 1..(n + 1) /\ tt[i] = ss[i]
        BY <1>1
      <3> QED BY <1>4, <3>1 DEF Concatenates
    <2>4. g[n] = f[n]
      <3>1. n \in Nat /\ Concatenates(f, ss, n)
        BY <1>1, <2>1
      <3>2. \A i \in 1..n : g[i] = f[i]
        BY <3>1, <2>3, ConcatenationUnique, SMTT(30)
      <3> QED BY <2>2, <3>2
    <2>5. g[n + 1] = g[n] \o t
      BY <1>1, <1>4, <2>2
    <2>6. f[n] \in Seq(T)
      BY <2>1, <2>2
    <2> QED BY <1>3, <2>1, <2>4, <2>5, <2>6 DEF tt
  <1> QED BY <1>5, <1>6

-----------------------------------------------------------------------------
(* What a job card tells.                                                  *)

\* The words a job card's text is made of.
Labels == {"Job Card", "Type", "Price", "Deadline", "SLA"}
Fields == ToSet(CardOrder)
Words  == Fields \union Labels

LEMMA FewWords ==
  ASSUME NEW x \in Words, NEW y \in Words, NEW z \in Words
  PROVE  /\ <<>> \in Seq(Words) /\ <<x>> \in Seq(Words) /\ <<x, y>> \in Seq(Words)
         /\ <<x, y, z>> \in Seq(Words)
         /\ <<x>> \o <<y>> = <<x, y>> /\ <<x>> \o <<y, z>> = <<x, y, z>>
  <1>1. /\ <<>> \in Seq(Words) /\ <<x>> \in Seq(Words) /\ <<y>> \in Seq(Words)
        /\ <<x, y>> \in Seq(Words) /\ <<y, z>> \in Seq(Words)
    OBVIOUS
  <1>2. <<x, y, z>> \in Seq(Words)
    OBVIOUS
  <1>3. <<x>> \o <<y>> = <<x, y>>
    <2>1. /\ Len(<<x>>) = 1 /\ <<x>>[1] = x /\ Len(<<y>>) = 1 /\ <<y>>[1] = y
          /\ Len(<<x, y>>) = 2 /\ <<x, y>>[1] = x /\ <<x, y>>[2] = y
      OBVIOUS
    <2> DEFINE xy == <<x>> \o <<y>>
    <2>2. xy \in Seq(Words) /\ Len(xy) = 2 /\ xy[1] = x /\ xy[2] = y
      BY <1>1, <2>1, ConcatProperties
    <2> HIDE DEF xy
    <2>3. \A i \in 1..2 : xy[i] = <<x, y>>[i]
      BY <2>1, <2>2
    <2>4. xy = <<x, y>>
      BY <1>1, <2>1, <2>2, <2>3, SeqEqual
    <2> QED BY <2>4 DEF xy
  <1>4. <<x>> \o <<y, z>> = <<x, y, z>>
    <2>1. /\ Len(<<x>>) = 1 /\ <<x>>[1] = x /\ Len(<<y, z>>) = 2 /\ <<y, z>>[1] = y
          /\ <<y, z>>[2] = z /\ Len(<<x, y, z>>) = 3
          /\ <<x, y, z>>[1] = x /\ <<x, y, z>>[2] = y /\ <<x, y, z>>[3] = z
      OBVIOUS
    <2> DEFINE xyz == <<x>> \o <<y, z>>
    <2>2. xyz \in Seq(Words) /\ Len(xyz) = 3 /\ xyz[1] = x /\ xyz[2] = y /\ xyz[3] = z
      BY <1>1, <2>1, ConcatProperties
    <2> HIDE DEF xyz
    <2>3. \A i \in 1..3 : xyz[i] = <<x, y, z>>[i]
      <3>1. \A i \in 1..3 : i = 1 \/ i = 2 \/ i = 3
        OBVIOUS
      <3> QED BY <2>1, <2>2, <3>1
    <2>4. xyz = <<x, y, z>>
      BY <1>2, <2>1, <2>2, <2>3, SeqEqual
    <2> QED BY <2>4 DEF xyz
  <1> QED BY <1>1, <1>2, <1>3, <1>4

Opt(x, in) == IF in THEN <<x>> ELSE <<>>

LEMMA KeptAppend ==
  ASSUME NEW w \in Seq(Words), NEW x \in Words, NEW S
  PROVE  /\ Kept(w, S) \in Seq(Words)
         /\ Kept(Append(w, x), S) = Kept(w, S) \o Opt(x, x \in S)
         /\ Append(w, x) \in Seq(Words)
  <1> DEFINE each(v) == [i \in DOMAIN v |-> IF v[i] \in S THEN <<v[i]>> ELSE <<>>]
  <1>1. PICK n \in Nat : n = Len(w) /\ DOMAIN w = 1..n /\ \A i \in 1..n : w[i] \in Words
    BY LenProperties, ElementOfSeq
  <1>2. /\ Append(w, x) \in Seq(Words) /\ DOMAIN Append(w, x) = 1..(n + 1)
        /\ \A i \in 1..n : Append(w, x)[i] = w[i]
        /\ Append(w, x)[n + 1] = x
    BY <1>1, AppendProperties, LenProperties
  <1>3. Opt(x, x \in S) \in Seq(Words)
    BY FewWords DEF Opt
  <1>4. /\ each(w) \in Seq(Seq(Words)) /\ Len(each(w)) = n
        /\ \A i \in 1..n : each(w)[i] = Opt(w[i], w[i] \in S)
    <2>1. \A i \in 1..n : Opt(w[i], w[i] \in S) \in Seq(Words)
      BY <1>1, FewWords DEF Opt
    <2>2. each(w) = [i \in 1..n |-> Opt(w[i], w[i] \in S)]
      BY <1>1 DEF Opt
    <2>3. each(w) \in Seq(Seq(Words))
      <3> DEFINE elt(i) == Opt(w[i], w[i] \in S)
      <3>1. \A i \in 1..n : elt(i) \in Seq(Words)
        BY <2>1
      <3> HIDE DEF elt
      <3>2. [i \in 1..n |-> elt(i)] \in Seq(Seq(Words))
        BY <3>1, IsASeq
      <3> QED BY <2>2, <3>2 DEF elt
    <2>4. Len(each(w)) = n
      <3>1. DOMAIN each(w) = 1..n
        BY <2>2
      <3> HIDE DEF each
      <3> QED BY <2>3, <3>1, LenProperties
    <2> HIDE DEF each
    <2>5. \A i \in 1..n : each(w)[i] = Opt(w[i], w[i] \in S)
      BY <2>2
    <2> QED BY <2>3, <2>4, <2>5
  <1>5. each(Append(w, x)) = [i \in 1..(n + 1) |-> Opt(Append(w, x)[i], Append(w, x)[i] \in S)]
    BY <1>2 DEF Opt
  <1>6. each(Append(w, x)) = Append(each(w), Opt(x, x \in S))
    <2> DEFINE one == Append(each(w), Opt(x, x \in S))
               other == [i \in 1..(n + 1) |-> Opt(Append(w, x)[i], Append(w, x)[i] \in S)]
    <2>1. /\ one \in Seq(Seq(Words)) /\ Len(one) = n + 1
          /\ \A i \in 1..n : one[i] = Opt(w[i], w[i] \in S)
          /\ one[n + 1] = Opt(x, x \in S)
      <3> HIDE DEF each
      <3> QED BY <1>3, <1>4, AppendProperties
    <2>2. DOMAIN one = 1..(n + 1) /\ one = [i \in 1..(n + 1) |-> one[i]]
      <3> HIDE DEF one
      <3> QED BY <2>1, LenProperties
    <2>3. \A i \in 1..(n + 1) : one[i] = Opt(Append(w, x)[i], Append(w, x)[i] \in S)
      <3> HIDE DEF one
      <3>1. \A i \in 1..(n + 1) : i \in 1..n \/ i = n + 1
        OBVIOUS
      <3> QED BY <1>2, <2>1, <3>1
    <2> HIDE DEF one
    <2> QED BY <1>5, <2>2, <2>3
  <1> HIDE DEF each
  <1>7. /\ FlattenSeq(each(w)) \in Seq(Words)
        /\ FlattenSeq(each(Append(w, x))) = FlattenSeq(each(w)) \o Opt(x, x \in S)
    BY <1>3, <1>4, <1>6, FlattenAppend
  <1> QED BY <1>2, <1>7 DEF Kept, each

LEMMA KeptNone ==
  ASSUME NEW S
  PROVE  Kept(<<>>, S) = <<>>
  <1>1. <<>> = [i \in DOMAIN <<>> |-> IF <<>>[i] \in S THEN << <<>>[i] >> ELSE <<>>]
    OBVIOUS
  <1> QED BY <1>1 DEF Kept, FlattenSeq

\* A text whose words, of those in S, are the ones in said.
Tells(text, S, said) ==
  /\ text \in Seq(Seq(Words))
  /\ FlattenSeq(text) \in Seq(Words)
  /\ Kept(FlattenSeq(text), S) = said /\ said \in Seq(Words)

LEMMA TellsNoMore ==
  ASSUME NEW text, NEW S, NEW said, Tells(text, S, said), NEW words
  PROVE  Tells(text \o Piece(FALSE, words), S, said)
  BY ConcatEmptySeq DEF Tells, Piece

\* One more piece, with the words it is made of: the first of them may be the
\* document's own.
LEMMA TellsPiece ==
  ASSUME NEW text, NEW S, NEW said, Tells(text, S, said),
         NEW l \in Words \ S, NEW x \in Words \intersect S, NEW y \in Words \intersect S
  PROVE  /\ Tells(text \o <<<<l>>>>, S, said)
         /\ Tells(text \o <<<<x>>>>, S, said \o <<x>>)
         /\ Tells(text \o <<<<l, x>>>>, S, said \o <<x>>)
         /\ Tells(text \o <<<<l, x, y>>>>, S, said \o <<x, y>>)
  <1> DEFINE w == FlattenSeq(text)
  <1>1. text \in Seq(Seq(Words)) /\ w \in Seq(Words) /\ Kept(w, S) = said /\ said \in Seq(Words)
    BY DEF Tells
  <1>2. ASSUME NEW words \in Seq(Words)
        PROVE  /\ text \o <<words>> \in Seq(Seq(Words))
               /\ FlattenSeq(text \o <<words>>) = w \o words
               /\ w \o words \in Seq(Words)
    <2>1. text \o <<words>> = Append(text, words) /\ Append(text, words) \in Seq(Seq(Words))
      BY <1>1, AppendIsConcat, AppendProperties
    <2>2. FlattenSeq(Append(text, words)) = w \o words
      BY <1>1, FlattenAppend
    <2> QED BY <1>1, <1>2, <2>1, <2>2, ConcatProperties
  <1> HIDE DEF w
  <1>3. /\ <<x>> \in Seq(Words) /\ <<l>> \in Seq(Words) /\ <<l, x>> \in Seq(Words) /\ <<l, x, y>> \in Seq(Words)
        /\ <<x, y>> \in Seq(Words) /\ <<y>> \in Seq(Words) /\ <<x>> \o <<y>> = <<x, y>>
    BY FewWords
  <1>4. /\ w \o <<x>> = Append(w, x) /\ w \o <<l>> = Append(w, l)
        /\ w \o <<l, x>> = Append(Append(w, l), x)
        /\ w \o <<l, x, y>> = Append(Append(Append(w, l), x), y)
    BY <1>1, <1>3
  <1>5. Kept(Append(w, x), S) = said \o <<x>>
    BY <1>1, KeptAppend DEF Opt
  <1>6. Append(w, l) \in Seq(Words) /\ Kept(Append(w, l), S) = said
    <2>1. Append(w, l) \in Seq(Words) /\ Kept(Append(w, l), S) = said \o <<>>
      BY <1>1, KeptAppend DEF Opt
    <2> QED BY <1>1, <2>1, ConcatEmptySeq
  <1>7. Append(Append(w, l), x) \in Seq(Words) /\ Kept(Append(Append(w, l), x), S) = said \o <<x>>
    BY <1>6, KeptAppend DEF Opt
  <1>8. Kept(Append(Append(Append(w, l), x), y), S) = said \o <<x, y>>
    <2>1. Kept(Append(Append(Append(w, l), x), y), S) = (said \o <<x>>) \o <<y>>
      <3> DEFINE v == Append(Append(w, l), x)
      <3>1. v \in Seq(Words) /\ Kept(v, S) = said \o <<x>>
        BY <1>7
      <3> HIDE DEF v
      <3>2. Kept(Append(v, y), S) = (said \o <<x>>) \o <<y>>
        <4>1. Kept(Append(v, y), S) = Kept(v, S) \o Opt(y, y \in S)
          BY <3>1, KeptAppend
        <4> QED BY <3>1, <4>1 DEF Opt
      <3> QED BY <3>2 DEF v
    <2>2. (said \o <<x>>) \o <<y>> = said \o (<<x>> \o <<y>>) /\ <<x>> \o <<y>> = <<x, y>>
      BY <1>1, <1>3, ConcatAssociative
    <2> QED BY <2>1, <2>2
  <1>9. said \o <<x>> \in Seq(Words) /\ said \o <<x, y>> \in Seq(Words)
    BY <1>1, <1>3, ConcatProperties
  <1> QED BY <1>1, <1>2, <1>3, <1>4, <1>5, <1>6, <1>7, <1>8, <1>9 DEF Tells, w

\* A piece that is there or not tells a field or not.
LEMMA TellsOpt ==
  ASSUME NEW text, NEW S, NEW said, Tells(text, S, said), NEW in \in BOOLEAN,
         NEW l \in Words \ S, NEW x \in Words \intersect S
  PROVE  /\ Tells(text \o Piece(in, <<x>>), S, said \o Opt(x, in))
         /\ Tells(text \o Piece(in, <<l, x>>), S, said \o Opt(x, in))
  <1>1. CASE in
    BY <1>1, TellsPiece DEF Piece, Opt
  <1>2. CASE ~in
    <2>1. said \o <<>> = said
      BY ConcatEmptySeq DEF Tells
    <2> QED BY <1>2, <2>1, TellsNoMore DEF Opt
  <1> QED BY <1>1, <1>2

Told(record) ==
  {f \in DOMAIN record : f = "pricing.currency" => "pricing.amount" \in DOMAIN record}

LEMMA FieldNames ==
  /\ Fields = {"taskType", "description", "pricing.amount", "pricing.currency", "deadline",
               "sla.maxResponseTime", "sla.availability"}
  /\ Fields \subseteq Words
  /\ Labels = Words \ Fields
  <1>1. Fields = {"taskType", "description", "pricing.amount", "pricing.currency", "deadline",
                  "sla.maxResponseTime", "sla.availability"}
    <2>1. /\ DOMAIN CardOrder = 1..8
          /\ CardOrder[1] = "taskType" /\ CardOrder[2] = "description"
          /\ CardOrder[3] = "taskType" /\ CardOrder[4] = "pricing.amount"
          /\ CardOrder[5] = "pricing.currency" /\ CardOrder[6] = "deadline"
          /\ CardOrder[7] = "sla.maxResponseTime" /\ CardOrder[8] = "sla.availability"
      BY DEF CardOrder
    <2>2. \A i \in 1..8 : i \in {1, 2, 3, 4, 5, 6, 7, 8}
      OBVIOUS
    <2>3. {1, 2, 3, 4, 5, 6, 7, 8} \subseteq 1..8
      OBVIOUS
    <2>4. ASSUME NEW f \in Fields
          PROVE  f \in {"taskType", "description", "pricing.amount", "pricing.currency",
                        "deadline", "sla.maxResponseTime", "sla.availability"}
      BY <2>1, <2>2 DEF Fields, ToSet
    <2>5. {"taskType", "description", "pricing.amount", "pricing.currency", "deadline",
           "sla.maxResponseTime", "sla.availability"} \subseteq Fields
      <3>1. \A i \in {1, 2, 3, 4, 5, 6, 7, 8} : CardOrder[i] \in Fields
        BY <2>1, <2>3 DEF Fields, ToSet
      <3> QED BY <2>1, <3>1
    <2> QED BY <2>4, <2>5
  <1>2. Labels \intersect Fields = {}
    BY <1>1 DEF Labels
  <1> QED BY <1>1, <1>2 DEF Words

\* In a card with the lexicon's types each field that is there can be read.
LEMMA CardReads ==
  ASSUME NEW record, IsCard(record)
  PROVE  /\ \A f \in Fields \ {"pricing.amount"} : IsText(record, f) <=> f \in DOMAIN record
         /\ Is(record, "pricing.amount", AmountTypes) <=> "pricing.amount" \in DOMAIN record
  <1>1. AmountTypes = {"float64", "uint64", "int64"}
    BY DEF AmountTypes, Nested, ByString
  <1> QED BY <1>1, FieldNames DEF IsCard, IsText, Is, Fields

LEMMA TellsPrice ==
  ASSUME NEW record, IsCard(record), NEW text, NEW said, Tells(text, Fields, said)
  PROVE  Tells(text \o Price(record), Fields,
               (said \o Opt("pricing.amount", "pricing.amount" \in Told(record)))
                  \o Opt("pricing.currency", "pricing.currency" \in Told(record)))
  <1> DEFINE a == "pricing.amount" \in DOMAIN record
             c == "pricing.currency" \in DOMAIN record
             opta == Opt("pricing.amount", a)
             optc == Opt("pricing.currency", a /\ c)
  <1>0. /\ a \in BOOLEAN /\ c \in BOOLEAN
        /\ "pricing.amount" \in Told(record) <=> a
        /\ "pricing.currency" \in Told(record) <=> a /\ c
        /\ Is(record, "pricing.amount", AmountTypes) <=> a
        /\ IsText(record, "pricing.currency") <=> c
    <2>1. IsText(record, "pricing.currency") <=> c
      BY CardReads, FieldNames
    <2>2. Is(record, "pricing.amount", AmountTypes) <=> a
      BY CardReads
    <2> QED BY <2>1, <2>2 DEF Told
  <1>1. /\ "Price" \in Words \ Fields /\ "pricing.amount" \in Words \intersect Fields
        /\ "pricing.currency" \in Words \intersect Fields
    BY FieldNames DEF Labels
  <1>2. said \in Seq(Words) /\ text \in Seq(Seq(Words))
    BY DEF Tells
  <1>3. Price(record) = Piece(a /\ c, <<"Price", "pricing.amount", "pricing.currency">>)
                          \o Piece(a /\ ~c, <<"Price", "pricing.amount">>)
    BY <1>0 DEF Price
  <1>4. \A p \in Seq(Seq(Words)) : p \o <<>> = p /\ <<>> \o p = p
    BY ConcatEmptySeq
  <1>5. \A p \in Seq(Words) : p \o <<>> = p
    BY ConcatEmptySeq
  <1>6. /\ <<<<"Price", "pricing.amount", "pricing.currency">>>> \in Seq(Seq(Words))
        /\ <<<<"Price", "pricing.amount">>>> \in Seq(Seq(Words)) /\ <<>> \in Seq(Seq(Words))
    <2>1. /\ <<"Price", "pricing.amount", "pricing.currency">> \in Seq(Words)
          /\ <<"Price", "pricing.amount">> \in Seq(Words)
      BY <1>1, FewWords
    <2> QED BY <2>1
  <1>7. CASE a /\ c
    <2>1. Price(record) = <<<<"Price", "pricing.amount", "pricing.currency">>>>
      BY <1>3, <1>4, <1>6, <1>7 DEF Piece
    <2>2. Tells(text \o Price(record), Fields, said \o <<"pricing.amount", "pricing.currency">>)
      BY <1>1, <2>1, TellsPiece
    <2>3. (said \o <<"pricing.amount">>) \o <<"pricing.currency">>
            = said \o <<"pricing.amount", "pricing.currency">>
      BY <1>1, <1>2, FewWords, ConcatAssociative
    <2> QED BY <1>0, <1>7, <2>2, <2>3 DEF Opt
  <1>8. CASE a /\ ~c
    <2>1. Price(record) = <<<<"Price", "pricing.amount">>>>
      BY <1>3, <1>4, <1>6, <1>8 DEF Piece
    <2>2. Tells(text \o Price(record), Fields, said \o <<"pricing.amount">>)
      BY <1>1, <2>1, TellsPiece
    <2>3. (said \o <<"pricing.amount">>) \o <<>> = said \o <<"pricing.amount">>
      BY <1>5, <2>2 DEF Tells
    <2> QED BY <1>0, <1>8, <2>2, <2>3 DEF Opt
  <1>9. CASE ~a
    <2>1. Price(record) = <<>>
      BY <1>3, <1>4, <1>6, <1>9 DEF Piece
    <2>2. text \o Price(record) = text /\ (said \o <<>>) \o <<>> = said
      BY <1>2, <1>4, <1>5, <2>1
    <2> QED BY <1>0, <1>9, <2>2 DEF Opt
  <1> QED BY <1>7, <1>8, <1>9

LEMMA TellsSla ==
  ASSUME NEW record, IsCard(record), NEW text, NEW said, Tells(text, Fields, said)
  PROVE  Tells(text \o Sla(record), Fields,
               (said \o Opt("sla.maxResponseTime", "sla.maxResponseTime" \in Told(record)))
                  \o Opt("sla.availability", "sla.availability" \in Told(record)))
  <1> DEFINE m == "sla.maxResponseTime" \in DOMAIN record
             v == "sla.availability" \in DOMAIN record
             terms == Opt("sla.maxResponseTime", m) \o Opt("sla.availability", v)
  <1>0. /\ m \in BOOLEAN /\ v \in BOOLEAN
        /\ "sla.maxResponseTime" \in Told(record) <=> m
        /\ "sla.availability" \in Told(record) <=> v
        /\ IsText(record, "sla.maxResponseTime") <=> m
        /\ IsText(record, "sla.availability") <=> v
    <2>1. IsText(record, "sla.maxResponseTime") <=> m
      BY CardReads, FieldNames
    <2>2. IsText(record, "sla.availability") <=> v
      BY CardReads, FieldNames
    <2> QED BY <2>1, <2>2 DEF Told
  <1>1. /\ "SLA" \in Words \ Fields /\ "sla.maxResponseTime" \in Words \intersect Fields
        /\ "sla.availability" \in Words \intersect Fields
    BY FieldNames DEF Labels
  <1>2. said \in Seq(Words) /\ text \in Seq(Seq(Words))
    BY DEF Tells
  <1>3. Sla(record) = Piece(terms # <<>>, <<"SLA">> \o terms)
    BY <1>0 DEF Sla, Piece, Opt
  <1>4. \A p \in Seq(Words) : p \o <<>> = p /\ <<>> \o p = p
    BY ConcatEmptySeq
  <1>5. /\ <<"sla.maxResponseTime">> \in Seq(Words) /\ <<"sla.availability">> \in Seq(Words)
        /\ <<>> \in Seq(Words) /\ <<"SLA">> \in Seq(Words)
        /\ <<"sla.maxResponseTime">> # <<>> /\ <<"sla.availability">> # <<>>
        /\ <<"sla.maxResponseTime", "sla.availability">> # <<>>
        /\ <<"sla.maxResponseTime">> \o <<"sla.availability">>
             = <<"sla.maxResponseTime", "sla.availability">>
    BY <1>1, FewWords
  <1>6. CASE m /\ v
    <2>1. terms = <<"sla.maxResponseTime", "sla.availability">>
      BY <1>5, <1>6 DEF Opt
    <2>2. <<"SLA">> \o <<"sla.maxResponseTime", "sla.availability">>
            = <<"SLA", "sla.maxResponseTime", "sla.availability">>
      BY <1>1, FewWords
    <2>3. Sla(record) = <<<<"SLA", "sla.maxResponseTime", "sla.availability">>>>
      BY <1>3, <1>5, <2>1, <2>2 DEF Piece
    <2>4. Tells(text \o Sla(record), Fields,
                said \o <<"sla.maxResponseTime", "sla.availability">>)
      BY <1>1, <2>3, TellsPiece
    <2>5. (said \o <<"sla.maxResponseTime">>) \o <<"sla.availability">>
            = said \o <<"sla.maxResponseTime", "sla.availability">>
      BY <1>2, <1>5, ConcatAssociative
    <2> QED BY <1>0, <1>6, <2>4, <2>5 DEF Opt
  <1>7. CASE m /\ ~v
    <2>1. terms = <<"sla.maxResponseTime">>
      BY <1>4, <1>5, <1>7 DEF Opt
    <2>2. Sla(record) = <<<<"SLA", "sla.maxResponseTime">>>>
      BY <1>1, <1>3, <1>5, <2>1, FewWords DEF Piece
    <2>3. Tells(text \o Sla(record), Fields, said \o <<"sla.maxResponseTime">>)
      BY <1>1, <2>2, TellsPiece
    <2>4. (said \o <<"sla.maxResponseTime">>) \o <<>> = said \o <<"sla.maxResponseTime">>
      BY <1>4, <2>3 DEF Tells
    <2> QED BY <1>0, <1>7, <2>3, <2>4 DEF Opt
  <1>8. CASE ~m /\ v
    <2>1. terms = <<"sla.availability">>
      BY <1>4, <1>5, <1>8 DEF Opt
    <2>2. Sla(record) = <<<<"SLA", "sla.availability">>>>
      BY <1>1, <1>3, <1>5, <2>1, FewWords DEF Piece
    <2>3. Tells(text \o Sla(record), Fields, said \o <<"sla.availability">>)
      BY <1>1, <2>2, TellsPiece
    <2>4. said \o <<>> = said
      BY <1>2, <1>4
    <2> QED BY <1>0, <1>8, <2>3, <2>4 DEF Opt
  <1>9. CASE ~m /\ ~v
    <2>1. terms = <<>>
      BY <1>4, <1>5, <1>9 DEF Opt
    <2>2. Sla(record) = <<>>
      BY <1>3, <2>1 DEF Piece
    <2>3. text \o Sla(record) = text /\ (said \o <<>>) \o <<>> = said
      BY <1>2, <1>4, <2>2, ConcatEmptySeq
    <2> QED BY <1>0, <1>9, <2>3 DEF Opt
  <1> QED BY <1>6, <1>7, <1>8, <1>9

\* The parts of the documented order that are in T.
LEMMA KeptOrder ==
  ASSUME NEW T
  PROVE  Kept(CardOrder, T) =
           ((((((Opt("taskType", "taskType" \in T)
             \o Opt("description", "description" \in T))
             \o Opt("taskType", "taskType" \in T))
             \o Opt("pricing.amount", "pricing.amount" \in T))
             \o Opt("pricing.currency", "pricing.currency" \in T))
             \o Opt("deadline", "deadline" \in T))
             \o Opt("sla.maxResponseTime", "sla.maxResponseTime" \in T))
             \o Opt("sla.availability", "sla.availability" \in T)
  <1> DEFINE w1 == Append(<<>>, "taskType")
             w2 == Append(w1, "description")
             w3 == Append(w2, "taskType")
             w4 == Append(w3, "pricing.amount")
             w5 == Append(w4, "pricing.currency")
             w6 == Append(w5, "deadline")
             w7 == Append(w6, "sla.maxResponseTime")
             w8 == Append(w7, "sla.availability")
  <1>0. CardOrder = w8
    BY SMTT(30) DEF CardOrder
  <1>1. \A w \in Seq(Words), x \in Fields :
          /\ Append(w, x) \in Seq(Words)
          /\ Kept(Append(w, x), T) = Kept(w, T) \o Opt(x, x \in T)
    <2>1. \A x \in Fields : x \in Words
      BY FieldNames
    <2> QED BY <2>1, KeptAppend
  <1>2. /\ "taskType" \in Fields /\ "description" \in Fields /\ "pricing.amount" \in Fields
        /\ "pricing.currency" \in Fields /\ "deadline" \in Fields
        /\ "sla.maxResponseTime" \in Fields /\ "sla.availability" \in Fields
    BY FieldNames
  <1>3. /\ w1 \in Seq(Words)
        /\ Kept(w1, T) = Opt("taskType", "taskType" \in T)
    <2>1. <<>> \in Seq(Words)
      BY EmptySeq
    <2>2. /\ w1 \in Seq(Words)
          /\ Kept(w1, T) = <<>> \o Opt("taskType", "taskType" \in T)
      BY <1>1, <1>2, <2>1, KeptNone
    <2>3. Opt("taskType", "taskType" \in T) \in Seq(Words)
      BY <1>2, FieldNames, FewWords DEF Opt
    <2> QED BY <2>2, <2>3, ConcatEmptySeq
  <1> HIDE DEF w1, w2, w3, w4, w5, w6, w7, w8
  <1>4. /\ w2 \in Seq(Words)
        /\ Kept(w2, T) = Kept(w1, T) \o Opt("description", "description" \in T)
    BY <1>1, <1>2, <1>3 DEF w2
  <1>5. /\ w3 \in Seq(Words)
        /\ Kept(w3, T) = Kept(w2, T) \o Opt("taskType", "taskType" \in T)
    BY <1>1, <1>2, <1>4 DEF w3
  <1>6. /\ w4 \in Seq(Words)
        /\ Kept(w4, T) = Kept(w3, T) \o Opt("pricing.amount", "pricing.amount" \in T)
    BY <1>1, <1>2, <1>5 DEF w4
  <1>7. /\ w5 \in Seq(Words)
        /\ Kept(w5, T) = Kept(w4, T) \o Opt("pricing.currency", "pricing.currency" \in T)
    BY <1>1, <1>2, <1>6 DEF w5
  <1>8. /\ w6 \in Seq(Words)
        /\ Kept(w6, T) = Kept(w5, T) \o Opt("deadline", "deadline" \in T)
    BY <1>1, <1>2, <1>7 DEF w6
  <1>9. /\ w7 \in Seq(Words)
        /\ Kept(w7, T) = Kept(w6, T) \o Opt("sla.maxResponseTime", "sla.maxResponseTime" \in T)
    BY <1>1, <1>2, <1>8 DEF w7
  <1>10. Kept(w8, T) = Kept(w7, T) \o Opt("sla.availability", "sla.availability" \in T)
    BY <1>1, <1>2, <1>9 DEF w8
  <1> QED BY <1>0, <1>3, <1>4, <1>5, <1>6, <1>7, <1>8, <1>9, <1>10

\* The text of a job card tells what its record has, in the documented order.
LEMMA CardTells ==
  ASSUME NEW record, IsCard(record)
  PROVE  Kept(FlattenSeq(JobCard(record)), Fields) = Kept(CardOrder, Told(record))
  <1> DEFINE typed == IsText(record, "taskType")
             O(f) == Opt(f, f \in Told(record))
             t1 == <<IF typed THEN <<"Job Card", "taskType">> ELSE <<"Job Card">>>>
             t2 == t1 \o Piece(IsText(record, "description"), <<"description">>)
             t3 == t2 \o Piece(typed, <<"Type", "taskType">>)
             t4 == t3 \o Price(record)
             t5 == t4 \o Piece(IsText(record, "deadline"), <<"Deadline", "deadline">>)
  <1>1. JobCard(record) = t5 \o Sla(record)
    BY DEF JobCard
  <1>2. \A f \in {"taskType", "description", "deadline"} :
          /\ IsText(record, f) \in BOOLEAN /\ (IsText(record, f) <=> f \in Told(record))
          /\ Opt(f, IsText(record, f)) = O(f)
          /\ f \in Words \intersect Fields
    <2>1. \A f \in {"taskType", "description", "deadline"} :
            f \in Fields \ {"pricing.amount"} /\ f # "pricing.currency" /\ f \in Words
      BY FieldNames
    <2>2. \A f \in {"taskType", "description", "deadline"} :
            IsText(record, f) \in BOOLEAN /\ (IsText(record, f) <=> f \in Told(record))
      BY <2>1, CardReads DEF Told, IsText, Is
    <2>3. \A f \in {"taskType", "description", "deadline"} : Opt(f, IsText(record, f)) = O(f)
      BY <2>2 DEF Opt
    <2> QED BY <2>1, <2>2, <2>3
  <1>3. /\ "Job Card" \in Words \ Fields /\ "Type" \in Words \ Fields
        /\ "Deadline" \in Words \ Fields
    BY FieldNames DEF Labels
  <1>4. Tells(t1, Fields, O("taskType"))
    <2>1. Tells(<<>>, Fields, <<>>)
      <3>1. <<>> \in Seq(Seq(Words)) /\ <<>> \in Seq(Words) /\ FlattenSeq(<<>>) = <<>>
        BY EmptySeq DEF FlattenSeq
      <3> QED BY <3>1, KeptNone DEF Tells
    <2>2. Tells(<<>> \o Piece(TRUE, <<"Job Card", "taskType">>), Fields, <<>> \o <<"taskType">>)
      BY <1>2, <1>3, <2>1, TellsOpt DEF Opt
    <2>3. Tells(<<>> \o <<<<"Job Card">>>>, Fields, <<>>)
      BY <1>2, <1>3, <2>1, TellsPiece
    <2>4. /\ <<>> \o <<"taskType">> = <<"taskType">>
          /\ <<>> \o <<<<"Job Card">>>> = <<<<"Job Card">>>>
          /\ <<>> \o <<<<"Job Card", "taskType">>>> = <<<<"Job Card", "taskType">>>>
      OBVIOUS
    <2>5. CASE typed
      BY <1>2, <2>2, <2>4, <2>5 DEF Opt, Piece
    <2>6. CASE ~typed
      BY <1>2, <2>3, <2>4, <2>6 DEF Opt
    <2> QED BY <2>5, <2>6
  <1> HIDE DEF t1
  <1>5. Tells(t2, Fields, O("taskType") \o O("description"))
    <2>1. Tells(t2, Fields, O("taskType") \o Opt("description", IsText(record, "description")))
      BY <1>2, <1>3, <1>4, TellsOpt
    <2> QED BY <1>2, <2>1
  <1> HIDE DEF t2
  <1>6. Tells(t3, Fields, (O("taskType") \o O("description")) \o O("taskType"))
    <2>1. Tells(t3, Fields, (O("taskType") \o O("description")) \o Opt("taskType", typed))
      BY <1>2, <1>3, <1>5, TellsOpt
    <2> QED BY <1>2, <2>1
  <1> HIDE DEF t3
  <1>7. Tells(t4, Fields, (((O("taskType") \o O("description")) \o O("taskType"))
                             \o O("pricing.amount")) \o O("pricing.currency"))
    BY <1>6, TellsPrice
  <1> HIDE DEF t4
  <1>8. Tells(t5, Fields, ((((O("taskType") \o O("description")) \o O("taskType"))
                              \o O("pricing.amount")) \o O("pricing.currency"))
                            \o O("deadline"))
    <2>1. Tells(t5, Fields, ((((O("taskType") \o O("description")) \o O("taskType"))
                                \o O("pricing.amount")) \o O("pricing.currency"))
                              \o Opt("deadline", IsText(record, "deadline")))
      BY <1>2, <1>3, <1>7, TellsOpt
    <2> QED BY <1>2, <2>1
  <1> HIDE DEF t5
  <1>9. Tells(t5 \o Sla(record), Fields,
              ((((((O("taskType") \o O("description")) \o O("taskType"))
                    \o O("pricing.amount")) \o O("pricing.currency")) \o O("deadline"))
                    \o O("sla.maxResponseTime")) \o O("sla.availability"))
    BY <1>8, TellsSla
  <1> QED BY <1>1, <1>9, KeptOrder DEF Tells

LEMMA CardsOnPage == PageInv => CardsToldInFull
  <1> SUFFICES ASSUME PageInv, NEW e \in Genuine, e.label = "jobCard", e.action # "delete",
                      IsCard(Head(history[e.seq].ops).record)
               PROVE  Kept(FlattenSeq(e.content), ToSet(CardOrder))
                        = Kept(CardOrder, Told(Head(history[e.seq].ops).record))
    BY DEF CardsToldInFull, Told
  <1> DEFINE upstream == history[e.seq]
             op == Head(upstream.ops)
  <1>1. e.content # <<>>
    BY DEF PageInv, Genuine, ToSet
  <1>2. IsEvent(upstream)
    BY ViewerConstants DEF Genuine, PageInv, TypeOK
  <1>3. /\ e.label = Entry(LiveMessage(e.seq, Stored(e.seq))).label
        /\ e.content = Entry(LiveMessage(e.seq, Stored(e.seq))).content
    BY CopiesAlike DEF EitherCopyAlike
  <1>4. /\ e.content = Extracted(upstream).content
        /\ \/ e.label = Extracted(upstream).record_type
           \/ e.label = Extracted(upstream).type
    BY <1>3 DEF Stored, Entry, LiveMessage
  <1>5. Extracted(upstream).type # "jobCard"
    BY <1>2 DEF Extracted, IsEvent
  <1>6. /\ Extracted(upstream).content = RecordContent(op.record, TypeOf(op.path))
        /\ Extracted(upstream).record_type = TypeOf(op.path)
    BY <1>1, <1>4 DEF Extracted
  <1>7. e.content = JobCard(op.record)
    BY <1>4, <1>5, <1>6 DEF RecordContent
  <1> QED BY <1>7, CardTells DEF Fields

-----------------------------------------------------------------------------

\* Every variable of the page keeps its type, and the page never grows beyond its
\* limit.
THEOREM PageTypes == Spec => []TypeOK
  <1>1. PageInv => TypeOK
    BY DEF PageInv
  <1> QED BY AlwaysPage, <1>1, PTL

\* The page shows no numbered event twice, and it shows exactly as many events as it
\* has counted since it was cleared, up to its limit, whatever its sockets deliver.
THEOREM ShownOnce == Spec => []NoDuplicates
  <1>1. PageInv => NoDuplicates
    BY DEF PageInv
  <1> QED BY AlwaysPage, <1>1, PTL

\* While the page says that it is connected, some socket is open.
THEOREM ConnectedIsOpen == Spec => []ConnectedReceives
  <1>1. PageInv => ConnectedReceives
    BY DEF PageInv
  <1> QED BY AlwaysPage, <1>1, PTL

\* Whichever copy of an event comes first, the page shows the same of it.
THEOREM SameFromEitherCopy == Spec => []EitherCopyAlike
  BY AlwaysPage, CopiesAlike, PTL

\* A job card on the page tells every field of its record, in the documented order,
\* whatever number type the decoder made of its amount.
THEOREM CardsInFull == Spec => []CardsToldInFull
  BY AlwaysPage, CardsOnPage, PTL

\* The page never shows a deletion as a creation.
THEOREM DeletionsNeverCreate == Spec => []DeletionsStayDeletions
  BY AlwaysPage, CreationsAreNone, PTL

=============================================================================
