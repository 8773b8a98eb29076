----------------------------- MODULE FeedProofs -----------------------------
(***************************************************************************)
(* Proofs about Feed, for any number of subscribers and rows: what a       *)
(* subscriber may rely on follows from the promise.                        *)
(***************************************************************************)
EXTENDS Feed, SequenceTheorems, TLAPS

FeedTypes ==
  /\ rows \in SUBSET Nat
  /\ orphaned \in SUBSET rows
  /\ announced \in SUBSET Message
  /\ withheld \in SUBSET Message
  /\ place \in [Clients -> {"away", "online", "gone"}]
  /\ since \in [Clients -> Cursors \union {NoCursor}]
  /\ scan \in [Clients -> {"none", "running", "done", "stopped"}]
  /\ at \in [Clients -> Int]
  /\ got \in [Clients -> Seq(Message)]
  /\ missed \in [Clients -> SUBSET Message]

\* Who has not joined has nothing yet; who scans has asked for a cursor
\* and is beyond it.
JoinInv ==
  \A c \in Clients : /\ place[c] = "away" => got[c] = <<>> /\ scan[c] = "none"
                     /\ scan[c] # "none" => since[c] \in Cursors
                     /\ scan[c] = "running" => since[c] <= at[c]

\* Only a committed row is announced or withheld, and only what was announced
\* reaches a subscriber live.
NewsInv ==
  /\ \A s \in Nat : Live(s) \in announced \union withheld => s \in rows
  /\ \A c \in Clients : \A i \in DOMAIN got[c] :
       got[c][i].via = "live" => got[c][i] \in announced

LEMMA Appended ==
  ASSUME NEW q \in Seq(Message), NEW m \in Message
  PROVE  /\ Append(q, m) \in Seq(Message)
         /\ Len(q) \in Nat
         /\ DOMAIN q = 1..Len(q)
         /\ DOMAIN Append(q, m) = 1..(Len(q) + 1)
         /\ \A i \in 1..Len(q) : Append(q, m)[i] = q[i] /\ q[i] \in Message
         /\ Append(q, m)[Len(q) + 1] = m
  BY AppendProperties, LenProperties, ElementOfSeq

LEMMA MessageParts ==
  \A n \in Nat : /\ Live(n) \in Message /\ Live(n).via = "live" /\ Live(n).seq = n
                 /\ Raw(n) \in Message /\ Raw(n).via = "raw"
                 /\ Replayed(n) \in Message /\ Replayed(n).via = "replay"
                 /\ Replayed(n).seq = n
  BY DEF Live, Raw, Replayed, Message

LEMMA NewsAreMessages ==
  ASSUME FeedTypes
  PROVE  /\ \A m \in News : /\ m \in Message
                            /\ m.via = "live" =>
                                 /\ m \notin announced \union withheld
                                 /\ m.seq \in rows /\ m = Live(m.seq)
                            /\ m.via # "replay"
         /\ \A s \in Nat : Live(s) \in News => s \in rows
  <1>1. \A m \in News : \/ \E s \in rows : Coming(s) /\ m = Live(s)
                        \/ \E p \in PdsSeqs : m = Raw(p)
    BY DEF News
  <1>2. \A s \in rows : s \in Nat /\ (Coming(s) => Live(s) \notin announced \union withheld)
    BY DEF FeedTypes, Coming
  <1>3. \A m \in News : /\ m \in Message
                        /\ m.via = "live" =>
                             /\ m \notin announced \union withheld
                             /\ m.seq \in rows /\ m = Live(m.seq)
                        /\ m.via # "replay"
    <2> TAKE m \in News
    <2>1. CASE \E s \in rows : Coming(s) /\ m = Live(s)
      BY <2>1, <1>2, MessageParts
    <2>2. CASE \E p \in PdsSeqs : m = Raw(p)
      BY <2>2, MessageParts, FeedConstants
    <2> QED BY <1>1, <2>1, <2>2
  <1>4. \A s \in Nat : Live(s) \in News => s \in rows
    BY <1>3, MessageParts
  <1> QED BY <1>3, <1>4

\* Who is in the way of a message has missed it, and nobody forgets what was missed.
LEMMA PastIsMissed ==
  ASSUME FeedTypes, NEW C, NEW m \in Message, GoesPast(C, m)
  PROVE  /\ missed' \in [Clients -> SUBSET Message]
         /\ \A c \in Clients : missed[c] \subseteq missed'[c] /\ (c \in C => m \in missed'[c])
  BY DEF GoesPast, FeedTypes

LEMMA InitFeed == Init => FeedTypes /\ JoinInv /\ NewsInv
  BY FeedConstants, EmptySeq DEF Init, FeedTypes, JoinInv, NewsInv

LEMMA NextTypes == FeedTypes /\ [Next]_vars => FeedTypes'
  <1> SUFFICES ASSUME FeedTypes, [Next]_vars PROVE FeedTypes'
    OBVIOUS
  <1> USE FeedConstants
  <1>1. CASE Commit
    <2>1. PICK s \in Numbers \ rows :
            /\ rows' = rows \union {s}
            /\ missed' = missed \/ GoesPast(Online, Live(s))
      BY <1>1 DEF Commit
    <2>2. rows' \in SUBSET Nat /\ Live(s) \in Message
      BY <2>1, MessageParts DEF FeedTypes
    <2>3. missed' \in [Clients -> SUBSET Message]
      BY <2>1, <2>2, PastIsMissed DEF FeedTypes
    <2> QED BY <1>1, <2>2, <2>3 DEF Commit, FeedTypes, newsVars, scanVars
  <1>2. CASE Announce
    <2>1. PICK m \in News, refused \in SUBSET Online :
            /\ announced' = announced \union {m}
            /\ got' = [c \in Clients |->
                 IF c \in Online \ refused THEN Append(got[c], m) ELSE got[c]]
            /\ GoesPast(refused, m)
      BY <1>2 DEF Announce
    <2>2. m \in Message
      BY NewsAreMessages
    <2>3. \A c \in Clients : got[c] \in Seq(Message) /\ Append(got[c], m) \in Seq(Message)
      BY <2>2, Appended DEF FeedTypes
    <2>4. got' \in [Clients -> Seq(Message)] /\ missed' \in [Clients -> SUBSET Message]
      BY <2>1, <2>2, <2>3, PastIsMissed DEF FeedTypes
    <2> QED BY <1>2, <2>1, <2>2, <2>4 DEF Announce, FeedTypes, rowVars, scanVars
  <1>3. CASE Withhold
    <2>1. PICK m \in News : withheld' = withheld \union {m} /\ GoesPast(Online, m)
      BY <1>3 DEF Withhold
    <2>2. m \in Message
      BY NewsAreMessages
    <2>3. withheld' \in SUBSET Message /\ missed' \in [Clients -> SUBSET Message]
      BY <2>1, <2>2, PastIsMissed DEF FeedTypes
    <2> QED BY <1>3, <2>3 DEF Withhold, FeedTypes, rowVars, scanVars
  <1>4. CASE Crash
    BY <1>4 DEF Crash, FeedTypes, newsVars
  <1>5. ASSUME NEW c \in Clients, Join(c) PROVE FeedTypes'
    <2>1. /\ place' = [place EXCEPT ![c] = "online"]
          /\ UNCHANGED <<rowVars, newsVars, got, missed>>
      BY <1>5 DEF Join
    <2>2. CASE UNCHANGED scanVars
      BY <2>1, <2>2 DEF FeedTypes, rowVars, newsVars, scanVars
    <2>3. ASSUME NEW k \in Cursors, since' = [since EXCEPT ![c] = k],
                 at' = [at EXCEPT ![c] = k], scan' = [scan EXCEPT ![c] = "running"]
          PROVE  FeedTypes'
      BY <2>1, <2>3, FeedConstants DEF FeedTypes, rowVars, newsVars
    <2> QED BY <1>5, <2>2, <2>3 DEF Join
  <1>6. ASSUME NEW c \in Clients, Leave(c) PROVE FeedTypes'
    BY <1>6 DEF Leave, FeedTypes, rowVars, newsVars
  <1>7. ASSUME NEW c \in Clients, Replay(c) PROVE FeedTypes'
    <2>1. PICK s \in rows : /\ got' = [got EXCEPT ![c] = Append(@, Replayed(s))]
                            /\ at' = [at EXCEPT ![c] = s]
      BY <1>7 DEF Replay
    <2>2. s \in Nat /\ Replayed(s) \in Message /\ got[c] \in Seq(Message)
      BY MessageParts DEF FeedTypes
    <2>3. got' \in [Clients -> Seq(Message)] /\ at' \in [Clients -> Int]
      BY <2>1, <2>2, Appended DEF FeedTypes
    <2> QED BY <1>7, <2>3 DEF Replay, FeedTypes, rowVars, newsVars
  <1>8. ASSUME NEW c \in Clients, EndScan(c) PROVE FeedTypes'
    BY <1>8 DEF EndScan, FeedTypes, rowVars, newsVars
  <1>9. CASE UNCHANGED vars
    BY <1>9 DEF vars, rowVars, newsVars, scanVars, FeedTypes
  <1> QED BY <1>1, <1>2, <1>3, <1>4, <1>5, <1>6, <1>7, <1>8, <1>9 DEF Next

LEMMA NextJoin == FeedTypes /\ JoinInv /\ [Next]_vars => JoinInv'
  <1> SUFFICES ASSUME FeedTypes, JoinInv, [Next]_vars PROVE JoinInv'
    OBVIOUS
  <1> USE DEF FeedTypes, JoinInv
  <1>1. CASE Commit
    BY <1>1 DEF Commit, scanVars
  <1>2. CASE Announce
    BY <1>2 DEF Announce, scanVars, Online
  <1>3. CASE Withhold
    BY <1>3 DEF Withhold, scanVars
  <1>4. CASE Crash
    BY <1>4 DEF Crash
  <1>5. ASSUME NEW c \in Clients, Join(c) PROVE JoinInv'
    BY <1>5, FeedConstants DEF Join, scanVars
  <1>6. ASSUME NEW c \in Clients, Leave(c) PROVE JoinInv'
    BY <1>6 DEF Leave
  <1>7. ASSUME NEW c \in Clients, Replay(c) PROVE JoinInv'
    <2>1. PICK s \in rows : Passes(c, at[c], s) /\ at' = [at EXCEPT ![c] = s]
      BY <1>7 DEF Replay
    <2>2. scan[c] = "running"
      BY <1>7 DEF Replay, Scanning
    <2>3. since[c] \in Cursors /\ at[c] \in Int /\ since[c] <= at[c] /\ s \in Nat
      BY <2>2
    <2>4. at[c] < s
      BY <2>1, <2>3 DEF Passes
    <2>5. since[c] <= s
      <3> HIDE DEF FeedTypes, JoinInv
      <3>1. since[c] \in Int
        BY <2>3, FeedConstants
      <3> QED BY <2>3, <2>4, <3>1
    <2> QED BY <1>7, <2>1, <2>5 DEF Replay, Scanning
  <1>8. ASSUME NEW c \in Clients, EndScan(c) PROVE JoinInv'
    BY <1>8 DEF EndScan, Scanning
  <1>9. CASE UNCHANGED vars
    BY <1>9 DEF vars, scanVars
  <1> QED BY <1>1, <1>2, <1>3, <1>4, <1>5, <1>6, <1>7, <1>8, <1>9 DEF Next

LEMMA NextNews == FeedTypes /\ NewsInv /\ [Next]_vars => NewsInv'
  <1> SUFFICES ASSUME FeedTypes, NewsInv, [Next]_vars PROVE NewsInv'
    OBVIOUS
  <1> USE DEF NewsInv
  <1>1. CASE Commit
    BY <1>1 DEF Commit, newsVars
  <1>2. CASE Announce
    <2>1. PICK m \in News, refused \in SUBSET Online :
            /\ announced' = announced \union {m}
            /\ got' = [c \in Clients |->
                 IF c \in Online \ refused THEN Append(got[c], m) ELSE got[c]]
      BY <1>2 DEF Announce
    <2>2. UNCHANGED <<rows, withheld>>
      BY <1>2 DEF Announce, rowVars
    <2>3. \A s \in Nat : Live(s) \in announced' \union withheld' => s \in rows'
      BY <2>1, <2>2, NewsAreMessages
    <2>4. ASSUME NEW c \in Clients, NEW i \in DOMAIN got'[c], got'[c][i].via = "live"
          PROVE  got'[c][i] \in announced'
      <3>1. m \in Message /\ got[c] \in Seq(Message)
        BY NewsAreMessages DEF FeedTypes
      <3>2. (i \in DOMAIN got[c] /\ got'[c][i] = got[c][i]) \/ got'[c][i] = m
        BY <2>1, <3>1, Appended
      <3> QED BY <2>1, <2>4, <3>2
    <2> QED BY <2>3, <2>4
  <1>3. CASE Withhold
    BY <1>3, NewsAreMessages DEF Withhold, rowVars
  <1>4. CASE Crash
    BY <1>4 DEF Crash, newsVars
  <1>5. ASSUME NEW c \in Clients, Join(c) PROVE NewsInv'
    BY <1>5 DEF Join, rowVars, newsVars
  <1>6. ASSUME NEW c \in Clients, Leave(c) PROVE NewsInv'
    BY <1>6 DEF Leave, rowVars, newsVars
  <1>7. ASSUME NEW c \in Clients, Replay(c) PROVE NewsInv'
    <2>1. PICK s \in rows : got' = [got EXCEPT ![c] = Append(@, Replayed(s))]
      BY <1>7 DEF Replay
    <2>2. UNCHANGED <<rows, announced, withheld>>
      BY <1>7 DEF Replay, rowVars, newsVars
    <2>3. ASSUME NEW d \in Clients, NEW i \in DOMAIN got'[d], got'[d][i].via = "live"
          PROVE  got'[d][i] \in announced
      <3>1. /\ Replayed(s) \in Message /\ Replayed(s).via = "replay"
            /\ got \in [Clients -> Seq(Message)]
        BY MessageParts DEF FeedTypes
      <3>2. (i \in DOMAIN got[d] /\ got'[d][i] = got[d][i]) \/ got'[d][i] = Replayed(s)
        BY <2>1, <3>1, Appended
      <3> QED BY <2>3, <3>1, <3>2
    <2> QED BY <2>2, <2>3
  <1>8. ASSUME NEW c \in Clients, EndScan(c) PROVE NewsInv'
    BY <1>8 DEF EndScan, rowVars, newsVars
  <1>9. CASE UNCHANGED vars
    BY <1>9 DEF vars, rowVars, newsVars
  <1> QED BY <1>1, <1>2, <1>3, <1>4, <1>5, <1>6, <1>7, <1>8, <1>9 DEF Next

LEMMA AlwaysFeed == Spec => [](FeedTypes /\ JoinInv /\ NewsInv)
  BY InitFeed, NextTypes, NextJoin, NextNews, PTL DEF Spec

-----------------------------------------------------------------------------
(* Completeness.                                                           *)

\* A row is accounted for from the moment it is committed.
LEMMA NewRowsAccounted ==
  ASSUME FeedTypes, NewsInv, [Next]_vars, NEW c \in Online, NEW s \in rows' \ rows
  PROVE  Accounted(c, s)'
  <1>1. Commit
    BY DEF Next, Announce, Withhold, Crash, Join, Leave, Replay, EndScan, rowVars, vars
  <1>2. /\ s \in Nat /\ Live(s) \in Message /\ UNCHANGED <<announced, withheld>>
        /\ \/ orphaned' = orphaned /\ missed' = missed
           \/ orphaned' = orphaned \union {s} /\ GoesPast(Online, Live(s))
    BY <1>1, FeedConstants, MessageParts DEF Commit, newsVars
  <1>3. CASE GoesPast(Online, Live(s))
    BY <1>2, <1>3, PastIsMissed DEF Accounted, Lost, Live, Online
  <1>4. CASE orphaned' = orphaned
    <2>1. Live(s) \notin announced \union withheld /\ s \notin orphaned
      BY <1>2 DEF NewsInv, FeedTypes
    <2> QED BY <1>2, <1>4, <2>1 DEF Accounted, Coming, Live
  <1> QED BY <1>2, <1>3, <1>4

\* What a subscriber has received it has received for ever.
LEMMA HasGrows ==
  ASSUME FeedTypes, NEW c \in Clients, NEW s, NEW m \in Message, Has(c, s),
         got'[c] = got[c] \/ got'[c] = Append(got[c], m)
  PROVE  Has(c, s)'
  <1>1. PICK i \in DOMAIN got[c] : got[c][i] \in {Live(s), Replayed(s)}
    BY DEF Has
  <1>2. got[c] \in Seq(Message)
    BY DEF FeedTypes
  <1>3. i \in DOMAIN got'[c] /\ got'[c][i] = got[c][i]
    <2>1. CASE got'[c] = got[c]
      BY <2>1
    <2>2. CASE got'[c] = Append(got[c], m)
      BY <1>2, <2>2, Appended
    <2> QED BY <2>1, <2>2
  <1> QED BY <1>1, <1>3 DEF Has, Live, Replayed

LEMMA HasLast ==
  ASSUME FeedTypes, NEW c \in Clients, NEW s, NEW m \in Message,
         m \in {Live(s), Replayed(s)}, got'[c] = Append(got[c], m)
  PROVE  Has(c, s)'
  <1>1. /\ Len(got[c]) + 1 \in DOMAIN got'[c]
        /\ got'[c][Len(got[c]) + 1] = m
    BY Appended DEF FeedTypes
  <1> QED BY <1>1 DEF Has, Live, Replayed

\* While a subscriber is online, a row that is accounted for stays so: announcing it
\* delivers it or records the refusal.
LEMMA AccountedStays ==
  ASSUME FeedTypes, NewsInv, [Next]_vars, NEW c \in Online, place'[c] = "online",
         NEW s \in rows, Accounted(c, s)
  PROVE  Accounted(c, s)'
  <1> c \in Clients /\ place[c] = "online"
    BY DEF Online
  <1>1. CASE Announce
    <2>1. PICK m \in News, refused \in SUBSET Online :
            /\ announced' = announced \union {m}
            /\ got' = [d \in Clients |->
                 IF d \in Online \ refused THEN Append(got[d], m) ELSE got[d]]
            /\ GoesPast(refused, m)
      BY <1>1 DEF Announce
    <2>2. m \in Message /\ UNCHANGED <<rows, orphaned, withheld>>
      BY <1>1, NewsAreMessages DEF Announce, rowVars
    <2>3. CASE Has(c, s)
      BY <2>1, <2>2, <2>3, HasGrows DEF Accounted
    <2>4. CASE Lost(c, s)
      BY <2>1, <2>2, <2>4, PastIsMissed DEF Accounted, Lost, Live
    <2>5. CASE Coming(s) /\ m = Live(s)
      <3>1. CASE c \in refused
        BY <2>1, <2>2, <2>5, <3>1, PastIsMissed DEF Accounted, Lost, Live
      <3>2. CASE c \notin refused
        <4>1. got'[c] = Append(got[c], m)
          BY <2>1, <3>2
        <4> QED BY <2>2, <2>5, <4>1, HasLast DEF Accounted
      <3> QED BY <3>1, <3>2
    <2>6. CASE Coming(s) /\ m # Live(s)
      BY <2>1, <2>2, <2>6 DEF Accounted, Coming, Live
    <2> QED BY <2>3, <2>4, <2>5, <2>6 DEF Accounted
  <1>2. CASE Withhold
    <2>1. PICK m \in News : withheld' = withheld \union {m} /\ GoesPast(Online, m)
      BY <1>2 DEF Withhold
    <2>2. /\ UNCHANGED <<rows, orphaned, announced, got>>
          /\ missed[c] \subseteq missed'[c] /\ m \in missed'[c]
      BY <1>2, <2>1, NewsAreMessages, PastIsMissed DEF Withhold, rowVars
    <2>3. CASE Has(c, s) \/ Lost(c, s)
      BY <2>2, <2>3 DEF Accounted, Has, Lost, Live, Replayed
    <2>4. CASE Coming(s) /\ m = Live(s)
      BY <2>2, <2>4 DEF Accounted, Lost, Live
    <2>5. CASE Coming(s) /\ m # Live(s)
      BY <2>1, <2>2, <2>5 DEF Accounted, Coming, Live
    <2> QED BY <2>3, <2>4, <2>5 DEF Accounted
  <1>3. CASE Commit
    <2>1. PICK t \in Numbers \ rows :
            /\ rows' = rows \union {t}
            /\ \/ orphaned' = orphaned /\ missed' = missed
               \/ orphaned' = orphaned \union {t} /\ GoesPast(Online, Live(t))
      BY <1>3 DEF Commit
    <2>2. Live(t) \in Message
      BY FeedConstants, MessageParts
    <2>3. missed[c] \subseteq missed'[c] /\ UNCHANGED <<announced, withheld, got>>
      BY <1>3, <2>1, <2>2, PastIsMissed DEF Commit, newsVars
    <2>4. Coming(s) => Coming(s)'
      BY <2>1, <2>3 DEF Coming, Live
    <2> QED BY <2>3, <2>4 DEF Accounted, Has, Lost, Live, Replayed
  <1>4. CASE Crash
    BY <1>4 DEF Crash
  <1>5. ASSUME NEW d \in Clients, Replay(d) PROVE Accounted(c, s)'
    <2>1. PICK t \in rows : got' = [got EXCEPT ![d] = Append(@, Replayed(t))]
      BY <1>5 DEF Replay
    <2>2. Replayed(t) \in Message /\ UNCHANGED <<rows, orphaned, announced, withheld, missed>>
      BY <1>5, MessageParts DEF Replay, rowVars, newsVars, FeedTypes
    <2>3. got'[c] = got[c] \/ got'[c] = Append(got[c], Replayed(t))
      BY <2>1 DEF FeedTypes
    <2>4. CASE Has(c, s)
      BY <2>2, <2>3, <2>4, HasGrows DEF Accounted
    <2>5. CASE Coming(s) \/ Lost(c, s)
      BY <2>2, <2>5 DEF Accounted, Coming, Lost, Live
    <2> QED BY <2>4, <2>5 DEF Accounted
  <1>6. (\E d \in Clients : Join(d) \/ Leave(d) \/ EndScan(d)) \/ UNCHANGED vars =>
          UNCHANGED <<rows, orphaned, announced, withheld, got, missed>>
    BY DEF Join, Leave, EndScan, vars, rowVars, newsVars
  <1>7. CASE UNCHANGED <<rows, orphaned, announced, withheld, got, missed>>
    BY <1>7 DEF Accounted, Has, Lost, Coming, Live, Replayed
  <1> QED BY <1>1, <1>2, <1>3, <1>4, <1>5, <1>6, <1>7 DEF Next

\* While the scan runs, what it has passed is accounted for.
ScanOf(c) ==
  /\ scan[c] = "running" => \A s \in rows : since[c] < s /\ s <= at[c] => Accounted(c, s)
  /\ scan[c] = "done" => AccountedFrom(c, since[c])

ScanInv == \A c \in Online : ScanOf(c)

LEMMA NextScan ==
  FeedTypes /\ JoinInv /\ NewsInv /\ ScanInv /\ [Next]_vars => ScanInv'
  <1> SUFFICES ASSUME FeedTypes, JoinInv, NewsInv, ScanInv, [Next]_vars,
                      NEW c \in Clients, place'[c] = "online"
               PROVE  ScanOf(c)'
    BY DEF ScanInv, Online
  <1>1. rows \in SUBSET Nat /\ rows' \in SUBSET Nat /\ since[c] \in Cursors \union {NoCursor} /\ at[c] \in Int
    BY NextTypes DEF FeedTypes
  <1>2. CASE place[c] = "online" /\ ~(Replay(c) \/ EndScan(c))
    <2>1. UNCHANGED <<since[c], scan[c], at[c]>>
      <3>1. CASE Commit \/ Announce \/ Withhold \/ UNCHANGED vars
        BY <3>1 DEF Commit, Announce, Withhold, vars, scanVars
      <3>2. CASE Crash
        BY <1>2, <3>2 DEF Crash
      <3>3. ASSUME NEW d \in Clients, Join(d) \/ Leave(d) \/ Replay(d) \/ EndScan(d)
            PROVE  UNCHANGED <<since[c], scan[c], at[c]>>
        <4>1. CASE d = c
          BY <1>2, <3>3, <4>1 DEF Join, Leave, FeedTypes
        <4>2. CASE d # c
          BY <3>3, <4>2 DEF Join, Leave, Replay, EndScan, scanVars, FeedTypes
        <4> QED BY <4>1, <4>2
      <3> QED BY <3>1, <3>2, <3>3 DEF Next
    <2>2. ScanOf(c) /\ c \in Online
      BY <1>2 DEF ScanInv, Online
    <2>3. \A s \in rows : Accounted(c, s) => Accounted(c, s)'
      BY <2>2, AccountedStays
    <2>4. \A s \in rows' \ rows : Accounted(c, s)'
      BY <2>2, NewRowsAccounted
    <2> QED BY <2>1, <2>2, <2>3, <2>4 DEF ScanOf, AccountedFrom
  <1>3. CASE place[c] # "online"
    <2>1. Join(c)
      BY <1>3 DEF Next, Commit, Announce, Withhold, Crash, Join, Leave, Replay, EndScan, vars, FeedTypes
    <2>2. scan[c] = "none"
      BY <2>1 DEF Join, JoinInv
    <2>3. \/ scan'[c] = "none"
          \/ scan'[c] = "running" /\ since'[c] = at'[c] /\ since'[c] \in Cursors
      BY <2>1, <2>2 DEF Join, FeedTypes, scanVars
    <2>4. CASE scan'[c] = "running" /\ since'[c] = at'[c] /\ since'[c] \in Cursors
      <3>1. since'[c] \in Int
        BY <2>4, FeedConstants
      <3>2. \A s \in rows' : ~(since'[c] < s /\ s <= at'[c])
        BY <1>1, <2>4, <3>1
      <3> QED BY <2>4, <3>2 DEF ScanOf
    <2> QED BY <2>3, <2>4 DEF ScanOf
  <1>4. CASE place[c] = "online" /\ (Replay(c) \/ EndScan(c))
    <2>1. /\ ScanOf(c) /\ c \in Online /\ scan[c] = "running" /\ since[c] \in Int
          /\ since[c] <= at[c] /\ rows' = rows /\ since' = since
      BY <1>4, FeedConstants DEF ScanInv, Online, Replay, EndScan, Scanning, JoinInv, rowVars
    <2>2. \A s \in rows : Accounted(c, s) => Accounted(c, s)'
      BY <2>1, AccountedStays
    <2>3. CASE EndScan(c)
      <3>1. at'[c] = at[c] /\ scan'[c] \in {"done", "stopped"}
        BY <2>3 DEF EndScan, FeedTypes
      <3>2. scan'[c] = "done" => AccountedFrom(c, at[c])
        BY <2>3 DEF EndScan, FeedTypes
      <3>3. scan'[c] = "done" => \A s \in rows : s > since[c] => Accounted(c, s)
        BY <1>1, <2>1, <3>2 DEF ScanOf, AccountedFrom
      <3> QED BY <2>1, <2>2, <3>1, <3>3 DEF ScanOf, AccountedFrom
    <2>4. CASE Replay(c)
      <3>1. PICK s \in rows :
              /\ Passes(c, at[c], s)
              /\ got' = [got EXCEPT ![c] = Append(@, Replayed(s))]
              /\ at' = [at EXCEPT ![c] = s]
              /\ \/ UNCHANGED scan
                 \/ AccountedFrom(c, s) /\ scan' = [scan EXCEPT ![c] = "done"]
        BY <2>4 DEF Replay
      <3>2. at'[c] = s /\ got'[c] = Append(got[c], Replayed(s)) /\ s \in Nat
        BY <3>1 DEF FeedTypes
      <3>3. Accounted(c, s)'
        BY <3>2, MessageParts, HasLast DEF Accounted
      <3>4. \A t \in rows : since[c] < t /\ t <= s => Accounted(c, t)'
        <4> SUFFICES ASSUME NEW t \in rows, since[c] < t, t <= s PROVE Accounted(c, t)'
          OBVIOUS
        <4>1. CASE t <= at[c]
          BY <2>1, <2>2, <4>1 DEF ScanOf
        <4>2. CASE at[c] < t /\ t < s
          BY <2>2, <3>1, <4>2 DEF Passes
        <4>3. CASE t = s
          BY <3>3, <4>3
        <4>4. t \in Int /\ s \in Int /\ at[c] \in Int
          BY <1>1, <3>2
        <4>5. t <= at[c] \/ (at[c] < t /\ t < s) \/ t = s
          BY <4>4
        <4> QED BY <4>1, <4>2, <4>3, <4>5
      <3>5. CASE UNCHANGED scan
        BY <2>1, <3>2, <3>4, <3>5 DEF ScanOf
      <3>6. CASE AccountedFrom(c, s) /\ scan' = [scan EXCEPT ![c] = "done"]
        <4>1. scan'[c] = "done"
          BY <3>6 DEF FeedTypes
        <4>2. \A t \in rows : t > s => Accounted(c, t)'
          BY <2>2, <3>6 DEF AccountedFrom
        <4>3. \A t \in rows : t > since[c] => Accounted(c, t)'
          BY <1>1, <2>1, <3>2, <3>4, <4>2
        <4> QED BY <2>1, <4>1, <4>3 DEF ScanOf, AccountedFrom
      <3> QED BY <3>1, <3>5, <3>6
    <2> QED BY <1>4, <2>3, <2>4
  <1> QED BY <1>2, <1>3, <1>4

\* A subscriber whose scan has run to its end lacks only what is coming to it or went
\* past it while it was online.
LEMMA FeedComplete == Spec => []Complete
  <1>1. Init => ScanInv
    BY DEF Init, ScanInv, Online
  <1>2. ScanInv => Complete
    BY DEF ScanInv, ScanOf, Complete
  <1> QED BY <1>1, <1>2, NextScan, AlwaysFeed, PTL DEF Spec

=============================================================================
