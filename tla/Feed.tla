-------------------------------- MODULE Feed --------------------------------
(***************************************************************************)
(* What the firehose promises its subscribers, with no channel, goroutine  *)
(* or query in sight: an atomic broadcast of numbered rows, and for every  *)
(* subscriber that asked for a cursor a scan of the rows beside it.        *)
(*                                                                         *)
(* A row is announced at most once, after it has been committed, to all    *)
(* who are online at that moment; the relay may refuse the announcement to *)
(* some of them, or withhold it from all, when a buffer is full.  The scan *)
(* goes upwards and never back.  It may pass over a row only if the row    *)
(* has reached the subscriber, will be announced to it, or went past it    *)
(* while it was online.  A row that was lost to others before it came, or  *)
(* that an earlier process left unannounced, the scan must deliver.        *)
(***************************************************************************)
EXTENDS Messages, FiniteSets, Sequences

CONSTANTS
  Clients,   \* subscriber connections
  NoCursor,  \* the subscription asked for no cursor
  Cursors,   \* cursors it may ask for
  Numbers,   \* numbers a row may get
  PdsSeqs    \* numbers upstream servers put on their own events

ASSUME FeedConstants ==
  /\ NoCursor \notin Int
  /\ Cursors \subseteq Int
  /\ Numbers \subseteq Nat
  /\ PdsSeqs \subseteq Nat

VARIABLES
  rows,       \* numbers of the committed rows
  orphaned,   \* those that will never be announced: the relay was told that the
              \* INSERT had failed, or an earlier process has left them
  announced,  \* messages that have been announced
  withheld,   \* messages that were refused to everybody
  place,      \* of each subscriber: away, online or gone
  since,      \* the cursor it asked for
  scan,       \* progress of the scan: none, running, done or stopped
  at,         \* the number the scan has reached
  got,        \* what the subscriber's channel has been given, in order
  missed      \* live messages that went past it while it was online

rowVars  == <<rows, orphaned>>
newsVars == <<announced, withheld>>
scanVars == <<since, scan, at>>

vars == <<rowVars, newsVars, place, scanVars, got, missed>>

Online == {c \in Clients : place[c] = "online"}

\* What an earlier process has left is there for the scans only.
Init ==
  /\ rows \in SUBSET Numbers /\ orphaned = rows
  /\ announced = {} /\ withheld = {}
  /\ place = [c \in Clients |-> "away"]
  /\ since = [c \in Clients |-> NoCursor]
  /\ scan = [c \in Clients |-> "none"]
  /\ at = [c \in Clients |-> 0]
  /\ got = [c \in Clients |-> <<>>]
  /\ missed = [c \in Clients |-> {}]

-----------------------------------------------------------------------------

\* the announcement of the row s is still to come
Coming(s) == s \in rows \ orphaned /\ Live(s) \notin announced \union withheld

\* the row s has reached c, live or from the scan
Has(c, s) == \E i \in DOMAIN got[c] : got[c][i] \in {Live(s), Replayed(s)}

\* the announcement of s was refused to c, withheld, or given up, with c online
Lost(c, s) == Live(s) \in missed[c]

Accounted(c, s) == Has(c, s) \/ Coming(s) \/ Lost(c, s)

\* every row after k is accounted for
AccountedFrom(c, k) == \A s \in rows : s > k => Accounted(c, s)

\* The scan of c may go on from k to the row s.  It may not leave out a row because
\* nobody was told of it.
PassesUntold(c, k, s) == s > k /\ \A t \in rows \ orphaned : k < t /\ t < s => Accounted(c, t)
Passes(c, k, s)       == s > k /\ \A t \in rows : k < t /\ t < s => Accounted(c, t)

\* The message m goes past the subscribers in C.
GoesPast(C, m) ==
  missed' = [c \in Clients |-> IF c \in C THEN missed[c] \union {m} ELSE missed[c]]

Commit ==
  /\ \E s \in Numbers \ rows :
       /\ rows' = rows \union {s}
       /\ \/ orphaned' = orphaned /\ missed' = missed
          \/ orphaned' = orphaned \union {s} /\ GoesPast(Online, Live(s))
  /\ UNCHANGED <<newsVars, place, scanVars, got>>

\* What may be announced now: a row whose turn has not come yet, or an event
\* that has no number of the relay's.
News == {Live(s) : s \in {t \in rows : Coming(t)}} \union {Raw(p) : p \in PdsSeqs}

Announce ==
  /\ \E m \in News, refused \in SUBSET Online :
       /\ announced' = announced \union {m}
       /\ got' = [c \in Clients |->
            IF c \in Online \ refused THEN Append(got[c], m) ELSE got[c]]
       /\ GoesPast(refused, m)
  /\ UNCHANGED <<rowVars, withheld, place, scanVars>>

Withhold ==
  /\ \E m \in News : withheld' = withheld \union {m} /\ GoesPast(Online, m)
  /\ UNCHANGED <<rowVars, announced, place, scanVars, got>>

Join(c) ==
  /\ place[c] = "away"
  /\ place' = [place EXCEPT ![c] = "online"]
  /\ \/ \E k \in Cursors : /\ since' = [since EXCEPT ![c] = k]
                           /\ at' = [at EXCEPT ![c] = k]
                           /\ scan' = [scan EXCEPT ![c] = "running"]
     \/ UNCHANGED scanVars
  /\ UNCHANGED <<rowVars, newsVars, got, missed>>

Leave(c) ==
  /\ place[c] = "online"
  /\ place' = [place EXCEPT ![c] = "gone"]
  /\ scan' = [scan EXCEPT ![c] = IF @ = "none" THEN "none" ELSE "stopped"]
  /\ UNCHANGED <<rowVars, newsVars, since, at, got, missed>>

Scanning(c) == place[c] = "online" /\ scan[c] = "running"

\* The scan delivers a row, and may find that it was the last one.
Replay(c) ==
  /\ Scanning(c)
  /\ \E s \in rows :
       /\ Passes(c, at[c], s)
       /\ got' = [got EXCEPT ![c] = Append(@, Replayed(s))]
       /\ at' = [at EXCEPT ![c] = s]
       /\ \/ UNCHANGED scan
          \/ AccountedFrom(c, s) /\ scan' = [scan EXCEPT ![c] = "done"]
  /\ UNCHANGED <<rowVars, newsVars, place, since, missed>>

\* There is nothing to deliver any more, or the relay gives up.
EndScan(c) ==
  /\ Scanning(c)
  /\ \/ AccountedFrom(c, at[c]) /\ scan' = [scan EXCEPT ![c] = "done"]
     \/ scan' = [scan EXCEPT ![c] = "stopped"]
  /\ UNCHANGED <<rowVars, newsVars, place, since, at, got, missed>>

\* The process ends: the subscribers are cut off, and the rows that have not
\* been announced by then are left to the scans of those who come later.
Crash ==
  /\ orphaned' = orphaned \union {s \in rows : Coming(s)}
  /\ place' = [c \in Clients |-> IF place[c] = "online" THEN "gone" ELSE place[c]]
  /\ scan' = [c \in Clients |->
       IF place[c] = "online" /\ scan[c] # "none" THEN "stopped" ELSE scan[c]]
  /\ UNCHANGED <<rows, newsVars, since, at, got, missed>>

Next ==
  \/ Commit \/ Announce \/ Withhold \/ Crash
  \/ \E c \in Clients : Join(c) \/ Leave(c) \/ Replay(c) \/ EndScan(c)

Spec == Init /\ [][Next]_vars

-----------------------------------------------------------------------------
(* What follows from the promise.                                          *)

\* A subscriber whose scan has run to its end lacks no row after its cursor but
\* those whose announcement is still to come or went past it while it was online.
\* (A lemma of FeedProofs, on which the end-to-end theorems of RelayProofs rest.)
Complete ==
  \A c \in Online : scan[c] = "done" => AccountedFrom(c, since[c])

=============================================================================
