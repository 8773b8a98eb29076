----------------------------- MODULE FeedViewer -----------------------------
(***************************************************************************)
(* The script of the feed viewer (relay/web/feed.html).  The browser runs  *)
(* one click handler or one WebSocket callback at a time; each is one      *)
(* action.  A socket is an object that lives on after the variable ws has  *)
(* moved to another one: close() only starts the closing, and the callback *)
(* onclose comes later.                                                    *)
(*                                                                         *)
(* What the relay may send is any sequence of the messages it makes of     *)
(* some upstream events (module Content): each event live and replayed, in *)
(* any order, and events it could not store under their host's number.     *)
(***************************************************************************)
EXTENDS Content, FiniteSets, SequencesExt

CONSTANTS
  Sockets,    \* WebSocket objects; each is created once
  NoSocket,   \* ws = null
  Histories,  \* what may have been stored: upstream events by number
  Unstored,   \* upstream events sent live only, with a number of their host's
  FeedLimit,  \* events kept on the page, 100 in the code
  MaxCount    \* bound: events shown before the page is cleared

ASSUME ViewerConstants ==
  /\ NoSocket \notin Sockets
  /\ \A stored \in Histories : /\ DOMAIN stored \subseteq Nat \ {0}
                               /\ \A n \in DOMAIN stored : IsEvent(stored[n])
  /\ \A u \in Unstored : u.seq \in Nat /\ IsEvent(u.event)
  /\ FeedLimit \in Nat \ {0}
  /\ MaxCount \in Nat

VARIABLES
  history,     \* the one of Histories that is the case
  state,       \* readyState of each socket, "none" before it is created
  ws,          \* the variable ws
  status,      \* what updateStatus was last told; the button's label follows it
  eventCount,
  lastSeq,
  seenSeqs,
  feed         \* entries on the page, newest first

socketVars == <<state, ws, status>>
feedVars   == <<eventCount, lastSeq, seenSeqs, feed>>

vars == <<history, socketVars, feedVars>>

Init ==
  /\ history \in Histories
  /\ state = [s \in Sockets |-> "none"]
  /\ ws = NoSocket
  /\ status = "disconnected"
  /\ eventCount = 0
  /\ lastSeq = 0
  /\ seenSeqs = {}
  /\ feed = <<>>

\* the label updateStatus gives the button
Button ==
  CASE status = "connected"    -> "Disconnect"
    [] status = "connecting"   -> "Cancel"
    [] status = "disconnected" -> "Connect"

-----------------------------------------------------------------------------
(* Clicks.                                                                 *)

\* ws.close(): no effect on a socket that is closing or closed
Closed(s) ==
  IF state[s] \in {"connecting", "open"} THEN [state EXCEPT ![s] = "closing"] ELSE state

\* connect(cursor): the current socket, if any, is told to close and replaced.
ConnectNew ==
  \E s \in Sockets :
    /\ state[s] = "none"
    /\ state' = [(IF ws # NoSocket THEN Closed(ws) ELSE state) EXCEPT ![s] = "connecting"]
    /\ ws' = s
    /\ status' = "connecting"

DisconnectSilently ==
  /\ state' = Closed(ws)
  /\ ws' = NoSocket
  /\ UNCHANGED status

Disconnect ==
  /\ state' = Closed(ws)
  /\ ws' = NoSocket
  /\ status' = "disconnected"

ClickConnect ==
  /\ IF ws # NoSocket /\ state[ws] = "open" THEN Disconnect ELSE ConnectNew
  /\ UNCHANGED <<history, feedVars>>

ClickReplay == ConnectNew /\ UNCHANGED <<history, feedVars>>

ClearFeed ==
  /\ eventCount' = 0
  /\ seenSeqs' = {}
  /\ feed' = <<>>
  /\ UNCHANGED lastSeq

ClickClear == ClearFeed /\ UNCHANGED <<history, socketVars>>

-----------------------------------------------------------------------------
(* Callbacks.                                                              *)

OnOpen(s) ==
  /\ state[s] = "connecting"
  /\ state' = [state EXCEPT ![s] = "open"]
  /\ status' = "connected"
  /\ UNCHANGED <<history, ws, feedVars>>

\* The connection cannot be made, breaks, or was told to close: onerror, if
\* it applies, and onclose.  The handlers are the same for every socket.
OnClose(s) ==
  /\ state[s] \in {"connecting", "open", "closing"}
  /\ state' = [state EXCEPT ![s] = "closed"]
  /\ status' = "disconnected"
  /\ ws' = NoSocket
  /\ UNCHANGED <<history, feedVars>>

Stored(n) == Extracted(history[n])

\* what the relay may send
SentMessages ==
  {LiveMessage(n, Stored(n)) : n \in DOMAIN history}
    \union {ReplayedMessage(n, Row(Stored(n))) : n \in DOMAIN history}
    \union {LiveMessage(u.seq, Extracted(u.event)) : u \in Unstored}

\* addEvent's guards: a number seen before, an event with nothing to show
NewAlways(m) == TRUE
New(m)       == ~(m.seq # 0 /\ m.seq \in seenSeqs)

HasContentAlways(m) == TRUE
HasContent(m)       == m.content # <<>> \/ m.action = "delete"

\* The entry's label is the record type's, or else the event type's.
Entry(m) ==
  [seq |-> m.seq, label |-> IF m.record_type # "" THEN m.record_type ELSE m.type,
   action |-> m.action, content |-> m.content]

\* insertBefore the first child; then children beyond the limit are removed
Least(m, n) == IF m < n THEN m ELSE n

TrimmedLate(page) == SubSeq(page, 1, Least(Len(page), FeedLimit + 1))
Trimmed(page)     == SubSeq(page, 1, Least(Len(page), FeedLimit))
Shown(m)          == Trimmed(<<Entry(m)>> \o feed)

OnMessage(s, m) ==
  /\ state[s] = "open"
  /\ IF New(m) /\ HasContent(m)
       THEN /\ eventCount < MaxCount
            /\ seenSeqs' = IF m.seq # 0 THEN seenSeqs \union {m.seq} ELSE seenSeqs
            /\ eventCount' = eventCount + 1
            /\ lastSeq' = m.seq
            /\ feed' = Shown(m)
       ELSE UNCHANGED feedVars
  /\ UNCHANGED <<history, socketVars>>

Next ==
  \/ ClickConnect \/ ClickReplay \/ ClickClear
  \/ \E s \in Sockets : OnOpen(s) \/ OnClose(s) \/ \E m \in SentMessages : OnMessage(s, m)

Spec == Init /\ [][Next]_vars

-----------------------------------------------------------------------------
(* Properties.                                                             *)

\* Every variable has its type, and the page holds no more than its limit.
TypeOK ==
  /\ state \in [Sockets -> {"none", "connecting", "open", "closing", "closed"}]
  /\ ws \in Sockets \union {NoSocket}
  /\ status \in {"connected", "connecting", "disconnected"}
  /\ eventCount \in Nat /\ lastSeq \in Nat
  /\ seenSeqs \in SUBSET Nat
  /\ history \in Histories
  /\ feed \in Seq({Entry(m) : m \in SentMessages}) /\ Len(feed) <= FeedLimit

\* feed.html:255, "to prevent duplicates": however many sockets deliver, live or
\* replayed, the page never shows an event with a number twice, and it holds exactly
\* as many events as its counter has counted since the page was last cleared, as far
\* as its limit goes; no number is taken for seen that was not counted.
NoDuplicates ==
  /\ \A i, j \in DOMAIN feed : feed[i].seq = feed[j].seq /\ feed[i].seq # 0 => i = j
  /\ {feed[i].seq : i \in DOMAIN feed} \subseteq seenSeqs \union {0}
  /\ Cardinality(seenSeqs) <= eventCount /\ Len(feed) = Least(eventCount, FeedLimit)

\* feed.html:281-282: whichever sockets open, close and replace each other, while
\* the page says "Connected" and its button offers to "Disconnect" some socket is
\* open and the page does receive.  (It need not be ws: the onclose of a replaced
\* socket also forgets the one that replaced it.)
ConnectedReceives == Button = "Disconnect" => \E s \in Sockets : state[s] = "open"

\* entries for stored events whose numbers no other event has used
Genuine == {e \in ToSet(feed) : e.seq \in DOMAIN history \ {u.seq : u \in Unstored}}

\* Whichever of its copies comes first and makes the page ignore the other, a stored
\* event is shown under the same label and with the same content, although the
\* replay has the record type from the path alone.  (Deletions are shown only live.)
EitherCopyAlike ==
  \A e \in Genuine : e.action # "delete" =>
    LET event == Stored(e.seq) IN
    \A m \in {LiveMessage(e.seq, event), ReplayedMessage(e.seq, Row(event))} :
      e.label = Entry(m).label /\ e.content = Entry(m).content

\* server.go:383 calls every replayed event a create.  Still the page never shows a
\* deletion as a creation: the client gives a deletion no content, and the page
\* passes over what has none.
DeletionsStayDeletions ==
  \A e \in Genuine : e.action = "create" => Head(history[e.seq].ops).action # "delete"

\* lexicons/README.md:215, what a job card's text tells, in this order
CardOrder ==
  <<"taskType", "description", "taskType", "pricing.amount", "pricing.currency",
    "deadline", "sla.maxResponseTime", "sla.availability">>

\* words of a text that are in S, in their order
Kept(words, S) ==
  FlattenSeq([i \in DOMAIN words |-> IF words[i] \in S THEN <<words[i]>> ELSE <<>>])

\* a job card with the types the lexicon asks for, whatever the decoder calls a number
IsCard(record) ==
  \A f \in ToSet(CardOrder) \intersect DOMAIN record :
    record[f] \in IF f = "pricing.amount" THEN {"float64", "uint64", "int64"}
                                         ELSE {"string", "blank"}

\* lexicons/README.md:206, "Extracts all fields": whatever number type the decoder
\* makes of the amount, a job card on the page tells every field of its record, in
\* the order of the documented format; only a currency needs an amount beside it.
CardsToldInFull ==
  \A e \in Genuine : e.label = "jobCard" /\ e.action # "delete" =>
    LET record == Head(history[e.seq].ops).record
        told   == {f \in DOMAIN record : f = "pricing.currency" => "pricing.amount" \in DOMAIN record}
    IN  IsCard(record) =>
          Kept(FlattenSeq(e.content), ToSet(CardOrder)) = Kept(CardOrder, told)

=============================================================================
