---------------------------- MODULE SessionView ----------------------------
(***************************************************************************)
(* How a browser tab follows a session.  Transactions append events to the *)
(* session's log under the row lock of the session.  The tab loads         *)
(* snapshots, each with the number of the last event it contains, and      *)
(* opens one event stream behind its first snapshot; the stream reads the  *)
(* log page by page.  Answers may overtake each other, connections break,  *)
(* the backend behind the proxy is away for a while, and the user may be   *)
(* signed out or the session deleted.                                      *)
(*                                                                         *)
(* Snapshots are requested at the start, on an event, on an error and      *)
(* every ten seconds: without clocks, at any moment.                       *)
(***************************************************************************)
EXTENDS Naturals, Sequences, FiniteSetsExt

CONSTANTS
  Writer,    \* transactions that append events
  Request,   \* requests for a snapshot that may be under way at once
  Page,      \* the stream reads this many events at a time (200)
  MaxSeq     \* bound on the length of the log: the code has none

ASSUME ViewConstants == Page \in Nat \ {0} /\ MaxSeq \in Nat

VARIABLES
  log,       \* the sequence numbers in session_events
  writing,   \* the numbers each transaction took and did not commit yet
  access,    \* the session exists and the user is signed in
  request,   \* each request: "NONE", "SENT", "DENIED" or "ANSWERED" with a cursor
  view,      \* event_cursor of the snapshot on the screen, 0 without one
  source,    \* the EventSource: "NONE", "CONNECTING", "OPEN" or "CLOSED"
  cursor,    \* the last event the tab handled
  served,    \* the cursor of stream_events on the server
  wire       \* events on their way to the tab

vars == <<log, writing, access, request, view, source, cursor, served, wire>>
server == <<log, writing, access>>
stream == <<source, cursor, served, wire>>

NoRequest == [state |-> "NONE", cursor |-> 0]
Sent == [state |-> "SENT", cursor |-> 0]
Denied == [state |-> "DENIED", cursor |-> 0]
Answer(n) == [state |-> "ANSWERED", cursor |-> n]

\* Numbers stay naturals, whatever is lost or overtaken.
TypeOK ==
  /\ log \subseteq Nat /\ writing \in [Writer -> SUBSET Nat]
  /\ access \in BOOLEAN
  /\ request \in [Request -> [state : {"NONE", "SENT", "DENIED", "ANSWERED"}, cursor : Nat]]
  /\ view \in Nat
  /\ source \in {"NONE", "CONNECTING", "OPEN", "CLOSED"}
  /\ cursor \in Nat /\ served \in Nat /\ wire \in Seq(Nat)

Init ==
  /\ log = {} /\ writing = [w \in Writer |-> {}]
  /\ access = TRUE
  /\ request = [r \in Request |-> NoRequest]
  /\ view = 0
  /\ source = "NONE" /\ cursor = 0 /\ served = 0 /\ wire = <<>>

-----------------------------------------------------------------------------
(* The log *)

Taken == log \cup UNION {writing[w] : w \in Writer}

\* Mutation of MayWrite: the number is taken without the lock of the session.
MayWriteUnlocked(w) == TRUE
MayWrite(w) == \A v \in Writer \ {w} : writing[v] = {}

\* append_event, in a transaction that holds the session row.
AppendEvent(w) ==
  /\ MayWrite(w)
  /\ Cardinality(Taken) < MaxSeq
  /\ writing' = [writing EXCEPT ![w] = @ \cup {Cardinality(Taken) + 1}]
  /\ UNCHANGED <<log, access, request, view, stream>>

\* The transaction commits or rolls back all of its events.
EndTransaction(w, committed) ==
  /\ writing[w] # {}
  /\ log' = IF committed THEN log \cup writing[w] ELSE log
  /\ writing' = [writing EXCEPT ![w] = {}]
  /\ UNCHANGED <<access, request, view, stream>>

\* The sign-in expires and is renewed, or the session is deleted.
ChangeAccess ==
  /\ access' = ~access
  /\ UNCHANGED <<log, writing, request, view, stream>>

-----------------------------------------------------------------------------
(* Snapshots *)

\* refresh, called by the first load, the timer of an event, an error or the poll.
Reload(r) ==
  /\ request[r] = NoRequest
  /\ request' = [request EXCEPT ![r] = Sent]
  /\ UNCHANGED <<server, view, stream>>

\* snapshot waits for the lock of the session.
Snapshot(r) ==
  /\ request[r] = Sent /\ access
  /\ \A w \in Writer : writing[w] = {}
  /\ request' = [request EXCEPT ![r] = Answer(Cardinality(log))]
  /\ UNCHANGED <<server, view, stream>>

Deny(r) ==
  /\ request[r] = Sent /\ ~access
  /\ request' = [request EXCEPT ![r] = Denied]
  /\ UNCHANGED <<server, view, stream>>

\* The answer is lost, or the proxy answers 502.  Reading changes nothing, so a
\* request that is lost on its way is one whose answer is lost.
LoseAnswer(r) ==
  /\ request[r].state \in {"ANSWERED", "DENIED"}
  /\ request' = [request EXCEPT ![r] = NoRequest]
  /\ UNCHANGED <<server, view, stream>>

\* Mutation of Newer: the answer that arrives last is shown.
NewerAlways(n) == n
\* setSnapshot keeps the newer snapshot.
Newer(n) == IF n >= view THEN n ELSE view

\* connect, unless there is a source already.
Connect(n) ==
  IF source = "NONE"
    THEN /\ source' = "CONNECTING"
         /\ cursor' = n
         /\ UNCHANGED <<served, wire>>
    ELSE UNCHANGED stream

Receive(r) ==
  /\ request[r].state = "ANSWERED"
  /\ view' = Newer(request[r].cursor)
  /\ Connect(request[r].cursor)
  /\ request' = [request EXCEPT ![r] = NoRequest]
  /\ UNCHANGED server

\* reload gives up its stream on 401, 404 and 410.
ReceiveDenial(r) ==
  /\ request[r] = Denied
  /\ source' = "NONE" /\ wire' = <<>>
  /\ request' = [request EXCEPT ![r] = NoRequest]
  /\ UNCHANGED <<server, view, cursor, served>>

-----------------------------------------------------------------------------
(* The stream *)

\* Mutation of StartAt: the stream starts with the events of the moment.
StartAtEnd == Cardinality(log)
\* The browser repeats "after" and sends the last event it received.
StartAt == cursor

OpenStream ==
  /\ source = "CONNECTING" /\ access
  /\ source' = "OPEN" /\ served' = StartAt
  /\ UNCHANGED <<server, request, view, cursor, wire>>

\* Any answer but 200 closes an EventSource for good: 401, 404, or the 502 of
\* the proxy while the backend is away.
RefuseStream ==
  /\ source = "CONNECTING"
  /\ source' = "CLOSED"
  /\ UNCHANGED <<server, request, view, cursor, served, wire>>

\* The connection ends, the events on the wire are lost, the browser connects again.
BreakStream ==
  /\ source = "OPEN"
  /\ source' = "CONNECTING" /\ wire' = <<>>
  /\ UNCHANGED <<server, request, view, cursor, served>>

\* Mutation of PageAfter: the page begins with the events that came last.
PageAfterLatest(n) == {s \in log : s > n /\ Cardinality({t \in log : t >= s}) <= Page}
\* events_after: the first Page events behind n.
PageAfter(n) == {s \in log : s > n /\ Cardinality({t \in log : n < t /\ t <= s}) <= Page}

\* order_by(session_seq): the i-th event of a page has i numbers of it up to its own.
InOrder(S) ==
  [i \in 1..Cardinality(S) |-> CHOOSE s \in S : Cardinality({t \in S : t <= s}) = i]

\* One round of stream_events.
ServePage ==
  /\ source = "OPEN" /\ PageAfter(served) # {}
  /\ wire' = wire \o InOrder(PageAfter(served))
  /\ served' = Max(PageAfter(served))
  /\ UNCHANGED <<server, request, view, source, cursor>>

\* receive ignores what it has handled.
HandleEvent ==
  /\ source = "OPEN" /\ wire # <<>>
  /\ wire' = Tail(wire)
  /\ cursor' = IF Head(wire) <= cursor THEN cursor ELSE Head(wire)
  /\ UNCHANGED <<server, request, view, source, served>>

-----------------------------------------------------------------------------
WriterStep(w) == AppendEvent(w) \/ \E committed \in BOOLEAN : EndTransaction(w, committed)

RequestStep(r) ==
  \/ Reload(r) \/ Snapshot(r) \/ Deny(r) \/ LoseAnswer(r) \/ Receive(r) \/ ReceiveDenial(r)

StreamStep == OpenStream \/ RefuseStream \/ BreakStream \/ ServePage \/ HandleEvent

Next ==
  \/ \E w \in Writer : WriterStep(w)
  \/ \E r \in Request : RequestStep(r)
  \/ StreamStep \/ ChangeAccess

Spec == Init /\ [][Next]_vars

\* Transactions end.  The tab polls.  The network and the backend are not away
\* for ever: of the requests that are answered again and again, some arrive.
\* An open stream is served and read.
Fairness ==
  /\ \A w \in Writer : WF_vars(\E committed \in BOOLEAN : EndTransaction(w, committed))
  /\ \A r \in Request :
       /\ WF_vars(Reload(r))
       /\ SF_vars(Snapshot(r))
       /\ SF_vars(Receive(r))
       /\ WF_vars(Deny(r) \/ ReceiveDenial(r) \/ LoseAnswer(r))
  /\ WF_vars(ServePage) /\ WF_vars(HandleEvent)

FairSpec == Spec /\ Fairness

-----------------------------------------------------------------------------
(* What the tab promises *)

\* Between two snapshots that open a stream the tab handles every event of the
\* log, in order: none is skipped because a later number was committed first, a
\* page was full, or the connection broke (meta/agent-design/contracts.md line 189).
NoEventSkipped ==
  [][cursor' > cursor /\ source # "NONE" => cursor' = cursor + 1]_vars

\* A stream that stays open delivers whatever was committed.
StreamDelivers ==
  \A n \in 1..MaxSeq : n \in log ~> (cursor >= n \/ source # "OPEN")

\* The screen shows a snapshot of the log that never goes back, although answers
\* overtake each other, and catches up as long as the session can be read,
\* whatever becomes of the stream.
Screen == INSTANCE LogReplica WITH
            published <- Cardinality(log), shown <- view, readable <- access
ScreenFollowsLog == Screen!FairSpec
=============================================================================
