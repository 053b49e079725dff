------------------------- MODULE SessionViewProofs -------------------------
(***************************************************************************)
(* What a tab sees of a session, for a log of any length, any number of    *)
(* transactions and requests at once, and pages of any size.               *)
(***************************************************************************)
EXTENDS SessionView, FiniteSetTheorems, TLAPS

-----------------------------------------------------------------------------
(* Intervals and pages *)

\* The numbers behind a, up to b.
LEMMA IntervalCard ==
  ASSUME NEW a \in Nat, NEW b \in Nat, a <= b
  PROVE  IsFiniteSet((a + 1)..b) /\ Cardinality((a + 1)..b) = b - a
<1>1. IsFiniteSet((a + 1)..b)
      /\ Cardinality((a + 1)..b) = IF a + 1 > b THEN 0 ELSE b - (a + 1) + 1
  BY FS_Interval
<1> QED
  BY <1>1

LEMMA LogCard == ASSUME NEW n \in Nat PROVE IsFiniteSet(1..n) /\ Cardinality(1..n) = n
<1>1. IsFiniteSet(1..n) /\ Cardinality(1..n) = IF 1 > n THEN 0 ELSE n - 1 + 1
  BY FS_Interval
<1> QED
  BY <1>1

\* A page of numbers without a gap is read in their order.
LEMMA IntervalInOrder ==
  ASSUME NEW a \in Nat, NEW b \in Nat, a <= b
  PROVE  InOrder((a + 1)..b) = [i \in 1..(b - a) |-> a + i]
<1> DEFINE S == (a + 1)..b
<1>1. Cardinality(S) = b - a
  BY IntervalCard
<1>2. \A s \in S : Cardinality({t \in S : t <= s}) = s - a
  <2> SUFFICES ASSUME NEW s \in S PROVE Cardinality({t \in S : t <= s}) = s - a
    OBVIOUS
  <2>1. {t \in S : t <= s} = (a + 1)..s /\ s \in Nat /\ a <= s
    OBVIOUS
  <2> QED
    BY <2>1, IntervalCard
<1>3. ASSUME NEW i \in 1..(b - a)
      PROVE  (CHOOSE s \in S : Cardinality({t \in S : t <= s}) = i) = a + i
  <2>1. a + i \in S /\ (a + i) - a = i /\ \A s \in S : s - a = i => s = a + i
    OBVIOUS
  <2>2. Cardinality({t \in S : t <= a + i}) = i
    BY <1>2, <2>1
  <2>3. \A s \in S : Cardinality({t \in S : t <= s}) = i => s = a + i
    BY <1>2, <2>1
  <2> QED
    BY <2>1, <2>2, <2>3
<1> QED
  BY <1>1, <1>3 DEF InOrder

LEMMA IntervalMax ==
  ASSUME NEW a \in Nat, NEW b \in Nat, a < b
  PROVE  Max((a + 1)..b) = b
BY DEF Max

\* A page of a log without gaps is the next numbers.
LEMMA NextPage ==
  ASSUME NEW n \in Nat, log = 1..n, NEW a \in Nat, PageAfter(a) # {}
  PROVE  \E b \in Nat : a < b /\ b <= n /\ PageAfter(a) = (a + 1)..b
<1>1. ASSUME NEW s \in log, s > a
      PROVE  Cardinality({t \in log : a < t /\ t <= s}) = s - a
  <2>1. {t \in log : a < t /\ t <= s} = (a + 1)..s /\ s \in Nat /\ a <= s
    BY <1>1
  <2> QED
    BY <2>1, IntervalCard
<1>2. PageAfter(a) = {s \in log : s > a /\ s - a <= Page}
  BY <1>1 DEF PageAfter
<1>3. Page \in Nat
  BY ViewConstants
<1> DEFINE b == IF a + Page <= n THEN a + Page ELSE n
<1>4. b \in Nat /\ b <= n /\ PageAfter(a) = (a + 1)..b
  BY <1>2, <1>3
<1>5. a < b
  BY <1>4
<1> QED
  BY <1>4, <1>5

LEMMA FunctionSeq ==
  ASSUME NEW k \in Nat, NEW f \in [1..k -> Nat]
  PROVE  f \in Seq(Nat) /\ Len(f) = k
OBVIOUS

LEMMA Joined ==
  ASSUME NEW p \in Seq(Nat), NEW q \in Seq(Nat)
  PROVE  /\ p \o q \in Seq(Nat) /\ Len(p \o q) = Len(p) + Len(q)
         /\ Len(p) \in Nat /\ Len(q) \in Nat
         /\ \A i \in 1..Len(p) : (p \o q)[i] = p[i]
         /\ \A i \in 1..Len(q) : (p \o q)[Len(p) + i] = q[i]
OBVIOUS

-----------------------------------------------------------------------------
(* The invariant *)

Last == Cardinality(log)

\* Committed events are numbered without a gap, and at most one transaction holds
\* the numbers that follow.
Numbered ==
  /\ Last \in Nat /\ log = 1..Last
  /\ \E m \in Nat :
       m >= Last /\ \A w \in Writer : writing[w] \in {{}, (Last + 1)..m}
  /\ \A w, v \in Writer : writing[w] # {} /\ writing[v] # {} => w = v

\* Nothing the tab has seen is ahead of the log.
Behind == view <= Last /\ cursor <= Last /\ \A r \in Request : request[r].cursor <= Last

\* What is on the wire of an open stream continues what the tab handled, up to what
\* the server has sent.
Flowing ==
  /\ source # "OPEN" => wire = <<>>
  /\ source = "OPEN" =>
       /\ served = cursor + Len(wire) /\ served <= Last
       /\ \A i \in 1..Len(wire) : wire[i] = cursor + i

ViewInv == TypeOK /\ Numbered /\ Behind /\ Flowing

LEMMA ViewInvInit == Init => ViewInv
<1> SUFFICES ASSUME Init PROVE ViewInv
  OBVIOUS
<1> USE DEF Init
<1>1. Last = 0
  BY FS_EmptySet DEF Last
<1>2. TypeOK
  BY DEF TypeOK, NoRequest
<1>3. Numbered
  BY <1>1 DEF Numbered
<1>4. Behind /\ Flowing
  BY <1>1 DEF Behind, Flowing, NoRequest
<1> QED
  BY <1>2, <1>3, <1>4 DEF ViewInv

\* A transaction takes the next number.
LEMMA AppendInv ==
  ASSUME ViewInv, NEW w \in Writer, AppendEvent(w)
  PROVE  ViewInv'
<1> DEFINE n == Last
<1>1. PICK m \in Nat : m >= n /\ \A v \in Writer : writing[v] \in {{}, (n + 1)..m}
  BY DEF ViewInv, Numbered
<1>2. n \in Nat /\ log = 1..n /\ writing \in [Writer -> SUBSET Nat]
  BY DEF ViewInv, Numbered, TypeOK
<1>3. \A v \in Writer \ {w} : writing[v] = {}
  BY DEF AppendEvent, MayWrite
<1>4. Taken = log \cup writing[w]
  BY <1>3 DEF Taken
<1> HIDE DEF n
<1>5. PICK k \in Nat : k >= n /\ writing[w] = (n + 1)..k /\ Taken = 1..k
  <2>1. CASE writing[w] = {}
    <3>1. writing[w] = (n + 1)..n /\ Taken = 1..n
      BY <1>2, <1>4, <2>1
    <3> QED
      BY <1>2, <3>1
  <2>2. CASE writing[w] = (n + 1)..m
    <3>1. Taken = 1..m
      BY <1>1, <1>2, <1>4, <2>2
    <3> QED
      BY <1>1, <2>2, <3>1
  <2> QED
    BY <1>1, <2>1, <2>2
<1>6. Cardinality(Taken) = k
  BY <1>5, LogCard
<1>7. writing' = [writing EXCEPT ![w] = (n + 1)..(k + 1)]
  <2>1. (n + 1)..k \cup {k + 1} = (n + 1)..(k + 1)
    BY <1>2, <1>5
  <2> QED
    BY <1>5, <1>6, <2>1 DEF AppendEvent
<1>8. UNCHANGED <<log, access, request, view, stream>> /\ n' = n
  BY DEF AppendEvent, n, Last
<1>9. Numbered'
  <2>1. \A v \in Writer : writing'[v] \in {{}, (n + 1)..(k + 1)}
    BY <1>2, <1>3, <1>7
  <2>2. k + 1 \in Nat /\ k + 1 >= n
    BY <1>2, <1>5
  <2>3. \A v, u \in Writer : writing'[v] # {} /\ writing'[u] # {} => v = u
    BY <1>2, <1>3, <1>7
  <2> QED
    BY <1>2, <1>8, <2>1, <2>2, <2>3 DEF Numbered, n
<1>10. TypeOK'
  <2>1. (n + 1)..(k + 1) \in SUBSET Nat
    BY <1>2, <1>5
  <2> QED
    BY <1>7, <1>8, <2>1 DEF ViewInv, TypeOK, stream
<1>11. Behind' /\ Flowing'
  BY <1>8 DEF ViewInv, Behind, Flowing, stream, Last
<1> QED
  BY <1>9, <1>10, <1>11 DEF ViewInv

\* The events of a transaction are published at once, or never.
LEMMA EndFacts ==
  ASSUME ViewInv, NEW w \in Writer, NEW committed \in BOOLEAN, EndTransaction(w, committed)
  PROVE  /\ Last' \in Nat /\ log' = 1..Last'
         /\ IF committed THEN Last' > Last ELSE Last' = Last
         /\ \A v \in Writer : writing'[v] = {}
<1>1. PICK m \in Nat : m >= Last /\ \A v \in Writer : writing[v] \in {{}, (Last + 1)..m}
  BY DEF ViewInv, Numbered
<1>2. Last \in Nat /\ log = 1..Last /\ writing \in [Writer -> SUBSET Nat]
  BY DEF ViewInv, Numbered, TypeOK
<1>3. writing[w] = (Last + 1)..m /\ writing[w] # {}
  BY <1>1 DEF EndTransaction
<1>4. m > Last
  BY <1>1, <1>2, <1>3
<1>5. \A v \in Writer : writing'[v] = {}
  BY <1>2, <1>3 DEF EndTransaction, ViewInv, Numbered
<1>6. CASE committed
  <2>1. log' = 1..m
    BY <1>1, <1>2, <1>3, <1>4, <1>6 DEF EndTransaction
  <2>2. Last' = m
    BY <2>1, LogCard DEF Last
  <2> QED
    BY <1>4, <1>5, <1>6, <2>1, <2>2
<1>7. CASE ~committed
  <2>1. log' = log /\ Last' = Last
    BY <1>7 DEF EndTransaction, Last
  <2> QED
    BY <1>2, <1>5, <1>7, <2>1
<1> QED
  BY <1>6, <1>7

LEMMA EndInv ==
  ASSUME ViewInv, NEW w \in Writer, NEW committed \in BOOLEAN, EndTransaction(w, committed)
  PROVE  ViewInv'
<1>1. /\ Last' \in Nat /\ log' = 1..Last' /\ Last \in Nat /\ Last' >= Last
      /\ \A v \in Writer : writing'[v] = {}
  BY EndFacts DEF ViewInv, Numbered
<1>2. UNCHANGED <<access, request, view, stream>> /\ writing' = [writing EXCEPT ![w] = {}]
  BY DEF EndTransaction
<1>3. Numbered'
  BY <1>1 DEF Numbered
<1>4. TypeOK'
  BY <1>1, <1>2 DEF ViewInv, TypeOK, stream
<1>5. Behind'
  <2> SUFFICES \A x \in Nat : x <= Last => x <= Last'
    BY <1>2 DEF ViewInv, TypeOK, Behind, stream
  <2> QED
    BY <1>1
<1>6. Flowing'
  BY <1>1, <1>2 DEF ViewInv, TypeOK, Flowing, stream
<1> QED
  BY <1>3, <1>4, <1>5, <1>6 DEF ViewInv

\* Requests and answers keep to the log.
LEMMA RequestInv ==
  ASSUME ViewInv, NEW r \in Request, RequestStep(r)
  PROVE  ViewInv'
<1>1. UNCHANGED server /\ Last' = Last /\ Last \in Nat
  BY DEF RequestStep, Reload, Snapshot, Deny, LoseAnswer, Receive, ReceiveDenial, server, Last,
         ViewInv, Numbered
<1>2. Numbered'
  BY <1>1 DEF ViewInv, Numbered, server
<1>3. PICK a \in [state : {"NONE", "SENT", "DENIED", "ANSWERED"}, cursor : Nat] :
        request' = [request EXCEPT ![r] = a] /\ a.cursor <= Last
  <2>1. /\ NoRequest.cursor = 0 /\ Sent.cursor = 0 /\ Denied.cursor = 0
        /\ Answer(Cardinality(log)).cursor = Last
        /\ {NoRequest, Sent, Denied, Answer(Cardinality(log))}
             \subseteq [state : {"NONE", "SENT", "DENIED", "ANSWERED"}, cursor : Nat]
    BY <1>1 DEF NoRequest, Sent, Denied, Answer, Last
  <2>2. \E a \in {NoRequest, Sent, Denied, Answer(Cardinality(log))} : request' = [request EXCEPT ![r] = a]
    <3> DEFINE Becomes(a) == request' = [request EXCEPT ![r] = a]
    <3>1. Reload(r) => Becomes(Sent)
      BY DEF Reload
    <3>2. Snapshot(r) => Becomes(Answer(Cardinality(log)))
      BY DEF Snapshot
    <3>3. Deny(r) => Becomes(Denied)
      BY DEF Deny
    <3>4. LoseAnswer(r) \/ Receive(r) \/ ReceiveDenial(r) => Becomes(NoRequest)
      BY DEF LoseAnswer, Receive, ReceiveDenial
    <3> HIDE DEF Becomes
    <3>5. \E a \in {NoRequest, Sent, Denied, Answer(Cardinality(log))} : Becomes(a)
      BY <3>1, <3>2, <3>3, <3>4 DEF RequestStep
    <3> QED
      BY <3>5 DEF Becomes
  <2>3. PICK a \in {NoRequest, Sent, Denied, Answer(Cardinality(log))} : request' = [request EXCEPT ![r] = a]
    BY <2>2
  <2>4. a \in [state : {"NONE", "SENT", "DENIED", "ANSWERED"}, cursor : Nat] /\ a.cursor <= Last
    BY <1>1, <2>1
  <2> QED
    BY <2>3, <2>4
<1>4. /\ view' \in Nat /\ cursor' \in Nat /\ served' \in Nat /\ view' <= Last /\ cursor' <= Last
      /\ source' \in {"NONE", "CONNECTING", "OPEN", "CLOSED"}
  <2>1. /\ view \in Nat /\ cursor \in Nat /\ served \in Nat /\ view <= Last /\ cursor <= Last
        /\ source \in {"NONE", "CONNECTING", "OPEN", "CLOSED"}
        /\ request[r].cursor \in Nat /\ request[r].cursor <= Last
    BY DEF ViewInv, TypeOK, Behind
  <2>2. CASE Receive(r)
    BY <2>1, <2>2 DEF Receive, Connect, Newer, stream
  <2>3. CASE UNCHANGED <<view, cursor, served>> /\ (source' = source \/ source' = "NONE")
    BY <2>1, <2>3
  <2>4. ASSUME Reload(r) \/ Snapshot(r) \/ Deny(r) \/ LoseAnswer(r) \/ ReceiveDenial(r)
        PROVE  UNCHANGED <<view, cursor, served>> /\ (source' = source \/ source' = "NONE")
    BY <2>4 DEF Reload, Snapshot, Deny, LoseAnswer, ReceiveDenial, stream
  <2> QED
    BY <2>2, <2>3, <2>4 DEF RequestStep
<1>5. \/ UNCHANGED stream
      \/ source' # "OPEN" /\ wire' = <<>>
  <2>1. source = "NONE" => wire = <<>>
    BY DEF ViewInv, Flowing
  <2>2. CASE Receive(r)
    BY <2>1, <2>2 DEF Receive, Connect
  <2>3. CASE ReceiveDenial(r)
    BY <2>3 DEF ReceiveDenial
  <2>4. CASE Reload(r) \/ Snapshot(r) \/ Deny(r) \/ LoseAnswer(r)
    BY <2>4 DEF Reload, Snapshot, Deny, LoseAnswer
  <2> QED
    BY <2>2, <2>3, <2>4 DEF RequestStep
<1>6. TypeOK'
  <2>1. request' \in [Request -> [state : {"NONE", "SENT", "DENIED", "ANSWERED"}, cursor : Nat]]
    BY <1>3 DEF ViewInv, TypeOK
  <2>2. wire' \in Seq(Nat)
    <3>1. wire \in Seq(Nat) /\ <<>> \in Seq(Nat)
      BY DEF ViewInv, TypeOK
    <3>2. wire' = wire \/ wire' = <<>>
      BY <1>5 DEF stream
    <3> QED
      BY <3>1, <3>2
  <2>3. log' \subseteq Nat /\ writing' \in [Writer -> SUBSET Nat] /\ access' \in BOOLEAN
    BY <1>1 DEF ViewInv, TypeOK, server
  <2> QED
    BY <1>4, <2>1, <2>2, <2>3 DEF TypeOK
<1>7. Behind'
  BY <1>1, <1>3, <1>4 DEF ViewInv, TypeOK, Behind
<1>8. Flowing'
  BY <1>1, <1>5 DEF ViewInv, Flowing, stream
<1> QED
  BY <1>2, <1>6, <1>7, <1>8 DEF ViewInv

\* The steps of the stream but the next page.
LEMMA QuietStreamInv ==
  ASSUME ViewInv, OpenStream \/ RefuseStream \/ BreakStream
  PROVE  ViewInv'
<1>1. /\ UNCHANGED server /\ UNCHANGED <<request, view, cursor>> /\ Last' = Last
      /\ source' \in {"NONE", "CONNECTING", "OPEN", "CLOSED"}
  BY DEF OpenStream, RefuseStream, BreakStream, server, Last
<1>2. wire' = <<>> /\ <<>> \in Seq(Nat)
  BY DEF ViewInv, Flowing, OpenStream, RefuseStream, BreakStream
<1>3. served' \in Nat /\ (source' = "OPEN" => served' = cursor)
  BY DEF ViewInv, TypeOK, OpenStream, RefuseStream, BreakStream, StartAt
<1>4. TypeOK'
  BY <1>1, <1>2, <1>3 DEF ViewInv, TypeOK, server
<1>5. Numbered' /\ Behind'
  BY <1>1 DEF ViewInv, Numbered, Behind, server
<1>6. Flowing'
  BY <1>1, <1>2, <1>3 DEF ViewInv, TypeOK, Behind, Flowing
<1> QED
  BY <1>4, <1>5, <1>6 DEF ViewInv

\* The next page follows what was sent.
LEMMA ServeInv == ASSUME ViewInv, ServePage PROVE ViewInv'
<1>1. PICK b \in Nat : served < b /\ b <= Last /\ PageAfter(served) = (served + 1)..b
  BY NextPage DEF ViewInv, TypeOK, Numbered, ServePage
<1> DEFINE more == [i \in 1..(b - served) |-> served + i]
<1>2. served \in Nat /\ cursor \in Nat /\ wire \in Seq(Nat)
  BY DEF ViewInv, TypeOK
<1>3. /\ wire' = wire \o more /\ served' = b /\ source = "OPEN"
      /\ UNCHANGED <<server, request, view, source, cursor>>
  <2>1. InOrder(PageAfter(served)) = more
    BY <1>1, <1>2, IntervalInOrder
  <2>2. Max(PageAfter(served)) = b
    BY <1>1, <1>2, IntervalMax
  <2> QED
    BY <2>1, <2>2 DEF ServePage
<1>4. more \in Seq(Nat) /\ Len(more) = b - served /\ b - served \in Nat
  <2>1. b - served \in Nat /\ more \in [1..(b - served) -> Nat]
    BY <1>1, <1>2
  <2> QED
    BY <2>1, FunctionSeq
<1>5. \A i \in 1..(b - served) : more[i] = served + i
  OBVIOUS
<1> HIDE DEF more
<1>6. /\ served = cursor + Len(wire) /\ \A i \in 1..Len(wire) : wire[i] = cursor + i
  <2>1. source = "OPEN"
    BY DEF ServePage
  <2> QED
    BY <2>1 DEF ViewInv, Flowing
<1>7. wire' \in Seq(Nat) /\ Len(wire') = Len(wire) + (b - served) /\ Len(wire) \in Nat
  BY <1>2, <1>3, <1>4, Joined
<1>8. served' = cursor + Len(wire')
  BY <1>1, <1>2, <1>3, <1>6, <1>7
<1>9. ASSUME NEW i \in 1..Len(wire') PROVE wire'[i] = cursor + i
  <2>1. CASE i <= Len(wire)
    <3>1. i \in 1..Len(wire)
      BY <1>7, <2>1
    <3>2. wire'[i] = wire[i]
      BY <1>2, <1>3, <1>4, <3>1, Joined
    <3> QED
      BY <1>6, <3>1, <3>2
  <2>2. CASE ~(i <= Len(wire))
    <3> DEFINE j == i - Len(wire)
    <3>1. j \in 1..(b - served) /\ i = Len(wire) + j
      BY <1>1, <1>2, <1>7, <2>2
    <3> HIDE DEF j
    <3>2. wire'[Len(wire) + j] = more[j]
      BY <1>2, <1>3, <1>4, <3>1, Joined
    <3>3. more[j] = served + j /\ j \in Nat
      BY <1>5, <3>1
    <3> QED
      BY <1>2, <1>6, <1>7, <3>1, <3>2, <3>3
  <2> QED
    BY <2>1, <2>2
<1>10. Last' = Last
  BY <1>3 DEF server, Last
<1>11. TypeOK'
  BY <1>1, <1>3, <1>7 DEF ViewInv, TypeOK, server
<1>12. Numbered' /\ Behind'
  BY <1>3, <1>10 DEF ViewInv, Numbered, Behind, server
<1>13. Flowing'
  BY <1>1, <1>3, <1>8, <1>9, <1>10 DEF Flowing
<1> QED
  BY <1>11, <1>12, <1>13 DEF ViewInv

\* The event at the head of the wire is the next one.
LEMMA HandleFacts ==
  ASSUME ViewInv, HandleEvent
  PROVE  /\ cursor' = cursor + 1 /\ cursor' <= Last /\ cursor \in Nat
         /\ Len(wire) \in Nat \ {0} /\ wire' \in Seq(Nat) /\ Len(wire') = Len(wire) - 1
         /\ \A i \in 1..Len(wire') : wire'[i] = wire[i + 1]
         /\ served = cursor + Len(wire)
         /\ \A i \in 1..Len(wire) : wire[i] = cursor + i
<1>1. /\ wire \in Seq(Nat) /\ wire # <<>> /\ cursor \in Nat /\ served <= Last /\ Last \in Nat
      /\ served = cursor + Len(wire) /\ \A i \in 1..Len(wire) : wire[i] = cursor + i
  BY DEF ViewInv, TypeOK, Numbered, Flowing, HandleEvent
<1>2. Len(wire) \in Nat \ {0} /\ Head(wire) = wire[1] /\ wire' = Tail(wire)
  BY <1>1 DEF HandleEvent
<1>3. Head(wire) = cursor + 1
  BY <1>1, <1>2
<1>4. cursor' = cursor + 1
  BY <1>1, <1>3 DEF HandleEvent
<1>5. wire' \in Seq(Nat) /\ Len(wire') = Len(wire) - 1
      /\ \A i \in 1..Len(wire') : wire'[i] = wire[i + 1]
  BY <1>1, <1>2
<1> QED
  BY <1>1, <1>2, <1>4, <1>5

LEMMA HandleInv == ASSUME ViewInv, HandleEvent PROVE ViewInv'
<1>1. /\ UNCHANGED <<server, request, view, source, served>> /\ Last' = Last /\ source = "OPEN"
  BY DEF HandleEvent, server, Last
<1>2. TypeOK'
  BY <1>1, HandleFacts DEF ViewInv, TypeOK, server
<1>3. Numbered' /\ Behind'
  BY <1>1, HandleFacts DEF ViewInv, Numbered, Behind, server
<1>4. Flowing'
  <2>1. served' = cursor' + Len(wire')
    <3>1. /\ served' = cursor + Len(wire) /\ cursor' = cursor + 1 /\ cursor \in Nat
          /\ Len(wire') = Len(wire) - 1 /\ Len(wire) \in Nat
      BY <1>1, HandleFacts
    <3> QED
      BY <3>1
  <2>2. \A i \in 1..Len(wire') : wire'[i] = cursor' + i
    <3> SUFFICES ASSUME NEW i \in 1..Len(wire') PROVE wire'[i] = cursor' + i
      OBVIOUS
    <3>1. i + 1 \in 1..Len(wire) /\ wire'[i] = wire[i + 1] /\ i \in Nat
      BY HandleFacts
    <3> QED
      BY <3>1, HandleFacts
  <2> QED
    BY <1>1, <2>1, <2>2 DEF ViewInv, Flowing
<1> QED
  BY <1>2, <1>3, <1>4 DEF ViewInv

LEMMA ViewInvStep == ViewInv /\ [Next]_vars => ViewInv'
<1> SUFFICES ASSUME ViewInv, [Next]_vars PROVE ViewInv'
  OBVIOUS
<1>1. CASE ChangeAccess
  BY <1>1 DEF ChangeAccess, ViewInv, TypeOK, Numbered, Behind, Flowing, stream, Last
<1>2. CASE UNCHANGED vars
  BY <1>2 DEF vars, ViewInv, TypeOK, Numbered, Behind, Flowing, Last
<1> QED
  BY <1>1, <1>2, AppendInv, EndInv, RequestInv, QuietStreamInv, ServeInv, HandleInv
     DEF Next, WriterStep, StreamStep

\* Numbers stay naturals.
THEOREM TypeCorrect == Spec => []TypeOK
<1>1. ViewInv => TypeOK
  BY DEF ViewInv
<1> QED
  BY <1>1, ViewInvInit, ViewInvStep, PTL DEF Spec

-----------------------------------------------------------------------------
(* What the tab handles, and what it shows *)

\* A tab handles the events of a session one after the other: whatever transactions
\* overlap, pages are full, connections break or answers overtake each other, it
\* never goes from an event to a later one than the next.
THEOREM EventsComeInOrder == Spec => NoEventSkipped
<1>1. ViewInv /\ [Next]_vars => [cursor' > cursor /\ source # "NONE" => cursor' = cursor + 1]_vars
  <2> SUFFICES ASSUME ViewInv, Next, cursor' > cursor, source # "NONE" PROVE cursor' = cursor + 1
    OBVIOUS
  <2>1. cursor \in Nat /\ cursor' # cursor
    BY DEF ViewInv, TypeOK
  <2>2. HandleEvent
    BY <2>1 DEF Next, WriterStep, AppendEvent, EndTransaction, RequestStep, Reload, Snapshot, Deny,
                LoseAnswer, Receive, Connect, ReceiveDenial, StreamStep, OpenStream, RefuseStream,
                BreakStream, ServePage, ChangeAccess, stream
  <2> QED
    BY <2>2, HandleFacts
<1> QED
  BY <1>1, ViewInvInit, ViewInvStep, PTL DEF Spec, NoEventSkipped

LEMMA ReplicaStep == ViewInv /\ [Next]_vars => [Screen!Next]_(Screen!vars)
<1> SUFFICES ASSUME ViewInv, Next PROVE [Screen!Next]_(Screen!vars)
  BY DEF vars, Screen!vars
<1> USE DEF Screen!vars
<1>1. ASSUME NEW w \in Writer, AppendEvent(w) PROVE UNCHANGED Screen!vars
  BY <1>1 DEF AppendEvent
<1>2. ASSUME NEW w \in Writer, NEW committed \in BOOLEAN, EndTransaction(w, committed)
      PROVE  [Screen!Next]_(Screen!vars)
  <2>1. UNCHANGED <<view, access>>
    BY <1>2 DEF EndTransaction
  <2>2. IF committed THEN Last' > Last ELSE Last' = Last
    BY <1>2, EndFacts
  <2> QED
    BY <2>1, <2>2 DEF Screen!Next, Screen!Publish, Last
<1>3. ASSUME NEW r \in Request, RequestStep(r), ~Receive(r) PROVE UNCHANGED Screen!vars
  BY <1>3 DEF RequestStep, Reload, Snapshot, Deny, LoseAnswer, ReceiveDenial, server
<1>4. ASSUME NEW r \in Request, Receive(r) PROVE [Screen!Next]_(Screen!vars)
  <2>1. /\ request[r].cursor \in Nat /\ request[r].cursor <= Cardinality(log)
        /\ view \in Nat /\ Cardinality(log) \in Nat /\ access \in BOOLEAN
    BY DEF ViewInv, TypeOK, Numbered, Behind, Last
  <2>2. UNCHANGED <<log, access>> /\ view' = Newer(request[r].cursor)
    BY <1>4 DEF Receive, server
  <2>3. view' = view \/ view' \in (view + 1)..Cardinality(log)
    BY <2>1, <2>2 DEF Newer
  <2> QED
    BY <2>1, <2>2, <2>3 DEF Screen!Next, Screen!Show, Screen!ShowLate
<1>5. StreamStep => UNCHANGED Screen!vars
  BY DEF StreamStep, OpenStream, RefuseStream, BreakStream, ServePage, HandleEvent, server
<1>6. ChangeAccess => Screen!Next
  BY DEF ChangeAccess, Screen!Next, Screen!Permit
<1> QED
  BY <1>1, <1>2, <1>3, <1>4, <1>5, <1>6 DEF Next, WriterStep

\* The screen is a replica of the log: it shows a prefix of what was committed and
\* never goes back.  That it catches up is left to the run.
THEOREM ScreenShowsAPrefix == Spec => Screen!Spec
<1>1. Init => Screen!Init
  BY FS_EmptySet DEF Init, Screen!Init
<1> QED
  BY <1>1, ReplicaStep, ViewInvInit, ViewInvStep, PTL DEF Spec, Screen!Spec
=============================================================================
