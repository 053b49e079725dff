----------------------- MODULE SessionCommandsProofs -----------------------
(***************************************************************************)
(* What the commands promise, for any number of transactions, sessions and *)
(* keys.                                                                   *)
(***************************************************************************)
EXTENDS SessionCommands, TLAPS

-----------------------------------------------------------------------------
(* Requests, their keys and their locks *)

\* The kind of a request tells what it is.
LEMMA Kinds ==
  ASSUME NEW r \in Request
  PROVE  /\ r = Workspace <=> r.kind = "WORKSPACE"
         /\ r \in Status <=> r.kind \in {"ARCHIVE", "RESTORE", "DELETE"}
         /\ r \in Decide <=> r.kind = "DECIDE"
         /\ r \in Message <=> r.kind \in {"SEND", "SCHEDULE"}
         /\ r \in DropOrder <=> r.kind = "DROP_ORDER"
         /\ r.kind \in {"WORKSPACE", "ARCHIVE", "RESTORE", "DELETE", "DECIDE", "SEND",
                        "SCHEDULE", "DROP_ORDER"}
         /\ r.kind # "WORKSPACE" => r.session \in Session
BY DEF Request, Workspace, Status, Decide, Message, DropOrder

\* Under which key a request is sent.
Belongs(k, r) ==
  \/ k \in WorkspaceKey /\ r = Workspace
  \/ k \in CommandKey /\ r \in Status \cup Decide
  \/ k \in MessageKey /\ r \in Message /\ k[2] = r.session
  \/ k = None /\ r \in DropOrder

\* The locks one by one.
LEMMA Paths ==
  ASSUME NEW k, NEW r \in Request
  PROVE  /\ r.kind = "WORKSPACE" =>
              Len(Path(k, r)) = 2 /\ Path(k, r)[1] = UserRow /\ Path(k, r)[2] = KeyLock(k)
         /\ r.kind \in {"ARCHIVE", "RESTORE", "DELETE"} =>
              /\ Len(Path(k, r)) = 2
              /\ Path(k, r)[1] = KeyLock(k) /\ Path(k, r)[2] = SessionRow(r.session)
         /\ r.kind = "DECIDE" =>
              /\ Len(Path(k, r)) = 4
              /\ Path(k, r)[1] = KeyLock(k) /\ Path(k, r)[2] = SessionRow(r.session)
              /\ Path(k, r)[3] = DraftRow(r.session) /\ Path(k, r)[4] = Inputs
         /\ r.kind = "SEND" => Len(Path(k, r)) = 1 /\ Path(k, r)[1] = SessionRow(r.session)
         /\ r.kind = "SCHEDULE" =>
              Len(Path(k, r)) = 2 /\ Path(k, r)[1] = SessionRow(r.session) /\ Path(k, r)[2] = Inputs
         /\ r.kind = "DROP_ORDER" =>
              Len(Path(k, r)) = 2 /\ Path(k, r)[1] = Inputs /\ Path(k, r)[2] = DraftRow(r.session)
<1>1. r.kind = "WORKSPACE" => Path(k, r) = <<UserRow, KeyLock(k)>>
  BY Zenon DEF Path
<1>2. r.kind \in {"ARCHIVE", "RESTORE", "DELETE"} => Path(k, r) = <<KeyLock(k), SessionRow(r.session)>>
  BY Zenon DEF Path
<1>3. r.kind = "DECIDE" =>
        Path(k, r) = <<KeyLock(k), SessionRow(r.session), DraftRow(r.session), Inputs>>
  BY Zenon DEF Path
<1>4. r.kind = "SEND" => Path(k, r) = <<SessionRow(r.session)>>
  BY Zenon DEF Path
<1>5. r.kind = "SCHEDULE" => Path(k, r) = <<SessionRow(r.session), Inputs>>
  BY Zenon DEF Path, SchedulePath
<1>6. r.kind = "DROP_ORDER" => Path(k, r) = <<Inputs, DraftRow(r.session)>>
  BY Zenon DEF Path
<1> QED
  BY <1>1, <1>2, <1>3, <1>4, <1>5, <1>6

\* Locks of different kinds are different locks.
LEMMA LocksDiffer ==
  /\ UserRow # Inputs
  /\ \A k : KeyLock(k) # UserRow /\ KeyLock(k) # Inputs
  /\ \A s : SessionRow(s) # UserRow /\ SessionRow(s) # Inputs
  /\ \A s : DraftRow(s) # UserRow /\ DraftRow(s) # Inputs
  /\ \A k, s : KeyLock(k) # SessionRow(s) /\ KeyLock(k) # DraftRow(s)
  /\ \A s, z : SessionRow(s) # DraftRow(z)
  /\ \A k, j : KeyLock(k) = KeyLock(j) => k = j
  /\ \A s, z : SessionRow(s) = SessionRow(z) => s = z
  /\ \A s, z : DraftRow(s) = DraftRow(z) => s = z
BY DEF UserRow, Inputs, KeyLock, SessionRow, DraftRow

-----------------------------------------------------------------------------
(* Rows, requests and their keys keep together *)

KeysBelong ==
  /\ \A t \in Running : Belongs(txn[t].key, txn[t].request) /\ txn[t].got <= Len(Locks(t))
  /\ \A k \in Key : outcome[k] # None =>
       Belongs(k, outcome[k].request) /\ (k \in MessageKey => outcome[k].session = k[2])

Rows == TypeOK /\ KeysBelong

\* What a step may do to the transactions: one starts, one takes its next lock, or
\* one ends.
TakesNext(t) ==
  /\ t \in Running /\ ~AllTaken(t) /\ Available(t)
  /\ txn' = [txn EXCEPT ![t].got = @ + 1]

Starts(t) ==
  \E k \in Key \cup {None}, r \in Request :
    /\ Belongs(k, r)
    /\ txn' = [txn EXCEPT ![t] = [key |-> k, request |-> r, got |-> 0]]

Ends(t) == txn' = [txn EXCEPT ![t] = None]

LEMMA TransactionSteps ==
  ASSUME Next
  PROVE  \/ txn' = txn
         \/ \E t \in Txn : (txn[t] = None /\ Starts(t)) \/ TakesNext(t) \/ Ends(t)
<1> USE DEF Running, TakesNext, Starts, Ends, Takes, Answer, End, Proceed
<1>1. ASSUME NEW t \in Txn, SubmitAny(t) PROVE txn[t] = None /\ Starts(t)
  <2>1. ASSUME NEW k \in WorkspaceKey, Submit(t, k, Workspace) PROVE txn[t] = None /\ Starts(t)
    BY <2>1 DEF Submit, Request, Key, Belongs
  <2>2. ASSUME NEW k \in CommandKey, NEW r \in Status \cup Decide, Submit(t, k, r)
        PROVE txn[t] = None /\ Starts(t)
    BY <2>2 DEF Submit, Request, Key, Belongs
  <2>3. ASSUME NEW i \in MessageId, NEW r \in Message, Submit(t, <<i, r.session>>, r)
        PROVE txn[t] = None /\ Starts(t)
    <3>1. r \in Request /\ r.session \in Session
      BY DEF Request, Message
    <3> QED
      BY <2>3, <3>1 DEF Submit, Key, MessageKey, Belongs
  <2> QED
    BY <1>1, <2>1, <2>2, <2>3 DEF SubmitAny
<1>2. ASSUME NEW t \in Txn, SubmitDrop(t) PROVE txn[t] = None /\ Starts(t)
  BY <1>2 DEF SubmitDrop, Request, Belongs
<1>3. ASSUME NEW t \in Txn, Abort(t) \/ Reject(t) PROVE Ends(t)
  BY <1>3 DEF Abort, Reject
<1>4. ASSUME NEW t \in Txn, LockUser(t) PROVE TakesNext(t) \/ Ends(t)
  BY <1>4 DEF LockUser
<1>5. ASSUME NEW t \in Txn, LockKey(t) PROVE TakesNext(t) \/ Ends(t)
  BY <1>5, Zenon DEF LockKey
<1>6. ASSUME NEW t \in Txn, LockSession(t) PROVE TakesNext(t) \/ Ends(t)
  BY <1>6, Zenon DEF LockSession
<1>7. ASSUME NEW t \in Txn, LockDraft(t) \/ LockInputs(t) PROVE TakesNext(t) \/ Ends(t)
  BY <1>7 DEF LockDraft, LockInputs
<1>8. ASSUME NEW t \in Txn,
             CreateSession(t) \/ ChangeStatus(t) \/ AcceptMessage(t) \/ DecideDraft(t)
               \/ DeleteOrder(t)
      PROVE Ends(t)
  BY <1>8 DEF CreateSession, ChangeStatus, AcceptMessage, DecideDraft, DeleteOrder, Commits
<1>9. ASSUME NEW s \in Session, FinishRun(s) \/ FinishDeletion(s) PROVE txn' = txn
  BY <1>9 DEF FinishRun, FinishDeletion
<1>10. Receive => txn' = txn
  BY DEF Receive
<1> QED
  BY <1>1, <1>2, <1>3, <1>4, <1>5, <1>6, <1>7, <1>8, <1>9, <1>10 DEF Next

\* What is known of a transaction that is under way.
LEMMA RunningFacts ==
  ASSUME Rows, NEW t \in Running
  PROVE  /\ t \in Txn /\ txn[t] \in Transaction
         /\ txn[t].key \in Key \cup {None} /\ txn[t].request \in Request
         /\ txn[t].got \in 0..4 /\ txn[t].got <= Len(Locks(t))
         /\ Belongs(txn[t].key, txn[t].request)
         /\ Len(Locks(t)) \in 1..4
<1>1. /\ txn[t] \in Transaction
      /\ txn[t].key \in Key \cup {None} /\ txn[t].request \in Request /\ txn[t].got \in 0..4
  BY DEF Rows, TypeOK, Running, Transaction
<1>2. Len(Locks(t)) \in 1..4
  BY <1>1, Kinds, Paths DEF Locks
<1> QED
  BY <1>1, <1>2 DEF Rows, KeysBelong, Running

\* The steps of a transaction keep its row and its key.
LEMMA RunningStep ==
  ASSUME Rows, [Next]_vars
  PROVE  /\ txn' \in [Txn -> Transaction \cup {None}]
         /\ \A t \in Running' : (Belongs(txn[t].key, txn[t].request) /\ txn[t].got <= Len(Locks(t)))'
<1> DEFINE Fine(t) == Belongs(txn[t].key, txn[t].request) /\ txn[t].got <= Len(Locks(t))
<1>1. txn \in [Txn -> Transaction \cup {None}]
  BY DEF Rows, TypeOK
<1>2. \A t \in Running : Fine(t)
  BY DEF Rows, KeysBelong
<1>3. CASE txn' = txn
  BY <1>1, <1>2, <1>3 DEF Running, Locks
<1>4. ASSUME NEW t \in Txn, Starts(t)
      PROVE  txn' \in [Txn -> Transaction \cup {None}] /\ \A u \in Running' : Fine(u)'
  <2>1. PICK k \in Key \cup {None}, r \in Request :
          Belongs(k, r) /\ txn' = [txn EXCEPT ![t] = [key |-> k, request |-> r, got |-> 0]]
    BY <1>4 DEF Starts
  <2>2. [key |-> k, request |-> r, got |-> 0] \in Transaction
    BY DEF Transaction
  <2>3. txn' \in [Txn -> Transaction \cup {None}]
    BY <1>1, <2>1, <2>2
  <2>4. Len(Path(k, r)) \in 1..4
    BY Kinds, Paths
  <2>5. Fine(t)'
    BY <1>1, <2>1, <2>4 DEF Locks
  <2>6. \A u \in Running' \ {t} : Fine(u)'
    BY <1>1, <1>2, <2>1 DEF Running, Locks
  <2> QED
    BY <2>3, <2>5, <2>6
<1>5. ASSUME NEW t \in Txn, TakesNext(t)
      PROVE  txn' \in [Txn -> Transaction \cup {None}] /\ \A u \in Running' : Fine(u)'
  <2>1. txn[t].got \in 0..4 /\ txn[t].got <= Len(Locks(t)) /\ Len(Locks(t)) \in 1..4 /\ t \in Running
        /\ txn[t] \in Transaction
    BY <1>5, RunningFacts DEF TakesNext
  <2>2. txn[t].got # Len(Locks(t))
    BY <1>5 DEF TakesNext, AllTaken
  <2>3. txn' = [txn EXCEPT ![t] = [key |-> txn[t].key, request |-> txn[t].request,
                                   got |-> txn[t].got + 1]]
    <3>1. [txn[t] EXCEPT !.got = @ + 1]
            = [key |-> txn[t].key, request |-> txn[t].request, got |-> txn[t].got + 1]
      BY <2>1 DEF Transaction
    <3> QED
      BY <1>5, <3>1 DEF TakesNext
  <2>4. [key |-> txn[t].key, request |-> txn[t].request, got |-> txn[t].got + 1] \in Transaction
    <3>1. txn[t].got + 1 \in 0..4
      <4> DEFINE n == Len(Locks(t))
      <4>1. n \in 1..4 /\ txn[t].got \in 0..4 /\ txn[t].got <= n /\ txn[t].got # n
        BY <2>1, <2>2
      <4> HIDE DEF n
      <4> QED
        BY <4>1
    <3>2. txn[t].key \in Key \cup {None} /\ txn[t].request \in Request
      BY <2>1 DEF Transaction
    <3> QED
      BY <3>1, <3>2 DEF Transaction
  <2>5. txn' \in [Txn -> Transaction \cup {None}]
    BY <1>1, <2>3, <2>4
  <2>6. Fine(t)'
    BY <1>1, <1>2, <2>1, <2>2, <2>3 DEF Locks
  <2>7. \A u \in Running' \ {t} : Fine(u)'
    BY <1>1, <1>2, <2>3 DEF Running, Locks
  <2> QED
    BY <2>5, <2>6, <2>7
<1>6. ASSUME NEW t \in Txn, Ends(t)
      PROVE  txn' \in [Txn -> Transaction \cup {None}] /\ \A u \in Running' : Fine(u)'
  BY <1>1, <1>2, <1>6 DEF Ends, Running, Locks
<1> QED
  BY <1>3, <1>4, <1>5, <1>6, TransactionSteps DEF vars

\* A transaction that ends answers with a result or refuses.
LEMMA AnswerType ==
  ASSUME Rows, NEW t \in Running, NEW a \in Result \cup {Refused}, Answer(t, a)
  PROVE  /\ reply' \in Reply \cup {None}
         /\ txn[t].key \in CommandKey \cup MessageKey =>
              reply' = [key |-> txn[t].key, request |-> txn[t].request, answer |-> a]
         /\ txn[t].key \notin CommandKey \cup MessageKey => reply' = None
BY RunningFacts DEF Answer, Reply

\* What is recorded was asked for, and is a result.
LEMMA RecordFacts ==
  ASSUME Rows, NEW t \in Running, txn[t].key \in Key, Record(t) # None
  PROVE  /\ Record(t) \in Outcome /\ Record(t).result \in Result
         /\ Record(t).request \in Request /\ Record(t).session \in Session
         /\ Belongs(txn[t].key, Record(t).request)
BY DEF Rows, TypeOK, KeysBelong, Record, Outcome

\* A transaction that commits records its request, its session and a result.
LEMMA CommitsType ==
  ASSUME Rows, NEW t \in Running, txn[t].key \in Key, NEW s \in Session, NEW result \in Result,
         txn[t].key \in MessageKey => s = txn[t].key[2],
         Commits(t, s, result)
  PROVE  /\ outcome' \in [Key -> Outcome \cup {None}]
         /\ \A k \in Key : outcome'[k] # None =>
              /\ Belongs(k, outcome'[k].request)
              /\ k \in MessageKey => outcome'[k].session = k[2]
         /\ reply' \in Reply \cup {None}
<1> DEFINE new == [request |-> txn[t].request, session |-> s, result |-> result]
<1>1. new \in Outcome /\ Belongs(txn[t].key, new.request)
  BY RunningFacts DEF Outcome
<1>2. outcome' = [outcome EXCEPT ![txn[t].key] = new]
  BY DEF Commits
<1>3. outcome' \in [Key -> Outcome \cup {None}]
  BY <1>1, <1>2 DEF Rows, TypeOK
<1>4. \A k \in Key : outcome'[k] # None =>
        Belongs(k, outcome'[k].request) /\ (k \in MessageKey => outcome'[k].session = k[2])
  BY <1>1, <1>2 DEF Rows, TypeOK, KeysBelong
<1> QED
  BY <1>3, <1>4, AnswerType DEF Commits

-----------------------------------------------------------------------------
(* Every row keeps its range *)

LEMMA RowsInit == Init => Rows
BY CommandConstants DEF Init, Rows, TypeOK, KeysBelong, Running

\* What a step writes beside the transactions.
RowsWritten ==
  /\ status' \in [Session -> {"NONE", "ACTIVE", "ARCHIVED", "DELETING", "GONE"}]
  /\ revision' \in [Session -> Nat]
  /\ busy' \in [Session -> BOOLEAN]
  /\ draft' \in [Session -> {"OPEN", "DECIDED", "DROPPED"}]
  /\ outcome' \in [Key -> Outcome \cup {None}]
  /\ reply' \in Reply \cup {None}
  /\ \A k \in Key : outcome'[k] # None =>
       Belongs(k, outcome'[k].request) /\ (k \in MessageKey => outcome'[k].session = k[2])

LEMMA QuietWritten ==
  ASSUME Rows, UNCHANGED <<sessions, outcome>>, reply' = None \/ reply' = reply
  PROVE  RowsWritten
BY DEF Rows, TypeOK, KeysBelong, RowsWritten, sessions

\* A transaction that ends without an effect answers with a result or refuses.
LEMMA EndWritten ==
  ASSUME Rows, NEW t \in Running, NEW a \in Result \cup {Refused}, End(t, a)
  PROVE  RowsWritten
BY AnswerType DEF End, Rows, TypeOK, KeysBelong, RowsWritten, sessions

LEMMA ProceedWritten ==
  ASSUME Rows, NEW t \in Txn, Proceed(t)
  PROVE  RowsWritten
BY QuietWritten DEF Proceed

LEMMA LockUserWritten == ASSUME Rows, NEW t \in Txn, LockUser(t) PROVE RowsWritten
<1>1. t \in Running
  BY DEF LockUser, Takes, Running
<1>2. \A s \in Active : s \in Result
  BY DEF Active, Result
<1> QED
  BY <1>1, <1>2, EndWritten, ProceedWritten DEF LockUser

\* A command finds nothing under its key, the result of a repetition, or is refused.
LEMMA LockKeyCases ==
  ASSUME NEW t \in Txn, LockKey(t)
  PROVE  /\ t \in Running /\ Takes(t, KeyLock(txn[t].key))
         /\ \/ Record(t) = None /\ Proceed(t)
            \/ Repeated(t) /\ Readable(txn[t].key, txn[t].request) /\ End(t, Record(t).result)
            \/ /\ Record(t) # None /\ End(t, Refused)
               /\ ~(Repeated(t) /\ Readable(txn[t].key, txn[t].request))
<1>1. t \in Running
  BY DEF LockKey, Running
<1> QED
  BY <1>1, Zenon DEF LockKey

\* Only a transaction with a key meets the lock of a key.
LEMMA KeyLockTaken ==
  ASSUME Rows, NEW t \in Running, Takes(t, KeyLock(txn[t].key))
  PROVE  txn[t].key \in WorkspaceKey \cup CommandKey /\ txn[t].request.kind # "DROP_ORDER"
<1> DEFINE r == txn[t].request
           n == txn[t].got
<1>1. r \in Request /\ n \in 0..4 /\ n <= Len(Locks(t)) /\ Belongs(txn[t].key, r)
  BY RunningFacts
<1>2. Locks(t)[n + 1] = KeyLock(txn[t].key) /\ n # Len(Locks(t))
  BY DEF Takes, Wanted, AllTaken
<1>3. r.kind \notin {"SEND", "SCHEDULE", "DROP_ORDER"}
  BY <1>1, <1>2, Paths, LocksDiffer DEF Locks
<1> QED
  BY <1>1, <1>3, Kinds DEF Belongs

LEMMA LockKeyWritten == ASSUME Rows, NEW t \in Txn, LockKey(t) PROVE RowsWritten
<1>1. txn[t].key \in Key
  BY LockKeyCases, KeyLockTaken DEF Key
<1>2. Repeated(t) => Record(t).result \in Result
  BY <1>1, LockKeyCases, RecordFacts DEF Repeated
<1> QED
  BY <1>2, LockKeyCases, EndWritten, ProceedWritten

\* A transaction that meets the row of its session.
LEMMA LockSessionCases ==
  ASSUME NEW t \in Txn, LockSession(t)
  PROVE  /\ t \in Running /\ txn[t].request # Workspace
         /\ Takes(t, SessionRow(txn[t].request.session))
         /\ \/ Accepted(t) /\ End(t, Record(t).result)
            \/ ~Accepted(t) /\ Acceptable(t) /\ Proceed(t)
            \/ ~Accepted(t) /\ ~Acceptable(t) /\ End(t, Refused)
<1>1. t \in Running
  BY DEF LockSession, Running
<1> QED
  BY <1>1, Zenon DEF LockSession

LEMMA LockSessionWritten == ASSUME Rows, NEW t \in Txn, LockSession(t) PROVE RowsWritten
<1>1. Accepted(t) => Record(t).result \in Result
  <2> SUFFICES ASSUME Accepted(t) PROVE Record(t).result \in Result
    OBVIOUS
  <2>1. txn[t].request \in Message /\ Record(t) # None
    BY DEF Accepted, Repeated
  <2>2. txn[t].key \in Key
    BY <2>1, LockSessionCases, RunningFacts, Kinds DEF Belongs, Key
  <2> QED
    BY <2>1, <2>2, LockSessionCases, RecordFacts
<1> QED
  BY <1>1, LockSessionCases, EndWritten, ProceedWritten

\* A transaction that is ready to commit.
LEMMA ReadyFacts ==
  ASSUME Rows, NEW t \in Txn, NEW kinds, Ready(t, kinds)
  PROVE  /\ t \in Running /\ AllTaken(t) /\ Available(t)
         /\ txn[t].request \in Request /\ txn[t].request.kind \in kinds
         /\ Belongs(txn[t].key, txn[t].request)
         /\ txn[t].request.kind # "DROP_ORDER" => txn[t].key \in Key
         /\ txn[t].request.kind # "WORKSPACE" => txn[t].request.session \in Session
<1>1. t \in Running
  BY DEF Ready, Running
<1> QED
  BY <1>1, RunningFacts, Kinds DEF Ready, Belongs, Key

\* The effect of each command, with the result it records.
LEMMA CreateSessionWritten == ASSUME Rows, NEW t \in Txn, CreateSession(t) PROVE RowsWritten
<1>1. PICK s \in Session :
        status' = [status EXCEPT ![s] = "ACTIVE"] /\ Commits(t, s, s)
  BY DEF CreateSession
<1>2. Ready(t, {"WORKSPACE"}) /\ UNCHANGED <<revision, busy, draft>>
  BY DEF CreateSession
<1>3. t \in Running /\ txn[t].key \in Key /\ txn[t].key \notin MessageKey
  BY <1>2, ReadyFacts, Kinds, KeysDiffer DEF Belongs
<1>4. s \in Result
  BY DEF Result
<1>5. status' \in [Session -> {"NONE", "ACTIVE", "ARCHIVED", "DELETING", "GONE"}]
  BY <1>1 DEF Rows, TypeOK
<1> QED
  BY <1>1, <1>2, <1>3, <1>4, <1>5, CommitsType DEF Rows, TypeOK, RowsWritten

\* The status a session gets is one of these.
NewStatus(t) ==
  CASE txn[t].request.kind = "ARCHIVE" -> "ARCHIVED"
    [] txn[t].request.kind = "RESTORE" -> "ACTIVE"
    [] txn[t].request.kind = "DELETE" -> "DELETING"

LEMMA ChangeStatusEffect ==
  ASSUME Rows, NEW t \in Txn, ChangeStatus(t)
  PROVE  LET s == txn[t].request.session IN
         /\ t \in Running /\ AllTaken(t) /\ Available(t)
         /\ txn[t].request \in Status /\ txn[t].key \in CommandKey /\ s \in Session
         /\ NewStatus(t) \in {"ARCHIVED", "ACTIVE", "DELETING"}
         /\ NewStatus(t) = "ACTIVE" => txn[t].request.kind = "RESTORE"
         /\ status' = [status EXCEPT ![s] = NewStatus(t)]
         /\ busy' = [busy EXCEPT ![s] = FALSE]
         /\ revision' = [revision EXCEPT ![s] = @ + 1]
         /\ Commits(t, s, <<NewStatus(t), revision[s] + 1>>)
         /\ draft' = draft
<1> DEFINE s == txn[t].request.session
<1>1. Ready(t, {"ARCHIVE", "RESTORE", "DELETE"})
  BY DEF ChangeStatus
<1>2. /\ t \in Running /\ AllTaken(t) /\ Available(t) /\ s \in Session
      /\ txn[t].request \in Request /\ txn[t].request.kind \in {"ARCHIVE", "RESTORE", "DELETE"}
      /\ Belongs(txn[t].key, txn[t].request)
  BY <1>1, ReadyFacts
<1>3. txn[t].request \in Status /\ txn[t].key \in CommandKey
  BY <1>2, Kinds DEF Belongs
<1>4. /\ txn[t].request.kind = "ARCHIVE" => NewStatus(t) = "ARCHIVED"
      /\ txn[t].request.kind = "RESTORE" => NewStatus(t) = "ACTIVE"
      /\ txn[t].request.kind = "DELETE" => NewStatus(t) = "DELETING"
  BY Zenon DEF NewStatus
<1>5. /\ status' = [status EXCEPT ![s] = NewStatus(t)]
      /\ busy' = [busy EXCEPT ![s] = FALSE]
      /\ revision' = [revision EXCEPT ![s] = @ + 1]
      /\ Commits(t, s, <<NewStatus(t), revision[s] + 1>>)
      /\ draft' = draft
  BY Zenon DEF ChangeStatus, NewStatus
<1> QED
  BY <1>2, <1>3, <1>4, <1>5

LEMMA ChangeStatusWritten == ASSUME Rows, NEW t \in Txn, ChangeStatus(t) PROVE RowsWritten
<1> DEFINE s == txn[t].request.session
<1>1. t \in Running /\ txn[t].key \in Key /\ txn[t].key \notin MessageKey /\ s \in Session
  BY ChangeStatusEffect, KeysDiffer DEF Key
<1>2. /\ status' \in [Session -> {"NONE", "ACTIVE", "ARCHIVED", "DELETING", "GONE"}]
      /\ busy' \in [Session -> BOOLEAN] /\ revision' \in [Session -> Nat] /\ draft' = draft
  <2>1. /\ NewStatus(t) \in {"ARCHIVED", "ACTIVE", "DELETING"}
        /\ status' = [status EXCEPT ![s] = NewStatus(t)] /\ busy' = [busy EXCEPT ![s] = FALSE]
        /\ revision' = [revision EXCEPT ![s] = @ + 1] /\ draft' = draft
    BY ChangeStatusEffect
  <2> QED
    BY <1>1, <2>1 DEF Rows, TypeOK
<1>3. revision[s] + 1 \in Nat
  BY <1>1 DEF Rows, TypeOK
<1>4. <<NewStatus(t), revision[s] + 1>> \in Result
  BY <1>3, ChangeStatusEffect DEF Result
<1>5. Commits(t, s, <<NewStatus(t), revision[s] + 1>>)
  BY ChangeStatusEffect
<1> QED
  BY <1>1, <1>2, <1>4, <1>5, CommitsType DEF Rows, TypeOK, RowsWritten

LEMMA AcceptMessageWritten == ASSUME Rows, NEW t \in Txn, AcceptMessage(t) PROVE RowsWritten
<1> DEFINE s == txn[t].request.session
<1>1. Ready(t, {"SEND", "SCHEDULE"})
  BY DEF AcceptMessage
<1>2. /\ t \in Running /\ txn[t].key \in Key /\ s \in Session
      /\ txn[t].request \in Request /\ txn[t].request.kind \in {"SEND", "SCHEDULE"}
      /\ Belongs(txn[t].key, txn[t].request)
  BY <1>1, ReadyFacts
<1>3. txn[t].key[2] = s
  BY <1>2, Kinds DEF Belongs
<1>4. busy' \in [Session -> BOOLEAN] /\ revision' \in [Session -> Nat]
  BY <1>2 DEF AcceptMessage, Rows, TypeOK
<1>5. revision[s] + 1 \in Nat
  BY <1>2 DEF Rows, TypeOK
<1>6. <<"ACCEPTED", revision[s] + 1>> \in Result
  BY <1>5 DEF Result
<1>7. Commits(t, s, <<"ACCEPTED", revision[s] + 1>>) /\ UNCHANGED <<status, draft>>
  BY DEF AcceptMessage
<1> QED
  BY <1>2, <1>3, <1>4, <1>6, <1>7, CommitsType DEF Rows, TypeOK, RowsWritten

LEMMA DecideDraftWritten == ASSUME Rows, NEW t \in Txn, DecideDraft(t) PROVE RowsWritten
<1> DEFINE s == txn[t].request.session
           n == IF draft[s] = "OPEN" THEN revision[s] + 1 ELSE revision[s]
<1>1. Ready(t, {"DECIDE"})
  BY DEF DecideDraft
<1>2. /\ t \in Running /\ txn[t].key \in Key /\ s \in Session
      /\ txn[t].request \in Request /\ txn[t].request.kind = "DECIDE"
      /\ Belongs(txn[t].key, txn[t].request)
  BY <1>1, ReadyFacts
<1>3. txn[t].key \notin MessageKey
  BY <1>2, Kinds, KeysDiffer DEF Belongs
<1>4. n \in Nat
  BY <1>2 DEF Rows, TypeOK
<1>5. /\ draft' = [draft EXCEPT ![s] = "DECIDED"] /\ revision' = [revision EXCEPT ![s] = n]
      /\ Commits(t, s, <<"DECIDED", n>>) /\ UNCHANGED <<status, busy>>
  BY DEF DecideDraft
<1>6. <<"DECIDED", n>> \in Result
  BY <1>4 DEF Result
<1> HIDE DEF n
<1>7. /\ draft' \in [Session -> {"OPEN", "DECIDED", "DROPPED"}]
      /\ revision' \in [Session -> Nat]
  BY <1>2, <1>4, <1>5 DEF Rows, TypeOK
<1> QED
  BY <1>2, <1>3, <1>5, <1>6, <1>7, CommitsType DEF Rows, TypeOK, RowsWritten

LEMMA OtherWritten ==
  /\ \A t \in Txn : (Rows /\ (SubmitAny(t) \/ SubmitDrop(t) \/ Abort(t))) => RowsWritten
  /\ \A t \in Txn : (Rows /\ (Reject(t) \/ LockDraft(t) \/ LockInputs(t))) => RowsWritten
  /\ \A t \in Txn : (Rows /\ DeleteOrder(t)) => RowsWritten
  /\ \A s \in Session : (Rows /\ (FinishRun(s) \/ FinishDeletion(s))) => RowsWritten
  /\ Rows /\ Receive => RowsWritten
<1>1. ASSUME Rows, NEW t \in Txn, SubmitAny(t) \/ SubmitDrop(t) \/ Abort(t) PROVE RowsWritten
  BY <1>1, QuietWritten DEF SubmitAny, Submit, SubmitDrop, Abort
<1>2. ASSUME Rows, NEW t \in Txn, Reject(t) \/ LockDraft(t) \/ LockInputs(t) PROVE RowsWritten
  <2>1. t \in Running
    BY <1>2 DEF Reject, LockDraft, LockInputs, Takes, Running
  <2>2. End(t, Refused) \/ Proceed(t)
    BY <1>2 DEF Reject, LockDraft, LockInputs
  <2> QED
    BY <1>2, <2>1, <2>2, EndWritten, ProceedWritten
<1>3. ASSUME Rows, NEW t \in Txn, DeleteOrder(t) PROVE RowsWritten
  BY <1>3 DEF DeleteOrder, Rows, TypeOK, KeysBelong, RowsWritten
<1>4. ASSUME Rows, NEW s \in Session, FinishRun(s) PROVE RowsWritten
  BY <1>4 DEF FinishRun, Rows, TypeOK, KeysBelong, RowsWritten
<1>5. ASSUME Rows, NEW s \in Session, FinishDeletion(s) PROVE RowsWritten
  BY <1>5 DEF FinishDeletion, Rows, TypeOK, KeysBelong, RowsWritten
<1>6. Rows /\ Receive => RowsWritten
  BY QuietWritten DEF Receive
<1> QED
  BY <1>1, <1>2, <1>3, <1>4, <1>5, <1>6

LEMMA RowsStep == Rows /\ [Next]_vars => Rows'
<1> SUFFICES ASSUME Rows, [Next]_vars PROVE Rows'
  OBVIOUS
<1>1. RowsWritten
  BY LockUserWritten, LockKeyWritten, LockSessionWritten, CreateSessionWritten,
     ChangeStatusWritten, AcceptMessageWritten, DecideDraftWritten, OtherWritten, QuietWritten
     DEF Next, vars, sessions
<1> QED
  BY <1>1, RunningStep DEF Rows, TypeOK, KeysBelong, RowsWritten

\* Rows keep the ranges of their columns.
THEOREM TypeCorrect == Spec => []TypeOK
<1>1. Rows => TypeOK
  BY DEF Rows
<1> QED
  BY <1>1, RowsInit, RowsStep, PTL DEF Spec

-----------------------------------------------------------------------------
(* A lock has one holder *)

Exclusion == \A t, u \in Running : t # u => Held(t) \cap Held(u) = {}

LEMMA ExclusionStep == Rows /\ Exclusion /\ [Next]_vars => Exclusion'
<1> SUFFICES ASSUME Rows, Exclusion, [Next]_vars PROVE Exclusion'
  OBVIOUS
<1>1. txn \in [Txn -> Transaction \cup {None}]
  BY DEF Rows, TypeOK
<1>2. CASE txn' = txn
  BY <1>2 DEF Exclusion, Running, Held, Locks
<1>3. ASSUME NEW t \in Txn, Starts(t) PROVE Exclusion'
  <2>1. PICK k \in Key \cup {None}, r \in Request :
          txn' = [txn EXCEPT ![t] = [key |-> k, request |-> r, got |-> 0]]
    BY <1>3 DEF Starts
  <2>2. Held(t)' = {}
    BY <1>1, <2>1 DEF Held
  <2>3. \A u \in Running' \ {t} : u \in Running /\ Held(u)' = Held(u)
    BY <1>1, <2>1 DEF Running, Held, Locks
  <2> QED
    BY <2>2, <2>3 DEF Exclusion
<1>4. ASSUME NEW t \in Txn, TakesNext(t) PROVE Exclusion'
  <2>1. t \in Running /\ Wanted(t) \notin HeldByOthers(t)
    BY <1>4 DEF TakesNext, Available
  <2>2. txn[t].got \in 0..4
    BY <2>1, RunningFacts
  <2>3. txn'[t] = [txn[t] EXCEPT !.got = @ + 1] /\ \A u \in Txn \ {t} : txn'[u] = txn[u]
    BY <1>1, <1>4 DEF TakesNext
  <2>4. txn'[t].key = txn[t].key /\ txn'[t].request = txn[t].request /\ txn'[t].got = txn[t].got + 1
    BY <2>1, <2>3, RunningFacts DEF Transaction
  <2>5. Held(t)' \subseteq Held(t) \cup {Wanted(t)}
    <3>1. Wanted(t) = Locks(t)[txn[t].got + 1]
      BY <1>4 DEF TakesNext, Wanted
    <3>2. Locks(t)' = Locks(t)
      BY <2>4 DEF Locks
    <3> QED
      BY <2>2, <2>4, <3>1, <3>2 DEF Held
  <2>6. \A u \in Running' \ {t} : u \in Running /\ Held(u)' = Held(u)
    BY <2>3 DEF Running, Held, Locks
  <2>7. \A u \in Running \ {t} : Wanted(t) \notin Held(u)
    BY <2>1 DEF HeldByOthers
  <2> QED
    BY <2>1, <2>5, <2>6, <2>7 DEF Exclusion
<1>5. ASSUME NEW t \in Txn, Ends(t) PROVE Exclusion'
  <2>1. \A u \in Running' : u \in Running /\ Held(u)' = Held(u)
    BY <1>1, <1>5 DEF Ends, Running, Held, Locks
  <2> QED
    BY <2>1 DEF Exclusion
<1> QED
  BY <1>2, <1>3, <1>4, <1>5, TransactionSteps DEF vars

-----------------------------------------------------------------------------
(* Locks are taken in an order that leaves no circle *)

\* The order of a draft is deleted only after the draft was decided.
DropsDecided ==
  \A t \in Running : txn[t].request \in DropOrder => draft[txn[t].request.session] # "OPEN"

\* A draft that was decided is not open again.
LEMMA DraftStaysDecided ==
  ASSUME Rows, Next, NEW s \in Session, draft[s] # "OPEN"
  PROVE  draft'[s] # "OPEN"
<1>1. draft' = draft \/ \E t \in Txn : DecideDraft(t) \/ DeleteOrder(t)
  BY LockKeyCases, LockSessionCases
     DEF Next, SubmitAny, Submit, SubmitDrop, Abort, Reject, End, Proceed, LockUser,
         LockDraft, LockInputs, CreateSession, ChangeStatus, AcceptMessage, FinishRun, FinishDeletion,
         Receive, sessions
<1> QED
  BY <1>1 DEF DecideDraft, DeleteOrder, Rows, TypeOK

LEMMA DropsDecidedStep == Rows /\ DropsDecided /\ [Next]_vars => DropsDecided'
<1> SUFFICES ASSUME Rows, DropsDecided, Next PROVE DropsDecided'
  BY DEF vars, DropsDecided, Running
<1>1. txn \in [Txn -> Transaction \cup {None}]
  BY DEF Rows, TypeOK
<1>2. ASSUME NEW u \in Running, txn'[u].request = txn[u].request, txn'[u].request \in DropOrder
      PROVE  draft'[txn'[u].request.session] # "OPEN"
  <2>1. txn[u].request.session \in Session
    BY <1>2 DEF DropOrder
  <2> QED
    BY <1>2, <2>1, DraftStaysDecided DEF DropsDecided
<1>3. CASE txn' = txn
  BY <1>2, <1>3 DEF DropsDecided, Running
<1>4. ASSUME NEW t \in Txn, TakesNext(t) \/ Ends(t) PROVE DropsDecided'
  <2>1. \A u \in Running' : u \in Running /\ txn'[u].request = txn[u].request
    <3>1. CASE Ends(t)
      BY <1>1, <3>1 DEF Ends, Running
    <3>2. CASE TakesNext(t)
      <4>1. txn'[t] = [txn[t] EXCEPT !.got = @ + 1] /\ \A u \in Txn \ {t} : txn'[u] = txn[u]
        BY <1>1, <3>2 DEF TakesNext
      <4>2. t \in Running /\ txn'[t].request = txn[t].request
        BY <3>2, <4>1, RunningFacts DEF TakesNext, Transaction
      <4> QED
        BY <4>1, <4>2 DEF Running
    <3> QED
      BY <1>4, <3>1, <3>2
  <2> QED
    BY <1>2, <2>1 DEF DropsDecided
<1>5. ASSUME NEW t \in Txn, SubmitAny(t) PROVE DropsDecided'
  <2>1. PICK k \in Key \cup {None}, r \in Request \ DropOrder :
          txn' = [txn EXCEPT ![t] = [key |-> k, request |-> r, got |-> 0]]
    <3>1. \A r \in {Workspace} \cup Status \cup Decide \cup Message : r \in Request \ DropOrder
      BY DEF Request, Workspace, Status, Decide, Message, DropOrder
    <3>2. \A i \in MessageId, r \in Message : <<i, r.session>> \in Key
      BY DEF Message, Key, MessageKey
    <3>3. WorkspaceKey \cup CommandKey \subseteq Key
      BY DEF Key
    <3> QED
      BY <1>5, <3>1, <3>2, <3>3 DEF SubmitAny, Submit
  <2>2. txn'[t].request \notin DropOrder /\ \A u \in Running' \ {t} : u \in Running /\ txn'[u] = txn[u]
    BY <1>1, <2>1 DEF Running
  <2> QED
    BY <1>2, <2>2 DEF DropsDecided
<1>6. ASSUME NEW t \in Txn, SubmitDrop(t) PROVE DropsDecided'
  <2>1. PICK r \in DropOrder :
          /\ draft[r.session] = "DECIDED" /\ draft' = draft
          /\ txn' = [txn EXCEPT ![t] = [key |-> None, request |-> r, got |-> 0]]
    BY <1>6 DEF SubmitDrop, sessions
  <2>2. txn'[t].request = r /\ \A u \in Running' \ {t} : u \in Running /\ txn'[u] = txn[u]
    BY <1>1, <2>1 DEF Running
  <2> QED
    BY <1>2, <2>1, <2>2 DEF DropsDecided
<1>7. \/ txn' = txn
      \/ \E t \in Txn : SubmitAny(t) \/ SubmitDrop(t) \/ TakesNext(t) \/ Ends(t)
  <2>1. ASSUME NEW t \in Txn, LockKey(t) \/ LockSession(t) PROVE TakesNext(t) \/ Ends(t)
    BY <2>1, LockKeyCases, LockSessionCases
       DEF TakesNext, Ends, Takes, End, Answer, Proceed
  <2> QED
    BY <2>1
       DEF Next, TakesNext, Ends, Takes, End, Answer, Proceed, Abort, Reject, LockUser, LockDraft,
           LockInputs, CreateSession, ChangeStatus, AcceptMessage, DecideDraft, DeleteOrder, Commits,
           FinishRun, FinishDeletion, Receive, Running
<1> QED
  BY <1>3, <1>4, <1>5, <1>6, <1>7

\* How far the lock a transaction waits for is along the order of the locks, by
\* the number of locks it has: keys, sessions, drafts, the scheduling lock, drafts
\* again for those who decide nothing, and the row of the user.
Ranks ==
  [WORKSPACE |-> <<6, 7, 8>>, ARCHIVE |-> <<1, 2, 6>>, RESTORE |-> <<1, 2, 6>>,
   DELETE |-> <<1, 2, 6>>, DECIDE |-> <<1, 2, 3, 4, 6>>, SEND |-> <<2, 6>>,
   SCHEDULE |-> <<2, 4, 6>>, DROP_ORDER |-> <<4, 5, 6>>]
Rank(t) == IF AlreadyDecided(t) THEN 6 ELSE Ranks[txn[t].request.kind][txn[t].got + 1]

LEMMA WantedRank ==
  ASSUME Rows, NEW t \in Running
  PROVE  \/ Wanted(t) = UserRow /\ Rank(t) = 6
         \/ Wanted(t) = UserRow /\ Rank(t) = 8 /\ UserRow \in Held(t)
         \/ /\ Wanted(t) = KeyLock(txn[t].key) /\ Rank(t) = 7
            /\ txn[t].key \in WorkspaceKey /\ UserRow \in Held(t)
         \/ Wanted(t) = KeyLock(txn[t].key) /\ Rank(t) = 1 /\ txn[t].key \in CommandKey
         \/ Wanted(t) = SessionRow(txn[t].request.session) /\ Rank(t) = 2
         \/ Wanted(t) = DraftRow(txn[t].request.session) /\ Rank(t) = 3
         \/ Wanted(t) = Inputs /\ Rank(t) = 4
         \/ /\ Wanted(t) = DraftRow(txn[t].request.session) /\ Rank(t) = 5
            /\ txn[t].request \in DropOrder
<1> DEFINE r == txn[t].request
           n == txn[t].got
<1>1. r \in Request /\ n \in 0..4 /\ n <= Len(Locks(t)) /\ Belongs(txn[t].key, r)
  BY RunningFacts
<1>2. /\ AlreadyDecided(t) => r.kind = "DECIDE" /\ n = 3
      /\ Wanted(t) = IF n = Len(Locks(t)) \/ AlreadyDecided(t) THEN UserRow ELSE Locks(t)[n + 1]
      /\ Held(t) = {Locks(t)[i] : i \in 1..n}
      /\ Rank(t) = IF AlreadyDecided(t) THEN 6 ELSE Ranks[r.kind][n + 1]
  BY <1>1, Kinds DEF Wanted, AllTaken, AlreadyDecided, Held, Rank
<1>3. CASE r.kind = "WORKSPACE"
  <2>1. Len(Locks(t)) = 2 /\ Locks(t)[1] = UserRow /\ Locks(t)[2] = KeyLock(txn[t].key)
    BY <1>1, <1>3, Paths DEF Locks
  <2>2. txn[t].key \in WorkspaceKey
    BY <1>1, <1>3, Kinds DEF Belongs
  <2>3. n \in {0, 1, 2} /\ (n > 0 => UserRow \in Held(t))
    BY <1>1, <1>2, <2>1
  <2> QED
    BY <1>2, <1>3, <2>1, <2>2, <2>3 DEF Ranks
<1>4. CASE r.kind \in {"ARCHIVE", "RESTORE", "DELETE"}
  <2>1. Len(Locks(t)) = 2 /\ Locks(t)[1] = KeyLock(txn[t].key) /\ Locks(t)[2] = SessionRow(r.session)
    BY <1>1, <1>4, Paths DEF Locks
  <2>2. txn[t].key \in CommandKey
    BY <1>1, <1>4, Kinds DEF Belongs
  <2>3. n \in {0, 1, 2}
    BY <1>1, <2>1
  <2> QED
    BY <1>2, <1>4, <2>1, <2>2, <2>3 DEF Ranks
<1>5. CASE r.kind = "DECIDE"
  <2>1. /\ Len(Locks(t)) = 4 /\ Locks(t)[1] = KeyLock(txn[t].key)
        /\ Locks(t)[2] = SessionRow(r.session) /\ Locks(t)[3] = DraftRow(r.session)
        /\ Locks(t)[4] = Inputs
    BY <1>1, <1>5, Paths DEF Locks
  <2>2. txn[t].key \in CommandKey
    BY <1>1, <1>5, Kinds DEF Belongs
  <2>3. n \in {0, 1, 2, 3, 4}
    BY <1>1
  <2> QED
    BY <1>2, <1>5, <2>1, <2>2, <2>3 DEF Ranks
<1>6. CASE r.kind = "SEND"
  <2>1. Len(Locks(t)) = 1 /\ Locks(t)[1] = SessionRow(r.session)
    BY <1>1, <1>6, Paths DEF Locks
  <2>2. n \in {0, 1}
    BY <1>1, <2>1
  <2> QED
    BY <1>2, <1>6, <2>1, <2>2 DEF Ranks
<1>8. CASE r.kind = "SCHEDULE"
  <2>1. Len(Locks(t)) = 2 /\ Locks(t)[1] = SessionRow(r.session) /\ Locks(t)[2] = Inputs
    BY <1>1, <1>8, Paths DEF Locks
  <2>2. n \in {0, 1, 2}
    BY <1>1, <2>1
  <2> QED
    BY <1>2, <1>8, <2>1, <2>2 DEF Ranks
<1>7. CASE r.kind = "DROP_ORDER"
  <2>1. Len(Locks(t)) = 2 /\ Locks(t)[1] = Inputs /\ Locks(t)[2] = DraftRow(r.session)
    BY <1>1, <1>7, Paths DEF Locks
  <2>2. n \in {0, 1, 2} /\ r \in DropOrder
    BY <1>1, <1>7, <2>1, Kinds
  <2> QED
    BY <1>2, <1>7, <2>1, <2>2 DEF Ranks
<1> QED
  BY <1>1, <1>3, <1>4, <1>5, <1>6, <1>7, <1>8, Kinds

\* Who holds a lock waits, if at all, for one further along.
LEMMA HeldRank ==
  ASSUME Rows, NEW u \in Running, NEW lock \in Held(u)
  PROVE  \/ lock = UserRow
         \/ /\ lock = KeyLock(txn[u].key)
            /\ txn[u].key \in WorkspaceKey /\ UserRow \in Held(u)
         \/ lock = KeyLock(txn[u].key) /\ txn[u].key \in CommandKey /\ Rank(u) > 1
         \/ lock = SessionRow(txn[u].request.session) /\ Rank(u) > 2
         \/ /\ lock = DraftRow(txn[u].request.session) /\ Rank(u) > 3
            /\ draft[txn[u].request.session] # "OPEN" => Rank(u) > 5
         \/ lock = Inputs /\ Rank(u) > 4
<1> DEFINE r == txn[u].request
           n == txn[u].got
<1>1. r \in Request /\ n \in 0..4 /\ n <= Len(Locks(u)) /\ Belongs(txn[u].key, r)
  BY RunningFacts
<1>2. /\ AlreadyDecided(u) <=> r.kind = "DECIDE" /\ n = 3 /\ draft[r.session] # "OPEN"
      /\ Rank(u) = IF AlreadyDecided(u) THEN 6 ELSE Ranks[r.kind][n + 1]
  BY <1>1, Kinds DEF AlreadyDecided, Rank
<1>3. PICK i \in 1..n : lock = Locks(u)[i]
  BY DEF Held
<1>4. \A j \in 1..n : Locks(u)[j] \in Held(u)
  BY DEF Held
<1>5. CASE r.kind = "WORKSPACE"
  <2>1. Len(Locks(u)) = 2 /\ Locks(u)[1] = UserRow /\ Locks(u)[2] = KeyLock(txn[u].key)
    BY <1>1, <1>5, Paths DEF Locks
  <2>2. txn[u].key \in WorkspaceKey
    BY <1>1, <1>5, Kinds DEF Belongs
  <2>3. i \in {1, 2} /\ UserRow \in Held(u)
    BY <1>1, <1>3, <1>4, <2>1
  <2> QED
    BY <1>3, <2>1, <2>2, <2>3
<1>6. CASE r.kind \in {"ARCHIVE", "RESTORE", "DELETE"}
  <2>1. Len(Locks(u)) = 2 /\ Locks(u)[1] = KeyLock(txn[u].key) /\ Locks(u)[2] = SessionRow(r.session)
    BY <1>1, <1>6, Paths DEF Locks
  <2>2. txn[u].key \in CommandKey
    BY <1>1, <1>6, Kinds DEF Belongs
  <2>3. (i = 1 /\ n \in {1, 2}) \/ (i = 2 /\ n = 2)
    BY <1>1, <1>3, <2>1
  <2> QED
    BY <1>2, <1>3, <1>6, <2>1, <2>2, <2>3 DEF Ranks
<1>7. CASE r.kind = "DECIDE"
  <2>1. /\ Len(Locks(u)) = 4 /\ Locks(u)[1] = KeyLock(txn[u].key)
        /\ Locks(u)[2] = SessionRow(r.session) /\ Locks(u)[3] = DraftRow(r.session)
        /\ Locks(u)[4] = Inputs
    BY <1>1, <1>7, Paths DEF Locks
  <2>2. txn[u].key \in CommandKey
    BY <1>1, <1>7, Kinds DEF Belongs
  <2>3. \/ n = 1 /\ i = 1
        \/ n = 2 /\ i \in {1, 2}
        \/ n = 3 /\ i \in {1, 2, 3}
        \/ n = 4 /\ i \in {1, 2, 3, 4}
    BY <1>1, <1>3
  <2>4. /\ n = 1 => Rank(u) = 2 /\ i = 1
        /\ n = 2 => Rank(u) = 3
        /\ n = 3 => Rank(u) = IF draft[r.session] # "OPEN" THEN 6 ELSE 4
        /\ n = 4 => Rank(u) = 6
    BY <1>2, <1>7, <2>3 DEF Ranks
  <2> QED
    BY <1>3, <2>1, <2>2, <2>3, <2>4
<1>8. CASE r.kind = "SEND"
  <2>1. Len(Locks(u)) = 1 /\ Locks(u)[1] = SessionRow(r.session)
    BY <1>1, <1>8, Paths DEF Locks
  <2>2. n = 1 /\ i = 1
    BY <1>1, <1>3, <2>1
  <2> QED
    BY <1>2, <1>3, <1>8, <2>1, <2>2 DEF Ranks
<1>9. CASE r.kind = "SCHEDULE"
  <2>1. Len(Locks(u)) = 2 /\ Locks(u)[1] = SessionRow(r.session) /\ Locks(u)[2] = Inputs
    BY <1>1, <1>9, Paths DEF Locks
  <2>2. (i = 1 /\ n \in {1, 2}) \/ (i = 2 /\ n = 2)
    BY <1>1, <1>3, <2>1
  <2> QED
    BY <1>2, <1>3, <1>9, <2>1, <2>2 DEF Ranks
<1>10. CASE r.kind = "DROP_ORDER"
  <2>1. Len(Locks(u)) = 2 /\ Locks(u)[1] = Inputs /\ Locks(u)[2] = DraftRow(r.session)
    BY <1>1, <1>10, Paths DEF Locks
  <2>2. (i = 1 /\ n \in {1, 2}) \/ (i = 2 /\ n = 2)
    BY <1>1, <1>3, <2>1
  <2> QED
    BY <1>2, <1>3, <1>10, <2>1, <2>2 DEF Ranks
<1> QED
  BY <1>1, <1>5, <1>6, <1>7, <1>8, <1>9, <1>10, Kinds

\* Along a wait the rank rises.
LEMMA RankRises ==
  ASSUME Rows, Exclusion, DropsDecided,
         NEW t \in Running, NEW u \in Running, t # u, Wanted(t) \in Held(u)
  PROVE  Rank(t) < Rank(u)
<1>1. ~(UserRow \in Held(t) /\ UserRow \in Held(u))
  BY DEF Exclusion
<1>2. txn[t].request \in DropOrder => draft[txn[t].request.session] # "OPEN"
  BY DEF DropsDecided
<1>3. txn[t].key \in CommandKey => txn[t].key \notin WorkspaceKey
  BY KeysDiffer
<1>4. Rank(u) \in {1, 2, 3, 4, 5, 6, 7, 8}
  BY WantedRank
<1>5. UserRow \in Held(u) => Rank(u) > 6
  <2> SUFFICES ASSUME UserRow \in Held(u) PROVE Rank(u) > 6
    OBVIOUS
  <2>1. txn[u].request.kind = "WORKSPACE" /\ txn[u].got \in {1, 2}
    <3>1. txn[u].request \in Request /\ txn[u].got \in 0..4 /\ txn[u].got <= Len(Locks(u))
      BY RunningFacts
    <3>2. PICK i \in 1..txn[u].got : UserRow = Locks(u)[i]
      BY DEF Held
    <3>3. Len(Locks(u)) = 2
      BY <3>1, <3>2, Kinds, Paths, LocksDiffer DEF Locks
    <3> QED
      BY <3>1, <3>2, <3>3, Kinds, Paths, LocksDiffer DEF Locks
  <2>2. ~AlreadyDecided(u)
    BY <2>1, RunningFacts, Kinds DEF AlreadyDecided
  <2> QED
    BY <2>1, <2>2 DEF Rank, Ranks
<1>6. CASE Wanted(t) = UserRow
  BY <1>1, <1>5, <1>6, WantedRank, LocksDiffer
<1>7. CASE Wanted(t) = KeyLock(txn[t].key) /\ txn[t].key \in WorkspaceKey /\ UserRow \in Held(t)
  BY <1>1, <1>7, HeldRank, LocksDiffer, KeysDiffer
<1>8. CASE Wanted(t) = KeyLock(txn[t].key) /\ txn[t].key \in CommandKey /\ Rank(t) = 1
  BY <1>3, <1>8, HeldRank, LocksDiffer
<1>9. CASE Wanted(t) = SessionRow(txn[t].request.session) /\ Rank(t) = 2
  BY <1>9, HeldRank, LocksDiffer
<1>10. CASE Wanted(t) = DraftRow(txn[t].request.session)
  <2>1. /\ Rank(t) \in {3, 5}
        /\ Rank(t) = 5 => draft[txn[t].request.session] # "OPEN"
    BY <1>2, <1>10, WantedRank, LocksDiffer
  <2>2. /\ txn[u].request.session = txn[t].request.session /\ Rank(u) > 3
        /\ draft[txn[u].request.session] # "OPEN" => Rank(u) > 5
    BY <1>10, HeldRank, LocksDiffer
  <2> QED
    BY <1>4, <2>1, <2>2
<1>11. CASE Wanted(t) = Inputs /\ Rank(t) = 4
  BY <1>11, HeldRank, LocksDiffer
<1> QED
  BY <1>6, <1>7, <1>8, <1>9, <1>10, <1>11, WantedRank

LEMMA NoCircle == Rows /\ Exclusion /\ DropsDecided => NoDeadlock
<1> SUFFICES ASSUME Rows, Exclusion, DropsDecided,
                    NEW S \in (SUBSET Running) \ {{}}
             PROVE  \E t \in S : Wanted(t) \notin UNION {Held(u) : u \in S \ {t}}
  BY DEF NoDeadlock
<1>1. \A t \in S : Rank(t) \in {1, 2, 3, 4, 5, 6, 7, 8}
  BY WantedRank
<1>2. PICK t \in S : \A u \in S : Rank(u) <= Rank(t)
  <2> DEFINE Far(n) == \E y \in S : Rank(y) >= n
  <2>1. \A n \in 1..8 : (Far(n) /\ ~Far(n + 1)) =>
          \E t \in S : \A u \in S : Rank(u) <= Rank(t)
    <3> SUFFICES ASSUME NEW n \in 1..8, Far(n), ~Far(n + 1)
                 PROVE  \E t \in S : \A u \in S : Rank(u) <= Rank(t)
      OBVIOUS
    <3>1. PICK x \in S : Rank(x) >= n
      OBVIOUS
    <3>2. ASSUME NEW u \in S PROVE Rank(u) <= Rank(x)
      <4>1. ~(Rank(u) >= n + 1) /\ Rank(u) \in 1..8 /\ Rank(x) \in 1..8 /\ Rank(x) >= n
        BY <1>1, <3>1
      <4> QED
        BY <4>1
    <3> QED
      BY <3>2
  <2>2. Far(1) /\ ~Far(9)
    BY <1>1
  <2> HIDE DEF Far
  <2>3. \E n \in 1..8 : Far(n) /\ ~Far(n + 1)
    <3> SUFFICES ASSUME \A n \in 1..8 : Far(n) => Far(n + 1) PROVE FALSE
      OBVIOUS
    <3>1. Far(2) /\ (Far(2) => Far(3)) /\ (Far(3) => Far(4)) /\ (Far(4) => Far(5))
      BY <2>2
    <3>2. (Far(5) => Far(6)) /\ (Far(6) => Far(7)) /\ (Far(7) => Far(8)) /\ (Far(8) => Far(9))
      OBVIOUS
    <3> QED
      BY <2>2, <3>1, <3>2
  <2> QED
    BY <2>1, <2>3
<1>3. \A u \in S \ {t} : Wanted(t) \notin Held(u)
  BY <1>1, <1>2, RankRises
<1> QED
  BY <1>3

LockInv == Rows /\ Exclusion /\ DropsDecided

LEMMA LockInvInit == Init => LockInv
BY RowsInit DEF Init, LockInv, Exclusion, DropsDecided, Running

LEMMA LockInvStep == LockInv /\ [Next]_vars => LockInv'
BY RowsStep, ExclusionStep, DropsDecidedStep DEF LockInv

\* Transactions never wait for each other in a circle, whatever commands, messages
\* and deletions of orders meet.
THEOREM LocksLeaveNoCircle == Spec => []NoDeadlock
<1>1. LockInv => NoDeadlock
  BY NoCircle DEF LockInv
<1> QED
  BY <1>1, LockInvInit, LockInvStep, PTL DEF Spec

-----------------------------------------------------------------------------
(* What is known before a transaction acts *)

\* A transaction that moves on is a new one, or it has just taken a lock.
LEMMA Moves ==
  ASSUME Rows, Next, NEW t \in Running', txn'[t] # txn[t]
  PROVE  \/ SubmitAny(t) \/ SubmitDrop(t)
         \/ LockUser(t) /\ Active = {} /\ Proceed(t)
         \/ LockKey(t) /\ Record(t) = None /\ Proceed(t)
         \/ LockSession(t) /\ Acceptable(t) /\ Proceed(t)
         \/ (LockDraft(t) \/ LockInputs(t)) /\ Proceed(t)
<1>1. txn \in [Txn -> Transaction \cup {None}] /\ t \in Txn /\ txn'[t] # None
  BY DEF Rows, TypeOK, Running
<1>2. ASSUME NEW u \in Txn, Ends(u) PROVE FALSE
  BY <1>1, <1>2 DEF Ends
<1>3. ASSUME NEW u \in Txn, Proceed(u) PROVE u = t
  BY <1>1, <1>3 DEF Proceed
<1>4. ASSUME NEW u \in Txn, SubmitAny(u) \/ SubmitDrop(u) PROVE u = t
  <2>1. \E r : txn' = [txn EXCEPT ![u] = r]
    BY <1>4 DEF SubmitAny, SubmitDrop, Submit
  <2> QED
    BY <1>1, <2>1
<1>5. ASSUME NEW u \in Txn, NEW a, End(u, a) PROVE FALSE
  BY <1>2, <1>5 DEF End, Answer, Ends
<1>6. ASSUME NEW u \in Txn,
             CreateSession(u) \/ ChangeStatus(u) \/ AcceptMessage(u) \/ DecideDraft(u)
               \/ DeleteOrder(u) \/ Abort(u) \/ Reject(u)
      PROVE  FALSE
  <2>1. Ends(u)
    BY <1>6 DEF CreateSession, ChangeStatus, AcceptMessage, DecideDraft, DeleteOrder, Abort, Reject,
                End, Commits, Answer, Ends
  <2> QED
    BY <1>2, <2>1
<1>7. ASSUME NEW s \in Session, FinishRun(s) \/ FinishDeletion(s) PROVE FALSE
  BY <1>7 DEF FinishRun, FinishDeletion
<1>8. ~Receive
  BY DEF Receive
<1>9. ASSUME NEW u \in Txn, LockUser(u) PROVE u = t /\ Active = {} /\ Proceed(u)
  BY <1>3, <1>5, <1>9 DEF LockUser
<1>10. ASSUME NEW u \in Txn, LockKey(u) PROVE u = t /\ Record(u) = None /\ Proceed(u)
  BY <1>3, <1>5, <1>10, LockKeyCases
<1>11. ASSUME NEW u \in Txn, LockSession(u) PROVE u = t /\ Acceptable(u) /\ Proceed(u)
  BY <1>3, <1>5, <1>11, LockSessionCases
<1>12. ASSUME NEW u \in Txn, LockDraft(u) \/ LockInputs(u) PROVE u = t /\ Proceed(u)
  BY <1>3, <1>5, <1>12 DEF LockDraft, LockInputs
<1> QED
  BY <1>4, <1>6, <1>7, <1>8, <1>9, <1>10, <1>11, <1>12 DEF Next

\* A command or a message that succeeds has its locks, and records a result.
LEMMA Committing ==
  ASSUME Rows, NEW t \in Txn,
         CreateSession(t) \/ ChangeStatus(t) \/ AcceptMessage(t) \/ DecideDraft(t)
  PROVE  /\ t \in Running /\ AllTaken(t) /\ txn[t].key \in Key
         /\ \E s \in Session, result \in Result : Commits(t, s, result)
<1> DEFINE Recorded == /\ t \in Running /\ AllTaken(t) /\ txn[t].key \in Key
                       /\ \E s \in Session, result \in Result : Commits(t, s, result)
<1>1. CASE CreateSession(t)
  <2>1. Ready(t, {"WORKSPACE"}) /\ \E s \in Session : Commits(t, s, s)
    BY <1>1 DEF CreateSession
  <2>2. Session \subseteq Result
    BY DEF Result
  <2> QED
    BY <2>1, <2>2, ReadyFacts
<1>2. CASE ChangeStatus(t)
  <2> DEFINE s == txn[t].request.session
  <2>1. /\ t \in Running /\ AllTaken(t) /\ txn[t].key \in Key /\ s \in Session
        /\ NewStatus(t) \in {"ARCHIVED", "ACTIVE", "DELETING"}
        /\ Commits(t, s, <<NewStatus(t), revision[s] + 1>>)
    BY <1>2, ChangeStatusEffect DEF Key
  <2>2. revision[s] + 1 \in Nat
    BY <2>1 DEF Rows, TypeOK
  <2>3. <<NewStatus(t), revision[s] + 1>> \in Result
    BY <2>1, <2>2 DEF Result
  <2> QED
    BY <2>1, <2>3
<1>3. CASE AcceptMessage(t)
  <2> DEFINE s == txn[t].request.session
  <2>1. Ready(t, {"SEND", "SCHEDULE"}) /\ Commits(t, s, <<"ACCEPTED", revision[s] + 1>>)
    BY <1>3 DEF AcceptMessage
  <2>2. t \in Running /\ AllTaken(t) /\ txn[t].key \in Key /\ s \in Session
    BY <2>1, ReadyFacts
  <2>3. revision[s] + 1 \in Nat
    BY <2>2 DEF Rows, TypeOK
  <2>4. <<"ACCEPTED", revision[s] + 1>> \in Result
    BY <2>3 DEF Result
  <2> QED
    BY <2>1, <2>2, <2>4
<1>4. CASE DecideDraft(t)
  <2> DEFINE s == txn[t].request.session
             n == IF draft[s] = "OPEN" THEN revision[s] + 1 ELSE revision[s]
  <2>1. Ready(t, {"DECIDE"}) /\ Commits(t, s, <<"DECIDED", n>>)
    BY <1>4 DEF DecideDraft
  <2>2. t \in Running /\ AllTaken(t) /\ txn[t].key \in Key /\ s \in Session
    BY <2>1, ReadyFacts
  <2>3. n \in Nat
    BY <2>2 DEF Rows, TypeOK
  <2>4. <<"DECIDED", n>> \in Result
    BY <2>3 DEF Result
  <2> QED
    BY <2>1, <2>2, <2>4
<1> QED
  BY <1>1, <1>2, <1>3, <1>4

\* What is recorded changes when a transaction that has its locks commits, and when
\* a session ends.
LEMMA Recording ==
  ASSUME Rows, Next
  PROVE  \/ outcome' = outcome
         \/ \E t \in Running, s \in Session, result \in Result :
              AllTaken(t) /\ txn[t].key \in Key /\ Commits(t, s, result)
         \/ \E s \in Session : FinishDeletion(s)
<1>1. ASSUME NEW t \in Txn, LockKey(t) \/ LockSession(t) PROVE outcome' = outcome
  BY <1>1, LockKeyCases, LockSessionCases DEF End, Proceed
<1> QED
  BY <1>1, Committing
     DEF Next, SubmitAny, Submit, SubmitDrop, Abort, Reject, End, Proceed, LockUser, LockDraft,
         LockInputs, DeleteOrder, FinishRun, Receive

-----------------------------------------------------------------------------
(* The workspace creates one session *)

\* Whoever holds the row of the user for the workspace has found no active session,
\* and nobody makes one active meanwhile.
AloneAtTheUser ==
  \A t \in Running : txn[t].request = Workspace /\ txn[t].got >= 1 => Active = {}

\* A session becomes active in a transaction that ends when the row of the user is
\* free: with its creation, or when it is restored.
LEMMA BecomesActive ==
  ASSUME Rows, Next, NEW s \in Active', s \notin Active
  PROVE  \E t \in Running : Ends(t) /\ UserRow \notin HeldByOthers(t)
<1>1. \A t \in Txn : AllTaken(t) /\ Available(t) => UserRow \notin HeldByOthers(t)
  BY DEF Available, Wanted
<1>2. ASSUME NEW t \in Txn, CreateSession(t) \/ ChangeStatus(t)
      PROVE  t \in Running /\ Ends(t) /\ UserRow \notin HeldByOthers(t)
  <2>1. t \in Running /\ AllTaken(t) /\ Available(t)
    BY <1>2, ReadyFacts, ChangeStatusEffect DEF CreateSession
  <2>2. Ends(t)
    BY <1>2 DEF CreateSession, ChangeStatus, Commits, Answer, Ends
  <2> QED
    BY <1>1, <2>1, <2>2
<1>3. status' # status /\ s \in Session /\ status'[s] = "ACTIVE" /\ status[s] # "ACTIVE"
  BY DEF Active
<1>4. ASSUME NEW z \in Session, FinishDeletion(z) PROVE FALSE
  BY <1>3, <1>4 DEF FinishDeletion, Rows, TypeOK
<1>5. ASSUME NEW t \in Txn, LockKey(t) \/ LockSession(t) PROVE FALSE
  BY <1>3, <1>5, LockKeyCases, LockSessionCases DEF End, Proceed, sessions
<1> QED
  BY <1>2, <1>3, <1>4, <1>5
     DEF Next, SubmitAny, Submit, SubmitDrop, Abort, Reject, End, Proceed, LockUser, LockDraft,
         LockInputs, AcceptMessage, DecideDraft, DeleteOrder, FinishRun, Receive, sessions

\* The row of the user comes first in a workspace request, and in no other one.
LEMMA UserRowFirst ==
  ASSUME Rows, NEW t \in Running
  PROVE  /\ txn[t].request = Workspace => Locks(t)[1] = UserRow /\ Len(Locks(t)) = 2
         /\ txn[t].request = Workspace /\ txn[t].got >= 1 => UserRow \in Held(t)
         /\ Takes(t, UserRow) => txn[t].request = Workspace
<1>1. txn[t].request \in Request /\ txn[t].got \in 0..4 /\ txn[t].got <= Len(Locks(t))
  BY RunningFacts
<1>2. txn[t].request = Workspace => Locks(t)[1] = UserRow /\ Len(Locks(t)) = 2
  BY <1>1, Kinds, Paths DEF Locks
<1>3. txn[t].request = Workspace /\ txn[t].got >= 1 => UserRow \in Held(t)
  BY <1>1, <1>2 DEF Held
<1>4. Takes(t, UserRow) => txn[t].request = Workspace
  <2> SUFFICES ASSUME Takes(t, UserRow), txn[t].request # Workspace PROVE FALSE
    OBVIOUS
  <2>1. Locks(t)[txn[t].got + 1] = UserRow /\ txn[t].got # Len(Locks(t))
    BY DEF Takes, Wanted, AllTaken
  <2> QED
    BY <1>1, <2>1, Kinds, Paths, LocksDiffer DEF Locks
<1> QED
  BY <1>2, <1>3, <1>4

LEMMA AloneAtTheUserStep == Rows /\ AloneAtTheUser /\ [Next]_vars => AloneAtTheUser'
<1> SUFFICES ASSUME Rows, AloneAtTheUser, Next PROVE AloneAtTheUser'
  BY DEF vars, AloneAtTheUser, Running, Active
<1> SUFFICES ASSUME NEW t \in Running', txn'[t].request = Workspace, txn'[t].got >= 1
             PROVE  Active' = {}
  BY DEF AloneAtTheUser
<1>1. t \in Txn /\ txn \in [Txn -> Transaction \cup {None}] /\ txn'[t] # None
  BY DEF Running, Rows, TypeOK
<1>2. CASE txn'[t] = txn[t]
  <2>1. t \in Running /\ Active = {} /\ UserRow \in Held(t)
    BY <1>1, <1>2, UserRowFirst DEF AloneAtTheUser, Running
  <2>2. ASSUME NEW s \in Active' PROVE FALSE
    <3>1. PICK u \in Running : Ends(u) /\ UserRow \notin HeldByOthers(u)
      BY <2>1, <2>2, BecomesActive
    <3>2. u # t
      BY <1>1, <3>1 DEF Ends
    <3> QED
      BY <2>1, <3>1, <3>2 DEF HeldByOthers
  <2> QED
    BY <2>2
<1>3. CASE txn'[t] # txn[t]
  <2>1. ~SubmitAny(t) /\ ~SubmitDrop(t)
    BY <1>1 DEF SubmitAny, Submit, SubmitDrop
  <2>2. Proceed(t) /\ t \in Running
    BY <1>3, <2>1, Moves DEF LockUser, LockKey, LockSession, LockDraft, LockInputs, Takes, Running
  <2>3. Active' = Active
    BY <2>2 DEF Proceed, Active, sessions
  <2>4. txn'[t] = [txn[t] EXCEPT !.got = @ + 1]
    BY <1>1, <2>2 DEF Proceed
  <2>5. txn[t].request = Workspace
    BY <2>2, <2>4, RunningFacts DEF Transaction
  <2>6. CASE txn[t].got >= 1
    BY <2>2, <2>3, <2>5, <2>6 DEF AloneAtTheUser
  <2>7. CASE ~(txn[t].got >= 1)
    <3>1. txn[t].got = 0 /\ Locks(t)[1] = UserRow /\ Len(Locks(t)) = 2
      BY <2>2, <2>5, <2>7, RunningFacts, UserRowFirst
    <3>2. Wanted(t) = UserRow
      BY <3>1 DEF Wanted
    <3>3. LockUser(t) /\ Active = {}
      BY <1>3, <2>1, <2>5, <3>2, Moves, LocksDiffer DEF LockKey, LockSession, LockDraft, LockInputs, Takes
    <3> QED
      BY <2>3, <3>3
  <2> QED
    BY <2>6, <2>7
<1> QED
  BY <1>2, <1>3

\* A request names a session that was there when it was submitted, and a session
\* is never undone.
SessionsKnown ==
  \A t \in Running : txn[t].request \in Status => status[txn[t].request.session] # "NONE"

LEMMA StaysKnown ==
  ASSUME Rows, Next, NEW s \in Session, status[s] # "NONE"
  PROVE  status'[s] # "NONE"
<1>1. ASSUME NEW t \in Txn, ChangeStatus(t) PROVE status'[s] # "NONE"
  <2>1. /\ NewStatus(t) \in {"ARCHIVED", "ACTIVE", "DELETING"}
        /\ status' = [status EXCEPT ![txn[t].request.session] = NewStatus(t)]
    BY <1>1, ChangeStatusEffect
  <2> QED
    BY <2>1 DEF Rows, TypeOK
<1>2. ASSUME NEW t \in Txn, CreateSession(t) PROVE status'[s] # "NONE"
  BY <1>2 DEF CreateSession, Rows, TypeOK
<1>3. ASSUME NEW z \in Session, FinishDeletion(z) PROVE status'[s] # "NONE"
  BY <1>3 DEF FinishDeletion, Rows, TypeOK
<1>4. ASSUME NEW t \in Txn, LockKey(t) \/ LockSession(t) PROVE status' = status
  BY <1>4, LockKeyCases, LockSessionCases DEF End, Proceed, sessions
<1> QED
  BY <1>1, <1>2, <1>3, <1>4
     DEF Next, SubmitAny, Submit, SubmitDrop, Abort, Reject, End, Proceed, LockUser, LockDraft,
         LockInputs, AcceptMessage, DecideDraft, DeleteOrder, FinishRun, Receive, sessions

LEMMA SessionsKnownStep == Rows /\ SessionsKnown /\ [Next]_vars => SessionsKnown'
<1> SUFFICES ASSUME Rows, SessionsKnown, Next PROVE SessionsKnown'
  BY DEF vars, SessionsKnown, Running
<1> SUFFICES ASSUME NEW t \in Running', txn'[t].request \in Status
             PROVE  status'[txn'[t].request.session] # "NONE"
  BY DEF SessionsKnown
<1>1. t \in Txn /\ txn \in [Txn -> Transaction \cup {None}] /\ txn'[t] # None
      /\ txn'[t].request.session \in Session
  BY DEF Running, Rows, TypeOK, Status
<1>2. CASE txn'[t] = txn[t]
  BY <1>1, <1>2, StaysKnown DEF SessionsKnown, Running
<1>3. CASE SubmitAny(t) \/ SubmitDrop(t)
  <2>1. SubmitAny(t) \/ \E r \in DropOrder : txn' = [txn EXCEPT ![t] = [key |-> None, request |-> r, got |-> 0]]
    BY <1>3 DEF SubmitDrop
  <2>2. \A r \in DropOrder : r \notin Status
    BY DEF DropOrder, Status
  <2>3. SubmitAny(t)
    BY <1>1, <2>1, <2>2
  <2>4. PICK k, r : Submit(t, k, r)
    BY <2>3 DEF SubmitAny
  <2>5. txn'[t].request = r /\ (r # Workspace => status[r.session] # "NONE") /\ status' = status
    BY <1>1, <2>4 DEF Submit, sessions
  <2>6. r # Workspace
    BY <2>5 DEF Workspace, Status
  <2> QED
    BY <2>5, <2>6
<1>4. CASE txn'[t] # txn[t] /\ ~(SubmitAny(t) \/ SubmitDrop(t))
  <2>1. Proceed(t) /\ t \in Running
    BY <1>4, Moves DEF LockUser, LockKey, LockSession, LockDraft, LockInputs, Takes, Running
  <2>2. txn'[t] = [txn[t] EXCEPT !.got = @ + 1] /\ status' = status
    BY <1>1, <2>1 DEF Proceed, sessions
  <2>3. txn'[t].request = txn[t].request
    BY <2>1, <2>2, RunningFacts DEF Transaction
  <2> QED
    BY <2>1, <2>2, <2>3 DEF SessionsKnown
<1> QED
  BY <1>2, <1>3, <1>4

LEMMA CreatesAlone ==
  Rows /\ AloneAtTheUser /\ SessionsKnown /\ [Next]_vars =>
    [\A s \in Session : status[s] = "NONE" /\ status'[s] # "NONE" => Active = {}]_vars
<1> SUFFICES ASSUME Rows, AloneAtTheUser, SessionsKnown, Next,
                    NEW s \in Session, status[s] = "NONE", status'[s] # "NONE"
             PROVE  Active = {}
  OBVIOUS
<1>1. PICK t \in Txn : CreateSession(t) \/ ChangeStatus(t)
  <2>1. ASSUME NEW t \in Txn, LockKey(t) \/ LockSession(t) PROVE FALSE
    BY <2>1, LockKeyCases, LockSessionCases DEF End, Proceed, sessions
  <2>2. ASSUME NEW z \in Session, FinishDeletion(z) PROVE FALSE
    BY <2>2 DEF FinishDeletion, Rows, TypeOK
  <2> QED
    BY <2>1, <2>2
       DEF Next, SubmitAny, Submit, SubmitDrop, Abort, Reject, End, Proceed, LockUser, LockDraft,
           LockInputs, AcceptMessage, DecideDraft, DeleteOrder, FinishRun, Receive, sessions
<1>2. CASE CreateSession(t)
  <2>1. t \in Running /\ AllTaken(t) /\ txn[t].request \in Request /\ txn[t].request.kind = "WORKSPACE"
    BY <1>2, ReadyFacts DEF CreateSession
  <2>2. txn[t].request = Workspace
    BY <2>1, Kinds
  <2>3. txn[t].got >= 1
    BY <2>1, <2>2, UserRowFirst, RunningFacts DEF AllTaken, AlreadyDecided
  <2> QED
    BY <2>1, <2>2, <2>3 DEF AloneAtTheUser
<1>3. CASE ChangeStatus(t)
  <2>1. /\ txn[t].request \in Status /\ t \in Running
        /\ status' = [status EXCEPT ![txn[t].request.session] = NewStatus(t)]
    BY <1>3, ChangeStatusEffect
  <2>2. s = txn[t].request.session
    BY <2>1 DEF Rows, TypeOK
  <2> QED
    BY <2>1, <2>2 DEF SessionsKnown
<1> QED
  BY <1>1, <1>2, <1>3

\* Two clicks on the workspace, and a restore between them, create one session at
\* most: a session is created only when none is active.
THEOREM OneWorkspace == Spec => WorkspaceCreatedOnce
<1> DEFINE Inv == Rows /\ AloneAtTheUser /\ SessionsKnown
<1>1. Init => Inv
  BY RowsInit DEF Init, AloneAtTheUser, SessionsKnown, Running
<1>2. Inv /\ [Next]_vars => Inv'
  BY RowsStep, AloneAtTheUserStep, SessionsKnownStep
<1>3. Inv /\ [Next]_vars =>
        [\A s \in Session : status[s] = "NONE" /\ status'[s] # "NONE" => Active = {}]_vars
  BY CreatesAlone
<1> QED
  BY <1>1, <1>2, <1>3, PTL DEF Spec, WorkspaceCreatedOnce

-----------------------------------------------------------------------------
(* A request acts at most once under its key *)

\* The first lock of a request orders all requests with its key.
FirstLock(k) == IF k \in CommandKey THEN KeyLock(k) ELSE SessionRow(k[2])

LEMMA FirstLocks ==
  ASSUME Rows, NEW t \in Running, txn[t].key \in CommandKey \cup MessageKey
  PROVE  LET k == txn[t].key IN
         /\ k \in Key /\ txn[t].got \in 0..4
         /\ txn[t].got >= 1 => FirstLock(k) \in Held(t)
         /\ AllTaken(t) => txn[t].got >= 1
         /\ txn[t].got = 0 => Wanted(t) = FirstLock(k)
         /\ k \in CommandKey => txn[t].request \in Status \cup Decide
         /\ k \in MessageKey => txn[t].request \in Message /\ k[2] = txn[t].request.session
         /\ k \in CommandKey <=> k \notin MessageKey
<1> DEFINE k == txn[t].key
           r == txn[t].request
<1>1. r \in Request /\ txn[t].got \in 0..4 /\ Belongs(k, r) /\ k \in Key
  BY RunningFacts DEF Key
<1>2. k \in CommandKey => k \notin MessageKey
  BY KeysDiffer
<1>3. k \notin WorkspaceKey /\ k # None
  BY KeysDiffer DEF Key
<1>4. /\ k \in CommandKey => r \in Status \cup Decide
      /\ k \in MessageKey => r \in Message /\ k[2] = r.session
  BY <1>1, <1>2, <1>3 DEF Belongs
<1>5. Locks(t)[1] = FirstLock(k) /\ Len(Locks(t)) # 0
  BY <1>1, <1>2, <1>4, Kinds, Paths DEF Locks, FirstLock
<1>6. txn[t].got >= 1 => FirstLock(k) \in Held(t)
  BY <1>1, <1>5 DEF Held
<1>7. AllTaken(t) => txn[t].got >= 1
  BY <1>1, <1>5 DEF AllTaken, AlreadyDecided
<1>8. txn[t].got = 0 => Wanted(t) = FirstLock(k)
  BY <1>5, <1>7 DEF Wanted
<1> QED
  BY <1>1, <1>2, <1>4, <1>6, <1>7, <1>8

\* A transaction that holds the first lock of its request has found nothing recorded
\* under its key, and nobody records anything there meanwhile.
FirstUse ==
  \A t \in Running :
    txn[t].key \in CommandKey \cup MessageKey /\ txn[t].got >= 1 => outcome[txn[t].key] = None

\* A transaction takes its first lock when nothing is recorded.
LEMMA FoundNothing ==
  ASSUME Rows, Next, NEW t \in Running, txn[t].key \in CommandKey \cup MessageKey,
         txn[t].got = 0, t \in Running', txn'[t] # txn[t]
  PROVE  outcome[txn[t].key] = None
<1> DEFINE k == txn[t].key
<1>1. Wanted(t) = FirstLock(k) /\ t \in Txn
  BY FirstLocks DEF Running
<1>2. ~SubmitAny(t) /\ ~SubmitDrop(t)
  BY DEF Running, SubmitAny, Submit, SubmitDrop
<1>3. ~LockUser(t)
  <2>1. txn[t].request # Workspace
    BY FirstLocks DEF Status, Decide, Message, Workspace
  <2> QED
    BY <2>1, UserRowFirst DEF LockUser
<1>4. ~LockDraft(t) /\ ~LockInputs(t)
  BY <1>1, LocksDiffer DEF LockDraft, LockInputs, Takes, FirstLock
<1>5. CASE LockKey(t) /\ Record(t) = None
  BY <1>5 DEF Record
<1>6. CASE LockSession(t) /\ Acceptable(t)
  <2>1. k \notin CommandKey
    BY <1>1, <1>6, LocksDiffer DEF LockSession, Takes, FirstLock
  <2> QED
    BY <1>6, <2>1, FirstLocks DEF Acceptable, Record
<1> QED
  BY <1>2, <1>3, <1>4, <1>5, <1>6, Moves

\* Nobody records anything under the key of a transaction that has its first lock.
LEMMA KeyGuarded ==
  ASSUME Rows, Exclusion, Next, NEW t \in Running, txn[t].key \in CommandKey \cup MessageKey,
         txn[t].got >= 1, outcome[txn[t].key] = None,
         NEW u \in Running, u # t, NEW s, NEW result, Commits(u, s, result),
         AllTaken(u), txn[u].key \in Key
  PROVE  outcome'[txn[t].key] = None
<1>1. CASE txn[u].key = txn[t].key
  <2>1. FirstLock(txn[t].key) \in Held(t) /\ FirstLock(txn[t].key) \in Held(u)
    BY <1>1, FirstLocks
  <2> QED
    BY <2>1 DEF Exclusion
<1>2. CASE txn[u].key # txn[t].key
  <2>1. txn[t].key \in Key
    BY DEF Key
  <2> QED
    BY <1>2, <2>1 DEF Commits, Rows, TypeOK
<1> QED
  BY <1>1, <1>2

LEMMA FirstUseStep == Rows /\ Exclusion /\ FirstUse /\ [Next]_vars => FirstUse'
<1> SUFFICES ASSUME Rows, Exclusion, FirstUse, Next PROVE FirstUse'
  BY DEF vars, FirstUse, Running
<1> SUFFICES ASSUME NEW t \in Running', txn'[t].key \in CommandKey \cup MessageKey, txn'[t].got >= 1
             PROVE  outcome'[txn'[t].key] = None
  BY DEF FirstUse
<1> DEFINE k == txn'[t].key
<1>1. t \in Txn /\ txn \in [Txn -> Transaction \cup {None}] /\ txn'[t] # None
  BY DEF Running, Rows, TypeOK
<1>2. t \in Running /\ txn[t].key = k /\ outcome[k] = None
  <2>1. CASE txn'[t] = txn[t]
    BY <1>1, <2>1 DEF FirstUse, Running
  <2>2. CASE txn'[t] # txn[t]
    <3>1. ~SubmitAny(t) /\ ~SubmitDrop(t)
      <4>1. ASSUME SubmitAny(t) \/ SubmitDrop(t) PROVE txn'[t].got = 0
        <5>1. \E j, r : txn' = [txn EXCEPT ![t] = [key |-> j, request |-> r, got |-> 0]]
          BY <4>1 DEF SubmitAny, Submit, SubmitDrop
        <5> QED
          BY <1>1, <5>1
      <4> QED
        BY <4>1
    <3>2. Proceed(t) /\ t \in Running
      BY <2>2, <3>1, Moves DEF LockUser, LockKey, LockSession, LockDraft, LockInputs, Takes, Running
    <3>3. txn'[t] = [txn[t] EXCEPT !.got = @ + 1]
      BY <1>1, <3>2 DEF Proceed
    <3>4. txn[t].key = k /\ txn[t].got \in 0..4
      BY <3>2, <3>3, RunningFacts DEF Transaction
    <3>5. CASE txn[t].got >= 1
      BY <3>2, <3>4, <3>5 DEF FirstUse
    <3>6. CASE txn[t].got = 0
      BY <2>2, <3>2, <3>4, <3>6, FoundNothing
    <3> QED
      BY <3>2, <3>4, <3>5, <3>6
  <2> QED
    BY <2>1, <2>2
<1>3. CASE outcome' = outcome
  BY <1>2, <1>3
<1>4. ASSUME NEW u \in Running, NEW s \in Session, NEW result \in Result,
             AllTaken(u), txn[u].key \in Key, Commits(u, s, result)
      PROVE  outcome'[k] = None
  <2>1. u # t /\ txn'[t] = txn[t]
    BY <1>1, <1>4 DEF Commits, Answer
  <2> QED
    BY <1>2, <1>4, <2>1, KeyGuarded
<1>5. ASSUME NEW s \in Session, FinishDeletion(s) PROVE outcome'[k] = None
  BY <1>2, <1>5 DEF FinishDeletion, Key
<1> QED
  BY <1>3, <1>4, <1>5, Recording

-----------------------------------------------------------------------------
(* The commands keep the promise *)

\* The keys whose answers a client compares.
Kept == CommandKey \cup MessageKey
Told(k) == IF outcome[k] = None THEN None ELSE Keyed(k)
Telling == [k \in Kept |-> Told(k)]
Opening == [k \in Kept |-> AccessOf(k)]

LEMMA ToldFacts ==
  ASSUME Rows, NEW k \in Kept
  PROVE  /\ k \in Key /\ Telling[k] = Told(k) /\ Opening[k] = AccessOf(k)
         /\ Told(k) = None <=> outcome[k] = None
         /\ outcome[k] # None =>
              Told(k).request = outcome[k].request /\ Told(k).result = outcome[k].result
<1>1. k \in Key /\ Telling[k] = Told(k) /\ Opening[k] = AccessOf(k)
  BY DEF Kept, Key, Telling, Opening
<1>2. outcome[k] # None => Keyed(k) \in [request : Request, result : Result]
  BY <1>1 DEF Rows, TypeOK, Outcome, Keyed
<1>3. outcome[k] # None => Keyed(k) # None
  BY <1>2, NoneIsNothing
<1> QED
  BY <1>1, <1>3 DEF Told, Keyed

\* Nobody is answered, and nothing is recorded.
LEMMA SilentKept ==
  ASSUME Rows, reply' = None, outcome' = outcome
  PROVE  Promise!Change
<1>1. \A k \in Kept : Telling'[k] = Telling[k]
  BY DEF Telling, Told, Keyed
<1> QED
  BY <1>1 DEF Promise!Change, Kept, Telling, Told

\* Nothing is recorded, and what is recorded stays as readable as it was.
LEMMA SameTelling ==
  ASSUME UNCHANGED <<status, outcome>>
  PROVE  Telling' = Telling /\ Opening' = Opening
BY DEF Telling, Told, Keyed, Opening, AccessOf, Readable

\* A refusal is given under a key that has recorded nothing, that has recorded
\* another request, or whose session is closed.
LEMMA RefusalKept ==
  ASSUME Rows, NEW t \in Running, End(t, Refused),
         LET k == txn[t].key IN
           \/ outcome[k] = None
           \/ outcome[k].request # txn[t].request
           \/ ~Readable(k, outcome[k].request)
  PROVE  Promise!Next
<1> DEFINE k == txn[t].key
<1>1. CASE k \in Kept
  <2>1. reply' = [key |-> k, request |-> txn[t].request, answer |-> Refused]
    BY <1>1, AnswerType DEF End, Kept
  <2>2. reply' \in Reply
    BY <1>1, <2>1, RunningFacts DEF Reply, Kept
  <2>3. reply' # None /\ reply' = Promise!Reply(k, reply'.request, Refused)
    BY <2>1, <2>2, NoneIsNothing DEF Promise!Reply
  <2>4. Telling[k] = None \/ Telling[k].request # reply'.request \/ Opening[k] # "OPEN"
    BY <1>1, <2>1, ToldFacts DEF AccessOf
  <2>5. Telling' = Telling /\ Opening' = Opening
    BY SameTelling DEF End, sessions
  <2>6. Promise!Refuse(k)
    BY <2>3, <2>4, <2>5 DEF Promise!Refuse, Telling, Opening, Told, Kept
  <2> QED
    BY <1>1, <2>6 DEF Promise!Next, Kept
<1>2. CASE k \notin Kept
  BY <1>2, AnswerType, SilentKept DEF End, Kept, Promise!Next
<1> QED
  BY <1>1, <1>2

\* A repetition is answered with what is recorded.
LEMMA RepetitionKept ==
  ASSUME Rows, NEW t \in Running, Repeated(t), txn[t].key \in Key, End(t, Record(t).result)
  PROVE  Promise!Next
<1> DEFINE k == txn[t].key
<1>1. Record(t).result \in Result \cup {Refused} /\ outcome[k] # None /\ Record(t) = outcome[k]
  BY RecordFacts DEF Repeated, Record
<1>2. CASE k \in Kept
  <2>1. reply' = Promise!Reply(k, outcome[k].request, outcome[k].result)
    BY <1>1, <1>2, AnswerType DEF End, Kept, Repeated, Promise!Reply
  <2>2. Telling' = Telling /\ Opening' = Opening
    BY SameTelling DEF End, sessions
  <2>3. Telling[k] # None /\ reply' = Promise!Reply(k, Telling[k].request, Telling[k].result)
    BY <1>1, <1>2, <2>1, ToldFacts
  <2>4. Promise!Repeat(k)
    BY <2>2, <2>3 DEF Promise!Repeat, Telling, Opening, Told, Kept
  <2> QED
    BY <1>2, <2>4 DEF Promise!Next, Kept
<1>3. CASE k \notin Kept
  BY <1>1, <1>3, AnswerType, SilentKept DEF End, Kept, Promise!Next
<1> QED
  BY <1>2, <1>3

\* A commit is the one act under its key.
LEMMA CommitKept ==
  ASSUME Rows, FirstUse, NEW t \in Running, NEW s \in Session, NEW result \in Result,
         AllTaken(t), txn[t].key \in Key, Commits(t, s, result)
  PROVE  Promise!Next
<1> DEFINE k == txn[t].key
           new == [request |-> txn[t].request, session |-> s, result |-> result]
<1>1. outcome' = [outcome EXCEPT ![k] = new] /\ Answer(t, result)
  BY DEF Commits
<1>2. \A j \in Key \ {k} : outcome'[j] = outcome[j]
  BY <1>1 DEF Rows, TypeOK
<1>3. CASE k \in Kept
  <2>1. outcome[k] = None
    BY <1>3, FirstLocks DEF FirstUse, Kept
  <2>2. new \in Outcome /\ outcome'[k] = new
    BY <1>1, RunningFacts DEF Outcome, Rows, TypeOK
  <2>3. outcome'[k] # None
    BY <2>2, NoneIsNothing
  <2>4. [request |-> txn[t].request, result |-> result] # None
    BY RunningFacts, NoneIsNothing
  <2>5. Telling'[k] = [request |-> txn[t].request, result |-> result]
    BY <1>3, <2>2, <2>3 DEF Telling, Told, Keyed
  <2>6. \A j \in Kept \ {k} : Telling'[j] = Telling[j]
    BY <1>2 DEF Telling, Told, Keyed, Kept, Key
  <2>7. Telling' = [Telling EXCEPT ![k] = Telling'[k]]
    BY <2>6 DEF Telling
  <2>8. reply' = Promise!Reply(k, Telling'[k].request, Telling'[k].result)
    BY <1>1, <1>3, <2>5, AnswerType DEF Kept, Promise!Reply
  <2>9. Telling[k] = None /\ Telling'[k] # None
    BY <1>3, <2>1, <2>4, <2>5, ToldFacts
  <2>10. PICK j \in Kept : j = k
    BY <1>3
  <2>11. Promise!Act(j)
    BY <2>7, <2>8, <2>9, <2>10 DEF Promise!Act, Telling, Told, Kept
  <2> QED
    BY <2>11 DEF Promise!Next, Kept
<1>4. CASE k \notin Kept
  <2>1. reply' = None
    BY <1>1, <1>4, AnswerType DEF Kept
  <2>2. \A j \in Kept : Telling'[j] = Telling[j]
    BY <1>2, <1>4 DEF Telling, Told, Keyed, Kept, Key
  <2> QED
    BY <2>1, <2>2 DEF Promise!Next, Promise!Change, Kept, Telling, Told
<1> QED
  BY <1>3, <1>4

\* The commands and messages of a session that ends go with it.
LEMMA DeletionKept ==
  ASSUME Rows, NEW s \in Session, FinishDeletion(s)
  PROVE  Promise!Change
<1>1. reply' = None /\ status[s] = "DELETING"
  BY DEF FinishDeletion
<1>2. ASSUME NEW k \in Kept
      PROVE  Telling'[k] = Telling[k] \/ (Opening[k] = "ENDING" /\ Telling'[k] = None)
  <2>1. outcome'[k] = IF outcome[k] # None /\ outcome[k].session = s THEN None ELSE outcome[k]
    BY <1>2 DEF FinishDeletion, Kept, Key
  <2>2. CASE outcome[k] # None /\ outcome[k].session = s
    BY <1>1, <1>2, <2>1, <2>2 DEF Telling, Told, Opening, AccessOf
  <2>3. CASE ~(outcome[k] # None /\ outcome[k].session = s)
    BY <1>2, <2>1, <2>3 DEF Telling, Told, Keyed
  <2> QED
    BY <2>2, <2>3
<1> QED
  BY <1>1, <1>2 DEF Promise!Change, Kept, Telling, Told, Opening

LEMMA LockKeyKept == ASSUME Rows, NEW t \in Txn, LockKey(t) PROVE Promise!Next
<1>1. t \in Running /\ txn[t].key \in Key
  BY LockKeyCases, KeyLockTaken DEF Key
<1>2. CASE Record(t) = None /\ Proceed(t)
  BY <1>2, SilentKept DEF Proceed, Promise!Next
<1>3. CASE Repeated(t) /\ End(t, Record(t).result)
  BY <1>1, <1>3, RepetitionKept
<1>4. CASE /\ Record(t) # None /\ End(t, Refused)
           /\ ~(Repeated(t) /\ Readable(txn[t].key, txn[t].request))
  BY <1>1, <1>4, RefusalKept DEF Repeated, Record
<1> QED
  BY <1>2, <1>3, <1>4, LockKeyCases

\* A message is looked up when its session is locked.
LEMMA LockSessionKept == ASSUME Rows, FirstUse, NEW t \in Txn, LockSession(t) PROVE Promise!Next
<1> DEFINE k == txn[t].key
           r == txn[t].request
<1>1. t \in Running /\ Takes(t, SessionRow(r.session)) /\ r # Workspace
  BY LockSessionCases
<1>2. CASE Accepted(t) /\ End(t, Record(t).result)
  <2>1. r \in Message /\ Repeated(t)
    BY <1>2 DEF Accepted
  <2>2. k \in Key
    BY <1>1, <2>1, RunningFacts, Kinds DEF Belongs, Key
  <2> QED
    BY <1>1, <1>2, <2>1, <2>2, RepetitionKept
<1>3. CASE Proceed(t)
  BY <1>3, SilentKept DEF Proceed, Promise!Next
<1>4. CASE ~Accepted(t) /\ End(t, Refused)
  <2>1. CASE k \in CommandKey
    <3>1. txn[t].got # 0
      BY <1>1, <2>1, FirstLocks, LocksDiffer DEF Takes, FirstLock
    <3>2. outcome[k] = None
      BY <1>1, <2>1, <3>1, FirstLocks DEF FirstUse
    <3> QED
      BY <1>1, <1>4, <3>2, RefusalKept
  <2>2. CASE k \in MessageKey
    <3>1. r \in Message
      BY <1>1, <2>2, FirstLocks
    <3>2. outcome[k] = None \/ outcome[k].request # r \/ status[r.session] # "ACTIVE"
      BY <1>4, <3>1 DEF Accepted, Repeated, Record
    <3>3. outcome[k].request = r /\ status[r.session] # "ACTIVE" => ~Readable(k, outcome[k].request)
      BY <3>1 DEF Readable, Message, Status, Decide, Workspace
    <3> QED
      BY <1>1, <1>4, <3>2, <3>3, RefusalKept
  <2>3. CASE k \notin Kept
    BY <1>1, <1>4, <2>3, AnswerType, SilentKept DEF End, Kept, Promise!Next
  <2> QED
    BY <2>1, <2>2, <2>3 DEF Kept
<1> QED
  BY <1>2, <1>3, <1>4, LockSessionCases

\* Whoever is refused later holds the first lock, so nothing is recorded.
LEMMA LaterKept ==
  ASSUME Rows, FirstUse, NEW t \in Txn, Reject(t) \/ LockDraft(t) \/ LockInputs(t)
  PROVE  Promise!Next
<1> DEFINE k == txn[t].key
<1>1. t \in Running /\ (End(t, Refused) \/ Proceed(t))
  BY DEF Reject, LockDraft, LockInputs, Takes, Running
<1>2. CASE k \in Kept /\ End(t, Refused)
  <2>1. txn[t].got # 0
    BY <1>1, <1>2, FirstLocks, LocksDiffer
       DEF Reject, LockDraft, LockInputs, Takes, FirstLock, AllTaken, Kept
  <2>2. outcome[k] = None
    BY <1>1, <1>2, <2>1, FirstLocks DEF FirstUse, Kept
  <2> QED
    BY <1>1, <1>2, <2>2, RefusalKept
<1>3. CASE k \notin Kept /\ End(t, Refused)
  BY <1>1, <1>3, AnswerType, SilentKept DEF End, Kept, Promise!Next
<1>4. CASE Proceed(t)
  BY <1>4, SilentKept DEF Proceed, Promise!Next
<1> QED
  BY <1>1, <1>2, <1>3, <1>4

\* An active session answers the workspace, which nobody compares.
LEMMA LockUserKept == ASSUME Rows, NEW t \in Txn, LockUser(t) PROVE Promise!Next
<1>1. t \in Running
  BY DEF LockUser, Takes, Running
<1>2. txn[t].key \notin Kept
  <2>1. txn[t].request = Workspace
    BY <1>1, UserRowFirst DEF LockUser
  <2> QED
    BY <1>1, <2>1, FirstLocks DEF Kept, Status, Decide, Message, Workspace
<1>3. ASSUME NEW s \in Active, End(t, s) PROVE Promise!Next
  BY <1>1, <1>2, <1>3, AnswerType, SilentKept DEF End, Kept, Promise!Next, Active, Result
<1>4. CASE Proceed(t)
  BY <1>4, SilentKept DEF Proceed, Promise!Next
<1> QED
  BY <1>3, <1>4 DEF LockUser

LEMMA CommandKept ==
  Rows /\ FirstUse /\ [Next]_vars => [Promise!Next]_(Promise!vars)
<1> SUFFICES ASSUME Rows, FirstUse, Next PROVE Promise!Next
  BY SameTelling DEF vars, sessions, Promise!vars, Telling, Told, Opening, Kept
<1>1. CASE outcome' = outcome /\ reply' = None
  BY <1>1, SilentKept DEF Promise!Next
<1>2. ASSUME NEW t \in Running, NEW s \in Session, NEW result \in Result,
             AllTaken(t), txn[t].key \in Key, Commits(t, s, result)
      PROVE  Promise!Next
  BY <1>2, CommitKept
<1>3. ASSUME NEW s \in Session, FinishDeletion(s) PROVE Promise!Next
  BY <1>3, DeletionKept DEF Promise!Next
<1>4. ASSUME NEW t \in Txn, LockUser(t) \/ LockKey(t) \/ LockSession(t) \/ LockDraft(t) \/ LockInputs(t) \/ Reject(t)
      PROVE  Promise!Next
  BY <1>4, LockUserKept, LockKeyKept, LockSessionKept, LaterKept
<1>5. ASSUME NEW t \in Txn, SubmitAny(t) \/ SubmitDrop(t) \/ Abort(t) \/ DeleteOrder(t)
      PROVE  outcome' = outcome /\ reply' = None
  BY <1>5 DEF SubmitAny, Submit, SubmitDrop, Abort, DeleteOrder
<1>6. ASSUME NEW s \in Session, FinishRun(s) PROVE outcome' = outcome /\ reply' = None
  BY <1>6 DEF FinishRun
<1>7. Receive => outcome' = outcome /\ reply' = None
  BY DEF Receive
<1>8. ASSUME NEW t \in Txn,
             CreateSession(t) \/ ChangeStatus(t) \/ AcceptMessage(t) \/ DecideDraft(t)
      PROVE  Promise!Next
  BY <1>2, <1>8, Committing
<1> QED
  BY <1>1, <1>3, <1>4, <1>5, <1>6, <1>7, <1>8 DEF Next

\* The buttons of the user keep what a client that repeats them relies on: under its
\* key a command or a message acts at most once, and a repetition is answered with
\* the result of that act as long as the session may be read.
THEOREM KeepsThePromise == Spec => ActsAtMostOnce
<1> DEFINE Inv == Rows /\ Exclusion /\ FirstUse
<1>1. Init => Inv
  BY RowsInit DEF Init, Exclusion, FirstUse, Running
<1>2. Inv /\ [Next]_vars => Inv'
  BY RowsStep, ExclusionStep, FirstUseStep
<1>3. Init => Promise!Init
  <2>1. Init => \A k \in Key : outcome[k] = None
    BY DEF Init
  <2> QED
    BY <2>1 DEF Init, Promise!Init, Promise!Access, AccessOf, Key
<1>4. Inv /\ [Next]_vars => [Promise!Next]_(Promise!vars)
  BY CommandKept
<1> QED
  BY <1>1, <1>2, <1>3, <1>4, PTL DEF Spec, ActsAtMostOnce, Promise!Spec
=============================================================================
