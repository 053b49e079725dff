-------------------------- MODULE SessionCommands --------------------------
(***************************************************************************)
(* The transactions behind the buttons of one user: the workspace, the     *)
(* status of a session, a message, the decision on a draft (confirm an     *)
(* order, apply a plan), and the deletion of an order on the board.  Each  *)
(* takes its locks one at a time, in the order of the code, and answers    *)
(* when it ends.  A client may send a request again at any time, while the *)
(* first one is still running, after its answer was lost, or long after.   *)
(*                                                                         *)
(* agentApi.command keeps one key for each method, path and body, so the   *)
(* key of a workspace request is used for nothing else; a message has its  *)
(* client_message_id.  Every session has one draft here.                   *)
(***************************************************************************)
EXTENDS Naturals, Sequences, FiniteSets

CONSTANTS
  Txn,            \* requests the server works on at once
  Session,
  WorkspaceKey, CommandKey, MessageId,   \* the keys of each kind of request
  MaxRevision,    \* bound on the revisions a message names: the code has none
  None, Refused

ASSUME CommandConstants == MaxRevision \in Nat

\* A client_message_id is looked up among the messages of its session.
MessageKey == MessageId \X Session
Key == WorkspaceKey \cup CommandKey \cup MessageKey

Workspace == [kind |-> "WORKSPACE"]
Status == [kind : {"ARCHIVE", "RESTORE", "DELETE"}, session : Session]
Decide == [kind : {"DECIDE"}, session : Session]
Message == [kind : {"SEND", "SCHEDULE"}, session : Session, revision : 0..MaxRevision]
DropOrder == [kind : {"DROP_ORDER"}, session : Session]
Request == {Workspace} \cup Status \cup Decide \cup Message \cup DropOrder

\* What a request may be answered with, when it is not refused.
Result ==
  Session \cup ({"ARCHIVED", "ACTIVE", "DELETING", "ACCEPTED", "DECIDED"} \X Nat)

Outcome == [request : Request, session : Session, result : Result]
Transaction == [key : Key \cup {None}, request : Request, got : 0..4]
Reply == [key : CommandKey \cup MessageKey, request : Request, answer : Result \cup {Refused}]

\* Workspaces, commands and messages do not share a key: see above.
ASSUME KeysDiffer ==
  /\ WorkspaceKey \cap CommandKey = {}
  /\ (WorkspaceKey \cup CommandKey) \cap MessageKey = {}
  /\ None \notin Key

\* "None" is neither a row nor an answer.
ASSUME NoneIsNothing ==
  /\ None \notin Outcome /\ None \notin Transaction /\ None \notin Reply
  /\ None \notin [request : Request, result : Result]

VARIABLES
  status,    \* of each session: "NONE", "ACTIVE", "ARCHIVED", "DELETING" or "GONE"
  revision,  \* state_revision of each session
  busy,      \* the session has an open run
  draft,     \* its draft: "OPEN", "DECIDED", or "DROPPED" with its order deleted
  outcome,   \* what is recorded under each key: [request, session, result] or None
  txn,       \* each transaction: [key, request, got], its first "got" locks taken, or None
  reply      \* the answer to a command or message in the last step: [key, request,
             \* answer], or None

vars == <<status, revision, busy, draft, outcome, txn, reply>>
sessions == <<status, revision, busy, draft>>

\* Rows keep the ranges of their columns.
TypeOK ==
  /\ status \in [Session -> {"NONE", "ACTIVE", "ARCHIVED", "DELETING", "GONE"}]
  /\ revision \in [Session -> Nat]
  /\ busy \in [Session -> BOOLEAN]
  /\ draft \in [Session -> {"OPEN", "DECIDED", "DROPPED"}]
  /\ outcome \in [Key -> Outcome \cup {None}]
  /\ txn \in [Txn -> Transaction \cup {None}]
  /\ reply \in Reply \cup {None}

Init ==
  /\ status = [s \in Session |-> "NONE"]
  /\ revision = [s \in Session |-> 0]
  /\ busy = [s \in Session |-> FALSE]
  /\ draft = [s \in Session |-> "OPEN"]
  /\ outcome = [k \in Key |-> None]
  /\ txn = [t \in Txn |-> None]
  /\ reply = None

-----------------------------------------------------------------------------
(* Locks *)

UserRow == <<"users">>
Inputs == <<"7302">>
KeyLock(k) == <<"7301", k>>
SessionRow(s) == <<"chat_sessions", s>>
DraftRow(s) == <<"draft", s>>

\* Mutation of SchedulePath: the scheduling lock comes first, as on the board.
SchedulePathInputsFirst(s) == <<Inputs, SessionRow(s)>>
SchedulePath(s) == <<SessionRow(s), Inputs>>

\* The locks of a transaction, in the order it takes them.  Deleting an order
\* clears the order of its draft, last.
Path(k, r) ==
  CASE r.kind = "WORKSPACE" -> <<UserRow, KeyLock(k)>>
    [] r.kind \in {"ARCHIVE", "RESTORE", "DELETE"} -> <<KeyLock(k), SessionRow(r.session)>>
    [] r.kind = "DECIDE" -> <<KeyLock(k), SessionRow(r.session), DraftRow(r.session), Inputs>>
    [] r.kind = "SEND" -> <<SessionRow(r.session)>>
    [] r.kind = "SCHEDULE" -> SchedulePath(r.session)
    [] r.kind = "DROP_ORDER" -> <<Inputs, DraftRow(r.session)>>

Running == {t \in Txn : txn[t] # None}
Locks(t) == Path(txn[t].key, txn[t].request)
Held(t) == {Locks(t)[n] : n \in 1..txn[t].got}
HeldByOthers(t) == UNION {Held(u) : u \in Running \ {t}}

\* A decision on a draft that was decided before does not go to the board.
AlreadyDecided(t) ==
  /\ txn[t].request \in Decide /\ txn[t].got = 3
  /\ draft[txn[t].request.session] # "OPEN"
AllTaken(t) == txn[t].got = Len(Locks(t)) \/ AlreadyDecided(t)

\* The foreign key of its last insert makes a command wait for the transaction
\* that holds the row of the user.
Wanted(t) == IF AllTaken(t) THEN UserRow ELSE Locks(t)[txn[t].got + 1]

\* Mutation of Available: the row of the user is read without locking it.
AvailableUser(t) == Wanted(t) = UserRow \/ Wanted(t) \notin HeldByOthers(t)
Available(t) == Wanted(t) \notin HeldByOthers(t)

-----------------------------------------------------------------------------
(* Requests *)

\* The answer arrives or is lost: the client may not notice the difference.  An
\* answer is seen by nobody else, so requests may as well be submitted after it.
Receive ==
  /\ reply # None /\ reply' = None
  /\ UNCHANGED <<sessions, outcome, txn>>

Submit(t, k, r) ==
  /\ txn[t] = None /\ reply = None
  /\ r # Workspace => status[r.session] # "NONE"
  /\ r \in Message => r.revision <= revision[r.session]
  /\ txn' = [txn EXCEPT ![t] = [key |-> k, request |-> r, got |-> 0]]
  /\ UNCHANGED <<sessions, outcome, reply>>

\* A client may repeat any request, and use the key of a command for another.
SubmitAny(t) ==
  \/ \E k \in WorkspaceKey : Submit(t, k, Workspace)
  \/ \E k \in CommandKey, r \in Status \cup Decide : Submit(t, k, r)
  \/ \E i \in MessageId, r \in Message : Submit(t, <<i, r.session>>, r)

\* The order page, where the order of a decided draft is deleted without a key.
SubmitDrop(t) ==
  /\ txn[t] = None /\ reply = None
  /\ \E r \in DropOrder :
       /\ draft[r.session] = "DECIDED"
       /\ txn' = [txn EXCEPT ![t] = [key |-> None, request |-> r, got |-> 0]]
  /\ UNCHANGED <<sessions, outcome, reply>>

\* The process dies, or the connection to the database: nobody is answered.
Abort(t) ==
  /\ txn[t] # None
  /\ txn' = [txn EXCEPT ![t] = None]
  /\ reply' = None
  /\ UNCHANGED <<sessions, outcome>>

Answer(t, a) ==
  /\ txn' = [txn EXCEPT ![t] = None]
  /\ reply' = IF txn[t].key \in CommandKey \cup MessageKey
                THEN [key |-> txn[t].key, request |-> txn[t].request, answer |-> a]
                ELSE None

\* The transaction ends without an effect.
End(t, a) == Answer(t, a) /\ UNCHANGED <<sessions, outcome>>

Proceed(t) ==
  /\ txn' = [txn EXCEPT ![t].got = @ + 1]
  /\ reply' = None
  /\ UNCHANGED <<sessions, outcome>>

-----------------------------------------------------------------------------
(* What a transaction finds behind each lock *)

Takes(t, lock) == txn[t] # None /\ ~AllTaken(t) /\ Wanted(t) = lock /\ Available(t)

Record(t) == outcome[txn[t].key]
Repeated(t) == Record(t) # None /\ Record(t).request = txn[t].request

Active == {s \in Session : status[s] = "ACTIVE"}

\* workspace answers with an active session, if there is one.
LockUser(t) ==
  /\ Takes(t, UserRow)
  /\ IF Active = {} THEN Proceed(t) ELSE \E s \in Active : End(t, s)

\* change_status answers again for a session that is being deleted, the other
\* commands do not.
Readable(k, r) ==
  \/ r \in Status
  \/ r \in Decide \cup {Workspace} /\ status[outcome[k].session] # "DELETING"
  \/ r \in Message /\ status[r.session] = "ACTIVE"

\* command_replay.
LockKey(t) ==
  /\ txn[t] # None /\ Takes(t, KeyLock(txn[t].key))
  /\ CASE Record(t) = None -> Proceed(t)
       [] Repeated(t) /\ Readable(txn[t].key, txn[t].request) ->
            End(t, Record(t).result)
       [] OTHER -> End(t, Refused)

\* Mutation of Accepted: an open run is reported before the message is looked up.
AcceptedIdle(t) ==
  LET r == txn[t].request IN
  r \in Message /\ Repeated(t) /\ status[r.session] = "ACTIVE" /\ ~busy[r.session]
\* accept_message finds the message it accepted before.
Accepted(t) ==
  LET r == txn[t].request IN r \in Message /\ Repeated(t) /\ status[r.session] = "ACTIVE"

\* require_session, require_idle and require_revision.
Acceptable(t) ==
  LET r == txn[t].request
      s == r.session
  IN /\ status[s] \in (IF r \in Status THEN {"ACTIVE", "ARCHIVED"} ELSE {"ACTIVE"})
     /\ r.kind # "DELETE" => ~busy[s]
     /\ r \in Message => Record(t) = None /\ r.revision = revision[s]

LockSession(t) ==
  /\ txn[t] # None /\ txn[t].request # Workspace /\ Takes(t, SessionRow(txn[t].request.session))
  /\ CASE Accepted(t) -> End(t, Record(t).result)
       [] ~Accepted(t) /\ Acceptable(t) -> Proceed(t)
       [] OTHER -> End(t, Refused)

LockDraft(t) ==
  /\ txn[t] # None /\ txn[t].request # Workspace /\ Takes(t, DraftRow(txn[t].request.session))
  /\ IF txn[t].request \in Decide /\ draft[txn[t].request.session] = "DROPPED"
       THEN End(t, Refused)
       ELSE Proceed(t)

\* The rows of the board are locked behind the scheduling lock.  The order may be gone.
LockInputs(t) ==
  /\ Takes(t, Inputs)
  /\ IF txn[t].request \in DropOrder /\ draft[txn[t].request.session] = "DROPPED"
       THEN End(t, Refused)
       ELSE Proceed(t)

\* The orders of a selection or of a plan have changed, a field is missing.
Reject(t) ==
  /\ txn[t] # None /\ txn[t].got = Len(Locks(t))
  /\ txn[t].request.kind \in {"SCHEDULE", "DECIDE"}
  /\ End(t, Refused)

-----------------------------------------------------------------------------
(* How a transaction ends *)

\* The transaction t, with all its locks, records this result and commits.
Commits(t, s, result) ==
  /\ outcome' = [outcome EXCEPT ![txn[t].key] =
                   [request |-> txn[t].request, session |-> s, result |-> result]]
  /\ Answer(t, result)

Ready(t, kinds) ==
  txn[t] # None /\ txn[t].request.kind \in kinds /\ AllTaken(t) /\ Available(t)

CreateSession(t) ==
  /\ Ready(t, {"WORKSPACE"})
  /\ \E s \in Session :
       /\ status[s] = "NONE"
       /\ status' = [status EXCEPT ![s] = "ACTIVE"]
       /\ Commits(t, s, s)
  /\ UNCHANGED <<revision, busy, draft>>

ChangeStatus(t) ==
  /\ Ready(t, {"ARCHIVE", "RESTORE", "DELETE"})
  /\ LET s == txn[t].request.session
         new == CASE txn[t].request.kind = "ARCHIVE" -> "ARCHIVED"
                  [] txn[t].request.kind = "RESTORE" -> "ACTIVE"
                  [] txn[t].request.kind = "DELETE" -> "DELETING"
     IN /\ status' = [status EXCEPT ![s] = new]
        /\ busy' = [busy EXCEPT ![s] = FALSE]
        /\ revision' = [revision EXCEPT ![s] = @ + 1]
        /\ Commits(t, s, <<new, revision[s] + 1>>)
  /\ UNCHANGED draft

AcceptMessage(t) ==
  /\ Ready(t, {"SEND", "SCHEDULE"})
  /\ LET s == txn[t].request.session
     IN /\ busy' = [busy EXCEPT ![s] = TRUE]
        /\ revision' = [revision EXCEPT ![s] = @ + 1]
        /\ Commits(t, s, <<"ACCEPTED", revision[s] + 1>>)
  /\ UNCHANGED <<status, draft>>

\* A draft that was decided before is answered with what came of it, under the
\* new key.
DecideDraft(t) ==
  /\ Ready(t, {"DECIDE"})
  /\ LET s == txn[t].request.session
         n == IF draft[s] = "OPEN" THEN revision[s] + 1 ELSE revision[s]
     IN /\ draft' = [draft EXCEPT ![s] = "DECIDED"]
        /\ revision' = [revision EXCEPT ![s] = n]
        /\ Commits(t, s, <<"DECIDED", n>>)
  /\ UNCHANGED <<status, busy>>

DeleteOrder(t) ==
  /\ txn[t] # None /\ txn[t].request \in DropOrder /\ AllTaken(t)
  /\ draft' = [draft EXCEPT ![txn[t].request.session] = "DROPPED"]
  /\ txn' = [txn EXCEPT ![t] = None]
  /\ reply' = None
  /\ UNCHANGED <<status, revision, busy, outcome>>

-----------------------------------------------------------------------------
(* The worker and the watchdog *)

Locked(s) == \E t \in Running : SessionRow(s) \in Held(t)

FinishRun(s) ==
  /\ busy[s] /\ ~Locked(s)
  /\ busy' = [busy EXCEPT ![s] = FALSE]
  /\ revision' = [revision EXCEPT ![s] = @ + 1]
  /\ reply' = None
  /\ UNCHANGED <<status, draft, outcome, txn>>

\* finish_deletions: the commands and messages of the session go with it.
FinishDeletion(s) ==
  /\ status[s] = "DELETING" /\ ~Locked(s)
  /\ status' = [status EXCEPT ![s] = "GONE"]
  /\ outcome' = [k \in Key |->
       IF outcome[k] # None /\ outcome[k].session = s THEN None ELSE outcome[k]]
  /\ reply' = None
  /\ UNCHANGED <<revision, busy, draft, txn>>

Next ==
  \/ \E t \in Txn :
       \/ SubmitAny(t) \/ SubmitDrop(t) \/ Abort(t) \/ Reject(t)
       \/ LockUser(t) \/ LockKey(t) \/ LockSession(t)
       \/ LockDraft(t) \/ LockInputs(t)
       \/ CreateSession(t) \/ ChangeStatus(t) \/ AcceptMessage(t)
       \/ DecideDraft(t) \/ DeleteOrder(t)
  \/ \E s \in Session : FinishRun(s) \/ FinishDeletion(s)
  \/ Receive

Spec == Init /\ [][Next]_vars

-----------------------------------------------------------------------------
(* What the commands promise *)

\* A command or a message acts at most once under its key, whatever is repeated,
\* cancelled or answered to nobody, and a repetition is answered with the first
\* result as long as the session may be read (meta/agent-design/architecture.md
\* line 155, meta/agent-design/data-model.md line 257).
Keyed(k) == [request |-> outcome[k].request, result |-> outcome[k].result]
AccessOf(k) ==
  IF outcome[k] = None THEN "CLOSED"
  ELSE IF status[outcome[k].session] = "DELETING" THEN "ENDING"
  ELSE IF Readable(k, outcome[k].request) THEN "OPEN" ELSE "CLOSED"
Promise == INSTANCE AtMostOnce WITH
  Key <- CommandKey \cup MessageKey,
  outcome <- [k \in CommandKey \cup MessageKey |-> IF outcome[k] = None THEN None ELSE Keyed(k)],
  access <- [k \in CommandKey \cup MessageKey |-> AccessOf(k)]
ActsAtMostOnce == Promise!Spec

\* Transactions never wait for each other in a circle, with the lock order of
\* meta/agent-design/architecture.md line 155.
NoDeadlock ==
  \A S \in (SUBSET Running) \ {{}} :
    \E t \in S : Wanted(t) \notin UNION {Held(u) : u \in S \ {t}}

\* The workspace creates a session only when no session is active, although two
\* clicks find none at once and others restore theirs
\* (meta/agent-design/contracts.md line 346).
WorkspaceCreatedOnce ==
  [][\A s \in Session : status[s] = "NONE" /\ status'[s] # "NONE" => Active = {}]_vars
=============================================================================
