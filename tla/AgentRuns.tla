----------------------------- MODULE AgentRuns -----------------------------
(***************************************************************************)
(* The agent's runs: what the API queues for a session, what the worker    *)
(* processes execute under a lease, what the watchdog gives up, and the    *)
(* screenshots that are recognised one run at a time.                      *)
(*                                                                         *)
(* Every transaction that changes a run first locks its session row FOR    *)
(* UPDATE, so from that lock to the commit a transaction is one step.      *)
(* What lies outside the lock is a step of its own: the statement by which *)
(* claim and expire_runs find candidate sessions reads a snapshot, and the *)
(* rows are locked afterwards, when the world may have moved on; a tool    *)
(* call takes two or three transactions.                                   *)
(*                                                                         *)
(* A point in time stored in a column (queued_at, lease_expires_at,        *)
(* deadline_at) is represented by the time that is left until it matters,  *)
(* which Tick decreases: only differences to the clock are ever read.      *)
(***************************************************************************)
EXTENDS Integers, FiniteSets, FiniteSetsExt

CONSTANTS
  Sessions, Runs,     \* identifiers of rows; an id is free again once forgotten
  Items,              \* recognisable screenshots; naturals, in queue order
  Workers, Slots,     \* worker processes and their concurrent executions
  Home,               \* Home[k]: the worker slot k belongs to
  NoSession, NoRun, NoItem, NoSlot,
  LeaseTime,          \* LEASE_SECONDS
  RunTime,            \* config_snapshot["run_timeout_seconds"]
  QueueTime,          \* config_snapshot["queue_timeout_seconds"]
  MaxFaults           \* bound on crashes and shutdowns of worker processes

ASSUME RunConstants ==
  /\ IsFiniteSet(Runs) /\ IsFiniteSet(Items) /\ Items \subseteq Nat
  /\ NoSession \notin Sessions /\ NoRun \notin Runs /\ NoItem \notin Items /\ NoSlot \notin Slots
  /\ Home \in [Slots -> Workers]
  /\ LeaseTime \in Nat \ {0} /\ RunTime \in Nat /\ QueueTime \in Nat /\ MaxFaults \in Nat
  /\ LeaseTime <= RunTime

VARIABLES
  status,    \* chat_sessions.status, or "ABSENT"
  latest,    \* the run of a session that was queued last
  item,      \* order_intake_items: session and recognition_status
  run,       \* agent_runs with the run's only tool receipt, see RunRow
  slot,      \* what a worker slot is doing
  worker,    \* state of a worker process
  late,      \* the runs a worker's watchdog found too late and has not visited
  faults     \* crashes and shutdowns so far

vars == <<status, latest, item, run, slot, worker, late, faults>>

Terminal == {"SUCCEEDED", "FAILED", "CANCELLED"}
Open == {"QUEUED", "RUNNING"}

RunRow ==
  [status : Open \cup Terminal \cup {"ABSENT"},
   session : Sessions \cup {NoSession},
   item : Items \cup {NoItem},        \* work_item_id of an intake_workbench run
   wait : 0..QueueTime,               \* until the queue timeout
   lease : 0..LeaseTime,              \* until lease_expires_at
   left : 0..RunTime,                 \* until deadline_at
   token : Slots \cup {NoSlot},       \* lease_token: the slot it was issued to
   error : {"NONE", "QUEUE_TIMEOUT", "OTHER"},                         \* error_code
   receipt : {"NONE", "STARTED", "SUCCEEDED", "FAILED", "ABANDONED"},  \* agent_tool_calls
   failures : 0..2]                   \* recognition.failed events of the run

AbsentRun ==
  [status |-> "ABSENT", session |-> NoSession, item |-> NoItem, wait |-> 0, lease |-> 0,
   left |-> 0, token |-> NoSlot, error |-> "NONE", receipt |-> "NONE", failures |-> 0]

ItemRow ==
  [session : Sessions \cup {NoSession},
   recognition : {"ABSENT", "NOT_STARTED", "SUCCEEDED", "FAILED"}]

AbsentItem == [session |-> NoSession, recognition |-> "ABSENT"]

SlotRow ==
  [phase : {"IDLE", "LOCKING", "EXECUTING", "FAILING"},
   session : Sessions \cup {NoSession}, run : Runs \cup {NoRun},
   call : BOOLEAN]                    \* a tool call is under way

IdleSlot == [phase |-> "IDLE", session |-> NoSession, run |-> NoRun, call |-> FALSE]

\* The rows of the database, the slots and the watchdogs keep their ranges.
TypeOK ==
  /\ status \in [Sessions -> {"ABSENT", "ACTIVE", "ARCHIVED", "DELETING"}]
  /\ latest \in [Sessions -> Runs \cup {NoRun}]
  /\ item \in [Items -> ItemRow]
  /\ run \in [Runs -> RunRow]
  /\ slot \in [Slots -> SlotRow]
  /\ worker \in [Workers -> {"UP", "DRAINING", "CANCELLED", "DOWN"}]
  /\ late \in [Workers -> SUBSET Runs]
  /\ faults \in 0..MaxFaults

Init ==
  /\ status = [s \in Sessions |-> "ABSENT"]
  /\ latest = [s \in Sessions |-> NoRun]
  /\ item = [i \in Items |-> AbsentItem]
  /\ run = [r \in Runs |-> AbsentRun]
  /\ slot = [k \in Slots |-> IdleSlot]
  /\ worker = [w \in Workers |-> "UP"]
  /\ late = [w \in Workers |-> {}]
  /\ faults = 0

-----------------------------------------------------------------------------
(* Queueing a run *)

OpenRuns(s) == {r \in Runs : run[r].session = s /\ run[r].status \in Open}

\* require_session(writable) and require_idle.
Idle(s) == status[s] = "ACTIVE" /\ OpenRuns(s) = {}

\* generate_id: an id no row and no process remembers.
FreshRuns == {r \in Runs : /\ run[r].status = "ABSENT"
                           /\ \A k \in Slots : slot[k].run # r
                           /\ \A w \in Workers : r \notin late[w]}

\* Screenshots that still have to be recognised and have no open run.
Unassigned == {i \in Items : /\ item[i].recognition = "NOT_STARTED"
                             /\ \A r \in Runs : run[r].item = i => run[r].status \notin Open}

\* Bound: clients queue a run, and n more screenshots, only while every
\* screenshot can still get a run of its own.
RoomFor(n) == Cardinality(FreshRuns) > n + Cardinality(Unassigned)

QueuedRun(s, i) ==
  [AbsentRun EXCEPT !.status = "QUEUED", !.session = s, !.item = i, !.wait = QueueTime]

Unread(s, items) == {i \in Items : items[i].session = s /\ items[i].recognition = "NOT_STARTED"}

Earliest(S) == {i \in S : \A j \in S : i <= j}

-----------------------------------------------------------------------------
(* Clients *)

CreateSession(s) ==
  /\ status[s] = "ABSENT"
  /\ status' = [status EXCEPT ![s] = "ACTIVE"]
  /\ UNCHANGED <<latest, item, run, slot, worker, late, faults>>

\* Mutation of Enqueue: the open run of the session is not looked at.
EnqueueBesideOpenRun(s, i) ==
  \E r \in FreshRuns :
    /\ status[s] = "ACTIVE"
    /\ run' = [run EXCEPT ![r] = QueuedRun(s, i)]
    /\ latest' = [latest EXCEPT ![s] = r]

\* A client's request queues a run for item i of session s (or for none).
Enqueue(s, i) ==
  \E r \in FreshRuns :
    /\ Idle(s)
    /\ run' = [run EXCEPT ![r] = QueuedRun(s, i)]
    /\ latest' = [latest EXCEPT ![s] = r]

\* accept_message without images.
AcceptMessage(s) ==
  /\ RoomFor(0)
  /\ Enqueue(s, NoItem)
  /\ UNCHANGED <<status, item, slot, worker, late, faults>>

\* accept_message with recognize_only: the screenshots new are queued.
AcceptScreenshots(s, new) ==
  /\ new # {}
  /\ \A i \in new : item[i] = AbsentItem
  /\ RoomFor(Cardinality(new) - 1)
  /\ item' = [i \in Items |-> IF i \in new
                THEN [session |-> s, recognition |-> "NOT_STARTED"] ELSE item[i]]
  /\ \E i \in Earliest(new) : Enqueue(s, i)
  /\ UNCHANGED <<status, slot, worker, late, faults>>

\* retry_run: only the latest run of a session, and only after it failed.
RetryRun(s) ==
  /\ latest[s] \in Runs
  /\ run[latest[s]].status = "FAILED"
  /\ RoomFor(0)
  /\ Enqueue(s, run[latest[s]].item)
  /\ UNCHANGED <<status, item, slot, worker, late, faults>>

\* item_command RECOGNIZE_ITEM or SELECT_ITEM, or next_item.
RecognizeItem(i) ==
  /\ item[i].recognition \in {"NOT_STARTED", "FAILED"}
  /\ RoomFor(0)
  /\ Enqueue(item[i].session, i)
  /\ UNCHANGED <<status, item, slot, worker, late, faults>>

ArchiveSession(s) ==
  /\ Idle(s)
  /\ status' = [status EXCEPT ![s] = "ARCHIVED"]
  /\ UNCHANGED <<latest, item, run, slot, worker, late, faults>>

RestoreSession(s) ==
  /\ status[s] = "ARCHIVED"
  /\ status' = [status EXCEPT ![s] = "ACTIVE"]
  /\ UNCHANGED <<latest, item, run, slot, worker, late, faults>>

\* The receipt of a run that ends without a result.
Abandoned(receipt) == IF receipt = "STARTED" THEN "ABANDONED" ELSE receipt

\* change_status DELETE_SESSION cancels the open run.
DeleteSession(s) ==
  /\ status[s] \in {"ACTIVE", "ARCHIVED"}
  /\ status' = [status EXCEPT ![s] = "DELETING"]
  /\ run' = [r \in Runs |->
       IF r \in OpenRuns(s)
         THEN [run[r] EXCEPT !.status = "CANCELLED", !.wait = 0, !.lease = 0, !.token = NoSlot,
                             !.receipt = Abandoned(run[r].receipt)]
         ELSE run[r]]
  /\ UNCHANGED <<latest, item, slot, worker, late, faults>>

\* finish_deletions: once the files are gone, so is the session with its rows.
FinishDeletion(s) ==
  /\ status[s] = "DELETING"
  /\ status' = [status EXCEPT ![s] = "ABSENT"]
  /\ latest' = [latest EXCEPT ![s] = NoRun]
  /\ run' = [r \in Runs |-> IF run[r].session = s THEN AbsentRun ELSE run[r]]
  /\ item' = [i \in Items |-> IF item[i].session = s THEN AbsentItem ELSE item[i]]
  /\ UNCHANGED <<slot, worker, late, faults>>

-----------------------------------------------------------------------------
(* The end of a run *)

\* Mutations of AfterRun: a saved recognition is overwritten; a failure that
\* was already recorded is recorded again.
AfterRunOverwriting(r, end) ==
  LET i == run[r].item IN
  IF end = "FAILED" /\ i # NoItem /\ run[r].failures = 0 /\ status[run[r].session] = "ACTIVE"
    THEN <<[item EXCEPT ![i].recognition = "FAILED"], 1>>
    ELSE <<item, run[r].failures>>
AfterRunTwice(r, end) ==
  LET i == run[r].item IN
  IF end = "FAILED" /\ i # NoItem /\ status[run[r].session] = "ACTIVE"
       /\ item[i].recognition # "SUCCEEDED"
    THEN <<[item EXCEPT ![i].recognition = "FAILED"], run[r].failures + 1>>
    ELSE <<item, run[r].failures>>

\* First half of continue_recognition: the items, and the number of
\* recognition failures of run r, after r ended.
AfterRun(r, end) ==
  LET i == run[r].item IN
  IF end = "FAILED" /\ i # NoItem /\ run[r].failures = 0 /\ status[run[r].session] = "ACTIVE"
       /\ item[i].recognition # "SUCCEEDED"
    THEN <<[item EXCEPT ![i].recognition = "FAILED"], 1>>
    ELSE <<item, run[r].failures>>

\* Mutation of Successors: a failed run stops the recognition of the rest.
SuccessorsAfterSuccess(r, end, items) ==
  IF run[r].item # NoItem /\ status[run[r].session] = "ACTIVE" /\ end = "SUCCEEDED"
    THEN Earliest(Unread(run[r].session, items)) ELSE {}

\* Second half of continue_recognition: the screenshot to recognise next.
Successors(r, end, items) ==
  IF run[r].item # NoItem /\ status[run[r].session] = "ACTIVE"
    THEN Earliest(Unread(run[r].session, items)) ELSE {}

\* Mutation of EndedRun: STARTED receipts survive the run.
EndedRunKeepingReceipt(r, end, code, failures) ==
  [run[r] EXCEPT !.status = end, !.error = code, !.lease = 0, !.left = 0, !.token = NoSlot,
                 !.failures = failures]

\* The row of run r after it ended; _fail_locked abandons started tool calls.
EndedRun(r, end, code, failures) ==
  [run[r] EXCEPT !.status = end, !.error = code, !.lease = 0, !.left = 0, !.token = NoSlot,
                 !.failures = failures,
                 !.receipt = IF end = "FAILED" THEN Abandoned(run[r].receipt) ELSE run[r].receipt]

\* finalize and _fail_locked: run r ends and, in the same transaction, the
\* session's next screenshot gets its run.
EndRun(r, end, code) ==
  LET after == AfterRun(r, end)
      ended == EndedRun(r, end, code, after[2])
      next == Successors(r, end, after[1])
  IN /\ item' = after[1]
     /\ IF next = {}
          THEN /\ run' = [run EXCEPT ![r] = ended]
               /\ UNCHANGED latest
          ELSE \E q \in FreshRuns, i \in next :
                 /\ run' = [run EXCEPT ![r] = ended, ![q] = QueuedRun(run[r].session, i)]
                 /\ latest' = [latest EXCEPT ![run[r].session] = q]
     /\ UNCHANGED status

-----------------------------------------------------------------------------
(* claim *)

\* The candidate statement: a session that has a queued run in the snapshot.
ClaimScan(k) ==
  /\ worker[Home[k]] = "UP"
  /\ slot[k].phase = "IDLE"
  /\ \E s \in Sessions :
       /\ status[s] = "ACTIVE"
       /\ \E r \in Runs : run[r].session = s /\ run[r].status = "QUEUED"
       /\ slot' = [slot EXCEPT ![k] = [IdleSlot EXCEPT !.phase = "LOCKING", !.session = s]]
  /\ UNCHANGED <<status, latest, item, run, worker, late, faults>>

\* The row is locked by somebody else (SKIP LOCKED), or no longer ACTIVE.
ClaimNothing(k) ==
  /\ slot[k].phase = "LOCKING"
  /\ slot' = [slot EXCEPT ![k] = IdleSlot]
  /\ UNCHANGED <<status, latest, item, run, worker, late, faults>>

\* Mutation of ClaimRun: the run is not selected again under the lock.
ClaimRunOfSnapshot(k, r) ==
  /\ slot[k].phase = "LOCKING"
  /\ run[r].session = slot[k].session
  /\ run[r].status \in Open
  /\ run' = [run EXCEPT ![r].status = "RUNNING", ![r].wait = 0, ![r].token = k,
                        ![r].lease = LeaseTime, ![r].left = RunTime]
  /\ slot' = [slot EXCEPT ![k] = [IdleSlot EXCEPT !.phase = "EXECUTING", !.run = r]]
  /\ UNCHANGED <<status, latest, item, worker, late, faults>>

\* The session row is locked and its queued run is there: run it or fail it.
ClaimRun(k, r) ==
  /\ slot[k].phase = "LOCKING"
  /\ status[slot[k].session] = "ACTIVE"
  /\ run[r].session = slot[k].session
  /\ run[r].status = "QUEUED"
  /\ IF run[r].wait = 0
       THEN /\ EndRun(r, "FAILED", "QUEUE_TIMEOUT")
            /\ slot' = [slot EXCEPT ![k] = IdleSlot]
       ELSE /\ run' = [run EXCEPT ![r].status = "RUNNING", ![r].wait = 0, ![r].token = k,
                                  ![r].lease = LeaseTime, ![r].left = RunTime]
            /\ slot' = [slot EXCEPT ![k] = [IdleSlot EXCEPT !.phase = "EXECUTING", !.run = r]]
            /\ UNCHANGED <<status, latest, item>>
  /\ UNCHANGED <<worker, late, faults>>

\* The queued run the snapshot showed is gone: scalar_one() raises, nothing in
\* the slot catches it, and the TaskGroup cancels every task of the process.
ClaimBreaks(k) ==
  /\ slot[k].phase = "LOCKING"
  /\ status[slot[k].session] = "ACTIVE"
  /\ \A r \in Runs : run[r].session = slot[k].session => run[r].status # "QUEUED"
  /\ worker' = [worker EXCEPT ![Home[k]] = "CANCELLED"]
  /\ slot' = [j \in Slots |->
       IF j = k \/ (Home[j] = Home[k] /\ slot[j].phase = "LOCKING") THEN IdleSlot ELSE slot[j]]
  /\ late' = [late EXCEPT ![Home[k]] = {}]
  /\ UNCHANGED <<status, latest, item, run, faults>>

-----------------------------------------------------------------------------
(* Executing a run *)

\* Mutation of Leased: the run's state and token are checked, the time is not.
LeasedForever(k, r) ==
  r \in Runs /\ run[r].status = "RUNNING" /\ run[r].token = k /\ status[run[r].session] = "ACTIVE"

\* lock_run: slot k may still act for run r.
Leased(k, r) ==
  /\ r \in Runs
  /\ run[r].status = "RUNNING"
  /\ run[r].token = k
  /\ status[run[r].session] = "ACTIVE"
  /\ run[r].lease > 0
  /\ run[r].left > 0

\* The lease a heartbeat grants.
Renewed(left) == IF LeaseTime <= left THEN LeaseTime ELSE left

Heartbeat(k) ==
  LET r == slot[k].run IN
  /\ slot[k].phase \in {"EXECUTING", "FAILING"}
  /\ Leased(k, r)
  /\ run' = [run EXCEPT ![r].lease = Renewed(run[r].left)]
  /\ UNCHANGED <<status, latest, item, slot, worker, late, faults>>

\* perform_tool, first transaction: the receipt.  (Bound: one call per run; the
\* code allows MAX_TOOL_CALLS, each with a receipt of its own.)
StartTool(k) ==
  LET r == slot[k].run IN
  /\ slot[k].phase = "EXECUTING"
  /\ ~slot[k].call
  /\ Leased(k, r)
  /\ run[r].receipt = "NONE"
  /\ run' = [run EXCEPT ![r].receipt = "STARTED"]
  /\ slot' = [slot EXCEPT ![k].call = TRUE]
  /\ UNCHANGED <<status, latest, item, worker, late, faults>>

\* perform_tool, second transaction: the effect and the receipt.  The only
\* tool of a screenshot's run is extract_order, which saves the recognition.
PerformTool(k) ==
  LET r == slot[k].run IN
  /\ slot[k].call
  /\ Leased(k, r)
  /\ run' = [run EXCEPT ![r].receipt = "SUCCEEDED"]
  /\ slot' = [slot EXCEPT ![k].call = FALSE]
  /\ IF run[r].item = NoItem
       THEN UNCHANGED item
       ELSE /\ item[run[r].item].recognition # "SUCCEEDED"
            /\ item' = [item EXCEPT ![run[r].item].recognition = "SUCCEEDED"]
  /\ UNCHANGED <<status, latest, worker, late, faults>>

\* The operation raised and was rolled back; a third transaction notes it
\* unless it fails too.  A screenshot's run cannot go on, another one may.
FailTool(k) ==
  LET r == slot[k].run IN
  /\ slot[k].call
  /\ Leased(k, r)
  /\ \/ /\ run' = [run EXCEPT ![r].receipt = "FAILED"]
        /\ slot' = [slot EXCEPT ![k].call = FALSE,
                                ![k].phase = IF run[r].item = NoItem THEN @ ELSE "FAILING"]
     \/ /\ slot' = [slot EXCEPT ![k].call = FALSE, ![k].phase = "FAILING"]
        /\ UNCHANGED run
  /\ UNCHANGED <<status, latest, item, worker, late, faults>>

\* _recognition_failed: the vision model gave no usable answer.
RecordRecognitionFailure(k) ==
  LET r == slot[k].run IN
  /\ slot[k].phase = "EXECUTING"
  /\ ~slot[k].call
  /\ Leased(k, r)
  /\ run[r].receipt = "NONE"
  /\ run[r].item # NoItem
  /\ item[run[r].item].recognition # "SUCCEEDED"
  /\ item' = [item EXCEPT ![run[r].item].recognition = "FAILED"]
  /\ run' = [run EXCEPT ![r].failures = 1]
  /\ slot' = [slot EXCEPT ![k].phase = "FAILING"]
  /\ UNCHANGED <<status, latest, worker, late, faults>>

\* The executor returned: a workbench run ends only after its screenshot is read.
MayFinalize(k) ==
  LET r == slot[k].run IN
  /\ slot[k].phase = "EXECUTING"
  /\ ~slot[k].call
  /\ worker[Home[k]] # "CANCELLED"
  /\ run[r].item # NoItem => item[run[r].item].recognition = "SUCCEEDED"

Finalize(k) ==
  /\ MayFinalize(k)
  /\ Leased(k, slot[k].run)
  /\ EndRun(slot[k].run, "SUCCEEDED", "NONE")
  /\ slot' = [slot EXCEPT ![k] = IdleSlot]
  /\ UNCHANGED <<worker, late, faults>>

\* fail_run after an exception of the executor, or because the process stops.
FailRun(k) ==
  /\ slot[k].phase \in {"EXECUTING", "FAILING"}
  /\ Leased(k, slot[k].run)
  /\ EndRun(slot[k].run, "FAILED", "OTHER")
  /\ slot' = [slot EXCEPT ![k] = IdleSlot]
  /\ UNCHANGED <<worker, late, faults>>

\* Whatever the slot tries next, lock_run raises LeaseLost and nothing is written.
LoseLease(k) ==
  /\ slot[k].phase \in {"EXECUTING", "FAILING"}
  /\ ~Leased(k, slot[k].run)
  /\ slot' = [slot EXCEPT ![k] = IdleSlot]
  /\ UNCHANGED <<status, latest, item, run, worker, late, faults>>

-----------------------------------------------------------------------------
(* The watchdog *)

\* Mutation of LateRuns: a lost worker's runs are not looked for.
LateQueuedRuns == {r \in Runs : run[r].status = "QUEUED" /\ run[r].wait = 0}

\* Runs that are too late at this moment.
LateRuns ==
  {r \in Runs : \/ run[r].status = "RUNNING" /\ (run[r].lease = 0 \/ run[r].left = 0)
                \/ run[r].status = "QUEUED" /\ run[r].wait = 0}

\* expire_runs reads the clock and, in one snapshot, the sessions to visit.
WatchdogScan(w) ==
  /\ worker[w] = "UP"
  /\ late[w] = {}
  /\ LateRuns # {}
  /\ late' = [late EXCEPT ![w] = LateRuns]
  /\ UNCHANGED <<status, latest, item, run, slot, worker, faults>>

\* The run that is open now in a session found with run r.  A lease expired at
\* the scan cannot have been renewed, so a RUNNING run is late iff it was then.
Visit(w, r) ==
  /\ worker[w] \in {"UP", "DRAINING"}
  /\ r \in late[w]
  /\ late' = [late EXCEPT ![w] = @ \ {r}]
  /\ \/ \E q \in OpenRuns(run[r].session) :
          /\ run[q].status = "QUEUED"
          /\ EndRun(q, "FAILED", "QUEUE_TIMEOUT")
     \/ /\ run[r].status = "RUNNING"
        /\ EndRun(r, "FAILED", "OTHER")
     \/ /\ \A q \in OpenRuns(run[r].session) : q # r /\ run[q].status = "RUNNING"
        /\ UNCHANGED <<status, latest, item, run>>
  /\ UNCHANGED <<slot, worker, faults>>

-----------------------------------------------------------------------------
(* Processes and time *)

\* The process is killed: its slots and its watchdog are gone, its locks too.
Crash(w) ==
  /\ worker[w] # "DOWN"
  /\ faults < MaxFaults
  /\ faults' = faults + 1
  /\ worker' = [worker EXCEPT ![w] = "DOWN"]
  /\ slot' = [k \in Slots |-> IF Home[k] = w THEN IdleSlot ELSE slot[k]]
  /\ late' = [late EXCEPT ![w] = {}]
  /\ UNCHANGED <<status, latest, item, run>>

\* SIGTERM: no more claims, the runs under way are finished.
Drain(w) ==
  /\ worker[w] = "UP"
  /\ faults < MaxFaults
  /\ faults' = faults + 1
  /\ worker' = [worker EXCEPT ![w] = "DRAINING"]
  /\ UNCHANGED <<status, latest, item, run, slot, late>>

\* The container runtime starts a new process (restart: unless-stopped).
Restart(w) ==
  /\ worker[w] # "UP"
  /\ late[w] = {}
  /\ \A k \in Slots : Home[k] = w => slot[k].phase = "IDLE"
  /\ worker' = [worker EXCEPT ![w] = "UP"]
  /\ UNCHANGED <<status, latest, item, run, slot, late, faults>>

Less(n) == IF n = 0 THEN 0 ELSE n - 1

Tick ==
  /\ run' = [r \in Runs |->
       CASE run[r].status = "QUEUED" -> [run[r] EXCEPT !.wait = Less(@)]
         [] run[r].status = "RUNNING" -> [run[r] EXCEPT !.lease = Less(@), !.left = Less(@)]
         [] OTHER -> run[r]]
  /\ UNCHANGED <<status, latest, item, slot, worker, late, faults>>

-----------------------------------------------------------------------------
ClientStep(s) ==
  \/ CreateSession(s)
  \/ AcceptMessage(s)
  \/ \E new \in SUBSET Items : AcceptScreenshots(s, new)
  \/ RetryRun(s)
  \/ ArchiveSession(s)
  \/ RestoreSession(s)
  \/ DeleteSession(s)
  \/ FinishDeletion(s)

ClaimStep(k) ==
  \/ ClaimScan(k)
  \/ ClaimNothing(k)
  \/ \E r \in Runs : ClaimRun(k, r)
  \/ ClaimBreaks(k)

ExecuteStep(k) ==
  \/ Heartbeat(k)
  \/ StartTool(k)
  \/ PerformTool(k)
  \/ FailTool(k)
  \/ RecordRecognitionFailure(k)
  \/ Finalize(k)
  \/ FailRun(k)
  \/ LoseLease(k)

WorkerStep(w) ==
  \/ WatchdogScan(w)
  \/ \E r \in Runs : Visit(w, r)
  \/ Crash(w)
  \/ Drain(w)
  \/ Restart(w)

Next ==
  \/ \E s \in Sessions : ClientStep(s)
  \/ \E i \in Items : RecognizeItem(i)
  \/ \E k \in Slots : ClaimStep(k) \/ ExecuteStep(k)
  \/ \E w \in Workers : WorkerStep(w)
  \/ Tick

Spec == Init /\ [][Next]_vars

\* What the asyncio loop and the container runtime guarantee: time passes, the
\* watchdog polls, a statement returns, a slot notices a lost lease, a stopped
\* process is replaced.  Nothing is assumed of clients, models or executors.
Fairness ==
  /\ WF_vars(Tick)
  /\ \A k \in Slots : WF_vars(ClaimNothing(k)) /\ WF_vars(LoseLease(k))
  /\ \A w \in Workers : WF_vars(WatchdogScan(w)) /\ WF_vars(Restart(w))
  /\ \A w \in Workers, r \in Runs : WF_vars(Visit(w, r))

FairSpec == Spec /\ Fairness

-----------------------------------------------------------------------------
(* What the runs promise *)

\* A session never has two open runs, whoever queues the next one: a message,
\* a retry, a recognition command or the end of the previous run.  (The unique
\* index uq_agent_runs_open_session never has to refuse an insert.)
OneOpenRun == \A s \in Sessions : Cardinality(OpenRuns(s)) <= 1

\* Two slots never work on the same run as holders of its lease, even when
\* both found its session in their snapshots.
OneExecutor ==
  \A j, k \in Slots : (slot[j].run = slot[k].run /\ slot[j].run # NoRun) => j = k

\* A run that has ended leaves no tool call STARTED: finalize does not look at
\* receipts, and every other end, by whomever, abandons them.
ReceiptsClosed ==
  \A r \in Runs : run[r].status \in Terminal => run[r].receipt # "STARTED"

\* While a session has unread screenshots it has an open run: the recognition
\* of a batch never stalls, however the run of one screenshot ended.
RecognitionUnderWay ==
  \A s \in Sessions : (status[s] = "ACTIVE" /\ Unread(s, item) # {}) => OpenRuns(s) # {}

\* A failed run of a screenshot leaves exactly one record of the failure,
\* unless the screenshot had been read before the run failed.
FailureRecordedOnce ==
  \A r \in Runs : (run[r].status = "FAILED" /\ run[r].item # NoItem) =>
    /\ run[r].failures <= 1
    /\ run[r].failures = 0 => item[run[r].item].recognition = "SUCCEEDED"

\* A recognition that was saved is never taken back by the failure of a run
\* (meta/agent-design/architecture.md section 5, item 5).
RecognitionKept ==
  [][ \A i \in Items : item[i].recognition = "SUCCEEDED" =>
        item'[i].recognition \in {"SUCCEEDED", "ABSENT"} ]_vars

\* Once its lease or its deadline has passed, a run has no further effect and
\* is never revived: it can only fail, be cancelled or be deleted.
ExpiredRunsOnlyFail ==
  [][ \A r \in Runs :
        (run[r].status = "RUNNING" /\ (run[r].lease = 0 \/ run[r].left = 0)) =>
          \/ run'[r].status \in {"FAILED", "CANCELLED", "ABSENT"}
          \/ run'[r] = [run[r] EXCEPT !.left = run'[r].left, !.lease = Less(@)] ]_vars

\* A run fails with QUEUE_TIMEOUT only after it waited the whole queue timeout
\* (meta/PRD.md line 135: runs queued for more than 120 seconds are stopped).
QueueTimeoutsAreEarned ==
  \A r \in Runs : run[r].error = "QUEUE_TIMEOUT" => run[r].wait = 0

\* Of concurrent claims one gets the run and the others get nothing
\* (backend/tests/test_agent_v2.py, test_concurrent_acceptance_and_worker_claim).
ClaimsReturn == \A w \in Workers : worker[w] # "CANCELLED"

\* Every queued or running run ends, whatever happens to the process that runs
\* it and whatever its executor does.
EveryRunEnds == \A r \in Runs : (run[r].status \in Open) ~> (run[r].status \notin Open)

\* Every accepted screenshot is read, or reported as failed, or its session is
\* deleted, although nothing but the end of a run queues the next screenshot.
Answered(i) == \/ item[i].recognition # "NOT_STARTED"
               \/ status[item[i].session] = "DELETING"
EveryScreenshotIsAnswered ==
  \A i \in Items : (item[i].recognition = "NOT_STARTED") ~> Answered(i)
=============================================================================
