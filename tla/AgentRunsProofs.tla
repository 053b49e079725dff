-------------------------- MODULE AgentRunsProofs --------------------------
(* What the runs promise, for any number of sessions, runs and processes. *)
EXTENDS AgentRuns, FiniteSetTheorems, WellFoundedInduction, TLAPS

-----------------------------------------------------------------------------
(* The rows of the database, the slots and the processes keep their ranges *)

Results == {"SUCCEEDED", "FAILED"}
Codes == {"NONE", "QUEUE_TIMEOUT", "OTHER"}
\* What a step writes into the row of a run stays in range.
LEMMA RowTypes ==
  ASSUME NEW x \in RunRow
  PROVE  /\ \A l \in 0..LeaseTime : [x EXCEPT !.lease = l] \in RunRow
         /\ \A c \in {"STARTED", "SUCCEEDED", "FAILED"} : [x EXCEPT !.receipt = c] \in RunRow
         /\ [x EXCEPT !.failures = 1] \in RunRow
         /\ [x EXCEPT !.wait = Less(@)] \in RunRow
         /\ [x EXCEPT !.lease = Less(@), !.left = Less(@)] \in RunRow
         /\ Renewed(x.left) \in 0..LeaseTime
<1>1. /\ Less(x.wait) \in 0..QueueTime /\ Less(x.lease) \in 0..LeaseTime /\ Less(x.left) \in 0..RunTime
      /\ Renewed(x.left) \in 0..LeaseTime
  BY RunConstants DEF RunRow, Less, Renewed
<1>2. /\ \A l \in 0..LeaseTime : [x EXCEPT !.lease = l] \in RunRow
      /\ \A c \in {"STARTED", "SUCCEEDED", "FAILED"} : [x EXCEPT !.receipt = c] \in RunRow
  BY DEF RunRow
<1>3. [x EXCEPT !.failures = 1] \in RunRow
  BY DEF RunRow
<1>4. [x EXCEPT !.wait = Less(@)] \in RunRow
  BY <1>1 DEF RunRow
<1>5. [x EXCEPT !.lease = Less(@), !.left = Less(@)] \in RunRow
  BY <1>1 DEF RunRow
<1> QED
  BY <1>1, <1>2, <1>3, <1>4, <1>5

LEMMA ClaimedType ==
  ASSUME NEW x \in RunRow, NEW k \in Slots
  PROVE  [x EXCEPT !.status = "RUNNING", !.wait = 0, !.token = k,
                   !.lease = LeaseTime, !.left = RunTime] \in RunRow
<1>1. 0 \in 0..QueueTime /\ LeaseTime \in 0..LeaseTime /\ RunTime \in 0..RunTime
  BY RunConstants
<1> QED
  BY <1>1 DEF RunRow, Open

LEMMA CancelledType ==
  ASSUME NEW x \in RunRow
  PROVE  [x EXCEPT !.status = "CANCELLED", !.wait = 0, !.lease = 0, !.token = NoSlot,
                   !.receipt = Abandoned(x.receipt)] \in RunRow
<1>1. 0 \in 0..QueueTime /\ 0 \in 0..LeaseTime
      /\ Abandoned(x.receipt) \in {"NONE", "STARTED", "SUCCEEDED", "FAILED", "ABANDONED"}
  BY RunConstants DEF RunRow, Abandoned
<1> QED
  BY <1>1 DEF RunRow, Terminal

LEMMA EndedType ==
  ASSUME NEW r \in Runs, run[r] \in RunRow, NEW end \in Results, NEW code \in Codes, NEW f \in 0..2
  PROVE  EndedRun(r, end, code, f) \in RunRow
<1> DEFINE x == run[r]
           receipt == IF end = "FAILED" THEN Abandoned(run[r].receipt) ELSE run[r].receipt
<1>1. 0 \in 0..LeaseTime /\ 0 \in 0..RunTime
      /\ receipt \in {"NONE", "STARTED", "SUCCEEDED", "FAILED", "ABANDONED"}
  BY RunConstants DEF RunRow, Abandoned
<1>2. EndedRun(r, end, code, f)
        = [x EXCEPT !.status = end, !.error = code, !.lease = 0, !.left = 0, !.token = NoSlot,
                    !.failures = f, !.receipt = receipt]
  BY DEF EndedRun
<1> HIDE DEF x, receipt
<1> QED
  BY <1>1, <1>2 DEF RunRow, Terminal, Results, Codes, x

LEMMA AbsentType == AbsentRun \in RunRow /\ AbsentItem \in ItemRow
<1>1. 0 \in 0..QueueTime /\ 0 \in 0..LeaseTime /\ 0 \in 0..RunTime
  BY RunConstants
<1> QED
  BY <1>1 DEF AbsentRun, RunRow, AbsentItem, ItemRow

LEMMA QueuedRunType ==
  ASSUME NEW s \in Sessions \cup {NoSession}, NEW i \in Items \cup {NoItem}
  PROVE  QueuedRun(s, i) \in RunRow
<1>1. QueueTime \in 0..QueueTime
  BY RunConstants
<1> DEFINE x == AbsentRun
<1>2. x \in RunRow
  BY AbsentType
<1>3. QueuedRun(s, i) = [x EXCEPT !.status = "QUEUED", !.session = s, !.item = i, !.wait = QueueTime]
  BY DEF QueuedRun
<1> HIDE DEF x
<1> QED
  BY <1>1, <1>2, <1>3 DEF RunRow, Open

LEMMA InitType == Init => TypeOK
BY AbsentType, RunConstants DEF Init, TypeOK, IdleSlot, SlotRow

\* The end of a run, and the queueing of the next one, keep the ranges.
LEMMA EndRunType ==
  ASSUME TypeOK, NEW r \in Runs, NEW end \in Results, NEW code \in Codes, EndRun(r, end, code)
  PROVE  /\ status' = status
         /\ item' \in [Items -> ItemRow]
         /\ run' \in [Runs -> RunRow]
         /\ latest' \in [Sessions -> Runs \cup {NoRun}]
<1> USE DEF TypeOK
<1> DEFINE after == AfterRun(r, end)
           ended == EndedRun(r, end, code, after[2])
           next == Successors(r, end, after[1])
<1>1. after[1] \in [Items -> ItemRow] /\ after[2] \in 0..2
  BY DEF AfterRun, RunRow, ItemRow
<1>2. run[r].session \in Sessions \cup {NoSession} /\ next \subseteq Items
  BY DEF RunRow, Successors, Earliest, Unread
<1>3. ended \in RunRow
  BY <1>1, EndedType
<1>4. CASE next = {}
  BY <1>1, <1>3, <1>4 DEF EndRun
<1>5. ASSUME NEW q \in FreshRuns, NEW i \in next,
             run' = [run EXCEPT ![r] = ended, ![q] = QueuedRun(run[r].session, i)],
             latest' = [latest EXCEPT ![run[r].session] = q],
             item' = after[1], status' = status
      PROVE  run' \in [Runs -> RunRow] /\ latest' \in [Sessions -> Runs \cup {NoRun}]
  BY <1>2, <1>3, <1>5, QueuedRunType DEF FreshRuns
<1> QED
  BY <1>1, <1>4, <1>5 DEF EndRun

LEMMA EnqueueType ==
  ASSUME TypeOK, NEW s \in Sessions \cup {NoSession}, NEW i \in Items \cup {NoItem}, Enqueue(s, i)
  PROVE  run' \in [Runs -> RunRow] /\ latest' \in [Sessions -> Runs \cup {NoRun}]
<1>1. PICK q \in Runs : /\ run' = [run EXCEPT ![q] = QueuedRun(s, i)]
                       /\ latest' = [latest EXCEPT ![s] = q]
  BY DEF Enqueue, FreshRuns
<1> QED
  BY <1>1, QueuedRunType DEF TypeOK

LEMMA ClientType ==
  ASSUME TypeOK, NEW s \in Sessions, ClientStep(s)
  PROVE  TypeOK'
<1> USE DEF TypeOK
<1>1. CASE CreateSession(s) \/ ArchiveSession(s) \/ RestoreSession(s)
  BY <1>1 DEF CreateSession, ArchiveSession, RestoreSession
<1>2. ASSUME NEW i \in Items \cup {NoItem}, Enqueue(s, i)
      PROVE  run' \in [Runs -> RunRow] /\ latest' \in [Sessions -> Runs \cup {NoRun}]
  BY <1>2, EnqueueType
<1>3. CASE AcceptMessage(s)
  BY <1>2, <1>3 DEF AcceptMessage
<1>4. ASSUME NEW new \in SUBSET Items, AcceptScreenshots(s, new) PROVE TypeOK'
  BY <1>2, <1>4 DEF AcceptScreenshots, Earliest, ItemRow
<1>5. CASE RetryRun(s)
  BY <1>2, <1>5 DEF RetryRun, RunRow
<1>6. CASE DeleteSession(s)
  <2>1. ASSUME NEW r \in Runs PROVE run'[r] \in RunRow
    BY <1>6, CancelledType DEF DeleteSession
  <2> QED
    BY <1>6, <2>1 DEF DeleteSession
<1>7. CASE FinishDeletion(s)
  BY <1>7, AbsentType DEF FinishDeletion
<1> QED
  BY <1>1, <1>3, <1>4, <1>5, <1>6, <1>7 DEF ClientStep

LEMMA SlotType ==
  ASSUME TypeOK, NEW k \in Slots, ClaimStep(k) \/ ExecuteStep(k)
  PROVE  TypeOK'
<1> USE DEF TypeOK
<1>0. /\ IdleSlot \in SlotRow
      /\ \A s \in Sessions : [IdleSlot EXCEPT !.phase = "LOCKING", !.session = s] \in SlotRow
      /\ \A r \in Runs : [IdleSlot EXCEPT !.phase = "EXECUTING", !.run = r] \in SlotRow
  BY DEF IdleSlot, SlotRow
<1>13. \A x \in SlotRow : /\ [x EXCEPT !.call = TRUE] \in SlotRow
                         /\ [x EXCEPT !.call = FALSE] \in SlotRow
                         /\ [x EXCEPT !.phase = "FAILING"] \in SlotRow
                         /\ [x EXCEPT !.call = FALSE, !.phase = "FAILING"] \in SlotRow
                         /\ [x EXCEPT !.call = FALSE, !.phase = @] \in SlotRow
  BY DEF SlotRow
<1>1. CASE ClaimScan(k) \/ ClaimNothing(k)
  <2>1. slot' \in [Slots -> SlotRow]
    BY <1>0, <1>1 DEF ClaimScan, ClaimNothing
  <2> QED
    BY <1>1, <2>1 DEF ClaimScan, ClaimNothing
<1>2. CASE ClaimBreaks(k)
  BY <1>0, <1>2, RunConstants DEF ClaimBreaks
<1>3. ASSUME NEW r \in Runs, ClaimRun(k, r) PROVE TypeOK'
  <2>1. CASE run[r].wait = 0
    BY <1>0, <1>3, <2>1, EndRunType DEF ClaimRun, Results, Codes
  <2>2. CASE run[r].wait # 0
    <3>1. [run[r] EXCEPT !.status = "RUNNING", !.wait = 0, !.token = k,
                         !.lease = LeaseTime, !.left = RunTime] \in RunRow
      BY ClaimedType
    <3>2. run' = [run EXCEPT ![r] = [run[r] EXCEPT !.status = "RUNNING", !.wait = 0, !.token = k,
                         !.lease = LeaseTime, !.left = RunTime]]
      BY <1>3, <2>2 DEF ClaimRun
    <3>3. slot' \in [Slots -> SlotRow]
      BY <1>0, <1>3, <2>2 DEF ClaimRun
    <3> QED
      BY <1>3, <2>2, <3>1, <3>2, <3>3 DEF ClaimRun
  <2> QED
    BY <2>1, <2>2
<1>4. CASE Heartbeat(k)
  BY <1>4, RowTypes DEF Heartbeat, Leased
<1>5. CASE StartTool(k)
  BY <1>5, <1>13, RowTypes DEF StartTool, Leased
<1>6. slot[k].run \in Runs /\ run[slot[k].run].item # NoItem => run[slot[k].run].item \in Items
  BY DEF RunRow
<1>7. CASE PerformTool(k)
  <2> DEFINE r == slot[k].run
             i == run[r].item
  <2>1. r \in Runs /\ run' = [run EXCEPT ![r] = [run[r] EXCEPT !.receipt = "SUCCEEDED"]]
    BY <1>7 DEF PerformTool, Leased
  <2>2. slot' = [slot EXCEPT ![k] = [slot[k] EXCEPT !.call = FALSE]]
    BY <1>7 DEF PerformTool
  <2>3. item' = item \/ item' = [item EXCEPT ![i] = [item[i] EXCEPT !.recognition = "SUCCEEDED"]]
    BY <1>7 DEF PerformTool
  <2>4. item' \in [Items -> ItemRow]
    BY <1>6, <2>1, <2>3 DEF ItemRow
  <2>5. run' \in [Runs -> RunRow] /\ slot' \in [Slots -> SlotRow]
    BY <1>13, <2>1, <2>2, RowTypes
  <2> QED
    BY <1>7, <2>4, <2>5 DEF PerformTool
<1>8. CASE FailTool(k)
  <2> DEFINE r == slot[k].run
  <2>1. r \in Runs
    BY <1>8 DEF FailTool, Leased
  <2>2. run' = run \/ run' = [run EXCEPT ![r] = [run[r] EXCEPT !.receipt = "FAILED"]]
    BY <1>8 DEF FailTool
  <2>3. \/ slot' = [slot EXCEPT ![k] = [slot[k] EXCEPT !.call = FALSE, !.phase = "FAILING"]]
        \/ slot' = [slot EXCEPT ![k] = [slot[k] EXCEPT !.call = FALSE, !.phase = @]]
    BY <1>8 DEF FailTool
  <2>4. run' \in [Runs -> RunRow]
    <3>1. [run[r] EXCEPT !.receipt = "FAILED"] \in RunRow
      BY <2>1, RowTypes
    <3> QED
      BY <2>1, <2>2, <3>1
  <2>5. slot' \in [Slots -> SlotRow]
    <3>1. /\ [slot[k] EXCEPT !.call = FALSE, !.phase = "FAILING"] \in SlotRow
          /\ [slot[k] EXCEPT !.call = FALSE, !.phase = @] \in SlotRow
      BY <1>13
    <3> QED
      BY <2>3, <3>1
  <2> QED
    BY <1>8, <2>4, <2>5 DEF FailTool
<1>12. CASE RecordRecognitionFailure(k)
  <2> DEFINE r == slot[k].run
             i == run[r].item
  <2>1. /\ r \in Runs /\ run' = [run EXCEPT ![r] = [run[r] EXCEPT !.failures = 1]]
        /\ i # NoItem /\ item' = [item EXCEPT ![i] = [item[i] EXCEPT !.recognition = "FAILED"]]
    BY <1>12 DEF RecordRecognitionFailure, Leased
  <2>2. slot' = [slot EXCEPT ![k] = [slot[k] EXCEPT !.phase = "FAILING"]]
    BY <1>12 DEF RecordRecognitionFailure
  <2>3. item' \in [Items -> ItemRow]
    BY <1>6, <2>1 DEF ItemRow
  <2>4. run' \in [Runs -> RunRow] /\ slot' \in [Slots -> SlotRow]
    BY <1>13, <2>1, <2>2, RowTypes
  <2> QED
    BY <1>12, <2>3, <2>4 DEF RecordRecognitionFailure
<1>9. CASE Finalize(k)
  BY <1>0, <1>9, EndRunType DEF Finalize, Leased, Results, Codes
<1>10. CASE FailRun(k)
  BY <1>0, <1>10, EndRunType DEF FailRun, Leased, Results, Codes
<1>11. CASE LoseLease(k)
  BY <1>0, <1>11 DEF LoseLease
<1> QED
  BY <1>1, <1>2, <1>3, <1>4, <1>5, <1>6, <1>7, <1>8, <1>9, <1>10, <1>11, <1>12 DEF ClaimStep, ExecuteStep

LEMMA WorkerType ==
  ASSUME TypeOK, NEW w \in Workers, WorkerStep(w)
  PROVE  TypeOK'
<1> USE DEF TypeOK
<1>1. CASE WatchdogScan(w) \/ Drain(w) \/ Restart(w)
  BY <1>1, RunConstants DEF WatchdogScan, LateRuns, Drain, Restart
<1>2. CASE Crash(w)
  BY <1>2, RunConstants DEF Crash, IdleSlot, SlotRow
<1>3. ASSUME NEW r \in Runs, Visit(w, r) PROVE TypeOK'
  BY <1>3, EndRunType DEF Visit, OpenRuns, Results, Codes
<1> QED
  BY <1>1, <1>2, <1>3 DEF WorkerStep

LEMMA TickType == TypeOK /\ Tick => TypeOK'
<1> SUFFICES ASSUME TypeOK, Tick PROVE run' \in [Runs -> RunRow]
  BY DEF TypeOK, Tick
<1>1. ASSUME NEW r \in Runs PROVE run'[r] \in RunRow
  BY RowTypes DEF TypeOK, Tick
<1> QED
  BY <1>1 DEF Tick

LEMMA TypeStep == TypeOK /\ [Next]_vars => TypeOK'
<1> SUFFICES ASSUME TypeOK, [Next]_vars PROVE TypeOK'
  OBVIOUS
<1>1. ASSUME NEW i \in Items, RecognizeItem(i) PROVE TypeOK'
  <2>1. item[i].session \in Sessions \cup {NoSession}
    BY DEF TypeOK, ItemRow
  <2>2. run' \in [Runs -> RunRow] /\ latest' \in [Sessions -> Runs \cup {NoRun}]
    BY <1>1, <2>1, EnqueueType DEF RecognizeItem
  <2> QED
    BY <1>1, <2>2 DEF RecognizeItem, TypeOK
<1>2. CASE UNCHANGED vars
  BY <1>2 DEF vars, TypeOK
<1> QED
  BY <1>1, <1>2, ClientType, SlotType, WorkerType, TickType DEF Next

\* Every column, every slot and every process keeps its range.
THEOREM TypeCorrect == Spec => []TypeOK
BY InitType, TypeStep, PTL DEF Spec

-----------------------------------------------------------------------------
(* One open run, one executor, no open receipt *)

\* No two open runs share a session.
Single ==
  \A r, q \in Runs : (/\ run[r].status \in Open /\ run[q].status \in Open
                     /\ run[r].session = run[q].session) => r = q

\* A queued run has met no slot yet.
Untouched ==
  \A r \in Runs : run[r].status = "QUEUED" =>
    /\ run[r].receipt = "NONE"
    /\ \A k \in Slots : slot[k].run # r

\* A started call of a run under way is in the hands of its slot.
CallsHeld ==
  \A k \in Slots, r \in Runs :
    (/\ slot[k].run = r
     /\ run[r].status = "RUNNING" /\ run[r].token = k /\ run[r].receipt = "STARTED")
      => slot[k].call \/ slot[k].phase = "FAILING"

\* A lease never outlasts the deadline.
LeaseWithinDeadline ==
  \A r \in Runs : run[r].status = "RUNNING" => run[r].lease <= run[r].left

Holding == Untouched /\ OneExecutor /\ CallsHeld /\ ReceiptsClosed /\ LeaseWithinDeadline
RunsInv == TypeOK /\ Single /\ Holding

\* What a run that ends leaves behind, and the only other row that may change.
LEMMA EndRunRows ==
  ASSUME TypeOK, NEW r \in Runs, run[r].status \in Open,
         NEW end \in Results, NEW code \in Codes, EndRun(r, end, code)
  PROVE  /\ run'[r].status = end
         /\ run'[r].receipt = IF end = "FAILED" THEN Abandoned(run[r].receipt) ELSE run[r].receipt
         /\ \/ \A x \in Runs \ {r} : run'[x] = run[x]
            \/ \E q \in FreshRuns \ {r}, i \in Items :
                 /\ run'[q] = QueuedRun(run[r].session, i)
                 /\ \A x \in Runs \ {r, q} : run'[x] = run[x]
<1> USE DEF TypeOK
<1> DEFINE after == AfterRun(r, end)
           ended == EndedRun(r, end, code, after[2])
           next == Successors(r, end, after[1])
<1>1. /\ ended.status = end
      /\ ended.receipt = IF end = "FAILED" THEN Abandoned(run[r].receipt) ELSE run[r].receipt
  BY DEF EndedRun, RunRow
<1>2. \A q \in FreshRuns : q \in Runs /\ q # r
  BY DEF FreshRuns, Open
<1>3. next \subseteq Items
  BY DEF Successors, Earliest, Unread
<1>4. \/ run' = [run EXCEPT ![r] = ended]
      \/ \E q \in FreshRuns, i \in next :
           run' = [run EXCEPT ![r] = ended, ![q] = QueuedRun(run[r].session, i)]
  BY DEF EndRun
<1>5. CASE run' = [run EXCEPT ![r] = ended]
  BY <1>1, <1>5
<1>6. ASSUME NEW q \in FreshRuns, NEW i \in next,
             run' = [run EXCEPT ![r] = ended, ![q] = QueuedRun(run[r].session, i)]
      PROVE  /\ q \in FreshRuns \ {r} /\ i \in Items
             /\ run'[r] = ended /\ run'[q] = QueuedRun(run[r].session, i)
             /\ \A x \in Runs \ {r, q} : run'[x] = run[x]
  BY <1>2, <1>3, <1>6
<1> HIDE DEF ended, next, after
<1> QED
  BY <1>1, <1>4, <1>5, <1>6

LEMMA QueuedRunFields ==
  \A s, i : /\ QueuedRun(s, i).status = "QUEUED" /\ QueuedRun(s, i).session = s
            /\ QueuedRun(s, i).item = i /\ QueuedRun(s, i).receipt = "NONE"
            /\ QueuedRun(s, i).failures = 0
BY DEF QueuedRun, AbsentRun

\* A run ends, and at most its slot becomes idle.
LEMMA EndRunKeeps ==
  ASSUME RunsInv, NEW r \in Runs, run[r].status \in Open,
         NEW end \in Results, NEW code \in Codes, EndRun(r, end, code),
         end = "SUCCEEDED" => run[r].receipt # "STARTED",
         slot' = slot \/ \E k \in Slots : slot' = [slot EXCEPT ![k] = IdleSlot]
  PROVE  Single' /\ Holding'
<1> USE DEF RunsInv, Holding
<1>1. /\ run'[r].status = end /\ run'[r].receipt # "STARTED" /\ end \in Terminal
  BY EndRunRows DEF Abandoned, Results, Terminal
<1>2. \A k \in Slots : slot'[k] = slot[k] \/ slot'[k] = IdleSlot
  BY DEF TypeOK
<1>3. IdleSlot.run = NoRun /\ NoRun \notin Runs
  BY RunConstants DEF IdleSlot
<1>4. \A q \in FreshRuns : q \in Runs /\ \A k \in Slots : slot[k].run # q
  BY DEF FreshRuns
\* The rows a step leaves alone, and the one it queues.
<1>5. ASSUME NEW x \in Runs \ {r}
      PROVE  \/ run'[x] = run[x]
             \/ /\ x \in FreshRuns /\ run'[x].status = "QUEUED" /\ run'[x].receipt = "NONE"
                /\ run'[x].session = run[r].session
                /\ \A y \in Runs \ {r, x} : run'[y] = run[y]
  BY EndRunRows, QueuedRunFields
<1>6. Single'
  BY <1>1, <1>5 DEF Single, Open, Terminal
<1>7. Untouched'
  BY <1>1, <1>2, <1>3, <1>4, <1>5 DEF Untouched, Terminal
<1>8. OneExecutor'
  BY <1>2, <1>3 DEF OneExecutor
<1>9. CallsHeld'
  BY <1>1, <1>2, <1>3, <1>5 DEF CallsHeld, Terminal
<1>10. ReceiptsClosed'
  BY <1>1, <1>5 DEF ReceiptsClosed, Terminal
<1>11. LeaseWithinDeadline'
  BY <1>1, <1>5 DEF LeaseWithinDeadline, Terminal
<1> QED
  BY <1>6, <1>7, <1>8, <1>9, <1>10, <1>11

\* A client queues a run.
LEMMA EnqueueKeeps ==
  ASSUME RunsInv, NEW s \in Sessions \cup {NoSession}, NEW i \in Items \cup {NoItem}, Enqueue(s, i), slot' = slot
  PROVE  Single' /\ Holding'
<1> USE DEF RunsInv, Holding
<1>1. PICK q \in FreshRuns : run' = [run EXCEPT ![q] = QueuedRun(s, i)]
  BY DEF Enqueue
<1>2. q \in Runs /\ (\A k \in Slots : slot[k].run # q) /\ OpenRuns(s) = {}
  BY DEF FreshRuns, Enqueue, Idle
<1>3. /\ run'[q].status = "QUEUED" /\ run'[q].receipt = "NONE" /\ run'[q].session = s
      /\ \A x \in Runs \ {q} : run'[x] = run[x]
  BY <1>1, <1>2, QueuedRunFields DEF TypeOK
<1>4. Single'
  BY <1>2, <1>3 DEF Single, OpenRuns
<1> QED
  BY <1>2, <1>3, <1>4 DEF Untouched, OneExecutor, CallsHeld, ReceiptsClosed, LeaseWithinDeadline, Terminal

LEMMA ClientKeeps ==
  ASSUME RunsInv, NEW s \in Sessions, ClientStep(s)
  PROVE  Single' /\ Holding'
<1> USE DEF RunsInv, Holding
<1>1. CASE CreateSession(s) \/ ArchiveSession(s) \/ RestoreSession(s)
  BY <1>1 DEF CreateSession, ArchiveSession, RestoreSession, Single, Untouched, OneExecutor,
              CallsHeld, ReceiptsClosed, LeaseWithinDeadline
<1>2. CASE AcceptMessage(s)
  BY <1>2, EnqueueKeeps DEF AcceptMessage
<1>3. ASSUME NEW new \in SUBSET Items, AcceptScreenshots(s, new) PROVE Single' /\ Holding'
  BY <1>3, EnqueueKeeps DEF AcceptScreenshots, Earliest
<1>4. CASE RetryRun(s)
  BY <1>4, EnqueueKeeps DEF RetryRun, TypeOK, RunRow
<1>5. CASE DeleteSession(s)
  <2>1. ASSUME NEW x \in Runs
        PROVE  \/ run'[x] = run[x]
               \/ run'[x].status = "CANCELLED" /\ run'[x].receipt # "STARTED"
    <3>1. run[x] \in RunRow
      BY DEF TypeOK
    <3>2. \/ run'[x] = run[x]
          \/ run'[x] = [run[x] EXCEPT !.status = "CANCELLED", !.wait = 0, !.lease = 0, !.token = NoSlot,
                                      !.receipt = Abandoned(run[x].receipt)]
      BY <1>5 DEF DeleteSession
    <3> QED
      BY <3>1, <3>2 DEF Abandoned, RunRow
  <2>2. slot' = slot
    BY <1>5 DEF DeleteSession
  <2>3. Single'
    BY <2>1 DEF Single, Open
  <2>4. Untouched' /\ OneExecutor'
    BY <2>1, <2>2 DEF Untouched, OneExecutor
  <2>5. CallsHeld'
    BY <2>1, <2>2 DEF CallsHeld
  <2>6. ReceiptsClosed' /\ LeaseWithinDeadline'
    BY <2>1 DEF ReceiptsClosed, LeaseWithinDeadline
  <2> QED
    BY <2>3, <2>4, <2>5, <2>6
<1>6. CASE FinishDeletion(s)
  <2>1. ASSUME NEW x \in Runs PROVE run'[x] = run[x] \/ run'[x].status = "ABSENT"
    BY <1>6 DEF FinishDeletion, AbsentRun
  <2> QED
    BY <1>6, <2>1 DEF FinishDeletion, Single, Untouched, OneExecutor, CallsHeld, ReceiptsClosed,
                      LeaseWithinDeadline, Terminal, Open
<1> QED
  BY <1>1, <1>2, <1>3, <1>4, <1>5, <1>6 DEF ClientStep

\* Steps that change neither runs nor what a slot holds, except that it lets go.
LEMMA LettingGo ==
  ASSUME RunsInv, run' = run, \A k \in Slots : slot'[k] = slot[k] \/ slot'[k].run = NoRun
  PROVE  Single' /\ Holding'
<1> USE DEF RunsInv, Holding
<1>1. NoRun \notin Runs
  BY RunConstants
<1> QED
  BY <1>1 DEF Single, Untouched, OneExecutor, CallsHeld, ReceiptsClosed, LeaseWithinDeadline

\* Slot k changes the row of the run it holds, which stays RUNNING under its lease.
LEMMA HeldRunKeeps ==
  ASSUME RunsInv, NEW k \in Slots, NEW r \in Runs, slot[k].run = r, Leased(k, r),
         \A x \in Runs \ {r} : run'[x] = run[x],
         run'[r].status = "RUNNING", run'[r].session = run[r].session, run'[r].token = k,
         run'[r].lease <= run'[r].left,
         \A j \in Slots \ {k} : slot'[j] = slot[j],
         slot'[k].run = r,
         run'[r].receipt = "STARTED" => slot'[k].call \/ slot'[k].phase = "FAILING"
  PROVE  Single' /\ Holding'
<1> USE DEF RunsInv, Holding, Leased
<1>1. Single'
  BY DEF Single, Open
<1>2. Untouched' /\ OneExecutor'
  BY DEF Untouched, OneExecutor
<1>3. CallsHeld'
  BY DEF CallsHeld
<1>4. ReceiptsClosed' /\ LeaseWithinDeadline'
  BY DEF ReceiptsClosed, LeaseWithinDeadline, Terminal
<1> QED
  BY <1>1, <1>2, <1>3, <1>4

LEMMA ClaimKeeps ==
  ASSUME RunsInv, NEW k \in Slots, ClaimStep(k)
  PROVE  Single' /\ Holding'
<1> USE DEF RunsInv, Holding
<1>1. CASE ClaimScan(k) \/ ClaimNothing(k) \/ ClaimBreaks(k)
  <2>1. IdleSlot.run = NoRun /\ \A s : [IdleSlot EXCEPT !.phase = "LOCKING", !.session = s].run = NoRun
    BY DEF IdleSlot
  <2>2. run' = run
    BY <1>1 DEF ClaimScan, ClaimNothing, ClaimBreaks
  <2>3. \A j \in Slots : slot'[j] = slot[j] \/ slot'[j].run = NoRun
    <3>1. CASE ClaimScan(k)
      BY <2>1, <3>1 DEF ClaimScan, TypeOK
    <3>2. CASE ClaimNothing(k)
      BY <2>1, <3>2 DEF ClaimNothing, TypeOK
    <3>3. CASE ClaimBreaks(k)
      BY <2>1, <3>3 DEF ClaimBreaks
    <3> QED
      BY <1>1, <3>1, <3>2, <3>3
  <2> QED
    BY <2>2, <2>3, LettingGo
<1>2. ASSUME NEW r \in Runs, ClaimRun(k, r) PROVE Single' /\ Holding'
  <2>1. CASE run[r].wait = 0
    BY <1>2, <2>1, EndRunKeeps DEF ClaimRun, Open, Results, Codes
  <2>2. CASE run[r].wait # 0
    <3>1. run[r] \in RunRow /\ run[r].status = "QUEUED"
      BY <1>2 DEF ClaimRun, TypeOK
    <3>2. run' = [run EXCEPT ![r] = [run[r] EXCEPT !.status = "RUNNING", !.wait = 0, !.token = k,
                                                   !.lease = LeaseTime, !.left = RunTime]]
      BY <1>2, <2>2 DEF ClaimRun
    <3>3. /\ run'[r].status = "RUNNING" /\ run'[r].lease = LeaseTime /\ run'[r].left = RunTime
          /\ run'[r].receipt = run[r].receipt /\ run'[r].session = run[r].session
          /\ \A x \in Runs \ {r} : run'[x] = run[x]
      BY <3>1, <3>2 DEF TypeOK, RunRow
    <3>4. /\ slot'[k].run = r /\ \A j \in Slots \ {k} : slot'[j] = slot[j]
      <4>1. [IdleSlot EXCEPT !.phase = "EXECUTING", !.run = r].run = r
        BY DEF IdleSlot
      <4> QED
        BY <1>2, <2>2, <4>1 DEF ClaimRun, TypeOK
    <3>5. Single'
      BY <3>1, <3>3 DEF Single, Open
    <3>6. Untouched' /\ OneExecutor' /\ CallsHeld'
      BY <3>1, <3>3, <3>4 DEF Untouched, OneExecutor, CallsHeld
    <3>7. ReceiptsClosed' /\ LeaseWithinDeadline'
      BY <3>1, <3>3, RunConstants DEF ReceiptsClosed, LeaseWithinDeadline, Terminal
    <3> QED
      BY <3>5, <3>6, <3>7
  <2> QED
    BY <2>1, <2>2
<1> QED
  BY <1>1, <1>2 DEF ClaimStep

LEMMA ExecuteKeeps ==
  ASSUME RunsInv, NEW k \in Slots, ExecuteStep(k)
  PROVE  Single' /\ Holding'
<1> USE DEF RunsInv
<1> DEFINE r == slot[k].run
<1>1. Leased(k, r) => r \in Runs /\ run[r] \in RunRow /\ run[r].status = "RUNNING" /\ run[r].lease <= run[r].left
                      /\ run[r].left \in Nat /\ run[r].token = k
  BY RunConstants DEF Leased, Holding, LeaseWithinDeadline, TypeOK, RunRow
<1>2. slot[k] \in SlotRow /\ run \in [Runs -> RunRow] /\ slot \in [Slots -> SlotRow]
  BY DEF TypeOK
<1>3. CASE Heartbeat(k)
  <2>1. run' = [run EXCEPT ![r] = [run[r] EXCEPT !.lease = Renewed(run[r].left)]] /\ Leased(k, r)
        /\ slot' = slot
    BY <1>3 DEF Heartbeat
  <2>2. Renewed(run[r].left) <= run[r].left
    BY <1>1, <2>1, RunConstants DEF Renewed
  <2> QED
    BY <1>1, <1>2, <2>1, <2>2, HeldRunKeeps DEF RunRow, Holding, CallsHeld
<1>4. CASE StartTool(k)
  <2>1. /\ run' = [run EXCEPT ![r] = [run[r] EXCEPT !.receipt = "STARTED"]] /\ Leased(k, r)
        /\ slot' = [slot EXCEPT ![k] = [slot[k] EXCEPT !.call = TRUE]]
    BY <1>4 DEF StartTool
  <2> QED
    BY <1>1, <1>2, <2>1, HeldRunKeeps DEF RunRow, SlotRow
<1>5. CASE PerformTool(k)
  <2>1. /\ run' = [run EXCEPT ![r] = [run[r] EXCEPT !.receipt = "SUCCEEDED"]] /\ Leased(k, r)
        /\ slot' = [slot EXCEPT ![k] = [slot[k] EXCEPT !.call = FALSE]]
    BY <1>5 DEF PerformTool
  <2> QED
    BY <1>1, <1>2, <2>1, HeldRunKeeps DEF RunRow, SlotRow
<1>6. CASE FailTool(k)
  <2>1. CASE run' = [run EXCEPT ![r] = [run[r] EXCEPT !.receipt = "FAILED"]]
    <3>1. /\ Leased(k, r)
          /\ \E p : slot' = [slot EXCEPT ![k] = [slot[k] EXCEPT !.call = FALSE, !.phase = p]]
      BY <1>6 DEF FailTool
    <3> QED
      BY <1>1, <1>2, <2>1, <3>1, HeldRunKeeps DEF RunRow, SlotRow
  <2>2. CASE slot' = [slot EXCEPT ![k] = [slot[k] EXCEPT !.call = FALSE, !.phase = "FAILING"]] /\ run' = run
    BY <1>1, <1>2, <1>6, <2>2, HeldRunKeeps DEF FailTool, SlotRow
  <2> QED
    BY <1>6, <2>1, <2>2 DEF FailTool
<1>7. CASE RecordRecognitionFailure(k)
  <2>1. /\ run' = [run EXCEPT ![r] = [run[r] EXCEPT !.failures = 1]] /\ Leased(k, r)
        /\ slot' = [slot EXCEPT ![k] = [slot[k] EXCEPT !.phase = "FAILING"]]
    BY <1>7 DEF RecordRecognitionFailure
  <2> QED
    BY <1>1, <1>2, <2>1, HeldRunKeeps DEF RunRow, SlotRow
<1>8. CASE Finalize(k)
  <2>1. run[r].receipt # "STARTED"
    BY <1>1, <1>8 DEF Finalize, MayFinalize, Holding, CallsHeld
  <2> QED
    BY <1>1, <1>8, <2>1, EndRunKeeps DEF Finalize, Open, Results, Codes
<1>9. CASE FailRun(k)
  BY <1>1, <1>9, EndRunKeeps DEF FailRun, Open, Results, Codes
<1>10. CASE LoseLease(k)
  BY <1>10, LettingGo DEF LoseLease, IdleSlot, TypeOK
<1> QED
  BY <1>3, <1>4, <1>5, <1>6, <1>7, <1>8, <1>9, <1>10 DEF ExecuteStep

LEMMA WorkerKeeps ==
  ASSUME RunsInv, NEW w \in Workers, WorkerStep(w)
  PROVE  Single' /\ Holding'
<1>1. CASE WatchdogScan(w) \/ Crash(w) \/ Drain(w) \/ Restart(w)
  BY <1>1, LettingGo DEF WatchdogScan, Crash, Drain, Restart, IdleSlot, RunsInv, TypeOK
<1>2. ASSUME NEW r \in Runs, Visit(w, r) PROVE Single' /\ Holding'
  <2>1. ASSUME NEW q \in OpenRuns(run[r].session), EndRun(q, "FAILED", "QUEUE_TIMEOUT"), slot' = slot
        PROVE  Single' /\ Holding'
    BY <2>1, EndRunKeeps DEF OpenRuns, Results, Codes
  <2>2. ASSUME run[r].status = "RUNNING", EndRun(r, "FAILED", "OTHER"), slot' = slot
        PROVE  Single' /\ Holding'
    BY <2>2, EndRunKeeps DEF Open, Results, Codes
  <2>3. ASSUME run' = run, slot' = slot PROVE Single' /\ Holding'
    BY <2>3, LettingGo
  <2> QED
    BY <1>2, <2>1, <2>2, <2>3 DEF Visit
<1> QED
  BY <1>1, <1>2 DEF WorkerStep

LEMMA TickKeeps == RunsInv /\ Tick => Single' /\ Holding'
<1> SUFFICES ASSUME RunsInv, Tick PROVE Single' /\ Holding'
  OBVIOUS
<1> USE DEF RunsInv, Holding
<1>1. slot' = slot
  BY DEF Tick
<1>2. ASSUME NEW x \in Runs
      PROVE  /\ run'[x].status = run[x].status /\ run'[x].session = run[x].session
             /\ run'[x].token = run[x].token /\ run'[x].receipt = run[x].receipt
             /\ run[x].status = "RUNNING" =>
                  run'[x].lease = Less(run[x].lease) /\ run'[x].left = Less(run[x].left)
  <2>1. run[x] \in RunRow
    BY DEF TypeOK
  <2>2. run'[x] = CASE run[x].status = "QUEUED" -> [run[x] EXCEPT !.wait = Less(@)]
                    [] run[x].status = "RUNNING" -> [run[x] EXCEPT !.lease = Less(@), !.left = Less(@)]
                    [] OTHER -> run[x]
    BY DEF Tick
  <2> QED
    BY <2>1, <2>2 DEF RunRow
<1>3. \A m, n \in Nat : m <= n => Less(m) <= Less(n)
  BY DEF Less
<1>4. \A x \in Runs : run[x].lease \in Nat /\ run[x].left \in Nat
  BY RunConstants DEF TypeOK, RunRow
<1>5. Single' /\ Untouched' /\ OneExecutor'
  BY <1>1, <1>2 DEF Single, Untouched, OneExecutor
<1>6. CallsHeld' /\ ReceiptsClosed'
  BY <1>1, <1>2 DEF CallsHeld, ReceiptsClosed
<1>7. LeaseWithinDeadline'
  BY <1>2, <1>3, <1>4 DEF LeaseWithinDeadline
<1> QED
  BY <1>5, <1>6, <1>7

LEMMA RunsInvInit == Init => RunsInv
<1> SUFFICES ASSUME Init PROVE Single /\ Holding
  BY InitType DEF RunsInv
<1> QED
  BY RunConstants DEF Init, AbsentRun, IdleSlot, Single, Holding, Untouched, OneExecutor, CallsHeld,
                      ReceiptsClosed, LeaseWithinDeadline, Open, Terminal

LEMMA RunsInvStep == RunsInv /\ [Next]_vars => RunsInv'
<1> SUFFICES ASSUME RunsInv, [Next]_vars PROVE Single' /\ Holding'
  BY TypeStep DEF RunsInv
<1>1. ASSUME NEW i \in Items, RecognizeItem(i) PROVE Single' /\ Holding'
  <2>1. item[i].session \in Sessions \cup {NoSession}
    BY DEF RunsInv, TypeOK, ItemRow
  <2> QED
    BY <1>1, <2>1, EnqueueKeeps DEF RecognizeItem
<1>2. CASE UNCHANGED vars
  BY <1>2, LettingGo DEF vars
<1> QED
  BY <1>1, <1>2, ClientKeeps, ClaimKeeps, ExecuteKeeps, WorkerKeeps, TickKeeps DEF Next

\* Never two open runs in a session, whoever queues them.
THEOREM SessionsHaveOneRun == Spec => []OneOpenRun
<1>1. RunsInv => OneOpenRun
  <2> SUFFICES ASSUME RunsInv, NEW s \in Sessions PROVE Cardinality(OpenRuns(s)) <= 1
    BY DEF OneOpenRun
  <2>1. CASE OpenRuns(s) = {}
    BY <2>1, FS_EmptySet
  <2>2. ASSUME NEW r \in OpenRuns(s) PROVE OpenRuns(s) = {r}
    BY <2>2 DEF RunsInv, Single, OpenRuns
  <2>3. ASSUME NEW r \in OpenRuns(s) PROVE Cardinality(OpenRuns(s)) = 1
    BY <2>2, <2>3, FS_Singleton
  <2> QED
    BY <2>1, <2>3
<1> QED
  BY <1>1, RunsInvInit, RunsInvStep, PTL DEF Spec

\* Never two slots that work on one run.
THEOREM RunsHaveOneExecutor == Spec => []OneExecutor
<1>1. RunsInv => OneExecutor
  BY DEF RunsInv, Holding
<1> QED
  BY <1>1, RunsInvInit, RunsInvStep, PTL DEF Spec

\* Never an open receipt of a run that has ended.
THEOREM EndedRunsHaveNoOpenCall == Spec => []ReceiptsClosed
<1>1. RunsInv => ReceiptsClosed
  BY DEF RunsInv, Holding
<1> QED
  BY <1>1, RunsInvInit, RunsInvStep, PTL DEF Spec

\* A run whose lease has passed does nothing more.
THEOREM ExpiredRunsHaveNoEffect == Spec => ExpiredRunsOnlyFail
<1> DEFINE Expired(x) == run[x].status = "RUNNING" /\ (run[x].lease = 0 \/ run[x].left = 0)
           Ended(x) == run'[x].status \in {"FAILED", "CANCELLED", "ABSENT"}
           Aging(x) == run'[x] = [run[x] EXCEPT !.left = run'[x].left, !.lease = Less(@)]
           Step == \A r \in Runs :
             (run[r].status = "RUNNING" /\ (run[r].lease = 0 \/ run[r].left = 0)) =>
               \/ run'[r].status \in {"FAILED", "CANCELLED", "ABSENT"}
               \/ run'[r] = [run[r] EXCEPT !.left = run'[r].left, !.lease = Less(@)]
<1>1. RunsInv /\ [Next]_vars => [Step]_vars
  <2> SUFFICES ASSUME RunsInv, [Next]_vars, NEW x \in Runs, Expired(x) PROVE Ended(x) \/ Aging(x)
    OBVIOUS
  <2>1. run[x] \in RunRow /\ run[x].lease = 0 /\ run[x].left \in Nat
    BY RunConstants DEF RunsInv, Holding, LeaseWithinDeadline, TypeOK, RunRow
  <2>2. ASSUME run'[x] = run[x] PROVE Aging(x)
    BY <2>1, <2>2 DEF RunRow, Less
  <2>3. ASSUME NEW r \in Runs, run[r].status \in Open, NEW end \in Results, NEW code \in Codes,
               EndRun(r, end, code), end = "SUCCEEDED" => r # x
        PROVE  Ended(x) \/ run'[x] = run[x]
    <3>1. x \notin FreshRuns
      BY DEF FreshRuns
    <3> QED
      BY <2>3, <3>1, EndRunRows DEF RunsInv, Results
  <2>4. ASSUME NEW s \in Sessions \cup {NoSession}, NEW i, Enqueue(s, i) PROVE run'[x] = run[x]
    BY <2>4 DEF Enqueue, FreshRuns, RunsInv, TypeOK
  <2>5. \A k \in Slots : ~Leased(k, x)
    BY <2>1 DEF Leased
  <2>6. ASSUME NEW s \in Sessions, ClientStep(s) PROVE Ended(x) \/ run'[x] = run[x]
    <3>1. CASE DeleteSession(s)
      BY <3>1, <2>1 DEF DeleteSession, RunRow
    <3>2. CASE FinishDeletion(s)
      BY <3>2 DEF FinishDeletion, AbsentRun
    <3> QED
      BY <2>4, <2>6, <3>1, <3>2 DEF ClientStep, CreateSession, AcceptMessage, AcceptScreenshots, RetryRun,
                              ArchiveSession, RestoreSession
  <2>7. ASSUME NEW i \in Items, RecognizeItem(i) PROVE run'[x] = run[x]
    BY <2>4, <2>7 DEF RecognizeItem, RunsInv, TypeOK, ItemRow
  <2>8. ASSUME NEW k \in Slots, ClaimStep(k) PROVE Ended(x) \/ run'[x] = run[x]
    <3>1. ASSUME NEW r \in Runs, ClaimRun(k, r) PROVE Ended(x) \/ run'[x] = run[x]
      BY <2>3, <3>1 DEF ClaimRun, RunsInv, TypeOK, Open, Results, Codes
    <3> QED
      BY <2>8, <3>1 DEF ClaimStep, ClaimScan, ClaimNothing, ClaimBreaks
  <2>9. ASSUME NEW k \in Slots, ExecuteStep(k) PROVE Ended(x) \/ run'[x] = run[x]
    <3> DEFINE r == slot[k].run
    <3>1. Leased(k, r) => r \in Runs /\ r # x /\ run[r].status \in Open
      BY <2>5 DEF Leased, Open
    <3>2. CASE Finalize(k) \/ FailRun(k)
      BY <2>3, <3>1, <3>2 DEF Finalize, FailRun, Results, Codes
    <3> QED
      BY <2>9, <3>1, <3>2 DEF ExecuteStep, Heartbeat, StartTool, PerformTool, FailTool,
                              RecordRecognitionFailure, LoseLease, RunsInv, TypeOK
  <2>10. ASSUME NEW w \in Workers, WorkerStep(w) PROVE Ended(x) \/ run'[x] = run[x]
    <3>1. ASSUME NEW r \in Runs, Visit(w, r) PROVE Ended(x) \/ run'[x] = run[x]
      BY <2>3, <3>1 DEF Visit, OpenRuns, Open, Results, Codes
    <3> QED
      BY <2>10, <3>1 DEF WorkerStep, WatchdogScan, Crash, Drain, Restart
  <2>11. CASE Tick
    BY <2>1, <2>11 DEF Tick, RunRow, Less
  <2>12. CASE UNCHANGED vars
    BY <2>2, <2>12 DEF vars
  <2> HIDE DEF Ended, Aging
  <2> QED
    BY <2>2, <2>6, <2>7, <2>8, <2>9, <2>10, <2>11, <2>12 DEF Next
<1> QED
  BY <1>1, RunsInvInit, RunsInvStep, PTL DEF Spec, ExpiredRunsOnlyFail

-----------------------------------------------------------------------------
(* What becomes of screenshots, however the runs that read them end *)

\* Among screenshots there is a first one.
LEMMA EarliestExists ==
  ASSUME NEW S, S \subseteq Items, S # {}
  PROVE  Earliest(S) # {}
<1> DEFINE R == {ss \in Nat \X Nat : ss[1] < ss[2]}
<1>1. IsWellFoundedOn(R, Nat)
  BY NatLessThanWellFounded DEF OpToRel
<1> HIDE DEF R
<1>2. PICK x \in S : \A y \in S : ~(<<y, x>> \in R)
  BY <1>1, WFMin, RunConstants
<1>3. \A y \in S : ~(y < x)
  BY <1>2, RunConstants DEF R
<1> QED
  BY <1>3, RunConstants DEF Earliest

\* What an end does to the row of its run, to its screenshot, and to the session.
LEMMA EndRunDetail ==
  ASSUME TypeOK, NEW r \in Runs, run[r].status \in Open,
         NEW end \in Results, NEW code \in Codes, EndRun(r, end, code)
  PROVE  /\ status' = status /\ item' = AfterRun(r, end)[1]
         /\ run'[r].status = end /\ run'[r].failures = AfterRun(r, end)[2]
         /\ run'[r].session = run[r].session /\ run'[r].item = run[r].item
         /\ \/ /\ Successors(r, end, item') = {} /\ latest' = latest
               /\ \A x \in Runs \ {r} : run'[x] = run[x]
            \/ \E q \in FreshRuns \ {r}, i \in Successors(r, end, item') :
                 /\ run'[q] = QueuedRun(run[r].session, i)
                 /\ latest' = [latest EXCEPT ![run[r].session] = q]
                 /\ \A x \in Runs \ {r, q} : run'[x] = run[x]
<1> USE DEF TypeOK
<1> DEFINE after == AfterRun(r, end)
           ended == EndedRun(r, end, code, after[2])
           next == Successors(r, end, after[1])
<1>1. /\ ended.status = end /\ ended.failures = AfterRun(r, end)[2]
      /\ ended.session = run[r].session /\ ended.item = run[r].item
  BY DEF EndedRun, RunRow
<1>2. \A q \in FreshRuns : q \in Runs /\ q # r
  BY DEF FreshRuns, Open
<1>3. status' = status /\ item' = AfterRun(r, end)[1] /\ next = Successors(r, end, item')
  BY DEF EndRun
<1>4. \/ next = {} /\ run' = [run EXCEPT ![r] = ended] /\ latest' = latest
      \/ \E q \in FreshRuns, i \in next :
           /\ run' = [run EXCEPT ![r] = ended, ![q] = QueuedRun(run[r].session, i)]
           /\ latest' = [latest EXCEPT ![run[r].session] = q]
  BY DEF EndRun
<1>6. ASSUME NEW q \in FreshRuns, NEW i \in next,
             run' = [run EXCEPT ![r] = ended, ![q] = QueuedRun(run[r].session, i)]
      PROVE  /\ run'[r] = ended /\ run'[q] = QueuedRun(run[r].session, i)
             /\ \A x \in Runs \ {r, q} : run'[x] = run[x]
  BY <1>2, <1>6
<1>7. ASSUME run' = [run EXCEPT ![r] = ended]
      PROVE  run'[r] = ended /\ \A x \in Runs \ {r} : run'[x] = run[x]
  BY <1>7
<1>8. ASSUME NEW q \in FreshRuns, NEW i \in next,
             run' = [run EXCEPT ![r] = ended, ![q] = QueuedRun(run[r].session, i)],
             latest' = [latest EXCEPT ![run[r].session] = q]
      PROVE  /\ run'[r] = ended
             /\ \E p \in FreshRuns \ {r}, j \in next :
                 /\ run'[p] = QueuedRun(run[r].session, j)
                 /\ latest' = [latest EXCEPT ![run[r].session] = p]
                 /\ \A x \in Runs \ {r, p} : run'[x] = run[x]
  <2> HIDE DEF next, ended
  <2> QED
    BY <1>2, <1>6, <1>8
<1> HIDE DEF ended, next
<1> QED
  BY <1>1, <1>3, <1>4, <1>7, <1>8

LEMMA AfterRunFacts ==
  ASSUME TypeOK, NEW r \in Runs, NEW end \in Results
  PROVE  LET after == AfterRun(r, end)
             i == run[r].item
         IN \/ /\ end = "FAILED" /\ i \in Items /\ item[i].recognition # "SUCCEEDED"
               /\ status[run[r].session] = "ACTIVE" /\ run[r].failures = 0
               /\ after[1] \in [Items -> ItemRow]
               /\ after[1][i].recognition = "FAILED" /\ after[1][i].session = item[i].session
               /\ \A j \in Items \ {i} : after[1][j] = item[j]
               /\ after[2] = 1
            \/ /\ after[1] = item /\ after[2] = run[r].failures
               /\ (end = "FAILED" /\ i # NoItem /\ status[run[r].session] = "ACTIVE" /\ run[r].failures = 0)
                    => item[i].recognition = "SUCCEEDED"
<1> DEFINE i == run[r].item
           after == AfterRun(r, end)
<1>1. i # NoItem => i \in Items
  BY DEF TypeOK, RunRow
<1>2. CASE end = "FAILED" /\ i # NoItem /\ run[r].failures = 0 /\ status[run[r].session] = "ACTIVE"
           /\ item[i].recognition # "SUCCEEDED"
  <2>1. after = <<[item EXCEPT ![i] = [item[i] EXCEPT !.recognition = "FAILED"]], 1>>
    BY <1>2 DEF AfterRun
  <2> QED
    BY <1>1, <1>2, <2>1 DEF TypeOK, ItemRow
<1>3. CASE ~(end = "FAILED" /\ i # NoItem /\ run[r].failures = 0 /\ status[run[r].session] = "ACTIVE"
             /\ item[i].recognition # "SUCCEEDED")
  <2>1. after = <<item, run[r].failures>>
    BY <1>3 DEF AfterRun
  <2> QED
    BY <1>3, <2>1
<1> QED
  BY <1>2, <1>3

-----------------------------------------------------------------------------
(* How runs, screenshots and sessions belong together *)

\* A row of a run is gone with its session, and reads a screenshot of that session.
Owned ==
  \A x \in Runs :
    /\ run[x].status = "ABSENT" => run[x].session = NoSession
    /\ run[x].status # "ABSENT" =>
         /\ run[x].session \in Sessions
         /\ run[x].item # NoItem => item[run[x].item].session = run[x].session

LatestOwned == \A s \in Sessions : latest[s] \in Runs => run[latest[s]].session = s

ItemsOwned ==
  \A i \in Items : /\ item[i].session = NoSession => item[i].recognition = "ABSENT"
                   /\ item[i].session \in Sessions => status[item[i].session] # "ABSENT"

OpenInActive == \A x \in Runs : run[x].status \in Open => status[run[x].session] = "ACTIVE"

Linked == Owned /\ LatestOwned /\ ItemsOwned /\ OpenInActive

Recorded ==
  \A x \in Runs :
    /\ run[x].failures <= 1
    /\ (run[x].status = "FAILED" /\ run[x].item # NoItem /\ run[x].failures = 0)
         => item[run[x].item].recognition = "SUCCEEDED"

\* Unread screenshots wait for a run that reads screenshots, also in the archive.
Attended ==
  \A s \in Sessions, i \in Items :
    (/\ status[s] \in {"ACTIVE", "ARCHIVED"}
     /\ item[i].session = s /\ item[i].recognition = "NOT_STARTED")
      => \E x \in Runs : run[x].session = s /\ run[x].status \in Open /\ run[x].item # NoItem

Batch == Linked /\ Recorded /\ Attended
BatchInv == RunsInv /\ Batch

LEMMA EndRunBatch ==
  ASSUME BatchInv, NEW r \in Runs, run[r].status \in Open,
         NEW end \in Results, NEW code \in Codes, EndRun(r, end, code)
  PROVE  Batch'
<1> USE DEF BatchInv, Batch, Linked
<1> DEFINE s == run[r].session
           i == run[r].item
<1>1. /\ TypeOK /\ Single /\ NoSession \notin Sessions /\ NoItem \notin Items /\ NoRun \notin Runs
      /\ s \in Sessions /\ status[s] = "ACTIVE" /\ end \in Terminal
      /\ i \in Items \cup {NoItem}
  BY RunConstants DEF RunsInv, Owned, OpenInActive, Open, Results, Terminal, TypeOK, RunRow
\* The screenshots keep their sessions; one may change from not read to failed.
<1>2. /\ \A j \in Items : /\ item'[j].session = item[j].session
                          /\ item[j].recognition = "SUCCEEDED" => item'[j].recognition = "SUCCEEDED"
                          /\ item'[j].recognition = "NOT_STARTED" => item[j].recognition = "NOT_STARTED"
                          /\ item[j].session = NoSession => item'[j].recognition = item[j].recognition
      /\ run'[r].failures <= 1
      /\ (end = "FAILED" /\ i # NoItem /\ run'[r].failures = 0) => item'[i].recognition = "SUCCEEDED"
  <2>1. run[r].failures <= 1 /\ run[r].failures \in Nat
    BY <1>1 DEF Recorded, TypeOK, RunRow
  <2>2. i # NoItem => item[i].session = s
    BY DEF Owned, Open
  <2> QED
    BY <1>1, <2>1, <2>2, EndRunDetail, AfterRunFacts
\* The row of the run, and the row of the next one.
<1>3. /\ run'[r].status = end /\ run'[r].session = s /\ run'[r].item = i /\ status' = status
  BY <1>1, EndRunDetail
<1>4. \/ /\ latest' = latest /\ \A x \in Runs \ {r} : run'[x] = run[x]
         /\ i # NoItem => Unread(s, item') = {}
      \/ \E q \in Runs \ {r} :
           /\ run[q].status = "ABSENT"
           /\ run'[q].status = "QUEUED" /\ run'[q].session = s /\ run'[q].failures = 0
           /\ run'[q].item \in Items /\ item'[run'[q].item].session = s
           /\ latest' = [latest EXCEPT ![s] = q]
           /\ \A x \in Runs \ {r, q} : run'[x] = run[x]
  <2>1. CASE Successors(r, end, item') = {} /\ latest' = latest /\ \A x \in Runs \ {r} : run'[x] = run[x]
    <3>1. ASSUME i # NoItem PROVE Unread(s, item') = {}
      <4>1. Earliest(Unread(s, item')) = {}
        BY <1>1, <1>3, <2>1, <3>1 DEF Successors
      <4> QED
        BY <4>1, EarliestExists DEF Unread
    <3> QED
      BY <2>1, <3>1
  <2>2. ASSUME NEW q \in FreshRuns \ {r}, NEW n \in Successors(r, end, item'),
               run'[q] = QueuedRun(s, n), latest' = [latest EXCEPT ![s] = q],
               \A x \in Runs \ {r, q} : run'[x] = run[x]
        PROVE  /\ q \in Runs \ {r} /\ run[q].status = "ABSENT"
               /\ run'[q].status = "QUEUED" /\ run'[q].session = s /\ run'[q].failures = 0
               /\ run'[q].item \in Items /\ item'[run'[q].item].session = s
    BY <2>2, QueuedRunFields DEF FreshRuns, Successors, Earliest, Unread
  <2> QED
    BY <1>1, <2>1, <2>2, EndRunDetail
<1> HIDE DEF s, i
<1>5. Owned'
  BY <1>1, <1>2, <1>3, <1>4 DEF Owned, Terminal, TypeOK, RunRow, s, i
<1>6. LatestOwned'
  BY <1>1, <1>3, <1>4 DEF LatestOwned, Owned, TypeOK, s
<1>7. ItemsOwned'
  BY <1>2, <1>3 DEF ItemsOwned
<1>8. OpenInActive'
  BY <1>1, <1>3, <1>4 DEF OpenInActive, Open, Terminal, s
<1>9. Recorded'
  <2>1. \A x \in Runs : run[x].item # NoItem => run[x].item \in Items
    BY <1>1 DEF TypeOK, RunRow
  <2> QED
    BY <1>1, <1>2, <1>3, <1>4, <2>1 DEF Recorded, s, i
<1>10. Attended'
  <2> SUFFICES ASSUME NEW u \in Sessions, NEW j \in Items, status[u] \in {"ACTIVE", "ARCHIVED"},
                      item'[j].session = u, item'[j].recognition = "NOT_STARTED"
               PROVE  \E x \in Runs : run'[x].session = u /\ run'[x].status \in Open /\ run'[x].item # NoItem
    BY <1>3 DEF Attended
  <2>1. PICK x \in Runs : run[x].session = u /\ run[x].status \in Open /\ run[x].item # NoItem
    BY <1>2 DEF Attended
  <2>2. CASE x # r
    BY <1>4, <2>1, <2>2 DEF Open
  <2>3. CASE x = r
    <3>1. u = s /\ i # NoItem /\ j \in Unread(s, item')
      BY <2>1, <2>3 DEF Unread, s, i
    <3> QED
      BY <1>1, <1>4, <3>1 DEF Open
  <2> QED
    BY <2>2, <2>3
<1> QED
  BY <1>5, <1>6, <1>7, <1>8, <1>9, <1>10

\* A client queues a run, possibly with the screenshots it has just sent.
LEMMA EnqueueBatch ==
  ASSUME BatchInv, NEW s \in Sessions, NEW i \in Items \cup {NoItem}, Enqueue(s, i), status' = status,
         \A j \in Items : \/ item'[j] = item[j]
                         \/ /\ item[j] = AbsentItem /\ i # NoItem
                            /\ item'[j].session = s /\ item'[j].recognition = "NOT_STARTED",
         i # NoItem => item'[i].session = s
  PROVE  Batch'
<1> USE DEF BatchInv, Batch, Linked
<1>1. PICK q \in Runs : /\ run[q].status = "ABSENT" /\ run' = [run EXCEPT ![q] = QueuedRun(s, i)]
                       /\ latest' = [latest EXCEPT ![s] = q]
  BY DEF Enqueue, FreshRuns
<1>2. /\ run'[q].status = "QUEUED" /\ run'[q].session = s /\ run'[q].item = i /\ run'[q].failures = 0
      /\ \A x \in Runs \ {q} : run'[x] = run[x]
      /\ \A u \in Sessions \ {s} : latest'[u] = latest[u]
      /\ latest'[s] = q
  BY <1>1, QueuedRunFields DEF RunsInv, TypeOK
<1>3. /\ status[s] = "ACTIVE" /\ OpenRuns(s) = {}
      /\ NoSession \notin Sessions /\ NoItem \notin Items
      /\ AbsentItem.session = NoSession /\ AbsentItem.recognition = "ABSENT"
      /\ \A x \in Runs : run[x].item # NoItem => run[x].item \in Items
      /\ \A u \in Sessions : latest[u] \in Runs \cup {NoRun}
  BY RunConstants DEF Enqueue, Idle, AbsentItem, RunsInv, TypeOK, RunRow
<1>4. Owned'
  BY <1>2, <1>3 DEF Owned
<1>5. LatestOwned'
  BY <1>1, <1>2, <1>3 DEF LatestOwned, Owned
<1>6. ItemsOwned'
  BY <1>3 DEF ItemsOwned
<1>7. OpenInActive'
  BY <1>2, <1>3 DEF OpenInActive
<1>8. Recorded'
  BY <1>2, <1>3 DEF Recorded
<1>9. Attended'
  BY <1>1, <1>2, <1>3 DEF Attended, OpenRuns, Open
<1> QED
  BY <1>4, <1>5, <1>6, <1>7, <1>8, <1>9

\* Steps that touch neither runs nor screenshots nor sessions.
LEMMA RestBatch ==
  ASSUME BatchInv, UNCHANGED <<status, latest, item, run>>
  PROVE  Batch'
BY DEF BatchInv, Batch, Linked, Owned, LatestOwned, ItemsOwned, OpenInActive, Recorded, Attended

LEMMA ClientBatch ==
  ASSUME BatchInv, NEW s \in Sessions, ClientStep(s)
  PROVE  Batch'
<1> USE DEF BatchInv, Batch, Linked
<1>0. status \in [Sessions -> {"ABSENT", "ACTIVE", "ARCHIVED", "DELETING"}] /\ NoSession \notin Sessions
      /\ run \in [Runs -> RunRow] /\ item \in [Items -> ItemRow] /\ latest \in [Sessions -> Runs \cup {NoRun}]
      /\ NoRun \notin Runs /\ NoItem \notin Items
  BY RunConstants DEF RunsInv, TypeOK
<1>1. CASE CreateSession(s) \/ ArchiveSession(s) \/ RestoreSession(s)
  <2>1. UNCHANGED <<latest, item, run>> /\ \A u \in Sessions \ {s} : status'[u] = status[u]
    BY <1>0, <1>1 DEF CreateSession, ArchiveSession, RestoreSession
  <2>2. /\ status'[s] \in {"ACTIVE", "ARCHIVED"}
        /\ status[s] = "ABSENT" \/ status[s] = "ARCHIVED" \/ OpenRuns(s) = {}
        /\ status[s] = "ABSENT" \/ status[s] \in {"ACTIVE", "ARCHIVED"}
    BY <1>0, <1>1 DEF CreateSession, ArchiveSession, RestoreSession, Idle
  <2>3. Owned' /\ LatestOwned' /\ Recorded'
    BY <2>1 DEF Owned, LatestOwned, Recorded
  <2>4. ItemsOwned'
    BY <2>1, <2>2 DEF ItemsOwned
  <2>5. OpenInActive'
    BY <1>0, <2>1, <2>2 DEF OpenInActive, Owned, OpenRuns, Open
  <2>6. Attended'
    BY <2>1, <2>2 DEF Attended, ItemsOwned
  <2> QED
    BY <2>3, <2>4, <2>5, <2>6
<1>2. CASE AcceptMessage(s)
  BY <1>2, EnqueueBatch DEF AcceptMessage
<1>3. ASSUME NEW new \in SUBSET Items, AcceptScreenshots(s, new) PROVE Batch'
  <2>1. PICK i \in Earliest(new) : Enqueue(s, i)
    BY <1>3 DEF AcceptScreenshots
  <2>2. i \in new /\ i \in Items /\ i # NoItem /\ status' = status
    BY <1>0, <1>3, <2>1 DEF Earliest, AcceptScreenshots
  <2>3. /\ \A j \in Items \ new : item'[j] = item[j]
        /\ \A j \in new : /\ item[j] = AbsentItem
                          /\ item'[j].session = s /\ item'[j].recognition = "NOT_STARTED"
    BY <1>3 DEF AcceptScreenshots
  <2> QED
    BY <2>1, <2>2, <2>3, EnqueueBatch
<1>4. CASE RetryRun(s)
  <2>1. PICK i : i = run[latest[s]].item
    OBVIOUS
  <2>2. /\ latest[s] \in Runs /\ run[latest[s]].status = "FAILED" /\ item' = item /\ status' = status
        /\ Enqueue(s, i)
    BY <1>4, <2>1 DEF RetryRun
  <2>3. i \in Items \cup {NoItem} /\ (i # NoItem => item[i].session = s)
    BY <1>0, <2>1, <2>2 DEF LatestOwned, Owned, RunRow
  <2> QED
    BY <2>2, <2>3, EnqueueBatch
<1>5. CASE DeleteSession(s)
  <2>1. /\ UNCHANGED <<latest, item>> /\ status'[s] = "DELETING"
        /\ \A u \in Sessions \ {s} : status'[u] = status[u]
    BY <1>0, <1>5 DEF DeleteSession
  <2>2. ASSUME NEW x \in Runs
        PROVE  /\ run'[x].session = run[x].session /\ run'[x].item = run[x].item
               /\ run'[x].failures = run[x].failures
               /\ \/ run'[x].status = run[x].status /\ (run[x].session # s \/ run[x].status \notin Open)
                  \/ run'[x].status = "CANCELLED" /\ run[x].session = s /\ run[x].status \in Open
    <3>1. run[x] \in RunRow
      BY <1>0
    <3>2. CASE x \in OpenRuns(s)
      BY <1>5, <3>1, <3>2 DEF DeleteSession, OpenRuns, RunRow
    <3>3. CASE x \notin OpenRuns(s)
      BY <1>5, <3>3 DEF DeleteSession, OpenRuns
    <3> QED
      BY <3>2, <3>3
  <2>3. Owned' /\ LatestOwned'
    BY <1>0, <2>1, <2>2 DEF Owned, LatestOwned, Open
  <2>4. ItemsOwned'
    BY <2>1 DEF ItemsOwned
  <2>5. OpenInActive'
    BY <1>0, <2>1, <2>2 DEF OpenInActive, Owned, Open
  <2>6. Recorded'
    BY <2>1, <2>2 DEF Recorded
  <2>7. Attended'
    BY <2>1, <2>2 DEF Attended
  <2> QED
    BY <2>3, <2>4, <2>5, <2>6, <2>7
<1>6. CASE FinishDeletion(s)
  <2>1. /\ status'[s] = "ABSENT" /\ latest'[s] = NoRun
        /\ \A u \in Sessions \ {s} : status'[u] = status[u] /\ latest'[u] = latest[u]
    BY <1>0, <1>6 DEF FinishDeletion
  <2>2. /\ \A x \in Runs : IF run[x].session = s THEN run'[x] = AbsentRun ELSE run'[x] = run[x]
        /\ \A i \in Items : IF item[i].session = s THEN item'[i] = AbsentItem ELSE item'[i] = item[i]
    BY <1>6 DEF FinishDeletion
  <2>3. /\ AbsentRun.status = "ABSENT" /\ AbsentRun.session = NoSession /\ AbsentRun.failures = 0
        /\ AbsentItem.session = NoSession /\ AbsentItem.recognition = "ABSENT"
        /\ \A x \in Runs : run[x].item # NoItem => run[x].item \in Items
    BY <1>0 DEF AbsentRun, AbsentItem, RunRow
  <2>4. Owned'
    BY <1>0, <2>2, <2>3 DEF Owned
  <2>5. LatestOwned'
    BY <1>0, <2>1, <2>2 DEF LatestOwned
  <2>6. ItemsOwned'
    BY <1>0, <2>1, <2>2, <2>3 DEF ItemsOwned
  <2>7. OpenInActive'
    BY <1>0, <2>1, <2>2, <2>3 DEF OpenInActive, Owned, Open
  <2>8. Recorded'
    BY <1>0, <2>2, <2>3 DEF Recorded, Owned
  <2>9. Attended'
    BY <1>0, <2>1, <2>2, <2>3 DEF Attended
  <2> QED
    BY <2>4, <2>5, <2>6, <2>7, <2>8, <2>9
<1> QED
  BY <1>1, <1>2, <1>3, <1>4, <1>5, <1>6 DEF ClientStep

\* The slot of a run under way changes its row, and perhaps its screenshot.
LEMMA HeldRunBatch ==
  ASSUME BatchInv, NEW r \in Runs, run[r].status \in Open,
         UNCHANGED <<status, latest>>,
         \A x \in Runs \ {r} : run'[x] = run[x],
         run'[r].status = "RUNNING", run'[r].session = run[r].session, run'[r].item = run[r].item,
         run'[r].failures <= 1,
         \A j \in Items : \/ item'[j] = item[j]
                         \/ /\ run[r].item = j /\ item'[j].session = item[j].session
                            /\ item'[j].recognition \in {"SUCCEEDED", "FAILED"}
                            /\ item[j].recognition # "SUCCEEDED"
  PROVE  Batch'
<1> USE DEF BatchInv, Batch, Linked
<1>1. NoSession \notin Sessions /\ NoItem \notin Items
      /\ \A x \in Runs : run[x].item # NoItem => run[x].item \in Items
  BY RunConstants DEF RunsInv, TypeOK, RunRow
<1>2. Owned' /\ LatestOwned'
  BY <1>1 DEF Owned, LatestOwned, Open
<1>3. ItemsOwned'
  BY <1>1 DEF ItemsOwned, Owned, Open
<1>4. OpenInActive'
  BY <1>1 DEF OpenInActive
<1>5. Recorded'
  BY <1>1 DEF Recorded
<1>6. Attended'
  BY <1>1 DEF Attended, Open
<1> QED
  BY <1>2, <1>3, <1>4, <1>5, <1>6

LEMMA ClaimBatch ==
  ASSUME BatchInv, NEW k \in Slots, ClaimStep(k)
  PROVE  Batch'
<1>1. CASE ClaimScan(k) \/ ClaimNothing(k) \/ ClaimBreaks(k)
  BY <1>1, RestBatch DEF ClaimScan, ClaimNothing, ClaimBreaks
<1>2. ASSUME NEW r \in Runs, ClaimRun(k, r) PROVE Batch'
  <2>1. CASE run[r].wait = 0
    BY <1>2, <2>1, EndRunBatch DEF ClaimRun, Open, Results, Codes
  <2>2. CASE run[r].wait # 0
    <3>1. run[r] \in RunRow /\ run[r].status \in Open /\ run[r].failures <= 1 /\ run \in [Runs -> RunRow]
      BY <1>2 DEF ClaimRun, BatchInv, RunsInv, TypeOK, Batch, Recorded, Open
    <3>2. run' = [run EXCEPT ![r] = [run[r] EXCEPT !.status = "RUNNING", !.wait = 0, !.token = k,
                                                   !.lease = LeaseTime, !.left = RunTime]]
          /\ UNCHANGED <<status, latest, item>>
      BY <1>2, <2>2 DEF ClaimRun
    <3>3. /\ run'[r].status = "RUNNING" /\ run'[r].session = run[r].session
          /\ run'[r].item = run[r].item /\ run'[r].failures = run[r].failures
          /\ \A x \in Runs \ {r} : run'[x] = run[x]
      BY <3>1, <3>2 DEF RunRow
    <3> QED
      BY <3>1, <3>2, <3>3, HeldRunBatch
  <2> QED
    BY <2>1, <2>2
<1> QED
  BY <1>1, <1>2 DEF ClaimStep

LEMMA ExecuteBatch ==
  ASSUME BatchInv, NEW k \in Slots, ExecuteStep(k)
  PROVE  Batch'
<1> DEFINE r == slot[k].run
<1>0. /\ run \in [Runs -> RunRow] /\ item \in [Items -> ItemRow]
      /\ \A x \in Runs : run[x].failures <= 1
      /\ \A x \in Runs : run[x].item # NoItem => run[x].item \in Items
  BY DEF BatchInv, RunsInv, TypeOK, Batch, Recorded, RunRow
<1>1. Leased(k, r) => r \in Runs /\ run[r] \in RunRow /\ run[r].status \in Open /\ run[r].status = "RUNNING"
  BY <1>0 DEF Leased, Open
<1>3. CASE Heartbeat(k)
  <2>1. /\ run' = [run EXCEPT ![r] = [run[r] EXCEPT !.lease = Renewed(run[r].left)]]
        /\ Leased(k, r) /\ UNCHANGED <<status, latest, item>>
    BY <1>3 DEF Heartbeat
  <2>2. /\ run'[r].status = "RUNNING" /\ run'[r].session = run[r].session
        /\ run'[r].item = run[r].item /\ run'[r].failures = run[r].failures
        /\ \A x \in Runs \ {r} : run'[x] = run[x]
    BY <1>0, <1>1, <2>1 DEF RunRow
  <2> QED
    BY <1>0, <1>1, <2>1, <2>2, HeldRunBatch
<1>4. ASSUME Leased(k, r), UNCHANGED <<status, latest>>,
             NEW c, run' = [run EXCEPT ![r] = [run[r] EXCEPT !.receipt = c]],
             \/ item' = item
             \/ /\ run[r].item # NoItem /\ item[run[r].item].recognition # "SUCCEEDED"
                /\ item' = [item EXCEPT ![run[r].item] = [item[run[r].item] EXCEPT !.recognition = "SUCCEEDED"]]
      PROVE  Batch'
  <2>1. /\ run'[r].status = "RUNNING" /\ run'[r].session = run[r].session
        /\ run'[r].item = run[r].item /\ run'[r].failures = run[r].failures
        /\ \A x \in Runs \ {r} : run'[x] = run[x]
    BY <1>0, <1>1, <1>4 DEF RunRow
  <2>2. \A j \in Items : \/ item'[j] = item[j]
                        \/ /\ run[r].item = j /\ item'[j].session = item[j].session
                           /\ item'[j].recognition = "SUCCEEDED" /\ item[j].recognition # "SUCCEEDED"
    BY <1>0, <1>1, <1>4 DEF ItemRow
  <2> QED
    BY <1>0, <1>1, <1>4, <2>1, <2>2, HeldRunBatch
<1>5. CASE StartTool(k)
  BY <1>4, <1>5 DEF StartTool
<1>6. CASE PerformTool(k)
  BY <1>4, <1>6 DEF PerformTool
<1>7. CASE FailTool(k)
  BY <1>4, <1>7, RestBatch DEF FailTool
<1>8. CASE RecordRecognitionFailure(k)
  <2>1. /\ Leased(k, r) /\ UNCHANGED <<status, latest>>
        /\ run' = [run EXCEPT ![r] = [run[r] EXCEPT !.failures = 1]]
        /\ run[r].item # NoItem /\ item[run[r].item].recognition # "SUCCEEDED"
        /\ item' = [item EXCEPT ![run[r].item] = [item[run[r].item] EXCEPT !.recognition = "FAILED"]]
    BY <1>8 DEF RecordRecognitionFailure
  <2>2. /\ run'[r].status = "RUNNING" /\ run'[r].session = run[r].session
        /\ run'[r].item = run[r].item /\ run'[r].failures = 1
        /\ \A x \in Runs \ {r} : run'[x] = run[x]
    BY <1>0, <1>1, <2>1 DEF RunRow
  <2>3. \A j \in Items : \/ item'[j] = item[j]
                        \/ /\ run[r].item = j /\ item'[j].session = item[j].session
                           /\ item'[j].recognition = "FAILED" /\ item[j].recognition # "SUCCEEDED"
    BY <1>0, <1>1, <2>1 DEF ItemRow
  <2> QED
    BY <1>0, <1>1, <2>1, <2>2, <2>3, HeldRunBatch
<1>9. CASE Finalize(k)
  BY <1>1, <1>9, EndRunBatch DEF Finalize, Results, Codes
<1>10. CASE FailRun(k)
  BY <1>1, <1>10, EndRunBatch DEF FailRun, Results, Codes
<1>11. CASE LoseLease(k)
  BY <1>11, RestBatch DEF LoseLease
<1> QED
  BY <1>3, <1>5, <1>6, <1>7, <1>8, <1>9, <1>10, <1>11 DEF ExecuteStep

LEMMA WorkerBatch ==
  ASSUME BatchInv, NEW w \in Workers, WorkerStep(w)
  PROVE  Batch'
<1>1. CASE WatchdogScan(w) \/ Crash(w) \/ Drain(w) \/ Restart(w)
  BY <1>1, RestBatch DEF WatchdogScan, Crash, Drain, Restart
<1>2. ASSUME NEW r \in Runs, Visit(w, r) PROVE Batch'
  BY <1>2, EndRunBatch, RestBatch DEF Visit, OpenRuns, Open, Results, Codes
<1> QED
  BY <1>1, <1>2 DEF WorkerStep

LEMMA TickBatch == BatchInv /\ Tick => Batch'
<1> SUFFICES ASSUME BatchInv, Tick PROVE Batch'
  OBVIOUS
<1>1. UNCHANGED <<status, latest, item>>
  BY DEF Tick
<1>2. ASSUME NEW x \in Runs
      PROVE  /\ run'[x].status = run[x].status /\ run'[x].session = run[x].session
             /\ run'[x].item = run[x].item /\ run'[x].failures = run[x].failures
  <2>1. run[x] \in RunRow
    BY DEF BatchInv, RunsInv, TypeOK
  <2>2. run'[x] = CASE run[x].status = "QUEUED" -> [run[x] EXCEPT !.wait = Less(@)]
                    [] run[x].status = "RUNNING" -> [run[x] EXCEPT !.lease = Less(@), !.left = Less(@)]
                    [] OTHER -> run[x]
    BY DEF Tick
  <2> QED
    BY <2>1, <2>2 DEF RunRow
<1>3. Owned' /\ ItemsOwned' /\ OpenInActive' /\ Recorded'
  BY <1>1, <1>2 DEF BatchInv, Batch, Linked, Owned, ItemsOwned, OpenInActive, Recorded
<1>4. LatestOwned'
  BY <1>1, <1>2 DEF BatchInv, Batch, Linked, LatestOwned
<1>5. Attended'
  BY <1>1, <1>2 DEF BatchInv, Batch, Attended
<1> QED
  BY <1>3, <1>4, <1>5 DEF Batch, Linked

LEMMA BatchInit == Init => BatchInv
<1> SUFFICES ASSUME Init PROVE Batch
  BY RunsInvInit DEF BatchInv
<1> QED
  BY RunConstants DEF Init, AbsentRun, AbsentItem, Batch, Linked, Owned, LatestOwned, ItemsOwned, OpenInActive,
                      Recorded, Attended, Open

LEMMA BatchStep == BatchInv /\ [Next]_vars => BatchInv'
<1> SUFFICES ASSUME BatchInv, [Next]_vars PROVE Batch'
  BY RunsInvStep DEF BatchInv
<1>1. ASSUME NEW i \in Items, RecognizeItem(i) PROVE Batch'
  <2>1. item[i].session \in Sessions /\ i # NoItem
    BY <1>1, RunConstants DEF RecognizeItem, BatchInv, RunsInv, TypeOK, ItemRow, Batch, Linked, ItemsOwned
  <2> QED
    BY <1>1, <2>1, EnqueueBatch DEF RecognizeItem
<1>2. CASE UNCHANGED vars
  BY <1>2, RestBatch DEF vars
<1> QED
  BY <1>1, <1>2, ClientBatch, ClaimBatch, ExecuteBatch, WorkerBatch, TickBatch DEF Next

\* A batch of screenshots never stalls, however the run of one of them ended.
THEOREM BatchesNeverStall == Spec => []RecognitionUnderWay
<1>1. BatchInv => RecognitionUnderWay
  BY DEF BatchInv, Batch, Attended, RecognitionUnderWay, Unread, OpenRuns
<1> QED
  BY <1>1, BatchInit, BatchStep, PTL DEF Spec

\* A failed run leaves one record of the failure, or a screenshot that was read.
THEOREM FailuresAreRecorded == Spec => []FailureRecordedOnce
<1>1. BatchInv => FailureRecordedOnce
  BY DEF BatchInv, Batch, Recorded, FailureRecordedOnce
<1> QED
  BY <1>1, BatchInit, BatchStep, PTL DEF Spec

\* No later failure takes back what was read.
THEOREM ReadScreenshotsStayRead == Spec => RecognitionKept
<1> DEFINE Step == \A i \in Items : item[i].recognition = "SUCCEEDED" =>
                     item'[i].recognition \in {"SUCCEEDED", "ABSENT"}
<1>1. TypeOK /\ [Next]_vars => [Step]_vars
  <2> SUFFICES ASSUME TypeOK, [Next]_vars, NEW i \in Items, item[i].recognition = "SUCCEEDED"
               PROVE  item'[i].recognition \in {"SUCCEEDED", "ABSENT"}
    OBVIOUS
  <2>0. item \in [Items -> ItemRow] /\ item[i] # AbsentItem /\ AbsentItem.recognition = "ABSENT"
        /\ item[i] \in ItemRow
    BY DEF TypeOK, AbsentItem
  <2>1. ASSUME NEW r \in Runs, run[r].status \in Open, NEW end \in Results, NEW code \in Codes,
               EndRun(r, end, code)
        PROVE  item'[i].recognition = "SUCCEEDED"
    BY <2>1, EndRunDetail, AfterRunFacts
  <2>2. ASSUME NEW s \in Sessions, ClientStep(s) PROVE item'[i].recognition \in {"SUCCEEDED", "ABSENT"}
    <3>1. CASE FinishDeletion(s)
      BY <2>0, <3>1 DEF FinishDeletion
    <3>2. ASSUME NEW new \in SUBSET Items, AcceptScreenshots(s, new) PROVE item'[i] = item[i]
      BY <2>0, <3>2 DEF AcceptScreenshots
    <3> QED
      BY <2>2, <3>1, <3>2 DEF ClientStep, CreateSession, AcceptMessage, RetryRun, ArchiveSession,
                              RestoreSession, DeleteSession
  <2>3. ASSUME NEW j \in Items, RecognizeItem(j) PROVE item' = item
    BY <2>3 DEF RecognizeItem
  <2>4. ASSUME NEW k \in Slots, ClaimStep(k) PROVE item'[i].recognition = "SUCCEEDED"
    BY <2>1, <2>4 DEF ClaimStep, ClaimScan, ClaimNothing, ClaimRun, ClaimBreaks, Open, Results, Codes
  <2>5. ASSUME NEW k \in Slots, ExecuteStep(k) PROVE item'[i].recognition = "SUCCEEDED"
    <3> DEFINE r == slot[k].run
    <3>1. Leased(k, r) => r \in Runs /\ run[r].status \in Open
      BY DEF Leased, Open
    <3>2. CASE Finalize(k) \/ FailRun(k)
      BY <2>1, <3>1, <3>2 DEF Finalize, FailRun, Results, Codes
    <3>3. CASE PerformTool(k)
      BY <2>0, <3>3 DEF PerformTool, ItemRow
    <3>4. CASE RecordRecognitionFailure(k)
      BY <2>0, <3>4 DEF RecordRecognitionFailure, ItemRow
    <3> QED
      BY <2>5, <3>2, <3>3, <3>4 DEF ExecuteStep, Heartbeat, StartTool, FailTool, LoseLease
  <2>6. ASSUME NEW w \in Workers, WorkerStep(w) PROVE item'[i].recognition = "SUCCEEDED"
    BY <2>1, <2>6 DEF WorkerStep, WatchdogScan, Visit, Crash, Drain, Restart, OpenRuns, Open, Results, Codes
  <2>7. CASE Tick \/ UNCHANGED vars
    BY <2>7 DEF Tick, vars
  <2> QED
    BY <2>2, <2>3, <2>4, <2>5, <2>6, <2>7 DEF Next
<1> QED
  BY <1>1, InitType, TypeStep, PTL DEF Spec, RecognitionKept
=============================================================================
