--------------------------- MODULE SchedulePlans ---------------------------
(***************************************************************************)
(* Schedule plans: drafts that propose production tasks.  A run of a       *)
(* scheduling session computes a draft from the pending orders and the     *)
(* machines; its owner adjusts, replaces, closes or applies it, possibly   *)
(* long afterwards, while the production board changes underneath.         *)
(*                                                                         *)
(* The board is the module ProductionBoard: each of its steps is also a    *)
(* step here.  A plan command holds the session row, the plan row and the  *)
(* scheduling lock until it commits, so it is one step as well.  A run     *)
(* proposes any batches that pass the batching rules: what build_tasks     *)
(* computes is among them (Planner, ProposalsAreConfirmable).              *)
(***************************************************************************)
EXTENDS Planner

CONSTANTS
  Plans, Sessions,   \* identifiers of schedule plans and scheduling sessions
  NoPlan,            \* NULL
  Outdated,          \* a fingerprint that holds an old updated_at
  AllPending,        \* the scope of a run that selects no orders
  MaxRevision        \* bound on the revision of a draft: the code has none

ASSUME PlanConstants ==
  /\ NoPlan \notin Plans
  /\ MaxRevision \in Nat \ {0}

VARIABLES
  planStatus,    \* schedule_plans.status, or "ABSENT"
  planRevision,  \* schedule_plans.revision
  planSession,   \* schedule_plans.session_id
  draft,         \* tasks, inputs and fingerprint; only a DRAFT's are read again
  activePlan,    \* chat_sessions.active_plan_id
  planRun        \* the latest run of the session and its config_snapshot

planVars == <<planStatus, planRevision, planSession, draft, activePlan, planRun>>
allVars == <<vars, planVars>>

\* A command that replaces a plan names it and the revision its user saw.
NoIntent == [plan |-> NoPlan, revision |-> 0]
IdleRun == [status |-> "NONE", scope |-> AllPending, intent |-> NoIntent, plan |-> NoPlan]

\* The content of a plan that is no draft (any more).
NoDraft ==
  [inputs |-> {}, scoped |-> FALSE, tasks |-> <<>>, fingerprint |-> Outdated,
   recorded |-> {}, basis |-> Outdated]

PlansInit ==
  /\ Init
  /\ planStatus = [p \in Plans |-> "ABSENT"]
  /\ planRevision = [p \in Plans |-> 0]
  /\ planSession = [p \in Plans |-> NoPlan]
  /\ draft = [p \in Plans |-> NoDraft]
  /\ activePlan = [s \in Sessions |-> NoPlan]
  /\ planRun = [s \in Sessions |-> IdleRun]

-----------------------------------------------------------------------------
(* What a plan remembers of the board *)

\* Mutation of OrderContents: the product's category is not recorded.
OrderContentsAlone(o) == <<orderSpec[o]>>
OrderContents(o) == <<orderSpec[o], category[orderSpec[o].product]>>

\* Mutation of MachineFingerprint: only the machine's abilities are recorded.
MachineFingerprintNoQueue(m) == [config |-> machine[m], queue |-> {}]

\* machine_fingerprint, without the timestamps.
MachineFingerprint(m) ==
  [config |-> machine[m],
   queue |-> {[task |-> t, position |-> taskPosition[t],
               status |-> taskStatus[t], orders |-> OrdersOf(t)] : t \in Queue(m)}]

\* input_fingerprint, without the timestamps and what follows from the rest:
\* the abilities and queue of every active machine, the pending orders.
Fingerprint(S) ==
  [machines |-> [m \in ActiveMachines |-> MachineFingerprint(m)],
   orders |-> [o \in S |-> OrderContents(o)]]

\* The orders whose updated_at the fingerprint records.
RecordedOrders(S) ==
  S \cup UNION {OrdersOf(t) : t \in UNION {Queue(m) : m \in ActiveMachines}}

\* The orders a scoped plan compares with are its own, a plan without scope
\* compares with every pending order.
ComparedOrders(d) == IF d.scoped THEN PendingOrders \cap d.inputs ELSE PendingOrders

\* plan_is_stale, and the comparisons of apply_schedule_plan, negated.
Fresh(d) ==
  /\ d.fingerprint # Outdated
  /\ ComparedOrders(d) = d.inputs
  /\ d.fingerprint = Fingerprint(d.inputs)

OrderRow(o) == <<orderStatus[o], orderTask[o], orderSpec[o]>>
TaskRow(t) == <<taskStatus[t], taskMachine[t], taskPosition[t]>>

\* A step of the board updates rows whose updated_at the fingerprint holds.
RowsEdited(d) ==
  \/ \E o \in d.recorded : OrderRow(o)' # OrderRow(o)
  \/ \E m \in DOMAIN d.fingerprint.machines :
       \E row \in d.fingerprint.machines[m].queue : TaskRow(row.task)' # TaskRow(row.task)

\* A timestamp never comes back, so the fingerprint matches no later board: what
\* else it holds is forgotten here.
Aged(d) ==
  IF d.fingerprint # Outdated /\ RowsEdited(d)
    THEN [d EXCEPT !.fingerprint = Outdated, !.recorded = {}, !.basis = Outdated]
    ELSE d

BoardStep ==
  /\ Next
  /\ draft' = [p \in Plans |-> Aged(draft[p])]
  /\ UNCHANGED <<planStatus, planRevision, planSession, activePlan, planRun>>

-----------------------------------------------------------------------------
(* Drafts *)

\* What the planner reads of the board.
PlannerInput(S) ==
  <<[o \in S |-> <<orderSpec[o], category[orderSpec[o].product]>>],
    [m \in ActiveMachines |->
       <<machine[m], {<<taskPosition[t], [o \in OrdersOf(t) |-> orderSpec[o]]>> : t \in Queue(m)}>>]>>

\* "basis" is not stored by the code: it is there for AppliedToTheInputsItSaw.
NewDraft(S, scoped, tasks) ==
  [inputs |-> S, scoped |-> scoped, tasks |-> tasks, fingerprint |-> Fingerprint(S),
   recorded |-> RecordedOrders(S), basis |-> PlannerInput(S)]

Idle(s) == planRun[s].status # "OPEN"

QueueRun(s, scope, intent) ==
  planRun' = [planRun EXCEPT ![s] =
    [status |-> "OPEN", scope |-> scope, intent |-> intent, plan |-> NoPlan]]

\* accept_message with selected orders, from the scheduling workbench.
StartScheduling(s, S) ==
  /\ Idle(s) /\ activePlan[s] = NoPlan
  /\ S # {} /\ S \subseteq PendingOrders
  /\ QueueRun(s, S, NoIntent)
  /\ UNCHANGED <<vars, planStatus, planRevision, planSession, draft, activePlan>>

\* accept_message with a text that asks for a plan of all pending orders.
AskForPlan(s) ==
  /\ Idle(s)
  /\ QueueRun(s, AllPending, NoIntent)
  /\ UNCHANGED <<vars, planStatus, planRevision, planSession, draft, activePlan>>

\* Mutation of ReplacesCurrent: any run may replace the session's draft.
ReplacesAnyDraft(s) == TRUE

\* The session has no draft, or the run was started to replace this revision of it.
ReplacesCurrent(s) ==
  LET p == activePlan[s] IN
  p # NoPlan => planRun[s].intent = [plan |-> p, revision |-> planRevision[p]]

\* The tool generate_draft: the run's first call creates plan p.  The other
\* outcomes (an existing plan, nothing pending, a selection that is no longer
\* pending, a replacement that was not asked for) change nothing.
Generate(s, p) ==
  LET scope == planRun[s].scope
      S == IF scope = AllPending THEN PendingOrders ELSE scope
      old == activePlan[s]
  IN
  /\ planRun[s].status = "OPEN" /\ planRun[s].plan = NoPlan
  /\ ReplacesCurrent(s)
  /\ S # {} /\ S \subseteq PendingOrders
  /\ planStatus[p] = "ABSENT"
  /\ \E tasks \in TaskLists(S) :
       draft' = [q \in Plans |-> IF q = p THEN NewDraft(S, scope # AllPending, tasks)
                                 ELSE IF q = old THEN NoDraft ELSE draft[q]]
  /\ planStatus' = [q \in Plans |-> IF q = p THEN "DRAFT"
                                    ELSE IF q = old THEN "SUPERSEDED" ELSE planStatus[q]]
  /\ planRevision' = [planRevision EXCEPT ![p] = 1]
  /\ planSession' = [planSession EXCEPT ![p] = s]
  /\ activePlan' = [activePlan EXCEPT ![s] = p]
  /\ planRun' = [planRun EXCEPT ![s].plan = p]
  /\ UNCHANGED vars

\* The run ends; whatever it generated stays.
EndRun(s, status) ==
  /\ planRun[s].status = "OPEN"
  /\ planRun' = [planRun EXCEPT ![s] = IF status = "FAILED" THEN [@ EXCEPT !.status = "FAILED"]
                                       ELSE IdleRun]
  /\ UNCHANGED <<vars, planStatus, planRevision, planSession, draft, activePlan>>

\* retry_run keeps the scope; it repeats a replacement only of the same revision.
RetryRun(s) ==
  LET wanted == planRun[s].intent IN
  /\ planRun[s].status = "FAILED"
  /\ wanted # NoIntent =>
       activePlan[s] = wanted.plan /\ planRevision[wanted.plan] = wanted.revision
  /\ QueueRun(s, planRun[s].scope, wanted)
  /\ UNCHANGED <<vars, planStatus, planRevision, planSession, draft, activePlan>>

-----------------------------------------------------------------------------
(* Commands of the plan's owner; expected_revision is the current one *)

\* Mutation of RevisionAfterPatch: a patch keeps the revision.
SameRevision(p) == planRevision[p]
RevisionAfterPatch(p) == planRevision[p] + 1

\* patch_plan and update_schedule_draft: another arrangement of the same orders.
PatchPlan(s, p) ==
  /\ planSession[p] = s /\ Idle(s)
  /\ planStatus[p] = "DRAFT" /\ planRevision[p] < MaxRevision
  /\ Fresh(draft[p])
  /\ \E tasks \in TaskLists(draft[p].inputs) : draft' = [draft EXCEPT ![p].tasks = tasks]
  /\ planRevision' = [planRevision EXCEPT ![p] = RevisionAfterPatch(p)]
  /\ UNCHANGED <<vars, planStatus, planSession, activePlan, planRun>>

\* The position after every task of the machine, the finished ones included.
NextPosition(m) == Max({0} \cup {taskPosition[t] : t \in {u \in Tasks : taskMachine[u] = m}}) + 1

\* Mutation of OnSameMachine: every task of the list gets the next position.
FirstOnMachine(list, k) == 1

\* How many of the first k tasks of a list are for the machine of the k-th.
OnSameMachine(list, k) == Cardinality({i \in 1..k : list[i].machine = list[k].machine})

MayApply(p) ==
  /\ Fresh(draft[p])
  /\ \A k \in DOMAIN draft[p].tasks :
       LET b == draft[p].tasks[k] IN ValidBatch(b.machine, b.orders) /\ b.orders \subseteq PendingOrders

Assigns(list, o) == \E k \in DOMAIN list : o \in list[k].orders

StatusAfterApply(list) ==
  [o \in Orders |-> IF Assigns(list, o) THEN "PRODUCING" ELSE orderStatus[o]]

\* APPLY_PLAN; repeated on an APPLIED plan it returns the stored result.
ApplyPlan(s, p) ==
  LET list == draft[p].tasks IN
  /\ planSession[p] = s /\ Idle(s)
  /\ planStatus[p] = "DRAFT" /\ activePlan[s] = p
  /\ list # <<>>
  /\ MayApply(p)
  /\ \A k \in DOMAIN list : NextPosition(list[k].machine) + OnSameMachine(list, k) - 1 <= MaxPosition
  /\ \E id \in Injection(DOMAIN list, {t \in Tasks : taskStatus[t] = "ABSENT"}) :
       LET from(t) == CHOOSE k \in DOMAIN list : id[k] = t
           new == {id[k] : k \in DOMAIN list}
       IN
       /\ taskStatus' = [t \in Tasks |-> IF t \in new THEN "WAITING" ELSE taskStatus[t]]
       /\ taskMachine' = [t \in Tasks |-> IF t \in new THEN list[from(t)].machine
                                          ELSE taskMachine[t]]
       /\ taskPosition' = [t \in Tasks |->
            IF t \in new
              THEN NextPosition(list[from(t)].machine) + OnSameMachine(list, from(t)) - 1
              ELSE taskPosition[t]]
       /\ orderTask' = [o \in Orders |->
            IF Assigns(list, o)
              THEN id[CHOOSE k \in DOMAIN list : o \in list[k].orders] ELSE orderTask[o]]
  /\ orderStatus' = StatusAfterApply(list)
  /\ planStatus' = [planStatus EXCEPT ![p] = "APPLIED"]
  /\ planRevision' = [planRevision EXCEPT ![p] = @ + 1]
  /\ activePlan' = [activePlan EXCEPT ![s] = NoPlan]
  /\ UNCHANGED <<masterVars, orderSpec, planSession, planRun>>
  /\ draft' = [q \in Plans |-> IF q = p THEN NoDraft ELSE Aged(draft[q])]

\* Mutation of ClosePlan: the session keeps pointing to the closed plan.
ClosePlanKeepingPointer(s, p) ==
  /\ planSession[p] = s /\ Idle(s)
  /\ planStatus[p] = "DRAFT"
  /\ planStatus' = [planStatus EXCEPT ![p] = "CLOSED"]
  /\ draft' = [draft EXCEPT ![p] = NoDraft]
  /\ UNCHANGED <<vars, planRevision, planSession, activePlan, planRun>>

ClosePlan(s, p) ==
  /\ planSession[p] = s /\ Idle(s)
  /\ planStatus[p] = "DRAFT" /\ activePlan[s] = p
  /\ planStatus' = [planStatus EXCEPT ![p] = "CLOSED"]
  /\ planRevision' = [planRevision EXCEPT ![p] = @ + 1]
  /\ activePlan' = [activePlan EXCEPT ![s] = NoPlan]
  /\ draft' = [draft EXCEPT ![p] = NoDraft]
  /\ UNCHANGED <<vars, planSession, planRun>>

ReplacePlan(s, p) ==
  /\ planSession[p] = s /\ Idle(s)
  /\ planStatus[p] = "DRAFT" /\ activePlan[s] = p
  /\ QueueRun(s, IF draft[p].scoped THEN draft[p].inputs ELSE AllPending,
              [plan |-> p, revision |-> planRevision[p]])
  /\ UNCHANGED <<vars, planStatus, planRevision, planSession, draft, activePlan>>

-----------------------------------------------------------------------------
RunStep(s) ==
  \/ \E S \in SUBSET Orders : StartScheduling(s, S)
  \/ AskForPlan(s)
  \/ \E p \in Plans : Generate(s, p)
  \/ \E status \in {"FAILED", "COMPLETED"} : EndRun(s, status)
  \/ RetryRun(s)

CommandStep(s, p) == PatchPlan(s, p) \/ ApplyPlan(s, p) \/ ClosePlan(s, p) \/ ReplacePlan(s, p)

PlansNext ==
  \/ BoardStep
  \/ \E s \in Sessions : RunStep(s)
  \/ \E s \in Sessions, p \in Plans : CommandStep(s, p)

PlansSpec == PlansInit /\ [][PlansNext]_allVars

-----------------------------------------------------------------------------
(* What schedule plans promise *)

Applied(p) == planStatus[p] = "DRAFT" /\ planStatus'[p] = "APPLIED"

\* The current plan of a session is its only draft: no draft is left behind that
\* could still be applied, and no session points to a plan that is finished,
\* through runs that fail half way, are retried, or replace what was replaced.
OneDraftPerSession ==
  \A p \in Plans, s \in Sessions :
    activePlan[s] = p <=> (planStatus[p] = "DRAFT" /\ planSession[p] = s)

\* A plan is applied only to the board it was computed for: its orders, the
\* abilities and the queues of the machines, the orders in those queues, and
\* (without a scope) the whole pending list are what the planner read, whatever
\* happened and was undone in between (meta/GROUND_TRUTH.md line 120).
AppliedToTheInputsItSaw ==
  [][ \A p \in Plans : Applied(p) =>
        /\ draft[p].basis = PlannerInput(draft[p].inputs)
        /\ draft[p].scoped \/ PendingOrders = draft[p].inputs
    ]_allVars

\* Applying turns the draft, and nothing else, into tasks: each task of the list
\* becomes one new waiting task that its machine can produce, behind all the
\* unfinished work of the machine and in the order of the list; the orders were
\* free before and no other order or task changes.
AppliedAsDrafted ==
  [][ \A p \in Plans : Applied(p) =>
        LET list == draft[p].tasks
            new == {t \in Tasks : taskStatus[t] # taskStatus'[t]}
            taskOf(k) == {t \in new : OrdersOf(t)' = list[k].orders}
        IN
        /\ Cardinality(new) = Len(list)
        /\ \A k \in DOMAIN list : \E t \in taskOf(k) :
             /\ taskStatus[t] = "ABSENT" /\ taskStatus'[t] = "WAITING"
             /\ taskMachine'[t] = list[k].machine
             /\ ValidBatch(taskMachine[t], OrdersOf(t))'
             /\ \A u \in Queue(list[k].machine) : taskPosition[u] < taskPosition'[t]
             /\ \A j \in 1..(k - 1) : \A u \in taskOf(j) :
                  list[j].machine = list[k].machine => taskPosition'[u] < taskPosition'[t]
        /\ \A o \in Orders :
             IF Assigns(list, o)
               THEN orderTask[o] = NoTask /\ orderStatus[o] = "PENDING"
               ELSE OrderRow(o)' = OrderRow(o)
        /\ \A t \in Tasks \ new : TaskRow(t)' = TaskRow(t)
    ]_allVars

\* A confirmation is never refused for its batches: as long as the board is the
\* one the draft was computed for, every batch of it, through all patches, is one
\* its machine may make of orders that are pending (meta/GROUND_TRUTH.md line 120).
FreshDraftsApply ==
  \A p \in Plans : (planStatus[p] = "DRAFT" /\ Fresh(draft[p])) => MayApply(p)

\* The plan and its revision name the content: a confirmation that carries the
\* revision a user read applies exactly the tasks that user read
\* (meta/GROUND_TRUTH.md line 121).
RevisionNamesDraft ==
  [][ \A p \in Plans :
        (planStatus[p] = "DRAFT" /\ planStatus'[p] = "DRAFT" /\ planRevision'[p] = planRevision[p])
          => draft'[p].tasks = draft[p].tasks
    ]_allVars

\* A draft ends only by its user's decision: it is applied or closed while no
\* run is under way, or superseded by the run of a command that asked to replace
\* this very revision, in which case the session has the new draft in its place
\* (meta/agent-design/architecture.md line 151).
DraftEndsByDecision ==
  [][ \A p \in Plans : (planStatus[p] = "DRAFT" /\ planStatus'[p] # "DRAFT") =>
        LET s == planSession[p] IN
        IF planStatus'[p] = "SUPERSEDED"
          THEN /\ planRun[s].intent = [plan |-> p, revision |-> planRevision[p]]
               /\ activePlan'[s] \in Plans \ {p} /\ planStatus'[activePlan'[s]] = "DRAFT"
          ELSE planRun[s].status # "OPEN" /\ activePlan'[s] = NoPlan
    ]_allVars
=============================================================================
