-------------------------- MODULE ProductionBoard --------------------------
(***************************************************************************)
(* The production board: orders, the tasks that batch them, the queue each *)
(* machine keeps of its unfinished tasks, and the master data (machine     *)
(* limits, product categories) the batching rules read.                    *)
(*                                                                         *)
(* Every operation below starts with pg_advisory_xact_lock(7302, 1) and    *)
(* commits once (services/scheduling_lock.py), so an operation is one      *)
(* step.  The arguments of an operation come from a client that may have   *)
(* looked at the board long ago; an operation whose checks fail raises an  *)
(* HTTP error and rolls back, which is the absence of a step.              *)
(***************************************************************************)
EXTENDS Integers, FiniteSets, FiniteSetsExt, Functions

CONSTANTS
  Orders, Tasks, Machines, Products,  \* identifiers; the Tasks are naturals
  Categories,                         \* product categories
  Specs,         \* what an order asks for, see SpecFields
  Configs,       \* what a machine can do, see ConfigFields
  NoTask, NoMachine, NoSpec, NoConfig, \* database NULLs and absent rows
  Incomplete,    \* the signature of an order without material or thickness
  NoPattern,     \* an order that asks for no pattern
  MaxPosition    \* bound on queue positions: the code has none

\* The fields of an order the batching rules read.  "material" stands for
\* formula or material together with the thickness; a width of 0 is a width
\* positive_number could not recognise.
SpecFields == {"product", "width", "metre", "material", "pattern"}

\* The fields of a machine the batching rules read.
ConfigFields == {"active", "min", "max", "categories", "patterns"}

ASSUME BoardConstants ==
  /\ IsFiniteSet(Tasks) /\ Tasks \subseteq Nat /\ NoTask \notin Tasks
  /\ IsFiniteSet(Orders) /\ IsFiniteSet(Machines)
  /\ NoMachine \notin Machines /\ NoConfig \notin Configs /\ NoSpec \notin Specs
  /\ MaxPosition \in Nat

ASSUME BoardRecords ==
  /\ \A s \in Specs : /\ DOMAIN s = SpecFields
                      /\ s.product \in Products /\ s.width \in Nat /\ s.metre \in BOOLEAN
  /\ \A c \in Configs : /\ DOMAIN c = ConfigFields
                        /\ c.min \in Int /\ c.max \in Int /\ c.min < c.max

VARIABLES
  machine,       \* machine[m]: the configuration of machine row m
  category,      \* category[p]: the category product p belongs to
  orderStatus,   \* orders.status, or "ABSENT"
  orderTask,     \* orders.task_id
  orderSpec,     \* the specification, quantity unit and product of an order
  taskStatus,    \* production_tasks.status, or "ABSENT"
  taskMachine,   \* production_tasks.machine_id
  taskPosition   \* production_tasks.position

masterVars == <<machine, category>>
orderVars == <<orderStatus, orderTask, orderSpec>>
taskVars == <<taskStatus, taskMachine, taskPosition>>
vars == <<masterVars, orderVars, taskVars>>

OrderStatuses == {"PENDING", "PRODUCING", "DONE"}
TaskStatuses == {"WAITING", "PRODUCING", "DONE"}
Unfinished == {"WAITING", "PRODUCING"}

\* Orders, tasks, machines and categories keep the ranges the columns and their
\* checks give them, whatever the operations do.
TypeOK ==
  /\ machine \in [Machines -> Configs \cup {NoConfig}]
  /\ category \in [Products -> Categories]
  /\ orderStatus \in [Orders -> OrderStatuses \cup {"ABSENT"}]
  /\ orderTask \in [Orders -> Tasks \cup {NoTask}]
  /\ orderSpec \in [Orders -> Specs \cup {NoSpec}]
  /\ taskStatus \in [Tasks -> TaskStatuses \cup {"ABSENT"}]
  /\ taskMachine \in [Tasks -> Machines \cup {NoMachine}]
  /\ taskPosition \in [Tasks -> Nat]

Init ==
  /\ machine = [m \in Machines |-> NoConfig]
  /\ category \in [Products -> Categories]
  /\ orderStatus = [o \in Orders |-> "ABSENT"]
  /\ orderTask = [o \in Orders |-> NoTask]
  /\ orderSpec = [o \in Orders |-> NoSpec]
  /\ taskStatus = [t \in Tasks |-> "ABSENT"]
  /\ taskMachine = [t \in Tasks |-> NoMachine]
  /\ taskPosition = [t \in Tasks |-> 0]

-----------------------------------------------------------------------------
(* Reading the board *)

OrdersOf(t) == {o \in Orders : orderTask[o] = t}

\* The unfinished tasks of machine m: its queue, ordered by position, then id.
Queue(m) == {t \in Tasks : taskMachine[t] = m /\ taskStatus[t] \in Unfinished}

\* Mutation of Rank: ids decide the order of a queue.
RankById(t, Q, pos) == Cardinality({u \in Q : u <= t})

\* The place (1, 2, ...) of task t in the set Q ordered by pos, ties by id.
Rank(t, Q, pos) ==
  Cardinality({u \in Q : u = t \/ pos[u] < pos[t] \/ (pos[u] = pos[t] /\ u < t)})

\* Mutation of FollowsQueue: append by counting the queue.
FollowsQueueByCount(p, m) == p = Cardinality(Queue(m)) + 1

\* p is the position after the last unfinished task of machine m.
FollowsQueue(p, m) ==
  /\ \A t \in Queue(m) : taskPosition[t] < p
  /\ p = 1 \/ \E t \in Queue(m) : p = taskPosition[t] + 1

\* Positions after the queues of the machines ms are renumbered 1, 2, ...
Normalized(status, on, pos, ms) ==
  [t \in Tasks |->
     IF status[t] \in Unfinished /\ on[t] \in ms
       THEN Rank(t, {u \in Tasks : status[u] \in Unfinished /\ on[u] = on[t]}, pos)
       ELSE pos[t]]

Signature(o) == <<orderSpec[o].material, category[orderSpec[o].product], orderSpec[o].pattern>>

\* Orders that may share a task: one unit kind, complete and equal signatures.
Mergeable(S) ==
  \A o, q \in S : o # q =>
    /\ orderSpec[o].metre = orderSpec[q].metre
    /\ orderSpec[o].material # Incomplete
    /\ Signature(o) = Signature(q)

TotalWidth(S) == SumFunction([o \in S |-> orderSpec[o].width])

\* validate_machine_batch: machine m may produce the orders S as one task.
ValidBatch(m, S) ==
  LET c == machine[m] IN
  /\ c # NoConfig
  /\ c.active
  /\ S # {}
  /\ \A o \in S : /\ orderSpec[o].width > 0
                  /\ category[orderSpec[o].product] \in c.categories
                  /\ orderSpec[o].pattern \in c.patterns \cup {NoPattern}
  /\ Mergeable(S)
  /\ TotalWidth(S) \in c.min..c.max

-----------------------------------------------------------------------------
(* Orders and master data *)

\* Only an order outside every task can be edited or deleted.
Editable(o) == orderStatus[o] # "ABSENT" /\ orderTask[o] = NoTask

CreateOrder(o, s) ==
  /\ orderStatus[o] = "ABSENT"
  /\ s.width > 0                      \* validate_specification
  /\ orderStatus' = [orderStatus EXCEPT ![o] = "PENDING"]
  /\ orderSpec' = [orderSpec EXCEPT ![o] = s]
  /\ UNCHANGED <<masterVars, taskVars, orderTask>>

\* Mutation of UpdateOrder: a scheduled order can be edited too.
UpdateScheduledOrder(o, s, resets) ==
  /\ orderStatus[o] # "ABSENT"
  /\ orderSpec' = [orderSpec EXCEPT ![o] = s]
  /\ UNCHANGED <<masterVars, taskVars, orderTask, orderStatus>>

\* The request may ask for the status PENDING, and for no other.
UpdateOrder(o, s, resets) ==
  /\ Editable(o)
  /\ s.width > 0                      \* validate_specification
  /\ orderSpec' = [orderSpec EXCEPT ![o] = s]
  /\ orderStatus' = IF resets THEN [orderStatus EXCEPT ![o] = "PENDING"] ELSE orderStatus
  /\ UNCHANGED <<masterVars, taskVars, orderTask>>

DeleteOrder(o) ==
  /\ Editable(o)
  /\ orderStatus' = [orderStatus EXCEPT ![o] = "ABSENT"]
  /\ orderSpec' = [orderSpec EXCEPT ![o] = NoSpec]
  /\ UNCHANGED <<masterVars, taskVars, orderTask>>

CreateMachine(m, c) ==
  /\ machine[m] = NoConfig
  /\ machine' = [machine EXCEPT ![m] = c]
  /\ UNCHANGED <<category, orderVars, taskVars>>

UpdateMachine(m, c) ==
  /\ machine[m] # NoConfig
  /\ machine' = [machine EXCEPT ![m] = c]
  /\ UNCHANGED <<category, orderVars, taskVars>>

DeleteMachine(m) ==
  /\ machine[m] # NoConfig
  /\ \A t \in Tasks : taskMachine[t] # m
  /\ machine' = [machine EXCEPT ![m] = NoConfig]
  /\ UNCHANGED <<category, orderVars, taskVars>>

UpdateProduct(p, c) ==
  /\ category' = [category EXCEPT ![p] = c]
  /\ UNCHANGED <<machine, orderVars, taskVars>>

-----------------------------------------------------------------------------
(* Tasks *)

CreateTask(t, m, S) ==
  /\ taskStatus[t] = "ABSENT"
  /\ \A o \in S : orderStatus[o] = "PENDING" /\ orderTask[o] = NoTask
  /\ ValidBatch(m, S)
  /\ \E p \in 1..MaxPosition :
       /\ FollowsQueue(p, m)
       /\ taskPosition' = [taskPosition EXCEPT ![t] = p]
  /\ taskStatus' = [taskStatus EXCEPT ![t] = "WAITING"]
  /\ taskMachine' = [taskMachine EXCEPT ![t] = m]
  /\ orderStatus' = [o \in Orders |-> IF o \in S THEN "PRODUCING" ELSE orderStatus[o]]
  /\ orderTask' = [o \in Orders |-> IF o \in S THEN t ELSE orderTask[o]]
  /\ UNCHANGED <<masterVars, orderSpec>>

AllowedMoves ==
  {<<"WAITING", "PRODUCING">>, <<"PRODUCING", "DONE">>,
   <<"PRODUCING", "WAITING">>, <<"DONE", "PRODUCING">>}

\* Mutation of OrderStatusOf: orders are not finished with their task.
OrderStatusKept(status) == "PRODUCING"
\* The status stored in the orders of a task that gets the given status.
OrderStatusOf(status) == IF status = "DONE" THEN "DONE" ELSE "PRODUCING"

\* Mutation of MayStart: other tasks of the machine are not looked at.
MayStartBeside(t) == ValidBatch(taskMachine[t], OrdersOf(t))

MayStart(t) ==
  /\ ValidBatch(taskMachine[t], OrdersOf(t))
  /\ \A u \in Tasks \ {t} :
       taskMachine[u] = taskMachine[t] => taskStatus[u] # "PRODUCING"

UpdateTask(t, status) ==
  /\ <<taskStatus[t], status>> \in AllowedMoves
  /\ status = "PRODUCING" => MayStart(t)
  /\ IF taskStatus[t] = "DONE"
       THEN \E p \in 1..MaxPosition :
              /\ FollowsQueue(p, taskMachine[t])
              /\ taskPosition' = [taskPosition EXCEPT ![t] = p]
       ELSE UNCHANGED taskPosition
  /\ taskStatus' = [taskStatus EXCEPT ![t] = status]
  /\ orderStatus' = [o \in Orders |->
       IF o \in OrdersOf(t) THEN OrderStatusOf(status) ELSE orderStatus[o]]
  /\ UNCHANGED <<masterVars, taskMachine, orderTask, orderSpec>>

DeleteTask(t) ==
  /\ taskStatus[t] = "WAITING"
  /\ orderStatus' = [o \in Orders |-> IF o \in OrdersOf(t) THEN "PENDING" ELSE orderStatus[o]]
  /\ orderTask' = [o \in Orders |-> IF o \in OrdersOf(t) THEN NoTask ELSE orderTask[o]]
  /\ taskStatus' = [taskStatus EXCEPT ![t] = "ABSENT"]
  /\ taskMachine' = [taskMachine EXCEPT ![t] = NoMachine]
  /\ taskPosition' =
       Normalized(taskStatus', taskMachine', [taskPosition EXCEPT ![t] = 0], {taskMachine[t]})
  /\ UNCHANGED <<masterVars, orderSpec>>

-----------------------------------------------------------------------------
(* move_order: an order leaves its task (or the pending list) for another  *)
(* task, for a new task on a machine, or for the pending list.             *)

\* Mutation of MayLeave: the orders left behind are not validated.
MayLeaveAnyRest(o) ==
  IF orderTask[o] = NoTask THEN orderStatus[o] = "PENDING"
                           ELSE taskStatus[orderTask[o]] = "WAITING"

\* The order may be taken from where it is now.
MayLeave(o) ==
  IF orderTask[o] = NoTask
    THEN orderStatus[o] = "PENDING"
    ELSE LET source == orderTask[o] IN
         /\ taskStatus[source] = "WAITING"
         /\ OrdersOf(source) # {o}
              => ValidBatch(taskMachine[source], OrdersOf(source) \ {o})

\* The tasks whose row disappears because order o was their only order.
Emptied(o) == {t \in Tasks : OrdersOf(t) = {o}}

\* The machine whose queue the order leaves.
SourceMachines(o) == {taskMachine[t] : t \in Tasks \cap {orderTask[o]}}

\* What the unit of work writes to orders.task_id when the code assigned
\* dest: the flush that deletes a task row first sets the foreign key of
\* every order in the task's loaded collection to NULL, and the collection
\* still holds the moved order.
FlushedTask(o, dest) == IF Emptied(o) = {} THEN dest ELSE NoTask

MoveOrderToTask(o, t) ==
  /\ orderStatus[o] # "ABSENT"
  /\ MayLeave(o)
  /\ t # orderTask[o]
  /\ taskStatus[t] = "WAITING"
  /\ ValidBatch(taskMachine[t], OrdersOf(t) \cup {o})
  /\ orderStatus' = [orderStatus EXCEPT ![o] = "PRODUCING"]
  /\ orderTask' = [orderTask EXCEPT ![o] = FlushedTask(o, t)]
  /\ taskStatus' = [u \in Tasks |-> IF u \in Emptied(o) THEN "ABSENT" ELSE taskStatus[u]]
  /\ taskMachine' = [u \in Tasks |-> IF u \in Emptied(o) THEN NoMachine ELSE taskMachine[u]]
  /\ taskPosition' =
       Normalized(taskStatus', taskMachine',
                  [u \in Tasks |-> IF u \in Emptied(o) THEN 0 ELSE taskPosition[u]],
                  SourceMachines(o))
  /\ UNCHANGED <<masterVars, orderSpec>>

MoveOrderToMachine(o, m, t) ==
  /\ orderStatus[o] # "ABSENT"
  /\ MayLeave(o)
  /\ taskStatus[t] = "ABSENT"
  /\ ValidBatch(m, {o})
  /\ orderStatus' = [orderStatus EXCEPT ![o] = "PRODUCING"]
  /\ orderTask' = [orderTask EXCEPT ![o] = FlushedTask(o, t)]
  /\ taskStatus' = [u \in Tasks |-> IF u = t THEN "WAITING"
                                    ELSE IF u \in Emptied(o) THEN "ABSENT" ELSE taskStatus[u]]
  /\ taskMachine' = [u \in Tasks |-> IF u = t THEN m
                                     ELSE IF u \in Emptied(o) THEN NoMachine ELSE taskMachine[u]]
  /\ \E p \in 1..MaxPosition :
       /\ FollowsQueue(p, m)
       /\ taskPosition' =
            Normalized(taskStatus', taskMachine',
                       [u \in Tasks |-> IF u = t THEN p
                                        ELSE IF u \in Emptied(o) THEN 0 ELSE taskPosition[u]],
                       SourceMachines(o) \cup {m})
  /\ UNCHANGED <<masterVars, orderSpec>>

MoveOrderToPending(o) ==
  /\ orderTask[o] # NoTask
  /\ MayLeave(o)
  /\ orderStatus' = [orderStatus EXCEPT ![o] = "PENDING"]
  /\ orderTask' = [orderTask EXCEPT ![o] = NoTask]
  /\ taskStatus' = [u \in Tasks |-> IF u \in Emptied(o) THEN "ABSENT" ELSE taskStatus[u]]
  /\ taskMachine' = [u \in Tasks |-> IF u \in Emptied(o) THEN NoMachine ELSE taskMachine[u]]
  /\ taskPosition' =
       Normalized(taskStatus', taskMachine',
                  [u \in Tasks |-> IF u \in Emptied(o) THEN 0 ELSE taskPosition[u]],
                  SourceMachines(o))
  /\ UNCHANGED <<masterVars, orderSpec>>

-----------------------------------------------------------------------------
(* Moving whole tasks *)

\* Positions after task t is inserted at index k of the queue of machine m;
\* a target_index past the end means the end.
Inserted(t, m, k) ==
  LET rest == Queue(m) \ {t}
      left == Queue(taskMachine[t]) \ {t}
  IN [u \in Tasks |->
        IF u = t THEN k + 1
        ELSE IF u \in rest THEN LET r == Rank(u, rest, taskPosition)
                                IN  IF r <= k THEN r ELSE r + 1
        ELSE IF u \in left THEN Rank(u, left, taskPosition)
        ELSE taskPosition[u]]

MoveTask(t, m) ==
  /\ taskStatus[t] = "WAITING"
  /\ ValidBatch(m, OrdersOf(t))
  /\ \E k \in 0..Cardinality(Queue(m) \ {t}) : taskPosition' = Inserted(t, m, k)
  /\ taskMachine' = [taskMachine EXCEPT ![t] = m]
  /\ UNCHANGED <<masterVars, orderVars, taskStatus>>

\* The request lists exactly the tasks of the queue, each once.
ReorderTasks(m) ==
  /\ machine[m] # NoConfig
  /\ \E f \in Injection(Queue(m), 1..Cardinality(Queue(m))) :
       taskPosition' = [t \in Tasks |-> IF t \in Queue(m) THEN f[t] ELSE taskPosition[t]]
  /\ UNCHANGED <<masterVars, orderVars, taskStatus, taskMachine>>

-----------------------------------------------------------------------------
OrderStep(o) ==
  \/ \E s \in Specs : CreateOrder(o, s)
  \/ \E s \in Specs, resets \in BOOLEAN : UpdateOrder(o, s, resets)
  \/ DeleteOrder(o)
  \/ \E t \in Tasks : MoveOrderToTask(o, t)
  \/ \E t \in Tasks, m \in Machines : MoveOrderToMachine(o, m, t)
  \/ MoveOrderToPending(o)

MasterStep ==
  \/ \E m \in Machines, c \in Configs : CreateMachine(m, c) \/ UpdateMachine(m, c)
  \/ \E m \in Machines : DeleteMachine(m)
  \/ \E p \in Products, c \in Categories : UpdateProduct(p, c)

TaskStep(t) ==
  \/ \E m \in Machines, S \in SUBSET Orders : CreateTask(t, m, S)
  \/ \E status \in TaskStatuses : UpdateTask(t, status)
  \/ DeleteTask(t)
  \/ \E m \in Machines : MoveTask(t, m)

Next ==
  \/ \E o \in Orders : OrderStep(o)
  \/ MasterStep
  \/ \E t \in Tasks : TaskStep(t)
  \/ \E m \in Machines : ReorderTasks(m)

Spec == Init /\ [][Next]_vars

-----------------------------------------------------------------------------
(* What the board promises *)

\* An order's stored status and the status of its task never contradict each
\* other, and an order never points to a task that is gone: a pending order is
\* in no task, a finished order is in a finished task, and every order of an
\* unfinished task is marked as scheduled (meta/GROUND_TRUTH.md section 4).
StatusAgreement ==
  \A o \in Orders :
    /\ orderStatus[o] \in {"ABSENT", "PENDING"} => orderTask[o] = NoTask
    /\ orderStatus[o] = "DONE" => orderTask[o] # NoTask
    /\ orderTask[o] # NoTask =>
         /\ taskStatus[orderTask[o]] # "ABSENT"
         /\ (orderStatus[o] = "DONE") <=> (taskStatus[orderTask[o]] = "DONE")

\* A machine works on at most one task, whatever sequence of starts,
\* withdrawals, restorations and moves of tasks led here.
OneRunningTask ==
  \A t, u \in Tasks :
    (taskStatus[t] = "PRODUCING" /\ taskStatus[u] = "PRODUCING"
       /\ taskMachine[t] = taskMachine[u]) => t = u

\* The order of a queue is never left to a tie: two unfinished tasks of a
\* machine have different positions, although positions are assigned by five
\* different rules (append, restore, renumber, insert, explicit reorder).
DistinctPositions ==
  \A m \in Machines : \A t, u \in Queue(m) : taskPosition[t] = taskPosition[u] => t = u

\* A PRODUCING order belongs to an unfinished task
\* (meta/GROUND_TRUTH.md line 87).  The move of a task's only order to another
\* task breaks it, see FlushedTask.
ProducingOrderHasTask ==
  \A o \in Orders : orderStatus[o] = "PRODUCING" => orderTask[o] # NoTask

\* Two unfinished tasks that stay on the same machine keep their relative
\* order in every step except a reorder, which only touches one machine, and a
\* move_task, which moves one task and no other: renumbering a queue is
\* invisible.
QueueOrderStable ==
  [][ \/ \E m \in Machines : ReorderTasks(m)
      \/ \E moved \in Tasks \cup {NoTask} : \A m \in Machines :
           \A t, u \in (Queue(m) \cap Queue(m)') \ {moved} :
             taskPosition[t] < taskPosition[u] => taskPosition'[t] < taskPosition'[u]
    ]_vars

\* Work that has started is frozen: while a task is PRODUCING or DONE it stays
\* on its machine with the same orders, none of which is edited.
StartedWorkFrozen ==
  [][ \A t \in Tasks :
        (taskStatus[t] \in {"PRODUCING", "DONE"} /\ taskStatus'[t] # "WAITING") =>
          /\ taskMachine'[t] = taskMachine[t]
          /\ OrdersOf(t)' = OrdersOf(t)
          /\ \A o \in OrdersOf(t) : orderSpec'[o] = orderSpec[o]
    ]_vars

\* Board operations keep every producible task producible: as long as the
\* machine's limits and the product categories stay as they are, a task that
\* its machine could produce can be produced after the step, unless it is gone.
\* In particular taking one order out of a merged task leaves a valid rest.
ProducibleStaysProducible ==
  [][ UNCHANGED masterVars =>
        \A t \in Tasks :
          (taskStatus[t] # "ABSENT" /\ taskStatus'[t] # "ABSENT"
             /\ ValidBatch(taskMachine[t], OrdersOf(t)))
            => ValidBatch(taskMachine[t], OrdersOf(t))'
    ]_vars
=============================================================================
