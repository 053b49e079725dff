----------------------- MODULE ProductionBoardProofs -----------------------
(***************************************************************************)
(* What holds of the production board, and of what the planner proposes on *)
(* it, for any number of orders, tasks and machines.                       *)
(***************************************************************************)
EXTENDS Planner, FiniteSetTheorems, WellFoundedInduction, TLAPS

-----------------------------------------------------------------------------
(* Lemmas on the operators that read and renumber queues *)

\* A rank is a natural number.
LEMMA RankType ==
  ASSUME NEW t, NEW Q, IsFiniteSet(Q), NEW pos
  PROVE  Rank(t, Q, pos) \in Nat
<1> DEFINE Before == {u \in Q : u = t \/ pos[u] < pos[t] \/ (pos[u] = pos[t] /\ u < t)}
<1>1. IsFiniteSet(Before)
  BY FS_Subset
<1>2. QED
  BY <1>1, FS_CardinalityType DEF Rank

\* Ranks follow the positions: of two members of a queue the one with the
\* smaller position has the smaller rank.
LEMMA RankMonotone ==
  ASSUME NEW Q, IsFiniteSet(Q), Q \subseteq Nat, NEW pos \in [Q -> Nat],
         NEW t \in Q, NEW u \in Q, pos[t] < pos[u]
  PROVE  Rank(t, Q, pos) < Rank(u, Q, pos)
<1> DEFINE Before(x) == {v \in Q : v = x \/ pos[v] < pos[x] \/ (pos[v] = pos[x] /\ v < x)}
<1>1. IsFiniteSet(Before(t)) /\ IsFiniteSet(Before(u))
  BY FS_Subset
<1>2. Before(t) \subseteq Before(u)
  <2>1. SUFFICES ASSUME NEW v \in Before(t)
                 PROVE  v = u \/ pos[v] < pos[u]
    OBVIOUS
  <2>2. pos[v] \in Nat /\ pos[t] \in Nat /\ pos[u] \in Nat
    OBVIOUS
  <2>3. QED
    BY <2>2
<1>3. u \in Before(u) /\ u \notin Before(t)
  OBVIOUS
<1>4. Cardinality(Before(t)) < Cardinality(Before(u))
  <2> HIDE DEF Before
  <2>1. Cardinality(Before(t)) \in Nat /\ Cardinality(Before(u)) \in Nat
    BY <1>1, FS_CardinalityType
  <2>2. Cardinality(Before(t)) <= Cardinality(Before(u)) /\ Before(t) # Before(u)
    BY <1>1, <1>2, <1>3, FS_Subset
  <2>3. Cardinality(Before(t)) # Cardinality(Before(u))
    BY <1>1, <1>2, <2>2, FS_Subset
  <2>4. QED
    BY <2>1, <2>2, <2>3
<1>5. QED
  BY <1>4 DEF Rank

\* Renumbering yields natural positions.
LEMMA NormalizedType ==
  ASSUME NEW status, NEW on, NEW pos \in [Tasks -> Nat], NEW ms
  PROVE  Normalized(status, on, pos, ms) \in [Tasks -> Nat]
<1>1. ASSUME NEW t \in Tasks
      PROVE  Rank(t, {u \in Tasks : status[u] \in Unfinished /\ on[u] = on[t]}, pos) \in Nat
  <2>1. IsFiniteSet({u \in Tasks : status[u] \in Unfinished /\ on[u] = on[t]})
    BY FS_Subset, BoardConstants
  <2>2. QED
    BY <2>1, RankType
<1>2. QED
  BY <1>1 DEF Normalized

\* Insertion yields natural positions.
LEMMA InsertedType ==
  ASSUME TypeOK, NEW t \in Tasks, NEW m \in Machines, NEW k \in Nat
  PROVE  Inserted(t, m, k) \in [Tasks -> Nat]
<1>1. ASSUME NEW u \in Tasks, NEW n
      PROVE  Rank(u, Queue(n) \ {t}, taskPosition) \in Nat
  <2>1. IsFiniteSet(Queue(n) \ {t})
    BY FS_Subset, BoardConstants DEF Queue
  <2>2. QED
    BY <2>1, RankType
<1>2. QED
  BY <1>1 DEF Inserted, TypeOK

-----------------------------------------------------------------------------
(* Types *)

LEMMA InitType == Init => TypeOK
BY DEF Init, TypeOK

LEMMA OrderStepType ==
  ASSUME TypeOK, NEW o \in Orders, OrderStep(o)
  PROVE  TypeOK'
<1>1. CASE \E s \in Specs : CreateOrder(o, s)
  BY <1>1 DEF TypeOK, CreateOrder, OrderStatuses, masterVars, taskVars
<1>2. CASE \E s \in Specs, resets \in BOOLEAN : UpdateOrder(o, s, resets)
  BY <1>2 DEF TypeOK, UpdateOrder, OrderStatuses, masterVars, taskVars
<1>3. CASE DeleteOrder(o)
  BY <1>3 DEF TypeOK, DeleteOrder, OrderStatuses, masterVars, taskVars
<1>4. CASE \E t \in Tasks : MoveOrderToTask(o, t)
  <2> PICK t \in Tasks : MoveOrderToTask(o, t)
    BY <1>4
  <2>1. taskPosition' \in [Tasks -> Nat]
    BY NormalizedType DEF MoveOrderToTask, TypeOK
  <2>2. FlushedTask(o, t) \in Tasks \cup {NoTask}
    BY DEF FlushedTask
  <2>3. QED
    BY <2>1, <2>2 DEF TypeOK, MoveOrderToTask, OrderStatuses, masterVars
<1>5. CASE \E t \in Tasks, m \in Machines : MoveOrderToMachine(o, m, t)
  <2> PICK t \in Tasks, m \in Machines : MoveOrderToMachine(o, m, t)
    BY <1>5
  <2>1. taskPosition' \in [Tasks -> Nat]
    <3> DEFINE pos(p) == [u \in Tasks |-> IF u = t THEN p
                                ELSE IF u \in Emptied(o) THEN 0 ELSE taskPosition[u]]
    <3>1. PICK p \in 1..MaxPosition :
            taskPosition' = Normalized(taskStatus', taskMachine', pos(p), SourceMachines(o) \cup {m})
      BY DEF MoveOrderToMachine
    <3>2. p \in Nat
      BY BoardConstants
    <3>3. pos(p) \in [Tasks -> Nat]
      BY <3>2 DEF TypeOK
    <3> HIDE DEF pos
    <3>4. QED
      BY <3>1, <3>3, NormalizedType
  <2>2. FlushedTask(o, t) \in Tasks \cup {NoTask}
    BY DEF FlushedTask
  <2>3. QED
    BY <2>1, <2>2 DEF TypeOK, MoveOrderToMachine, OrderStatuses, TaskStatuses, masterVars
<1>6. CASE MoveOrderToPending(o)
  <2>1. taskPosition' \in [Tasks -> Nat]
    BY <1>6, NormalizedType DEF MoveOrderToPending, TypeOK
  <2>2. QED
    BY <1>6, <2>1 DEF TypeOK, MoveOrderToPending, OrderStatuses, masterVars
<1>7. QED
  BY <1>1, <1>2, <1>3, <1>4, <1>5, <1>6 DEF OrderStep

LEMMA TaskStepType ==
  ASSUME TypeOK, NEW t \in Tasks, TaskStep(t)
  PROVE  TypeOK'
<1>1. CASE \E m \in Machines, S \in SUBSET Orders : CreateTask(t, m, S)
  BY <1>1 DEF TypeOK, CreateTask, OrderStatuses, TaskStatuses, masterVars
<1>2. CASE \E status \in TaskStatuses : UpdateTask(t, status)
  <2> PICK status \in TaskStatuses : UpdateTask(t, status)
    BY <1>2
  <2>1. taskPosition' \in [Tasks -> Nat]
    BY DEF UpdateTask, TypeOK
  <2>2. QED
    BY <2>1 DEF TypeOK, UpdateTask, OrderStatusOf, OrderStatuses, masterVars
<1>3. CASE DeleteTask(t)
  <2>1. taskPosition' \in [Tasks -> Nat]
    BY <1>3, NormalizedType DEF DeleteTask, TypeOK
  <2>2. QED
    BY <1>3, <2>1 DEF TypeOK, DeleteTask, OrderStatuses, masterVars
<1>4. CASE \E m \in Machines : MoveTask(t, m)
  <2> PICK m \in Machines : MoveTask(t, m)
    BY <1>4
  <2>1. Cardinality(Queue(m) \ {t}) \in Nat
    BY FS_Subset, FS_CardinalityType, BoardConstants DEF Queue
  <2>2. taskPosition' \in [Tasks -> Nat]
    BY <2>1, InsertedType DEF MoveTask
  <2>3. QED
    BY <2>2 DEF TypeOK, MoveTask, masterVars, orderVars
<1>5. QED
  BY <1>1, <1>2, <1>3, <1>4 DEF TaskStep

LEMMA MasterStepType ==
  ASSUME TypeOK, MasterStep
  PROVE  TypeOK'
<1>1. CASE \E m \in Machines, c \in Configs : CreateMachine(m, c) \/ UpdateMachine(m, c)
  BY <1>1 DEF TypeOK, CreateMachine, UpdateMachine, orderVars, taskVars
<1>2. CASE \E m \in Machines : DeleteMachine(m)
  BY <1>2 DEF TypeOK, DeleteMachine, orderVars, taskVars
<1>3. CASE \E p \in Products, c \in Categories : UpdateProduct(p, c)
  BY <1>3 DEF TypeOK, UpdateProduct, orderVars, taskVars
<1>4. QED
  BY <1>1, <1>2, <1>3 DEF MasterStep

LEMMA ReorderType ==
  ASSUME TypeOK, NEW m \in Machines, ReorderTasks(m)
  PROVE  TypeOK'
<1>1. Cardinality(Queue(m)) \in Nat
  BY FS_Subset, FS_CardinalityType, BoardConstants DEF Queue
<1>2. taskPosition' \in [Tasks -> Nat]
  BY <1>1 DEF ReorderTasks, TypeOK, Injection
<1>3. QED
  BY <1>2 DEF TypeOK, ReorderTasks, masterVars, orderVars

LEMMA StepType == TypeOK /\ [Next]_vars => TypeOK'
<1> SUFFICES ASSUME TypeOK, [Next]_vars
             PROVE  TypeOK'
  OBVIOUS
<1>1. CASE Next
  BY <1>1, OrderStepType, TaskStepType, MasterStepType, ReorderType DEF Next
<1>2. CASE UNCHANGED vars
  BY <1>2 DEF vars, masterVars, orderVars, taskVars, TypeOK
<1>3. QED
  BY <1>1, <1>2

\* Every reachable board is well typed; positions stay natural numbers through
\* renumbering, insertion and explicit reordering.
THEOREM TypeCorrect == Spec => []TypeOK
BY InitType, StepType, PTL DEF Spec

-----------------------------------------------------------------------------
(* Orders and tasks agree *)

\* The tasks a move empties held the moved order and nothing else.
LEMMA EmptiedFacts ==
  ASSUME TypeOK, NEW o \in Orders, NEW t \in Emptied(o)
  PROVE  /\ t \in Tasks
         /\ orderTask[o] = t
         /\ \A q \in Orders \ {o} : orderTask[q] # t
BY DEF Emptied, OrdersOf

\* The shape the three forms of move_order share: o gets a new status and task,
\* emptied tasks disappear, and at most the new task t appears.
LEMMA MoveKeepsAgreement ==
  ASSUME TypeOK, StatusAgreement, NEW o \in Orders, MayLeave(o), NEW dest, NEW status,
         orderStatus' = [orderStatus EXCEPT ![o] = status],
         orderTask' = [orderTask EXCEPT ![o] = dest],
         \/ dest = NoTask /\ status \in {"PENDING", "PRODUCING"}
         \/ dest \in Tasks /\ status = "PRODUCING" /\ taskStatus'[dest] = "WAITING",
         \A u \in Tasks : \/ u \in Emptied(o)
                          \/ taskStatus'[u] = taskStatus[u]
                          \/ taskStatus[u] = "ABSENT" /\ taskStatus'[u] = "WAITING"
  PROVE  StatusAgreement'
<1>1. SUFFICES ASSUME NEW q \in Orders
               PROVE  /\ orderStatus'[q] \in {"ABSENT", "PENDING"} => orderTask'[q] = NoTask
                      /\ orderStatus'[q] = "DONE" => orderTask'[q] # NoTask
                      /\ orderTask'[q] # NoTask =>
                           /\ taskStatus'[orderTask'[q]] # "ABSENT"
                           /\ (orderStatus'[q] = "DONE") <=> (taskStatus'[orderTask'[q]] = "DONE")
  BY DEF StatusAgreement
<1>2. CASE q = o
  BY <1>2 DEF TypeOK
<1>3. CASE q # o
  <2>1. orderStatus'[q] = orderStatus[q] /\ orderTask'[q] = orderTask[q]
    BY <1>3 DEF TypeOK
  <2>2. orderTask[q] \notin Emptied(o)
    BY <1>3, EmptiedFacts
  <2>3. orderTask[q] # NoTask => taskStatus'[orderTask[q]] = taskStatus[orderTask[q]]
    BY <2>2 DEF TypeOK, StatusAgreement
  <2>4. QED
    BY <2>1, <2>3 DEF StatusAgreement
<1>4. QED
  BY <1>2, <1>3

LEMMA OrderStepAgreement ==
  ASSUME TypeOK, StatusAgreement, NEW o \in Orders, OrderStep(o)
  PROVE  StatusAgreement'
<1>1. CASE \E s \in Specs : CreateOrder(o, s)
  BY <1>1 DEF TypeOK, StatusAgreement, CreateOrder, taskVars
<1>2. CASE \E s \in Specs, resets \in BOOLEAN : UpdateOrder(o, s, resets)
  BY <1>2 DEF TypeOK, StatusAgreement, UpdateOrder, Editable, taskVars
<1>3. CASE DeleteOrder(o)
  BY <1>3 DEF TypeOK, StatusAgreement, DeleteOrder, Editable, taskVars
<1>4. CASE \E t \in Tasks : MoveOrderToTask(o, t)
  <2> PICK t \in Tasks : MoveOrderToTask(o, t)
    BY <1>4
  <2>1. t \notin Emptied(o)
    BY EmptiedFacts DEF MoveOrderToTask
  <2>2. taskStatus'[t] = "WAITING"
    BY <2>1 DEF MoveOrderToTask
  <2>3. FlushedTask(o, t) \in {NoTask, t}
    BY DEF FlushedTask
  <2>4. \A u \in Tasks : u \in Emptied(o) \/ taskStatus'[u] = taskStatus[u]
    BY DEF MoveOrderToTask
  <2>5. QED
    BY <2>2, <2>3, <2>4, MoveKeepsAgreement DEF MoveOrderToTask
<1>5. CASE \E t \in Tasks, m \in Machines : MoveOrderToMachine(o, m, t)
  <2> PICK t \in Tasks, m \in Machines : MoveOrderToMachine(o, m, t)
    BY <1>5
  <2>1. taskStatus'[t] = "WAITING" /\ taskStatus[t] = "ABSENT"
    BY DEF MoveOrderToMachine
  <2>2. FlushedTask(o, t) \in {NoTask, t}
    BY DEF FlushedTask
  <2>3. \A u \in Tasks \ {t} : u \in Emptied(o) \/ taskStatus'[u] = taskStatus[u]
    BY DEF MoveOrderToMachine
  <2>4. ASSUME NEW u \in Tasks
        PROVE  \/ u \in Emptied(o)
               \/ taskStatus'[u] = taskStatus[u]
               \/ taskStatus[u] = "ABSENT" /\ taskStatus'[u] = "WAITING"
    BY <2>1, <2>3
  <2>5. MayLeave(o)
        /\ orderStatus' = [orderStatus EXCEPT ![o] = "PRODUCING"]
        /\ orderTask' = [orderTask EXCEPT ![o] = FlushedTask(o, t)]
    BY DEF MoveOrderToMachine
  <2>6. CASE FlushedTask(o, t) = NoTask
    BY <2>4, <2>5, <2>6, MoveKeepsAgreement
  <2>7. CASE FlushedTask(o, t) = t
    BY <2>1, <2>4, <2>5, <2>7, MoveKeepsAgreement
  <2>8. QED
    BY <2>2, <2>6, <2>7
<1>6. CASE MoveOrderToPending(o)
  <2>1. \A u \in Tasks : u \in Emptied(o) \/ taskStatus'[u] = taskStatus[u]
    BY <1>6 DEF MoveOrderToPending
  <2>2. QED
    BY <1>6, <2>1, MoveKeepsAgreement DEF MoveOrderToPending
<1>7. QED
  BY <1>1, <1>2, <1>3, <1>4, <1>5, <1>6 DEF OrderStep

LEMMA TaskStepAgreement ==
  ASSUME TypeOK, StatusAgreement, NEW t \in Tasks, TaskStep(t)
  PROVE  StatusAgreement'
<1>1. CASE \E m \in Machines, S \in SUBSET Orders : CreateTask(t, m, S)
  BY <1>1 DEF TypeOK, StatusAgreement, CreateTask
<1>2. CASE \E status \in TaskStatuses : UpdateTask(t, status)
  <2> PICK status \in TaskStatuses : UpdateTask(t, status)
    BY <1>2
  <2>1. status # "ABSENT"
    BY DEF TaskStatuses
  <2>2. OrderStatusOf(status) \in {"DONE", "PRODUCING"}
        /\ (OrderStatusOf(status) = "DONE" <=> status = "DONE")
    BY DEF OrderStatusOf
  <2>3. /\ taskStatus' = [taskStatus EXCEPT ![t] = status]
        /\ orderStatus' = [o \in Orders |->
             IF o \in OrdersOf(t) THEN OrderStatusOf(status) ELSE orderStatus[o]]
        /\ orderTask' = orderTask
        /\ taskStatus[t] # "ABSENT"
    BY DEF UpdateTask, AllowedMoves
  <2>4. QED
    <3> SUFFICES ASSUME NEW o \in Orders
                 PROVE  /\ orderStatus'[o] \in {"ABSENT", "PENDING"} => orderTask'[o] = NoTask
                        /\ orderStatus'[o] = "DONE" => orderTask'[o] # NoTask
                        /\ orderTask'[o] # NoTask =>
                             /\ taskStatus'[orderTask'[o]] # "ABSENT"
                             /\ (orderStatus'[o] = "DONE") <=> (taskStatus'[orderTask'[o]] = "DONE")
      BY DEF StatusAgreement
    <3>1. CASE o \in OrdersOf(t)
      <4>1. orderTask'[o] = t /\ orderStatus'[o] = OrderStatusOf(status) /\ taskStatus'[t] = status
        BY <2>3, <3>1 DEF OrdersOf, TypeOK
      <4>2. QED
        BY <2>1, <2>2, <4>1, BoardConstants
    <3>2. CASE o \notin OrdersOf(t)
      <4>1. /\ orderTask'[o] = orderTask[o] /\ orderStatus'[o] = orderStatus[o]
            /\ orderTask[o] # t
        BY <2>3, <3>2 DEF OrdersOf
      <4>2. orderTask[o] # NoTask => taskStatus'[orderTask[o]] = taskStatus[orderTask[o]]
        BY <2>3, <4>1 DEF TypeOK
      <4>3. QED
        BY <4>1, <4>2 DEF StatusAgreement
    <3>3. QED
      BY <3>1, <3>2
<1>3. CASE DeleteTask(t)
  BY <1>3 DEF TypeOK, StatusAgreement, DeleteTask, OrdersOf
<1>4. CASE \E m \in Machines : MoveTask(t, m)
  BY <1>4 DEF StatusAgreement, MoveTask, orderVars
<1>5. QED
  BY <1>1, <1>2, <1>3, <1>4 DEF TaskStep

LEMMA StepAgreement == TypeOK /\ StatusAgreement /\ [Next]_vars => StatusAgreement'
<1> SUFFICES ASSUME TypeOK, StatusAgreement, [Next]_vars
             PROVE  StatusAgreement'
  OBVIOUS
<1>1. CASE \E o \in Orders : OrderStep(o)
  BY <1>1, OrderStepAgreement
<1>2. CASE \E t \in Tasks : TaskStep(t)
  BY <1>2, TaskStepAgreement
<1>3. CASE MasterStep \/ (\E m \in Machines : ReorderTasks(m)) \/ UNCHANGED vars
  <2>1. UNCHANGED <<orderStatus, orderTask, taskStatus>>
    BY <1>3 DEF MasterStep, CreateMachine, UpdateMachine, DeleteMachine, UpdateProduct,
                ReorderTasks, vars, orderVars, taskVars
  <2>2. QED
    BY <2>1 DEF StatusAgreement
<1>4. QED
  BY <1>1, <1>2, <1>3 DEF Next

\* Order and task statuses never contradict each other and no order points to
\* a deleted task.
THEOREM StatusesAgree == Spec => []StatusAgreement
<1>1. Init => StatusAgreement
  BY DEF Init, StatusAgreement
<1>2. QED
  BY <1>1, StepAgreement, TypeCorrect, PTL DEF Spec

-----------------------------------------------------------------------------
(* Machines *)

\* A step that starts no task and moves no running task to another machine.
LEMMA NothingStarted ==
  ASSUME OneRunningTask,
         \A u \in Tasks : taskStatus'[u] = "PRODUCING" =>
            taskStatus[u] = "PRODUCING" /\ taskMachine'[u] = taskMachine[u]
  PROVE  OneRunningTask'
BY DEF OneRunningTask

LEMMA StepRunsOne == TypeOK /\ OneRunningTask /\ [Next]_vars => OneRunningTask'
<1> SUFFICES ASSUME TypeOK, OneRunningTask, [Next]_vars
             PROVE  OneRunningTask'
  OBVIOUS
<1>1. ASSUME NEW o \in Orders, OrderStep(o)
      PROVE  OneRunningTask'
  <2>1. CASE UNCHANGED <<taskStatus, taskMachine>>
    BY <2>1 DEF OneRunningTask
  <2>2. CASE \E t \in Tasks : MoveOrderToTask(o, t)
    BY <2>2, NothingStarted DEF MoveOrderToTask
  <2>3. CASE \E t \in Tasks, m \in Machines : MoveOrderToMachine(o, m, t)
    BY <2>3, NothingStarted DEF MoveOrderToMachine
  <2>4. CASE MoveOrderToPending(o)
    BY <2>4, NothingStarted DEF MoveOrderToPending
  <2>5. QED
    BY <1>1, <2>1, <2>2, <2>3, <2>4
    DEF OrderStep, CreateOrder, UpdateOrder, DeleteOrder, taskVars
<1>2. ASSUME NEW t \in Tasks, TaskStep(t)
      PROVE  OneRunningTask'
  <2>1. CASE \E m \in Machines, S \in SUBSET Orders : CreateTask(t, m, S)
    BY <2>1, NothingStarted DEF CreateTask, TypeOK
  <2>2. CASE \E status \in TaskStatuses : UpdateTask(t, status)
    <3> PICK status \in TaskStatuses : UpdateTask(t, status)
      BY <2>2
    <3>1. /\ taskStatus' = [taskStatus EXCEPT ![t] = status]
          /\ taskMachine' = taskMachine
          /\ status = "PRODUCING" => MayStart(t)
      BY DEF UpdateTask
    <3>2. CASE status = "PRODUCING"
      BY <3>1, <3>2 DEF OneRunningTask, MayStart, TypeOK
    <3>3. CASE status # "PRODUCING"
      BY <3>1, <3>3, NothingStarted DEF TypeOK
    <3>4. QED
      BY <3>2, <3>3
  <2>3. CASE DeleteTask(t)
    BY <2>3, NothingStarted DEF DeleteTask, TypeOK
  <2>4. CASE \E m \in Machines : MoveTask(t, m)
    BY <2>4, NothingStarted DEF MoveTask, TypeOK
  <2>5. QED
    BY <1>2, <2>1, <2>2, <2>3, <2>4 DEF TaskStep
<1>3. CASE MasterStep \/ (\E m \in Machines : ReorderTasks(m)) \/ UNCHANGED vars
  <2>1. UNCHANGED <<taskStatus, taskMachine>>
    BY <1>3 DEF MasterStep, CreateMachine, UpdateMachine, DeleteMachine, UpdateProduct,
                ReorderTasks, vars, orderVars, taskVars
  <2>2. QED
    BY <2>1 DEF OneRunningTask
<1>4. QED
  BY <1>1, <1>2, <1>3 DEF Next

\* No machine ever works on two tasks: only UpdateTask starts a task, after it
\* looked at every other task of the machine, and MoveTask moves waiting tasks.
THEOREM MachinesRunOneTask == Spec => []OneRunningTask
<1>1. Init => OneRunningTask
  BY DEF Init, OneRunningTask
<1>2. QED
  BY <1>1, StepRunsOne, TypeCorrect, PTL DEF Spec

-----------------------------------------------------------------------------
(* Positions decide the order of every queue.  The invariant is stated    *)
(* over all unfinished tasks, with the three columns that decide it as    *)
(* parameters, because the operations compute positions from columns they *)
(* are still changing.                                                    *)

\* Unfinished tasks on the same machine have different positions.
Separate(status, on, pos) ==
  \A t, u \in Tasks :
    (status[t] \in Unfinished /\ status[u] \in Unfinished /\ on[t] = on[u]
       /\ pos[t] = pos[u]) => t = u

Separated == Separate(taskStatus, taskMachine, taskPosition)

-----------------------------------------------------------------------------
\* Ranks follow the positions also when positions outside the queue are not
\* numbers.
LEMMA RankOrdered ==
  ASSUME NEW Q, IsFiniteSet(Q), Q \subseteq Nat, NEW pos, \A v \in Q : pos[v] \in Nat,
         NEW t \in Q, NEW u \in Q, pos[t] < pos[u]
  PROVE  Rank(t, Q, pos) < Rank(u, Q, pos)
<1> DEFINE at == [v \in Q |-> pos[v]]
<1>1. \A v \in Q : Rank(v, Q, pos) = Rank(v, Q, at)
  BY DEF Rank
<1>2. at \in [Q -> Nat] /\ at[t] < at[u]
  OBVIOUS
<1> HIDE DEF at
<1>3. Rank(t, Q, at) < Rank(u, Q, at)
  BY <1>2, RankMonotone
<1>4. QED
  BY <1>1, <1>3

\* Where positions are distinct, so are ranks.
LEMMA RankDistinct ==
  ASSUME NEW Q, IsFiniteSet(Q), Q \subseteq Nat, NEW pos, \A v \in Q : pos[v] \in Nat,
         NEW t \in Q, NEW u \in Q, pos[t] # pos[u]
  PROVE  Rank(t, Q, pos) # Rank(u, Q, pos)
<1>1. Rank(t, Q, pos) \in Nat /\ Rank(u, Q, pos) \in Nat
  BY RankType
<1>2. pos[t] < pos[u] \/ pos[u] < pos[t]
  <2>1. pos[t] \in Nat /\ pos[u] \in Nat
    OBVIOUS
  <2>2. QED
    BY <2>1
<1>3. CASE pos[t] < pos[u]
  <2>1. Rank(t, Q, pos) < Rank(u, Q, pos)
    BY <1>3, RankOrdered
  <2>2. QED
    BY <1>1, <2>1
<1>4. CASE pos[u] < pos[t]
  <2>1. Rank(u, Q, pos) < Rank(t, Q, pos)
    BY <1>4, RankOrdered
  <2>2. QED
    BY <1>1, <2>1
<1>5. QED
  BY <1>2, <1>3, <1>4

\* Renumbering some queues leaves every queue without ties.
LEMMA NormalizedSeparate ==
  ASSUME NEW status, NEW on, NEW pos \in [Tasks -> Nat], NEW ms, Separate(status, on, pos)
  PROVE  Separate(status, on, Normalized(status, on, pos, ms))
<1> DEFINE N == Normalized(status, on, pos, ms)
           Q(t) == {v \in Tasks : status[v] \in Unfinished /\ on[v] = on[t]}
<1> SUFFICES ASSUME NEW t \in Tasks, NEW u \in Tasks, t # u,
                    status[t] \in Unfinished, status[u] \in Unfinished, on[t] = on[u]
             PROVE  N[t] # N[u]
  BY DEF Separate
<1>1. pos[t] # pos[u]
  BY DEF Separate
<1>2. CASE on[t] \in ms
  <2>1. Q(t) = Q(u) /\ t \in Q(t) /\ u \in Q(t)
    OBVIOUS
  <2>2. IsFiniteSet(Q(t)) /\ Q(t) \subseteq Nat
    BY FS_Subset, BoardConstants
  <2>3. Rank(t, Q(t), pos) # Rank(u, Q(t), pos)
    <3>1. \A v \in Q(t) : pos[v] \in Nat
      OBVIOUS
    <3> HIDE DEF Q
    <3>2. QED
      BY <1>1, <2>1, <2>2, <3>1, RankDistinct
  <2>4. N[t] = Rank(t, Q(t), pos) /\ N[u] = Rank(u, Q(u), pos)
    BY <1>2 DEF Normalized
  <2>5. QED
    BY <2>1, <2>3, <2>4
<1>3. CASE on[t] \notin ms
  BY <1>1, <1>3 DEF Normalized
<1>4. QED
  BY <1>2, <1>3

\* Taking tasks out of the queues creates no tie.
LEMMA RemovalSeparate ==
  ASSUME Separated, NEW gone \in SUBSET Tasks,
         NEW status, NEW on, NEW pos,
         \A u \in gone : status[u] \notin Unfinished,
         \A u \in Tasks \ gone : status[u] = taskStatus[u] /\ on[u] = taskMachine[u]
                                   /\ pos[u] = taskPosition[u]
  PROVE  Separate(status, on, pos)
BY DEF Separated, Separate

\* A task appended to the queue of machine m, while tasks leave, creates no tie.
LEMMA AppendSeparate ==
  ASSUME TypeOK, Separated, NEW gone \in SUBSET Tasks, NEW t \in Tasks \ gone, NEW m,
         NEW p, FollowsQueue(p, m), NEW status, NEW on, NEW pos,
         \A u \in gone : status[u] \notin Unfinished,
         on[t] = m, pos[t] = p,
         \A u \in Tasks \ (gone \cup {t}) :
            status[u] = taskStatus[u] /\ on[u] = taskMachine[u] /\ pos[u] = taskPosition[u]
  PROVE  Separate(status, on, pos)
<1> SUFFICES ASSUME NEW u \in Tasks, u # t, u \notin gone,
                    status[u] \in Unfinished, on[u] = m
             PROVE  pos[u] # p
  BY DEF Separated, Separate
<1>1. u \in Queue(m)
  BY DEF Queue
<1>2. taskPosition[u] < p /\ taskPosition[u] \in Nat
  BY <1>1 DEF FollowsQueue, TypeOK
<1>3. QED
  BY <1>2

-----------------------------------------------------------------------------
(* The operations *)

\* The position of a task in the queue it stays in when t leaves or arrives.
LEMMA InsertedSeparate ==
  ASSUME TypeOK, Separated, NEW t \in Tasks, NEW m \in Machines,
         NEW k \in 0..Cardinality(Queue(m) \ {t}), MoveTask(t, m),
         taskPosition' = Inserted(t, m, k)
  PROVE  Separated'
<1> DEFINE rest == Queue(m) \ {t}
           left == Queue(taskMachine[t]) \ {t}
<1>1. IsFiniteSet(rest) /\ rest \subseteq Nat /\ rest \subseteq Tasks
      /\ IsFiniteSet(left) /\ left \subseteq Nat /\ left \subseteq Tasks
  BY FS_Subset, BoardConstants DEF Queue
<1>2. k \in Nat
  BY <1>1, FS_CardinalityType
<1>3. taskMachine' = [taskMachine EXCEPT ![t] = m] /\ taskStatus' = taskStatus
  BY DEF MoveTask
<1>4. ASSUME NEW v \in rest
      PROVE  Rank(v, rest, taskPosition) \in Nat
  BY <1>1, RankType
<1>5. ASSUME NEW v \in rest, NEW u \in rest, v # u
      PROVE  Rank(v, rest, taskPosition) # Rank(u, rest, taskPosition)
  <2>1. taskPosition[v] # taskPosition[u]
    BY <1>5 DEF Queue, Separated, Separate
  <2>2. \A x \in rest : taskPosition[x] \in Nat
    BY <1>1 DEF TypeOK
  <2> HIDE DEF rest
  <2>3. QED
    BY <1>1, <1>5, <2>1, <2>2, RankDistinct
<1>6. ASSUME NEW v \in left, NEW u \in left, v # u
      PROVE  Rank(v, left, taskPosition) # Rank(u, left, taskPosition)
  <2>1. taskPosition[v] # taskPosition[u]
    BY <1>6 DEF Queue, Separated, Separate
  <2>2. \A x \in left : taskPosition[x] \in Nat
    BY <1>1 DEF TypeOK
  <2> HIDE DEF left
  <2>3. QED
    BY <1>1, <1>6, <2>1, <2>2, RankDistinct
<1>7. /\ taskPosition'[t] = k + 1
      /\ \A u \in rest : taskPosition'[u] = IF Rank(u, rest, taskPosition) <= k
                                              THEN Rank(u, rest, taskPosition)
                                              ELSE Rank(u, rest, taskPosition) + 1
      /\ \A u \in left \ rest : taskPosition'[u] = Rank(u, left, taskPosition)
      /\ \A u \in Tasks \ (rest \cup left \cup {t}) : taskPosition'[u] = taskPosition[u]
  BY <1>1 DEF Inserted
<1> SUFFICES ASSUME NEW u \in Tasks, NEW v \in Tasks, u # v, u # t,
                    taskStatus'[u] \in Unfinished, taskStatus'[v] \in Unfinished,
                    taskMachine'[u] = taskMachine'[v]
             PROVE  taskPosition'[u] # taskPosition'[v]
  BY DEF Separated, Separate
<1>8. taskMachine'[u] = taskMachine[u]
  BY <1>3 DEF TypeOK
<1>9. CASE taskMachine[u] = m
  <2>1. u \in rest
    BY <1>3, <1>8, <1>9 DEF Queue
  <2>2. CASE v = t
    <3>1. Rank(u, rest, taskPosition) \in Nat
      BY <1>4, <2>1
    <3> HIDE DEF rest, left
    <3>2. QED
      BY <1>2, <1>7, <2>1, <2>2, <3>1
  <2>3. CASE v # t
    <3>1. v \in rest
      BY <1>3, <1>8, <1>9, <2>3 DEF Queue, TypeOK
    <3>2. Rank(u, rest, taskPosition) # Rank(v, rest, taskPosition)
      BY <1>5, <2>1, <3>1
    <3>3. Rank(u, rest, taskPosition) \in Nat /\ Rank(v, rest, taskPosition) \in Nat
      BY <1>4, <2>1, <3>1
    <3> HIDE DEF rest, left
    <3>4. QED
      BY <1>2, <1>7, <2>1, <3>1, <3>2, <3>3
  <2>4. QED
    BY <2>2, <2>3
<1>10. CASE taskMachine[u] # m
  <2>1. v # t /\ taskMachine[v] = taskMachine[u] /\ u \notin rest /\ v \notin rest
    BY <1>3, <1>8, <1>10 DEF TypeOK, Queue
  <2>2. CASE taskMachine[u] = taskMachine[t]
    <3>1. u \in left \ rest /\ v \in left \ rest
      BY <1>3, <2>1, <2>2 DEF Queue
    <3>2. QED
      BY <1>6, <1>7, <3>1
  <2>3. CASE taskMachine[u] # taskMachine[t]
    <3>1. u \notin left /\ v \notin left
      BY <2>1, <2>3 DEF Queue
    <3>2. taskPosition'[u] = taskPosition[u] /\ taskPosition'[v] = taskPosition[v]
      BY <1>7, <2>1, <3>1
    <3>3. QED
      BY <1>3, <2>1, <3>2 DEF Separated, Separate
  <2>4. QED
    BY <2>2, <2>3
<1>11. QED
  BY <1>9, <1>10

\* What the three forms of move_order do to the tasks they empty.
LEMMA EmptiedLeave ==
  ASSUME TypeOK, NEW o \in Orders, MayLeave(o)
  PROVE  /\ Emptied(o) \in SUBSET Tasks
         /\ \A u \in Emptied(o) : taskStatus[u] = "WAITING"
<1>1. \A u \in Emptied(o) : u \in Tasks /\ u = orderTask[o]
  BY DEF Emptied, OrdersOf
<1>2. QED
  BY <1>1, BoardConstants DEF MayLeave

\* The two forms of move_order that create no task.
LEMMA EmptyingSeparate ==
  ASSUME TypeOK, Separated, NEW o \in Orders, MayLeave(o),
         taskStatus' = [u \in Tasks |-> IF u \in Emptied(o) THEN "ABSENT" ELSE taskStatus[u]],
         taskMachine' = [u \in Tasks |-> IF u \in Emptied(o) THEN NoMachine ELSE taskMachine[u]],
         taskPosition' =
           Normalized(taskStatus', taskMachine',
                      [u \in Tasks |-> IF u \in Emptied(o) THEN 0 ELSE taskPosition[u]],
                      SourceMachines(o))
  PROVE  Separated'
<1> DEFINE pos == [u \in Tasks |-> IF u \in Emptied(o) THEN 0 ELSE taskPosition[u]]
<1>1. pos \in [Tasks -> Nat]
  BY DEF TypeOK
<1>2. /\ \A u \in Emptied(o) : taskStatus'[u] \notin Unfinished
      /\ \A u \in Tasks \ Emptied(o) : /\ taskStatus'[u] = taskStatus[u]
                                       /\ taskMachine'[u] = taskMachine[u]
                                       /\ pos[u] = taskPosition[u]
  BY EmptiedLeave DEF Unfinished
<1> HIDE DEF pos
<1>3. Separate(taskStatus', taskMachine', pos)
  BY <1>2, EmptiedLeave, RemovalSeparate
<1>4. taskPosition' = Normalized(taskStatus', taskMachine', pos, SourceMachines(o))
  BY DEF pos
<1>5. QED
  BY <1>1, <1>3, <1>4, NormalizedSeparate DEF Separated

LEMMA OrderStepSeparate ==
  ASSUME TypeOK, Separated, NEW o \in Orders, OrderStep(o)
  PROVE  Separated'
<1>1. CASE UNCHANGED taskVars
  BY <1>1 DEF Separated, Separate, taskVars
<1>2. CASE \E t \in Tasks : MoveOrderToTask(o, t)
  BY <1>2, EmptyingSeparate DEF MoveOrderToTask
<1>3. CASE MoveOrderToPending(o)
  BY <1>3, EmptyingSeparate DEF MoveOrderToPending
<1>4. CASE \E t \in Tasks, m \in Machines : MoveOrderToMachine(o, m, t)
  <2> PICK t \in Tasks, m \in Machines : MoveOrderToMachine(o, m, t)
    BY <1>4
  <2> DEFINE pos(p) == [u \in Tasks |-> IF u = t THEN p
                              ELSE IF u \in Emptied(o) THEN 0 ELSE taskPosition[u]]
  <2>1. PICK p \in 1..MaxPosition :
          /\ FollowsQueue(p, m)
          /\ taskPosition' = Normalized(taskStatus', taskMachine', pos(p),
                                        SourceMachines(o) \cup {m})
    BY DEF MoveOrderToMachine
  <2>2. p \in Nat
    BY BoardConstants
  <2>3. pos(p) \in [Tasks -> Nat]
    BY <2>2 DEF TypeOK
  <2>4. MayLeave(o) /\ taskStatus[t] = "ABSENT"
    BY DEF MoveOrderToMachine
  <2>5. Emptied(o) \in SUBSET Tasks /\ t \in Tasks \ Emptied(o)
    BY <2>4, EmptiedLeave
  <2>6. /\ \A u \in Emptied(o) : taskStatus'[u] \notin Unfinished
        /\ taskMachine'[t] = m /\ pos(p)[t] = p
        /\ \A u \in Tasks \ (Emptied(o) \cup {t}) :
             /\ taskStatus'[u] = taskStatus[u]
             /\ taskMachine'[u] = taskMachine[u]
             /\ pos(p)[u] = taskPosition[u]
    BY <2>5 DEF MoveOrderToMachine, Unfinished
  <2> HIDE DEF pos
  <2>7. Separate(taskStatus', taskMachine', pos(p))
    BY <2>1, <2>5, <2>6, AppendSeparate
  <2>8. QED
    BY <2>1, <2>3, <2>7, NormalizedSeparate DEF Separated
<1>5. QED
  BY <1>1, <1>2, <1>3, <1>4 DEF OrderStep, CreateOrder, UpdateOrder, DeleteOrder

LEMMA TaskStepSeparate ==
  ASSUME TypeOK, Separated, NEW t \in Tasks, TaskStep(t)
  PROVE  Separated'
<1>1. CASE \E m \in Machines, S \in SUBSET Orders : CreateTask(t, m, S)
  <2> PICK m \in Machines, S \in SUBSET Orders : CreateTask(t, m, S)
    BY <1>1
  <2>1. PICK p \in 1..MaxPosition :
          FollowsQueue(p, m) /\ taskPosition' = [taskPosition EXCEPT ![t] = p]
    BY DEF CreateTask
  <2>2. /\ taskMachine'[t] = m /\ taskPosition'[t] = p
        /\ \A u \in Tasks \ {t} : /\ taskStatus'[u] = taskStatus[u]
                                  /\ taskMachine'[u] = taskMachine[u]
                                  /\ taskPosition'[u] = taskPosition[u]
    BY <2>1 DEF CreateTask, TypeOK
  <2>3. Separate(taskStatus', taskMachine', taskPosition')
    <3>1. {} \in SUBSET Tasks /\ t \in Tasks \ {} /\ {} \cup {t} = {t}
      OBVIOUS
    <3>2. QED
      BY <2>1, <2>2, <3>1, AppendSeparate
  <2>4. QED
    BY <2>3 DEF Separated
<1>2. CASE \E status \in TaskStatuses : UpdateTask(t, status)
  <2> PICK status \in TaskStatuses : UpdateTask(t, status)
    BY <1>2
  <2>1. /\ taskStatus' = [taskStatus EXCEPT ![t] = status]
        /\ taskMachine' = taskMachine
    BY DEF UpdateTask
  <2>2. CASE taskStatus[t] = "DONE"
    <3>1. PICK p \in 1..MaxPosition :
            FollowsQueue(p, taskMachine[t]) /\ taskPosition' = [taskPosition EXCEPT ![t] = p]
      BY <2>2 DEF UpdateTask
    <3>2. /\ taskMachine'[t] = taskMachine[t] /\ taskPosition'[t] = p
          /\ \A u \in Tasks \ {t} : /\ taskStatus'[u] = taskStatus[u]
                                    /\ taskMachine'[u] = taskMachine[u]
                                    /\ taskPosition'[u] = taskPosition[u]
      BY <2>1, <3>1 DEF TypeOK
    <3>3. {} \in SUBSET Tasks /\ t \in Tasks \ {} /\ {} \cup {t} = {t}
      OBVIOUS
    <3>4. Separate(taskStatus', taskMachine', taskPosition')
      BY <3>1, <3>2, <3>3, AppendSeparate
    <3>5. QED
      BY <3>4 DEF Separated
  <2>3. CASE taskStatus[t] # "DONE"
    <3>1. taskPosition' = taskPosition /\ taskStatus[t] \in Unfinished
      BY <2>3 DEF UpdateTask, AllowedMoves, Unfinished
    <3>2. \A u \in Tasks : taskStatus'[u] \in Unfinished => taskStatus[u] \in Unfinished
      BY <2>1, <3>1 DEF TypeOK
    <3>3. QED
      BY <2>1, <3>1, <3>2 DEF Separated, Separate
  <2>4. QED
    BY <2>2, <2>3
<1>3. CASE DeleteTask(t)
  <2> DEFINE pos == [taskPosition EXCEPT ![t] = 0]
  <2>1. pos \in [Tasks -> Nat]
    BY DEF TypeOK
  <2>2. /\ \A u \in {t} : taskStatus'[u] \notin Unfinished
        /\ \A u \in Tasks \ {t} : /\ taskStatus'[u] = taskStatus[u]
                                  /\ taskMachine'[u] = taskMachine[u]
                                  /\ pos[u] = taskPosition[u]
    BY <1>3 DEF DeleteTask, TypeOK, Unfinished
  <2>3. taskPosition' = Normalized(taskStatus', taskMachine', pos, {taskMachine[t]})
    BY <1>3 DEF DeleteTask
  <2>4. {t} \in SUBSET Tasks
    OBVIOUS
  <2> HIDE DEF pos
  <2>5. Separate(taskStatus', taskMachine', pos)
    BY <2>2, <2>4, RemovalSeparate
  <2>6. QED
    BY <2>1, <2>3, <2>5, NormalizedSeparate DEF Separated
<1>4. CASE \E m \in Machines : MoveTask(t, m)
  <2> PICK m \in Machines : MoveTask(t, m)
    BY <1>4
  <2>1. PICK k \in 0..Cardinality(Queue(m) \ {t}) : taskPosition' = Inserted(t, m, k)
    BY DEF MoveTask
  <2>2. QED
    BY <2>1, InsertedSeparate
<1>5. QED
  BY <1>1, <1>2, <1>3, <1>4 DEF TaskStep

\* An explicit reorder assigns positions one to one.
LEMMA ReorderSeparate ==
  ASSUME TypeOK, Separated, NEW m \in Machines, ReorderTasks(m)
  PROVE  Separated'
<1>1. PICK f \in Injection(Queue(m), 1..Cardinality(Queue(m))) :
        taskPosition' = [t \in Tasks |-> IF t \in Queue(m) THEN f[t] ELSE taskPosition[t]]
  BY DEF ReorderTasks
<1>2. taskStatus' = taskStatus /\ taskMachine' = taskMachine
  BY DEF ReorderTasks
<1>3. \A t, u \in Queue(m) : f[t] = f[u] => t = u
  BY DEF Injection, IsInjective
<1> SUFFICES ASSUME NEW t \in Tasks, NEW u \in Tasks, t # u,
                    taskStatus[t] \in Unfinished, taskStatus[u] \in Unfinished,
                    taskMachine[t] = taskMachine[u]
             PROVE  taskPosition'[t] # taskPosition'[u]
  BY <1>2 DEF Separated, Separate
<1>4. CASE taskMachine[t] = m
  BY <1>1, <1>3, <1>4 DEF Queue
<1>5. CASE taskMachine[t] # m
  BY <1>1, <1>5 DEF Queue, Separated, Separate
<1>6. QED
  BY <1>4, <1>5

LEMMA StepSeparate == TypeOK /\ Separated /\ [Next]_vars => Separated'
<1> SUFFICES ASSUME TypeOK, Separated, [Next]_vars
             PROVE  Separated'
  OBVIOUS
<1>1. CASE MasterStep \/ UNCHANGED vars
  <2>1. UNCHANGED taskVars
    BY <1>1 DEF MasterStep, CreateMachine, UpdateMachine, DeleteMachine, UpdateProduct, vars
  <2>2. QED
    BY <2>1 DEF Separated, Separate, taskVars
<1>2. QED
  BY <1>1, OrderStepSeparate, TaskStepSeparate, ReorderSeparate DEF Next

\* No queue is ever left to a tie: of two unfinished tasks of a machine one
\* comes first, through appending, restoring, renumbering, inserting and
\* reordering.
THEOREM QueuesHaveNoTies == Spec => []DistinctPositions
<1>1. Init => Separated
  BY DEF Init, Separated, Separate, Unfinished
<1>2. Separated => DistinctPositions
  BY DEF Separated, Separate, DistinctPositions, Queue
<1>3. QED
  BY <1>1, <1>2, StepSeparate, TypeCorrect, PTL DEF Spec

-----------------------------------------------------------------------------
(* Steps and the orders of a task *)

\* An order that comes from outside a task and goes elsewhere leaves the
\* orders of the task alone.
LEMMA OthersKeepOrders ==
  ASSUME TypeOK, NEW t \in Tasks, NEW o \in Orders, NEW dest,
         orderTask' = [orderTask EXCEPT ![o] = dest], orderTask[o] # t, dest # t
  PROVE  OrdersOf(t)' = OrdersOf(t)
BY DEF OrdersOf, TypeOK

\* The three forms of move_order take the order from a waiting task or from
\* the pending list, and put it into a waiting task, a new one, or none.
LEMMA MoveFacts ==
  ASSUME TypeOK, NEW o \in Orders,
         \/ \E t \in Tasks : MoveOrderToTask(o, t)
         \/ \E t \in Tasks, m \in Machines : MoveOrderToMachine(o, m, t)
         \/ MoveOrderToPending(o)
  PROVE  /\ MayLeave(o)
         /\ orderTask[o] # NoTask => taskStatus[orderTask[o]] = "WAITING"
         /\ orderSpec' = orderSpec /\ masterVars' = masterVars
         /\ \E dest \in Tasks \cup {NoTask} :
              /\ orderTask' = [orderTask EXCEPT ![o] = dest]
              /\ dest # NoTask => taskStatus[dest] \in {"WAITING", "ABSENT"}
              /\ dest # NoTask /\ taskStatus[dest] # "ABSENT" =>
                   ValidBatch(taskMachine[dest], OrdersOf(dest) \cup {o})
         /\ \A u \in Emptied(o) : taskStatus'[u] = "ABSENT" \/ taskStatus[u] = "ABSENT"
         /\ \A u \in Tasks \ Emptied(o) :
              taskStatus[u] # "ABSENT" => taskMachine'[u] = taskMachine[u]
<1>1. MayLeave(o) => (orderTask[o] # NoTask => taskStatus[orderTask[o]] = "WAITING")
  BY DEF MayLeave
<1>2. CASE \E t \in Tasks : MoveOrderToTask(o, t)
  <2> PICK t \in Tasks : MoveOrderToTask(o, t)
    BY <1>2
  <2>1. FlushedTask(o, t) \in {t, NoTask}
    BY DEF FlushedTask
  <2>2. taskStatus[t] = "WAITING" /\ ValidBatch(taskMachine[t], OrdersOf(t) \cup {o})
    BY DEF MoveOrderToTask
  <2>3. \A u \in Tasks \ Emptied(o) : taskMachine'[u] = taskMachine[u]
                                        /\ taskStatus'[u] = taskStatus[u]
    BY DEF MoveOrderToTask
  <2>4. Emptied(o) \subseteq Tasks
    BY DEF Emptied
  <2>5. \A u \in Emptied(o) : taskStatus'[u] = "ABSENT"
    BY <2>4 DEF MoveOrderToTask
  <2>6. /\ MayLeave(o) /\ orderSpec' = orderSpec /\ masterVars' = masterVars
        /\ orderTask' = [orderTask EXCEPT ![o] = FlushedTask(o, t)]
    BY DEF MoveOrderToTask
  <2>7. QED
    BY <1>1, <2>1, <2>2, <2>3, <2>5, <2>6
<1>3. CASE \E t \in Tasks, m \in Machines : MoveOrderToMachine(o, m, t)
  <2> PICK t \in Tasks, m \in Machines : MoveOrderToMachine(o, m, t)
    BY <1>3
  <2>1. FlushedTask(o, t) \in {t, NoTask}
    BY DEF FlushedTask
  <2>2. taskStatus[t] = "ABSENT"
    BY DEF MoveOrderToMachine
  <2>3. \A u \in Tasks \ (Emptied(o) \cup {t}) :
          taskMachine'[u] = taskMachine[u] /\ taskStatus'[u] = taskStatus[u]
    BY DEF MoveOrderToMachine
  <2>4. Emptied(o) \subseteq Tasks
    BY DEF Emptied
  <2>5. \A u \in Emptied(o) : taskStatus'[u] = "ABSENT" \/ u = t
    BY <2>4 DEF MoveOrderToMachine
  <2>6. /\ MayLeave(o) /\ orderSpec' = orderSpec /\ masterVars' = masterVars
        /\ orderTask' = [orderTask EXCEPT ![o] = FlushedTask(o, t)]
    BY DEF MoveOrderToMachine
  <2>7. QED
    BY <1>1, <2>1, <2>2, <2>3, <2>5, <2>6
<1>4. CASE MoveOrderToPending(o)
  <2>1. \A u \in Tasks \ Emptied(o) : taskMachine'[u] = taskMachine[u]
                                        /\ taskStatus'[u] = taskStatus[u]
    BY <1>4 DEF MoveOrderToPending
  <2>2. Emptied(o) \subseteq Tasks
    BY DEF Emptied
  <2>3. \A u \in Emptied(o) : taskStatus'[u] = "ABSENT"
    BY <1>4, <2>2 DEF MoveOrderToPending
  <2>4. /\ MayLeave(o) /\ orderSpec' = orderSpec /\ masterVars' = masterVars
        /\ orderTask' = [orderTask EXCEPT ![o] = NoTask]
    BY <1>4 DEF MoveOrderToPending
  <2>5. QED
    BY <1>1, <2>1, <2>3, <2>4
<1>5. QED
  BY <1>2, <1>3, <1>4

-----------------------------------------------------------------------------
(* Started work *)

\* A task that has started keeps its machine and its orders in a step that
\* takes no order from it, gives it none, and edits none of its orders.
Untouched(t) ==
  /\ taskMachine'[t] = taskMachine[t]
  /\ OrdersOf(t)' = OrdersOf(t)
  /\ \A o \in OrdersOf(t) : orderSpec'[o] = orderSpec[o]

\* Moving an order touches no started task.
LEMMA MoveLeavesStarted ==
  ASSUME TypeOK, NEW o \in Orders,
         \/ \E t \in Tasks : MoveOrderToTask(o, t)
         \/ \E t \in Tasks, m \in Machines : MoveOrderToMachine(o, m, t)
         \/ MoveOrderToPending(o),
         NEW t \in Tasks, taskStatus[t] \in {"PRODUCING", "DONE"}
  PROVE  Untouched(t)
<1>1. PICK dest \in Tasks \cup {NoTask} :
        /\ orderTask' = [orderTask EXCEPT ![o] = dest]
        /\ dest # NoTask => taskStatus[dest] \in {"WAITING", "ABSENT"}
  BY MoveFacts
<1>2. t # NoTask
  BY BoardConstants
<1>3. orderTask[o] # t /\ dest # t
  BY <1>1, <1>2, MoveFacts
<1>4. OrdersOf(t)' = OrdersOf(t)
  BY <1>1, <1>3, OthersKeepOrders
<1>5. t \notin Emptied(o)
  BY <1>3, EmptiedFacts
<1>6. taskMachine'[t] = taskMachine[t] /\ orderSpec' = orderSpec
  BY <1>5, MoveFacts
<1>7. QED
  BY <1>4, <1>6 DEF Untouched

\* Entering, editing or deleting an order touches no task at all.
LEMMA EditLeavesTasks ==
  ASSUME TypeOK, StatusAgreement, NEW o \in Orders,
         \/ \E s \in Specs : CreateOrder(o, s)
         \/ \E s \in Specs, resets \in BOOLEAN : UpdateOrder(o, s, resets)
         \/ DeleteOrder(o),
         NEW t \in Tasks
  PROVE  Untouched(t)
<1>1. orderTask' = orderTask /\ taskMachine' = taskMachine /\ orderTask[o] = NoTask
  BY DEF CreateOrder, UpdateOrder, DeleteOrder, Editable, taskVars, StatusAgreement
<1>2. \A q \in Orders \ {o} : orderSpec'[q] = orderSpec[q]
  BY DEF CreateOrder, UpdateOrder, DeleteOrder, TypeOK
<1>3. o \notin OrdersOf(t)
  BY <1>1, BoardConstants DEF OrdersOf
<1>4. OrdersOf(t)' = OrdersOf(t) /\ OrdersOf(t) \subseteq Orders
  BY <1>1 DEF OrdersOf
<1>5. QED
  BY <1>1, <1>2, <1>3, <1>4 DEF Untouched

\* An operation on task u changes the orders of no task but u, and those of u
\* only when it creates or deletes it.
LEMMA TaskStepOrders ==
  ASSUME TypeOK, NEW u \in Tasks, TaskStep(u), NEW t \in Tasks,
         taskStatus[t] # "ABSENT", t = u => taskStatus'[t] # "ABSENT"
  PROVE  OrdersOf(t)' = OrdersOf(t) /\ orderSpec' = orderSpec
<1>1. CASE \E m \in Machines, S \in SUBSET Orders : CreateTask(u, m, S)
  <2> PICK m \in Machines, S \in SUBSET Orders : CreateTask(u, m, S)
    BY <1>1
  <2>1. t # u /\ \A o \in S : orderTask[o] = NoTask
    BY DEF CreateTask
  <2>2. \A o \in Orders : orderTask'[o] = t <=> orderTask[o] = t
    BY <2>1, BoardConstants DEF CreateTask
  <2>3. QED
    BY <2>2 DEF OrdersOf, CreateTask
<1>2. CASE \E status \in TaskStatuses : UpdateTask(u, status)
  BY <1>2 DEF UpdateTask, OrdersOf
<1>3. CASE DeleteTask(u)
  <2>1. t # u
    BY <1>3 DEF DeleteTask, TypeOK
  <2>2. \A o \in Orders : orderTask'[o] = t <=> orderTask[o] = t
    BY <1>3, <2>1, BoardConstants DEF DeleteTask, OrdersOf
  <2>3. QED
    BY <1>3, <2>2 DEF OrdersOf, DeleteTask
<1>4. CASE \E m \in Machines : MoveTask(u, m)
  BY <1>4 DEF MoveTask, OrdersOf, orderVars
<1>5. QED
  BY <1>1, <1>2, <1>3, <1>4 DEF TaskStep

\* A task operation touches no started task.
LEMMA TaskStepLeavesStarted ==
  ASSUME TypeOK, NEW u \in Tasks, TaskStep(u),
         NEW t \in Tasks, taskStatus[t] \in {"PRODUCING", "DONE"}
  PROVE  Untouched(t)
<1>1. taskMachine'[t] = taskMachine[t] /\ taskStatus'[t] # "ABSENT"
  <2>1. CASE \E m \in Machines, S \in SUBSET Orders : CreateTask(u, m, S)
    BY <2>1 DEF CreateTask, TypeOK
  <2>2. CASE \E status \in TaskStatuses : UpdateTask(u, status)
    BY <2>2 DEF UpdateTask, TypeOK, TaskStatuses
  <2>3. CASE DeleteTask(u)
    BY <2>3 DEF DeleteTask, TypeOK
  <2>4. CASE \E m \in Machines : MoveTask(u, m)
    BY <2>4 DEF MoveTask, TypeOK
  <2>5. QED
    BY <2>1, <2>2, <2>3, <2>4 DEF TaskStep
<1>2. OrdersOf(t)' = OrdersOf(t) /\ orderSpec' = orderSpec
  BY <1>1, TaskStepOrders
<1>3. QED
  BY <1>1, <1>2 DEF Untouched

\* Master data and reorders touch no task's orders.
LEMMA ElseUntouched ==
  ASSUME MasterStep \/ (\E m \in Machines : ReorderTasks(m)) \/ UNCHANGED vars,
         NEW t \in Tasks
  PROVE  Untouched(t)
<1>1. UNCHANGED <<orderTask, orderSpec, taskMachine>>
  BY DEF MasterStep, CreateMachine, UpdateMachine, DeleteMachine, UpdateProduct,
         ReorderTasks, vars, orderVars, taskVars
<1>2. QED
  BY <1>1 DEF Untouched, OrdersOf

\* No step touches a started task.
LEMMA StepLeavesStarted ==
  ASSUME TypeOK, StatusAgreement, [Next]_vars,
         NEW t \in Tasks, taskStatus[t] \in {"PRODUCING", "DONE"}
  PROVE  Untouched(t)
<1>1. ASSUME NEW o \in Orders, OrderStep(o)
      PROVE  Untouched(t)
  <2>1. CASE \/ \E s \in Specs : CreateOrder(o, s)
             \/ \E s \in Specs, resets \in BOOLEAN : UpdateOrder(o, s, resets)
             \/ DeleteOrder(o)
    BY <2>1, EditLeavesTasks
  <2>2. CASE \/ \E u \in Tasks : MoveOrderToTask(o, u)
             \/ \E u \in Tasks, m \in Machines : MoveOrderToMachine(o, m, u)
             \/ MoveOrderToPending(o)
    BY <2>2, MoveLeavesStarted
  <2>3. QED
    BY <1>1, <2>1, <2>2 DEF OrderStep
<1>2. QED
  BY <1>1, TaskStepLeavesStarted, ElseUntouched DEF Next

\* Work that has started is frozen: a PRODUCING or DONE task keeps its machine
\* and its orders, and no order of it is edited, until it is withdrawn.
THEOREM StartedWorkIsFrozen == Spec => StartedWorkFrozen
<1>1. TypeOK /\ StatusAgreement /\ [Next]_vars =>
        [ \A t \in Tasks :
            (taskStatus[t] \in {"PRODUCING", "DONE"} /\ taskStatus'[t] # "WAITING") =>
              /\ taskMachine'[t] = taskMachine[t]
              /\ OrdersOf(t)' = OrdersOf(t)
              /\ \A o \in OrdersOf(t) : orderSpec'[o] = orderSpec[o] ]_vars
  BY StepLeavesStarted DEF Untouched
<1>2. QED
  BY <1>1, TypeCorrect, StatusesAgree, PTL DEF Spec, StartedWorkFrozen

-----------------------------------------------------------------------------
(* Producible tasks *)

\* Whether a machine may produce a set of orders depends on the master data
\* and on what those orders ask for, and on nothing else.
LEMMA BatchCarries ==
  ASSUME UNCHANGED masterVars, NEW CONSTANT m, NEW CONSTANT S,
         \A o \in S : orderSpec'[o] = orderSpec[o],
         ValidBatch(m, S)
  PROVE  ValidBatch(m, S)'
<1>1. machine' = machine /\ category' = category
  BY DEF masterVars
<1>2. [o \in S |-> orderSpec'[o].width] = [o \in S |-> orderSpec[o].width]
  OBVIOUS
<1>3. TotalWidth(S)' = TotalWidth(S)
  BY <1>2 DEF TotalWidth
<1>4. Mergeable(S)' <=> Mergeable(S)
  BY <1>1 DEF Mergeable, Signature
<1>5. QED
  BY <1>1, <1>3, <1>4 DEF ValidBatch

\* A task whose orders after the step are S may be produced after the step if
\* its machine may produce S now.
LEMMA BatchOfTask ==
  ASSUME UNCHANGED masterVars, NEW CONSTANT t, NEW CONSTANT m, NEW CONSTANT S,
         taskMachine'[t] = m, OrdersOf(t)' = S,
         \A o \in S : orderSpec'[o] = orderSpec[o],
         ValidBatch(m, S)
  PROVE  ValidBatch(taskMachine[t], OrdersOf(t))'
BY BatchCarries

\* move_order leaves a valid rest and fills the target to a valid batch.
LEMMA MoveKeepsProducible ==
  ASSUME TypeOK, NEW o \in Orders,
         \/ \E t \in Tasks : MoveOrderToTask(o, t)
         \/ \E t \in Tasks, m \in Machines : MoveOrderToMachine(o, m, t)
         \/ MoveOrderToPending(o),
         NEW CONSTANT t \in Tasks, taskStatus[t] # "ABSENT", taskStatus'[t] # "ABSENT",
         ValidBatch(taskMachine[t], OrdersOf(t))
  PROVE  ValidBatch(taskMachine[t], OrdersOf(t))'
<1>1. PICK dest \in Tasks \cup {NoTask} :
        /\ orderTask' = [orderTask EXCEPT ![o] = dest]
        /\ dest # NoTask /\ taskStatus[dest] # "ABSENT" =>
             ValidBatch(taskMachine[dest], OrdersOf(dest) \cup {o})
  BY MoveFacts
<1>2. MayLeave(o) /\ UNCHANGED masterVars /\ orderSpec' = orderSpec
  BY MoveFacts
<1>3. t # NoTask
  BY BoardConstants
<1>4. t \notin Emptied(o)
  BY MoveFacts
<1>5. taskMachine'[t] = taskMachine[t]
  BY <1>4, MoveFacts
<1>6. CASE dest = t
  <2>1. OrdersOf(t)' = OrdersOf(t) \cup {o}
    BY <1>1, <1>6 DEF OrdersOf, TypeOK
  <2>2. ValidBatch(taskMachine[t], OrdersOf(t) \cup {o})
    BY <1>1, <1>3, <1>6
  <2>3. QED
    BY <1>2, <1>5, <2>1, <2>2, BatchOfTask
<1>7. CASE dest # t /\ orderTask[o] = t
  <2>1. OrdersOf(t)' = OrdersOf(t) \ {o}
    BY <1>1, <1>7 DEF OrdersOf, TypeOK
  <2>2. OrdersOf(t) # {o}
    BY <1>4 DEF Emptied
  <2>3. ValidBatch(taskMachine[t], OrdersOf(t) \ {o})
    BY <1>2, <1>3, <1>7, <2>2 DEF MayLeave
  <2>4. QED
    BY <1>2, <1>5, <2>1, <2>3, BatchOfTask
<1>8. CASE dest # t /\ orderTask[o] # t
  <2>1. OrdersOf(t)' = OrdersOf(t)
    BY <1>1, <1>8, OthersKeepOrders
  <2>2. QED
    BY <1>2, <1>5, <2>1, BatchOfTask
<1>9. QED
  BY <1>6, <1>7, <1>8

\* The operations on a task validate the batch on the machine it moves to.
LEMMA TaskStepKeepsProducible ==
  ASSUME TypeOK, NEW u \in Tasks, TaskStep(u), UNCHANGED masterVars,
         NEW CONSTANT t \in Tasks, taskStatus[t] # "ABSENT", taskStatus'[t] # "ABSENT",
         ValidBatch(taskMachine[t], OrdersOf(t))
  PROVE  ValidBatch(taskMachine[t], OrdersOf(t))'
<1>1. OrdersOf(t)' = OrdersOf(t) /\ orderSpec' = orderSpec
  BY TaskStepOrders
<1>2. CASE taskMachine'[t] = taskMachine[t]
  BY <1>1, <1>2, BatchOfTask
<1>3. CASE taskMachine'[t] # taskMachine[t]
  <2>1. PICK m \in Machines : MoveTask(u, m)
    BY <1>3 DEF TaskStep, CreateTask, UpdateTask, DeleteTask, TypeOK
  <2>2. t = u /\ taskMachine'[t] = m /\ ValidBatch(m, OrdersOf(t))
    BY <1>3, <2>1 DEF MoveTask, TypeOK
  <2>3. QED
    BY <1>1, <2>2, BatchOfTask
<1>4. QED
  BY <1>2, <1>3

\* No step turns a producible task into one that is not.
LEMMA StepKeepsProducible ==
  ASSUME TypeOK, StatusAgreement, [Next]_vars, UNCHANGED masterVars,
         NEW CONSTANT t \in Tasks, taskStatus[t] # "ABSENT", taskStatus'[t] # "ABSENT",
         ValidBatch(taskMachine[t], OrdersOf(t))
  PROVE  ValidBatch(taskMachine[t], OrdersOf(t))'
<1>1. CASE Untouched(t)
  BY <1>1, BatchOfTask DEF Untouched
<1>2. ASSUME NEW o \in Orders, OrderStep(o)
      PROVE  ValidBatch(taskMachine[t], OrdersOf(t))'
  <2>1. CASE \/ \E s \in Specs : CreateOrder(o, s)
             \/ \E s \in Specs, resets \in BOOLEAN : UpdateOrder(o, s, resets)
             \/ DeleteOrder(o)
    BY <1>1, <2>1, EditLeavesTasks
  <2>2. CASE \/ \E u \in Tasks : MoveOrderToTask(o, u)
             \/ \E u \in Tasks, m \in Machines : MoveOrderToMachine(o, m, u)
             \/ MoveOrderToPending(o)
    BY <2>2, MoveKeepsProducible
  <2>3. QED
    BY <1>2, <2>1, <2>2 DEF OrderStep
<1>3. ASSUME NEW u \in Tasks, TaskStep(u)
      PROVE  ValidBatch(taskMachine[t], OrdersOf(t))'
  BY <1>3, TaskStepKeepsProducible
<1>4. CASE MasterStep \/ (\E m \in Machines : ReorderTasks(m)) \/ UNCHANGED vars
  BY <1>1, <1>4, ElseUntouched
<1>5. QED
  BY <1>2, <1>3, <1>4 DEF Next

\* While limits and categories stay as they are, no board operation turns a
\* task that its machine could produce into one it could not.
THEOREM ProducibleTasksStay == Spec => ProducibleStaysProducible
<1>1. TypeOK /\ StatusAgreement /\ [Next]_vars =>
        [ UNCHANGED masterVars =>
            \A t \in Tasks :
              (taskStatus[t] # "ABSENT" /\ taskStatus'[t] # "ABSENT"
                 /\ ValidBatch(taskMachine[t], OrdersOf(t)))
                => ValidBatch(taskMachine[t], OrdersOf(t))' ]_vars
  BY StepKeepsProducible
<1>2. QED
  BY <1>1, TypeCorrect, StatusesAgree, PTL DEF Spec, ProducibleStaysProducible

-----------------------------------------------------------------------------
(* The relative order of a queue *)

\* Renumbering keeps the relative order of the unfinished tasks of a machine.
LEMMA NormalizedOrdered ==
  ASSUME NEW status, NEW on, NEW pos \in [Tasks -> Nat], NEW ms,
         NEW t \in Tasks, NEW u \in Tasks,
         status[t] \in Unfinished, status[u] \in Unfinished, on[t] = on[u],
         pos[t] < pos[u]
  PROVE  Normalized(status, on, pos, ms)[t] < Normalized(status, on, pos, ms)[u]
<1> DEFINE Q(x) == {v \in Tasks : status[v] \in Unfinished /\ on[v] = on[x]}
<1>1. CASE on[t] \in ms
  <2>1. Q(t) = Q(u) /\ t \in Q(t) /\ u \in Q(t)
    OBVIOUS
  <2>2. IsFiniteSet(Q(t)) /\ Q(t) \subseteq Nat /\ \A v \in Q(t) : pos[v] \in Nat
    BY FS_Subset, BoardConstants
  <2>3. Rank(t, Q(t), pos) < Rank(u, Q(t), pos)
    <3> HIDE DEF Q
    <3>1. QED
      BY <2>1, <2>2, RankOrdered
  <2>4. /\ Normalized(status, on, pos, ms)[t] = Rank(t, Q(t), pos)
        /\ Normalized(status, on, pos, ms)[u] = Rank(u, Q(u), pos)
    BY <1>1 DEF Normalized
  <2>5. QED
    BY <2>1, <2>3, <2>4
<1>2. CASE on[t] \notin ms
  BY <1>2 DEF Normalized
<1>3. QED
  BY <1>1, <1>2

\* A step that keeps or renumbers the positions of the tasks that stay
\* unfinished on their machine keeps their order.
LEMMA RenumberingKeepsOrder ==
  ASSUME TypeOK, NEW pos \in [Tasks -> Nat], NEW ms,
         taskPosition' = pos \/ taskPosition' = Normalized(taskStatus', taskMachine', pos, ms),
         \A v \in Tasks : (taskStatus[v] \in Unfinished /\ taskStatus'[v] \in Unfinished)
                             => pos[v] = taskPosition[v],
         NEW m \in Machines, NEW t \in Queue(m) \cap Queue(m)',
         NEW u \in Queue(m) \cap Queue(m)', taskPosition[t] < taskPosition[u]
  PROVE  taskPosition'[t] < taskPosition'[u]
<1>1. /\ t \in Tasks /\ u \in Tasks
      /\ taskStatus[t] \in Unfinished /\ taskStatus[u] \in Unfinished
      /\ taskStatus'[t] \in Unfinished /\ taskStatus'[u] \in Unfinished
      /\ taskMachine'[t] = taskMachine'[u]
  BY DEF Queue
<1>2. pos[t] < pos[u]
  BY <1>1
<1>3. QED
  BY <1>1, <1>2, NormalizedOrdered

LEMMA OrderStepKeepsOrder ==
  ASSUME TypeOK, NEW o \in Orders, OrderStep(o),
         NEW m \in Machines, NEW t \in Queue(m) \cap Queue(m)',
         NEW u \in Queue(m) \cap Queue(m)', taskPosition[t] < taskPosition[u]
  PROVE  taskPosition'[t] < taskPosition'[u]
<1> DEFINE gone == [v \in Tasks |-> IF v \in Emptied(o) THEN 0 ELSE taskPosition[v]]
<1>1. CASE UNCHANGED taskVars
  BY <1>1 DEF taskVars
<1>2. CASE (\E d \in Tasks : MoveOrderToTask(o, d)) \/ MoveOrderToPending(o)
  <2>1. taskPosition' = Normalized(taskStatus', taskMachine', gone, SourceMachines(o))
    BY <1>2 DEF MoveOrderToTask, MoveOrderToPending
  <2>2. gone \in [Tasks -> Nat]
    BY DEF TypeOK
  <2>3. \A v \in Tasks : v \in Emptied(o) => taskStatus'[v] = "ABSENT"
    BY <1>2 DEF MoveOrderToTask, MoveOrderToPending
  <2>4. \A v \in Tasks : taskStatus'[v] \in Unfinished => gone[v] = taskPosition[v]
    BY <2>3 DEF Unfinished
  <2> HIDE DEF gone
  <2>5. QED
    BY <2>1, <2>2, <2>4, RenumberingKeepsOrder
<1>3. CASE \E d \in Tasks, n \in Machines : MoveOrderToMachine(o, n, d)
  <2> PICK d \in Tasks, n \in Machines : MoveOrderToMachine(o, n, d)
    BY <1>3
  <2> DEFINE pos(p) == [v \in Tasks |-> IF v = d THEN p
                              ELSE IF v \in Emptied(o) THEN 0 ELSE taskPosition[v]]
  <2>1. PICK p \in 1..MaxPosition :
          taskPosition' = Normalized(taskStatus', taskMachine', pos(p), SourceMachines(o) \cup {n})
    BY DEF MoveOrderToMachine
  <2>2. pos(p) \in [Tasks -> Nat]
    BY BoardConstants DEF TypeOK
  <2>3. taskStatus[d] = "ABSENT"
        /\ \A v \in Tasks \ {d} : v \in Emptied(o) => taskStatus'[v] = "ABSENT"
    BY DEF MoveOrderToMachine
  <2>4. \A v \in Tasks : (taskStatus[v] \in Unfinished /\ taskStatus'[v] \in Unfinished)
                            => pos(p)[v] = taskPosition[v]
    BY <2>3 DEF Unfinished
  <2> HIDE DEF pos
  <2>5. QED
    BY <2>1, <2>2, <2>4, RenumberingKeepsOrder
<1>4. QED
  BY <1>1, <1>2, <1>3 DEF OrderStep, CreateOrder, UpdateOrder, DeleteOrder

\* An inserted task pushes others back and pulls none past another.
LEMMA InsertedOrdered ==
  ASSUME TypeOK, NEW d \in Tasks, NEW n \in Machines,
         NEW k \in 0..Cardinality(Queue(n) \ {d}),
         NEW m \in Machines, NEW t \in Queue(m) \ {d}, NEW u \in Queue(m) \ {d},
         taskPosition[t] < taskPosition[u]
  PROVE  Inserted(d, n, k)[t] < Inserted(d, n, k)[u]
<1> DEFINE rest == Queue(n) \ {d}
           left == Queue(taskMachine[d]) \ {d}
<1>1. IsFiniteSet(rest) /\ rest \subseteq Nat /\ (\A v \in rest : taskPosition[v] \in Nat)
  BY FS_Subset, BoardConstants DEF Queue, TypeOK
<1>2. IsFiniteSet(left) /\ left \subseteq Nat /\ (\A v \in left : taskPosition[v] \in Nat)
  BY FS_Subset, BoardConstants DEF Queue, TypeOK
<1>3. k \in Nat
  BY <1>1, FS_CardinalityType
<1>4. t \in Tasks /\ u \in Tasks /\ t # d /\ u # d
  BY DEF Queue
<1>5. CASE m = n
  <2>1. t \in rest /\ u \in rest
    BY <1>5
  <2>2. Rank(t, rest, taskPosition) < Rank(u, rest, taskPosition)
    <3> HIDE DEF rest
    <3>1. QED
      BY <1>1, <2>1, RankOrdered
  <2>3. Rank(t, rest, taskPosition) \in Nat /\ Rank(u, rest, taskPosition) \in Nat
    <3> HIDE DEF rest
    <3>1. QED
      BY <1>1, RankType
  <2>4. \A v \in {t, u} :
          Inserted(d, n, k)[v] = IF Rank(v, rest, taskPosition) <= k
                                   THEN Rank(v, rest, taskPosition)
                                   ELSE Rank(v, rest, taskPosition) + 1
    BY <1>4, <2>1 DEF Inserted
  <2> HIDE DEF rest, left
  <2>5. QED
    BY <1>3, <2>2, <2>3, <2>4
<1>6. CASE m # n /\ m = taskMachine[d]
  <2>1. t \in left \ rest /\ u \in left \ rest
    BY <1>6 DEF Queue
  <2>2. Rank(t, left, taskPosition) < Rank(u, left, taskPosition)
    <3> HIDE DEF rest, left
    <3>1. QED
      BY <1>2, <2>1, RankOrdered
  <2>3. \A v \in {t, u} : Inserted(d, n, k)[v] = Rank(v, left, taskPosition)
    BY <1>4, <2>1 DEF Inserted
  <2>4. QED
    BY <2>2, <2>3
<1>7. CASE m # n /\ m # taskMachine[d]
  <2>1. t \notin left \cup rest /\ u \notin left \cup rest
    BY <1>7 DEF Queue
  <2>2. \A v \in {t, u} : Inserted(d, n, k)[v] = taskPosition[v]
    BY <1>4, <2>1 DEF Inserted
  <2>3. QED
    BY <2>2
<1>8. QED
  BY <1>5, <1>6, <1>7

\* Every task operation keeps the order of all tasks but the one it moves.
LEMMA TaskStepKeepsOrder ==
  ASSUME TypeOK, NEW d \in Tasks, TaskStep(d),
         NEW m \in Machines, NEW t \in (Queue(m) \cap Queue(m)') \ {d},
         NEW u \in (Queue(m) \cap Queue(m)') \ {d}, taskPosition[t] < taskPosition[u]
  PROVE  taskPosition'[t] < taskPosition'[u]
<1>1. t \in Tasks \ {d} /\ u \in Tasks \ {d}
  BY DEF Queue
<1>2. CASE \E n \in Machines, S \in SUBSET Orders : CreateTask(d, n, S)
  BY <1>1, <1>2 DEF CreateTask, TypeOK
<1>3. CASE \E status \in TaskStatuses : UpdateTask(d, status)
  BY <1>1, <1>3 DEF UpdateTask, TypeOK
<1>4. CASE DeleteTask(d)
  <2> DEFINE pos == [taskPosition EXCEPT ![d] = 0]
  <2>1. pos \in [Tasks -> Nat]
    BY DEF TypeOK
  <2>2. taskPosition' = Normalized(taskStatus', taskMachine', pos, {taskMachine[d]})
        /\ taskStatus'[d] = "ABSENT"
    BY <1>4 DEF DeleteTask, TypeOK
  <2>3. \A v \in Tasks : taskStatus'[v] \in Unfinished => pos[v] = taskPosition[v]
    BY <2>2 DEF TypeOK, Unfinished
  <2> HIDE DEF pos
  <2>4. QED
    BY <2>1, <2>2, <2>3, RenumberingKeepsOrder
<1>5. CASE \E n \in Machines : MoveTask(d, n)
  <2> PICK n \in Machines : MoveTask(d, n)
    BY <1>5
  <2>1. PICK k \in 0..Cardinality(Queue(n) \ {d}) : taskPosition' = Inserted(d, n, k)
    BY DEF MoveTask
  <2>2. QED
    BY <2>1, InsertedOrdered
<1>6. QED
  BY <1>2, <1>3, <1>4, <1>5 DEF TaskStep

\* Tasks that stay on a machine keep their relative order, one of them aside.
StableBut(moved) ==
  \A m \in Machines : \A t, u \in (Queue(m) \cap Queue(m)') \ {moved} :
    taskPosition[t] < taskPosition[u] => taskPosition'[t] < taskPosition'[u]

LEMMA StepKeepsOrder ==
  ASSUME TypeOK, [Next]_vars
  PROVE  \/ \E m \in Machines : ReorderTasks(m)
         \/ \E moved \in Tasks \cup {NoTask} : StableBut(moved)
<1>1. CASE \E o \in Orders : OrderStep(o)
  <2>1. StableBut(NoTask)
    BY <1>1, OrderStepKeepsOrder DEF StableBut
  <2>2. QED
    BY <2>1
<1>2. ASSUME NEW d \in Tasks, TaskStep(d)
      PROVE  StableBut(d)
  BY <1>2, TaskStepKeepsOrder DEF StableBut
<1>3. CASE MasterStep \/ UNCHANGED vars
  <2>1. taskPosition' = taskPosition
    BY <1>3 DEF MasterStep, CreateMachine, UpdateMachine, DeleteMachine, UpdateProduct,
                vars, taskVars
  <2>2. StableBut(NoTask)
    BY <2>1 DEF StableBut
  <2>3. QED
    BY <2>2
<1>4. QED
  BY <1>1, <1>2, <1>3 DEF Next

\* Renumbering, appending and restoring are invisible in a queue: except by an
\* explicit reorder, tasks that stay on a machine keep their relative order, and
\* a move_task displaces only the task it moves.
THEOREM QueuesKeepTheirOrder == Spec => QueueOrderStable
<1>1. TypeOK /\ [Next]_vars =>
        [ \/ \E m \in Machines : ReorderTasks(m)
          \/ \E moved \in Tasks \cup {NoTask} : StableBut(moved) ]_vars
  BY StepKeepsOrder
<1>2. QED
  BY <1>1, TypeCorrect, PTL DEF Spec, StableBut, QueueOrderStable

-----------------------------------------------------------------------------
(* Induction and choice on finite sets *)

\* A set of numbers has a least element.
LEMMA LeastOf ==
  ASSUME NEW S, S \subseteq Nat, S # {}
  PROVE  \E n \in S : \A k \in S : n <= k
<1>1. PICK n \in S : \A k \in S : ~ (<<k, n>> \in OpToRel(<, Nat))
  BY NatLessThanWellFounded, WFMin
<1>2. \A k \in S : ~ (k < n)
  BY <1>1 DEF OpToRel
<1> QED
  BY <1>2

\* A set that has 0 and, with each number, the next one has all numbers.
LEMMA NumbersInTurn ==
  ASSUME NEW S, 0 \in S, \A n \in Nat : n \in S => n + 1 \in S
  PROVE  \A n \in Nat : n \in S
<1> SUFFICES ASSUME NEW m \in Nat, m \notin S PROVE FALSE
  OBVIOUS
<1> DEFINE Out == {n \in Nat : n \notin S}
<1>1. PICK n \in Out : \A k \in Out : n <= k
  <2>1. Out \subseteq Nat /\ Out # {}
    OBVIOUS
  <2> QED
    BY <2>1, LeastOf
<1>2. n - 1 \in Nat /\ n - 1 \notin Out
  BY <1>1
<1> QED
  BY <1>2

\* A function defined along the numbers 0, ..., N: each value from the one before.
RunOf(g, V, start, step, N) ==
  /\ g \in [0..N -> V]
  /\ \A i \in 0..N : g[i] = IF i = 0 THEN start ELSE step[<<g[i - 1], i>>]

\* There is one.
LEMMA RunsExist ==
  ASSUME NEW V, NEW start \in V, NEW step \in [V \X Nat -> V], NEW N \in Nat
  PROVE  \E g : RunOf(g, V, start, step, N)
<1> DEFINE Run(g, n) == \A i \in 0..n : g[i] = IF i = 0 THEN start ELSE step[<<g[i - 1], i>>]
           S == {n \in Nat : \E g \in [0..n -> V] : Run(g, n)}
<1>1. 0 \in S
  <2>1. [i \in 0..0 |-> start] \in [0..0 -> V] /\ Run([i \in 0..0 |-> start], 0)
    OBVIOUS
  <2> QED
    BY <2>1
<1>2. ASSUME NEW n \in Nat, n \in S PROVE n + 1 \in S
  <2>1. PICK g \in [0..n -> V] : Run(g, n)
    BY <1>2
  <2> DEFINE h == [i \in 0..(n + 1) |-> IF i = n + 1 THEN step[<<g[n], n + 1>>] ELSE g[i]]
  <2>2. Run(h, n + 1)
    <3> SUFFICES ASSUME NEW i \in 0..(n + 1)
                 PROVE  h[i] = IF i = 0 THEN start ELSE step[<<h[i - 1], i>>]
      OBVIOUS
    <3>1. CASE i = n + 1
      <4>1. i # 0 /\ h[i - 1] = g[n] /\ h[i] = step[<<g[n], n + 1>>]
        BY <3>1
      <4> QED
        BY <3>1, <4>1
    <3>2. CASE i # n + 1
      <4>1. i \in 0..n /\ h[i] = g[i] /\ (i # 0 => h[i - 1] = g[i - 1])
        BY <3>2
      <4> QED
        BY <2>1, <4>1
    <3> QED
      BY <3>1, <3>2
  <2>3. h \in [0..(n + 1) -> V]
    <3>1. g[n] \in V /\ <<g[n], n + 1>> \in V \X Nat
      OBVIOUS
    <3>2. \A i \in 0..(n + 1) : i # n + 1 => i \in 0..n
      OBVIOUS
    <3> QED
      BY <3>1, <3>2
  <2> HIDE DEF Run, h
  <2> QED
    BY <2>2, <2>3
<1>3. N \in S
  <2> HIDE DEF S
  <2> QED
    BY <1>1, <1>2, NumbersInTurn
<1> QED
  BY <1>3 DEF RunOf

\* A finite set under a strict total order has a first element: the one with
\* the fewest elements before it.
LEMMA FirstOfOrder ==
  ASSUME NEW S, IsFiniteSet(S), S # {}, NEW R,
         \A a \in S : <<a, a>> \notin R,
         \A a, b \in S : a # b => <<a, b>> \in R \/ <<b, a>> \in R,
         \A a, b, c \in S : <<a, b>> \in R /\ <<b, c>> \in R => <<a, c>> \in R
  PROVE  \E a \in S : \A b \in S \ {a} : <<a, b>> \in R
<1> DEFINE Before(a) == {b \in S : <<b, a>> \in R}
           T == {Cardinality(Before(a)) : a \in S}
<1>1. \A a \in S : IsFiniteSet(Before(a)) /\ Cardinality(Before(a)) \in Nat
  BY FS_Subset, FS_CardinalityType
<1>2. PICK n \in T : \A k \in T : n <= k
  <2>1. T \subseteq Nat /\ T # {}
    <3> HIDE DEF Before
    <3> QED
      BY <1>1
  <2> HIDE DEF T
  <2> QED
    BY <2>1, LeastOf
<1>3. PICK a \in S : n = Cardinality(Before(a))
  BY <1>2
<1>4. ASSUME NEW b \in S \ {a}, <<a, b>> \notin R PROVE FALSE
  <2>1. <<b, a>> \in R
    BY <1>4
  <2>2. Before(b) \subseteq Before(a) /\ b \in Before(a) /\ b \notin Before(b)
    BY <2>1
  <2>3. Cardinality(Before(b)) \in T /\ b \in S
    <3> HIDE DEF Before
    <3> QED
      OBVIOUS
  <2>4. IsFiniteSet(Before(a)) /\ Before(b) # Before(a)
    BY <1>1, <2>2
  <2> HIDE DEF Before, T
  <2>5. Cardinality(Before(b)) <= Cardinality(Before(a))
        /\ Cardinality(Before(b)) # Cardinality(Before(a))
    BY <2>2, <2>4, FS_Subset
  <2> QED
    BY <1>1, <1>2, <1>3, <2>3, <2>5
<1> QED
  BY <1>4

-----------------------------------------------------------------------------
(* Sums of widths *)

\* What SumFunction computes: a value for every subset of T, taken apart in the
\* order in which CHOOSE names its elements.
Sums(g, f, T) ==
  g = [s \in SUBSET T |->
         IF s = {} THEN 0
         ELSE f[CHOOSE x \in s : TRUE] + g[s \ {CHOOSE x \in s : TRUE}]]

LEMMA SumIsChosen ==
  ASSUME NEW f
  PROVE  SumFunction(f) = (CHOOSE g : Sums(g, f, DOMAIN f))[DOMAIN f]
BY DEF SumFunction, SumFunctionOnSet, FoldFunctionOnSet, MapThenFoldSet, Sums

\* There is such a value for every subset of a finite set.
LEMMA SumsExist ==
  ASSUME NEW T, IsFiniteSet(T), NEW f
  PROVE  \E g : Sums(g, f, T)
<1> DEFINE Sub(n) == {s \in SUBSET T : Cardinality(s) <= n}
           x(s) == CHOOSE y \in s : TRUE
           Upto(g, n) == \A s \in Sub(n) : g[s] = IF s = {} THEN 0 ELSE f[x(s)] + g[s \ {x(s)}]
           S == {n \in Nat : \E g : Upto(g, n)}
<1>1. \A s \in SUBSET T : IsFiniteSet(s) /\ Cardinality(s) \in Nat
  BY FS_Subset, FS_CardinalityType
<1>2. \A s \in SUBSET T : s # {} =>
        x(s) \in s /\ s \ {x(s)} \in SUBSET T /\ Cardinality(s \ {x(s)}) = Cardinality(s) - 1
  BY <1>1, FS_RemoveElement
<1>3. 0 \in S
  <2>1. \A s \in Sub(0) : s = {}
    BY <1>1, FS_EmptySet
  <2>2. Upto([s \in SUBSET T |-> 0], 0)
    BY <2>1
  <2> QED
    BY <2>2
<1>4. ASSUME NEW n \in Nat, n \in S PROVE n + 1 \in S
  <2>1. PICK g : Upto(g, n)
    BY <1>4
  <2> DEFINE h == [s \in SUBSET T |-> IF s = {} THEN 0 ELSE f[x(s)] + g[s \ {x(s)}]]
  <2>2. \A s \in Sub(n) : h[s] = g[s]
    BY <2>1
  <2>3. \A s \in Sub(n + 1) : s # {} => s \ {x(s)} \in Sub(n)
    BY <1>1, <1>2
  <2>4. \A s \in Sub(n + 1) : h[s] = IF s = {} THEN 0 ELSE f[x(s)] + g[s \ {x(s)}]
    OBVIOUS
  <2> HIDE DEF h, Sub, x
  <2>5. Upto(h, n + 1)
    BY <2>2, <2>3, <2>4
  <2> HIDE DEF Upto
  <2> QED
    BY <2>5
<1>5. Cardinality(T) \in S
  <2>1. Cardinality(T) \in Nat
    BY <1>1
  <2> HIDE DEF S
  <2> QED
    BY <1>3, <1>4, <2>1, NumbersInTurn
<1>6. PICK g : Upto(g, Cardinality(T))
  BY <1>5
<1>7. Sub(Cardinality(T)) = SUBSET T
  BY FS_Subset, <1>1
<1> DEFINE h == [s \in SUBSET T |-> g[s]]
<1>8. h = [s \in SUBSET T |-> IF s = {} THEN 0 ELSE f[x(s)] + h[s \ {x(s)}]]
  <2>1. \A s \in SUBSET T : g[s] = IF s = {} THEN 0 ELSE f[x(s)] + g[s \ {x(s)}]
    BY <1>6, <1>7
  <2>2. \A s \in SUBSET T : s # {} => h[s \ {x(s)}] = g[s \ {x(s)}]
    OBVIOUS
  <2>3. \A s \in SUBSET T : h[s] = IF s = {} THEN 0 ELSE f[x(s)] + h[s \ {x(s)}]
    BY <2>1, <2>2
  <2>4. h = [s \in SUBSET T |-> h[s]]
    OBVIOUS
  <2> HIDE DEF h, x
  <2> QED
    BY <2>3, <2>4
<1> QED
  BY <1>8 DEF Sums

\* It depends on the elements of the subset only.
LEMMA SumsAgree ==
  ASSUME NEW T, IsFiniteSet(T), NEW U \in SUBSET T, NEW f, NEW e,
         \A x \in U : f[x] = e[x],
         NEW g, Sums(g, f, T), NEW h, Sums(h, e, U)
  PROVE  \A s \in SUBSET U : g[s] = h[s]
<1> DEFINE x(s) == CHOOSE y \in s : TRUE
           S == {n \in Nat : \A s \in SUBSET U : Cardinality(s) <= n => g[s] = h[s]}
<1>1. \A s \in SUBSET T : IsFiniteSet(s) /\ Cardinality(s) \in Nat
  BY FS_Subset, FS_CardinalityType
<1>2. \A s \in SUBSET U : s # {} =>
        x(s) \in s /\ s \ {x(s)} \in SUBSET U /\ Cardinality(s \ {x(s)}) = Cardinality(s) - 1
  BY <1>1, FS_RemoveElement
<1>3. \A s \in SUBSET U : /\ g[s] = IF s = {} THEN 0 ELSE f[x(s)] + g[s \ {x(s)}]
                          /\ h[s] = IF s = {} THEN 0 ELSE e[x(s)] + h[s \ {x(s)}]
  BY DEF Sums
<1> HIDE DEF x
<1>4. 0 \in S
  <2>1. \A s \in SUBSET U : Cardinality(s) <= 0 => s = {}
    BY <1>1, FS_EmptySet
  <2> QED
    BY <1>3, <2>1
<1>5. ASSUME NEW n \in Nat, n \in S PROVE n + 1 \in S
  <2> SUFFICES ASSUME NEW s \in SUBSET U, Cardinality(s) <= n + 1, s # {} PROVE g[s] = h[s]
    BY <1>3
  <2>1. g[s \ {x(s)}] = h[s \ {x(s)}]
    BY <1>1, <1>2, <1>5
  <2>2. f[x(s)] = e[x(s)]
    BY <1>2
  <2> QED
    BY <1>3, <2>1, <2>2
<1>6. \A n \in Nat : n \in S
  <2> HIDE DEF S
  <2> QED
    BY <1>4, <1>5, NumbersInTurn
<1> QED
  BY <1>1, <1>6

\* Any element may be taken out first.
LEMMA SumsAdd ==
  ASSUME NEW T, IsFiniteSet(T), NEW f, \A x \in T : f[x] \in Nat, NEW g, Sums(g, f, T)
  PROVE  /\ g[{}] = 0
         /\ \A s \in SUBSET T : g[s] \in Nat /\ \A y \in s : g[s] = f[y] + g[s \ {y}]
<1> DEFINE x(s) == CHOOSE y \in s : TRUE
           Adds(s) == g[s] \in Nat /\ \A y \in s : g[s] = f[y] + g[s \ {y}]
           S == {n \in Nat : \A s \in SUBSET T : Cardinality(s) <= n => Adds(s)}
<1>1. \A s \in SUBSET T : IsFiniteSet(s) /\ Cardinality(s) \in Nat
  BY FS_Subset, FS_CardinalityType
<1>2. \A s \in SUBSET T : \A y \in s :
        s \ {y} \in SUBSET T /\ Cardinality(s \ {y}) = Cardinality(s) - 1
  BY <1>1, FS_RemoveElement
<1>3. \A s \in SUBSET T : s # {} => x(s) \in s
  OBVIOUS
<1>4. \A s \in SUBSET T : g[s] = IF s = {} THEN 0 ELSE f[x(s)] + g[s \ {x(s)}]
  BY DEF Sums
<1>0. g[{}] = 0 /\ Adds({})
  <2>1. {} \in SUBSET T
    OBVIOUS
  <2>2. g[{}] = 0
    BY <1>4, <2>1
  <2> QED
    BY <2>2
<1> HIDE DEF x
<1>5. 0 \in S
  <2>1. \A s \in SUBSET T : Cardinality(s) <= 0 => s = {}
    BY <1>1, FS_EmptySet
  <2> HIDE DEF Adds
  <2> QED
    BY <1>0, <2>1
<1>6. ASSUME NEW n \in Nat, n \in S PROVE n + 1 \in S
  <2> SUFFICES ASSUME NEW s \in SUBSET T, Cardinality(s) <= n + 1 PROVE Adds(s)
    OBVIOUS
  <2>1. \A y \in s : Adds(s \ {y})
    <3> HIDE DEF Adds
    <3>1. ASSUME NEW y \in s PROVE Adds(s \ {y})
      <4>1. s \ {y} \in SUBSET T /\ Cardinality(s \ {y}) = Cardinality(s) - 1
        BY <1>2
      <4>2. Cardinality(s) \in Nat /\ Cardinality(s \ {y}) <= n
        BY <1>1, <4>1
      <4> QED
        BY <1>6, <4>1, <4>2
    <3> QED
      BY <3>1
  <2>2. CASE s = {}
    BY <1>0, <2>2
  <2>3. CASE s # {}
    <3>1. x(s) \in s /\ g[s] = f[x(s)] + g[s \ {x(s)}]
      BY <1>3, <1>4, <2>3
    <3>2. g[s] \in Nat
      BY <2>1, <3>1
    <3>3. ASSUME NEW y \in s, y # x(s) PROVE g[s] = f[y] + g[s \ {y}]
      <4>1. g[s \ {x(s)}] = f[y] + g[(s \ {x(s)}) \ {y}]
        BY <2>1, <3>1, <3>3
      <4>2. g[s \ {y}] = f[x(s)] + g[(s \ {y}) \ {x(s)}]
        BY <2>1, <3>1, <3>3
      <4>3. (s \ {x(s)}) \ {y} = (s \ {y}) \ {x(s)}
        OBVIOUS
      <4>4. g[(s \ {y}) \ {x(s)}] \in Nat
        <5>1. g[s \ {y}] \in Nat /\ f[x(s)] \in Nat
          BY <2>1, <3>1
        <5>2. x(s) \in s \ {y}
          BY <3>1, <3>3
        <5>3. (s \ {y}) \ {x(s)} \in SUBSET T
          OBVIOUS
        <5>4. Adds((s \ {y}) \ {x(s)})
          <6> HIDE DEF Adds
          <6>1. s \ {y} \in SUBSET T /\ Cardinality(s \ {y}) = Cardinality(s) - 1
            BY <1>2
          <6>2. Cardinality((s \ {y}) \ {x(s)}) = Cardinality(s \ {y}) - 1
            BY <1>2, <5>2, <6>1
          <6>3. Cardinality((s \ {y}) \ {x(s)}) <= n
            <7>1. Cardinality(s) \in Nat
              BY <1>1
            <7> QED
              BY <6>1, <6>2, <7>1
          <6> QED
            BY <1>6, <5>3, <6>3
        <5> QED
          BY <5>4
      <4>5. f[y] \in Nat /\ f[x(s)] \in Nat
        BY <3>1
      <4>6. g[s \ {x(s)}] = f[y] + g[(s \ {y}) \ {x(s)}]
        BY <4>1, <4>3
      <4> QED
        BY <3>1, <4>2, <4>4, <4>5, <4>6
    <3> QED
      BY <3>1, <3>2, <3>3
  <2> QED
    BY <2>2, <2>3
<1>7. \A n \in Nat : n \in S
  <2> HIDE DEF S
  <2> QED
    BY <1>5, <1>6, NumbersInTurn
<1> QED
  <2>1. \A s \in SUBSET T : Adds(s)
    <3> HIDE DEF Adds
    <3> QED
      BY <1>1, <1>7
  <2> QED
    BY <1>0, <2>1

\* The width of a batch is that of one of its orders and of the others.
LEMMA WidthsAdd ==
  ASSUME NEW P, IsFiniteSet(P), \A o \in P : Width(o) \in Nat
  PROVE  /\ TotalWidth({}) = 0
         /\ \A B \in SUBSET P :
              TotalWidth(B) \in Nat /\ \A o \in B : TotalWidth(B) = Width(o) + TotalWidth(B \ {o})
<1> DEFINE f == [o \in P |-> Width(o)]
<1>1. PICK g : Sums(g, f, P)
  <2> HIDE DEF f
  <2> QED
    BY SumsExist
<1>2. ASSUME NEW B \in SUBSET P PROVE TotalWidth(B) = g[B]
  <2> DEFINE e == [o \in B |-> orderSpec[o].width]
             h == CHOOSE k : Sums(k, e, B)
  <2>1. TotalWidth(B) = h[B]
    BY SumIsChosen DEF TotalWidth
  <2>2. IsFiniteSet(B)
    BY FS_Subset
  <2>3. \A o \in B : f[o] = e[o]
    BY DEF Width
  <2> HIDE DEF e
  <2>4. Sums(h, e, B)
    BY <2>2, SumsExist
  <2> HIDE DEF f, h
  <2>5. g[B] = h[B]
    BY <1>1, <2>3, <2>4, SumsAgree
  <2> QED
    BY <2>1, <2>5
<1>3. \A o \in P : f[o] = Width(o) /\ f[o] \in Nat
  OBVIOUS
<1> HIDE DEF f
<1>4. /\ g[{}] = 0
      /\ \A s \in SUBSET P : g[s] \in Nat /\ \A y \in s : g[s] = f[y] + g[s \ {y}]
  BY <1>1, <1>3, SumsAdd
<1>5. \A B \in SUBSET P : \A o \in B : B \ {o} \in SUBSET P
  OBVIOUS
<1> QED
  BY <1>2, <1>3, <1>4, <1>5

-----------------------------------------------------------------------------
(* What the planner reads *)

\* Every order that is there says what it asks for.
Specified == \A o \in Orders : orderStatus[o] # "ABSENT" => orderSpec[o] \in Specs

LEMMA SpecifiedStep == TypeOK /\ StatusAgreement /\ Specified /\ [Next]_vars => Specified'
<1> SUFFICES ASSUME TypeOK, StatusAgreement, Specified, Next, NEW q \in Orders,
                    orderStatus'[q] # "ABSENT"
             PROVE  orderSpec'[q] \in Specs
  BY DEF Specified, vars, orderVars
<1>1. orderStatus[q] # "ABSENT" => orderSpec[q] \in Specs
  BY DEF Specified
<1>2. ASSUME NEW o \in Orders, NEW s \in Specs, CreateOrder(o, s) PROVE orderSpec'[q] \in Specs
  BY <1>1, <1>2 DEF CreateOrder, TypeOK
<1>3. ASSUME NEW o \in Orders, NEW s \in Specs, NEW resets \in BOOLEAN, UpdateOrder(o, s, resets)
      PROVE  orderSpec'[q] \in Specs
  <2>1. orderStatus[q] = "ABSENT" => q # o
    BY <1>3 DEF UpdateOrder, Editable
  <2>2. q # o => orderStatus'[q] = orderStatus[q]
    BY <1>3 DEF UpdateOrder, TypeOK
  <2> QED
    BY <1>1, <1>3, <2>1, <2>2 DEF UpdateOrder, TypeOK
<1>4. ASSUME NEW o \in Orders, DeleteOrder(o) PROVE orderSpec'[q] \in Specs
  BY <1>1, <1>4 DEF DeleteOrder, TypeOK
<1>5. ASSUME orderSpec' = orderSpec, orderStatus[q] # "ABSENT" PROVE orderSpec'[q] \in Specs
  BY <1>1, <1>5
<1>6. ASSUME NEW o \in Orders,
             \/ \E t \in Tasks : MoveOrderToTask(o, t)
             \/ \E t \in Tasks, m \in Machines : MoveOrderToMachine(o, m, t)
             \/ MoveOrderToPending(o)
      PROVE  orderSpec'[q] \in Specs
  <2>1. orderSpec' = orderSpec
    BY <1>6 DEF MoveOrderToTask, MoveOrderToMachine, MoveOrderToPending
  <2>2. orderStatus[o] # "ABSENT"
    BY <1>6 DEF MoveOrderToTask, MoveOrderToMachine, MoveOrderToPending, StatusAgreement
  <2>3. q # o => orderStatus'[q] = orderStatus[q]
    BY <1>6 DEF MoveOrderToTask, MoveOrderToMachine, MoveOrderToPending, TypeOK
  <2> QED
    BY <1>5, <2>1, <2>2, <2>3
<1>7. ASSUME NEW t \in Tasks, TaskStep(t) PROVE orderSpec'[q] \in Specs
  <2>1. orderSpec' = orderSpec
    BY <1>7 DEF TaskStep, CreateTask, UpdateTask, DeleteTask, MoveTask, orderVars
  <2>2. orderTask[q] = t => orderStatus[q] # "ABSENT"
    BY BoardConstants DEF StatusAgreement
  <2>3. CASE \E m \in Machines, S \in SUBSET Orders : CreateTask(t, m, S)
    BY <1>5, <2>1, <2>3 DEF CreateTask
  <2>4. CASE (\E status \in TaskStatuses : UpdateTask(t, status)) \/ DeleteTask(t)
    BY <1>5, <2>1, <2>2, <2>4 DEF UpdateTask, DeleteTask, OrdersOf
  <2>5. CASE \E m \in Machines : MoveTask(t, m)
    BY <1>5, <2>1, <2>5 DEF MoveTask, orderVars
  <2> QED
    BY <1>7, <2>3, <2>4, <2>5 DEF TaskStep
<1>8. ASSUME MasterStep \/ \E m \in Machines : ReorderTasks(m) PROVE orderSpec'[q] \in Specs
  BY <1>5, <1>8 DEF MasterStep, CreateMachine, UpdateMachine, DeleteMachine, UpdateProduct,
                    ReorderTasks, orderVars
<1> QED
  BY <1>2, <1>3, <1>4, <1>6, <1>7, <1>8 DEF Next, OrderStep

\* The orders to plan are finitely many, with widths that add up.
LEMMA PlannerReads ==
  ASSUME TypeOK, Specified, NEW P, P \subseteq PendingOrders
  PROVE  /\ IsFiniteSet(P) /\ IsFiniteSet(ActiveMachines)
         /\ P \subseteq Orders /\ ActiveMachines \subseteq Machines
         /\ \A o \in P : Width(o) \in Nat
         /\ \A m \in ActiveMachines : machine[m].min \in Int /\ machine[m].max \in Int
<1>1. P \subseteq Orders /\ ActiveMachines \subseteq Machines
  BY DEF PendingOrders, ActiveMachines
<1>2. IsFiniteSet(P) /\ IsFiniteSet(ActiveMachines)
  BY <1>1, BoardConstants, FS_Subset
<1>3. \A o \in P : Width(o) \in Nat
  BY BoardRecords DEF Specified, PendingOrders, Width
<1>4. \A m \in ActiveMachines : machine[m].min \in Int /\ machine[m].max \in Int
  BY BoardRecords DEF TypeOK, ActiveMachines
<1> QED
  BY <1>1, <1>2, <1>3, <1>4

\* A listing of a finite set gives each element a place of its own.
LEMMA ListingFacts ==
  ASSUME NEW S, IsFiniteSet(S), NEW place \in Listings(S)
  PROVE  /\ DOMAIN place = S /\ place \in [S -> Nat]
         /\ \A o, q \in S : place[o] = place[q] => o = q
         /\ \A o \in S : place[o] \in 1..Cardinality(S)
         /\ Cardinality(S) \in Nat
<1>1. Cardinality(S) \in Nat
  BY FS_CardinalityType
<1>2. place \in [S -> 1..Cardinality(S)] /\ IsInjective(place)
  BY DEF Listings, Bijection, Injection
<1> QED
  BY <1>1, <1>2 DEF IsInjective

LEMMA FirstFacts ==
  ASSUME NEW S, NEW P, S \subseteq P, S # {}, NEW place \in [P -> Nat]
  PROVE  First(S, place) \in S /\ \A q \in S : place[First(S, place)] <= place[q]
<1>1. {place[o] : o \in S} \subseteq Nat /\ {place[o] : o \in S} # {}
  OBVIOUS
<1>2. PICK n \in {place[o] : o \in S} : \A k \in {place[o] : o \in S} : n <= k
  BY <1>1, LeastOf
<1>3. \E o \in S : \A q \in S : place[o] <= place[q]
  BY <1>2
<1> QED
  BY <1>3 DEF First

-----------------------------------------------------------------------------
(* The batch around one order *)

\* What Filled computes: the batch after each place of the list.
Fillings(g, remaining, anchor, m, place) ==
  g = [i \in 0..Cardinality(DOMAIN place) |->
         IF i = 0 THEN {anchor}
         ELSE g[i - 1] \cup {o \in remaining \ {anchor} :
                               place[o] = i /\ Fits(o, TotalWidth(g[i - 1]), m)}]

LEMMA FillingsExist ==
  ASSUME NEW remaining, NEW anchor, NEW m, NEW place, Cardinality(DOMAIN place) \in Nat
  PROVE  \E g : Fillings(g, remaining, anchor, m, place)
<1> DEFINE N == Cardinality(DOMAIN place)
           joins(b, i) == b \cup {o \in remaining \ {anchor} :
                                    place[o] = i /\ Fits(o, TotalWidth(b), m)}
           V == SUBSET (remaining \cup {anchor})
           step == [bi \in V \X Nat |-> joins(bi[1], bi[2])]
<1>1. {anchor} \in V /\ step \in [V \X Nat -> V]
  <2>1. \A bi \in V \X Nat : joins(bi[1], bi[2]) \in V
    <3> SUFFICES ASSUME NEW b \in V, NEW i \in Nat PROVE joins(b, i) \in V
      OBVIOUS
    <3> QED
      OBVIOUS
  <2> HIDE DEF joins
  <2>2. step \in [V \X Nat -> V]
    BY <2>1
  <2> QED
    BY <2>2
<1>2. \A b \in V, i \in Nat : step[<<b, i>>] = joins(b, i)
  OBVIOUS
<1> HIDE DEF V, step, joins
<1>3. PICK g : RunOf(g, V, {anchor}, step, N)
  BY <1>1, RunsExist
<1>4. \A i \in 0..N : g[i] = IF i = 0 THEN {anchor} ELSE joins(g[i - 1], i)
  <2> SUFFICES ASSUME NEW i \in 0..N, i # 0 PROVE g[i] = joins(g[i - 1], i)
    BY <1>3 DEF RunOf
  <2>1. i - 1 \in 0..N /\ i \in Nat
    OBVIOUS
  <2> QED
    BY <1>2, <1>3, <2>1 DEF RunOf
<1>5. g = [i \in 0..N |-> g[i]]
  BY <1>3 DEF RunOf
<1>6. g = [i \in 0..N |-> IF i = 0 THEN {anchor} ELSE joins(g[i - 1], i)]
  <2> HIDE DEF N
  <2> QED
    BY <1>4, <1>5
<1> QED
  BY <1>6 DEF Fillings, joins

\* It has the order it was built around, only orders that remain, and fits.
LEMMA FilledFacts ==
  ASSUME TypeOK, Specified, NEW P, P \subseteq PendingOrders, NEW place \in Listings(P), NEW m,
         machine[m].max \in Int,
         NEW remaining, remaining \subseteq P,
         NEW anchor \in remaining, Width(anchor) <= machine[m].max
  PROVE  LET B == Filled(remaining, anchor, m, place) IN
         B \subseteq remaining /\ anchor \in B /\ TotalWidth(B) <= machine[m].max
<1> DEFINE N == Cardinality(DOMAIN place)
           g == CHOOSE f : Fillings(f, remaining, anchor, m, place)
           Good(i) == /\ \A o \in g[i] : o \in remaining /\ (o = anchor \/ place[o] <= i)
                      /\ anchor \in g[i]
                      /\ TotalWidth(g[i]) <= machine[m].max
           S == {i \in Nat : i <= N => Good(i)}
<1>1. /\ IsFiniteSet(P) /\ \A o \in P : Width(o) \in Nat
      /\ DOMAIN place = P /\ place \in [P -> Nat] /\ N \in Nat
      /\ \A o, q \in P : place[o] = place[q] => o = q
  BY PlannerReads, ListingFacts
<1>2. Filled(remaining, anchor, m, place) = g[N]
  BY DEF Filled, Fillings
<1>3. Fillings(g, remaining, anchor, m, place)
  BY <1>1, FillingsExist
<1>4. \A i \in 0..N : g[i] = IF i = 0 THEN {anchor}
                             ELSE g[i - 1] \cup {o \in remaining \ {anchor} :
                                      place[o] = i /\ Fits(o, TotalWidth(g[i - 1]), m)}
  BY <1>3 DEF Fillings
<1>5. /\ TotalWidth({}) = 0
      /\ \A B \in SUBSET P :
           TotalWidth(B) \in Nat /\ \A o \in B : TotalWidth(B) = Width(o) + TotalWidth(B \ {o})
  BY <1>1, WidthsAdd
<1> HIDE DEF g, N
<1>6. 0 \in S
  <2>0. 0 \in 0..N
    BY <1>1
  <2>1. g[0] = {anchor}
    BY <1>4, <2>0
  <2>2. {anchor} \in SUBSET P /\ {anchor} \ {anchor} = {}
    OBVIOUS
  <2>3. TotalWidth({anchor}) = Width(anchor)
    BY <1>1, <1>5, <2>2
  <2>4. Good(0)
    BY <2>1, <2>3
  <2> HIDE DEF Good
  <2> QED
    BY <2>4
<1>7. ASSUME NEW i \in Nat, i \in S PROVE i + 1 \in S
  <2> SUFFICES ASSUME i + 1 <= N PROVE Good(i + 1)
    OBVIOUS
  <2>1. Good(i)
    BY <1>1, <1>7
  <2> DEFINE new == {o \in remaining \ {anchor} :
                       place[o] = i + 1 /\ Fits(o, TotalWidth(g[i]), m)}
  <2>2. g[i + 1] = g[i] \cup new
    <3>1. i + 1 \in 0..N /\ i + 1 # 0 /\ (i + 1) - 1 = i
      BY <1>1
    <3> QED
      BY <1>4, <3>1
  <2>3. g[i] \in SUBSET P
    BY <2>1
  <2>4. CASE new = {}
    <3>1. g[i + 1] = g[i]
      BY <2>2, <2>4
    <3>2. \A o \in P : place[o] \in Nat
      BY <1>1
    <3> QED
      BY <2>1, <2>3, <3>1, <3>2
  <2>5. ASSUME NEW o \in new PROVE Good(i + 1)
    <3>0. o \in remaining /\ o # anchor /\ place[o] = i + 1 /\ Fits(o, TotalWidth(g[i]), m) /\ o \in P
      BY <2>5
    <3>1. new = {o}
      BY <1>1, <3>0
    <3>2. o \notin g[i]
      BY <2>1, <3>0
    <3>3. g[i + 1] \in SUBSET P /\ o \in g[i + 1] /\ g[i + 1] \ {o} = g[i]
      BY <2>2, <2>3, <3>0, <3>1, <3>2
    <3>4. TotalWidth(g[i + 1]) = Width(o) + TotalWidth(g[i])
      BY <1>5, <3>3
    <3>5. TotalWidth(g[i + 1]) <= machine[m].max
      <4>1. TotalWidth(g[i]) \in Nat /\ Width(o) \in Nat
        BY <1>1, <1>5, <2>3, <3>0
      <4> QED
        BY <3>0, <3>4, <4>1 DEF Fits
    <3>6. ASSUME NEW q \in g[i + 1] PROVE q \in remaining /\ (q = anchor \/ place[q] <= i + 1)
      <4>1. q = o \/ q \in g[i]
        BY <2>2, <3>1, <3>6
      <4>2. place[q] \in Nat
        BY <1>1, <3>3, <3>6
      <4> QED
        BY <2>1, <3>0, <4>1, <4>2
    <3>7. anchor \in g[i + 1]
      BY <2>1, <2>2
    <3> QED
      BY <3>5, <3>6, <3>7
  <2> QED
    BY <2>4, <2>5
<1>8. N \in S
  <2> HIDE DEF S
  <2> QED
    BY <1>1, <1>6, <1>7, NumbersInTurn
<1>9. Good(N)
  BY <1>1, <1>8
<1> QED
  BY <1>2, <1>9

-----------------------------------------------------------------------------
(* The best batch of a machine *)

\* Better orders the batches strictly and leaves no tie.
LEMMA BetterIsOrder ==
  ASSUME NEW P, NEW place \in [P -> Nat], \A o, q \in P : place[o] = place[q] => o = q,
         \A B \in SUBSET P : TotalWidth(B) \in Nat,
         NEW A \in SUBSET P, NEW B \in SUBSET P, NEW C \in SUBSET P
  PROVE  /\ ~Better(A, A, place)
         /\ A # B => Better(A, B, place) \/ Better(B, A, place)
         /\ Better(A, B, place) /\ Better(B, C, place) => Better(A, C, place)
<1>1. TotalWidth(A) \in Nat /\ TotalWidth(B) \in Nat /\ TotalWidth(C) \in Nat
  OBVIOUS
<1>2. ~Better(A, A, place)
  BY <1>1 DEF Better
<1>3. ASSUME A # B PROVE Better(A, B, place) \/ Better(B, A, place)
  <2> DEFINE D == (A \ B) \cup (B \ A)
  <2>1. D # {} /\ D \subseteq P
    BY <1>3
  <2>2. First(D, place) \in D /\ \A q \in D : place[First(D, place)] <= place[q]
    BY <2>1, FirstFacts
  <2>3. PICK d \in D : \A q \in D : place[d] <= place[q]
    BY <2>2
  <2>4. \A q \in D : q # d => place[d] < place[q]
    <3>1. \A q \in D : place[q] \in Nat /\ (place[d] = place[q] => q = d)
      BY <2>1
    <3> QED
      BY <2>3, <3>1
  <2>5. CASE d \in A \ B
    <3>1. \A q \in B \ A : place[d] < place[q]
      BY <2>4, <2>5
    <3> QED
      BY <1>1, <2>5, <3>1 DEF Better
  <2>6. CASE d \in B \ A
    <3>1. \A q \in A \ B : place[d] < place[q]
      BY <2>4, <2>6
    <3> QED
      BY <1>1, <2>6, <3>1 DEF Better
  <2> QED
    BY <2>5, <2>6
<1>4. ASSUME Better(A, B, place), Better(B, C, place) PROVE Better(A, C, place)
  <2>1. CASE TotalWidth(A) > TotalWidth(C)
    BY <2>1 DEF Better
  <2>2. CASE ~(TotalWidth(A) > TotalWidth(C))
    <3>1. TotalWidth(A) = TotalWidth(B) /\ TotalWidth(B) = TotalWidth(C)
      BY <1>1, <1>4, <2>2 DEF Better
    <3>2. PICK a \in A \ B : \A q \in B \ A : place[a] < place[q]
      BY <1>1, <1>4, <3>1 DEF Better
    <3>3. PICK b \in B \ C : \A q \in C \ B : place[b] < place[q]
      BY <1>1, <1>4, <3>1 DEF Better
    <3>4. \A q \in A \cup B \cup C : place[q] \in Nat
      OBVIOUS
    <3>5. CASE place[a] <= place[b]
      <4>1. a \notin C
        BY <3>2, <3>3, <3>4, <3>5
      <4>2. \A q \in C \ A : place[a] < place[q]
        BY <3>2, <3>3, <3>4, <3>5
      <4> QED
        BY <3>1, <3>2, <4>1, <4>2 DEF Better
    <3>6. CASE place[b] < place[a]
      <4>1. b \in A
        BY <3>2, <3>3, <3>4, <3>6
      <4>2. \A q \in C \ A : place[b] < place[q]
        BY <3>2, <3>3, <3>4, <3>6
      <4> QED
        BY <3>1, <3>3, <4>1, <4>2 DEF Better
    <3> QED
      BY <3>2, <3>3, <3>4, <3>5, <3>6
  <2> QED
    BY <2>1, <2>2
<1> QED
  BY <1>2, <1>3, <1>4

\* The batch selected for a machine is made of remaining orders and within the
\* machine's limits; there is none only if no order is within them alone.
LEMMA SelectFacts ==
  ASSUME TypeOK, Specified, NEW P, P \subseteq PendingOrders, NEW place \in Listings(P), NEW m,
         machine[m].min \in Int, machine[m].max \in Int,
         NEW remaining, remaining \subseteq P
  PROVE  LET B == SelectBatch(remaining, m, place) IN
         /\ B \subseteq remaining
         /\ B # {} => TotalWidth(B) \in machine[m].min..machine[m].max
         /\ B = {} => \A o \in remaining : TotalWidth({o}) \notin machine[m].min..machine[m].max
<1> DEFINE around == {Filled(remaining, o, m, place) : o \in Anchors(remaining, m, place)}
           batches == {B \in around : TotalWidth(B) >= machine[m].min}
           best == CHOOSE B \in batches : \A C \in batches \ {B} : Better(B, C, place)
           R == {BC \in batches \X batches : Better(BC[1], BC[2], place)}
<1>1. /\ IsFiniteSet(P) /\ \A o \in P : Width(o) \in Nat
      /\ place \in [P -> Nat] /\ \A o, q \in P : place[o] = place[q] => o = q
  BY PlannerReads, ListingFacts
<1>2. /\ TotalWidth({}) = 0
      /\ \A B \in SUBSET P :
           TotalWidth(B) \in Nat /\ \A o \in B : TotalWidth(B) = Width(o) + TotalWidth(B \ {o})
  BY <1>1, WidthsAdd
<1>3. \A o \in Anchors(remaining, m, place) :
        /\ Filled(remaining, o, m, place) \subseteq remaining
        /\ o \in Filled(remaining, o, m, place)
        /\ TotalWidth(Filled(remaining, o, m, place)) <= machine[m].max
  BY FilledFacts DEF Anchors
<1>4. \A B \in batches : /\ B \subseteq remaining /\ B # {} /\ B \in SUBSET P
                         /\ TotalWidth(B) \in machine[m].min..machine[m].max
  <2> SUFFICES ASSUME NEW B \in batches
               PROVE  /\ B \subseteq remaining /\ B # {} /\ B \in SUBSET P
                      /\ TotalWidth(B) \in machine[m].min..machine[m].max
    OBVIOUS
  <2>1. PICK o \in Anchors(remaining, m, place) : B = Filled(remaining, o, m, place)
    OBVIOUS
  <2>2. B \subseteq remaining /\ o \in B /\ TotalWidth(B) <= machine[m].max
    BY <1>3, <2>1
  <2>3. B \in SUBSET P /\ TotalWidth(B) >= machine[m].min
    BY <2>2
  <2>4. TotalWidth(B) \in Int
    BY <1>2, <2>3
  <2> QED
    BY <2>2, <2>3, <2>4
<1>5. SelectBatch(remaining, m, place) = IF batches = {} THEN {} ELSE best
  BY DEF SelectBatch
<1>6. ASSUME batches # {} PROVE best \in batches
  <2>1. IsFiniteSet(batches)
    <3>1. batches \in SUBSET (SUBSET P)
      BY <1>4
    <3>2. IsFiniteSet(SUBSET P)
      BY <1>1, FS_SUBSET
    <3> QED
      BY <3>1, <3>2, FS_Subset
  <2>2. \A B, C \in batches : <<B, C>> \in R <=> Better(B, C, place)
    OBVIOUS
  <2>3. \A A, B, C \in batches :
          /\ ~Better(A, A, place)
          /\ A # B => Better(A, B, place) \/ Better(B, A, place)
          /\ Better(A, B, place) /\ Better(B, C, place) => Better(A, C, place)
    <3>1. \A B \in SUBSET P : TotalWidth(B) \in Nat
      BY <1>2
    <3> HIDE DEF batches
    <3> QED
      BY <1>1, <1>4, <3>1, BetterIsOrder
  <2> HIDE DEF batches, R
  <2>4. /\ \A A \in batches : <<A, A>> \notin R
        /\ \A A, B \in batches : A # B => <<A, B>> \in R \/ <<B, A>> \in R
        /\ \A A, B, C \in batches : <<A, B>> \in R /\ <<B, C>> \in R => <<A, C>> \in R
    BY <2>2, <2>3
  <2>5. \E B \in batches : \A C \in batches \ {B} : <<B, C>> \in R
    BY <1>6, <2>1, <2>4, FirstOfOrder
  <2> QED
    BY <2>2, <2>5
<1>7. CASE batches # {}
  <2> HIDE DEF batches, best
  <2> QED
    BY <1>4, <1>5, <1>6, <1>7
<1>8. CASE batches = {}
  <2> SUFFICES ASSUME NEW o \in remaining,
                      TotalWidth({o}) \in machine[m].min..machine[m].max
               PROVE  FALSE
    BY <1>5, <1>8
  <2>1. TotalWidth({o}) = Width(o) /\ Width(o) \in Nat
    <3>1. {o} \in SUBSET P /\ {o} \ {o} = {} /\ o \in P
      OBVIOUS
    <3>2. TotalWidth({o}) = Width(o) + TotalWidth({o} \ {o})
      BY <1>2, <3>1
    <3> QED
      BY <1>1, <1>2, <3>1, <3>2
  <2>2. o \in Anchors(remaining, m, place)
    BY <2>1 DEF Anchors
  <2> DEFINE B == Filled(remaining, o, m, place)
  <2>3. B \in SUBSET P /\ o \in B
    BY <1>3, <2>2
  <2>4. B \ {o} \in SUBSET P
    BY <2>3
  <2>5. TotalWidth(B) = Width(o) + TotalWidth(B \ {o}) /\ TotalWidth(B \ {o}) \in Nat
    BY <1>2, <2>3, <2>4
  <2>6. TotalWidth(B) >= machine[m].min
    BY <2>1, <2>5
  <2>7. B \in batches
    BY <2>2, <2>6
  <2> QED
    BY <1>8, <2>7
<1> QED
  BY <1>7, <1>8

-----------------------------------------------------------------------------
(* The machine with the least changeover *)

\* Keys that do not end alike are strictly and totally ordered.
LEMMA PrecedesIsOrder ==
  ASSUME NEW N \in Nat, NEW a \in [1..N -> Int], NEW b \in [1..N -> Int], NEW c \in [1..N -> Int]
  PROVE  /\ ~Precedes(a, a)
         /\ (\E i \in 1..N : a[i] # b[i]) => Precedes(a, b) \/ Precedes(b, a)
         /\ Precedes(a, b) /\ Precedes(b, c) => Precedes(a, c)
<1>1. ~Precedes(a, a)
  BY DEF Precedes
<1>2. ASSUME \E i \in 1..N : a[i] # b[i] PROVE Precedes(a, b) \/ Precedes(b, a)
  <2> DEFINE D == {i \in 1..N : a[i] # b[i]}
  <2>1. D \subseteq Nat /\ D # {}
    <3>1. D \subseteq Nat
      OBVIOUS
    <3>2. PICK i \in 1..N : a[i] # b[i]
      BY <1>2
    <3>3. i \in D
      BY <3>2
    <3> QED
      BY <3>1, <3>3
  <2>2. PICK i \in D : \A k \in D : i <= k
    <3> HIDE DEF D
    <3> QED
      BY <2>1, LeastOf
  <2>3. \A j \in 1..(i - 1) : a[j] = b[j]
    BY <2>2
  <2>4. a[i] < b[i] \/ b[i] < a[i]
    OBVIOUS
  <2> QED
    BY <2>3, <2>4 DEF Precedes
<1>3. ASSUME Precedes(a, b), Precedes(b, c) PROVE Precedes(a, c)
  <2>1. PICK i \in 1..N : a[i] < b[i] /\ \A j \in 1..(i - 1) : a[j] = b[j]
    BY <1>3 DEF Precedes
  <2>2. PICK k \in 1..N : b[k] < c[k] /\ \A j \in 1..(k - 1) : b[j] = c[j]
    BY <1>3 DEF Precedes
  <2>3. CASE i <= k
    <3>1. a[i] < c[i]
      BY <2>1, <2>2, <2>3
    <3>2. \A j \in 1..(i - 1) : a[j] = c[j]
      BY <2>1, <2>2, <2>3
    <3> QED
      BY <3>1, <3>2 DEF Precedes
  <2>4. CASE k < i
    <3>1. a[k] < c[k]
      BY <2>1, <2>2, <2>4
    <3>2. \A j \in 1..(k - 1) : a[j] = c[j]
      BY <2>1, <2>2, <2>4
    <3> QED
      BY <3>1, <3>2 DEF Precedes
  <2> QED
    BY <2>3, <2>4
<1> QED
  BY <1>1, <1>2, <1>3

\* A changeover key is seven numbers, the last the place of the machine.
LEMMA KeyIsNumbers ==
  ASSUME NEW state, state.weight \in Int, state.tasks \in Int,
         NEW m, machine[m].max \in Nat \ {0}, NEW k \in Int,
         NEW batch, Cardinality(batch) \in Nat, TotalWidth(batch) \in Nat, NEW byCount \in BOOLEAN
  PROVE  /\ ChangeoverKey(state, m, k, batch, byCount) \in [1..7 -> Int]
         /\ ChangeoverKey(state, m, k, batch, byCount)[7] = k
<1> DEFINE signature == Signature(CHOOSE o \in batch : TRUE)
           unused == machine[m].max - TotalWidth(batch)
           known == state.signature # NoSignature
           k1 == Change(known /\ state.signature[1] # signature[1])
           k2 == Change(known /\ state.signature[2] # signature[2])
           k3 == Change(known /\ state.signature[3] # signature[3])
           k4 == Change(known /\ state.width # TotalWidth(batch))
           k5 == (unused * 1000000) \div machine[m].max
           k6 == IF byCount THEN state.tasks + 1 ELSE state.weight + Cardinality(batch)
<1>1. ChangeoverKey(state, m, k, batch, byCount) = <<k1, k2, k3, k4, k5, k6, k>>
  BY DEF ChangeoverKey
<1>2. k1 \in Int /\ k2 \in Int /\ k3 \in Int /\ k4 \in Int
  BY DEF Change
<1>3. k5 \in Int
  OBVIOUS
<1>4. k6 \in Int
  OBVIOUS
<1> HIDE DEF k1, k2, k3, k4, k5, k6
<1> QED
  BY <1>1, <1>2, <1>3, <1>4

-----------------------------------------------------------------------------
(* What remains of a group *)

\* Orders of one group ask for the same, and an incomplete one is alone in its.
LEMMA GroupFacts ==
  ASSUME NEW o, NEW q, GroupKey(o) = GroupKey(q)
  PROVE  /\ orderSpec[o].metre = orderSpec[q].metre
         /\ orderSpec[o].material = orderSpec[q].material
         /\ category[orderSpec[o].product] = category[orderSpec[q].product]
         /\ orderSpec[o].pattern = orderSpec[q].pattern
         /\ Signature(o) = Signature(q)
         /\ o # q => orderSpec[o].material # Incomplete
<1>1. Signature(o) = Signature(q) /\ orderSpec[o].metre = orderSpec[q].metre
      /\ (IF orderSpec[o].material = Incomplete THEN o ELSE NoTask)
         = (IF orderSpec[q].material = Incomplete THEN q ELSE NoTask)
  BY DEF GroupKey
<1>2. /\ orderSpec[o].material = orderSpec[q].material
      /\ category[orderSpec[o].product] = category[orderSpec[q].product]
      /\ orderSpec[o].pattern = orderSpec[q].pattern
  BY <1>1 DEF Signature
<1> QED
  BY <1>1, <1>2

\* As long as an order is to do, a group is in turn.
LEMMA RemainingFacts ==
  ASSUME NEW P, IsFiniteSet(P), NEW place \in Listings(P),
         NEW todo, todo \subseteq Schedulable(place), todo # {}
  PROVE  LET R == Remaining(todo, place) IN
         /\ R \subseteq todo /\ R # {} /\ R \subseteq P
         /\ First(R, place) \in R
         /\ \A o, q \in R : GroupKey(o) = GroupKey(q)
<1> DEFINE group(o) == {q \in Schedulable(place) : GroupKey(q) = GroupKey(o)}
           first(o) == First(group(o), place)
           R == Remaining(todo, place)
<1>1. /\ DOMAIN place = P /\ place \in [P -> Nat]
      /\ \A o, q \in P : place[o] = place[q] => o = q
  BY ListingFacts
<1>2. Schedulable(place) \subseteq P /\ todo \subseteq P
  BY <1>1 DEF Schedulable
<1>3. \A o \in todo : first(o) \in P /\ GroupKey(first(o)) = GroupKey(o) /\ place[first(o)] \in Nat
  <2> SUFFICES ASSUME NEW o \in todo
               PROVE  first(o) \in P /\ GroupKey(first(o)) = GroupKey(o) /\ place[first(o)] \in Nat
    OBVIOUS
  <2>1. group(o) \subseteq P /\ group(o) # {}
    BY <1>2
  <2>2. first(o) \in group(o)
    <3> HIDE DEF group
    <3> QED
      BY <1>1, <2>1, FirstFacts
  <2>3. first(o) \in P /\ GroupKey(first(o)) = GroupKey(o)
    <3> HIDE DEF first
    <3> QED
      BY <1>2, <2>2
  <2> QED
    BY <1>1, <2>3
<1>4. R = {o \in todo : \A q \in todo : place[first(o)] <= place[first(q)]}
  BY DEF Remaining
<1> HIDE DEF first, R
<1>5. \E o \in todo : \A q \in todo : place[first(o)] <= place[first(q)]
  <2> DEFINE T == {place[first(o)] : o \in todo}
  <2>1. T \subseteq Nat /\ T # {}
    BY <1>3
  <2>2. PICK n \in T : \A k \in T : n <= k
    <3> HIDE DEF T
    <3> QED
      BY <2>1, LeastOf
  <2>3. PICK o \in todo : n = place[first(o)]
    BY <2>2
  <2>4. \A q \in todo : place[first(q)] \in T
    OBVIOUS
  <2> HIDE DEF T
  <2> QED
    BY <2>2, <2>3, <2>4
<1>6. R \subseteq todo /\ R # {} /\ R \subseteq P
  BY <1>2, <1>4, <1>5
<1>7. First(R, place) \in R
  BY <1>1, <1>6, FirstFacts
<1>8. \A o, q \in R : GroupKey(o) = GroupKey(q)
  <2> SUFFICES ASSUME NEW o \in R, NEW q \in R PROVE GroupKey(o) = GroupKey(q)
    OBVIOUS
  <2>1. place[first(o)] <= place[first(q)] /\ place[first(q)] <= place[first(o)]
    BY <1>4
  <2>2. place[first(o)] = place[first(q)]
    BY <1>3, <1>6, <2>1
  <2>3. first(o) = first(q)
    BY <1>1, <1>3, <1>6, <2>2
  <2> QED
    BY <1>3, <1>6, <2>3
<1> QED
  BY <1>6, <1>7, <1>8 DEF R

\* Orders that remain of a group may share a task, on a machine that can make
\* the first of them and within whose limits their widths add up.
LEMMA GroupBatchIsValid ==
  ASSUME TypeOK, Specified, NEW P, P \subseteq PendingOrders, NEW place \in Listings(P),
         NEW m \in ActiveMachines, NEW R, R \subseteq Schedulable(place), NEW head \in R,
         \A o, q \in R : GroupKey(o) = GroupKey(q), Compatible(m, head),
         NEW B, B \subseteq R, B # {}, TotalWidth(B) \in machine[m].min..machine[m].max
  PROVE  ValidBatch(m, B)
<1>1. DOMAIN place = P
  BY PlannerReads, ListingFacts
<1>2. \A o \in B : o \in P /\ Width(o) > 0
  BY <1>1 DEF Schedulable
<1>3. \A o \in B : orderSpec[o].width > 0
  BY <1>2 DEF Width
<1>4. \A o \in B : /\ category[orderSpec[o].product] = category[orderSpec[head].product]
                   /\ orderSpec[o].pattern = orderSpec[head].pattern
  BY GroupFacts
<1>5. \A o \in B : /\ category[orderSpec[o].product] \in machine[m].categories
                   /\ orderSpec[o].pattern \in machine[m].patterns \cup {NoPattern}
  BY <1>4 DEF Compatible
<1>6. Mergeable(B)
  <2> SUFFICES ASSUME NEW o \in B, NEW q \in B, o # q
               PROVE  /\ orderSpec[o].metre = orderSpec[q].metre
                      /\ orderSpec[o].material # Incomplete
                      /\ Signature(o) = Signature(q)
    BY DEF Mergeable
  <2>1. GroupKey(o) = GroupKey(q)
    OBVIOUS
  <2> QED
    BY <2>1, GroupFacts
<1>7. machine[m] # NoConfig /\ machine[m].active
  BY DEF ActiveMachines
<1> QED
  BY <1>3, <1>5, <1>6, <1>7 DEF ValidBatch

-----------------------------------------------------------------------------
(* One task of a group *)

\* What PlanBatch considers: the batch of each machine, and the machine to take.
BatchOf(m, remaining, place) ==
  IF Compatible(m, First(remaining, place)) THEN SelectBatch(remaining, m, place) ELSE {}

MachineStates ==
  [weight : Nat, tasks : Nat, signature : {NoSignature} \cup {Signature(o) : o \in Orders},
   width : {TotalWidth(B) : B \in SUBSET Orders}]

\* A batch of a machine is one it may make.
LEMMA BatchOfIsValid ==
  ASSUME TypeOK, Specified, NEW P, P \subseteq PendingOrders, NEW place \in Listings(P),
         NEW todo, todo \subseteq Schedulable(place), todo # {}, NEW m \in ActiveMachines,
         BatchOf(m, Remaining(todo, place), place) # {}
  PROVE  LET B == BatchOf(m, Remaining(todo, place), place) IN
         /\ B \subseteq Remaining(todo, place) /\ B \subseteq P
         /\ ValidBatch(m, B)
         /\ IsFiniteSet(B) /\ Cardinality(B) \in Nat
         /\ TotalWidth(B) \in Nat /\ machine[m].max \in Nat \ {0}
<1> DEFINE R == Remaining(todo, place)
           head == First(R, place)
           B == BatchOf(m, R, place)
<1>1. IsFiniteSet(P)
      /\ machine[m].min \in Int /\ machine[m].max \in Int
      /\ \A o \in P : Width(o) \in Nat
  BY PlannerReads
<1>2. /\ R \subseteq todo /\ R # {} /\ R \subseteq P /\ head \in R
      /\ \A o, q \in R : GroupKey(o) = GroupKey(q)
  BY <1>1, RemainingFacts
<1>3. Compatible(m, head) /\ B = SelectBatch(R, m, place)
  BY DEF BatchOf
<1>4. B \subseteq R /\ TotalWidth(B) \in machine[m].min..machine[m].max
  BY <1>1, <1>2, <1>3, SelectFacts
<1>5. ValidBatch(m, B)
  <2>1. R \subseteq Schedulable(place) /\ B # {}
    BY <1>2
  <2> HIDE DEF R, head, B
  <2> QED
    BY <1>2, <1>3, <1>4, <2>1, GroupBatchIsValid
<1>6. IsFiniteSet(B) /\ Cardinality(B) \in Nat
  BY <1>1, <1>2, <1>4, FS_Subset, FS_CardinalityType
<1>7. TotalWidth(B) \in Nat /\ TotalWidth(B) > 0
  <2>1. PICK o \in B : TRUE
    OBVIOUS
  <2>2. Width(o) > 0 /\ Width(o) \in Nat
    BY <1>1, <1>2, <1>4, <2>1 DEF Schedulable
  <2>3. B \in SUBSET P /\ B \ {o} \in SUBSET P
    BY <1>2, <1>4
  <2>4. /\ TotalWidth(B) \in Nat /\ TotalWidth(B \ {o}) \in Nat
        /\ TotalWidth(B) = Width(o) + TotalWidth(B \ {o})
    BY <1>1, <2>1, <2>3, WidthsAdd
  <2> QED
    BY <2>2, <2>4
<1>8. machine[m].max \in Nat \ {0}
  BY <1>1, <1>4, <1>7
<1> QED
  BY <1>2, <1>4, <1>5, <1>6, <1>7, <1>8

\* Without a batch for any machine, no order of the group can be made alone.
LEMMA NoBatchNoSingles ==
  ASSUME TypeOK, Specified, NEW P, P \subseteq PendingOrders, NEW place \in Listings(P),
         NEW todo, todo \subseteq Schedulable(place), todo # {}, NEW m \in ActiveMachines,
         BatchOf(m, Remaining(todo, place), place) = {}, NEW o \in Remaining(todo, place)
  PROVE  ~ValidBatch(m, {o})
<1> DEFINE R == Remaining(todo, place)
           head == First(R, place)
<1>1. IsFiniteSet(P) /\ machine[m].min \in Int /\ machine[m].max \in Int
  BY PlannerReads
<1>2. /\ R \subseteq P /\ head \in R
      /\ \A p, q \in R : GroupKey(p) = GroupKey(q)
  BY <1>1, RemainingFacts
<1>3. SUFFICES ASSUME ValidBatch(m, {o}) PROVE FALSE
  OBVIOUS
<1>4. Compatible(m, head)
  <2>1. /\ category[orderSpec[o].product] \in machine[m].categories
        /\ orderSpec[o].pattern \in machine[m].patterns \cup {NoPattern}
    BY <1>3 DEF ValidBatch
  <2>2. GroupKey(o) = GroupKey(head)
    BY <1>2
  <2>3. /\ category[orderSpec[o].product] = category[orderSpec[head].product]
        /\ orderSpec[o].pattern = orderSpec[head].pattern
    BY <2>2, GroupFacts
  <2> QED
    BY <2>1, <2>3 DEF Compatible
<1>5. SelectBatch(R, m, place) = {}
  BY <1>4 DEF BatchOf
<1>6. TotalWidth({o}) \notin machine[m].min..machine[m].max
  BY <1>1, <1>2, <1>5, SelectFacts
<1> QED
  BY <1>3, <1>6 DEF ValidBatch

\* With a batch for some machine, one machine comes before all others.
LEMMA BestMachine ==
  ASSUME TypeOK, Specified, NEW P, P \subseteq PendingOrders, NEW place \in Listings(P),
         NEW name \in Listings(ActiveMachines), NEW byCount \in BOOLEAN,
         NEW state \in [ActiveMachines -> MachineStates],
         NEW todo, todo \subseteq Schedulable(place), todo # {},
         NEW batch, \A m \in ActiveMachines : batch[m] = BatchOf(m, Remaining(todo, place), place),
         NEW candidates, candidates \subseteq ActiveMachines, candidates # {},
         \A m \in candidates : batch[m] # {}
  PROVE  LET key(m) == ChangeoverKey(state[m], m, name[m], batch[m], byCount) IN
         \E m \in candidates : \A n \in candidates \ {m} : Precedes(key(m), key(n))
<1> DEFINE R == Remaining(todo, place)
           value(m) == ChangeoverKey(state[m], m, name[m], batch[m], byCount)
           key == [m \in candidates |-> value(m)]
           Order == {mn \in candidates \X candidates : Precedes(key[mn[1]], key[mn[2]])}
<1>1. IsFiniteSet(ActiveMachines) /\ IsFiniteSet(candidates)
  BY PlannerReads, FS_Subset
<1>2. /\ name \in [ActiveMachines -> Nat]
      /\ \A m, n \in ActiveMachines : name[m] = name[n] => m = n
  BY <1>1, ListingFacts
<1>3. \A m \in candidates : key[m] \in [1..7 -> Int] /\ key[m][7] = name[m]
  <2> SUFFICES ASSUME NEW m \in candidates
               PROVE  key[m] \in [1..7 -> Int] /\ key[m][7] = name[m]
    OBVIOUS
  <2> DEFINE B == batch[m]
  <2>1. m \in ActiveMachines /\ B = BatchOf(m, R, place) /\ B # {}
    OBVIOUS
  <2>2. Cardinality(B) \in Nat /\ TotalWidth(B) \in Nat /\ machine[m].max \in Nat \ {0}
    BY <2>1, BatchOfIsValid
  <2>3. state[m].weight \in Int /\ state[m].tasks \in Int
    BY <2>1 DEF MachineStates
  <2>4. name[m] \in Int
    BY <1>2, <2>1
  <2>5. key[m] = ChangeoverKey(state[m], m, name[m], B, byCount)
    OBVIOUS
  <2> HIDE DEF B
  <2> QED
    BY <2>2, <2>3, <2>4, <2>5, KeyIsNumbers
<1>4. \A m, n \in candidates : <<m, n>> \in Order <=> Precedes(key[m], key[n])
  OBVIOUS
<1>5. \A a, b, c \in [1..7 -> Int] :
        /\ ~Precedes(a, a)
        /\ (\E i \in 1..7 : a[i] # b[i]) => Precedes(a, b) \/ Precedes(b, a)
        /\ Precedes(a, b) /\ Precedes(b, c) => Precedes(a, c)
  BY PrecedesIsOrder
<1> HIDE DEF Order, key
<1>6. \A m \in candidates : <<m, m>> \notin Order
  BY <1>3, <1>4, <1>5
<1>7. \A m, n \in candidates : m # n => <<m, n>> \in Order \/ <<n, m>> \in Order
  <2> SUFFICES ASSUME NEW m \in candidates, NEW n \in candidates, m # n
               PROVE  Precedes(key[m], key[n]) \/ Precedes(key[n], key[m])
    BY <1>4
  <2>1. m \in ActiveMachines /\ n \in ActiveMachines
    OBVIOUS
  <2>2. key[m][7] # key[n][7]
    BY <1>2, <1>3, <2>1
  <2>3. \E i \in 1..7 : key[m][i] # key[n][i]
    BY <2>2
  <2>4. key[m] \in [1..7 -> Int] /\ key[n] \in [1..7 -> Int]
    BY <1>3
  <2> QED
    BY <1>5, <2>3, <2>4
<1>8. \A m, n, l \in candidates : <<m, n>> \in Order /\ <<n, l>> \in Order => <<m, l>> \in Order
  BY <1>3, <1>4, <1>5
<1>9. \E m \in candidates : \A n \in candidates \ {m} : <<m, n>> \in Order
  <2>1. IsFiniteSet(candidates)
    BY <1>1
  <2> QED
    BY ONLY candidates # {}, <2>1, <1>6, <1>7, <1>8, FirstOfOrder
<1>10. \A m \in candidates : key[m] = value(m)
  BY DEF key
<1>11. PICK m \in candidates : \A n \in candidates \ {m} : <<m, n>> \in Order
  BY <1>9
<1>12. \A n \in candidates \ {m} : Precedes(key[m], key[n])
  BY <1>4, <1>11
<1> HIDE DEF value
<1>13. \A n \in candidates \ {m} : Precedes(value(m), value(n))
  BY <1>10, <1>12
<1> QED
  BY <1>13 DEF value

-----------------------------------------------------------------------------
(* What every round keeps *)

RoundTypes(P) ==
  [tasks : Seq(Batches(P)), unassigned : SUBSET P,
   todo : SUBSET P, state : [ActiveMachines -> MachineStates]]

Planned(tasks) == UNION {tasks[k].orders : k \in DOMAIN tasks}

\* The inductive invariant of the rounds.
RoundInv(plan, P, place) ==
  /\ plan \in RoundTypes(P)
  /\ plan.todo \subseteq Schedulable(place)
  /\ \A i, j \in DOMAIN plan.tasks : i # j => plan.tasks[i].orders \cap plan.tasks[j].orders = {}
  /\ Planned(plan.tasks) \cup plan.unassigned \cup plan.todo = P
  /\ Planned(plan.tasks) \cap plan.unassigned = {}
  /\ Planned(plan.tasks) \cap plan.todo = {}
  /\ plan.unassigned \cap plan.todo = {}
  /\ Len(plan.tasks) <= Cardinality(Planned(plan.tasks))
  /\ \A o \in plan.unassigned, m \in ActiveMachines : ~ValidBatch(m, {o})

\* One more task: it takes its orders from those not planned yet.
LEMMA TaskAppended ==
  ASSUME NEW P, IsFiniteSet(P), NEW T, \A b \in T : b.orders \in SUBSET P,
         NEW tasks \in Seq(T), NEW b \in T, b.orders # {},
         b.orders \cap Planned(tasks) = {},
         \A i, j \in DOMAIN tasks : i # j => tasks[i].orders \cap tasks[j].orders = {},
         Len(tasks) <= Cardinality(Planned(tasks))
  PROVE  LET new == Append(tasks, b) IN
         /\ new \in Seq(T)
         /\ Planned(new) = Planned(tasks) \cup b.orders
         /\ \A i, j \in DOMAIN new : i # j => new[i].orders \cap new[j].orders = {}
         /\ Len(new) <= Cardinality(Planned(new))
<1> DEFINE new == Append(tasks, b)
           L == Len(tasks)
<1>1. /\ new \in Seq(T) /\ L \in Nat /\ Len(new) = L + 1
      /\ DOMAIN tasks = 1..L /\ DOMAIN new = 1..(L + 1)
      /\ \A k \in 1..L : new[k] = tasks[k]
      /\ new[L + 1] = b
  OBVIOUS
<1> HIDE DEF new, L
<1>2. \A k \in 1..(L + 1) : k \in 1..L \/ k = L + 1
  BY <1>1
<1>3. \A k \in 1..L : k \in 1..(L + 1) /\ tasks[k].orders \subseteq Planned(tasks)
  BY <1>1 DEF Planned
<1>4. L + 1 \in 1..(L + 1)
  BY <1>1
<1>5. Planned(new) = Planned(tasks) \cup b.orders
  <2>1. \A o \in Planned(new) : o \in Planned(tasks) \cup b.orders
    BY <1>1, <1>2 DEF Planned
  <2>2. \A o \in Planned(tasks) : o \in Planned(new)
    BY <1>1, <1>3 DEF Planned
  <2>3. \A o \in b.orders : o \in Planned(new)
    BY <1>1, <1>4 DEF Planned
  <2> QED
    BY <2>1, <2>2, <2>3
<1>6. \A i, j \in 1..(L + 1) : i # j => new[i].orders \cap new[j].orders = {}
  <2> SUFFICES ASSUME NEW i \in 1..(L + 1), NEW j \in 1..(L + 1), i # j
               PROVE  new[i].orders \cap new[j].orders = {}
    OBVIOUS
  <2>1. CASE i \in 1..L /\ j \in 1..L
    BY <1>1, <2>1
  <2>2. CASE i \in 1..L /\ j = L + 1
    BY <1>1, <1>3, <2>2
  <2>3. CASE i = L + 1 /\ j \in 1..L
    BY <1>1, <1>3, <2>3
  <2> QED
    BY <1>2, <2>1, <2>2, <2>3
<1>7. L + 1 <= Cardinality(Planned(new))
  <2>1. Planned(tasks) \subseteq P
    BY <1>1 DEF Planned
  <2>2. PICK o \in b.orders : o \notin Planned(tasks)
    OBVIOUS
  <2>3. o \in P /\ b.orders \subseteq P
    BY <2>2
  <2>4. IsFiniteSet(Planned(tasks)) /\ IsFiniteSet(Planned(new))
    BY <1>5, <2>1, <2>3, FS_Subset
  <2>5. Cardinality(Planned(tasks) \cup {o}) = Cardinality(Planned(tasks)) + 1
        /\ IsFiniteSet(Planned(tasks) \cup {o})
    BY <2>2, <2>4, FS_AddElement
  <2>6. Planned(tasks) \cup {o} \subseteq Planned(new)
    BY <1>5, <2>2
  <2>7. Cardinality(Planned(tasks) \cup {o}) <= Cardinality(Planned(new))
    BY <2>4, <2>6, FS_Subset
  <2>8. Cardinality(Planned(tasks)) \in Nat /\ Cardinality(Planned(new)) \in Nat
    BY <2>4, FS_CardinalityType
  <2> QED
    BY <1>1, <2>5, <2>7, <2>8 DEF L
<1> QED
  BY <1>1, <1>5, <1>6, <1>7 DEF new

\* A round keeps the invariant, and while an order is to do it deals with one.
LEMMA PlanBatchStep ==
  ASSUME TypeOK, Specified, NEW P, P \subseteq PendingOrders, NEW place \in Listings(P),
         NEW name \in Listings(ActiveMachines), NEW byCount \in BOOLEAN,
         NEW plan, RoundInv(plan, P, place)
  PROVE  LET next == PlanBatch(plan, place, name, byCount) IN
         /\ RoundInv(next, P, place)
         /\ next.todo \subseteq plan.todo
         /\ plan.todo # {} => next.todo # plan.todo
<1> DEFINE next == PlanBatch(plan, place, name, byCount)
           R == Remaining(plan.todo, place)
           head == First(R, place)
           batch == [m \in ActiveMachines |-> BatchOf(m, R, place)]
           candidates == {m \in ActiveMachines : batch[m] # {}}
           key(m) == ChangeoverKey(plan.state[m], m, name[m], batch[m], byCount)
           best == CHOOSE m \in candidates : \A n \in candidates \ {m} : Precedes(key(m), key(n))
           B == batch[best]
<1>1. /\ plan \in RoundTypes(P) /\ plan.todo \subseteq Schedulable(place)
      /\ IsFiniteSet(P)
  BY PlannerReads DEF RoundInv
<1>2. plan.todo = {} => next = plan
  BY DEF PlanBatch
<1>3. plan.todo # {} /\ candidates = {} =>
        next = [plan EXCEPT !.todo = @ \ R, !.unassigned = @ \cup R]
  BY Zenon DEF PlanBatch, BatchOf
<1>4. plan.todo # {} /\ candidates # {} =>
        next = [plan EXCEPT
                  !.tasks = Append(@, Batch(best, B)),
                  !.state[best] = [weight |-> @.weight + Cardinality(B), tasks |-> @.tasks + 1,
                                   signature |-> Signature(head), width |-> TotalWidth(B)],
                  !.todo = @ \ B]
  BY DEF PlanBatch, BatchOf
<1>5. ASSUME plan.todo # {}
      PROVE  R \subseteq plan.todo /\ R # {} /\ R \subseteq P /\ head \in R
  BY <1>1, <1>5, RemainingFacts
<1>6. \A m \in ActiveMachines : batch[m] = BatchOf(m, R, place)
  OBVIOUS
<1> SUFFICES /\ RoundInv(next, P, place) /\ next.todo \subseteq plan.todo
             /\ plan.todo # {} => next.todo # plan.todo
  OBVIOUS
<1> HIDE DEF next, R, head, batch, best, B
<1>7. CASE plan.todo = {}
  BY <1>2, <1>7
<1>8. CASE plan.todo # {} /\ candidates = {}
  <2>1. /\ next.tasks = plan.tasks /\ next.state = plan.state
        /\ next.todo = plan.todo \ R /\ next.unassigned = plan.unassigned \cup R
        /\ next \in RoundTypes(P)
    BY <1>1, <1>3, <1>5, <1>8 DEF RoundTypes
  <2>2. \A o \in R, m \in ActiveMachines : ~ValidBatch(m, {o})
    <3> SUFFICES ASSUME NEW o \in R, NEW m \in ActiveMachines PROVE ~ValidBatch(m, {o})
      OBVIOUS
    <3>1. BatchOf(m, R, place) = {}
      BY <1>6, <1>8
    <3> QED
      BY <1>1, <1>8, <3>1, NoBatchNoSingles DEF R
  <2> QED
    BY <1>5, <1>8, <2>1, <2>2 DEF RoundInv
<1>9. CASE plan.todo # {} /\ candidates # {}
  <2>1. best \in candidates
    <3>1. \A m \in ActiveMachines : batch[m] = BatchOf(m, Remaining(plan.todo, place), place)
      BY <1>6 DEF R
    <3>2. plan.state \in [ActiveMachines -> MachineStates]
      BY <1>1 DEF RoundTypes
    <3>3. candidates \subseteq ActiveMachines /\ candidates # {} /\ \A m \in candidates : batch[m] # {}
      BY <1>9
    <3> HIDE DEF candidates
    <3>4. \E m \in candidates : \A n \in candidates \ {m} : Precedes(key(m), key(n))
      BY <1>1, <1>9, <3>1, <3>2, <3>3, BestMachine
    <3> HIDE DEF key
    <3> QED
      BY <3>4 DEF best
  <2>2. best \in ActiveMachines /\ B = BatchOf(best, R, place) /\ B # {}
    BY <1>6, <2>1 DEF B
  <2>3. /\ B \subseteq R /\ B \subseteq P /\ ValidBatch(best, B)
        /\ Cardinality(B) \in Nat
    BY <1>1, <1>9, <2>2, BatchOfIsValid DEF R
  <2>4. Batch(best, B) \in Batches(P) /\ Batch(best, B).orders = B
    BY <2>2, <2>3 DEF Batches, Batch
  <2> DEFINE state == [plan.state EXCEPT ![best] =
                         [weight |-> @.weight + Cardinality(B), tasks |-> @.tasks + 1,
                          signature |-> Signature(head), width |-> TotalWidth(B)]]
  <2>5. state \in [ActiveMachines -> MachineStates]
    <3>1. head \in Orders /\ B \in SUBSET Orders
      BY <1>5, <1>9, <2>3, PlannerReads
    <3>2. plan.state \in [ActiveMachines -> MachineStates]
      BY <1>1 DEF RoundTypes
    <3>3. plan.state[best].weight \in Nat /\ plan.state[best].tasks \in Nat
      BY <2>2, <3>2 DEF MachineStates
    <3>4. [weight |-> plan.state[best].weight + Cardinality(B), tasks |-> plan.state[best].tasks + 1,
           signature |-> Signature(head), width |-> TotalWidth(B)] \in MachineStates
      BY <2>3, <3>1, <3>3 DEF MachineStates
    <3> QED
      BY <3>2, <3>4
  <2>6. /\ next.tasks = Append(plan.tasks, Batch(best, B)) /\ next.unassigned = plan.unassigned
        /\ next.todo = plan.todo \ B /\ next.state = state
        /\ next = [tasks |-> next.tasks, unassigned |-> next.unassigned,
                   todo |-> next.todo, state |-> next.state]
    BY <1>1, <1>4, <1>9 DEF RoundTypes
  <2> HIDE DEF state
  <2>7. /\ next.tasks \in Seq(Batches(P))
        /\ Planned(next.tasks) = Planned(plan.tasks) \cup B
        /\ \A i, j \in DOMAIN next.tasks :
             i # j => next.tasks[i].orders \cap next.tasks[j].orders = {}
        /\ Len(next.tasks) <= Cardinality(Planned(next.tasks))
    <3>1. \A b \in Batches(P) : b.orders \in SUBSET P
      BY DEF Batches, Batch
    <3>2. plan.tasks \in Seq(Batches(P))
      BY <1>1 DEF RoundTypes
    <3>3. B \cap Planned(plan.tasks) = {}
      BY <1>5, <1>9, <2>3 DEF RoundInv
    <3>4. /\ \A i, j \in DOMAIN plan.tasks :
               i # j => plan.tasks[i].orders \cap plan.tasks[j].orders = {}
          /\ Len(plan.tasks) <= Cardinality(Planned(plan.tasks))
      BY DEF RoundInv
    <3> DEFINE b == Batch(best, B)
    <3>5. b \in Batches(P) /\ b.orders = B
      BY <2>4
    <3> HIDE DEF b
    <3>6. LET new == Append(plan.tasks, b) IN
          /\ new \in Seq(Batches(P))
          /\ Planned(new) = Planned(plan.tasks) \cup b.orders
          /\ \A i, j \in DOMAIN new : i # j => new[i].orders \cap new[j].orders = {}
          /\ Len(new) <= Cardinality(Planned(new))
      BY <1>1, <2>2, <3>1, <3>2, <3>3, <3>4, <3>5, TaskAppended
    <3> QED
      BY <2>6, <3>5, <3>6 DEF b
  <2>8. next \in RoundTypes(P)
    <3>1. next.unassigned \in SUBSET P /\ next.todo \in SUBSET P
      BY <1>1, <2>6 DEF RoundTypes
    <3> QED
      BY <2>5, <2>6, <2>7, <3>1 DEF RoundTypes
  <2>9. B \subseteq plan.todo
    BY <1>5, <1>9, <2>3
  <2> QED
    BY <2>2, <2>6, <2>7, <2>8, <2>9 DEF RoundInv
<1> QED
  BY <1>7, <1>8, <1>9

-----------------------------------------------------------------------------
(* All rounds *)

\* What BuildTasks starts from.
Started(place) ==
  [tasks |-> <<>>, unassigned |-> DOMAIN place \ Schedulable(place),
   todo |-> Schedulable(place), state |-> [m \in ActiveMachines |-> MachineState(m)]]

LEMMA StartedFacts ==
  ASSUME TypeOK, Specified, NEW P, P \subseteq PendingOrders, NEW place \in Listings(P)
  PROVE  RoundInv(Started(place), P, place)
<1> DEFINE plan == Started(place)
<1>1. DOMAIN place = P /\ IsFiniteSet(P) /\ \A o \in P : Width(o) \in Nat
  BY PlannerReads, ListingFacts
<1>2. Schedulable(place) \subseteq P
  BY <1>1 DEF Schedulable
<1>3. \A m \in ActiveMachines : MachineState(m) \in MachineStates
  <2> SUFFICES ASSUME NEW m \in ActiveMachines PROVE MachineState(m) \in MachineStates
    OBVIOUS
  <2> DEFINE last == {t \in Queue(m) : OrdersOf(t) # {} /\
                        Rank(t, Queue(m), taskPosition) = Cardinality(Queue(m))}
             orders == UNION {OrdersOf(t) : t \in last}
             queued == UNION {OrdersOf(t) : t \in Queue(m)}
             signature == IF orders = {} THEN NoSignature ELSE Signature(CHOOSE o \in orders : TRUE)
  <2>1. queued \subseteq Orders /\ orders \subseteq Orders
    BY DEF OrdersOf
  <2>2. Cardinality(queued) \in Nat
    BY <2>1, BoardConstants, FS_Subset, FS_CardinalityType
  <2>3. Cardinality(Queue(m)) \in Nat
    <3>1. Queue(m) \subseteq Tasks
      BY DEF Queue
    <3> QED
      BY <3>1, BoardConstants, FS_Subset, FS_CardinalityType
  <2>4. signature \in {NoSignature} \cup {Signature(o) : o \in Orders}
    <3> HIDE DEF orders
    <3> QED
      BY <2>1
  <2>5. MachineState(m) = [weight |-> Cardinality(queued), tasks |-> Cardinality(Queue(m)),
                           signature |-> signature, width |-> TotalWidth(orders)]
    BY DEF MachineState
  <2> HIDE DEF last, orders, queued, signature
  <2> QED
    BY <2>1, <2>2, <2>3, <2>4, <2>5 DEF MachineStates
<1>4. /\ plan.tasks = <<>> /\ plan.unassigned = P \ Schedulable(place)
      /\ plan.todo = Schedulable(place)
      /\ plan \in RoundTypes(P)
  <2>1. [m \in ActiveMachines |-> MachineState(m)] \in [ActiveMachines -> MachineStates]
    BY <1>3
  <2>2. <<>> \in Seq(Batches(P))
    OBVIOUS
  <2> QED
    BY <1>1, <1>2, <2>1, <2>2 DEF RoundTypes, Started
<1>5. Planned(plan.tasks) = {} /\ Len(plan.tasks) = 0 /\ DOMAIN plan.tasks = {}
  BY <1>4 DEF Planned
<1>6. \A o \in P \ Schedulable(place), m \in ActiveMachines : ~ValidBatch(m, {o})
  BY <1>1 DEF ValidBatch, Schedulable, Width
<1>7. Len(plan.tasks) <= Cardinality(Planned(plan.tasks))
  BY <1>5, FS_EmptySet
<1> HIDE DEF plan
<1> QED
  BY <1>2, <1>4, <1>5, <1>6, <1>7 DEF RoundInv, plan

\* What BuildTasks computes: the plan after each round.
Rounds(g, place, name) ==
  g = [n \in 0..Cardinality(DOMAIN place) |->
         IF n = 0 THEN Started(place)
         ELSE PlanBatch(g[n - 1], place, name, ByTaskCount(DOMAIN place))]

LEMMA RoundsExist ==
  ASSUME TypeOK, Specified, NEW P, P \subseteq PendingOrders, NEW place \in Listings(P),
         NEW name \in Listings(ActiveMachines)
  PROVE  \E g : Rounds(g, place, name)
<1> DEFINE N == Cardinality(DOMAIN place)
           byCount == ByTaskCount(DOMAIN place)
           start == Started(place)
           V == {plan \in RoundTypes(P) : RoundInv(plan, P, place)}
           next(plan) == PlanBatch(plan, place, name, byCount)
           step == [pi \in V \X Nat |-> next(pi[1])]
<1>1. N \in Nat
  BY PlannerReads, ListingFacts
<1>2. byCount \in BOOLEAN
  BY DEF ByTaskCount
<1>3. start \in V
  BY StartedFacts DEF RoundInv
<1>4. \A plan \in V : next(plan) \in V
  <2> SUFFICES ASSUME NEW plan \in V PROVE next(plan) \in V
    OBVIOUS
  <2>1. RoundInv(next(plan), P, place)
    BY <1>2, PlanBatchStep
  <2> QED
    BY <2>1 DEF RoundInv
<1> HIDE DEF N, start, V, next
<1>5. step \in [V \X Nat -> V] /\ \A plan \in V, i \in Nat : step[<<plan, i>>] = next(plan)
  BY <1>4
<1> HIDE DEF step
<1>6. PICK g : RunOf(g, V, start, step, N)
  BY <1>1, <1>3, <1>5, RunsExist
<1>7. \A i \in 0..N : g[i] = IF i = 0 THEN start ELSE next(g[i - 1])
  <2> SUFFICES ASSUME NEW i \in 0..N, i # 0 PROVE g[i] = next(g[i - 1])
    BY <1>6 DEF RunOf
  <2>1. i - 1 \in 0..N /\ i \in Nat
    BY <1>1
  <2> QED
    BY <1>5, <1>6, <2>1 DEF RunOf
<1>8. g = [i \in 0..N |-> g[i]]
  BY <1>6 DEF RunOf
<1>9. g = [i \in 0..N |-> IF i = 0 THEN start ELSE next(g[i - 1])]
  BY <1>7, <1>8
<1> QED
  BY <1>9 DEF Rounds, N, start, next

\* Every plan is one that keeps the invariant and leaves nothing to do.
LEMMA BuildTasksFacts ==
  ASSUME TypeOK, Specified, NEW P, P \subseteq PendingOrders, NEW place \in Listings(P),
         NEW name \in Listings(ActiveMachines)
  PROVE  LET plan == BuildTasks(place, name) IN RoundInv(plan, P, place) /\ plan.todo = {}
<1> DEFINE N == Cardinality(DOMAIN place)
           byCount == ByTaskCount(DOMAIN place)
           g == CHOOSE f : Rounds(f, place, name)
           S == {i \in Nat : i <= N => RoundInv(g[i], P, place) /\ Cardinality(g[i].todo) <= N - i}
<1>1. /\ IsFiniteSet(P) /\ DOMAIN place = P
      /\ N = Cardinality(P) /\ N \in Nat
  BY PlannerReads, ListingFacts
<1>2. byCount \in BOOLEAN
  BY DEF ByTaskCount
<1>3. BuildTasks(place, name) = g[N]
  BY DEF BuildTasks, Rounds, Started
<1>4. \A i \in 0..N : g[i] = IF i = 0 THEN Started(place)
                             ELSE PlanBatch(g[i - 1], place, name, byCount)
  <2>1. Rounds(g, place, name)
    BY RoundsExist
  <2> HIDE DEF g
  <2> QED
    BY <2>1 DEF Rounds
<1> HIDE DEF g, byCount, N
<1>5. \A i : RoundInv(g[i], P, place) =>
        g[i].todo \subseteq P /\ IsFiniteSet(g[i].todo) /\ Cardinality(g[i].todo) \in Nat
  BY <1>1, FS_Subset, FS_CardinalityType DEF RoundInv, RoundTypes
<1>6. 0 \in S
  <2>1. g[0] = Started(place)
    BY <1>1, <1>4
  <2>2. RoundInv(g[0], P, place)
    BY <2>1, StartedFacts
  <2>3. Cardinality(g[0].todo) <= N
    BY <1>1, <1>5, <2>2, FS_Subset
  <2> QED
    BY <1>1, <2>2, <2>3
<1>7. ASSUME NEW i \in Nat, i \in S PROVE i + 1 \in S
  <2> SUFFICES ASSUME i + 1 <= N
               PROVE  RoundInv(g[i + 1], P, place) /\ Cardinality(g[i + 1].todo) <= N - (i + 1)
    OBVIOUS
  <2>1. RoundInv(g[i], P, place) /\ Cardinality(g[i].todo) <= N - i
    BY <1>1, <1>7
  <2>2. g[i + 1] = PlanBatch(g[i], place, name, byCount)
    BY <1>1, <1>4
  <2>3. /\ RoundInv(g[i + 1], P, place) /\ g[i + 1].todo \subseteq g[i].todo
        /\ g[i].todo # {} => g[i + 1].todo # g[i].todo
    BY <1>2, <2>1, <2>2, PlanBatchStep
  <2>4. /\ IsFiniteSet(g[i].todo) /\ Cardinality(g[i].todo) \in Nat
        /\ Cardinality(g[i + 1].todo) \in Nat
    BY <1>5, <2>1, <2>3
  <2>5. CASE g[i].todo = {}
    <3>1. g[i + 1].todo = {}
      BY <2>3, <2>5
    <3> QED
      BY <1>1, <2>3, <3>1, FS_EmptySet
  <2>6. CASE g[i].todo # {}
    <3>1. Cardinality(g[i + 1].todo) < Cardinality(g[i].todo)
      BY <2>3, <2>4, <2>6, FS_Subset
    <3> QED
      BY <1>1, <2>1, <2>3, <2>4, <3>1
  <2> QED
    BY <2>5, <2>6
<1>8. N \in S
  <2> HIDE DEF S
  <2> QED
    BY <1>1, <1>6, <1>7, NumbersInTurn
<1>9. RoundInv(g[N], P, place) /\ Cardinality(g[N].todo) <= 0
  BY <1>1, <1>8
<1>10. g[N].todo = {}
  BY <1>5, <1>9, FS_EmptySet
<1> QED
  BY <1>3, <1>9, <1>10

-----------------------------------------------------------------------------
(* What the planner promises *)

LEMMA ProposalsKeepPromises ==
  TypeOK /\ Specified => ProposalsAreConfirmable /\ ProducibleOrdersPlanned
<1> SUFFICES ASSUME TypeOK, Specified, NEW P \in SUBSET PendingOrders, NEW plan \in Proposals(P)
             PROVE  /\ plan.tasks \in TaskLists(P)
                    /\ Planned(plan.tasks) \cap plan.unassigned = {}
                    /\ Planned(plan.tasks) \cup plan.unassigned = P
                    /\ \A o \in plan.unassigned, m \in ActiveMachines : ~ValidBatch(m, {o})
  BY DEF ProposalsAreConfirmable, ProducibleOrdersPlanned, Planned
<1>1. PICK place \in Listings(P), name \in Listings(ActiveMachines) :
        plan = BuildTasks(place, name)
  BY DEF Proposals
<1>2. RoundInv(plan, P, place) /\ plan.todo = {}
  BY <1>1, BuildTasksFacts
<1>3. Planned(plan.tasks) \subseteq P /\ plan.tasks \in Seq(Batches(P))
  BY <1>2 DEF RoundInv, RoundTypes
<1>4. Len(plan.tasks) \in 0..Cardinality(P)
  <2>1. IsFiniteSet(P)
    BY PlannerReads
  <2>2. /\ Cardinality(Planned(plan.tasks)) <= Cardinality(P)
        /\ Cardinality(Planned(plan.tasks)) \in Nat /\ Cardinality(P) \in Nat
    BY <1>3, <2>1, FS_Subset, FS_CardinalityType
  <2>3. Len(plan.tasks) \in Nat
    BY <1>3
  <2> QED
    BY <1>2, <2>2, <2>3 DEF RoundInv
<1>5. plan.tasks \in SeqOf(Batches(P), Cardinality(P))
  <2>1. plan.tasks \in [1..Len(plan.tasks) -> Batches(P)]
    BY <1>3
  <2> QED
    BY <1>4, <2>1 DEF SeqOf
<1>6. plan.tasks \in TaskLists(P)
  BY <1>2, <1>5 DEF TaskLists, RoundInv
<1> QED
  BY <1>2, <1>6 DEF RoundInv

\* Every order that is there says what it asks for, on every board.
LEMMA SpecifiedAlways == Spec => []Specified
<1>1. Init => Specified
  BY DEF Init, Specified
<1>2. QED
  BY <1>1, SpecifiedStep, TypeCorrect, StatusesAgree, PTL DEF Spec

\* However the orders and machines are listed, a proposal of the planner for
\* any selection of the pending orders can be confirmed as it is, and it accounts
\* for each of them once.
THEOREM ProposalsCanBeConfirmed == Spec => []ProposalsAreConfirmable
BY ProposalsKeepPromises, TypeCorrect, SpecifiedAlways, PTL

\* An order that some machine could make alone is never left out.
THEOREM ProducibleOrdersArePlanned == Spec => []ProducibleOrdersPlanned
BY ProposalsKeepPromises, TypeCorrect, SpecifiedAlways, PTL
=============================================================================
