------------------------------ MODULE Planner ------------------------------
(***************************************************************************)
(* The planner of schedule plans: from the pending orders and the active   *)
(* machines of a board it computes, without any state of its own, the      *)
(* tasks to propose and the orders it leaves out                           *)
(* (services/scheduling/planner.py).  Its properties are invariants of the *)
(* board: they say of every board that can arise what would be proposed.   *)
(*                                                                         *)
(* The database hands over orders by creation and machines by name, both   *)
(* then by id; here any order of either is considered, given by the place  *)
(* of each row in its list.  Quantities are left out: an order in a unit   *)
(* of weight weighs 1.                                                     *)
(***************************************************************************)
EXTENDS ProductionBoard, Sequences, SequencesExt

\* load_orders and load_machines.
PendingOrders == {o \in Orders : orderStatus[o] = "PENDING" /\ orderTask[o] = NoTask}
ActiveMachines == {m \in Machines : machine[m] # NoConfig /\ machine[m].active}

\* What may stand in a plan: batches a machine can make, no order in two of them.
Batch(m, S) == [machine |-> m, orders |-> S]

Batches(S) ==
  {b \in {Batch(m, B) : m \in ActiveMachines, B \in SUBSET S} : ValidBatch(b.machine, b.orders)}

TaskLists(S) ==
  {list \in SeqOf(Batches(S), Cardinality(S)) :
     \A i, j \in DOMAIN list : i # j => list[i].orders \cap list[j].orders = {}}

Width(o) == orderSpec[o].width

\* load_basis: "TASK_COUNT" as soon as one order has no weight.
ByTaskCount(S) ==
  \E o \in S \cup UNION {OrdersOf(t) : t \in UNION {Queue(m) : m \in ActiveMachines}} :
    orderSpec[o].metre

-----------------------------------------------------------------------------
(* What the planner knows of a machine: its load, and what it made last *)

NoSignature == <<>>

\* _last_task_signature and _machine_states.
MachineState(m) ==
  LET last == {t \in Queue(m) : OrdersOf(t) # {} /\
                  Rank(t, Queue(m), taskPosition) = Cardinality(Queue(m))}
      orders == UNION {OrdersOf(t) : t \in last}
  IN
  [weight    |-> Cardinality(UNION {OrdersOf(t) : t \in Queue(m)}),
   tasks     |-> Cardinality(Queue(m)),
   signature |-> IF orders = {} THEN NoSignature ELSE Signature(CHOOSE o \in orders : TRUE),
   width     |-> TotalWidth(orders)]

\* _machine_compatible, for an active machine.
Compatible(m, o) ==
  /\ category[orderSpec[o].product] \in machine[m].categories
  /\ orderSpec[o].pattern \in machine[m].patterns \cup {NoPattern}

\* 1 for a change of the machine's setting, 0 otherwise.
Change(b) == IF b THEN 1 ELSE 0

\* _changeover_key, compared from left to right; k is
\* the place of the machine by name.  "material" is the formula together with the thickness.
ChangeoverKey(state, m, k, batch, byCount) ==
  LET signature == Signature(CHOOSE o \in batch : TRUE)
      unused == machine[m].max - TotalWidth(batch)
      known == state.signature # NoSignature
  IN
  <<Change(known /\ state.signature[1] # signature[1]),
    Change(known /\ state.signature[2] # signature[2]),
    Change(known /\ state.signature[3] # signature[3]),
    Change(known /\ state.width # TotalWidth(batch)),
    (unused * 1000000) \div machine[m].max,
    IF byCount THEN state.tasks + 1 ELSE state.weight + Cardinality(batch),
    k>>

Precedes(a, b) ==
  \E i \in DOMAIN a : a[i] < b[i] /\ \A j \in 1..(i - 1) : a[j] = b[j]

-----------------------------------------------------------------------------
(* Lists of rows *)

\* Every order in which the rows S may be listed: place[o] is that of row o.
Listings(S) == Bijection(S, 1..Cardinality(S))

\* The first of the rows S.
First(S, place) == CHOOSE o \in S : \A q \in S : place[o] <= place[q]

-----------------------------------------------------------------------------
(* _select_batch: the orders of a group that one machine makes together *)

\* Mutation of Fits: the width of the batch may exceed the machine's.
FitsAlone(o, width, m) == Width(o) <= machine[m].max
Fits(o, width, m) == width + Width(o) <= machine[m].max

\* The batch around one order: the others join in their order when they fit.
Filled(remaining, anchor, m, place) ==
  LET batch[i \in 0..Cardinality(DOMAIN place)] ==
        IF i = 0 THEN {anchor}
        ELSE batch[i - 1] \cup {o \in remaining \ {anchor} :
                                  place[o] = i /\ Fits(o, TotalWidth(batch[i - 1]), m)}
  IN batch[Cardinality(DOMAIN place)]

\* Mutation of Anchors: only the earliest order is tried.
AnchorsFirst(remaining, m, place) ==
  {o \in {First(remaining, place)} : Width(o) <= machine[m].max}
Anchors(remaining, m, place) == {o \in remaining : Width(o) <= machine[m].max}

\* Of two batches the wider one, then the one whose orders come earlier.
Better(B, C, place) ==
  \/ TotalWidth(B) > TotalWidth(C)
  \/ /\ TotalWidth(B) = TotalWidth(C)
     /\ \E o \in B \ C : \A q \in C \ B : place[o] < place[q]

\* The best batch of the machine, or the empty one.
SelectBatch(remaining, m, place) ==
  LET batches == {B \in {Filled(remaining, o, m, place) : o \in Anchors(remaining, m, place)} :
                    TotalWidth(B) >= machine[m].min}
  IN IF batches = {} THEN {}
     ELSE CHOOSE B \in batches : \A C \in batches \ {B} : Better(B, C, place)

-----------------------------------------------------------------------------
(* build_tasks *)

\* Mutation of GroupKey: orders in metres and by weight are grouped together.
GroupKeyMixedUnits(o) ==
  <<Signature(o), IF orderSpec[o].material = Incomplete THEN o ELSE NoTask>>

\* Orders without material or thickness are not merged with any other.
GroupKey(o) ==
  <<Signature(o), orderSpec[o].metre, IF orderSpec[o].material = Incomplete THEN o ELSE NoTask>>

Schedulable(place) == {o \in DOMAIN place : Width(o) > 0}

\* Groups come by their first order, each until nothing remains of it: this is
\* what remains of the group in turn.
Remaining(todo, place) ==
  LET first(o) == First({q \in Schedulable(place) : GroupKey(q) = GroupKey(o)}, place)
  IN {o \in todo : \A q \in todo : place[first(o)] <= place[first(q)]}

\* One task of the group, for the machine with the least changeover; without a
\* candidate the rest of the group stays unassigned.
PlanBatch(plan, place, name, byCount) ==
  LET remaining == Remaining(plan.todo, place)
      head == First(remaining, place)
      batch == [m \in ActiveMachines |->
                  IF Compatible(m, head) THEN SelectBatch(remaining, m, place) ELSE {}]
      candidates == {m \in ActiveMachines : batch[m] # {}}
      key(m) == ChangeoverKey(plan.state[m], m, name[m], batch[m], byCount)
      best == CHOOSE m \in candidates : \A n \in candidates \ {m} : Precedes(key(m), key(n))
      B == batch[best]
  IN
  CASE plan.todo = {} -> plan
    [] plan.todo # {} /\ candidates = {} ->
         [plan EXCEPT !.todo = @ \ remaining, !.unassigned = @ \cup remaining]
    [] plan.todo # {} /\ candidates # {} ->
         [plan EXCEPT
            !.tasks = Append(@, Batch(best, B)),
            !.state[best] = [weight |-> @.weight + Cardinality(B), tasks |-> @.tasks + 1,
                             signature |-> Signature(head), width |-> TotalWidth(B)],
            !.todo = @ \ B]

\* Each round takes an order off the list, so at the latest after as many rounds
\* as there are orders nothing is left to do.
BuildTasks(place, name) ==
  LET rounds == Cardinality(DOMAIN place)
      byCount == ByTaskCount(DOMAIN place)
      plan[n \in 0..rounds] ==
        IF n = 0
          THEN [tasks |-> <<>>, unassigned |-> DOMAIN place \ Schedulable(place),
                todo |-> Schedulable(place), state |-> [m \in ActiveMachines |-> MachineState(m)]]
          ELSE PlanBatch(plan[n - 1], place, name, byCount)
  IN plan[rounds]

-----------------------------------------------------------------------------
(* What the planner promises, on every board *)

\* create_schedule_plan: every plan for the selected orders S, however they and
\* the machines are listed.
Proposals(S) ==
  {BuildTasks(place, name) : place \in Listings(S), name \in Listings(ActiveMachines)}

\* A proposal for any selection of the pending orders can be confirmed as it is:
\* every task is a batch its machine may make, by the rules that manual scheduling
\* follows, although planner and rules are different code; and each selected order
\* is in exactly one task or among the unassigned.
ProposalsAreConfirmable ==
  \A S \in SUBSET PendingOrders : \A plan \in Proposals(S) :
    LET planned == UNION {plan.tasks[k].orders : k \in DOMAIN plan.tasks} IN
    /\ plan.tasks \in TaskLists(S)
    /\ planned \cap plan.unassigned = {}
    /\ planned \cup plan.unassigned = S

\* An order that some machine could make alone is always planned: no other order
\* of its group, and no batch chosen before, keeps it out.
ProducibleOrdersPlanned ==
  \A S \in SUBSET PendingOrders : \A plan \in Proposals(S) : \A o \in plan.unassigned :
    \A m \in ActiveMachines : ~ValidBatch(m, {o})
=============================================================================
