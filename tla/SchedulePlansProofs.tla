------------------------ MODULE SchedulePlansProofs ------------------------
(* What schedule plans promise, for any sets of plans, sessions and orders. *)
EXTENDS SchedulePlans, ProductionBoardProofs, WellFoundedInduction, TLAPS

-----------------------------------------------------------------------------
(* The columns of the plans and of the sessions *)

PlanStatuses == {"ABSENT", "DRAFT", "SUPERSEDED", "APPLIED", "CLOSED"}

PlanTypes ==
  /\ planStatus \in [Plans -> PlanStatuses]
  /\ planRevision \in [Plans -> Nat]
  /\ planSession \in [Plans -> Sessions \cup {NoPlan}]
  /\ DOMAIN draft = Plans
  /\ activePlan \in [Sessions -> Plans \cup {NoPlan}]

LEMMA PlanTypesInit == PlansInit => PlanTypes
BY PlanConstants DEF PlansInit, PlanTypes, PlanStatuses

\* What a step of the board or of a run does to plans, unless it generates one.
LEMMA OtherSteps ==
  ASSUME [PlansNext]_allVars
  PROVE  \/ /\ UNCHANGED <<planStatus, planRevision, planSession, activePlan>>
            /\ \/ draft' = draft /\ orderSpec' = orderSpec
               \/ draft' = [p \in Plans |-> Aged(draft[p])]
         \/ \E s \in Sessions, p \in Plans :
              Generate(s, p) \/ PatchPlan(s, p) \/ ApplyPlan(s, p) \/ ClosePlan(s, p)
BY DEF PlansNext, allVars, planVars, BoardStep, RunStep, StartScheduling, AskForPlan, EndRun,
       RetryRun, CommandStep, ReplacePlan, vars, orderVars

LEMMA PlanTypesStep == PlanTypes /\ [PlansNext]_allVars => PlanTypes'
<1> SUFFICES ASSUME PlanTypes, [PlansNext]_allVars PROVE PlanTypes'
  OBVIOUS
<1> USE PlanConstants DEF PlanTypes, PlanStatuses
<1>1. ASSUME NEW s \in Sessions, NEW p \in Plans, Generate(s, p) PROVE PlanTypes'
  BY <1>1 DEF Generate
<1>2. ASSUME NEW s \in Sessions, NEW p \in Plans, PatchPlan(s, p) PROVE PlanTypes'
  BY <1>2 DEF PatchPlan, RevisionAfterPatch
<1>3. ASSUME NEW s \in Sessions, NEW p \in Plans, ApplyPlan(s, p) PROVE PlanTypes'
  BY <1>3 DEF ApplyPlan
<1>4. ASSUME NEW s \in Sessions, NEW p \in Plans, ClosePlan(s, p) PROVE PlanTypes'
  BY <1>4 DEF ClosePlan
<1> QED
  BY OtherSteps, <1>1, <1>2, <1>3, <1>4

-----------------------------------------------------------------------------
(* One draft per session *)

PlansInv == PlanTypes /\ OneDraftPerSession

LEMMA OneDraftInit == PlansInit => PlansInv
BY PlanTypesInit, PlanConstants DEF PlansInit, PlansInv, OneDraftPerSession

LEMMA OneDraftStep == PlansInv /\ [PlansNext]_allVars => PlansInv'
<1> SUFFICES ASSUME PlansInv, [PlansNext]_allVars PROVE OneDraftPerSession'
  BY PlanTypesStep DEF PlansInv
<1> USE PlanConstants DEF PlansInv, PlanTypes, OneDraftPerSession
\* The new draft takes the place of the old one.
<1>1. ASSUME NEW s \in Sessions, NEW p \in Plans, Generate(s, p) PROVE OneDraftPerSession'
  <2> DEFINE old == activePlan[s]
  <2>1. old # p
    BY <1>1 DEF Generate
  <2>2. planStatus'[p] = "DRAFT" /\ planSession'[p] = s /\ activePlan'[s] = p
    BY <1>1 DEF Generate
  <2>3. ASSUME NEW q \in Plans, q # p
        PROVE  /\ planSession'[q] = planSession[q]
               /\ planStatus'[q] = IF q = old THEN "SUPERSEDED" ELSE planStatus[q]
    BY <1>1, <2>3 DEF Generate
  <2>4. ASSUME NEW r \in Sessions, r # s PROVE activePlan'[r] = activePlan[r]
    BY <1>1, <2>4 DEF Generate
  <2>5. planStatus[p] = "ABSENT"
    BY <1>1 DEF Generate
  <2> QED
    BY <2>1, <2>2, <2>3, <2>4, <2>5
<1>2. ASSUME NEW s \in Sessions, NEW p \in Plans, PatchPlan(s, p) PROVE OneDraftPerSession'
  BY <1>2 DEF PatchPlan
<1>3. ASSUME NEW s \in Sessions, NEW p \in Plans, ApplyPlan(s, p) PROVE OneDraftPerSession'
  BY <1>3 DEF ApplyPlan
<1>4. ASSUME NEW s \in Sessions, NEW p \in Plans, ClosePlan(s, p) PROVE OneDraftPerSession'
  BY <1>4 DEF ClosePlan
<1> QED
  BY OtherSteps, <1>1, <1>2, <1>3, <1>4

\* The current plan of a session is its only draft, and every session's current
\* plan is a draft.
THEOREM SessionsHaveOneDraft == PlansSpec => []OneDraftPerSession
<1>1. PlansSpec => []PlansInv
  BY OneDraftInit, OneDraftStep, PTL DEF PlansSpec
<1> QED
  BY <1>1, PTL DEF PlansInv

-----------------------------------------------------------------------------
(* How a draft ends *)

\* A draft ends only by its user's decision: it is applied or closed, or a run
\* that was asked to replace this very revision has a new draft in its place.
THEOREM DraftsEndByDecision == PlansSpec => DraftEndsByDecision
<1> DEFINE Step == \A p \in Plans : (planStatus[p] = "DRAFT" /\ planStatus'[p] # "DRAFT") =>
        LET s == planSession[p] IN
        IF planStatus'[p] = "SUPERSEDED"
          THEN /\ planRun[s].intent = [plan |-> p, revision |-> planRevision[p]]
               /\ activePlan'[s] \in Plans \ {p} /\ planStatus'[activePlan'[s]] = "DRAFT"
          ELSE planRun[s].status # "OPEN" /\ activePlan'[s] = NoPlan
<1>1. PlansSpec => []PlansInv
  BY OneDraftInit, OneDraftStep, PTL DEF PlansSpec
<1>2. PlansInv /\ [PlansNext]_allVars => [Step]_allVars
  <2> SUFFICES ASSUME PlansInv, [PlansNext]_allVars,
                      NEW q \in Plans, planStatus[q] = "DRAFT", planStatus'[q] # "DRAFT"
               PROVE  IF planStatus'[q] = "SUPERSEDED"
                        THEN /\ planRun[planSession[q]].intent = [plan |-> q, revision |-> planRevision[q]]
                             /\ activePlan'[planSession[q]] \in Plans \ {q}
                             /\ planStatus'[activePlan'[planSession[q]]] = "DRAFT"
                        ELSE planRun[planSession[q]].status # "OPEN" /\ activePlan'[planSession[q]] = NoPlan
    OBVIOUS
  <2> USE PlanConstants DEF PlansInv, PlanTypes, OneDraftPerSession
  <2>1. ASSUME NEW s \in Sessions, NEW p \in Plans, Generate(s, p)
        PROVE  /\ planStatus'[q] = "SUPERSEDED" /\ s = planSession[q] /\ q # p
               /\ planRun[s].intent = [plan |-> q, revision |-> planRevision[q]]
               /\ activePlan'[s] = p /\ planStatus'[p] = "DRAFT"
    <3>1. q # p /\ planStatus[p] = "ABSENT" /\ q = activePlan[s] /\ planStatus'[q] = "SUPERSEDED"
      BY <2>1 DEF Generate
    <3>2. activePlan'[s] = p /\ planStatus'[p] = "DRAFT"
      BY <2>1 DEF Generate
    <3> QED
      BY <3>1, <3>2, <2>1 DEF Generate, ReplacesCurrent
  <2>2. ASSUME NEW s \in Sessions, NEW p \in Plans, PatchPlan(s, p) PROVE FALSE
    BY <2>2 DEF PatchPlan
  <2>3. ASSUME NEW s \in Sessions, NEW p \in Plans, ApplyPlan(s, p) \/ ClosePlan(s, p)
        PROVE  /\ planStatus'[q] # "SUPERSEDED" /\ s = planSession[q]
               /\ planRun[s].status # "OPEN" /\ activePlan'[s] = NoPlan
    BY <2>3 DEF ApplyPlan, ClosePlan, Idle
  <2> QED
    BY OtherSteps, <2>1, <2>2, <2>3
<1> QED
  BY <1>1, <1>2, PTL DEF PlansSpec, DraftEndsByDecision

-----------------------------------------------------------------------------
(* The content of a draft *)

DraftFields == {"inputs", "scoped", "tasks", "fingerprint", "recorded", "basis"}

\* What the planner read, as far as the fingerprint tells, with these specifications
\* of the orders.
Rebuilt(fp, spec) ==
  <<fp.orders,
    [m \in DOMAIN fp.machines |->
       <<fp.machines[m].config,
         {<<row.position, [o \in row.orders |-> spec[o]]>> : row \in fp.machines[m].queue}>>]>>

\* The specifications of queued orders are not in the fingerprint, but the draft
\* grows old when one of them is edited.
Remembers(d, spec) ==
  d.fingerprint # Outdated =>
    /\ d.basis = Rebuilt(d.fingerprint, spec)
    /\ \A m \in DOMAIN d.fingerprint.machines :
         \A row \in d.fingerprint.machines[m].queue : row.orders \subseteq d.recorded

ContentInv ==
  /\ PlansInv
  /\ \A p \in Plans : DOMAIN draft[p] = DraftFields /\ Remembers(draft[p], orderSpec)

LEMMA RebuiltFingerprint == \A S : Rebuilt(Fingerprint(S), orderSpec) = PlannerInput(S)
<1> SUFFICES ASSUME NEW S PROVE Rebuilt(Fingerprint(S), orderSpec) = PlannerInput(S)
  OBVIOUS
<1> DEFINE fp == Fingerprint(S)
<1>1. fp.orders = [o \in S |-> <<orderSpec[o], category[orderSpec[o].product]>>]
  BY DEF Fingerprint, OrderContents
<1>2. fp.machines = [m \in ActiveMachines |-> MachineFingerprint(m)]
  BY DEF Fingerprint
<1>3. ASSUME NEW m \in ActiveMachines
      PROVE  /\ fp.machines[m].config = machine[m]
             /\ {<<row.position, [o \in row.orders |-> orderSpec[o]]>> : row \in fp.machines[m].queue}
                  = {<<taskPosition[t], [o \in OrdersOf(t) |-> orderSpec[o]]>> : t \in Queue(m)}
  <2> DEFINE Row(t) == [task |-> t, position |-> taskPosition[t],
                        status |-> taskStatus[t], orders |-> OrdersOf(t)]
             Seen(row) == <<row.position, [o \in row.orders |-> orderSpec[o]]>>
             Queued(t) == <<taskPosition[t], [o \in OrdersOf(t) |-> orderSpec[o]]>>
  <2>1. fp.machines[m] = MachineFingerprint(m)
    BY <1>2
  <2>2. fp.machines[m].config = machine[m] /\ fp.machines[m].queue = {Row(t) : t \in Queue(m)}
    BY <2>1 DEF MachineFingerprint
  <2>3. \A t \in Queue(m) : Seen(Row(t)) = Queued(t)
    <3> SUFFICES ASSUME NEW t \in Queue(m) PROVE Seen(Row(t)) = Queued(t)
      OBVIOUS
    <3>1. Row(t).position = taskPosition[t] /\ Row(t).orders = OrdersOf(t)
      OBVIOUS
    <3> HIDE DEF Row
    <3> QED
      BY <3>1
  <2> HIDE DEF Row, Seen, Queued
  <2>4. {Seen(row) : row \in fp.machines[m].queue} = {Queued(t) : t \in Queue(m)}
    BY <2>2, <2>3
  <2> QED
    BY <2>2, <2>4 DEF Seen, Queued
<1> HIDE DEF fp
<1>4. [m \in DOMAIN fp.machines |->
         <<fp.machines[m].config,
           {<<row.position, [o \in row.orders |-> orderSpec[o]]>> : row \in fp.machines[m].queue}>>]
      = [m \in ActiveMachines |->
           <<machine[m], {<<taskPosition[t], [o \in OrdersOf(t) |-> orderSpec[o]]>> : t \in Queue(m)}>>]
  BY <1>2, <1>3
<1> QED
  BY <1>1, <1>4 DEF Rebuilt, PlannerInput, fp

LEMMA NewDraftRemembers ==
  ASSUME NEW S, NEW scoped, NEW tasks
  PROVE  DOMAIN NewDraft(S, scoped, tasks) = DraftFields /\ Remembers(NewDraft(S, scoped, tasks), orderSpec)
<1> DEFINE d == NewDraft(S, scoped, tasks)
<1>1. DOMAIN d = DraftFields /\ d.fingerprint = Fingerprint(S) /\ d.basis = Rebuilt(Fingerprint(S), orderSpec)
        /\ d.recorded = RecordedOrders(S)
  BY RebuiltFingerprint DEF NewDraft, DraftFields
<1>2. ASSUME NEW m \in DOMAIN d.fingerprint.machines, NEW row \in d.fingerprint.machines[m].queue
      PROVE  row.orders \subseteq d.recorded
  <2>1. m \in ActiveMachines /\ row \in MachineFingerprint(m).queue
    BY <1>1, <1>2 DEF Fingerprint
  <2>2. PICK t \in Queue(m) : row.orders = OrdersOf(t)
    BY <2>1 DEF MachineFingerprint
  <2> QED
    BY <1>1, <2>1, <2>2 DEF RecordedOrders
<1> HIDE DEF d
<1> QED
  BY <1>1, <1>2 DEF Remembers, d

LEMMA NoDraftRemembers == DOMAIN NoDraft = DraftFields /\ \A spec : Remembers(NoDraft, spec)
BY DEF NoDraft, DraftFields, Remembers

\* A draft that does not grow old in a step remembers the specifications after it.
LEMMA AgedRemembers ==
  ASSUME NEW d, DOMAIN d = DraftFields, Remembers(d, orderSpec)
  PROVE  DOMAIN Aged(d) = DraftFields /\ Remembers(Aged(d), orderSpec')
<1>1. CASE d.fingerprint # Outdated /\ RowsEdited(d)
  <2>1. Aged(d) = [d EXCEPT !.fingerprint = Outdated, !.recorded = {}, !.basis = Outdated]
    BY <1>1 DEF Aged
  <2> QED
    BY <2>1 DEF DraftFields, Remembers
<1>2. CASE d.fingerprint = Outdated
  BY <1>2 DEF Aged, Remembers
<1>3. CASE d.fingerprint # Outdated /\ ~RowsEdited(d)
  <2> DEFINE fp == d.fingerprint
  <2>1. \A o \in d.recorded : orderSpec'[o] = orderSpec[o]
    BY <1>3 DEF RowsEdited, OrderRow
  <2>2. \A m \in DOMAIN fp.machines : \A row \in fp.machines[m].queue : row.orders \subseteq d.recorded
    BY <1>3 DEF Remembers
  <2> DEFINE Before(row) == <<row.position, [o \in row.orders |-> orderSpec[o]]>>
             After(row) == <<row.position, [o \in row.orders |-> orderSpec'[o]]>>
  <2>3. \A m \in DOMAIN fp.machines : \A row \in fp.machines[m].queue : Before(row) = After(row)
    BY <2>1, <2>2
  <2> HIDE DEF Before, After, fp
  <2>4. [m \in DOMAIN fp.machines |-> <<fp.machines[m].config, {Before(row) : row \in fp.machines[m].queue}>>]
        = [m \in DOMAIN fp.machines |-> <<fp.machines[m].config, {After(row) : row \in fp.machines[m].queue}>>]
    <3>1. \A m \in DOMAIN fp.machines :
            {Before(row) : row \in fp.machines[m].queue} = {After(row) : row \in fp.machines[m].queue}
      BY <2>3
    <3> QED
      BY <3>1
  <2>5. Rebuilt(fp, orderSpec) = Rebuilt(fp, orderSpec')
    BY <2>4 DEF Rebuilt, Before, After
  <2>6. Aged(d) = d
    BY <1>3 DEF Aged
  <2> QED
    BY <2>2, <2>5, <2>6, <1>3 DEF Remembers, fp
<1> QED
  BY <1>1, <1>2, <1>3

LEMMA ContentInit == PlansInit => ContentInv
BY OneDraftInit, NoDraftRemembers DEF ContentInv, PlansInit

LEMMA ContentStep == ContentInv /\ [PlansNext]_allVars => ContentInv'
<1> SUFFICES ASSUME ContentInv, [PlansNext]_allVars, NEW q \in Plans
             PROVE  DOMAIN draft'[q] = DraftFields /\ Remembers(draft'[q], orderSpec')
  BY OneDraftStep DEF ContentInv
<1> DEFINE d == draft[q]
<1>0. DOMAIN d = DraftFields /\ Remembers(d, orderSpec) /\ DOMAIN draft = Plans
  BY DEF ContentInv, PlansInv, PlanTypes
<1>1. DOMAIN Aged(d) = DraftFields /\ Remembers(Aged(d), orderSpec')
  BY <1>0, AgedRemembers
<1>2. ASSUME NEW s \in Sessions, NEW p \in Plans, Generate(s, p)
      PROVE  DOMAIN draft'[q] = DraftFields /\ Remembers(draft'[q], orderSpec')
  <2>1. orderSpec' = orderSpec
    BY <1>2 DEF Generate, vars, orderVars
  <2>2. \/ draft'[q] = d \/ draft'[q] = NoDraft
        \/ \E S, scoped, tasks : draft'[q] = NewDraft(S, scoped, tasks)
    BY <1>2 DEF Generate
  <2> QED
    BY <1>0, <2>1, <2>2, NewDraftRemembers, NoDraftRemembers
<1>3. ASSUME NEW s \in Sessions, NEW p \in Plans, PatchPlan(s, p)
      PROVE  DOMAIN draft'[q] = DraftFields /\ Remembers(draft'[q], orderSpec')
  <2>1. orderSpec' = orderSpec
    BY <1>3 DEF PatchPlan, vars, orderVars
  <2>2. draft'[q] = d \/ \E tasks : draft'[q] = [d EXCEPT !.tasks = tasks]
    BY <1>0, <1>3 DEF PatchPlan
  <2>3. ASSUME NEW tasks
        PROVE  DOMAIN [d EXCEPT !.tasks = tasks] = DraftFields
                 /\ Remembers([d EXCEPT !.tasks = tasks], orderSpec)
    BY <1>0 DEF Remembers, DraftFields
  <2> QED
    BY <1>0, <2>1, <2>2, <2>3
<1>4. ASSUME NEW s \in Sessions, NEW p \in Plans, ApplyPlan(s, p)
      PROVE  DOMAIN draft'[q] = DraftFields /\ Remembers(draft'[q], orderSpec')
  <2>1. draft'[q] = NoDraft \/ draft'[q] = Aged(d)
    BY <1>4 DEF ApplyPlan
  <2> QED
    BY <1>1, <2>1, NoDraftRemembers
<1>5. ASSUME NEW s \in Sessions, NEW p \in Plans, ClosePlan(s, p)
      PROVE  DOMAIN draft'[q] = DraftFields /\ Remembers(draft'[q], orderSpec')
  <2>1. orderSpec' = orderSpec /\ (draft'[q] = NoDraft \/ draft'[q] = d)
    BY <1>0, <1>5 DEF ClosePlan, vars, orderVars
  <2> QED
    BY <1>0, <2>1, NoDraftRemembers
<1>6. CASE draft' = [p \in Plans |-> Aged(draft[p])]
  BY <1>1, <1>6
<1>7. CASE draft' = draft /\ orderSpec' = orderSpec
  BY <1>0, <1>7
<1> QED
  BY OtherSteps, <1>2, <1>3, <1>4, <1>5, <1>6, <1>7

\* A plan is applied only to the board it was computed for, whatever happened and
\* was undone in between.
THEOREM PlansMeetTheirBoard == PlansSpec => AppliedToTheInputsItSaw
<1> DEFINE Step == \A p \in Plans : Applied(p) =>
        /\ draft[p].basis = PlannerInput(draft[p].inputs)
        /\ draft[p].scoped \/ PendingOrders = draft[p].inputs
<1>1. PlansSpec => []ContentInv
  BY ContentInit, ContentStep, PTL DEF PlansSpec
<1>2. ContentInv /\ [PlansNext]_allVars => [Step]_allVars
  <2> SUFFICES ASSUME ContentInv, [PlansNext]_allVars, NEW q \in Plans, Applied(q)
               PROVE  /\ draft[q].basis = PlannerInput(draft[q].inputs)
                      /\ draft[q].scoped \/ PendingOrders = draft[q].inputs
    OBVIOUS
  <2>1. Fresh(draft[q])
    <3>1. ASSUME NEW s \in Sessions, NEW p \in Plans, Generate(s, p) PROVE FALSE
      BY <3>1 DEF Generate, Applied, ContentInv, PlansInv, PlanTypes
    <3>2. ASSUME NEW s \in Sessions, NEW p \in Plans, PatchPlan(s, p) \/ ClosePlan(s, p) PROVE FALSE
      BY <3>2 DEF PatchPlan, ClosePlan, Applied, ContentInv, PlansInv, PlanTypes
    <3>3. ASSUME NEW s \in Sessions, NEW p \in Plans, ApplyPlan(s, p) PROVE Fresh(draft[q])
      BY <3>3 DEF ApplyPlan, MayApply, Applied, ContentInv, PlansInv, PlanTypes
    <3> QED
      BY <3>1, <3>2, <3>3, OtherSteps DEF Applied
  <2>2. draft[q].basis = Rebuilt(Fingerprint(draft[q].inputs), orderSpec)
    BY <2>1 DEF ContentInv, Remembers, Fresh
  <2> QED
    BY <2>1, <2>2, RebuiltFingerprint DEF Fresh, ComparedOrders
<1> QED
  BY <1>1, <1>2, PTL DEF PlansSpec, AppliedToTheInputsItSaw

\* The plan and its revision name the content of the draft.
THEOREM RevisionsNameDrafts == PlansSpec => RevisionNamesDraft
<1> DEFINE Step == \A p \in Plans :
        (planStatus[p] = "DRAFT" /\ planStatus'[p] = "DRAFT" /\ planRevision'[p] = planRevision[p])
          => draft'[p].tasks = draft[p].tasks
<1>1. PlansSpec => []ContentInv
  BY ContentInit, ContentStep, PTL DEF PlansSpec
<1>2. ContentInv /\ [PlansNext]_allVars => [Step]_allVars
  <2> SUFFICES ASSUME ContentInv, [PlansNext]_allVars, NEW q \in Plans, planStatus[q] = "DRAFT",
                      planStatus'[q] = "DRAFT", planRevision'[q] = planRevision[q]
               PROVE  draft'[q].tasks = draft[q].tasks
    OBVIOUS
  <2> DEFINE d == draft[q]
  <2>0. DOMAIN d = DraftFields /\ PlanTypes /\ OneDraftPerSession
    BY DEF ContentInv, PlansInv
  <2>1. Aged(d).tasks = d.tasks
    BY <2>0 DEF Aged, DraftFields
  <2>2. ASSUME NEW s \in Sessions, NEW p \in Plans, Generate(s, p) PROVE draft'[q] = d
    BY <2>0, <2>2 DEF Generate, PlanTypes
  <2>3. ASSUME NEW s \in Sessions, NEW p \in Plans, PatchPlan(s, p) PROVE draft'[q] = d
    BY <2>0, <2>3 DEF PatchPlan, RevisionAfterPatch, PlanTypes
  <2>4. ASSUME NEW s \in Sessions, NEW p \in Plans, ApplyPlan(s, p) PROVE draft'[q] = Aged(d)
    BY <2>0, <2>4 DEF ApplyPlan, PlanTypes
  <2>5. ASSUME NEW s \in Sessions, NEW p \in Plans, ClosePlan(s, p) PROVE draft'[q] = d
    BY <2>0, <2>5 DEF ClosePlan, PlanTypes
  <2>6. draft' = draft \/ draft' = [p \in Plans |-> Aged(draft[p])] => draft'[q] \in {d, Aged(d)}
    OBVIOUS
  <2> HIDE DEF d
  <2> QED
    BY <2>1, <2>2, <2>3, <2>4, <2>5, <2>6, OtherSteps DEF d
<1> QED
  BY <1>1, <1>2, PTL DEF PlansSpec, RevisionNamesDraft

-----------------------------------------------------------------------------
(* The tasks of a draft *)

\* A list of tasks for known machines that puts no order into two of them.
Arranged(list) ==
  /\ \E n \in Nat : DOMAIN list = 1..n
  /\ \A k \in DOMAIN list : list[k].machine \in Machines
  /\ \A i, j \in DOMAIN list : i # j => list[i].orders \cap list[j].orders = {}

ArrangedInv ==
  /\ ContentInv
  /\ \A p \in Plans : Arranged(draft[p].tasks)

LEMMA ListsAreArranged ==
  ASSUME NEW S, NEW list \in TaskLists(S)
  PROVE  Arranged(list)
<1>1. \A b \in Batches(S) : b.machine \in Machines
  BY DEF Batches, Batch, ActiveMachines
<1>2. PICK n \in 0..Cardinality(S) : list \in [1..n -> Batches(S)]
  BY DEF TaskLists, SeqOf
<1>3. \A i, j \in DOMAIN list : i # j => list[i].orders \cap list[j].orders = {}
  BY DEF TaskLists
<1> QED
  BY <1>1, <1>2, <1>3 DEF Arranged

LEMMA EmptyIsArranged == Arranged(<<>>) /\ Arranged(NoDraft.tasks)
BY DEF Arranged, NoDraft

LEMMA ArrangedInit == PlansInit => ArrangedInv
BY ContentInit, EmptyIsArranged DEF ArrangedInv, PlansInit

LEMMA ArrangedStep == ArrangedInv /\ [PlansNext]_allVars => ArrangedInv'
<1> SUFFICES ASSUME ArrangedInv, [PlansNext]_allVars, NEW q \in Plans
             PROVE  Arranged(draft'[q].tasks)
  BY ContentStep DEF ArrangedInv
<1> DEFINE d == draft[q]
<1>0. DOMAIN d = DraftFields /\ Arranged(d.tasks) /\ DOMAIN draft = Plans
  BY DEF ArrangedInv, ContentInv, PlansInv, PlanTypes
<1>1. Aged(d).tasks = d.tasks
  BY <1>0 DEF Aged, DraftFields
<1>2. ASSUME NEW s \in Sessions, NEW p \in Plans, Generate(s, p) PROVE Arranged(draft'[q].tasks)
  <2>1. \/ draft'[q] = d \/ draft'[q] = NoDraft
        \/ \E S, scoped : \E tasks \in TaskLists(S) : draft'[q] = NewDraft(S, scoped, tasks)
    BY <1>2 DEF Generate
  <2>2. ASSUME NEW S, NEW scoped, NEW tasks \in TaskLists(S), draft'[q] = NewDraft(S, scoped, tasks)
        PROVE  Arranged(draft'[q].tasks)
    <3>1. draft'[q].tasks = tasks
      BY <2>2 DEF NewDraft
    <3> QED
      BY <3>1, ListsAreArranged
  <2>3. CASE draft'[q] = d \/ draft'[q] = NoDraft
    BY <1>0, <2>3, EmptyIsArranged
  <2> QED
    BY <2>1, <2>2, <2>3
<1>3. ASSUME NEW s \in Sessions, NEW p \in Plans, PatchPlan(s, p) PROVE Arranged(draft'[q].tasks)
  <2>1. draft'[q] = d \/ \E S : \E tasks \in TaskLists(S) : draft'[q] = [d EXCEPT !.tasks = tasks]
    BY <1>0, <1>3 DEF PatchPlan
  <2>2. ASSUME NEW S, NEW tasks \in TaskLists(S), draft'[q] = [d EXCEPT !.tasks = tasks]
        PROVE  Arranged(draft'[q].tasks)
    <3>1. draft'[q].tasks = tasks
      BY <1>0, <2>2 DEF DraftFields
    <3> QED
      BY <3>1, ListsAreArranged
  <2>3. CASE draft'[q] = d
    BY <1>0, <2>3
  <2> QED
    BY <2>1, <2>2, <2>3
<1>4. ASSUME NEW s \in Sessions, NEW p \in Plans, ApplyPlan(s, p)
      PROVE  draft'[q] = NoDraft \/ draft'[q] = Aged(d)
  BY <1>4 DEF ApplyPlan
<1>5. ASSUME NEW s \in Sessions, NEW p \in Plans, ClosePlan(s, p)
      PROVE  draft'[q] = NoDraft \/ draft'[q] = d
  BY <1>0, <1>5 DEF ClosePlan
<1>6. draft' = draft \/ draft' = [p \in Plans |-> Aged(draft[p])] => draft'[q] \in {d, Aged(d)}
  OBVIOUS
<1> HIDE DEF d
<1> QED
  BY <1>0, <1>1, <1>2, <1>3, <1>4, <1>5, <1>6, OtherSteps, EmptyIsArranged DEF d

-----------------------------------------------------------------------------
(* Positions behind everything on a machine *)

\* A finite set of numbers has a greatest element: the one with the fewest
\* elements above it.
LEMMA MaxOfFinite ==
  ASSUME NEW S, IsFiniteSet(S), S \subseteq Nat, S # {}
  PROVE  Max(S) \in S /\ \A y \in S : y <= Max(S)
<1> DEFINE Above(x) == {y \in S : x < y}
           T == {Cardinality(Above(x)) : x \in S}
<1>1. \A x \in S : IsFiniteSet(Above(x))
  BY FS_Subset
<1>2. T \subseteq Nat /\ T # {}
  BY <1>1, FS_CardinalityType
<1>3. PICK n \in T : \A k \in T : ~ (k < n)
  <2> HIDE DEF T
  <2>1. PICK n \in T : \A k \in T : ~ (<<k, n>> \in OpToRel(<, Nat))
    BY <1>2, NatLessThanWellFounded, WFMin
  <2> QED
    BY <1>2, <2>1 DEF OpToRel
<1>4. PICK x \in S : n = Cardinality(Above(x))
  BY <1>3
<1>5. \A y \in S : y <= x
  <2> SUFFICES ASSUME NEW y \in S, x < y PROVE FALSE
    <3>1. x \in Nat /\ \A y \in S : y \in Nat
      OBVIOUS
    <3> QED
      BY <3>1
  <2>1. Above(y) \subseteq Above(x) /\ y \in Above(x) /\ y \notin Above(y)
    <3>1. x \in Nat /\ y \in Nat
      OBVIOUS
    <3>2. ASSUME NEW z \in Above(y) PROVE z \in Above(x)
      <4>1. z \in S /\ z \in Nat /\ y < z
        OBVIOUS
      <4> QED
        BY <3>1, <4>1
    <3>3. y \in Above(x) /\ y \notin Above(y)
      BY <3>1
    <3> QED
      BY <3>2, <3>3
  <2>2. IsFiniteSet(Above(x)) /\ IsFiniteSet(Above(y))
    BY <1>1
  <2>3. Cardinality(Above(y)) \in T
    OBVIOUS
  <2> HIDE DEF T, Above
  <2>4. Cardinality(Above(y)) \in Nat /\ Cardinality(Above(x)) \in Nat
    BY <2>2, FS_CardinalityType
  <2>5. Cardinality(Above(y)) <= Cardinality(Above(x))
        /\ Cardinality(Above(y)) # Cardinality(Above(x))
    BY <2>1, <2>2, FS_Subset
  <2> QED
    BY <1>3, <1>4, <2>3, <2>4, <2>5
<1> QED
  BY <1>5 DEF Max

\* The position apply_schedule_plan starts from is behind every task of the
\* machine.
LEMMA NextPositionBehind ==
  ASSUME TypeOK, NEW m
  PROVE  /\ NextPosition(m) \in Nat
         /\ \A t \in Tasks : taskMachine[t] = m => taskPosition[t] < NextPosition(m)
<1> DEFINE U == {u \in Tasks : taskMachine[u] = m}
           at == [u \in U |-> taskPosition[u]]
           P == {taskPosition[t] : t \in U}
<1>1. IsFiniteSet(U)
  BY BoardConstants, FS_Subset
<1>2. at \in Surjection(U, P)
  BY DEF Surjection
<1>3. IsFiniteSet(P)
  <2> HIDE DEF U, at, P
  <2> QED
    BY <1>1, <1>2, FS_Surjection
<1>4. P \subseteq Nat
  BY DEF TypeOK
<1>5. IsFiniteSet({0} \cup P) /\ {0} \cup P \subseteq Nat /\ {0} \cup P # {}
  <2> HIDE DEF P
  <2>1. IsFiniteSet(P \cup {0})
    BY <1>3, FS_AddElement
  <2>2. P \cup {0} = {0} \cup P
    OBVIOUS
  <2> QED
    BY <1>4, <2>1, <2>2
<1>6. Max({0} \cup P) \in Nat /\ \A y \in P : y <= Max({0} \cup P)
  <2> HIDE DEF P
  <2> QED
    BY <1>5, MaxOfFinite
<1>7. NextPosition(m) = Max({0} \cup P) + 1
  BY DEF NextPosition
<1>8. \A t \in Tasks : taskMachine[t] = m => taskPosition[t] \in P /\ taskPosition[t] \in Nat
  BY DEF TypeOK
<1> DEFINE M == Max({0} \cup P)
<1>9. M \in Nat /\ (\A y \in P : y <= M) /\ NextPosition(m) = M + 1
  BY <1>6, <1>7
<1> HIDE DEF U, P, M
<1> QED
  <2>1. NextPosition(m) \in Nat
    BY <1>9
  <2>2. ASSUME NEW t \in Tasks, taskMachine[t] = m PROVE taskPosition[t] < NextPosition(m)
    <3>1. taskPosition[t] <= M /\ taskPosition[t] \in Nat
      BY <1>8, <1>9, <2>2
    <3> QED
      BY <1>9, <3>1
  <2> QED
    BY <2>1, <2>2

\* Tasks for the same machine are counted in the order of the list.
LEMMA OnSameMachineCounts ==
  ASSUME NEW list, NEW k \in Nat \ {0}
  PROVE  /\ OnSameMachine(list, k) \in Nat \ {0}
         /\ \A j \in 1..(k - 1) : list[j].machine = list[k].machine =>
              OnSameMachine(list, j) < OnSameMachine(list, k)
<1> DEFINE Same(j) == {i \in 1..j : list[i].machine = list[j].machine}
<1>1. ASSUME NEW j \in Nat PROVE IsFiniteSet(Same(j)) /\ Cardinality(Same(j)) \in Nat
  <2>1. IsFiniteSet(1..j) /\ Same(j) \subseteq 1..j
    BY FS_Interval
  <2> HIDE DEF Same
  <2> QED
    BY <2>1, FS_Subset, FS_CardinalityType
<1>2. k \in Same(k)
  OBVIOUS
<1>3. Cardinality(Same(k)) # 0
  <2> HIDE DEF Same
  <2> QED
    BY <1>1, <1>2, FS_EmptySet
<1>4. ASSUME NEW j \in 1..(k - 1), list[j].machine = list[k].machine
      PROVE  Cardinality(Same(j)) < Cardinality(Same(k))
  <2>1. Same(j) \subseteq Same(k) /\ k \notin Same(j)
    BY <1>4
  <2>2. j \in Nat
    OBVIOUS
  <2> HIDE DEF Same
  <2>3. Cardinality(Same(j)) <= Cardinality(Same(k)) /\ Cardinality(Same(j)) # Cardinality(Same(k))
    BY <1>1, <1>2, <2>1, <2>2, FS_Subset
  <2> QED
    BY <1>1, <2>2, <2>3
<1> QED
  BY <1>1, <1>3, <1>4 DEF OnSameMachine

-----------------------------------------------------------------------------
(* Applying a plan *)

\* What ApplyPlan does to the board, with the new tasks named by the place of
\* their batch in the list.
Creates(list, id) ==
  /\ id \in Injection(DOMAIN list, {t \in Tasks : taskStatus[t] = "ABSENT"})
  /\ \A k \in DOMAIN list :
       /\ taskStatus'[id[k]] = "WAITING"
       /\ taskMachine'[id[k]] = list[k].machine
       /\ taskPosition'[id[k]] = NextPosition(list[k].machine) + OnSameMachine(list, k) - 1
       /\ OrdersOf(id[k])' = list[k].orders
       /\ list[k].orders \subseteq PendingOrders
       /\ ValidBatch(list[k].machine, list[k].orders)
  /\ \A t \in Tasks : (\A k \in DOMAIN list : id[k] # t) =>
       /\ taskStatus'[t] = taskStatus[t]
       /\ taskMachine'[t] = taskMachine[t]
       /\ taskPosition'[t] = taskPosition[t]
  /\ \A o \in Orders :
       /\ \A k \in DOMAIN list :
            o \in list[k].orders => orderTask'[o] = id[k] /\ orderStatus'[o] = "PRODUCING"
       /\ ~Assigns(list, o) => orderTask'[o] = orderTask[o] /\ orderStatus'[o] = orderStatus[o]
  /\ taskStatus' = [t \in Tasks |-> taskStatus'[t]]
  /\ taskMachine' = [t \in Tasks |-> taskMachine'[t]]
  /\ taskPosition' = [t \in Tasks |-> taskPosition'[t]]
  /\ orderStatus' = [o \in Orders |-> orderStatus'[o]]
  /\ orderTask' = [o \in Orders |-> orderTask'[o]]
  /\ UNCHANGED masterVars /\ orderSpec' = orderSpec

LEMMA ApplyCreates ==
  ASSUME TypeOK, StatusAgreement, NEW s, NEW p, ApplyPlan(s, p), Arranged(draft[p].tasks)
  PROVE  \E id : Creates(draft[p].tasks, id)
<1> DEFINE list == draft[p].tasks
           absent == {t \in Tasks : taskStatus[t] = "ABSENT"}
<1>1. PICK id \in Injection(DOMAIN list, absent) :
        LET from(t) == CHOOSE k \in DOMAIN list : id[k] = t
            new == {id[k] : k \in DOMAIN list}
        IN
        /\ taskStatus' = [t \in Tasks |-> IF t \in new THEN "WAITING" ELSE taskStatus[t]]
        /\ taskMachine' = [t \in Tasks |-> IF t \in new THEN list[from(t)].machine
                                           ELSE taskMachine[t]]
        /\ taskPosition' = [t \in Tasks |->
             IF t \in new
               THEN NextPosition(list[from(t)].machine) + OnSameMachine(list, from(t)) - 1
               ELSE taskPosition[t]]
        /\ orderTask' = [o \in Orders |->
             IF Assigns(list, o)
               THEN id[CHOOSE k \in DOMAIN list : o \in list[k].orders] ELSE orderTask[o]]
  BY DEF ApplyPlan
<1> DEFINE from(t) == CHOOSE k \in DOMAIN list : id[k] = t
           new == {id[k] : k \in DOMAIN list}
<1>2. /\ orderStatus' = StatusAfterApply(list) /\ MayApply(p)
      /\ UNCHANGED masterVars /\ orderSpec' = orderSpec
  BY DEF ApplyPlan
<1>3. /\ \A k \in DOMAIN list : id[k] \in Tasks /\ taskStatus[id[k]] = "ABSENT"
      /\ \A j, k \in DOMAIN list : id[j] = id[k] => j = k
  BY DEF Injection, IsInjective
<1>4. ASSUME NEW k \in DOMAIN list
      PROVE  id[k] \in new /\ from(id[k]) = k
  BY <1>3
<1>5. ASSUME NEW o \in Orders, NEW k \in DOMAIN list, o \in list[k].orders
      PROVE  Assigns(list, o) /\ (CHOOSE j \in DOMAIN list : o \in list[j].orders) = k
  <2>1. \A j \in DOMAIN list : o \in list[j].orders => j = k
    BY <1>5 DEF Arranged
  <2> QED
    BY <1>5, <2>1 DEF Assigns
<1>6. ASSUME NEW o \in Orders
      PROVE  /\ \A k \in DOMAIN list :
                  o \in list[k].orders => orderTask'[o] = id[k] /\ orderStatus'[o] = "PRODUCING"
             /\ ~Assigns(list, o) => orderTask'[o] = orderTask[o] /\ orderStatus'[o] = orderStatus[o]
  <2>1. ASSUME NEW k \in DOMAIN list, o \in list[k].orders
        PROVE  orderTask'[o] = id[k] /\ orderStatus'[o] = "PRODUCING"
    <3>1. Assigns(list, o) /\ (CHOOSE j \in DOMAIN list : o \in list[j].orders) = k
      BY <1>5, <2>1
    <3>2. orderTask'[o] = id[CHOOSE j \in DOMAIN list : o \in list[j].orders]
      BY <1>1, <3>1
    <3>3. orderStatus'[o] = "PRODUCING"
      BY <1>2, <3>1 DEF StatusAfterApply
    <3> QED
      BY <3>1, <3>2, <3>3
  <2>2. ASSUME ~Assigns(list, o)
        PROVE  orderTask'[o] = orderTask[o] /\ orderStatus'[o] = orderStatus[o]
    BY <1>1, <1>2, <2>2 DEF StatusAfterApply
  <2> QED
    BY <2>1, <2>2
<1>7. ASSUME NEW k \in DOMAIN list
      PROVE  /\ list[k].orders \subseteq PendingOrders
             /\ ValidBatch(list[k].machine, list[k].orders)
  BY <1>2 DEF MayApply
<1>8. ASSUME NEW k \in DOMAIN list
      PROVE  OrdersOf(id[k])' = list[k].orders
  <2>1. ASSUME NEW o \in Orders, orderTask'[o] = id[k]
        PROVE  o \in list[k].orders
    <3>1. CASE Assigns(list, o)
      <4>1. PICK j \in DOMAIN list : o \in list[j].orders
        BY <3>1 DEF Assigns
      <4>2. id[j] = id[k]
        BY <1>6, <2>1, <4>1
      <4> QED
        BY <1>3, <4>1, <4>2
    <3>2. CASE ~Assigns(list, o)
      <4>1. orderTask[o] = id[k]
        BY <1>6, <2>1, <3>2
      <4>2. orderTask[o] # NoTask /\ taskStatus[orderTask[o]] = "ABSENT"
        BY <1>3, <4>1, BoardConstants
      <4> QED
        BY <4>2 DEF StatusAgreement
    <3> QED
      BY <3>1, <3>2
  <2>2. ASSUME NEW o \in list[k].orders
        PROVE  o \in Orders /\ orderTask'[o] = id[k]
    <3>1. o \in Orders
      BY <1>7 DEF PendingOrders
    <3> QED
      BY <1>6, <3>1
  <2> QED
    BY <2>1, <2>2 DEF OrdersOf
<1>9. ASSUME NEW k \in DOMAIN list
      PROVE  /\ taskStatus'[id[k]] = "WAITING"
             /\ taskMachine'[id[k]] = list[k].machine
             /\ taskPosition'[id[k]] = NextPosition(list[k].machine) + OnSameMachine(list, k) - 1
  <2>1. id[k] \in Tasks /\ id[k] \in new /\ from(id[k]) = k
    BY <1>3, <1>4
  <2>2. /\ taskStatus'[id[k]] = "WAITING"
        /\ taskMachine'[id[k]] = list[from(id[k])].machine
        /\ taskPosition'[id[k]] = NextPosition(list[from(id[k])].machine)
                                    + OnSameMachine(list, from(id[k])) - 1
    BY <1>1, <2>1
  <2> QED
    BY <2>1, <2>2
<1>10. ASSUME NEW t \in Tasks, \A k \in DOMAIN list : id[k] # t
       PROVE  /\ taskStatus'[t] = taskStatus[t]
              /\ taskMachine'[t] = taskMachine[t]
              /\ taskPosition'[t] = taskPosition[t]
  <2>1. t \notin new
    BY <1>10
  <2> QED
    BY <1>1, <2>1
<1>11. /\ taskStatus' = [t \in Tasks |-> taskStatus'[t]]
       /\ taskMachine' = [t \in Tasks |-> taskMachine'[t]]
       /\ taskPosition' = [t \in Tasks |-> taskPosition'[t]]
       /\ orderStatus' = [o \in Orders |-> orderStatus'[o]]
       /\ orderTask' = [o \in Orders |-> orderTask'[o]]
  BY <1>1, <1>2 DEF StatusAfterApply
<1> HIDE DEF list, from, new
<1>12. Creates(list, id)
  BY <1>2, <1>6, <1>7, <1>8, <1>9, <1>10, <1>11, id \in Injection(DOMAIN list, absent) DEF Creates
<1> QED
  BY <1>12 DEF list

\* The names of the new tasks.
LEMMA CreatedTasks ==
  ASSUME NEW list, NEW id, Creates(list, id), Arranged(list)
  PROVE  /\ \A k \in DOMAIN list :
              /\ id[k] \in Tasks /\ taskStatus[id[k]] = "ABSENT"
              /\ list[k].machine \in Machines /\ k \in Nat \ {0}
         /\ \A j, k \in DOMAIN list : id[j] = id[k] => j = k
BY DEF Creates, Arranged, Injection, IsInjective

LEMMA CreatesType ==
  ASSUME TypeOK, NEW list, NEW id, Creates(list, id), Arranged(list)
  PROVE  TypeOK'
<1>1. ASSUME NEW t \in Tasks
      PROVE  /\ taskStatus'[t] \in TaskStatuses \cup {"ABSENT"}
             /\ taskMachine'[t] \in Machines \cup {NoMachine}
             /\ taskPosition'[t] \in Nat
  <2>1. CASE \A k \in DOMAIN list : id[k] # t
    BY <2>1 DEF Creates, TypeOK
  <2>2. ASSUME NEW k \in DOMAIN list, id[k] = t
        PROVE  /\ taskStatus'[t] \in TaskStatuses \cup {"ABSENT"}
               /\ taskMachine'[t] \in Machines \cup {NoMachine}
               /\ taskPosition'[t] \in Nat
    <3>1. /\ taskStatus'[t] = "WAITING" /\ taskMachine'[t] = list[k].machine
          /\ taskPosition'[t] = NextPosition(list[k].machine) + OnSameMachine(list, k) - 1
      BY <2>2 DEF Creates
    <3>2. list[k].machine \in Machines /\ k \in Nat \ {0}
      BY CreatedTasks
    <3>3. NextPosition(list[k].machine) \in Nat
      BY NextPositionBehind
    <3>4. OnSameMachine(list, k) \in Nat \ {0}
      BY <3>2, OnSameMachineCounts
    <3> QED
      BY <3>1, <3>2, <3>3, <3>4 DEF TaskStatuses
  <2> QED
    BY <2>1, <2>2
<1>2. ASSUME NEW o \in Orders
      PROVE  /\ orderStatus'[o] \in OrderStatuses \cup {"ABSENT"}
             /\ orderTask'[o] \in Tasks \cup {NoTask}
  <2>1. CASE Assigns(list, o)
    BY <2>1, CreatedTasks DEF Creates, Assigns, OrderStatuses
  <2>2. CASE ~Assigns(list, o)
    BY <2>2 DEF Creates, TypeOK
  <2> QED
    BY <2>1, <2>2
<1>3. /\ taskStatus' = [t \in Tasks |-> taskStatus'[t]]
      /\ taskMachine' = [t \in Tasks |-> taskMachine'[t]]
      /\ taskPosition' = [t \in Tasks |-> taskPosition'[t]]
      /\ orderStatus' = [o \in Orders |-> orderStatus'[o]]
      /\ orderTask' = [o \in Orders |-> orderTask'[o]]
      /\ machine' = machine /\ category' = category /\ orderSpec' = orderSpec
  BY DEF Creates, masterVars
<1> QED
  BY <1>1, <1>2, <1>3 DEF TypeOK

LEMMA CreatesAgreement ==
  ASSUME TypeOK, StatusAgreement, NEW list, NEW id, Creates(list, id), Arranged(list)
  PROVE  StatusAgreement'
<1> SUFFICES ASSUME NEW o \in Orders
             PROVE  /\ orderStatus'[o] \in {"ABSENT", "PENDING"} => orderTask'[o] = NoTask
                    /\ orderStatus'[o] = "DONE" => orderTask'[o] # NoTask
                    /\ orderTask'[o] # NoTask =>
                         /\ taskStatus'[orderTask'[o]] # "ABSENT"
                         /\ (orderStatus'[o] = "DONE") <=> (taskStatus'[orderTask'[o]] = "DONE")
  BY DEF StatusAgreement
<1>1. CASE Assigns(list, o)
  <2>1. PICK k \in DOMAIN list : o \in list[k].orders
    BY <1>1 DEF Assigns
  <2>2. orderTask'[o] = id[k] /\ orderStatus'[o] = "PRODUCING" /\ taskStatus'[id[k]] = "WAITING"
    BY <2>1 DEF Creates
  <2> QED
    BY <2>2
<1>2. CASE ~Assigns(list, o)
  <2>1. orderTask'[o] = orderTask[o] /\ orderStatus'[o] = orderStatus[o]
    BY <1>2 DEF Creates
  <2>2. orderTask[o] # NoTask => taskStatus'[orderTask[o]] = taskStatus[orderTask[o]]
    <3>1. SUFFICES ASSUME orderTask[o] # NoTask
                   PROVE  taskStatus'[orderTask[o]] = taskStatus[orderTask[o]]
      OBVIOUS
    <3>2. orderTask[o] \in Tasks /\ taskStatus[orderTask[o]] # "ABSENT"
      BY <3>1 DEF TypeOK, StatusAgreement
    <3>3. \A k \in DOMAIN list : id[k] # orderTask[o]
      BY <3>2, CreatedTasks
    <3> QED
      BY <3>2, <3>3 DEF Creates
  <2> QED
    BY <2>1, <2>2 DEF StatusAgreement
<1> QED
  BY <1>1, <1>2

LEMMA CreatesRunsOne ==
  ASSUME OneRunningTask, NEW list, NEW id, Creates(list, id)
  PROVE  OneRunningTask'
BY NothingStarted DEF Creates

\* The new tasks of a machine are behind what it has and in the order of the list.
LEMMA CreatedBehind ==
  ASSUME TypeOK, NEW list, NEW id, Creates(list, id), Arranged(list), NEW k \in DOMAIN list
  PROVE  /\ taskPosition'[id[k]] \in Nat
         /\ \A u \in Tasks : taskMachine[u] = list[k].machine => taskPosition[u] < taskPosition'[id[k]]
         /\ \A j \in DOMAIN list : j < k /\ list[j].machine = list[k].machine =>
              taskPosition'[id[j]] < taskPosition'[id[k]]
<1> DEFINE next(j) == NextPosition(list[j].machine)
           count(j) == OnSameMachine(list, j)
<1>1. ASSUME NEW j \in DOMAIN list
      PROVE  /\ next(j) \in Nat /\ count(j) \in Nat \ {0}
             /\ taskPosition'[id[j]] = next(j) + count(j) - 1
  <2>1. j \in Nat \ {0}
    BY CreatedTasks
  <2> QED
    BY <2>1, NextPositionBehind, OnSameMachineCounts DEF Creates
<1>2. \A u \in Tasks : taskMachine[u] = list[k].machine =>
        taskPosition[u] < next(k) /\ taskPosition[u] \in Nat
  BY NextPositionBehind DEF TypeOK
<1>3. ASSUME NEW j \in DOMAIN list, j < k, list[j].machine = list[k].machine
      PROVE  next(j) = next(k) /\ count(j) < count(k)
  <2>1. j \in 1..(k - 1) /\ k \in Nat \ {0}
    BY <1>3, CreatedTasks
  <2> QED
    BY <1>3, <2>1, OnSameMachineCounts
<1> HIDE DEF next, count
<1>4. next(k) \in Nat /\ count(k) \in Nat \ {0} /\ taskPosition'[id[k]] = next(k) + count(k) - 1
  BY <1>1
<1>5. ASSUME NEW u \in Tasks, taskMachine[u] = list[k].machine
      PROVE  taskPosition[u] < taskPosition'[id[k]]
  BY <1>2, <1>4, <1>5
<1>6. ASSUME NEW j \in DOMAIN list, j < k, list[j].machine = list[k].machine
      PROVE  taskPosition'[id[j]] < taskPosition'[id[k]]
  <2>1. /\ count(j) \in Nat /\ next(j) = next(k) /\ count(j) < count(k)
        /\ taskPosition'[id[j]] = next(j) + count(j) - 1
    BY <1>1, <1>3, <1>6
  <2> QED
    BY <1>4, <2>1
<1>7. taskPosition'[id[k]] \in Nat
  BY <1>4
<1> QED
  BY <1>5, <1>6, <1>7

LEMMA CreatesSeparate ==
  ASSUME TypeOK, Separated, NEW list, NEW id, Creates(list, id), Arranged(list)
  PROVE  Separated'
<1> DEFINE new == {id[k] : k \in DOMAIN list}
<1>0. TypeOK'
  BY CreatesType
<1> SUFFICES ASSUME NEW t \in Tasks, NEW u \in Tasks, t # u,
                    taskStatus'[t] \in Unfinished, taskStatus'[u] \in Unfinished,
                    taskMachine'[t] = taskMachine'[u]
             PROVE  taskPosition'[t] # taskPosition'[u]
  BY DEF Separated, Separate
<1>1. ASSUME NEW v \in Tasks, v \notin new
      PROVE  /\ taskStatus'[v] = taskStatus[v] /\ taskMachine'[v] = taskMachine[v]
             /\ taskPosition'[v] = taskPosition[v]
  <2>1. \A k \in DOMAIN list : id[k] # v
    BY <1>1
  <2> QED
    BY <2>1 DEF Creates
<1>2. ASSUME NEW k \in DOMAIN list, NEW v \in Tasks \ new, taskMachine'[v] = taskMachine'[id[k]]
      PROVE  taskPosition'[v] < taskPosition'[id[k]]
  <2>1. taskMachine[v] = list[k].machine /\ taskPosition'[v] = taskPosition[v]
    BY <1>1, <1>2 DEF Creates
  <2> QED
    BY <2>1, CreatedBehind
<1>3. \A v \in Tasks : taskPosition'[v] \in Nat
  BY <1>0 DEF TypeOK
<1>4. CASE t \notin new /\ u \notin new
  BY <1>1, <1>4 DEF Separated, Separate
<1>5. CASE t \in new /\ u \notin new
  <2>1. PICK k \in DOMAIN list : t = id[k]
    BY <1>5
  <2>2. taskPosition'[u] < taskPosition'[t]
    BY <1>2, <1>5, <2>1
  <2> QED
    BY <1>3, <2>2
<1>6. CASE t \notin new /\ u \in new
  <2>1. PICK k \in DOMAIN list : u = id[k]
    BY <1>6
  <2>2. taskPosition'[t] < taskPosition'[u]
    BY <1>2, <1>6, <2>1
  <2> QED
    BY <1>3, <2>2
<1>7. CASE t \in new /\ u \in new
  <2>1. PICK j \in DOMAIN list, k \in DOMAIN list : t = id[j] /\ u = id[k]
    BY <1>7
  <2>2. j # k /\ j \in Nat /\ k \in Nat /\ list[j].machine = list[k].machine
    BY <2>1, CreatedTasks DEF Creates
  <2>3. CASE j < k
    <3>1. taskPosition'[t] < taskPosition'[u]
      BY <2>1, <2>2, <2>3, CreatedBehind
    <3> QED
      BY <1>3, <3>1
  <2>4. CASE k < j
    <3>1. taskPosition'[u] < taskPosition'[t]
      BY <2>1, <2>2, <2>4, CreatedBehind
    <3> QED
      BY <1>3, <3>1
  <2> QED
    BY <2>2, <2>3, <2>4
<1> QED
  BY <1>4, <1>5, <1>6, <1>7

\* The rows of the tasks that were there stay as they are, with their orders.
LEMMA CreatesTouchNothing ==
  ASSUME TypeOK, StatusAgreement, NEW list, NEW id, Creates(list, id), Arranged(list),
         NEW t \in Tasks, taskStatus[t] # "ABSENT"
  PROVE  Untouched(t) /\ taskPosition'[t] = taskPosition[t]
<1>1. \A k \in DOMAIN list : id[k] # t
  BY CreatedTasks
<1>2. taskMachine'[t] = taskMachine[t] /\ taskPosition'[t] = taskPosition[t]
  BY <1>1 DEF Creates
<1>3. ASSUME NEW o \in Orders
      PROVE  orderTask'[o] = t <=> orderTask[o] = t
  <2>1. CASE Assigns(list, o)
    <3>1. PICK k \in DOMAIN list : o \in list[k].orders
      BY <2>1 DEF Assigns
    <3>2. orderTask'[o] = id[k] /\ orderTask[o] = NoTask
      BY <3>1 DEF Creates, PendingOrders
    <3> QED
      BY <1>1, <3>2, BoardConstants
  <2>2. CASE ~Assigns(list, o)
    BY <2>2 DEF Creates
  <2> QED
    BY <2>1, <2>2
<1>4. OrdersOf(t)' = OrdersOf(t)
  BY <1>3 DEF OrdersOf
<1>5. orderSpec' = orderSpec
  BY DEF Creates
<1> QED
  BY <1>2, <1>4, <1>5 DEF Untouched

\* The board of the production module and the drafts together.
BoardInv == TypeOK /\ StatusAgreement /\ OneRunningTask /\ Separated

PlannedInv == ArrangedInv /\ BoardInv

LEMMA PlannedInit == PlansInit => PlannedInv
BY ArrangedInit, InitType
DEF PlansInit, Init, PlannedInv, BoardInv, StatusAgreement, OneRunningTask, Separated, Separate,
    Unfinished

\* A step of the plans is a step of the board, leaves the board alone, or applies
\* a plan.
LEMMA PlansAndBoard ==
  ASSUME [PlansNext]_allVars
  PROVE  [Next]_vars \/ \E s \in Sessions, p \in Plans : ApplyPlan(s, p)
BY DEF PlansNext, allVars, BoardStep, RunStep, StartScheduling, AskForPlan, Generate, EndRun,
       RetryRun, CommandStep, PatchPlan, ClosePlan, ReplacePlan

LEMMA PlannedStep == PlannedInv /\ [PlansNext]_allVars => PlannedInv'
<1> SUFFICES ASSUME PlannedInv, [PlansNext]_allVars
             PROVE  BoardInv'
  BY ArrangedStep DEF PlannedInv
<1>1. CASE [Next]_vars
  BY <1>1, StepType, StepAgreement, StepRunsOne, StepSeparate DEF PlannedInv, BoardInv
<1>2. ASSUME NEW s \in Sessions, NEW p \in Plans, ApplyPlan(s, p)
      PROVE  BoardInv'
  <2>1. Arranged(draft[p].tasks) /\ TypeOK /\ StatusAgreement /\ OneRunningTask /\ Separated
    BY DEF PlannedInv, ArrangedInv, BoardInv
  <2>2. PICK id : Creates(draft[p].tasks, id)
    BY <1>2, <2>1, ApplyCreates
  <2> QED
    BY <2>1, <2>2, CreatesType, CreatesAgreement, CreatesRunsOne, CreatesSeparate DEF BoardInv
<1> QED
  BY <1>1, <1>2, PlansAndBoard

\* What the board promises holds when tasks also come from applied plans: order
\* and task statuses agree, machines run one task, and queues have no ties.
THEOREM PlansKeepTheBoard ==
  PlansSpec => [](TypeOK /\ StatusAgreement /\ OneRunningTask /\ DistinctPositions)
<1>1. PlannedInv => TypeOK /\ StatusAgreement /\ OneRunningTask /\ DistinctPositions
  BY DEF PlannedInv, BoardInv, Separated, Separate, DistinctPositions, Queue
<1> QED
  BY <1>1, PlannedInit, PlannedStep, PTL DEF PlansSpec

\* Applying a plan keeps what its orders ask for.
LEMMA SpecifiedAfterPlans ==
  PlannedInv /\ Specified /\ [PlansNext]_allVars => Specified'
<1> SUFFICES ASSUME PlannedInv, Specified, [PlansNext]_allVars PROVE Specified'
  OBVIOUS
<1>1. CASE [Next]_vars
  BY <1>1, SpecifiedStep DEF PlannedInv, BoardInv
<1>2. ASSUME NEW s \in Sessions, NEW p \in Plans, ApplyPlan(s, p) PROVE Specified'
  <2>1. PICK id : Creates(draft[p].tasks, id)
    BY <1>2, ApplyCreates DEF PlannedInv, ArrangedInv, BoardInv
  <2> SUFFICES ASSUME NEW o \in Orders, orderStatus'[o] # "ABSENT" PROVE orderSpec'[o] \in Specs
    BY DEF Specified
  <2>2. orderSpec'[o] = orderSpec[o]
    BY <1>2 DEF ApplyPlan
  <2>3. orderStatus[o] # "ABSENT"
    BY <2>1 DEF Creates, Assigns, PendingOrders
  <2> QED
    BY <2>2, <2>3 DEF Specified
<1> QED
  BY <1>1, <1>2, PlansAndBoard

\* What the planner promises holds on the boards that applied plans leave behind:
\* the next proposal can be confirmed, and it leaves no producible order out.
THEOREM PlansKeepThePlanner ==
  PlansSpec => [](ProposalsAreConfirmable /\ ProducibleOrdersPlanned)
<1>1. PlansInit => Specified
  BY DEF PlansInit, Init, Specified
<1>2. PlannedInv /\ Specified => ProposalsAreConfirmable /\ ProducibleOrdersPlanned
  BY ProposalsKeepPromises DEF PlannedInv, BoardInv
<1> QED
  BY <1>1, <1>2, PlannedInit, PlannedStep, SpecifiedAfterPlans, PTL DEF PlansSpec

\* The promises of the board's steps hold when tasks also come from plans: an
\* applied plan touches no started task, displaces no queued one, and leaves what
\* could be produced producible.
THEOREM PlansKeepThePromises ==
  PlansSpec => StartedWorkFrozen /\ QueueOrderStable /\ ProducibleStaysProducible
<1> DEFINE Frozen ==
             \A t \in Tasks :
               (taskStatus[t] \in {"PRODUCING", "DONE"} /\ taskStatus'[t] # "WAITING") =>
                 /\ taskMachine'[t] = taskMachine[t]
                 /\ OrdersOf(t)' = OrdersOf(t)
                 /\ \A o \in OrdersOf(t) : orderSpec'[o] = orderSpec[o]
           Stable ==
             \/ \E m \in Machines : ReorderTasks(m)
             \/ \E moved \in Tasks \cup {NoTask} : \A m \in Machines :
                  \A t, u \in (Queue(m) \cap Queue(m)') \ {moved} :
                    taskPosition[t] < taskPosition[u] => taskPosition'[t] < taskPosition'[u]
           Producible ==
             UNCHANGED masterVars =>
               \A t \in Tasks :
                 (taskStatus[t] # "ABSENT" /\ taskStatus'[t] # "ABSENT"
                    /\ ValidBatch(taskMachine[t], OrdersOf(t)))
                   => ValidBatch(taskMachine[t], OrdersOf(t))'
<1>1. PlannedInv /\ [PlansNext]_allVars => [Frozen]_vars /\ [Stable]_vars /\ [Producible]_vars
  <2> SUFFICES ASSUME PlannedInv, [PlansNext]_allVars
               PROVE  Frozen /\ Stable /\ Producible
    OBVIOUS
  <2>0. TypeOK /\ StatusAgreement
    BY DEF PlannedInv, BoardInv
  <2>1. CASE [Next]_vars
    <3>1. Frozen
      BY <2>0, <2>1, StepLeavesStarted DEF Untouched
    <3>2. Stable
      BY <2>0, <2>1, StepKeepsOrder DEF StableBut
    <3>3. Producible
      BY <2>0, <2>1, StepKeepsProducible
    <3> QED
      BY <3>1, <3>2, <3>3
  <2>2. ASSUME NEW s \in Sessions, NEW p \in Plans, ApplyPlan(s, p)
        PROVE  Frozen /\ Stable /\ Producible
    <3>1. Arranged(draft[p].tasks)
      BY DEF PlannedInv, ArrangedInv
    <3>2. PICK id : Creates(draft[p].tasks, id)
      BY <2>0, <2>2, <3>1, ApplyCreates
    <3>3. ASSUME NEW t \in Tasks, taskStatus[t] # "ABSENT"
          PROVE  Untouched(t) /\ taskPosition'[t] = taskPosition[t]
      BY <2>0, <3>1, <3>2, <3>3, CreatesTouchNothing
    <3>4. Frozen
      BY <3>3 DEF Untouched
    <3>5. Stable
      <4>1. \A m \in Machines : \A t \in Queue(m) : t \in Tasks /\ taskStatus[t] # "ABSENT"
        BY DEF Queue, Unfinished
      <4> QED
        BY <3>3, <4>1
    <3>6. Producible
      BY <3>3, BatchOfTask DEF Untouched
    <3> QED
      BY <3>4, <3>5, <3>6
  <2> QED
    BY <2>1, <2>2, PlansAndBoard
<1>2. PlansSpec => []PlannedInv
  BY PlannedInit, PlannedStep, PTL DEF PlansSpec
<1> QED
  BY <1>1, <1>2, PTL DEF PlansSpec, StartedWorkFrozen, QueueOrderStable, ProducibleStaysProducible


-----------------------------------------------------------------------------
(* An applied plan is the draft *)

\* The tasks named for the batches of a list.
Named(list, id) == {id[k] : k \in DOMAIN list}

\* The tasks that change status when a plan is applied are the new ones, one
\* for each batch of the list.
LEMMA ChangedTasks ==
  ASSUME NEW list, NEW id, Creates(list, id), Arranged(list)
  PROVE  /\ {t \in Tasks : taskStatus[t] # taskStatus'[t]} = Named(list, id)
         /\ Cardinality(Named(list, id)) = Len(list)
<1> DEFINE new == {id[k] : k \in DOMAIN list}
<1>1. {t \in Tasks : taskStatus[t] # taskStatus'[t]} = new
  <2>1. \A k \in DOMAIN list : id[k] \in Tasks /\ taskStatus[id[k]] # taskStatus'[id[k]]
    BY CreatedTasks DEF Creates
  <2>2. \A t \in Tasks : t \notin new => taskStatus'[t] = taskStatus[t]
    BY DEF Creates
  <2> QED
    BY <2>1, <2>2
<1>2. PICK n \in Nat : DOMAIN list = 1..n
  BY DEF Arranged
<1>3. Len(list) = n
  BY <1>2 DEF Arranged
<1>4. id \in Bijection(1..n, new)
  <2>1. DOMAIN id = 1..n /\ \A k \in 1..n : id[k] \in new
    BY <1>2 DEF Creates, Injection
  <2>2. id \in [1..n -> new]
    BY <1>2, <2>1 DEF Creates, Injection
  <2> QED
    BY <1>2, <2>1, <2>2, CreatedTasks DEF Bijection, Injection, IsInjective, Surjection
<1>5. Cardinality(new) = n
  <2> HIDE DEF new
  <2>1. ExistsBijection(1..n, new)
    BY <1>4 DEF ExistsBijection
  <2> QED
    BY <1>2, <2>1, FS_CountingElements
<1> QED
  BY <1>1, <1>3, <1>5 DEF Named

\* One batch of the list and the task it became.
LEMMA BatchBecomesTask ==
  ASSUME TypeOK, NEW list, NEW id, Creates(list, id), Arranged(list), NEW k \in DOMAIN list
  PROVE  /\ taskStatus[id[k]] = "ABSENT" /\ taskStatus'[id[k]] = "WAITING"
         /\ taskMachine'[id[k]] = list[k].machine
         /\ OrdersOf(id[k])' = list[k].orders
         /\ ValidBatch(taskMachine[id[k]], OrdersOf(id[k]))'
         /\ \A u \in Queue(list[k].machine) : taskPosition[u] < taskPosition'[id[k]]
         /\ \A j \in 1..(k - 1) :
              /\ j \in DOMAIN list
              /\ list[j].machine = list[k].machine => taskPosition'[id[j]] < taskPosition'[id[k]]
<1>1. /\ taskStatus[id[k]] = "ABSENT" /\ taskStatus'[id[k]] = "WAITING"
      /\ taskMachine'[id[k]] = list[k].machine
      /\ OrdersOf(id[k])' = list[k].orders
      /\ ValidBatch(list[k].machine, list[k].orders)
      /\ UNCHANGED masterVars /\ orderSpec' = orderSpec
  BY CreatedTasks DEF Creates
<1>2. ASSUME NEW u \in Queue(list[k].machine) PROVE taskPosition[u] < taskPosition'[id[k]]
  <2>1. u \in Tasks /\ taskMachine[u] = list[k].machine
    BY DEF Queue
  <2> QED
    BY <2>1, CreatedBehind
<1>3. ASSUME NEW j \in 1..(k - 1)
      PROVE  /\ j \in DOMAIN list
             /\ list[j].machine = list[k].machine => taskPosition'[id[j]] < taskPosition'[id[k]]
  <2>1. j < k /\ j \in DOMAIN list
    BY DEF Arranged
  <2> QED
    BY <2>1, CreatedBehind
<1>4. ValidBatch(taskMachine[id[k]], OrdersOf(id[k]))'
  BY <1>1, BatchOfTask
<1> QED
  BY <1>1, <1>2, <1>3, <1>4

\* Applying turns the draft, and nothing else, into tasks: one new waiting task
\* for each batch, valid on its machine, behind the work the machine has and in
\* the order of the list, of orders that were free.
THEOREM PlansBecomeTasks == PlansSpec => AppliedAsDrafted
<1> DEFINE Step == \A p \in Plans : Applied(p) =>
        LET list == draft[p].tasks
            new == {t \in Tasks : taskStatus[t] # taskStatus'[t]}
            taskOf(k) == {t \in new : OrdersOf(t)' = list[k].orders}
        IN
        /\ Cardinality(new) = Len(list)
        /\ \A k \in DOMAIN list : \E t \in taskOf(k) :
             /\ taskStatus[t] = "ABSENT" /\ taskStatus'[t] = "WAITING"
             /\ taskMachine'[t] = list[k].machine
             /\ ValidBatch(taskMachine[t], OrdersOf(t))'
             /\ \A u \in Queue(list[k].machine) : taskPosition[u] < taskPosition'[t]
             /\ \A j \in 1..(k - 1) : \A u \in taskOf(j) :
                  list[j].machine = list[k].machine => taskPosition'[u] < taskPosition'[t]
        /\ \A o \in Orders :
             IF Assigns(list, o)
               THEN orderTask[o] = NoTask /\ orderStatus[o] = "PENDING"
               ELSE OrderRow(o)' = OrderRow(o)
        /\ \A t \in Tasks \ new : TaskRow(t)' = TaskRow(t)
<1>1. PlannedInv /\ [PlansNext]_allVars => [Step]_allVars
  <2> SUFFICES ASSUME PlannedInv, [PlansNext]_allVars PROVE Step
    OBVIOUS
  <2> SUFFICES ASSUME NEW p \in Plans, Applied(p)
               PROVE  LET list == draft[p].tasks
                          new == {t \in Tasks : taskStatus[t] # taskStatus'[t]}
                          taskOf(k) == {t \in new : OrdersOf(t)' = list[k].orders}
                      IN
                      /\ Cardinality(new) = Len(list)
                      /\ \A k \in DOMAIN list : \E t \in taskOf(k) :
                           /\ taskStatus[t] = "ABSENT" /\ taskStatus'[t] = "WAITING"
                           /\ taskMachine'[t] = list[k].machine
                           /\ ValidBatch(taskMachine[t], OrdersOf(t))'
                           /\ \A u \in Queue(list[k].machine) : taskPosition[u] < taskPosition'[t]
                           /\ \A j \in 1..(k - 1) : \A u \in taskOf(j) :
                                list[j].machine = list[k].machine
                                  => taskPosition'[u] < taskPosition'[t]
                      /\ \A o \in Orders :
                           IF Assigns(list, o)
                             THEN orderTask[o] = NoTask /\ orderStatus[o] = "PENDING"
                             ELSE OrderRow(o)' = OrderRow(o)
                      /\ \A t \in Tasks \ new : TaskRow(t)' = TaskRow(t)
    OBVIOUS
  <2> DEFINE list == draft[p].tasks
             new == {t \in Tasks : taskStatus[t] # taskStatus'[t]}
             taskOf(k) == {t \in new : OrdersOf(t)' = list[k].orders}
  <2>1. Arranged(list) /\ TypeOK /\ StatusAgreement
    BY DEF PlannedInv, ArrangedInv, BoardInv
  <2>2. PICK id : Creates(list, id)
    <3>1. PICK s \in Sessions : ApplyPlan(s, p)
      <4>0. PlanTypes
        BY DEF PlannedInv, ArrangedInv, ContentInv, PlansInv
      <4>1. ASSUME NEW s \in Sessions, NEW q \in Plans,
                   Generate(s, q) \/ PatchPlan(s, q) \/ ClosePlan(s, q)
            PROVE  FALSE
        BY <4>0, <4>1 DEF Generate, PatchPlan, ClosePlan, Applied, PlanTypes
      <4>2. ASSUME NEW s \in Sessions, NEW q \in Plans, ApplyPlan(s, q)
            PROVE  q = p
        BY <4>0, <4>2 DEF ApplyPlan, Applied, PlanTypes
      <4> QED
        BY <4>1, <4>2, OtherSteps DEF Applied
    <3> QED
      BY <2>1, <3>1, ApplyCreates
  <2> HIDE DEF list
  <2>3. new = Named(list, id) /\ Cardinality(new) = Len(list)
    BY <2>1, <2>2, ChangedTasks
  <2>4. ASSUME NEW k \in DOMAIN list
        PROVE  \E t \in taskOf(k) :
                 /\ taskStatus[t] = "ABSENT" /\ taskStatus'[t] = "WAITING"
                 /\ taskMachine'[t] = list[k].machine
                 /\ ValidBatch(taskMachine[t], OrdersOf(t))'
                 /\ \A u \in Queue(list[k].machine) : taskPosition[u] < taskPosition'[t]
                 /\ \A j \in 1..(k - 1) : \A u \in taskOf(j) :
                      list[j].machine = list[k].machine => taskPosition'[u] < taskPosition'[t]
    <3>1. PICK t : t = id[k]
      OBVIOUS
    <3>2. /\ taskStatus[t] = "ABSENT" /\ taskStatus'[t] = "WAITING"
          /\ taskMachine'[t] = list[k].machine
          /\ OrdersOf(t)' = list[k].orders
          /\ ValidBatch(taskMachine[t], OrdersOf(t))'
          /\ \A u \in Queue(list[k].machine) : taskPosition[u] < taskPosition'[t]
      BY <2>1, <2>2, <3>1, BatchBecomesTask
    <3>3. ASSUME NEW j \in 1..(k - 1), NEW u \in taskOf(j), list[j].machine = list[k].machine
          PROVE  taskPosition'[u] < taskPosition'[t]
      <4>1. j \in DOMAIN list /\ taskPosition'[id[j]] < taskPosition'[id[k]]
        BY <2>1, <2>2, <3>3, BatchBecomesTask
      <4>2. PICK i \in DOMAIN list : u = id[i]
        BY <2>3 DEF Named
      <4>3. list[i].orders = list[j].orders
        <5>1. OrdersOf(u)' = list[j].orders
          OBVIOUS
        <5>2. OrdersOf(id[i])' = list[i].orders
          BY <2>2 DEF Creates
        <5> QED
          BY <4>2, <5>1, <5>2
      <4>4. list[j].orders # {}
        BY <2>2, <4>1 DEF Creates, ValidBatch
      <4>5. i = j
        BY <2>1, <4>1, <4>3, <4>4 DEF Arranged
      <4> QED
        BY <3>1, <4>1, <4>2, <4>5
    <3>4. t \in taskOf(k)
      BY <2>3, <3>1, <3>2 DEF Named
    <3> QED
      BY <3>2, <3>3, <3>4
  <2>5. ASSUME NEW o \in Orders
        PROVE  IF Assigns(list, o)
                 THEN orderTask[o] = NoTask /\ orderStatus[o] = "PENDING"
                 ELSE OrderRow(o)' = OrderRow(o)
    <3>1. CASE Assigns(list, o)
      <4>1. o \in PendingOrders
        BY <2>2, <3>1 DEF Assigns, Creates
      <4> QED
        BY <3>1, <4>1 DEF PendingOrders
    <3>2. CASE ~Assigns(list, o)
      BY <2>2, <3>2 DEF Creates, OrderRow
    <3> QED
      BY <3>1, <3>2
  <2>6. ASSUME NEW t \in Tasks \ new
        PROVE  TaskRow(t)' = TaskRow(t)
    <3>1. \A k \in DOMAIN list : id[k] # t
      BY <2>3 DEF Named
    <3> QED
      BY <2>2, <3>1 DEF Creates, TaskRow
  <2> QED
    BY <2>3, <2>4, <2>5, <2>6 DEF list
<1>2. PlansSpec => []PlannedInv
  BY PlannedInit, PlannedStep, PTL DEF PlansSpec
<1> QED
  BY <1>1, <1>2, PTL DEF PlansSpec, AppliedAsDrafted

-----------------------------------------------------------------------------
(* A draft that is not stale can be applied *)

\* Whether a machine could make a batch, judged by a fingerprint alone.
ValidFor(fp, m, S) ==
  LET c == fp.machines[m].config
      spec(o) == fp.orders[o][1]
      signature(o) == <<spec(o).material, fp.orders[o][2], spec(o).pattern>>
  IN
  /\ m \in DOMAIN fp.machines
  /\ S # {}
  /\ \A o \in S : /\ spec(o).width > 0
                  /\ fp.orders[o][2] \in c.categories
                  /\ spec(o).pattern \in c.patterns \cup {NoPattern}
  /\ \A o, q \in S : o # q => /\ spec(o).metre = spec(q).metre
                              /\ spec(o).material # Incomplete
                              /\ signature(o) = signature(q)
  /\ SumFunction([o \in S |-> spec(o).width]) \in c.min..c.max

\* The tasks of a draft are batches of its inputs, valid for its fingerprint.
Sound(d) ==
  d.fingerprint # Outdated =>
    \A k \in DOMAIN d.tasks :
      /\ d.tasks[k].orders \subseteq d.inputs
      /\ ValidFor(d.fingerprint, d.tasks[k].machine, d.tasks[k].orders)

SoundInv == ContentInv /\ \A p \in Plans : Sound(draft[p])

\* On the board a fingerprint was taken of, it judges as validate_machine_batch.
LEMMA FingerprintJudges ==
  ASSUME NEW S, NEW m, NEW B, B \subseteq S
  PROVE  ValidFor(Fingerprint(S), m, B) <=> m \in ActiveMachines /\ ValidBatch(m, B)
<1> DEFINE fp == Fingerprint(S)
<1>1. /\ DOMAIN fp.machines = ActiveMachines
      /\ \A n \in ActiveMachines : fp.machines[n].config = machine[n]
  BY DEF Fingerprint, MachineFingerprint
<1>2. \A o \in B : /\ fp.orders[o][1] = orderSpec[o]
                   /\ fp.orders[o][2] = category[orderSpec[o].product]
  BY DEF Fingerprint, OrderContents
<1> HIDE DEF fp
<1>3. CASE m \notin ActiveMachines
  BY <1>1, <1>3 DEF ValidFor, fp
<1>4. CASE m \in ActiveMachines
  <2>1. fp.machines[m].config = machine[m] /\ machine[m] # NoConfig /\ machine[m].active
    BY <1>1, <1>4 DEF ActiveMachines
  <2>2. [o \in B |-> fp.orders[o][1].width] = [o \in B |-> orderSpec[o].width]
    BY <1>2
  <2>3. \A o \in B : <<fp.orders[o][1].material, fp.orders[o][2], fp.orders[o][1].pattern>> = Signature(o)
    BY <1>2 DEF Signature
  <2>4. ValidFor(fp, m, B) <=>
          /\ B # {}
          /\ \A o \in B : /\ orderSpec[o].width > 0
                          /\ category[orderSpec[o].product] \in machine[m].categories
                          /\ orderSpec[o].pattern \in machine[m].patterns \cup {NoPattern}
          /\ Mergeable(B)
          /\ TotalWidth(B) \in machine[m].min..machine[m].max
    BY <1>1, <1>2, <1>4, <2>1, <2>2, <2>3 DEF ValidFor, Mergeable, TotalWidth
  <2> QED
    BY <1>4, <2>1, <2>4 DEF ValidBatch, fp
<1> QED
  BY <1>3, <1>4

LEMMA ListsAreSound ==
  ASSUME NEW S, NEW tasks \in TaskLists(S), NEW k \in DOMAIN tasks
  PROVE  /\ tasks[k].orders \subseteq S
         /\ ValidFor(Fingerprint(S), tasks[k].machine, tasks[k].orders)
<1>1. PICK n \in 0..Cardinality(S) : tasks \in [1..n -> Batches(S)]
  BY DEF TaskLists, SeqOf
<1>2. tasks[k] \in Batches(S)
  BY <1>1
<1>3. tasks[k].machine \in ActiveMachines /\ tasks[k].orders \subseteq S
      /\ ValidBatch(tasks[k].machine, tasks[k].orders)
  BY <1>2 DEF Batches, Batch
<1> QED
  BY <1>3, FingerprintJudges

LEMMA SoundInit == PlansInit => SoundInv
BY ContentInit DEF SoundInv, PlansInit, NoDraft, Sound

LEMMA SoundStep == SoundInv /\ [PlansNext]_allVars => SoundInv'
<1> SUFFICES ASSUME SoundInv, [PlansNext]_allVars, NEW q \in Plans
             PROVE  Sound(draft'[q])
  BY ContentStep DEF SoundInv, Sound
<1> DEFINE d == draft[q]
<1>0. DOMAIN d = DraftFields /\ Sound(d) /\ DOMAIN draft = Plans
  BY DEF SoundInv, ContentInv, PlansInv, PlanTypes
<1>1. Sound(Aged(d)) /\ Sound(NoDraft)
  BY <1>0 DEF Aged, DraftFields, Sound, NoDraft
<1>2. ASSUME NEW s \in Sessions, NEW p \in Plans, Generate(s, p) PROVE Sound(draft'[q])
  <2>1. \/ draft'[q] = d \/ draft'[q] = NoDraft
        \/ \E S, scoped : \E tasks \in TaskLists(S) : draft'[q] = NewDraft(S, scoped, tasks)
    BY <1>2 DEF Generate
  <2>2. ASSUME NEW S, NEW scoped, NEW tasks \in TaskLists(S)
        PROVE  Sound(NewDraft(S, scoped, tasks))
    BY ListsAreSound DEF NewDraft, Sound
  <2> QED
    BY <1>0, <1>1, <2>1, <2>2
<1>3. ASSUME NEW s \in Sessions, NEW p \in Plans, PatchPlan(s, p) PROVE Sound(draft'[q])
  <2>1. \/ draft'[q] = d
        \/ Fresh(d) /\ \E tasks \in TaskLists(d.inputs) : draft'[q] = [d EXCEPT !.tasks = tasks]
    BY <1>0, <1>3 DEF PatchPlan
  <2>2. ASSUME Fresh(d), NEW tasks \in TaskLists(d.inputs)
        PROVE  Sound([d EXCEPT !.tasks = tasks])
    <3> DEFINE e == [d EXCEPT !.tasks = tasks]
    <3>1. e.tasks = tasks /\ e.inputs = d.inputs /\ e.fingerprint = Fingerprint(d.inputs)
      BY <1>0, <2>2 DEF DraftFields, Fresh
    <3> HIDE DEF e
    <3>2. Sound(e)
      BY <3>1, ListsAreSound DEF Sound
    <3> QED
      BY <3>2 DEF e
  <2> QED
    BY <1>0, <2>1, <2>2
<1>4. ASSUME NEW s \in Sessions, NEW p \in Plans, ApplyPlan(s, p)
      PROVE  draft'[q] = NoDraft \/ draft'[q] = Aged(d)
  BY <1>4 DEF ApplyPlan
<1>5. ASSUME NEW s \in Sessions, NEW p \in Plans, ClosePlan(s, p)
      PROVE  draft'[q] = NoDraft \/ draft'[q] = d
  BY <1>0, <1>5 DEF ClosePlan
<1>6. draft' = draft \/ draft' = [p \in Plans |-> Aged(draft[p])] => draft'[q] \in {d, Aged(d)}
  OBVIOUS
<1> HIDE DEF d
<1> QED
  BY <1>0, <1>1, <1>2, <1>3, <1>4, <1>5, <1>6, OtherSteps DEF d

\* While the board is the one a draft was computed for, no check of its batches
\* refuses the confirmation.
THEOREM FreshDraftsCanBeApplied == PlansSpec => []FreshDraftsApply
<1>1. SoundInv => FreshDraftsApply
  <2> SUFFICES ASSUME SoundInv, NEW p \in Plans, Fresh(draft[p]) PROVE MayApply(p)
    BY DEF FreshDraftsApply
  <2> DEFINE d == draft[p]
  <2>1. /\ d.fingerprint # Outdated /\ d.fingerprint = Fingerprint(d.inputs)
        /\ d.inputs \subseteq PendingOrders
    BY DEF Fresh, ComparedOrders
  <2>2. Sound(d)
    BY DEF SoundInv
  <2>3. ASSUME NEW k \in DOMAIN d.tasks
        PROVE  /\ ValidBatch(d.tasks[k].machine, d.tasks[k].orders)
               /\ d.tasks[k].orders \subseteq PendingOrders
    BY <2>1, <2>2, FingerprintJudges DEF Sound
  <2> QED
    BY <2>3 DEF MayApply
<1> QED
  BY <1>1, SoundInit, SoundStep, PTL DEF PlansSpec
=============================================================================
