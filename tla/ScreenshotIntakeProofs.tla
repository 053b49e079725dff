----------------------- MODULE ScreenshotIntakeProofs -----------------------
(* What the intake promises, for any number of screenshots and orders. *)
EXTENDS ScreenshotIntake, WellFoundedInduction, TLAPS

-----------------------------------------------------------------------------
(* Screenshots, drafts and the queue *)

\* A draft is a screenshot and an index on it.
LEMMA KeyFacts ==
  /\ \A k \in Keys : /\ k[1] \in Images /\ k[2] \in 1..MaxOrders[k[1]] /\ k = <<k[1], k[2]>>
                     /\ k[1] \in Nat /\ k[2] \in Nat
  /\ \A i \in Images : \A x \in 1..MaxOrders[i] : <<i, x>> \in Keys
  /\ \A i \in Images : <<i, 1>> \in Keys
  /\ NoItem \notin Keys
<1>1. \A i \in Images : i \in Nat /\ MaxOrders[i] \in Nat \ {0}
  BY IntakeConstants DEF Images
<1>2. \A k \in Keys : \E i \in Images : \E x \in 1..MaxOrders[i] : k = <<i, x>>
  BY DEF Keys
<1>3. \A k \in Keys : /\ k[1] \in Images /\ k[2] \in 1..MaxOrders[k[1]] /\ k = <<k[1], k[2]>>
                      /\ k[1] \in Nat /\ k[2] \in Nat
  BY <1>1, <1>2
<1>4. \A i \in Images : \A x \in 1..MaxOrders[i] : <<i, x>> \in Keys
  BY DEF Keys
<1>5. \A i \in Images : 1 \in 1..MaxOrders[i]
  BY <1>1
<1> QED
  BY <1>3, <1>4, <1>5, IntakeConstants

\* Among naturals there is a least.
LEMMA LeastExists ==
  ASSUME NEW S, S \subseteq Nat, S # {}
  PROVE  \E x \in S : \A y \in S : x <= y
<1> DEFINE R == {ss \in Nat \X Nat : ss[1] < ss[2]}
<1>1. IsWellFoundedOn(R, Nat)
  BY NatLessThanWellFounded DEF OpToRel
<1> HIDE DEF R
<1>2. PICK x \in S : \A y \in S : ~(<<y, x>> \in R)
  BY <1>1, WFMin
<1>3. \A y \in S : ~(y < x)
  BY <1>2 DEF R
<1> QED
  BY <1>3

\* Among drafts there is an earliest one.
LEMMA EarliestFacts ==
  ASSUME NEW S, S \subseteq Keys, S # {}
  PROVE  Earliest(S) \in S
<1>1. PICK a \in {k[1] : k \in S} : \A y \in {k[1] : k \in S} : a <= y
  <2>1. {k[1] : k \in S} \subseteq Nat /\ {k[1] : k \in S} # {}
    BY KeyFacts
  <2> QED
    BY <2>1, LeastExists
<1> DEFINE T == {k \in S : k[1] = a}
<1>2. PICK b \in {k[2] : k \in T} : \A y \in {k[2] : k \in T} : b <= y
  <2>1. {k[2] : k \in T} \subseteq Nat /\ {k[2] : k \in T} # {}
    BY <1>1, KeyFacts
  <2> HIDE DEF T
  <2> QED
    BY <2>1, LeastExists
<1>3. PICK k \in T : k[2] = b
  BY <1>2
<1>4. \A j \in S : Before(k, j)
  <2> TAKE j \in S
  <2>1. a <= j[1] /\ k[1] = a /\ k[1] \in Nat /\ j[1] \in Nat
    BY <1>1, <1>3, KeyFacts
  <2>2. CASE j[1] = a
    <3>1. b <= j[2]
      BY <1>2, <2>2
    <3> QED
      BY <1>3, <2>1, <2>2, <3>1 DEF Before
  <2> QED
    BY <2>1, <2>2 DEF Before
<1>5. \E x \in S : \A j \in S : Before(x, j)
  BY <1>3, <1>4
<1> QED
  BY <1>5 DEF Earliest

\* The next screenshot comes behind all that are there.
LEMMA NextImageFacts ==
  ASSUME image \in [Images -> {"ABSENT", "SHOWN", "ARCHIVED"}]
  PROVE  /\ NextImage \in Nat \ {0}
         /\ \A i \in Images : image[i] # "ABSENT" => i < NextImage
<1> DEFINE S == {0} \cup {i \in Images : image[i] # "ABSENT"}
           T == {MaxImages - x : x \in S}
<1>1. S \subseteq 0..MaxImages /\ 0 \in S /\ MaxImages \in Nat
  BY IntakeConstants DEF Images
<1>2. T \subseteq Nat /\ T # {}
  BY <1>1
<1> HIDE DEF T
<1>3. PICK t \in T : \A y \in T : t <= y
  BY <1>2, LeastExists
<1>4. PICK x \in S : t = MaxImages - x
  BY <1>3 DEF T
<1>5. \A y \in S : x >= y
  <2> TAKE y \in S
  <2>1. MaxImages - y \in T
    BY DEF T
  <2>2. MaxImages - x <= MaxImages - y
    BY <1>3, <1>4, <2>1
  <2> HIDE DEF S
  <2> QED
    BY <1>1, <2>2
<1>6. Max(S) \in S /\ \A y \in S : Max(S) >= y
  BY <1>5 DEF Max
<1>7. NextImage = Max(S) + 1
  BY DEF NextImage
<1>8. Max(S) \in Nat
  BY <1>1, <1>6
<1>9. \A i \in Images : image[i] # "ABSENT" => i \in S /\ i \in Nat
  BY DEF Images
<1> HIDE DEF S
<1> QED
  BY <1>6, <1>7, <1>8, <1>9

-----------------------------------------------------------------------------
(* Drafts and selection *)

ItemRow ==
  [status : {"ABSENT", "PENDING", "ACTIVE", "DEFERRED", "CREATED", "CLOSED"},
   recognition : {"NOT_STARTED", "SUCCEEDED", "FAILED"},
   draft : {"EMPTY", "EXTRACTED", "USER"}, order : BOOLEAN]

RunRow ==
  [status : {"NONE", "OPEN", "SUCCEEDED", "FAILED"}, item : Keys \cup {NoItem},
   workbench : BOOLEAN, deleted : BOOLEAN,
   copy : {"NONE", "CURRENT", "CHANGED"}, recorded : BOOLEAN]

\* Nothing is left of a draft that is gone, a draft has its screenshot, and
\* further drafts of a screenshot exist only once it was read.
Rows(items) ==
  \A k \in Keys :
    /\ items[k].status = "ABSENT" => items[k] = AbsentItem
    /\ image[k[1]] = "ABSENT" => items[k].status = "ABSENT"
    /\ (k[2] # 1 /\ items[k].status # "ABSENT") => items[k].recognition = "SUCCEEDED"

\* The selection is the only draft under review, and not in the archive.
Selected(items, current) ==
  /\ current \in Keys \cup {NoItem}
  /\ \A k \in Keys : items[k].status = "ACTIVE" <=> current = k
  /\ current # NoItem => Shown(current)

Sound(items, current) ==
  /\ items \in [Keys -> ItemRow]
  /\ Rows(items)
  /\ Selected(items, current)

\* Only the status of drafts differs, and only between waiting and under review.
Moved(items, later) ==
  \A k \in Keys :
    /\ \/ later[k] = items[k]
       \/ /\ later[k] = [items[k] EXCEPT !.status = later[k].status]
          /\ items[k].status \in {"PENDING", "ACTIVE"} /\ later[k].status \in {"PENDING", "ACTIVE"}
          /\ Shown(k)

\* Draft k may become row while the selection moves from current to later: a
\* status other than ACTIVE gives it up.
Fits(items, current, k, row, later) ==
  /\ items[k].status # "ABSENT"
  /\ row \in ItemRow /\ row.status # "ABSENT"
  /\ row.recognition \in {items[k].recognition, "SUCCEEDED"} \/ k[2] = 1
  /\ \/ row.status = items[k].status /\ later = current
     \/ row.status = "ACTIVE" /\ current = NoItem /\ later = k /\ Shown(k)
     \/ row.status # "ACTIVE" /\ later = IF current = k THEN NoItem ELSE current

Written(items, k, row) == [items EXCEPT ![k] = row]

\* One draft is written.
LEMMA WriteSound ==
  ASSUME NEW items, NEW current, Sound(items, current),
         NEW k \in Keys, NEW row, NEW later, Fits(items, current, k, row, later)
  PROVE  /\ Sound(Written(items, k, row), later)
         /\ Written(items, k, row)[k] = row
         /\ \A j \in Keys \ {k} : Written(items, k, row)[j] = items[j]
<1> DEFINE next == Written(items, k, row)
<1> USE DEF Fits
<1>1. /\ next \in [Keys -> ItemRow] /\ next[k] = row
      /\ \A j \in Keys \ {k} : next[j] = items[j]
  BY DEF Sound, Written
<1> HIDE DEF next
<1>2. NoItem \notin Keys
  BY KeyFacts
<1>3. Rows(next)
  <2>1. image[k[1]] # "ABSENT"
    BY DEF Sound, Rows
  <2>2. k[2] # 1 => row.recognition = "SUCCEEDED"
    BY DEF Sound, Rows
  <2> QED
    BY <1>1, <2>1, <2>2 DEF Sound, Rows
<1>4. Selected(next, later)
  BY <1>1, <1>2 DEF Sound, Selected
<1>5. Sound(next, later)
  BY <1>1, <1>3, <1>4 DEF Sound
<1> QED
  BY <1>1, <1>5 DEF next

LEMMA SelectSound ==
  ASSUME NEW items, Sound(items, NoItem), NEW k \in Keys, Shown(k),
         items[k].status # "ABSENT"
  PROVE  Sound(Select(items, k).items, k) /\ Select(items, k).active = k
<1> DEFINE row == [items[k] EXCEPT !.status = "ACTIVE"]
<1>1. Select(items, k).items = [items EXCEPT ![k] = row] /\ Select(items, k).active = k
  BY DEF Select, Review
<1>2. row \in ItemRow /\ row.status = "ACTIVE" /\ row.recognition = items[k].recognition
  BY DEF Sound, ItemRow
<1>3. Fits(items, NoItem, k, row, k)
  BY <1>2 DEF Fits
<1> HIDE DEF row
<1> QED
  BY <1>1, <1>3, WriteSound DEF Written

LEMMA FreedSound ==
  ASSUME NEW items, NEW current \in Keys, Sound(items, current), NEW status \in {"PENDING", "DEFERRED"}
  PROVE  Sound([items EXCEPT ![current].status = status], NoItem)
<1> DEFINE row == [items[current] EXCEPT !.status = status]
<1>1. row \in ItemRow /\ row.status = status /\ row.recognition = items[current].recognition
      /\ items[current].status = "ACTIVE" /\ NoItem \notin Keys
  BY KeyFacts DEF Sound, Selected, ItemRow
<1>2. [items EXCEPT ![current].status = status] = [items EXCEPT ![current] = row]
  OBVIOUS
<1> HIDE DEF row
<1>3. Fits(items, current, current, row, NoItem)
  BY <1>1 DEF Fits
<1>4. Sound([items EXCEPT ![current] = row], NoItem)
  BY <1>3, WriteSound DEF Written
<1> QED
  BY <1>2, <1>4

\* advance_review keeps all of it, selects among what is shown, and never ends
\* with a ready draft while none is selected, or with an unreadable selection.
LEMMA AdvanceSound ==
  ASSUME NEW items, NEW current, Sound(items, current)
  PROVE  /\ Sound(AdvanceReview(items, current).items, AdvanceReview(items, current).active)
         /\ Moved(items, AdvanceReview(items, current).items)
         /\ AdvanceReview(items, current).active = NoItem =>
              Ready(AdvanceReview(items, current).items) = {}
         /\ AdvanceReview(items, current).active # NoItem =>
              AdvanceReview(items, current).items[AdvanceReview(items, current).active].recognition # "FAILED"
<1> DEFINE unreadable == current # NoItem /\ items[current].recognition = "FAILED"
           freed == IF unreadable THEN [items EXCEPT ![current].status = "PENDING"] ELSE items
           free == IF unreadable THEN NoItem ELSE current
           rv == AdvanceReview(items, current)
<1>1. rv = IF (current # NoItem /\ ~unreadable) \/ Ready(freed) = {}
             THEN Review(freed, free) ELSE Select(freed, Earliest(Ready(freed)))
  BY DEF AdvanceReview
<1>2. Sound(freed, free) /\ Moved(items, freed)
  <2>1. CASE unreadable
    <3>1. current \in Keys
      BY <2>1 DEF Sound, Selected
    <3>2. freed = [items EXCEPT ![current] = [items[current] EXCEPT !.status = "PENDING"]]
      BY <2>1
    <3>3. /\ freed[current] = [items[current] EXCEPT !.status = "PENDING"]
          /\ freed[current].status = "PENDING"
          /\ \A j \in Keys \ {current} : freed[j] = items[j]
      BY <3>1, <3>2 DEF Sound, ItemRow
    <3>4. items[current].status = "ACTIVE" /\ Shown(current)
      BY <3>1, KeyFacts DEF Sound, Selected
    <3> HIDE DEF freed
    <3>5. Moved(items, freed)
      BY <3>3, <3>4 DEF Moved
    <3> QED
      BY <2>1, <3>1, <3>5, FreedSound DEF freed
  <2>2. CASE ~unreadable
    BY <2>2 DEF Moved
  <2> QED
    BY <2>1, <2>2
<1>3. CASE current # NoItem /\ ~unreadable
  <2>1. rv.items = items /\ rv.active = current
    BY <1>1, <1>3 DEF Review
  <2> QED
    BY <1>2, <1>3, <2>1
<1>4. CASE ~(current # NoItem /\ ~unreadable) /\ Ready(freed) = {}
  <2>0. free = NoItem /\ rv = Review(freed, free)
    <3> HIDE DEF rv, freed, unreadable
    <3> QED
      BY <1>1, <1>4
  <2>1. rv.items = freed /\ rv.active = NoItem /\ free = NoItem
    <3> HIDE DEF rv, freed, free
    <3> QED
      BY <2>0 DEF Review
  <2> HIDE DEF rv, freed, free
  <2>2. Ready(rv.items) = {}
    BY <1>4, <2>1
  <2>3. Sound(rv.items, rv.active) /\ Moved(items, rv.items)
    BY <1>2, <2>1
  <2>4. rv.active = NoItem
    BY <2>1
  <2> QED
    BY <2>2, <2>3, <2>4 DEF rv
<1>5. CASE ~(current # NoItem /\ ~unreadable) /\ Ready(freed) # {}
  <2> DEFINE k == Earliest(Ready(freed))
  <2>1. free = NoItem /\ rv = Select(freed, k)
    BY <1>1, <1>5
  <2> HIDE DEF freed, free
  <2>2. Ready(freed) \subseteq Keys
    BY DEF Ready, Waiting
  <2>3. k \in Ready(freed)
    BY <1>5, <2>2, EarliestFacts
  <2>4. /\ k \in Keys /\ Shown(k) /\ freed[k].status = "PENDING" /\ freed[k].recognition = "SUCCEEDED"
    BY <2>3 DEF Ready, Waiting
  <2>5. Sound(rv.items, k) /\ rv.active = k
    BY <1>2, <2>1, <2>4, SelectSound
  <2>6. rv.items = [freed EXCEPT ![k] = [freed[k] EXCEPT !.status = "ACTIVE"]]
    BY <2>1 DEF Select, Review
  <2> HIDE DEF k, rv
  <2>7. /\ freed \in [Keys -> ItemRow] /\ freed[k] \in ItemRow
        /\ rv.items[k] = [freed[k] EXCEPT !.status = "ACTIVE"]
        /\ rv.items[k].status = "ACTIVE" /\ rv.items[k].recognition = "SUCCEEDED"
        /\ \A j \in Keys \ {k} : rv.items[j] = freed[j]
    BY <1>2, <2>4, <2>6 DEF Sound, ItemRow
  <2>8. items \in [Keys -> ItemRow] /\ items[k] \in ItemRow
    BY <2>4 DEF Sound
  <2>9. /\ items[k].status \in {"PENDING", "ACTIVE"}
        /\ rv.items[k] = [items[k] EXCEPT !.status = "ACTIVE"]
    BY <1>2, <2>4, <2>7, <2>8 DEF Moved, ItemRow
  <2>10. Moved(items, rv.items)
    BY <1>2, <2>4, <2>7, <2>9 DEF Moved
  <2>11. k # NoItem
    BY <2>4, KeyFacts
  <2> QED
    BY <2>5, <2>7, <2>10, <2>11 DEF rv
<1> QED
  BY <1>3, <1>4, <1>5

-----------------------------------------------------------------------------
(* What every step keeps *)

Typed ==
  /\ session \in [status : {"ACTIVE", "ARCHIVED"}, workbench : BOOLEAN]
  /\ image \in [Images -> {"ABSENT", "SHOWN", "ARCHIVED"}]
  /\ run \in RunRow
  /\ created \in [Keys -> Nat]

\* A run has a draft that is there; an open one keeps its session and its
\* screenshot out of the archive.
RunSound ==
  /\ run.item # NoItem => item[run.item].status # "ABSENT"
  /\ ~Idle => Writable /\ (run.item # NoItem => Shown(run.item))

IntakeInv == Typed /\ Sound(item, active) /\ RunSound /\ OneOrderPerDraft

\* What a step may do to a draft the user has written to, and in the archive.
InputKept(k) == item[k].draft = "USER" => item'[k].draft = "USER" \/ item'[k] = AbsentItem

Frozen(k) ==
  (~Live(k) /\ ~Live(k)') =>
    \/ item'[k] \in {item[k], [item[k] EXCEPT !.order = FALSE], AbsentItem}
       /\ (run'.status = "OPEN" => run'.item # k)
    \/ item[k].status = "ACTIVE" /\ item'[k] = [item[k] EXCEPT !.status = "DEFERRED"]

Preserved == IntakeInv' /\ \A k \in Keys : InputKept(k) /\ Frozen(k)

LEMMA OpenRunIsLive ==
  ASSUME Typed, RunSound, NEW k \in Keys, run.status = "OPEN", run.item = k
  PROVE  Live(k)
BY KeyFacts DEF RunSound, Idle, Writable, Live

\* A step that leaves the archive alone writes to drafts outside of it only,
\* except for orders that are deleted.
LEMMA QuietStep ==
  ASSUME IntakeInv, image' = image, Typed', session'.status = session.status,
         Sound(item', active'), RunSound', OneOrderPerDraft',
         \A k \in Keys : /\ item[k].draft = "USER" => item'[k].draft = "USER"
                         /\ \/ Live(k) \/ item'[k] = item[k]
                            \/ item'[k] = [item[k] EXCEPT !.order = FALSE]
  PROVE  Preserved
<1>1. Sound(item, active)'
  BY DEF Sound, Rows, Selected, Shown
<1>2. IntakeInv'
  BY <1>1 DEF IntakeInv
<1>3. \A k \in Keys : Live(k)' <=> Live(k)
  BY DEF Live, Shown
<1>4. ASSUME NEW k \in Keys, ~Live(k)' PROVE run'.status = "OPEN" => run'.item # k
  BY <1>4, KeyFacts DEF RunSound, Idle, Writable, Live
<1>5. \A k \in Keys : InputKept(k) /\ Frozen(k)
  BY <1>3, <1>4 DEF InputKept, Frozen
<1> QED
  BY <1>2, <1>5 DEF Preserved

-----------------------------------------------------------------------------
(* Messages without screenshots, and the run *)

\* A step that changes nothing but the run.
LEMMA RunOnly ==
  ASSUME IntakeInv, UNCHANGED <<session, image, item, active, created>>,
         run' \in RunRow, RunSound'
  PROVE  Preserved
<1>1. Typed' /\ Sound(item', active') /\ OneOrderPerDraft'
  BY DEF IntakeInv, Typed, OneOrderPerDraft
<1>2. session'.status = session.status
  OBVIOUS
<1> QED
  BY <1>1, <1>2, QuietStep

LEMMA NewRunType ==
  ASSUME NEW k \in Keys \cup {NoItem}, NEW workbench \in BOOLEAN
  PROVE  /\ NewRun(k, workbench) \in RunRow
         /\ NewRun(k, workbench).status = "OPEN" /\ NewRun(k, workbench).item = k
BY DEF NewRun, NoRun, RunRow

LEMMA TextPreserves == ASSUME IntakeInv, AcceptText \/ RetryRun \/ LoadContext PROVE Preserved
<1>1. /\ run \in RunRow /\ active \in Keys \cup {NoItem} /\ NoItem \notin Keys
      /\ active # NoItem => Shown(active) /\ item[active].status = "ACTIVE"
  BY KeyFacts DEF IntakeInv, Typed, Sound, Selected
<1>2. CASE AcceptText
  <2>1. run' \in RunRow /\ run'.status = "OPEN" /\ run'.item = active /\ Writable
    BY <1>1, <1>2, NewRunType DEF AcceptText
  <2>2. RunSound'
    BY <1>1, <1>2, <2>1 DEF AcceptText, RunSound, Idle, Writable, Shown
  <2> QED
    BY <1>2, <2>1, <2>2, RunOnly DEF AcceptText
<1>3. CASE RetryRun
  <2>1. /\ run.item \in Keys \cup {NoItem} /\ run.workbench \in BOOLEAN /\ run.item \in {NoItem, active}
        /\ Writable
    BY <1>1, <1>3 DEF RetryRun, MayRetry, RunRow
  <2>2. run' \in RunRow /\ run'.status = "OPEN" /\ run'.item = run.item
    BY <1>3, <2>1, NewRunType DEF RetryRun
  <2>3. RunSound'
    BY <1>1, <1>3, <2>1, <2>2 DEF RetryRun, RunSound, Idle, Writable, Shown
  <2> QED
    BY <1>3, <2>2, <2>3, RunOnly DEF RetryRun
<1>4. CASE LoadContext
  <2>1. run' \in RunRow /\ run'.status = run.status /\ run'.item = run.item
    BY <1>1, <1>4 DEF LoadContext, RunRow
  <2>2. RunSound'
    BY <1>4, <2>1 DEF LoadContext, IntakeInv, RunSound, Idle, Writable, Shown
  <2> QED
    BY <1>4, <2>1, <2>2, RunOnly DEF LoadContext
<1> QED
  BY <1>2, <1>3, <1>4

\* A run, or the user beside it, writes to one draft and keeps its status.
LEMMA WritePreserves ==
  ASSUME IntakeInv, UNCHANGED <<session, image, active, created>>,
         NEW k \in Keys, Live(k), item[k].status # "ABSENT",
         NEW row \in ItemRow, item' = [item EXCEPT ![k] = row],
         row.status = item[k].status,
         row.recognition = item[k].recognition \/ row.recognition = "SUCCEEDED" \/ k[2] = 1,
         item[k].draft = "USER" => row.draft = "USER",
         run' \in RunRow, run'.status = run.status, run'.item = run.item
  PROVE  Preserved
<1>1. /\ Sound(item', active) /\ item'[k] = row
      /\ \A j \in Keys \ {k} : item'[j] = item[j]
  <2>1. Sound(item, active) /\ Fits(item, active, k, row, active)
    BY DEF IntakeInv, Fits
  <2>2. item' = Written(item, k, row)
    BY DEF Written
  <2>3. Sound(Written(item, k, row), active)
    BY <2>1, WriteSound
  <2>4. Written(item, k, row)[k] = row
    BY <2>1, WriteSound
  <2>5. \A j \in Keys \ {k} : Written(item, k, row)[j] = item[j]
    BY <2>1, WriteSound
  <2> QED
    BY <2>2, <2>3, <2>4, <2>5
<1>2. Typed' /\ OneOrderPerDraft'
  BY <1>1 DEF IntakeInv, Typed, OneOrderPerDraft
<1>3. RunSound'
  BY <1>1, KeyFacts DEF IntakeInv, Typed, RunRow, RunSound, Idle, Writable, Shown
<1>4. session'.status = session.status /\ Sound(item', active')
  BY <1>1
<1> QED
  BY <1>1, <1>2, <1>3, <1>4, QuietStep

LEMMA AgentWritesPreserve ==
  ASSUME IntakeInv, RecordFailure \/ PatchByAgent PROVE Preserved
<1> DEFINE k == run.item
<1>1. /\ run \in RunRow /\ ~Idle /\ k # NoItem
  BY DEF IntakeInv, Typed, RecordFailure, PatchByAgent
<1>2. k \in Keys /\ run.status = "OPEN"
  BY <1>1 DEF RunRow, Idle
<1>3. Live(k) /\ item[k].status # "ABSENT" /\ item[k] \in ItemRow
  BY <1>1, <1>2, OpenRunIsLive DEF IntakeInv, RunSound, Sound
<1>4. CASE RecordFailure
  <2> DEFINE row == [item[k] EXCEPT !.recognition = "FAILED"]
  <2>1. item' = [item EXCEPT ![k] = row]
    BY <1>4 DEF RecordFailure
  <2>2. row \in ItemRow /\ row.status = item[k].status /\ row.draft = item[k].draft
    BY <1>3 DEF ItemRow
  <2>3. k[2] = 1
    BY <1>2, <1>3, <1>4 DEF RecordFailure, IntakeInv, Sound, Rows
  <2>4. run' \in RunRow /\ run'.status = run.status /\ run'.item = run.item
    BY <1>1, <1>4 DEF RecordFailure, RunRow
  <2>5. UNCHANGED <<session, image, active, created>>
    BY <1>4 DEF RecordFailure
  <2> HIDE DEF row, k
  <2> QED
    BY <1>2, <1>3, <2>1, <2>2, <2>3, <2>4, <2>5, WritePreserves
<1>5. CASE PatchByAgent
  <2> DEFINE row == [item[k] EXCEPT !.draft = "USER"]
  <2>1. item' = [item EXCEPT ![k] = row]
    BY <1>5 DEF PatchByAgent
  <2>2. row \in ItemRow /\ row.status = item[k].status /\ row.draft = "USER"
        /\ row.recognition = item[k].recognition
    BY <1>3 DEF ItemRow
  <2>4. run' \in RunRow /\ run'.status = run.status /\ run'.item = run.item
    BY <1>1, <1>5 DEF PatchByAgent, RunRow
  <2> HIDE DEF row, k
  <2> QED
    BY <1>2, <1>3, <1>5, <2>1, <2>2, <2>4, WritePreserves DEF PatchByAgent
<1> QED
  BY <1>4, <1>5

LEMMA PatchPreserves == ASSUME IntakeInv, NEW k \in Keys, PatchDraft(k) PROVE Preserved
<1>1. Live(k) /\ item[k].status # "ABSENT" /\ item[k] \in ItemRow /\ run \in RunRow
  BY DEF PatchDraft, UnderReview, Writable, Live, IntakeInv, Sound, Typed
<1> DEFINE row == [item[k] EXCEPT !.draft = "USER"]
<1>2. item' = [item EXCEPT ![k] = row]
  BY DEF PatchDraft
<1>3. row \in ItemRow /\ row.status = item[k].status /\ row.draft = "USER"
      /\ row.recognition = item[k].recognition
  BY <1>1 DEF ItemRow
<1>4. run' \in RunRow /\ run'.status = run.status /\ run'.item = run.item
  BY <1>1 DEF PatchDraft, RunRow
<1> HIDE DEF row
<1> QED
  BY <1>1, <1>2, <1>3, <1>4, WritePreserves DEF PatchDraft

LEMMA SavePreserves == ASSUME IntakeInv, NEW n \in Nat, SaveRecognition(n) PROVE Preserved
<1> DEFINE k == run.item
           saved == [item[k] EXCEPT !.recognition = "SUCCEEDED", !.draft = Extracted(@)]
           new == [AbsentItem EXCEPT !.status = "PENDING", !.recognition = "SUCCEEDED",
                                     !.draft = "EXTRACTED"]
           Later(j) == j[1] = k[1] /\ j[2] \in 2..n
<1>1. /\ run \in RunRow /\ ~Idle /\ k \in Keys /\ run.status = "OPEN" /\ k[2] = 1
      /\ n <= MaxOrders[k[1]] /\ item[k].status \in {"PENDING", "ACTIVE"}
      /\ \A x \in 2..MaxOrders[k[1]] : item[<<k[1], x>>].status = "ABSENT"
      /\ UNCHANGED <<session, image, active, created>>
  BY DEF SaveRecognition, IntakeInv, Typed, RunRow, Idle
<1>2. Live(k) /\ item[k] \in ItemRow
  BY <1>1, OpenRunIsLive DEF IntakeInv, Sound
<1>3. /\ saved \in ItemRow /\ saved.status = item[k].status /\ saved.recognition = "SUCCEEDED"
      /\ item[k].draft = "USER" => saved.draft = "USER"
  BY <1>2 DEF ItemRow, Extracted
<1>4. /\ new \in ItemRow /\ new.status = "PENDING" /\ new.recognition = "SUCCEEDED"
  BY DEF AbsentItem, ItemRow
<1>5. /\ item' \in [Keys -> ItemRow]
      /\ item'[k] = saved
      /\ \A j \in Keys \ {k} : item'[j] = IF Later(j) THEN new ELSE item[j]
  <2>1. item' = [j \in Keys |-> IF j = k THEN [item[j] EXCEPT !.recognition = "SUCCEEDED", !.draft = Extracted(@)]
                                ELSE IF Later(j) THEN new ELSE item[j]]
    BY DEF SaveRecognition
  <2>2. item \in [Keys -> ItemRow]
    BY DEF IntakeInv, Sound
  <2> HIDE DEF new, Later, k
  <2> QED
    BY <1>1, <1>3, <1>4, <2>1, <2>2
<1>6. ASSUME NEW j \in Keys \ {k}, Later(j)
      PROVE  item[j].status = "ABSENT" /\ item[j] = AbsentItem /\ j # active /\ Live(j)
  <2>1. j = <<k[1], j[2]>> /\ j[2] \in 2..MaxOrders[k[1]]
    BY <1>1, <1>6, KeyFacts
  <2>2. item[j].status = "ABSENT"
    BY <1>1, <2>1
  <2> QED
    BY <1>2, <1>6, <2>2 DEF IntakeInv, Sound, Rows, Selected, Live, Shown
<1> HIDE DEF saved, new
<1>7. Rows(item')
  <2>1. image[k[1]] # "ABSENT"
    BY <1>2 DEF Live, Shown
  <2> QED
    BY <1>1, <1>3, <1>4, <1>5, <2>1 DEF IntakeInv, Sound, Rows
<1>8. Selected(item', active)
  BY <1>1, <1>3, <1>4, <1>5, <1>6 DEF IntakeInv, Sound, Selected
<1>9. OneOrderPerDraft'
  BY <1>1, <1>3, <1>4, <1>5, <1>6 DEF IntakeInv, OneOrderPerDraft
<1>10. run' \in RunRow /\ run'.status = run.status /\ run'.item = k
  BY <1>1 DEF SaveRecognition, RunRow
<1>11. RunSound'
  BY <1>1, <1>2, <1>3, <1>5, <1>10 DEF RunSound, Idle, Writable, Live, Shown
<1>12. Typed' /\ Sound(item', active') /\ session'.status = session.status
  BY <1>1, <1>5, <1>7, <1>8, <1>10 DEF IntakeInv, Typed, Sound
<1>13. \A j \in Keys : /\ item[j].draft = "USER" => item'[j].draft = "USER"
                       /\ Live(j) \/ item'[j] = item[j]
  <2>1. AbsentItem.draft = "EMPTY"
    BY DEF AbsentItem
  <2> HIDE DEF Later
  <2> QED
    BY <1>2, <1>3, <1>5, <1>6, <2>1
<1> QED
  BY <1>1, <1>9, <1>11, <1>12, <1>13, QuietStep

-----------------------------------------------------------------------------
(* The end of a run *)

LEMMA MovedFacts ==
  ASSUME NEW items, items \in [Keys -> ItemRow], NEW later, Moved(items, later), NEW k \in Keys
  PROVE  /\ later[k].draft = items[k].draft /\ later[k].recognition = items[k].recognition
         /\ later[k].status = "CREATED" <=> items[k].status = "CREATED"
         /\ later[k].status = "ABSENT" <=> items[k].status = "ABSENT"
         /\ Shown(k) \/ later[k] = items[k]
<1>1. items[k] \in ItemRow
  OBVIOUS
<1>2. CASE later[k] = items[k]
  BY <1>2
<1>3. CASE /\ later[k] = [items[k] EXCEPT !.status = later[k].status]
           /\ items[k].status \in {"PENDING", "ACTIVE"} /\ later[k].status \in {"PENDING", "ACTIVE"}
           /\ Shown(k)
  BY <1>1, <1>3 DEF ItemRow
<1> QED
  BY <1>2, <1>3 DEF Moved

\* A failure is noted in the draft of its run and nowhere else.
LEMMA FailureSound ==
  ASSUME IntakeInv, ~Idle
  PROVE  /\ Sound(AfterFailure, active)
         /\ \A k \in Keys : /\ AfterFailure[k].draft = item[k].draft
                            /\ AfterFailure[k].status = item[k].status
                            /\ Live(k) \/ AfterFailure[k] = item[k]
<1> DEFINE k == run.item
           row == [item[k] EXCEPT !.recognition = "FAILED"]
<1>1. CASE k # NoItem /\ item[k].recognition # "SUCCEEDED" /\ ~run.recorded
  <2>1. k \in Keys /\ run.status = "OPEN" /\ item[k] \in ItemRow /\ item[k].status # "ABSENT"
    BY <1>1 DEF IntakeInv, Typed, RunRow, RunSound, Idle, Sound
  <2>2. Live(k) /\ k[2] = 1
    BY <1>1, <2>1, OpenRunIsLive DEF IntakeInv, Sound, Rows
  <2>3. row \in ItemRow /\ row.status = item[k].status /\ row.draft = item[k].draft
    BY <2>1 DEF ItemRow
  <2>4. AfterFailure = Written(item, k, row)
    BY <1>1 DEF AfterFailure, Written
  <2> HIDE DEF k, row
  <2>5. Sound(item, active) /\ Fits(item, active, k, row, active)
    BY <2>1, <2>2, <2>3 DEF IntakeInv, Fits
  <2>6. Sound(Written(item, k, row), active)
    BY <2>1, <2>5, WriteSound
  <2>7. Written(item, k, row)[k] = row
    BY <2>1, <2>5, WriteSound
  <2>8. \A j \in Keys \ {k} : Written(item, k, row)[j] = item[j]
    BY <2>1, <2>5, WriteSound
  <2> QED
    BY <2>2, <2>3, <2>4, <2>6, <2>7, <2>8
<1>2. CASE ~(k # NoItem /\ item[k].recognition # "SUCCEEDED" /\ ~run.recorded)
  <2>1. AfterFailure = item
    BY <1>2 DEF AfterFailure
  <2> QED
    BY <2>1 DEF IntakeInv
<1> QED
  BY <1>1, <1>2

\* What the end of a run makes of the drafts.
LEMMA EndRunDetail ==
  ASSUME IntakeInv, NEW status \in {"SUCCEEDED", "FAILED"}, EndRun(status)
  PROVE  /\ UNCHANGED <<session, image, created>> /\ run' \in RunRow /\ (Live(run.item) \/ run.item = NoItem)
         /\ Sound(item', active')
         /\ \A k \in Keys : /\ item'[k].draft = item[k].draft
                            /\ item'[k].status = "CREATED" <=> item[k].status = "CREATED"
                            /\ item'[k].status = "ABSENT" <=> item[k].status = "ABSENT"
                            /\ Live(k) \/ item'[k] = item[k]
         /\ \/ run'.status = status /\ run'.item = run.item
            \/ run'.status = "OPEN" /\ run'.item \in Unread(item')
         /\ (run.workbench /\ run'.status # "OPEN") =>
              /\ Unread(item') = {}
              /\ active' = NoItem => Ready(item') = {}
              /\ active' # NoItem => item'[active'].recognition # "FAILED"
<1> DEFINE items == IF status = "FAILED" THEN AfterFailure ELSE item
           ended == [NoRun EXCEPT !.status = status, !.item = run.item, !.workbench = run.workbench]
<1>1. /\ run \in RunRow /\ ~Idle /\ run.status = "OPEN" /\ Writable /\ session.workbench \in BOOLEAN
      /\ UNCHANGED <<session, image, created>>
  BY DEF EndRun, IntakeInv, Typed, RunSound, Idle
<1>2. /\ Sound(items, active)
      /\ \A k \in Keys : /\ items[k].draft = item[k].draft
                         /\ items[k].status = item[k].status
                         /\ Live(k) \/ items[k] = item[k]
  <2>1. Sound(item, active)
    BY DEF IntakeInv
  <2> QED
    BY <1>1, <2>1, FailureSound
<1>3. ended \in RunRow /\ ended.status = status /\ ended.item = run.item
  BY <1>1 DEF NoRun, RunRow
<1>4. Live(run.item) \/ run.item = NoItem
  BY <1>1, OpenRunIsLive DEF IntakeInv, RunRow
<1>5. \/ ~run.workbench /\ run' = ended /\ item' = item /\ active' = active
      \/ /\ run.workbench /\ Unread(items) # {}
         /\ run' = NewRun(Earliest(Unread(items)), session.workbench)
         /\ item' = items /\ active' = active
      \/ /\ run.workbench /\ Unread(items) = {} /\ run' = ended
         /\ item' = AdvanceReview(items, active).items /\ active' = AdvanceReview(items, active).active
  BY DEF EndRun, SetReview
<1> HIDE DEF items, ended
<1>6. CASE ~run.workbench /\ run' = ended /\ item' = item /\ active' = active
  <2>1. Sound(item', active')
    BY <1>6 DEF IntakeInv
  <2> QED
    BY <1>1, <1>3, <1>4, <1>6, <2>1
<1>7. CASE /\ run.workbench /\ Unread(items) # {}
           /\ run' = NewRun(Earliest(Unread(items)), session.workbench)
           /\ item' = items /\ active' = active
  <2>1. Unread(items) \subseteq Keys
    BY DEF Unread
  <2>2. Earliest(Unread(items)) \in Unread(items)
    BY <1>7, <2>1, EarliestFacts
  <2>3. run' \in RunRow /\ run'.status = "OPEN" /\ run'.item \in Unread(items)
    BY <1>1, <1>7, <2>1, <2>2, NewRunType
  <2>4. Unread(item') = Unread(items) /\ Sound(item', active')
    BY <1>2, <1>7
  <2>5. \A k \in Keys : item'[k] = items[k]
    BY <1>7
  <2> QED
    BY <1>1, <1>2, <1>4, <2>3, <2>4, <2>5
<1>8. CASE /\ run.workbench /\ Unread(items) = {} /\ run' = ended
           /\ item' = AdvanceReview(items, active).items /\ active' = AdvanceReview(items, active).active
  <2> DEFINE rv == AdvanceReview(items, active)
  <2>1. /\ Sound(rv.items, rv.active) /\ Moved(items, rv.items)
        /\ rv.active = NoItem => Ready(rv.items) = {}
        /\ rv.active # NoItem => rv.items[rv.active].recognition # "FAILED"
    BY <1>2, AdvanceSound
  <2>2. item' = rv.items /\ active' = rv.active
    BY <1>8
  <2> HIDE DEF rv
  <2>3. /\ Sound(item', active') /\ Moved(items, item')
        /\ active' = NoItem => Ready(item') = {}
        /\ active' # NoItem => item'[active'].recognition # "FAILED"
    BY <2>1, <2>2
  <2>4. items \in [Keys -> ItemRow]
    BY <1>2 DEF Sound
  <2>5. \A k \in Keys :
          /\ item'[k].draft = items[k].draft /\ item'[k].recognition = items[k].recognition
          /\ item'[k].status = "CREATED" <=> items[k].status = "CREATED"
          /\ item'[k].status = "ABSENT" <=> items[k].status = "ABSENT"
          /\ Shown(k) \/ item'[k] = items[k]
    BY <2>3, <2>4, MovedFacts
  <2>6. Unread(item') = {}
    <3> SUFFICES ASSUME NEW k \in Unread(item') PROVE k \in Unread(items)
      BY <1>8
    <3> QED
      BY <2>3, <2>5 DEF Unread, Moved
  <2>7. \A k \in Keys : Live(k) \/ item'[k] = item[k]
    BY <1>1, <1>2, <2>5 DEF Live, Writable
  <2>8. run' = ended
    BY <1>8
  <2> QED
    BY <1>1, <1>2, <1>3, <1>4, <2>3, <2>5, <2>6, <2>7, <2>8
<1> QED
  BY <1>5, <1>6, <1>7, <1>8

LEMMA EndRunPreserves ==
  ASSUME IntakeInv, NEW status \in {"SUCCEEDED", "FAILED"}, EndRun(status) PROVE Preserved
<1>1. /\ UNCHANGED <<session, image, created>> /\ run' \in RunRow /\ (Live(run.item) \/ run.item = NoItem)
      /\ Sound(item', active')
      /\ \A k \in Keys : /\ item'[k].draft = item[k].draft
                         /\ item'[k].status = "CREATED" <=> item[k].status = "CREATED"
                         /\ item'[k].status = "ABSENT" <=> item[k].status = "ABSENT"
                         /\ Live(k) \/ item'[k] = item[k]
      /\ \/ run'.status = status /\ run'.item = run.item
         \/ run'.status = "OPEN" /\ run'.item \in Unread(item')
  BY EndRunDetail
<1>2. Typed' /\ OneOrderPerDraft' /\ session'.status = session.status
  BY <1>1 DEF IntakeInv, Typed, OneOrderPerDraft
<1>3. Writable /\ run \in RunRow
  BY DEF EndRun, IntakeInv, RunSound, Typed
<1>4. RunSound'
  <2>1. CASE run'.status = status /\ run'.item = run.item
    <3>1. run.item # NoItem => run.item \in Keys /\ item[run.item].status # "ABSENT"
      BY <1>3 DEF RunRow, IntakeInv, RunSound
    <3> QED
      BY <1>1, <2>1, <3>1 DEF RunSound, Idle
  <2>2. CASE run'.status = "OPEN" /\ run'.item \in Unread(item')
    <3>1. Shown(run'.item) /\ item'[run'.item].status # "ABSENT"
      BY <2>2 DEF Unread
    <3> QED
      BY <1>1, <1>2, <1>3, <2>2, <3>1 DEF RunSound, Idle, Writable, Shown
  <2> QED
    BY <1>1, <2>1, <2>2
<1> QED
  BY <1>1, <1>2, <1>4, QuietStep

-----------------------------------------------------------------------------
(* Commands on a draft *)

LEMMA LeaveSound ==
  ASSUME NEW items, NEW current, Sound(items, current), NEW advance \in BOOLEAN,
         Leave(items, current, advance)
  PROVE  Sound(item', active') /\ Moved(items, item')
<1> DEFINE rv == AdvanceReview(items, current)
<1>1. Sound(rv.items, rv.active) /\ Moved(items, rv.items)
  BY AdvanceSound
<1>2. CASE advance
  <2>1. item' = rv.items /\ active' = rv.active
    BY <1>2 DEF Leave, SetReview
  <2> HIDE DEF rv
  <2> QED
    BY <1>1, <2>1
<1>3. CASE ~advance
  <2>1. item' = items /\ active' = current
    BY <1>3 DEF Leave, SetReview, Review
  <2> QED
    BY <2>1 DEF Moved
<1> QED
  BY <1>2, <1>3

\* A draft is finished or put aside, and the review may go on.
LEMMA FinishPreserves ==
  ASSUME IntakeInv, UNCHANGED <<session, image, run>>, NEW k \in Keys, Commanded(k),
         NEW row, NEW current, Fits(item, active, k, row, current), row.draft = item[k].draft,
         NEW advance \in BOOLEAN, Leave(Written(item, k, row), current, advance),
         item[k].status # "CREATED",
         \/ row.status # "CREATED" /\ created' = created
         \/ row.status = "CREATED" /\ created' = [created EXCEPT ![k] = @ + 1]
  PROVE  Preserved
<1> DEFINE items == Written(item, k, row)
<1>1. /\ Sound(items, current) /\ items[k] = row /\ row \in ItemRow
      /\ \A j \in Keys \ {k} : items[j] = item[j]
  <2>1. Sound(item, active)
    BY DEF IntakeInv
  <2>2. Sound(items, current)
    BY <2>1, WriteSound
  <2>3. items[k] = row
    BY <2>1, WriteSound
  <2>4. \A j \in Keys \ {k} : items[j] = item[j]
    BY <2>1, WriteSound
  <2> QED
    BY <2>2, <2>3, <2>4 DEF Fits
<1>2. Leave(items, current, advance)
  OBVIOUS
<1> HIDE DEF items
<1>3. Sound(item', active') /\ Moved(items, item')
  BY <1>1, <1>2, LeaveSound
<1>4. items \in [Keys -> ItemRow]
  BY <1>1 DEF Sound
<1>5. \A j \in Keys :
        /\ item'[j].draft = items[j].draft
        /\ item'[j].status = "CREATED" <=> items[j].status = "CREATED"
        /\ item'[j].status = "ABSENT" <=> items[j].status = "ABSENT"
        /\ Shown(j) \/ item'[j] = items[j]
  BY <1>3, <1>4, MovedFacts
<1>6. row.status # "ABSENT" /\ Shown(k) /\ Writable /\ Idle
  BY DEF Fits, Commanded
<1>7. OneOrderPerDraft' /\ created' \in [Keys -> Nat]
  <2>1. created \in [Keys -> Nat] /\ created[k] = 0
        /\ \A j \in Keys : created[j] = IF item[j].status = "CREATED" THEN 1 ELSE 0
    BY DEF IntakeInv, Typed, OneOrderPerDraft
  <2>2. /\ created' \in [Keys -> Nat] /\ \A j \in Keys \ {k} : created'[j] = created[j]
        /\ created'[k] = IF row.status = "CREATED" THEN 1 ELSE 0
    BY <2>1
  <2>3. \A j \in Keys : created'[j] = IF items[j].status = "CREATED" THEN 1 ELSE 0
    BY <1>1, <2>1, <2>2
  <2> QED
    BY <1>5, <2>2, <2>3 DEF OneOrderPerDraft
<1>8. Typed' /\ session'.status = session.status
  BY <1>7 DEF IntakeInv, Typed
<1>9. RunSound'
  BY <1>1, <1>5, <1>6 DEF IntakeInv, Typed, RunRow, RunSound, Idle
<1>10. \A j \in Keys : /\ item[j].draft = "USER" => item'[j].draft = "USER"
                       /\ Live(j) \/ item'[j] = item[j]
  BY <1>1, <1>5, <1>6 DEF Live, Writable
<1> QED
  BY <1>3, <1>7, <1>8, <1>9, <1>10, QuietStep

LEMMA ConfirmPreserves ==
  ASSUME IntakeInv, NEW k \in Keys, NEW advance \in BOOLEAN, ConfirmOrder(k, advance)
  PROVE  Preserved
<1> DEFINE row == [item[k] EXCEPT !.status = "CREATED", !.order = TRUE]
<1>1. item[k] \in ItemRow /\ active = k /\ item[k].status = "ACTIVE" /\ NoItem \notin Keys
  BY KeyFacts DEF IntakeInv, Sound, ConfirmOrder, MayConfirm, UnderReview
<1>2. [item EXCEPT ![k].status = "CREATED", ![k].order = TRUE] = Written(item, k, row)
  BY <1>1 DEF Written, IntakeInv, Sound
<1>3. Leave(Written(item, k, row), NoItem, advance)
  BY <1>2 DEF ConfirmOrder
<1>4. row \in ItemRow /\ row.status = "CREATED" /\ row.recognition = item[k].recognition
      /\ row.draft = item[k].draft
  BY <1>1 DEF ItemRow
<1> HIDE DEF row
<1>5. Fits(item, active, k, row, NoItem)
  BY <1>1, <1>4 DEF Fits
<1>6. UNCHANGED <<session, image, run>> /\ Commanded(k) /\ created' = [created EXCEPT ![k] = @ + 1]
  BY DEF ConfirmOrder
<1> QED
  BY <1>1, <1>3, <1>4, <1>5, <1>6, FinishPreserves

LEMMA DeferPreserves ==
  ASSUME IntakeInv, NEW k \in Keys, NEW advance \in BOOLEAN, DeferItem(k, advance)
  PROVE  Preserved
<1> DEFINE row == [item[k] EXCEPT !.status = "DEFERRED"]
<1>1. item[k] \in ItemRow /\ active = k /\ item[k].status = "ACTIVE" /\ NoItem \notin Keys
  BY KeyFacts DEF IntakeInv, Sound, DeferItem, UnderReview
<1>2. [item EXCEPT ![k].status = "DEFERRED"] = Written(item, k, row)
  BY DEF Written
<1>3. Leave(Written(item, k, row), NoItem, advance)
  BY <1>2 DEF DeferItem
<1>4. row \in ItemRow /\ row.status = "DEFERRED" /\ row.recognition = item[k].recognition
      /\ row.draft = item[k].draft
  BY <1>1 DEF ItemRow
<1> HIDE DEF row
<1>5. Fits(item, active, k, row, NoItem)
  BY <1>1, <1>4 DEF Fits
<1>6. UNCHANGED <<session, image, run>> /\ Commanded(k) /\ created' = created
  BY DEF DeferItem
<1> QED
  BY <1>1, <1>3, <1>4, <1>5, <1>6, FinishPreserves

LEMMA ClosePreserves ==
  ASSUME IntakeInv, NEW k \in Keys, NEW advance \in BOOLEAN, CloseItem(k, advance)
  PROVE  Preserved
<1> DEFINE row == [item[k] EXCEPT !.status = "CLOSED"]
<1>1. item[k] \in ItemRow /\ item[k].status \notin {"CREATED", "ABSENT"} /\ NoItem \notin Keys
  BY KeyFacts DEF IntakeInv, Sound, CloseItem, Commanded
<1>2. [item EXCEPT ![k].status = "CLOSED"] = Written(item, k, row)
  BY DEF Written
<1>3. Leave(Written(item, k, row), Released(k), advance)
  BY <1>2 DEF CloseItem
<1>4. row \in ItemRow /\ row.status = "CLOSED" /\ row.recognition = item[k].recognition
      /\ row.draft = item[k].draft
  BY <1>1 DEF ItemRow
<1> HIDE DEF row
<1>5. Fits(item, active, k, row, Released(k))
  BY <1>1, <1>4 DEF Fits, Released
<1>6. UNCHANGED <<session, image, run>> /\ Commanded(k) /\ created' = created
  BY DEF CloseItem
<1> QED
  BY <1>1, <1>3, <1>4, <1>5, <1>6, FinishPreserves

LEMMA RecognizePreserves == ASSUME IntakeInv, NEW k \in Keys, RecognizeItem(k) PROVE Preserved
<1>1. /\ UNCHANGED <<image, item, active, created>> /\ Writable /\ Shown(k) /\ item[k].status # "ABSENT"
      /\ session' = [session EXCEPT !.workbench = TRUE] /\ run' = NewRun(k, TRUE)
  BY DEF RecognizeItem, Commanded
<1>2. /\ session' \in [status : {"ACTIVE", "ARCHIVED"}, workbench : BOOLEAN]
      /\ session'.status = session.status
  BY <1>1 DEF IntakeInv, Typed
<1>3. run' \in RunRow /\ run'.status = "OPEN" /\ run'.item = k
  BY <1>1, NewRunType
<1>4. Typed' /\ Sound(item', active') /\ OneOrderPerDraft'
  BY <1>1, <1>2, <1>3 DEF IntakeInv, Typed, OneOrderPerDraft
<1>5. RunSound'
  BY <1>1, <1>2, <1>3 DEF RunSound, Idle, Writable, Shown
<1> QED
  BY <1>1, <1>2, <1>4, <1>5, QuietStep

\* The drafts once that under review is put aside.
PutBack == IF active = NoItem THEN item ELSE [item EXCEPT ![active].status = "DEFERRED"]

\* A draft that waits comes under review and the former one is put aside.
LEMMA ChosenSound ==
  ASSUME IntakeInv, NEW k \in Keys, Shown(k), item[k].status \in {"PENDING", "DEFERRED"}
  PROVE  /\ Sound(Select(PutBack, k).items, Select(PutBack, k).active)
         /\ \A j \in Keys :
              /\ Select(PutBack, k).items[j].draft = item[j].draft
              /\ Select(PutBack, k).items[j].status = "CREATED" <=> item[j].status = "CREATED"
              /\ Select(PutBack, k).items[j].status = "ABSENT" <=> item[j].status = "ABSENT"
              /\ Shown(j) \/ Select(PutBack, k).items[j] = item[j]
<1> DEFINE free == PutBack
<1>1. /\ Sound(item, active) /\ item \in [Keys -> ItemRow] /\ active \in Keys \cup {NoItem}
      /\ NoItem \notin Keys /\ k # active
      /\ active # NoItem => Shown(active) /\ item[active].status = "ACTIVE"
  BY KeyFacts DEF IntakeInv, Sound, Selected
<1>2. /\ Sound(free, NoItem)
      /\ \A j \in Keys : /\ free[j].draft = item[j].draft
                         /\ j # active => free[j] = item[j]
                         /\ j = active => item[j].status = "ACTIVE" /\ free[j].status = "DEFERRED"
  <2>1. CASE active = NoItem
    BY <1>1, <2>1 DEF PutBack
  <2>2. CASE active # NoItem
    <3> DEFINE row == [item[active] EXCEPT !.status = "DEFERRED"]
    <3>1. free = [item EXCEPT ![active].status = "DEFERRED"]
      BY <2>2 DEF PutBack
    <3>0. Sound([item EXCEPT ![active].status = "DEFERRED"], NoItem)
      BY <1>1, <2>2, FreedSound
    <3> HIDE DEF free
    <3>2. Sound(free, NoItem)
      BY <3>0, <3>1
    <3>3. free = [item EXCEPT ![active] = row]
      BY <3>1
    <3>4. row.draft = item[active].draft /\ row.status = "DEFERRED"
      BY <1>1, <2>2 DEF ItemRow
    <3> HIDE DEF row
    <3> QED
      BY <1>1, <2>2, <3>2, <3>3, <3>4
  <2> QED
    BY <2>1, <2>2
<1> HIDE DEF free
<1>3. free[k] = item[k] /\ free \in [Keys -> ItemRow] /\ free[k] \in ItemRow
  BY <1>1, <1>2 DEF Sound
<1>4. Sound(Select(free, k).items, k) /\ Select(free, k).active = k
  BY <1>2, <1>3, SelectSound
<1> DEFINE later == Select(free, k).items
           row == [free[k] EXCEPT !.status = "ACTIVE"]
<1>5. later = [free EXCEPT ![k] = row]
  BY DEF Select, Review
<1>6. row.draft = free[k].draft /\ row.status = "ACTIVE"
  BY <1>3 DEF ItemRow
<1> HIDE DEF row, later
<1>7. later[k] = row /\ \A j \in Keys \ {k} : later[j] = free[j]
  BY <1>3, <1>5
<1>8. \A j \in Keys : /\ later[j].draft = item[j].draft
                      /\ later[j].status = "CREATED" <=> item[j].status = "CREATED"
                      /\ later[j].status = "ABSENT" <=> item[j].status = "ABSENT"
                      /\ Shown(j) \/ later[j] = item[j]
  BY <1>1, <1>2, <1>3, <1>6, <1>7
<1> QED
  BY <1>4, <1>8 DEF later, free

LEMMA ChoicePreserves ==
  ASSUME IntakeInv, UNCHANGED <<session, image, created>>, Writable, Idle,
         NEW k \in Keys, Shown(k), item[k].status \in {"PENDING", "DEFERRED"},
         SetReview(Select(PutBack, k)), ReadIfNeeded(k)
  PROVE  Preserved
<1> DEFINE rv == Select(PutBack, k)
<1>1. /\ Sound(rv.items, rv.active)
      /\ \A j \in Keys : /\ rv.items[j].draft = item[j].draft
                         /\ rv.items[j].status = "CREATED" <=> item[j].status = "CREATED"
                         /\ rv.items[j].status = "ABSENT" <=> item[j].status = "ABSENT"
                         /\ Shown(j) \/ rv.items[j] = item[j]
  BY ChosenSound
<1>2. item' = rv.items /\ active' = rv.active
  BY DEF SetReview
<1> HIDE DEF rv
<1>3. /\ Sound(item', active')
      /\ \A j \in Keys : /\ item'[j].draft = item[j].draft
                         /\ item'[j].status = "CREATED" <=> item[j].status = "CREATED"
                         /\ item'[j].status = "ABSENT" <=> item[j].status = "ABSENT"
                         /\ Live(j) \/ item'[j] = item[j]
  BY <1>1, <1>2 DEF Live, Writable
<1>4. \/ run' = run
      \/ run' \in RunRow /\ run'.status = "OPEN" /\ run'.item = k
  BY NewRunType DEF ReadIfNeeded, IntakeInv, Typed
<1>5. Typed' /\ OneOrderPerDraft'
  BY <1>3, <1>4 DEF IntakeInv, Typed, OneOrderPerDraft
<1>6. RunSound'
  <2>1. CASE run' = run
    <3>1. run.item \in Keys \cup {NoItem}
      BY DEF IntakeInv, Typed, RunRow
    <3> QED
      BY <1>3, <2>1, <3>1 DEF IntakeInv, RunSound, Idle
  <2>2. CASE run' \in RunRow /\ run'.status = "OPEN" /\ run'.item = k
    BY <1>3, <2>2 DEF RunSound, Writable, Shown
  <2> QED
    BY <1>4, <2>1, <2>2
<1>7. session'.status = session.status
  OBVIOUS
<1> QED
  BY <1>3, <1>5, <1>6, <1>7, QuietStep

LEMMA SelectPreserves == ASSUME IntakeInv, NEW k \in Keys, SelectItem(k) PROVE Preserved
<1>1. /\ UNCHANGED <<session, image, created>> /\ Writable /\ Idle /\ Shown(k)
      /\ item[k].status \in {"PENDING", "DEFERRED"}
      /\ SetReview(Select(PutBack, k)) /\ ReadIfNeeded(k)
  BY DEF SelectItem, Commanded, PutBack
<1> QED
  BY <1>1, ChoicePreserves

LEMMA NextPreserves == ASSUME IntakeInv, NextItem PROVE Preserved
<1> DEFINE k == Earliest(Waiting(item))
<1>1. Waiting(item) \subseteq Keys /\ Waiting(item) # {}
  BY DEF Waiting, NextItem
<1>2. k \in Waiting(item)
  BY <1>1, EarliestFacts
<1>3. /\ UNCHANGED <<session, image, created>> /\ Writable /\ Idle /\ active = NoItem
      /\ SetReview(Select(PutBack, k)) /\ ReadIfNeeded(k)
  BY DEF NextItem, PutBack
<1> HIDE DEF k
<1>4. k \in Keys /\ Shown(k) /\ item[k].status = "PENDING"
  BY <1>2 DEF Waiting
<1> QED
  BY <1>3, <1>4, ChoicePreserves

LEMMA DeleteOrderPreserves == ASSUME IntakeInv, NEW k \in Keys, DeleteOrder(k) PROVE Preserved
<1> DEFINE row == [item[k] EXCEPT !.order = FALSE]
<1>1. item[k] \in ItemRow /\ item[k].status # "ABSENT"
  BY DEF DeleteOrder, IntakeInv, Sound, Rows, AbsentItem
<1>2. row \in ItemRow /\ row.status = item[k].status /\ row.recognition = item[k].recognition
      /\ row.draft = item[k].draft
  BY <1>1 DEF ItemRow
<1>3. item' = Written(item, k, row) /\ UNCHANGED <<session, image, active, run, created>>
  BY DEF DeleteOrder, Written
<1>4. row = [item[k] EXCEPT !.order = FALSE]
  OBVIOUS
<1> HIDE DEF row
<1>5. Sound(item, active) /\ Fits(item, active, k, row, active)
  BY <1>1, <1>2 DEF IntakeInv, Fits
<1>6. /\ Sound(Written(item, k, row), active)
  BY <1>5, WriteSound
<1>7. Written(item, k, row)[k] = row
  BY <1>5, WriteSound
<1>8. \A j \in Keys \ {k} : Written(item, k, row)[j] = item[j]
  BY <1>5, WriteSound
<1>9. \A j \in Keys : /\ item'[j].status = item[j].status /\ item'[j].draft = item[j].draft
                      /\ item'[j] = item[j] \/ item'[j] = [item[j] EXCEPT !.order = FALSE]
  BY <1>2, <1>3, <1>4, <1>7, <1>8
<1>10. Typed' /\ Sound(item', active') /\ OneOrderPerDraft'
  BY <1>3, <1>6, <1>9 DEF IntakeInv, Typed, OneOrderPerDraft
<1>11. RunSound'
  BY <1>3, <1>9 DEF IntakeInv, Typed, RunRow, RunSound, Idle, Writable, Shown
<1> QED
  BY <1>3, <1>9, <1>10, <1>11, QuietStep

-----------------------------------------------------------------------------
(* The library *)

LEMMA ArchivePreserves ==
  ASSUME IntakeInv, NEW i \in Images, NEW archived \in BOOLEAN, ArchiveScreenshot(i, archived)
  PROVE  Preserved
<1>1. /\ Idle /\ image[i] # "ABSENT" /\ UNCHANGED <<run, created>>
      /\ image' = ArchiveAt(i, archived)
      /\ session' = IF archived THEN session ELSE [session EXCEPT !.status = "ACTIVE"]
      /\ SetReview(PutAside(image'))
  BY DEF ArchiveScreenshot
<1>2. /\ image' \in [Images -> {"ABSENT", "SHOWN", "ARCHIVED"}]
      /\ \A j \in Images : image'[j] = "ABSENT" <=> image[j] = "ABSENT"
  BY <1>1 DEF ArchiveAt, IntakeInv, Typed
<1>3. session' \in [status : {"ACTIVE", "ARCHIVED"}, workbench : BOOLEAN]
  BY <1>1 DEF IntakeInv, Typed
<1>4. /\ active \in Keys \cup {NoItem} /\ NoItem \notin Keys /\ item \in [Keys -> ItemRow]
      /\ active # NoItem => item[active].status = "ACTIVE" /\ Shown(active)
      /\ run.item \in Keys \cup {NoItem}
      /\ \A k \in Keys : k[1] \in Images
  BY KeyFacts DEF IntakeInv, Sound, Selected, Typed, RunRow
<1>5. CASE active # NoItem /\ image'[active[1]] = "ARCHIVED"
  <2> DEFINE row == [item[active] EXCEPT !.status = "DEFERRED"]
  <2>1. item' = [item EXCEPT ![active].status = "DEFERRED"] /\ active' = NoItem
    BY <1>1, <1>5 DEF SetReview, PutAside, Review
  <2>2. Sound(item', active')
    BY <1>4, <1>5, <2>1, FreedSound DEF IntakeInv
  <2>3. item' = [item EXCEPT ![active] = row]
    BY <2>1
  <2>4. row.draft = item[active].draft /\ row.status = "DEFERRED"
    BY <1>4, <1>5 DEF ItemRow
  <2>5. row = [item[active] EXCEPT !.status = "DEFERRED"]
    OBVIOUS
  <2> HIDE DEF row
  <2>6. item'[active] = row /\ \A k \in Keys \ {active} : item'[k] = item[k]
    BY <1>4, <1>5, <2>3
  <2>7. Sound(item, active)'
    BY <1>2, <1>4, <2>1, <2>2 DEF Sound, Rows, Selected
  <2>8. OneOrderPerDraft' /\ RunSound'
    BY <1>1, <1>4, <1>5, <2>4, <2>6 DEF IntakeInv, OneOrderPerDraft, RunSound, Idle
  <2>9. Typed'
    BY <1>1, <1>2, <1>3 DEF IntakeInv, Typed
  <2>10. \A k \in Keys : InputKept(k) /\ Frozen(k)
    BY <1>1, <1>4, <1>5, <2>4, <2>5, <2>6 DEF InputKept, Frozen, Idle
  <2> QED
    BY <2>7, <2>8, <2>9, <2>10 DEF Preserved, IntakeInv
<1>6. CASE ~(active # NoItem /\ image'[active[1]] = "ARCHIVED")
  <2>1. item' = item /\ active' = active
    BY <1>1, <1>6 DEF SetReview, PutAside, Review
  <2>2. active # NoItem => image'[active[1]] = "SHOWN"
    BY <1>2, <1>4, <1>6 DEF Shown
  <2>3. Sound(item, active)'
    BY <1>2, <1>4, <2>1, <2>2 DEF IntakeInv, Sound, Rows, Selected, Shown
  <2>4. OneOrderPerDraft' /\ RunSound' /\ Typed'
    BY <1>1, <1>2, <1>3, <2>1 DEF IntakeInv, Typed, OneOrderPerDraft, RunSound, Idle
  <2>5. \A k \in Keys : InputKept(k) /\ Frozen(k)
    BY <1>1, <2>1 DEF InputKept, Frozen, Idle
  <2> QED
    BY <2>3, <2>4, <2>5 DEF Preserved, IntakeInv
<1> QED
  BY <1>5, <1>6

LEMMA DeletePreserves == ASSUME IntakeInv, NEW i \in Images, DeleteScreenshot(i) PROVE Preserved
<1>1. /\ Idle /\ session' = session
      /\ image' = [image EXCEPT ![i] = "ABSENT"]
      /\ item' = [k \in Keys |-> IF k[1] = i THEN AbsentItem ELSE item[k]]
      /\ active' = IF active # NoItem /\ active[1] = i THEN NoItem ELSE active
      /\ run' = IF run.item # NoItem /\ run.item[1] = i
                  THEN [run EXCEPT !.item = NoItem, !.deleted = TRUE] ELSE run
      /\ created' = [k \in Keys |-> IF k[1] = i THEN 0 ELSE created[k]]
  BY DEF DeleteScreenshot
<1>2. /\ AbsentItem \in ItemRow /\ AbsentItem.status = "ABSENT" /\ NoItem \notin Keys
      /\ \A k \in Keys : k[1] \in Images
  BY KeyFacts DEF AbsentItem, ItemRow
<1>3. /\ item' \in [Keys -> ItemRow] /\ image' \in [Images -> {"ABSENT", "SHOWN", "ARCHIVED"}]
      /\ created' \in [Keys -> Nat]
  BY <1>1, <1>2 DEF IntakeInv, Typed, Sound
<1>4. /\ run' \in RunRow /\ run'.status = run.status
      /\ run'.item # NoItem => run'.item = run.item /\ run.item[1] # i
  BY <1>1 DEF IntakeInv, Typed, RunRow
<1>5. Rows(item)'
  BY <1>1, <1>2 DEF IntakeInv, Typed, Sound, Rows
<1>6. Selected(item, active)'
  BY <1>1, <1>2 DEF IntakeInv, Typed, Sound, Selected, Shown
<1>7. OneOrderPerDraft'
  BY <1>1, <1>2 DEF IntakeInv, OneOrderPerDraft
<1>8. RunSound'
  <2>1. run.item \in Keys \cup {NoItem}
    BY DEF IntakeInv, Typed, RunRow
  <2> QED
    BY <1>1, <1>4, <2>1 DEF IntakeInv, RunSound, Idle
<1>9. Typed' /\ Sound(item, active)'
  BY <1>1, <1>3, <1>4, <1>5, <1>6 DEF IntakeInv, Typed, Sound
<1>10. \A k \in Keys : InputKept(k) /\ Frozen(k)
  BY <1>1, <1>4 DEF InputKept, Frozen, Idle
<1> QED
  BY <1>7, <1>8, <1>9, <1>10 DEF Preserved, IntakeInv

LEMMA StatusPreserves ==
  ASSUME IntakeInv, NEW status \in {"ACTIVE", "ARCHIVED"}, ChangeStatus(status) PROVE Preserved
<1>1. /\ Idle /\ session' = [session EXCEPT !.status = status]
      /\ UNCHANGED <<image, item, active, run, created>>
  BY DEF ChangeStatus
<1>2. session' \in [status : {"ACTIVE", "ARCHIVED"}, workbench : BOOLEAN]
  BY <1>1 DEF IntakeInv, Typed
<1>3. Typed' /\ Sound(item, active)' /\ OneOrderPerDraft' /\ RunSound'
  BY <1>1, <1>2 DEF IntakeInv, Typed, Sound, Rows, Selected, Shown, OneOrderPerDraft, RunSound, Idle
<1>4. \A k \in Keys : InputKept(k) /\ Frozen(k)
  BY <1>1 DEF InputKept, Frozen, Idle
<1> QED
  BY <1>3, <1>4 DEF Preserved, IntakeInv

-----------------------------------------------------------------------------
(* New screenshots *)

\* The drafts of new screenshots are new as well, and one of all that wait may
\* come under review.
LEMMA ImagesPreserve ==
  ASSUME IntakeInv, NEW n \in 1..2, NEW workbench \in BOOLEAN, AcceptImages(n, workbench)
  PROVE  Preserved
<1> DEFINE new == NextImage..(NextImage + n - 1)
           fresh == [AbsentItem EXCEPT !.status = "PENDING"]
           queued == [k \in Keys |-> IF k[1] \in new /\ k[2] = 1 THEN fresh ELSE item[k]]
           first == Earliest(Waiting(item) \cup {<<NextImage, 1>>})
           review == IF active = NoItem THEN Select(queued, first) ELSE Review(queued, active)
           chosen == [queued[first] EXCEPT !.status = "ACTIVE"]
<1>1. /\ Writable /\ Idle /\ new \subseteq Images
      /\ image' = [i \in Images |-> IF i \in new THEN "SHOWN" ELSE image[i]]
      /\ item' = review.items /\ active' = review.active
      /\ run' = NewRun(IF workbench THEN <<NextImage, 1>>
                       ELSE IF active # NoItem THEN NoItem ELSE review.active, workbench)
      /\ session' = [session EXCEPT !.workbench = @ \/ workbench]
      /\ created' = created
  BY DEF AcceptImages, SetReview
<1>2. /\ NextImage \in new /\ NextImage \in Images /\ <<NextImage, 1>> \in Keys
      /\ \A i \in new : i \in Images /\ image[i] = "ABSENT"
  <2>1. /\ NextImage \in Nat \ {0}
        /\ \A i \in Images : image[i] # "ABSENT" => i < NextImage
    BY NextImageFacts DEF IntakeInv, Typed
  <2>2. NextImage \in new
    BY <2>1
  <2>3. \A i \in new : NextImage <= i /\ i \in Nat
    BY <2>1
  <2>4. \A i \in new : ~(i < NextImage)
    BY <2>1, <2>3
  <2> HIDE DEF new
  <2> QED
    BY <1>1, <2>1, <2>2, <2>4, KeyFacts
<1>3. /\ item \in [Keys -> ItemRow] /\ active \in Keys \cup {NoItem} /\ NoItem \notin Keys
      /\ \A k \in Keys : k[1] \in Images
      /\ \A k \in Keys : k[1] \in new => /\ item[k].status = "ABSENT" /\ item[k] = AbsentItem
                                         /\ active # k
  BY <1>2, KeyFacts DEF IntakeInv, Sound, Selected, Rows
<1>4. /\ fresh \in ItemRow /\ fresh.status = "PENDING" /\ fresh.draft = "EMPTY"
      /\ AbsentItem.draft = "EMPTY" /\ AbsentItem.status = "ABSENT"
  BY DEF AbsentItem, ItemRow
<1> HIDE DEF new, fresh
<1>5. /\ queued \in [Keys -> ItemRow]
      /\ \A k \in Keys : queued[k] = IF k[1] \in new /\ k[2] = 1 THEN fresh ELSE item[k]
  BY <1>3, <1>4
<1>6. /\ first \in Keys /\ queued[first].status = "PENDING"
      /\ first[1] \in new \/ (Shown(first) /\ first[1] \notin new)
  <2> HIDE DEF queued
  <2>1. Waiting(item) \subseteq Keys
    BY DEF Waiting
  <2>2. first \in Waiting(item) \cup {<<NextImage, 1>>}
    BY <1>2, <2>1, EarliestFacts
  <2> HIDE DEF first
  <2>3. CASE first = <<NextImage, 1>>
    <3>1. first[1] = NextImage /\ first[2] = 1 /\ first \in Keys
      BY <1>2, <2>3
    <3> QED
      BY <1>2, <1>4, <1>5, <2>3, <3>1
  <2>4. CASE first \in Waiting(item)
    <3>1. first \in Keys /\ item[first].status = "PENDING" /\ Shown(first)
      BY <2>4 DEF Waiting
    <3>2. first[1] \notin new
      BY <1>2, <3>1 DEF Shown
    <3> QED
      BY <1>5, <2>4, <3>1, <3>2
  <2> QED
    BY <2>2, <2>3, <2>4
<1>7. /\ chosen \in ItemRow /\ chosen.status = "ACTIVE" /\ chosen.draft = queued[first].draft
      /\ chosen.recognition = queued[first].recognition
  BY <1>5, <1>6 DEF ItemRow
<1> HIDE DEF queued, first, chosen
\* Who is under review afterwards.
<1>8. \/ active # NoItem /\ item' = queued /\ active' = active
      \/ /\ active = NoItem /\ active' = first /\ item' \in [Keys -> ItemRow]
         /\ item'[first] = chosen /\ \A k \in Keys \ {first} : item'[k] = queued[k]
  <2>1. CASE active # NoItem
    BY <1>1, <2>1 DEF Review
  <2>2. CASE active = NoItem
    <3>1. active' = first /\ item' = [queued EXCEPT ![first] = chosen]
      BY <1>1, <2>2 DEF Select, Review, chosen
    <3> QED
      BY <1>5, <1>6, <1>7, <2>2, <3>1
  <2> QED
    BY <2>1, <2>2
<1>9. /\ image' \in [Images -> {"ABSENT", "SHOWN", "ARCHIVED"}]
      /\ \A i \in Images : image'[i] = IF i \in new THEN "SHOWN" ELSE image[i]
      /\ session' \in [status : {"ACTIVE", "ARCHIVED"}, workbench : BOOLEAN]
      /\ session'.status = "ACTIVE" /\ session.status = "ACTIVE"
  BY <1>1 DEF IntakeInv, Typed, Writable
\* Each draft: either of a new screenshot, or as before, or chosen.
<1>10. /\ item' \in [Keys -> ItemRow]
       /\ \A k \in Keys :
            /\ item'[k].status = "CREATED" <=> item[k].status = "CREATED"
            /\ item'[k].status = "ABSENT" => item[k] = item'[k]
            /\ k[1] \notin new => item'[k].draft = item[k].draft /\ item'[k].recognition = item[k].recognition
            /\ k[1] \in new => (item'[k].status = "ABSENT" <=> k[2] # 1) /\ item[k].draft = "EMPTY"
            /\ (k[1] \notin new /\ item[k].status = "ABSENT") => item'[k].status = "ABSENT"
            /\ item'[k] = item[k] \/ k[1] \in new \/ Shown(k)
  BY <1>3, <1>4, <1>5, <1>6, <1>7, <1>8
<1>11. Rows(item)'
  BY <1>3, <1>9, <1>10 DEF IntakeInv, Sound, Rows
<1>12. Selected(item, active)'
  BY <1>2, <1>3, <1>4, <1>5, <1>6, <1>7, <1>8, <1>9 DEF IntakeInv, Sound, Selected, Shown
<1>13. OneOrderPerDraft'
  BY <1>1, <1>10 DEF IntakeInv, OneOrderPerDraft
<1>14. /\ run' \in RunRow /\ run'.status = "OPEN"
       /\ run'.item \in {NoItem, <<NextImage, 1>>, first} /\ (run'.item = first => active' = first \/ first = <<NextImage, 1>>)
  <2> DEFINE k == IF workbench THEN <<NextImage, 1>> ELSE IF active # NoItem THEN NoItem ELSE review.active
  <2>1. k \in {NoItem, <<NextImage, 1>>, first} /\ (k = first => active' = first \/ first = <<NextImage, 1>>)
    BY <1>1, <1>3, <1>6, <1>8
  <2>2. run' = NewRun(k, workbench)
    BY <1>1
  <2> HIDE DEF k
  <2>3. k \in Keys \cup {NoItem}
    BY <1>2, <1>6, <2>1
  <2> QED
    BY <2>1, <2>2, <2>3, NewRunType
<1>15. RunSound'
  <2>1. run'.item # NoItem => run'.item \in Keys /\ item'[run'.item].status # "ABSENT" /\ image'[run'.item[1]] = "SHOWN"
    <3>1. CASE run'.item = <<NextImage, 1>>
      <4>1. <<NextImage, 1>>[1] = NextImage /\ <<NextImage, 1>>[2] = 1
        OBVIOUS
      <4> QED
        BY <1>2, <1>9, <1>10, <3>1, <4>1 DEF Shown
    <3>2. CASE run'.item = first
      BY <1>3, <1>6, <1>7, <1>8, <1>9, <1>14, <3>1, <3>2 DEF Shown
    <3> QED
      BY <1>14, <3>1, <3>2
  <2> QED
    BY <1>9, <2>1 DEF RunSound, Writable, Shown
<1>16. Typed' /\ Sound(item, active)'
  BY <1>1, <1>9, <1>10, <1>11, <1>12, <1>14 DEF IntakeInv, Typed, Sound
<1>17. \A k \in Keys : InputKept(k) /\ Frozen(k)
  <2> TAKE k \in Keys
  <2>1. InputKept(k)
    BY <1>10 DEF InputKept
  <2>2. ASSUME ~Live(k), ~Live(k)' PROVE item'[k] = item[k] /\ run'.item # k
    <3>1. k[1] \notin new /\ ~Shown(k) /\ ~Shown(k)'
      BY <1>3, <1>9, <2>2 DEF Live, Shown
    <3>2. run'.item = k => Shown(k)'
      BY <1>15, <1>14, <1>3 DEF RunSound, Idle, Shown
    <3> QED
      BY <1>10, <3>1, <3>2
  <2> QED
    BY <2>1, <2>2 DEF Frozen
<1> QED
  BY <1>13, <1>15, <1>16, <1>17 DEF Preserved, IntakeInv

-----------------------------------------------------------------------------
(* All steps *)

LEMMA InitInv == Init => IntakeInv
<1> SUFFICES ASSUME Init PROVE IntakeInv
  OBVIOUS
<1>1. AbsentItem \in ItemRow /\ AbsentItem.status = "ABSENT" /\ NoRun \in RunRow /\ NoRun.item = NoItem
      /\ NoRun.status = "NONE" /\ NoItem \notin Keys /\ \A k \in Keys : k[1] \in Images
  BY KeyFacts DEF AbsentItem, ItemRow, NoRun, RunRow
<1>2. Typed /\ item \in [Keys -> ItemRow]
  BY <1>1 DEF Init, Typed
<1>3. Rows(item) /\ Selected(item, active) /\ RunSound /\ OneOrderPerDraft
  BY <1>1 DEF Init, Rows, Selected, RunSound, Idle, OneOrderPerDraft
<1> QED
  BY <1>2, <1>3 DEF IntakeInv, Sound

LEMMA StepPreserves == ASSUME IntakeInv, Next PROVE Preserved
<1>1. CASE MessageStep
  BY <1>1, ImagesPreserve, TextPreserves DEF MessageStep
<1>2. CASE RunStep
  <2>1. ASSUME NEW n \in 1..Max({MaxOrders[i] : i \in Images}), SaveRecognition(n) PROVE Preserved
    <3>1. n \in Nat
      OBVIOUS
    <3> QED
      BY <2>1, <3>1, SavePreserves
  <2> QED
    BY <1>2, <2>1, TextPreserves, AgentWritesPreserve, EndRunPreserves DEF RunStep
<1>3. ASSUME NEW k \in Keys, ItemStep(k) PROVE Preserved
  BY <1>3, PatchPreserves, ConfirmPreserves, DeferPreserves, ClosePreserves, RecognizePreserves,
     SelectPreserves, DeleteOrderPreserves DEF ItemStep
<1>4. CASE LibraryStep
  BY <1>4, ArchivePreserves, DeletePreserves, StatusPreserves DEF LibraryStep
<1> QED
  BY <1>1, <1>2, <1>3, <1>4, NextPreserves DEF Next

LEMMA InvStep == IntakeInv /\ [Next]_vars => IntakeInv'
<1>1. ASSUME IntakeInv, UNCHANGED vars PROVE IntakeInv'
  BY <1>1 DEF vars, IntakeInv, Typed, Sound, Rows, Selected, Shown, RunSound, Idle, Writable, OneOrderPerDraft
<1> QED
  BY <1>1, StepPreserves DEF Preserved

\* Sessions, screenshots, drafts and the run keep their types.
THEOREM TypeCorrect == Spec => []TypeOK
<1>1. IntakeInv => TypeOK
  BY DEF IntakeInv, Typed, Sound, Selected, TypeOK, ItemRow, RunRow
<1> QED
  BY <1>1, InitInv, InvStep, PTL DEF Spec

\* The selection and the draft under review agree.
THEOREM ReviewsAreUnique == Spec => []OneReview
<1>1. IntakeInv => OneReview
  BY DEF IntakeInv, Sound, Selected, OneReview
<1> QED
  BY <1>1, InitInv, InvStep, PTL DEF Spec

\* A draft becomes one order at most.
THEOREM DraftsOrderOnce == Spec => []OneOrderPerDraft
<1>1. IntakeInv => OneOrderPerDraft
  BY DEF IntakeInv
<1> QED
  BY <1>1, InitInv, InvStep, PTL DEF Spec

\* Nothing in the archive changes, but for orders deleted and a review put aside.
THEOREM ArchivesAreReadOnly == Spec => ArchiveIsReadOnly
<1> DEFINE Step == \A k \in Keys : (~Live(k) /\ ~Live(k)') =>
              \/ item'[k] \in {item[k], [item[k] EXCEPT !.order = FALSE], AbsentItem}
                 /\ (run'.status = "OPEN" => run'.item # k)
              \/ item[k].status = "ACTIVE" /\ item'[k] = [item[k] EXCEPT !.status = "DEFERRED"]
<1>1. IntakeInv /\ [Next]_vars => [Step]_vars
  BY StepPreserves DEF Preserved, Frozen
<1> QED
  BY <1>1, InitInv, InvStep, PTL DEF Spec, ArchiveIsReadOnly

\* No recognition overwrites what the user entered.
THEOREM UserInputStays == Spec => UserInputKept
<1> DEFINE Step == \A k \in Keys : item[k].draft = "USER" =>
                     item'[k].draft = "USER" \/ item'[k] = AbsentItem
<1>1. IntakeInv /\ [Next]_vars => [Step]_vars
  BY StepPreserves DEF Preserved, InputKept
<1> QED
  BY <1>1, InitInv, InvStep, PTL DEF Spec, UserInputKept

\* No step but the end of a run closes an open run.
LEMMA OnlyEndsClose ==
  ASSUME IntakeInv, Next, ~Idle, Idle'
  PROVE  \E status \in {"SUCCEEDED", "FAILED"} : EndRun(status)
<1>1. CASE MessageStep
  BY <1>1 DEF MessageStep, AcceptImages, AcceptText, RetryRun, MayRetry, Idle
<1>2. CASE RunStep
  BY <1>2 DEF RunStep, LoadContext, SaveRecognition, RecordFailure, PatchByAgent, Idle, IntakeInv, Typed, RunRow
<1>3. ASSUME NEW k \in Keys, ItemStep(k) PROVE FALSE
  BY <1>3 DEF ItemStep, PatchDraft, ConfirmOrder, DeferItem, CloseItem, RecognizeItem, SelectItem, DeleteOrder,
              Commanded, Idle, IntakeInv, Typed, RunRow
<1>4. CASE NextItem
  BY <1>4 DEF NextItem
<1>5. CASE LibraryStep
  BY <1>5 DEF LibraryStep, ArchiveScreenshot, DeleteScreenshot, ChangeStatus
<1> QED
  BY <1>1, <1>2, <1>3, <1>4, <1>5 DEF Next

\* When the queue of screenshots is done, none is unread and the user has a
\* readable draft before them if there is one.
THEOREM ReviewsFollow == Spec => ReviewFollowsRecognition
<1> DEFINE Step == (~Idle /\ run.workbench /\ Idle') =>
             /\ Unread(item)' = {}
             /\ IF active' = NoItem THEN Ready(item)' = {}
                                    ELSE item'[active'].recognition = "SUCCEEDED"
<1>1. IntakeInv /\ [Next]_vars => [Step]_vars
  <2> SUFFICES ASSUME IntakeInv, Next, ~Idle, run.workbench, Idle' PROVE Step
    OBVIOUS
  <2>1. PICK status \in {"SUCCEEDED", "FAILED"} : EndRun(status)
    BY OnlyEndsClose
  <2>2. /\ image' = image /\ Sound(item', active')
        /\ Unread(item') = {}
        /\ active' = NoItem => Ready(item') = {}
        /\ active' # NoItem => item'[active'].recognition # "FAILED"
    BY <2>1, EndRunDetail DEF Idle
  <2>3. Unread(item)' = {} /\ (active' = NoItem => Ready(item)' = {})
    BY <2>2 DEF Unread, Ready, Waiting, Shown
  <2>4. ASSUME active' # NoItem PROVE item'[active'].recognition = "SUCCEEDED"
    <3>1. /\ active' \in Keys /\ item'[active'] \in ItemRow /\ item'[active'].status = "ACTIVE"
          /\ Shown(active') /\ (active'[2] # 1 => item'[active'].recognition = "SUCCEEDED")
      BY <2>2, <2>4, KeyFacts DEF Sound, Selected, Rows
    <3>2. active' \notin Unread(item')
      BY <2>2
    <3> QED
      BY <2>2, <2>4, <3>1, <3>2 DEF Unread, ItemRow
  <2> QED
    BY <2>3, <2>4
<1> QED
  BY <1>1, InitInv, InvStep, PTL DEF Spec, ReviewFollowsRecognition
=============================================================================
