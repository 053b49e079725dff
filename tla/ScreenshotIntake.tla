-------------------------- MODULE ScreenshotIntake --------------------------
(***************************************************************************)
(* One order-intake session: its screenshots, the order drafts read from   *)
(* them, the draft under review, and the run that reads or discusses one   *)
(* of them.  Nothing here reads the rows of another session.               *)
(*                                                                         *)
(* Every command and every transaction of a run holds the session row, so  *)
(* each is one step.  All commands but the patch of a draft require that   *)
(* no run is open.  Leases, queueing and process failures are the subject  *)
(* of the module AgentRuns: here a run may fail whenever it is open.       *)
(*                                                                         *)
(* A screenshot is named by its queue position, and a draft by that and    *)
(* its source_order_index.  The revision of a draft matters only to a run  *)
(* that read it earlier: run.copy says whether it is still the same.       *)
(***************************************************************************)
EXTENDS Integers, FiniteSets, FiniteSetsExt

CONSTANTS
  MaxImages,   \* bound on the screenshots of the session at a time
  MaxOrders,   \* MaxOrders[i]: bound on the orders on screenshot i (the code: 20)
  NoItem

Images == 1..MaxImages
Keys == UNION {{i} \X (1..MaxOrders[i]) : i \in Images}

ASSUME IntakeConstants ==
  /\ MaxImages \in Nat \ {0}
  /\ MaxOrders \in [Images -> Nat \ {0}]
  /\ NoItem \notin Keys

VARIABLES
  session,    \* status, and state["intake_workbench"]
  image,      \* "ABSENT", "SHOWN" or "ARCHIVED" (intake_archived_at)
  item,       \* order_intake_items
  active,     \* chat_sessions.active_work_item_id
  run,        \* the latest run
  created     \* how many orders were ever created from a draft; not stored

vars == <<session, image, item, active, run, created>>

AbsentItem == [status |-> "ABSENT", recognition |-> "NOT_STARTED", draft |-> "EMPTY", order |-> FALSE]
NoRun == [status |-> "NONE", item |-> NoItem, workbench |-> FALSE, deleted |-> FALSE,
          copy |-> "NONE", recorded |-> FALSE]

Init ==
  /\ session = [status |-> "ACTIVE", workbench |-> FALSE]
  /\ image = [i \in Images |-> "ABSENT"]
  /\ item = [k \in Keys |-> AbsentItem]
  /\ active = NoItem
  /\ run = NoRun
  /\ created = [k \in Keys |-> 0]

-----------------------------------------------------------------------------
(* The queue of drafts *)

Before(j, k) == j[1] < k[1] \/ (j[1] = k[1] /\ j[2] <= k[2])
Earliest(S) == CHOOSE k \in S : \A j \in S : Before(k, j)

Shown(k) == image[k[1]] = "SHOWN"
Waiting(items) == {k \in Keys : Shown(k) /\ items[k].status = "PENDING"}

\* Mutation of Ready: archived screenshots are not skipped.
ReadyOrArchived(items) ==
  {k \in Keys : items[k].status = "PENDING" /\ items[k].recognition = "SUCCEEDED"}

\* What advance_review may select.
Ready(items) == {k \in Waiting(items) : items[k].recognition = "SUCCEEDED"}

\* Mutation of Unread: archived screenshots are not skipped.
UnreadOrArchived(items) ==
  {k \in Keys : k[2] = 1 /\ items[k].recognition = "NOT_STARTED"
                /\ items[k].status \in {"PENDING", "ACTIVE"}}

\* What continue_recognition may queue.
Unread(items) ==
  {k \in Keys : Shown(k) /\ k[2] = 1 /\ items[k].recognition = "NOT_STARTED"
                /\ items[k].status \in {"PENDING", "ACTIVE"}}

Idle == run.status # "OPEN"
Writable == session.status = "ACTIVE"

NewRun(k, workbench) ==
  [NoRun EXCEPT !.status = "OPEN", !.item = k, !.workbench = workbench]

\* The drafts and the current one.
Review(items, current) == [items |-> items, active |-> current]

Select(items, k) == Review([items EXCEPT ![k].status = "ACTIVE"], k)

\* Mutation of AdvanceReview: a current draft always stays current.
AdvanceReviewIfFree(items, current) ==
  IF current # NoItem \/ Ready(items) = {}
    THEN Review(items, current) ELSE Select(items, Earliest(Ready(items)))

\* advance_review: an unreadable draft makes way, and the first ready one is next.
AdvanceReview(items, current) ==
  LET unreadable == current # NoItem /\ items[current].recognition = "FAILED"
      freed == IF unreadable THEN [items EXCEPT ![current].status = "PENDING"] ELSE items
  IN
  IF (current # NoItem /\ ~unreadable) \/ Ready(freed) = {}
    THEN Review(freed, IF unreadable THEN NoItem ELSE current)
    ELSE Select(freed, Earliest(Ready(freed)))

SetReview(review) == item' = review.items /\ active' = review.active

-----------------------------------------------------------------------------
(* Messages *)

\* The position after those of all remaining drafts.
NextImage == Max({0} \cup {i \in Images : image[i] # "ABSENT"}) + 1

\* accept_message with n images, for recognition only (workbench) or as chat.
AcceptImages(n, workbench) ==
  LET new == NextImage..(NextImage + n - 1)
      queued == [k \in Keys |-> IF k[1] \in new /\ k[2] = 1
                                  THEN [AbsentItem EXCEPT !.status = "PENDING"] ELSE item[k]]
      first == Earliest(Waiting(item) \cup {<<NextImage, 1>>})
      review == IF active = NoItem THEN Select(queued, first) ELSE Review(queued, active)
  IN
  /\ Writable /\ Idle
  /\ new \subseteq Images
  /\ image' = [i \in Images |-> IF i \in new THEN "SHOWN" ELSE image[i]]
  /\ SetReview(review)
  /\ run' = NewRun(IF workbench THEN <<NextImage, 1>>
                   ELSE IF active # NoItem THEN NoItem ELSE review.active, workbench)
  /\ session' = [session EXCEPT !.workbench = @ \/ workbench]
  /\ UNCHANGED created

\* accept_message without images: about the current draft, or about none.
AcceptText ==
  /\ Writable /\ Idle
  /\ run' = NewRun(active, FALSE)
  /\ UNCHANGED <<session, image, item, active, created>>

MayRetry == run.status = "FAILED" /\ ~run.deleted /\ run.item \in {NoItem, active}

RetryRun ==
  /\ Writable /\ MayRetry
  /\ run' = NewRun(run.item, run.workbench)
  /\ UNCHANGED <<session, image, item, active, created>>

-----------------------------------------------------------------------------
(* The run *)

\* load: the run takes a copy of its draft.
LoadContext ==
  /\ ~Idle /\ run.copy = "NONE"
  /\ run' = [run EXCEPT !.copy = "CURRENT"]
  /\ UNCHANGED <<session, image, item, active, created>>

\* Mutation of Extracted: what the user entered is overwritten.
ExtractedOverwriting(draft) == "EXTRACTED"

\* The draft after an extraction: fields the user supplied are kept.
Extracted(draft) == IF draft = "USER" THEN "USER" ELSE "EXTRACTED"

\* save_screenshot_extraction: the whole screenshot with n orders, or nothing.
SaveRecognition(n) ==
  LET k == run.item IN
  /\ ~Idle /\ k # NoItem /\ run.copy = "CURRENT"
  /\ k[2] = 1 /\ item[k].recognition # "SUCCEEDED"
  /\ item[k].status \in {"PENDING", "ACTIVE"}
  /\ \A x \in 2..MaxOrders[k[1]] : item[<<k[1], x>>].status = "ABSENT"
  /\ n <= MaxOrders[k[1]]
  /\ item' = [j \in Keys |->
       IF j = k THEN [item[j] EXCEPT !.recognition = "SUCCEEDED", !.draft = Extracted(@)]
       ELSE IF j[1] = k[1] /\ j[2] \in 2..n
         THEN [AbsentItem EXCEPT !.status = "PENDING", !.recognition = "SUCCEEDED",
                                 !.draft = "EXTRACTED"]
       ELSE item[j]]
  /\ run' = [run EXCEPT !.copy = "CHANGED"]
  /\ UNCHANGED <<session, image, active, created>>

\* _recognition_failed: there was no usable answer.
RecordFailure ==
  /\ ~Idle /\ run.item # NoItem /\ run.copy # "NONE" /\ ~run.recorded
  /\ item[run.item].recognition # "SUCCEEDED"
  /\ item' = [item EXCEPT ![run.item].recognition = "FAILED"]
  /\ run' = [run EXCEPT !.copy = "CHANGED", !.recorded = TRUE]
  /\ UNCHANGED <<session, image, active, created>>

\* The tool patch_current_draft of a chat run.
PatchByAgent ==
  /\ ~Idle /\ ~run.workbench /\ run.item # NoItem /\ run.copy # "NONE" /\ ~run.recorded
  /\ item[run.item].recognition = "SUCCEEDED" \/ run.copy = "CHANGED"
  /\ item[run.item].status = "ACTIVE"
  /\ item' = [item EXCEPT ![run.item].draft = "USER"]
  /\ run' = [run EXCEPT !.copy = "CHANGED"]
  /\ UNCHANGED <<session, image, active, created>>

\* The drafts after a workbench run failed without a record of its own.
AfterFailure ==
  IF run.item # NoItem /\ item[run.item].recognition # "SUCCEEDED" /\ ~run.recorded
    THEN [item EXCEPT ![run.item].recognition = "FAILED"] ELSE item

\* finalize and _fail_locked with continue_recognition: the next screenshot is
\* queued, or else the review goes on.
EndRun(status) ==
  LET items == IF status = "FAILED" THEN AfterFailure ELSE item
      ended == [NoRun EXCEPT !.status = status, !.item = run.item, !.workbench = run.workbench]
  IN
  /\ ~Idle
  /\ status = "SUCCEEDED" =>
       run.copy # "NONE" /\ ~run.recorded /\ (run.workbench => item[run.item].recognition = "SUCCEEDED")
  /\ IF ~run.workbench
       THEN run' = ended /\ UNCHANGED <<item, active>>
       ELSE IF Unread(items) # {}
         THEN run' = NewRun(Earliest(Unread(items)), session.workbench)
              /\ item' = items /\ UNCHANGED active
         ELSE run' = ended /\ SetReview(AdvanceReview(items, active))
  /\ UNCHANGED <<session, image, created>>

-----------------------------------------------------------------------------
(* Commands on a draft; expected_revision is the current one *)

\* require_item and require_idle.
Commanded(k) == Writable /\ Idle /\ Shown(k) /\ item[k].status # "ABSENT"

UnderReview(k) == item[k].status = "ACTIVE" /\ active = k

\* PATCH of the draft under review: the only write beside an open run.
PatchDraft(k) ==
  /\ Writable /\ Shown(k) /\ UnderReview(k)
  /\ item' = [item EXCEPT ![k].draft = "USER"]
  /\ run' = IF run.item = k /\ run.copy = "CURRENT" THEN [run EXCEPT !.copy = "CHANGED"] ELSE run
  /\ UNCHANGED <<session, image, active, created>>

\* The state after a draft was finished or put aside, with or without advance.
Leave(items, current, advance) ==
  SetReview(IF advance THEN AdvanceReview(items, current) ELSE Review(items, current))

\* Mutation of MayConfirm: a draft counts as created only while it has an order.
MayConfirmWithoutOrder(k) ==
  item[k].draft # "EMPTY" /\ (UnderReview(k) \/ (item[k].status = "CREATED" /\ ~item[k].order))

\* The draft is complete; CONFIRM_ORDER repeated returns the order, or fails if
\* that was deleted.
MayConfirm(k) == item[k].draft # "EMPTY" /\ UnderReview(k)

ConfirmOrder(k, advance) ==
  /\ Commanded(k) /\ MayConfirm(k)
  /\ Leave([item EXCEPT ![k].status = "CREATED", ![k].order = TRUE], NoItem, advance)
  /\ created' = [created EXCEPT ![k] = @ + 1]
  /\ UNCHANGED <<session, image, run>>

DeferItem(k, advance) ==
  /\ Commanded(k) /\ UnderReview(k)
  /\ Leave([item EXCEPT ![k].status = "DEFERRED"], NoItem, advance)
  /\ UNCHANGED <<session, image, run, created>>

\* Mutation of Released: closing any draft releases the selection.
ReleasedAlways(k) == NoItem
Released(k) == IF active = k THEN NoItem ELSE active

CloseItem(k, advance) ==
  /\ Commanded(k) /\ item[k].status \notin {"CREATED", "CLOSED"}
  /\ Leave([item EXCEPT ![k].status = "CLOSED"], Released(k), advance)
  /\ UNCHANGED <<session, image, run, created>>

RecognizeItem(k) ==
  /\ Commanded(k) /\ item[k].status \notin {"CREATED", "CLOSED"}
  /\ item[k].recognition # "SUCCEEDED"
  /\ session' = [session EXCEPT !.workbench = TRUE]
  /\ run' = NewRun(k, TRUE)
  /\ UNCHANGED <<image, item, active, created>>

\* A run reads the selected draft unless that was done before.
ReadIfNeeded(k) ==
  run' = IF item[k].recognition = "SUCCEEDED" THEN run ELSE NewRun(k, session.workbench)

SelectItem(k) ==
  LET free == IF active = NoItem THEN item ELSE [item EXCEPT ![active].status = "DEFERRED"] IN
  /\ Commanded(k) /\ item[k].status \in {"PENDING", "DEFERRED"}
  /\ SetReview(Select(free, k))
  /\ ReadIfNeeded(k)
  /\ UNCHANGED <<session, image, created>>

NextItem ==
  /\ Writable /\ Idle /\ active = NoItem /\ Waiting(item) # {}
  /\ SetReview(Select(item, Earliest(Waiting(item))))
  /\ ReadIfNeeded(Earliest(Waiting(item)))
  /\ UNCHANGED <<session, image, created>>

\* The order is deleted by the order list: order_id is set to NULL.
DeleteOrder(k) ==
  /\ item[k].order
  /\ item' = [item EXCEPT ![k].order = FALSE]
  /\ UNCHANGED <<session, image, active, run, created>>

-----------------------------------------------------------------------------
(* The screenshot library *)

\* The archive after one screenshot is archived or restored: a restore from an
\* archived session leaves all the others archived.
ArchiveAt(i, archived) ==
  [j \in Images |->
     IF j = i THEN IF archived THEN "ARCHIVED" ELSE "SHOWN"
     ELSE IF ~archived /\ session.status = "ARCHIVED" /\ image[j] = "SHOWN" THEN "ARCHIVED"
     ELSE image[j]]

\* Mutation of PutAside: the draft of an archived screenshot stays under review.
KeepReview(images) == Review(item, active)

\* The draft under review is put aside when its screenshot is archived.
PutAside(images) ==
  IF active # NoItem /\ images[active[1]] = "ARCHIVED"
    THEN Review([item EXCEPT ![active].status = "DEFERRED"], NoItem) ELSE Review(item, active)

ArchiveScreenshot(i, archived) ==
  /\ Idle /\ image[i] # "ABSENT"
  /\ image' = ArchiveAt(i, archived)
  /\ SetReview(PutAside(image'))
  /\ session' = IF archived THEN session ELSE [session EXCEPT !.status = "ACTIVE"]
  /\ UNCHANGED <<run, created>>

DeleteScreenshot(i) ==
  /\ Idle
  /\ image[i] = "ARCHIVED" \/ (image[i] = "SHOWN" /\ session.status = "ARCHIVED")
  /\ image' = [image EXCEPT ![i] = "ABSENT"]
  /\ item' = [k \in Keys |-> IF k[1] = i THEN AbsentItem ELSE item[k]]
  /\ active' = IF active # NoItem /\ active[1] = i THEN NoItem ELSE active
  /\ run' = IF run.item # NoItem /\ run.item[1] = i
              THEN [run EXCEPT !.item = NoItem, !.deleted = TRUE] ELSE run
  /\ created' = [k \in Keys |-> IF k[1] = i THEN 0 ELSE created[k]]
  /\ UNCHANGED session

ChangeStatus(status) ==
  /\ Idle /\ session.status # status
  /\ session' = [session EXCEPT !.status = status]
  /\ UNCHANGED <<image, item, active, run, created>>

-----------------------------------------------------------------------------
MessageStep ==
  \/ \E n \in 1..2, workbench \in BOOLEAN : AcceptImages(n, workbench)
  \/ AcceptText
  \/ RetryRun

RunStep ==
  \/ LoadContext
  \/ \E n \in 1..Max({MaxOrders[i] : i \in Images}) : SaveRecognition(n)
  \/ RecordFailure
  \/ PatchByAgent
  \/ \E status \in {"SUCCEEDED", "FAILED"} : EndRun(status)

ItemStep(k) ==
  \/ PatchDraft(k)
  \/ \E advance \in BOOLEAN : ConfirmOrder(k, advance) \/ DeferItem(k, advance) \/ CloseItem(k, advance)
  \/ RecognizeItem(k)
  \/ SelectItem(k)
  \/ DeleteOrder(k)

LibraryStep ==
  \/ \E i \in Images, archived \in BOOLEAN : ArchiveScreenshot(i, archived)
  \/ \E i \in Images : DeleteScreenshot(i)
  \/ \E status \in {"ACTIVE", "ARCHIVED"} : ChangeStatus(status)

Next ==
  \/ MessageStep
  \/ RunStep
  \/ \E k \in Keys : ItemStep(k)
  \/ NextItem
  \/ LibraryStep

Spec == Init /\ [][Next]_vars

-----------------------------------------------------------------------------
(* What the intake promises *)

\* Sessions, screenshots, drafts and the run keep their ranges.
TypeOK ==
  /\ session \in [status : {"ACTIVE", "ARCHIVED"}, workbench : BOOLEAN]
  /\ image \in [Images -> {"ABSENT", "SHOWN", "ARCHIVED"}]
  /\ item \in [Keys ->
       [status : {"ABSENT", "PENDING", "ACTIVE", "DEFERRED", "CREATED", "CLOSED"},
        recognition : {"NOT_STARTED", "SUCCEEDED", "FAILED"},
        draft : {"EMPTY", "EXTRACTED", "USER"}, order : BOOLEAN]]
  /\ active \in Keys \cup {NoItem}
  /\ run \in [status : {"NONE", "OPEN", "SUCCEEDED", "FAILED"}, item : Keys \cup {NoItem},
               workbench : BOOLEAN, deleted : BOOLEAN,
               copy : {"NONE", "CURRENT", "CHANGED"}, recorded : BOOLEAN]
  /\ created \in [Keys -> Nat]

\* The session's pointer and the drafts agree on what is under review, through
\* every way in which a draft is selected, put aside, finished or deleted.
OneReview == \A k \in Keys : item[k].status = "ACTIVE" <=> active = k

\* At most one order is ever created from a draft, also after that order was
\* deleted (services/order_intake_item_service.py line 129).
OneOrderPerDraft ==
  \A k \in Keys : created[k] = IF item[k].status = "CREATED" THEN 1 ELSE 0

Live(k) == session.status = "ACTIVE" /\ Shown(k)

\* What is in the archive stays as it is: no selection, no recognition and no
\* command reaches it, except that its orders may be deleted and a draft under
\* review is put aside (meta/GROUND_TRUTH.md line 74).
ArchiveIsReadOnly ==
  [][ \A k \in Keys : (~Live(k) /\ ~Live(k)') =>
        \/ item'[k] \in {item[k], [item[k] EXCEPT !.order = FALSE], AbsentItem}
           /\ (run'.status = "OPEN" => run'.item # k)
        \/ item[k].status = "ACTIVE" /\ item'[k] = [item[k] EXCEPT !.status = "DEFERRED"]
    ]_vars

\* When the last screenshot of the workbench's queue is done, however its run
\* ended, none is left unread, and the user has a readable draft before them if
\* there is any: an unreadable one never holds up the others
\* (meta/agent-design/order-intake-workbench.md line 67).
ReviewFollowsRecognition ==
  [][ (~Idle /\ run.workbench /\ Idle') =>
        /\ Unread(item)' = {}
        /\ IF active' = NoItem THEN Ready(item)' = {}
                               ELSE item'[active'].recognition = "SUCCEEDED"
    ]_vars

\* What a user entered survives every later recognition, also a second attempt
\* after the first one failed because of that very edit.
UserInputKept ==
  [][ \A k \in Keys : item[k].draft = "USER" =>
        item'[k].draft = "USER" \/ item'[k] = AbsentItem ]_vars
=============================================================================
