--------------------------- MODULE AttachmentFiles ---------------------------
(***************************************************************************)
(* Pictures live on a private disk, their rows in the database, and no     *)
(* transaction covers both.  An upload writes the file first and commits   *)
(* the row afterwards; a deletion commits a clean-up job first and the     *)
(* watchdog of some worker removes the file afterwards.  Either side may   *)
(* die in between.                                                         *)
(*                                                                         *)
(* A key stands for one attempt to upload: its row, its temporary file     *)
(* and its picture.  The upload holds the row lock of its session from     *)
(* its start to its end, so all other steps on that session wait for it.   *)
(* The only times that matter are 24 hours: an unused picture expires, and *)
(* a file is old enough to be taken for an orphan.                         *)
(***************************************************************************)
EXTENDS Naturals

CONSTANTS
  Key,          \* uploads
  Session,      \* chat_sessions
  SessionOf,    \* the session of each upload
  Watchdog      \* one per worker process

ASSUME AttachmentConstants == SessionOf \in [Key -> Session]

\* "KEY.png", and ".KEY.png.RANDOM.tmp" while it is written
Files == Key \X {"TEMPORARY", "PICTURE"}
Picture(k) == <<k, "PICTURE">>
Temporary(k) == <<k, "TEMPORARY">>

VARIABLES
  session,      \* status of each session; GONE when its row is deleted
  upload,       \* where each upload is; LOST: its commit was not answered
  row,          \* chat_attachments
  expired,      \* the uploads whose row is past expires_at
  answered,     \* the uploads whose attachment id the client knows
  file,         \* the disk: "ABSENT", "FRESH", or "OLD" after 24 hours
  job,          \* agent_file_gc_jobs, at most one per storage_key
  listed,       \* the old files that sweep_orphans of a watchdog has seen
  collecting    \* the files whose job a watchdog holds: to do, or removed

vars == <<session, upload, row, expired, answered, file, job, listed, collecting>>
rows == <<row, expired, answered>>
watchdogs == <<listed, collecting>>

NoJob == [status |-> "NONE", ofSession |-> FALSE]
NewJob(ofSession) == [status |-> "PENDING", ofSession |-> ofSession]

Init ==
  /\ session = [s \in Session |-> "ACTIVE"]
  /\ upload = [k \in Key |-> "NONE"]
  /\ row = [k \in Key |-> "NONE"]
  /\ expired = {} /\ answered = {}
  /\ file = [f \in Files |-> "ABSENT"]
  /\ job = [f \in Files |-> NoJob]
  /\ listed = [w \in Watchdog |-> {}]
  /\ collecting = [w \in Watchdog |-> {}]

Of(s) == {k \in Key : SessionOf[k] = s}
OnDisk(f) == file[f] # "ABSENT"
Unlocked(s) == \A k \in Of(s) : upload[k] \notin {"WRITING", "WRITTEN"}
Existing(s) == session[s] \notin {"DELETING", "GONE"}
Locked(f) == \E w \in Watchdog : f \in collecting[w]

-----------------------------------------------------------------------------
(* Uploads *)

\* The temporary file is there.
StartUpload(k) ==
  /\ session[SessionOf[k]] = "ACTIVE" /\ Unlocked(SessionOf[k])
  /\ upload[k] = "NONE"
  /\ upload' = [upload EXCEPT ![k] = "WRITING"]
  /\ file' = [file EXCEPT ![Temporary(k)] = "FRESH"]
  /\ UNCHANGED <<session, rows, job, watchdogs>>

\* os.replace
PlaceFile(k) ==
  /\ upload[k] = "WRITING"
  /\ upload' = [upload EXCEPT ![k] = "WRITTEN"]
  /\ file' = [file EXCEPT ![Temporary(k)] = "ABSENT", ![Picture(k)] = "FRESH"]
  /\ UNCHANGED <<session, rows, job, watchdogs>>

CommitUpload(k) ==
  /\ upload[k] = "WRITTEN"
  /\ upload' = [upload EXCEPT ![k] = "DONE"]
  /\ row' = [row EXCEPT ![k] = "STAGED"]
  /\ answered' = answered \cup {k}
  /\ UNCHANGED <<session, expired, file, job, watchdogs>>

\* The commit raises: the file is removed again.  The database may have
\* committed all the same, and only its answer was lost.
FailUpload(k, committed) ==
  /\ upload[k] = "WRITTEN"
  /\ upload' = [upload EXCEPT ![k] = IF committed THEN "LOST" ELSE "FAILED"]
  /\ row' = [row EXCEPT ![k] = IF committed THEN "STAGED" ELSE "NONE"]
  /\ file' = [file EXCEPT ![Picture(k)] = "ABSENT"]
  /\ UNCHANGED <<session, expired, answered, job, watchdogs>>

\* The process dies, or removing the file fails as well.
CrashUpload(k) ==
  /\ upload[k] \in {"WRITING", "WRITTEN"}
  /\ upload' = [upload EXCEPT ![k] = "CRASHED"]
  /\ UNCHANGED <<session, rows, file, job, watchdogs>>

\* The same client_upload_id again: the answer is the row that is there.
RepeatUpload(k) ==
  /\ session[SessionOf[k]] = "ACTIVE" /\ Unlocked(SessionOf[k])
  /\ row[k] # "NONE" /\ k \notin answered
  /\ answered' = answered \cup {k}
  /\ UNCHANGED <<session, upload, row, expired, file, job, watchdogs>>

-----------------------------------------------------------------------------
(* What becomes of a picture *)

\* accept_message: a message carries it.
Bind(k) ==
  /\ session[SessionOf[k]] = "ACTIVE" /\ Unlocked(SessionOf[k])
  /\ k \in answered /\ row[k] = "STAGED" /\ k \notin expired
  /\ row' = [row EXCEPT ![k] = "BOUND"]
  /\ UNCHANGED <<session, upload, expired, answered, file, job, watchdogs>>

\* The jobs after jobs for the files F were added; storage_key is unique.
AddJobs(F, ofSession) ==
  /\ \A f \in F : job[f] = NoJob
  /\ job' = [f \in Files |-> IF f \in F THEN NewJob(ofSession) ELSE job[f]]

RemoveRows(K) ==
  /\ row' = [k \in Key |-> IF k \in K THEN "NONE" ELSE row[k]]
  /\ expired' = expired \ K

DeleteScreenshot(k) ==
  /\ Existing(SessionOf[k]) /\ Unlocked(SessionOf[k])
  /\ row[k] = "BOUND"
  /\ AddJobs({Picture(k)}, TRUE)
  /\ RemoveRows({k})
  /\ UNCHANGED <<session, upload, answered, file, watchdogs>>

\* Mutation of DeleteSession: pictures that were never sent are forgotten.
DeleteSessionOfMessages(s) ==
  /\ Existing(s) /\ Unlocked(s)
  /\ session' = [session EXCEPT ![s] = "DELETING"]
  /\ AddJobs({Picture(k) : k \in {j \in Of(s) : row[j] = "BOUND"}}, TRUE)
  /\ UNCHANGED <<upload, rows, file, watchdogs>>

\* change_status: a job for every picture, the rows stay until all are done.
DeleteSession(s) ==
  /\ Existing(s) /\ Unlocked(s)
  /\ session' = [session EXCEPT ![s] = "DELETING"]
  /\ AddJobs({Picture(k) : k \in {j \in Of(s) : row[j] # "NONE"}}, TRUE)
  /\ UNCHANGED <<upload, rows, file, watchdogs>>

ChangeStatus(s, status) ==
  /\ Existing(s) /\ Unlocked(s) /\ session[s] # status
  /\ session' = [session EXCEPT ![s] = status]
  /\ UNCHANGED <<upload, rows, file, job, watchdogs>>

-----------------------------------------------------------------------------
(* The watchdog *)

Unused(s) == {k \in Of(s) : row[k] = "STAGED" /\ k \in expired}

SweepStaged(s) ==
  /\ Existing(s) /\ Unlocked(s) /\ Unused(s) # {}
  /\ AddJobs({Picture(k) : k \in Unused(s)}, TRUE)
  /\ RemoveRows(Unused(s))
  /\ UNCHANGED <<session, upload, answered, file, watchdogs>>

\* Mutations of OldFiles: files need not be old; temporary files do not count.
AllFiles == {f \in Files : OnDisk(f)}
OldPictures == {f \in Files : file[f] = "OLD" /\ f[2] = "PICTURE"}
OldFiles == {f \in Files : file[f] = "OLD"}

\* sweep_orphans reads the disk ...
ListFiles(w) ==
  /\ listed[w] = {} /\ OldFiles # {}
  /\ listed' = [listed EXCEPT ![w] = OldFiles]
  /\ UNCHANGED <<session, upload, rows, file, job, collecting>>

\* Mutation of Known: only pictures of messages count.
KnownBound(f) == f[2] = "PICTURE" /\ row[f[1]] = "BOUND"
Known(f) == f[2] = "PICTURE" /\ row[f[1]] # "NONE"

\* ... and then the rows; ON CONFLICT DO NOTHING.
SweepOrphans(w) ==
  /\ listed[w] # {}
  /\ job' = [f \in Files |->
       IF f \in listed[w] /\ ~Known(f) /\ job[f] = NoJob THEN NewJob(FALSE) ELSE job[f]]
  /\ listed' = [listed EXCEPT ![w] = {}]
  /\ UNCHANGED <<session, upload, rows, file, collecting>>

\* collect_once locks a job, skipping locked ones, ...
TakeJob(w, f) ==
  /\ collecting[w] = {} /\ ~Locked(f)
  /\ job[f].status \in {"PENDING", "FAILED"}
  /\ collecting' = [collecting EXCEPT ![w] = {f}]
  /\ UNCHANGED <<session, upload, rows, file, job, listed>>

\* ... removes the file, which need not be there, ...
Unlink(w) ==
  /\ \E f \in collecting[w] : OnDisk(f)
  /\ file' = [f \in Files |-> IF f \in collecting[w] THEN "ABSENT" ELSE file[f]]
  /\ UNCHANGED <<session, upload, rows, job, watchdogs>>

\* Mutation of Collected: a removal that failed leaves the job in a status that
\* nobody takes up.
CollectedRunning(f) == IF OnDisk(f) THEN "RUNNING" ELSE "SUCCEEDED"
Collected(f) == IF OnDisk(f) THEN "FAILED" ELSE "SUCCEEDED"

\* ... and commits what came of it; a failed removal is tried again later.
FinishJob(w) ==
  /\ collecting[w] # {}
  /\ job' = [f \in Files |->
       IF f \in collecting[w] THEN [job[f] EXCEPT !.status = Collected(f)] ELSE job[f]]
  /\ collecting' = [collecting EXCEPT ![w] = {}]
  /\ UNCHANGED <<session, upload, rows, file, listed>>

\* The watchdog dies, with its transactions.
CrashWatchdog(w) ==
  /\ listed[w] # {} \/ collecting[w] # {}
  /\ listed' = [listed EXCEPT ![w] = {}]
  /\ collecting' = [collecting EXCEPT ![w] = {}]
  /\ UNCHANGED <<session, upload, rows, file, job>>

\* Mutation of Remaining: a job that failed is not waited for.
RemainingUntried(s) ==
  {f \in Files : SessionOf[f[1]] = s /\ job[f].ofSession /\ job[f].status = "PENDING"}

\* The jobs that keep a session from being finished.
Remaining(s) ==
  {f \in Files : SessionOf[f[1]] = s /\ job[f].ofSession /\ job[f].status # "SUCCEEDED"}

\* finish_deletions: the rows go with the session, its jobs stay without one.
FinishDeletion(s) ==
  /\ session[s] = "DELETING" /\ Remaining(s) = {}
  /\ session' = [session EXCEPT ![s] = "GONE"]
  /\ RemoveRows(Of(s))
  /\ job' = [f \in Files |-> IF SessionOf[f[1]] = s THEN [job[f] EXCEPT !.ofSession = FALSE] ELSE job[f]]
  /\ UNCHANGED <<upload, answered, file, watchdogs>>

-----------------------------------------------------------------------------
(* Time: no upload takes 24 hours, and expires_at is set after the file was *)
(* written, so the file of an expired picture is old.                       *)

GrowOld(f) ==
  /\ file[f] = "FRESH" /\ Unlocked(SessionOf[f[1]])
  /\ file' = [file EXCEPT ![f] = "OLD"]
  /\ UNCHANGED <<session, upload, rows, job, watchdogs>>

Expire(k) ==
  /\ row[k] = "STAGED" /\ k \notin expired /\ file[Picture(k)] # "FRESH"
  /\ expired' = expired \cup {k}
  /\ UNCHANGED <<session, upload, row, answered, file, job, watchdogs>>

UploadStep(k) ==
  \/ StartUpload(k) \/ PlaceFile(k) \/ CommitUpload(k) \/ CrashUpload(k) \/ RepeatUpload(k)
  \/ \E committed \in BOOLEAN : FailUpload(k, committed)

WatchdogStep(w) ==
  \/ ListFiles(w) \/ SweepOrphans(w) \/ Unlink(w) \/ FinishJob(w) \/ CrashWatchdog(w)
  \/ \E f \in Files : TakeJob(w, f)

Next ==
  \/ \E k \in Key : UploadStep(k) \/ Bind(k) \/ DeleteScreenshot(k) \/ Expire(k)
  \/ \E s \in Session : DeleteSession(s) \/ SweepStaged(s) \/ FinishDeletion(s)
  \/ \E s \in Session, status \in {"ACTIVE", "ARCHIVED"} : ChangeStatus(s, status)
  \/ \E w \in Watchdog : WatchdogStep(w)
  \/ \E f \in Files : GrowOld(f)

Spec == Init /\ [][Next]_vars

\* Time passes and an upload ends; a watchdog that died is started again and
\* does not die at the same point for ever; jobs are taken in the order of their
\* next attempt, and no disk refuses for ever to remove a file.
Fairness ==
  /\ \A f \in Files : WF_vars(GrowOld(f))
  /\ \A k \in Key : WF_vars(CrashUpload(k))
  /\ \A w \in Watchdog :
       /\ SF_vars(ListFiles(w)) /\ SF_vars(SweepOrphans(w)) /\ SF_vars(FinishJob(w))
       /\ \A f \in Files : SF_vars(TakeJob(w, f)) /\ SF_vars(f \in collecting[w] /\ Unlink(w))
  /\ \A s \in Session : WF_vars(FinishDeletion(s))

FairSpec == Spec /\ Fairness

-----------------------------------------------------------------------------
\* Every row, file and job keeps its range; a job has no other status than those
\* collect_once leaves behind.
TypeOK ==
  /\ session \in [Session -> {"ACTIVE", "ARCHIVED", "DELETING", "GONE"}]
  /\ upload \in [Key -> {"NONE", "WRITING", "WRITTEN", "DONE", "FAILED", "LOST", "CRASHED"}]
  /\ row \in [Key -> {"NONE", "STAGED", "BOUND"}]
  /\ expired \subseteq Key /\ answered \subseteq Key
  /\ file \in [Files -> {"ABSENT", "FRESH", "OLD"}]
  /\ job \in [Files -> [status : {"NONE", "PENDING", "FAILED", "SUCCEEDED"}, ofSession : BOOLEAN]]
  /\ listed \in [Watchdog -> SUBSET Files]
  /\ collecting \in [Watchdog -> SUBSET Files]

\* A picture that is in use keeps its file and is not scheduled for removal,
\* however sweeps, crashed uploads and deletions interleave; the second part
\* is also why deleting it later cannot fail on the unique storage_key.
\* Excepted is the upload whose commit was not answered.
PicturesInUse ==
  \A k \in Key : (row[k] # "NONE" /\ Existing(SessionOf[k])) =>
    /\ OnDisk(Picture(k)) \/ upload[k] = "LOST"
    /\ job[Picture(k)] = NoJob

\* A session disappears only when the files of all its rows are gone: what is
\* left of it on the disk never had a row (services/agent_gc_service.py line 1).
GoneWithItsFiles ==
  \A k \in Key : (session[SessionOf[k]] = "GONE" /\ OnDisk(Picture(k))) => upload[k] = "CRASHED"

\* A file without a row is removed in the end, whichever crash left it behind.
OrphansCollected ==
  \A f \in Files :
    (OnDisk(f) /\ ~Known(f) /\ Unlocked(SessionOf[f[1]])) ~> ~OnDisk(f)

\* A deletion that was asked for is completed, whatever removals fail.
DeletionCompletes == \A s \in Session : session[s] = "DELETING" ~> session[s] = "GONE"
=============================================================================
