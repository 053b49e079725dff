------------------------ MODULE AttachmentFilesProofs ------------------------
(* No picture in use is lost, for any number of sessions, uploads and *)
(* watchdogs.                                                         *)
EXTENDS AttachmentFiles, TLAPS

\* A file belongs to an upload, a picture to the upload it names.
LEMMA FileFacts ==
  /\ \A f \in Files : f[1] \in Key /\ SessionOf[f[1]] \in Session
  /\ \A k \in Key : /\ Picture(k) \in Files /\ Picture(k)[1] = k /\ Picture(k)[2] = "PICTURE"
                    /\ Temporary(k) \in Files /\ Temporary(k)[1] = k /\ Temporary(k) # Picture(k)
                    /\ SessionOf[k] \in Session
  /\ \A f \in Files : f[2] = "PICTURE" => f = Picture(f[1])
  /\ \A k, j \in Key : Picture(k) = Picture(j) => k = j
BY AttachmentConstants DEF Files, Picture, Temporary

UnderWay(k) == upload[k] \in {"WRITING", "WRITTEN"}
Early(k) == upload[k] = "NONE" \/ UnderWay(k)

\* An upload under way holds the lock of an active session.
UploadsInSession ==
  \A k \in Key : UnderWay(k) => session[SessionOf[k]] = "ACTIVE"

\* No watchdog has anything to do with an upload that has not ended.
UploadsUntouched ==
  \A f \in Files : Early(f[1]) =>
    /\ file[f] # "OLD" /\ job[f] = NoJob
    /\ \A w \in Watchdog : f \notin listed[w]

\* Where the picture of an upload is.
Placed ==
  \A k \in Key :
    /\ upload[k] = "NONE" => \A f \in Files : f[1] = k => ~OnDisk(f)
    /\ upload[k] = "WRITTEN" => OnDisk(Picture(k))
    /\ upload[k] \in {"FAILED", "LOST"} => ~OnDisk(Picture(k))
    /\ row[k] # "NONE" => upload[k] \in {"DONE", "LOST"}

\* Jobs in the hands of a watchdog exist, and finished ones left no file.
JobsReal ==
  /\ \A w \in Watchdog : \A f \in collecting[w] : job[f].status # "NONE"
  /\ \A f \in Files : job[f].status = "SUCCEEDED" => ~OnDisk(f)

\* A session has a job for every picture whose row is gone or about to go.
Owed ==
  \A k \in Key :
    (/\ upload[k] = "DONE" /\ OnDisk(Picture(k)) /\ session[SessionOf[k]] # "GONE"
     /\ row[k] = "NONE" \/ session[SessionOf[k]] = "DELETING")
      => job[Picture(k)].ofSession

Pictures == UploadsInSession /\ UploadsUntouched /\ Placed /\ JobsReal /\ Owed
            /\ PicturesInUse /\ GoneWithItsFiles
FilesInv == TypeOK /\ Pictures

LEMMA FilesInit == Init => FilesInv
<1> SUFFICES ASSUME Init PROVE FilesInv
  OBVIOUS
<1>1. TypeOK
  BY FileFacts DEF Init, TypeOK, NoJob
<1>2. Pictures
  BY FileFacts DEF Init, Pictures, UploadsInSession, UploadsUntouched, Placed, JobsReal, Owed, PicturesInUse,
                   GoneWithItsFiles, UnderWay, Early, OnDisk, NoJob, Existing
<1> QED
  BY <1>1, <1>2 DEF FilesInv

-----------------------------------------------------------------------------
(* Uploads *)

LEMMA StartKeeps == ASSUME FilesInv, NEW k \in Key, StartUpload(k) PROVE FilesInv'
<1> USE FileFacts DEF FilesInv, Pictures, StartUpload, rows, watchdogs
<1>1. TypeOK'
  BY DEF TypeOK
<1>2. UploadsInSession' /\ UploadsUntouched'
  BY DEF TypeOK, UploadsInSession, UploadsUntouched, UnderWay, Early
<1>3. Placed' /\ JobsReal'
  BY DEF TypeOK, Placed, JobsReal, OnDisk, UploadsUntouched, Early, NoJob
<1>4. Owed' /\ PicturesInUse' /\ GoneWithItsFiles'
  BY DEF TypeOK, Placed, Owed, PicturesInUse, GoneWithItsFiles, OnDisk, Existing
<1> QED
  BY <1>1, <1>2, <1>3, <1>4

LEMMA PlaceKeeps == ASSUME FilesInv, NEW k \in Key, PlaceFile(k) PROVE FilesInv'
<1> USE FileFacts DEF FilesInv, Pictures, PlaceFile, rows, watchdogs
<1>1. TypeOK'
  BY DEF TypeOK
<1>2. UploadsInSession' /\ UploadsUntouched'
  BY DEF TypeOK, UploadsInSession, UploadsUntouched, UnderWay, Early
<1>3. Placed' /\ JobsReal'
  BY DEF TypeOK, Placed, JobsReal, OnDisk, UploadsUntouched, UnderWay, Early, NoJob
<1>4. Owed' /\ PicturesInUse' /\ GoneWithItsFiles'
  BY DEF TypeOK, Placed, Owed, PicturesInUse, GoneWithItsFiles, OnDisk, Existing, UploadsInSession, UnderWay
<1> QED
  BY <1>1, <1>2, <1>3, <1>4

LEMMA CommitKeeps == ASSUME FilesInv, NEW k \in Key, CommitUpload(k) PROVE FilesInv'
<1> USE FileFacts DEF FilesInv, Pictures, CommitUpload, rows, watchdogs
<1>1. TypeOK'
  BY DEF TypeOK
<1>2. UploadsInSession' /\ UploadsUntouched'
  BY DEF TypeOK, UploadsInSession, UploadsUntouched, UnderWay, Early
<1>3. Placed' /\ JobsReal'
  BY DEF TypeOK, Placed, JobsReal, OnDisk
<1>4. Owed' /\ PicturesInUse' /\ GoneWithItsFiles'
  BY DEF TypeOK, Placed, Owed, PicturesInUse, GoneWithItsFiles, OnDisk, Existing, UploadsInSession,
         UploadsUntouched, UnderWay, Early
<1> QED
  BY <1>1, <1>2, <1>3, <1>4

LEMMA FailKeeps ==
  ASSUME FilesInv, NEW k \in Key, NEW committed \in BOOLEAN, FailUpload(k, committed) PROVE FilesInv'
<1> USE FileFacts DEF FilesInv, Pictures, FailUpload, rows, watchdogs
<1>1. TypeOK'
  BY DEF TypeOK
<1>2. UploadsInSession' /\ UploadsUntouched'
  BY DEF TypeOK, UploadsInSession, UploadsUntouched, UnderWay, Early
<1>3. Placed' /\ JobsReal'
  BY DEF TypeOK, Placed, JobsReal, OnDisk
<1>4. Owed' /\ PicturesInUse' /\ GoneWithItsFiles'
  BY DEF TypeOK, Placed, Owed, PicturesInUse, GoneWithItsFiles, OnDisk, Existing, UploadsInSession,
         UploadsUntouched, UnderWay, Early
<1> QED
  BY <1>1, <1>2, <1>3, <1>4

LEMMA CrashKeeps == ASSUME FilesInv, NEW k \in Key, CrashUpload(k) PROVE FilesInv'
<1> USE FileFacts DEF FilesInv, Pictures, CrashUpload, rows, watchdogs
<1>1. TypeOK'
  BY DEF TypeOK
<1>2. UploadsInSession' /\ UploadsUntouched'
  BY DEF TypeOK, UploadsInSession, UploadsUntouched, UnderWay, Early
<1>3. Placed' /\ JobsReal'
  BY DEF TypeOK, Placed, JobsReal, OnDisk
<1>4. Owed' /\ PicturesInUse' /\ GoneWithItsFiles'
  BY DEF TypeOK, Placed, Owed, PicturesInUse, GoneWithItsFiles, OnDisk, Existing
<1> QED
  BY <1>1, <1>2, <1>3, <1>4

\* What does not touch rows that matter, files, jobs or lists.
LEMMA RowKeeps ==
  ASSUME FilesInv, NEW k \in Key, RepeatUpload(k) \/ Bind(k) \/ Expire(k) PROVE FilesInv'
<1> USE FileFacts DEF FilesInv, Pictures, RepeatUpload, Bind, Expire, rows, watchdogs
<1>1. TypeOK'
  BY DEF TypeOK
<1>2. UploadsInSession' /\ UploadsUntouched'
  BY DEF UploadsInSession, UploadsUntouched, UnderWay, Early
<1>3. Placed' /\ JobsReal'
  BY DEF TypeOK, Placed, JobsReal, OnDisk
<1>4. Owed' /\ PicturesInUse' /\ GoneWithItsFiles'
  BY DEF TypeOK, Owed, PicturesInUse, GoneWithItsFiles, OnDisk, Existing
<1> QED
  BY <1>1, <1>2, <1>3, <1>4

-----------------------------------------------------------------------------
(* Deletions *)

LEMMA DeleteKeeps == ASSUME FilesInv, NEW k \in Key, DeleteScreenshot(k) PROVE FilesInv'
<1> USE FileFacts DEF FilesInv, Pictures, DeleteScreenshot, AddJobs, RemoveRows, NewJob, NoJob, rows, watchdogs
<1>1. TypeOK'
  BY DEF TypeOK
<1>2. UploadsInSession' /\ UploadsUntouched'
  BY DEF TypeOK, UploadsInSession, UploadsUntouched, UnderWay, Early, Placed
<1>3. Placed' /\ JobsReal'
  BY DEF TypeOK, Placed, JobsReal, OnDisk
<1>4. Owed' /\ PicturesInUse' /\ GoneWithItsFiles'
  BY DEF TypeOK, Owed, PicturesInUse, GoneWithItsFiles, OnDisk, Existing
<1> QED
  BY <1>1, <1>2, <1>3, <1>4

LEMMA DeleteSessionKeeps == ASSUME FilesInv, NEW s \in Session, DeleteSession(s) PROVE FilesInv'
<1> DEFINE F == {Picture(k) : k \in {j \in Of(s) : row[j] # "NONE"}}
<1> USE FileFacts DEF FilesInv, Pictures, NewJob, NoJob, rows, watchdogs
<1>1. \A f \in Files : f \in F <=> (f[2] = "PICTURE" /\ SessionOf[f[1]] = s /\ row[f[1]] # "NONE")
  BY DEF Of
<1>2. /\ Existing(s) /\ Unlocked(s) /\ session' = [session EXCEPT ![s] = "DELETING"]
      /\ \A f \in F : job[f] = NoJob
      /\ job' = [f \in Files |-> IF f \in F THEN NewJob(TRUE) ELSE job[f]]
      /\ UNCHANGED <<upload, row, expired, answered, file, listed, collecting>>
  BY DEF DeleteSession, AddJobs
<1> HIDE DEF F
<1>3. TypeOK'
  BY <1>2 DEF TypeOK
<1>4. UploadsInSession' /\ UploadsUntouched'
  BY <1>1, <1>2 DEF TypeOK, UploadsInSession, UploadsUntouched, UnderWay, Early, Placed, Unlocked, Of
<1>5. Placed' /\ JobsReal'
  BY <1>2 DEF TypeOK, Placed, JobsReal, OnDisk
<1>6. \A k \in Key : /\ (SessionOf[k] = s /\ row[k] # "NONE") => job'[Picture(k)].ofSession
                     /\ ~(SessionOf[k] = s /\ row[k] # "NONE") => job'[Picture(k)] = job[Picture(k)]
                     /\ session'[SessionOf[k]] = IF SessionOf[k] = s THEN "DELETING" ELSE session[SessionOf[k]]
  BY <1>1, <1>2 DEF TypeOK
<1>7. Owed'
  <2> SUFFICES ASSUME NEW k \in Key, upload[k] = "DONE", OnDisk(Picture(k)), session'[SessionOf[k]] # "GONE",
                      row[k] = "NONE" \/ session'[SessionOf[k]] = "DELETING"
               PROVE  job'[Picture(k)].ofSession
    BY <1>2 DEF Owed, OnDisk
  <2>1. CASE SessionOf[k] = s /\ row[k] # "NONE"
    BY <1>6, <2>1
  <2>2. CASE ~(SessionOf[k] = s /\ row[k] # "NONE")
    <3>1. job[Picture(k)].ofSession
      BY <1>2, <1>6, <2>2 DEF Owed, Existing
    <3> QED
      BY <1>6, <2>2, <3>1
  <2> QED
    BY <2>1, <2>2
<1>8. PicturesInUse'
  BY <1>2, <1>6 DEF PicturesInUse, OnDisk, Existing
<1>9. GoneWithItsFiles'
  BY <1>2, <1>6 DEF GoneWithItsFiles, OnDisk
<1> QED
  BY <1>3, <1>4, <1>5, <1>7, <1>8, <1>9

LEMMA StatusKeeps ==
  ASSUME FilesInv, NEW s \in Session, NEW status \in {"ACTIVE", "ARCHIVED"}, ChangeStatus(s, status)
  PROVE  FilesInv'
<1> USE FileFacts DEF FilesInv, Pictures, ChangeStatus, rows, watchdogs
<1>1. TypeOK'
  BY DEF TypeOK
<1>2. UploadsInSession' /\ UploadsUntouched'
  BY DEF TypeOK, UploadsInSession, UploadsUntouched, UnderWay, Early, Unlocked, Of
<1>3. Placed' /\ JobsReal'
  BY DEF Placed, JobsReal, OnDisk
<1>4. Owed' /\ PicturesInUse' /\ GoneWithItsFiles'
  BY DEF TypeOK, Owed, PicturesInUse, GoneWithItsFiles, OnDisk, Existing
<1> QED
  BY <1>1, <1>2, <1>3, <1>4

LEMMA SweepStagedKeeps == ASSUME FilesInv, NEW s \in Session, SweepStaged(s) PROVE FilesInv'
<1> DEFINE F == {Picture(k) : k \in Unused(s)}
<1> USE FileFacts DEF FilesInv, Pictures, NewJob, NoJob, rows, watchdogs
<1>1. /\ Unused(s) \subseteq Key
      /\ \A k \in Unused(s) : row[k] = "STAGED" /\ SessionOf[k] = s
      /\ \A f \in Files : f \in F <=> (f[2] = "PICTURE" /\ f[1] \in Unused(s))
  BY DEF Unused, Of
<1>2. /\ Existing(s) /\ Unlocked(s)
      /\ \A f \in F : job[f] = NoJob
      /\ job' = [f \in Files |-> IF f \in F THEN NewJob(TRUE) ELSE job[f]]
      /\ row' = [k \in Key |-> IF k \in Unused(s) THEN "NONE" ELSE row[k]]
      /\ expired' = expired \ Unused(s)
      /\ UNCHANGED <<session, upload, answered, file, listed, collecting>>
  BY DEF SweepStaged, AddJobs, RemoveRows
<1> HIDE DEF F
<1>3. TypeOK'
  BY <1>2 DEF TypeOK
<1>4. UploadsInSession' /\ UploadsUntouched'
  BY <1>1, <1>2 DEF TypeOK, UploadsInSession, UploadsUntouched, UnderWay, Early, Placed
<1>5. Placed' /\ JobsReal'
  BY <1>2 DEF TypeOK, Placed, JobsReal, OnDisk
<1>6. Owed' /\ PicturesInUse' /\ GoneWithItsFiles'
  BY <1>1, <1>2 DEF TypeOK, Owed, PicturesInUse, GoneWithItsFiles, OnDisk, Existing
<1> QED
  BY <1>3, <1>4, <1>5, <1>6

LEMMA FinishKeeps == ASSUME FilesInv, NEW s \in Session, FinishDeletion(s) PROVE FilesInv'
<1> USE FileFacts DEF FilesInv, Pictures, NoJob, rows, watchdogs
<1>1. /\ session[s] = "DELETING" /\ session' = [session EXCEPT ![s] = "GONE"]
      /\ \A f \in Files : (SessionOf[f[1]] = s /\ job[f].ofSession) => (job[f].status = "SUCCEEDED")
      /\ row' = [k \in Key |-> IF SessionOf[k] = s THEN "NONE" ELSE row[k]]
      /\ expired' \subseteq expired
      /\ job' = [f \in Files |-> IF SessionOf[f[1]] = s THEN [job[f] EXCEPT !.ofSession = FALSE] ELSE job[f]]
      /\ UNCHANGED <<upload, answered, file, listed, collecting>>
  BY DEF FinishDeletion, Remaining, RemoveRows, Of
<1> DEFINE JobRow == [status : {"NONE", "PENDING", "FAILED", "SUCCEEDED"}, ofSession : BOOLEAN]
<1>2. \A x \in JobRow : /\ [x EXCEPT !.ofSession = FALSE] \in JobRow
                        /\ [x EXCEPT !.ofSession = FALSE].status = x.status
  OBVIOUS
<1>3. [NoJob EXCEPT !.ofSession = FALSE] = NoJob
  <2>1. \A x \in JobRow : x.ofSession = FALSE => [x EXCEPT !.ofSession = FALSE] = x
    OBVIOUS
  <2>2. NoJob \in JobRow /\ NoJob.ofSession = FALSE
    OBVIOUS
  <2> HIDE DEF JobRow, NoJob
  <2> QED
    BY <2>1, <2>2
<1>4. /\ job' \in [Files -> JobRow]
      /\ \A f \in Files : /\ job'[f].status = job[f].status
                          /\ (job[f] = NoJob => job'[f] = NoJob)
                          /\ (SessionOf[f[1]] # s => job'[f] = job[f])
  <2>1. job \in [Files -> JobRow]
    BY DEF TypeOK
  <2> HIDE DEF JobRow, NoJob
  <2> QED
    BY <1>2, <1>1, <1>3, <2>1
<1>5. TypeOK'
  BY <1>1, <1>4 DEF TypeOK
<1>6. UploadsInSession' /\ UploadsUntouched'
  BY <1>1, <1>4 DEF TypeOK, UploadsInSession, UploadsUntouched, UnderWay, Early
<1>7. Placed' /\ JobsReal'
  BY <1>1, <1>4 DEF TypeOK, Placed, JobsReal, OnDisk
<1>8. Owed' /\ PicturesInUse'
  BY <1>1, <1>4 DEF TypeOK, Owed, PicturesInUse, OnDisk, Existing
<1>9. GoneWithItsFiles'
  <2> SUFFICES ASSUME NEW k \in Key, SessionOf[k] = s, OnDisk(Picture(k)) PROVE upload[k] = "CRASHED"
    BY <1>1 DEF TypeOK, GoneWithItsFiles, OnDisk
  <2>1. ~UnderWay(k)
    BY <1>1 DEF UploadsInSession
  <2>2. upload[k] # "DONE"
    BY <1>1 DEF Owed, JobsReal
  <2>3. upload[k] \notin {"NONE", "FAILED", "LOST"}
    BY DEF Placed
  <2> QED
    BY <2>1, <2>2, <2>3 DEF TypeOK, UnderWay
<1> QED
  BY <1>5, <1>6, <1>7, <1>8, <1>9

-----------------------------------------------------------------------------
(* Watchdogs *)

LEMMA ListKeeps ==
  ASSUME FilesInv, NEW w \in Watchdog, ListFiles(w) \/ CrashWatchdog(w) \/ (\E f \in Files : TakeJob(w, f))
  PROVE  FilesInv'
<1> USE FileFacts DEF FilesInv, Pictures, ListFiles, CrashWatchdog, TakeJob, OldFiles, rows, watchdogs
<1>1. TypeOK'
  <2>1. CASE ListFiles(w)
    BY <2>1 DEF TypeOK
  <2>2. CASE CrashWatchdog(w)
    BY <2>2 DEF TypeOK
  <2>3. ASSUME NEW f \in Files, TakeJob(w, f) PROVE TypeOK'
    BY <2>3 DEF TypeOK
  <2> QED
    BY <2>1, <2>2, <2>3
<1>2. UploadsInSession' /\ UploadsUntouched'
  BY DEF TypeOK, UploadsInSession, UploadsUntouched, UnderWay, Early
<1>3. Placed' /\ JobsReal'
  BY DEF TypeOK, Placed, JobsReal, OnDisk
<1>4. Owed' /\ PicturesInUse' /\ GoneWithItsFiles'
  BY DEF Owed, PicturesInUse, GoneWithItsFiles, OnDisk, Existing
<1> QED
  BY <1>1, <1>2, <1>3, <1>4

LEMMA SweepKeeps == ASSUME FilesInv, NEW w \in Watchdog, SweepOrphans(w) PROVE FilesInv'
<1> USE FileFacts DEF FilesInv, Pictures, SweepOrphans, NewJob, NoJob, rows, watchdogs
<1>1. TypeOK'
  BY DEF TypeOK
<1>2. /\ \A f \in Files : f \notin listed[w] => job'[f] = job[f]
      /\ \A v \in Watchdog : listed'[v] \subseteq listed[v]
  BY DEF TypeOK
<1>3. UploadsInSession' /\ UploadsUntouched'
  BY <1>2 DEF UploadsInSession, UploadsUntouched, UnderWay, Early
<1>4. Placed' /\ JobsReal'
  BY DEF TypeOK, Placed, JobsReal, OnDisk
<1>5. Owed' /\ PicturesInUse' /\ GoneWithItsFiles'
  BY DEF TypeOK, Owed, PicturesInUse, GoneWithItsFiles, OnDisk, Existing, Known
<1> QED
  BY <1>1, <1>3, <1>4, <1>5

LEMMA UnlinkKeeps == ASSUME FilesInv, NEW w \in Watchdog, Unlink(w) PROVE FilesInv'
<1> USE FileFacts DEF FilesInv, Pictures, Unlink, NoJob, rows, watchdogs
<1>1. TypeOK'
  BY DEF TypeOK
<1>2. UploadsInSession' /\ UploadsUntouched'
  BY DEF TypeOK, UploadsInSession, UploadsUntouched, UnderWay, Early
<1>3. Placed' /\ JobsReal'
  BY DEF TypeOK, Placed, JobsReal, OnDisk, UploadsUntouched, UnderWay, Early
<1>4. Owed' /\ PicturesInUse' /\ GoneWithItsFiles'
  BY DEF TypeOK, Owed, JobsReal, PicturesInUse, GoneWithItsFiles, OnDisk, Existing
<1> QED
  BY <1>1, <1>2, <1>3, <1>4

LEMMA FinishJobKeeps == ASSUME FilesInv, NEW w \in Watchdog, FinishJob(w) PROVE FilesInv'
<1> USE FileFacts DEF FilesInv, Pictures, FinishJob, Collected, NoJob, rows, watchdogs
<1>1. TypeOK'
  BY DEF TypeOK
<1>2. \A f \in Files : job[f] = NoJob => job'[f] = job[f]
  <2>1. NoJob.status = "NONE"
    OBVIOUS
  <2>2. job' = [f \in Files |->
          IF f \in collecting[w] THEN [job[f] EXCEPT !.status = Collected(f)] ELSE job[f]]
    OBVIOUS
  <2> HIDE DEF NoJob
  <2> QED
    BY <2>1, <2>2 DEF JobsReal
<1>3. UploadsInSession' /\ UploadsUntouched'
  BY <1>2 DEF UploadsInSession, UploadsUntouched, UnderWay, Early
<1>4. Placed' /\ JobsReal'
  BY DEF TypeOK, Placed, JobsReal, OnDisk
<1>5. Owed' /\ PicturesInUse' /\ GoneWithItsFiles'
  BY DEF TypeOK, Owed, JobsReal, PicturesInUse, GoneWithItsFiles, OnDisk, Existing
<1> QED
  BY <1>1, <1>3, <1>4, <1>5

LEMMA GrowKeeps == ASSUME FilesInv, NEW f \in Files, GrowOld(f) PROVE FilesInv'
<1> USE FileFacts DEF FilesInv, Pictures, GrowOld, rows, watchdogs
<1>1. TypeOK'
  BY DEF TypeOK
<1>2. UploadsInSession' /\ UploadsUntouched'
  BY DEF TypeOK, UploadsInSession, UploadsUntouched, UnderWay, Early, Placed, OnDisk, Unlocked, Of
<1>3. Placed' /\ JobsReal'
  BY DEF TypeOK, Placed, JobsReal, OnDisk
<1>4. Owed' /\ PicturesInUse' /\ GoneWithItsFiles'
  BY DEF TypeOK, Owed, PicturesInUse, GoneWithItsFiles, OnDisk, Existing
<1> QED
  BY <1>1, <1>2, <1>3, <1>4

-----------------------------------------------------------------------------
LEMMA FilesStep == FilesInv /\ [Next]_vars => FilesInv'
<1> SUFFICES ASSUME FilesInv, [Next]_vars PROVE FilesInv'
  OBVIOUS
<1>1. ASSUME NEW k \in Key, UploadStep(k) PROVE FilesInv'
  BY <1>1, StartKeeps, PlaceKeeps, CommitKeeps, FailKeeps, CrashKeeps, RowKeeps DEF UploadStep
<1>2. ASSUME NEW w \in Watchdog, WatchdogStep(w) PROVE FilesInv'
  BY <1>2, ListKeeps, SweepKeeps, UnlinkKeeps, FinishJobKeeps DEF WatchdogStep
<1>3. CASE UNCHANGED vars
  BY <1>3 DEF vars, rows, watchdogs, FilesInv, Pictures, TypeOK, UploadsInSession, UploadsUntouched, Placed,
              JobsReal, Owed, PicturesInUse, GoneWithItsFiles, UnderWay, Early, OnDisk, Existing
<1> QED
  BY <1>1, <1>2, <1>3, RowKeeps, DeleteKeeps, DeleteSessionKeeps, StatusKeeps, SweepStagedKeeps, FinishKeeps,
     GrowKeeps DEF Next

\* Sessions, uploads, rows, files and jobs keep their types.
THEOREM TypeCorrect == Spec => []TypeOK
<1>1. FilesInv => TypeOK
  BY DEF FilesInv
<1> QED
  BY <1>1, FilesInit, FilesStep, PTL DEF Spec

\* A picture in use keeps its file, and nothing is about to remove it.
THEOREM PicturesStay == Spec => []PicturesInUse
<1>1. FilesInv => PicturesInUse
  BY DEF FilesInv, Pictures
<1> QED
  BY <1>1, FilesInit, FilesStep, PTL DEF Spec

\* A session disappears after the files of all its rows.
THEOREM SessionsOutliveFiles == Spec => []GoneWithItsFiles
<1>1. FilesInv => GoneWithItsFiles
  BY DEF FilesInv, Pictures
<1> QED
  BY <1>1, FilesInit, FilesStep, PTL DEF Spec
=============================================================================
