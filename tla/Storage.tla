------------------------------ MODULE Storage ------------------------------
(***************************************************************************)
(* The uploads of one organization (src/models/file.ts,                    *)
(* src/services/storage/, src/app/api/storage/): rows of `files`, the      *)
(* objects in the bucket, the presigned URLs that put objects there        *)
(* without passing through the server, and the queued deletions.           *)
(*                                                                         *)
(* The queue is the promise DurableJob makes and JobQueue keeps: this      *)
(* module uses its steps on the job of a file.  One statement, transaction *)
(* or call of the object store is one step.                                *)
(***************************************************************************)
EXTENDS Integers, FiniteSetsExt

CONSTANTS
  File,         \* uploads that may be asked for
  Stored,       \* bound: those that were uploaded before the model begins
  Size,         \* the size the client declares for each
  Strange,      \* other sizes a client may put (0 is an empty object)
  Closable,     \* whether the workspace's account may be erased
  Request,      \* requests of members handled at a time
  Cron,         \* the cron route, a request of its own
  Worker,       \* handlers at work at a time
  None,         \* null
  Quota,        \* storage.totalMb of the plan
  PutLife,      \* expiresIn of a presigned upload, the transfer included
  Delay,        \* the longest a request takes from its insert to the URL
  StaleAfter,   \* STALE_UPLOAD_AFTER_MS
  MaxAttempts,  \* maxAttempts of storage_object_delete
  Faults,       \* bound: handlers that throw, die or outlive their lease
  Horizon       \* bound: the clock

ASSUME StorageAssumption ==
  /\ Stored \subseteq File
  /\ Size \in [File -> Nat \ {0}] /\ Strange \subseteq Nat
  /\ Closable \in BOOLEAN
  /\ Cron \notin Request
  /\ None \notin Nat \union File
  /\ Quota \in Nat /\ PutLife \in Nat /\ Delay \in Nat /\ StaleAfter \in Nat
  /\ MaxAttempts \in Nat \ {0} /\ Faults \in Nat /\ Horizon \in Nat

(* What was uploaded before is in the plan. *)
ASSUME StoredAssumption == IsFiniteSet(Stored) /\ SumFunctionOnSet(Size, Stored) =< Quota

(* Fifteen minutes and a request against an hour. *)
ASSUME StaleAssumption == PutLife + Delay =< StaleAfter

VARIABLES
  file,      \* the files table
  object,    \* the bucket: the size of each file's object
  url,       \* until when each file's presigned upload is valid
  job,       \* the deletion job of each file, as DurableJob sees it
  request,   \* what each request holds in memory
  worker,    \* what each handler holds in memory
  erasing,   \* the account of this workspace is being erased
  faults,
  now

vars == <<file, object, url, job, request, worker, erasing, faults, now>>
rows == <<file, job>>

(* The queue's promise. *)
Queue == INSTANCE DurableJob WITH Row <- File, MaxAttempts <- MaxAttempts, life <- job

(* `by` is history: who first asked for the deletion. *)
FileType ==
  [status : {"absent", "uploading", "active", "deleting", "deleted"},
   size : Nat, born : Nat, by : {"nobody", "sweep", "person", "erasure"}]

IdleRequest == [pc |-> "idle", file |-> None, size |-> None, stale |-> {}]
IdleWorker == [pc |-> "idle", file |-> None, leased |-> FALSE]

TypeOK ==
  /\ file \in [File -> FileType]
  /\ object \in [File -> Nat \union {None}]
  /\ url \in [File -> Nat \union {None}]
  /\ job \in [File -> Queue!LifeType]
  /\ request \in [Request \union {Cron} ->
       [pc : {"idle", "sweep", "reserve", "sign", "head", "decide", "delete"},
        file : File \union {None}, size : Nat \union {None}, stale : SUBSET File]]
  /\ worker \in [Worker ->
       [pc : {"idle", "find", "erase", "mark", "report"},
        file : File \union {None}, leased : BOOLEAN]]
  /\ erasing \in BOOLEAN
  /\ faults \in 0..Faults
  /\ now \in 0..Horizon

Init ==
  /\ file = [f \in File |->
       IF f \in Stored
         THEN [status |-> "active", size |-> Size[f], born |-> 0, by |-> "nobody"]
         ELSE [status |-> "absent", size |-> 0, born |-> 0, by |-> "nobody"]]
  /\ object = [f \in File |-> IF f \in Stored THEN Size[f] ELSE None]
  /\ url = [f \in File |-> None]
  /\ Queue!Init
  /\ request = [q \in Request \union {Cron} |-> IdleRequest]
  /\ worker = [w \in Worker |-> IdleWorker]
  /\ erasing = FALSE
  /\ faults = 0
  /\ now = 0

Is(f, s) == file[f].status = s

-----------------------------------------------------------------------------
(* scheduleFileDeletion: the row and its job in one transaction. *)

(* Revive the finished job of this file, or insert one, or leave the one   *)
(* that is pending or running alone.                                       *)
Enqueue(f) ==
  IF job[f].state = "open"
    THEN UNCHANGED job
    ELSE \E k \in Queue!LifeType :
           /\ Queue!Submit(job[f], k) \/ Queue!Revive(job[f], k)
           /\ job' = [job EXCEPT ![f] = k]

Unfinished == {"uploading", "active", "deleting"}

Schedule(f, expected, bytes, who) ==
  IF file[f].status \in expected
    THEN /\ file' = [file EXCEPT ![f].status = "deleting", ![f].size = bytes,
                       ![f].by = IF @ = "nobody" THEN who ELSE @]
         /\ Enqueue(f)
    ELSE UNCHANGED rows

-----------------------------------------------------------------------------
(* Requests. *)

GoTo(q, pc) == request' = [request EXCEPT ![q].pc = pc]
Leave(q) == request' = [request EXCEPT ![q] = IdleRequest]

(* Mutant: every pending upload counts as abandoned. *)
StaleFilesAny == {f \in File : Is(f, "uploading")}

(* listStaleUploadingFiles *)
StaleFiles == {f \in File : Is(f, "uploading") /\ file[f].born + StaleAfter < now}

(* The cron route lists what it is about to clean up. *)
BeginSweep ==
  /\ request[Cron].pc = "idle"
  /\ StaleFiles # {}
  /\ request' = [request EXCEPT ![Cron] =
       [IdleRequest EXCEPT !.pc = "sweep", !.stale = StaleFiles]]
  /\ UNCHANGED <<file, object, url, job, worker, erasing, faults, now>>

(* POST /api/storage/uploads, up to the list of its cleanup; a file's uuid *)
(* is new.                                                                 *)
BeginUpload(q, f) ==
  /\ ~erasing
  /\ request[q].pc = "idle"
  /\ Is(f, "absent")
  /\ \A p \in Request : request[p].file # f
  /\ request' = [request EXCEPT ![q] =
       [IdleRequest EXCEPT !.pc = "sweep", !.file = f, !.stale = StaleFiles]]
  /\ UNCHANGED <<file, object, url, job, worker, erasing, faults, now>>

(* Mutant: the sweep expects the status the documentation names. *)
SweepOneFailed(q) ==
  /\ request[q].pc = "sweep"
  /\ \E f \in request[q].stale :
       /\ Schedule(f, {"failed"}, file[f].size, "sweep")
       /\ request' = [request EXCEPT ![q].stale = @ \ {f}]
  /\ UNCHANGED <<object, url, worker, erasing, faults, now>>

(* One turn of cleanupStaleUploads. *)
SweepOne(q) ==
  /\ request[q].pc = "sweep"
  /\ \E f \in request[q].stale :
       /\ Schedule(f, {"uploading"}, file[f].size, "sweep")
       /\ request' = [request EXCEPT ![q].stale = @ \ {f}]
  /\ UNCHANGED <<object, url, worker, erasing, faults, now>>

EndSweep(q) ==
  /\ request[q].pc = "sweep"
  /\ request[q].stale = {}
  /\ IF request[q].file = None THEN Leave(q) ELSE GoTo(q, "reserve")
  /\ UNCHANGED <<file, object, url, job, worker, erasing, faults, now>>

Held == {f \in File : file[f].status \in Unfinished}
Sizes == [f \in File |-> file[f].size]

(* Mutant: what is being deleted no longer counts. *)
UsedBytesServed ==
  SumFunctionOnSet(Sizes, {f \in File : file[f].status \in {"uploading", "active"}})

(* The sum of reserveFileWithinQuota. *)
UsedBytes == SumFunctionOnSet(Sizes, Held)

(* reserveFileWithinQuota, under the organization's storage lock; bounded  *)
(* so that the clock reaches the cutoff of every upload.                   *)
Reserve(q) ==
  LET f == request[q].file IN
  /\ request[q].pc = "reserve"
  /\ now + StaleAfter < Horizon
  /\ IF UsedBytes + Size[f] > Quota
       THEN Leave(q) /\ UNCHANGED file
       ELSE /\ file' = [file EXCEPT ![f] =
                 [status |-> "uploading", size |-> Size[f], born |-> now, by |-> "nobody"]]
            /\ GoTo(q, "sign")
  /\ UNCHANGED <<object, url, job, worker, erasing, faults, now>>

Sign(q) ==
  /\ request[q].pc = "sign"
  /\ url' = [url EXCEPT ![request[q].file] = now + PutLife]
  /\ Leave(q)
  /\ UNCHANGED <<file, object, job, worker, erasing, faults, now>>

(* POST /api/storage/uploads/complete reads the row ... *)
BeginComplete(q, f) ==
  /\ ~erasing
  /\ request[q].pc = "idle"
  /\ file[f].status \notin {"absent", "active"}
  /\ request' = [request EXCEPT ![q] = [IdleRequest EXCEPT !.pc = "head", !.file = f]]
  /\ UNCHANGED <<file, object, url, job, worker, erasing, faults, now>>

(* ... then the object ... *)
Head(q) ==
  LET bytes == object[request[q].file] IN
  /\ request[q].pc = "head"
  /\ IF bytes = None
       THEN Leave(q)
       ELSE request' = [request EXCEPT ![q].pc = "decide", ![q].size = bytes]
  /\ UNCHANGED <<file, object, url, job, worker, erasing, faults, now>>

(* head.size is neither zero nor what was declared (or its checksum is     *)
(* another one).                                                           *)
Mismatch(f, bytes) == bytes # 0 /\ bytes # Size[f]

(* Mutant: activation does not look at the status again. *)
DecideAnyway(q) ==
  LET f == request[q].file IN
  /\ request[q].pc = "decide"
  /\ IF Mismatch(f, request[q].size)
       THEN Schedule(f, {"uploading"}, request[q].size, "person")
       ELSE /\ file' = [file EXCEPT ![f].status = "active"]
            /\ UNCHANGED job
  /\ Leave(q)
  /\ UNCHANGED <<object, url, worker, erasing, faults, now>>

(* ... and activates the row or schedules its deletion, if it is still     *)
(* pending.                                                                *)
Decide(q) ==
  LET f == request[q].file IN
  /\ request[q].pc = "decide"
  /\ IF Mismatch(f, request[q].size)
       THEN Schedule(f, {"uploading"}, request[q].size, "person")
       ELSE /\ file' = IF Is(f, "uploading")
                         THEN [file EXCEPT ![f].status = "active"]
                         ELSE file
            /\ UNCHANGED job
  /\ Leave(q)
  /\ UNCHANGED <<object, url, worker, erasing, faults, now>>

(* DELETE /api/storage/files/[uuid] reads the row ... *)
BeginDelete(q, f) ==
  /\ ~erasing
  /\ request[q].pc = "idle"
  /\ file[f].status \in Unfinished
  /\ request' = [request EXCEPT ![q] = [IdleRequest EXCEPT !.pc = "delete", !.file = f]]
  /\ UNCHANGED <<file, object, url, job, worker, erasing, faults, now>>

(* Mutant: the row is updated whatever it has become. *)
DeleteAgain(q) ==
  LET f == request[q].file IN
  /\ request[q].pc = "delete"
  /\ Schedule(f, Unfinished \union {"deleted"}, file[f].size, "person")
  /\ Leave(q)
  /\ UNCHANGED <<object, url, worker, erasing, faults, now>>

(* ... and schedules the deletion. *)
Delete(q) ==
  LET f == request[q].file IN
  /\ request[q].pc = "delete"
  /\ Schedule(f, Unfinished, file[f].size, "person")
  /\ Leave(q)
  /\ UNCHANGED <<object, url, worker, erasing, faults, now>>

(* A request of a member may stop anywhere. *)
Abandon(q) ==
  /\ request[q].pc # "idle"
  /\ Leave(q)
  /\ UNCHANGED <<file, object, url, job, worker, erasing, faults, now>>

(* A client uses its presigned URL; it may do so again. *)
Put(f, bytes) ==
  /\ url[f] # None /\ now =< url[f]
  /\ object' = [object EXCEPT ![f] = bytes]
  /\ UNCHANGED <<file, url, job, request, worker, erasing, faults, now>>

-----------------------------------------------------------------------------
(* Handlers: deleteStoredObject, called by the queue and by the erasure.   *)

HandlerAt(w, pc) == worker' = [worker EXCEPT ![w].pc = pc]
Stop(w) == worker' = [worker EXCEPT ![w] = IdleWorker]

Leased(f) == \E w \in Worker : worker[w].leased /\ worker[w].file = f

ClaimJob(w, f) ==
  /\ worker[w].pc = "idle"
  /\ ~Leased(f)
  /\ \E k \in Queue!LifeType : Queue!Attempt(job[f], k) /\ job' = [job EXCEPT ![f] = k]
  /\ worker' = [worker EXCEPT ![w] = [pc |-> "find", file |-> f, leased |-> TRUE]]
  /\ UNCHANGED <<file, object, url, request, erasing, faults, now>>

(* runAccountErasure has begun: nobody of this workspace is signed in any  *)
(* more; requests under way go on.                                         *)
BeginErasure ==
  /\ Closable /\ ~erasing
  /\ erasing' = TRUE
  /\ UNCHANGED <<file, object, url, job, request, worker, faults, now>>

(* It deletes each file of the workspace, whatever its status. *)
EraseFile(w, f) ==
  /\ worker[w].pc = "idle"
  /\ erasing /\ file[f].status \in Unfinished
  /\ worker' = [worker EXCEPT ![w] = [pc |-> "find", file |-> f, leased |-> FALSE]]
  /\ UNCHANGED <<file, object, url, job, request, erasing, faults, now>>

(* The handler has returned. *)
Ran(w, f) ==
  IF worker[w].leased
    THEN \E k \in Queue!LifeType : Queue!Run(job[f], k) /\ job' = [job EXCEPT ![f] = k]
    ELSE UNCHANGED job

(* Mutant: a file that is being deleted is left to whoever deletes it. *)
FindDone(w) ==
  LET f == worker[w].file IN
  /\ worker[w].pc = "find"
  /\ IF file[f].status \in {"deleting", "deleted"}
       THEN HandlerAt(w, "report") /\ Ran(w, f)
       ELSE HandlerAt(w, "erase") /\ UNCHANGED job
  /\ UNCHANGED <<file, object, url, request, erasing, faults, now>>

Find(w) ==
  LET f == worker[w].file IN
  /\ worker[w].pc = "find"
  /\ IF Is(f, "deleted")
       THEN HandlerAt(w, "report") /\ Ran(w, f)
       ELSE HandlerAt(w, "erase") /\ UNCHANGED job
  /\ UNCHANGED <<file, object, url, request, erasing, faults, now>>

Erase(w) ==
  /\ worker[w].pc = "erase"
  /\ object' = [object EXCEPT ![worker[w].file] = None]
  /\ HandlerAt(w, "mark")
  /\ UNCHANGED <<file, url, job, request, erasing, faults, now>>

(* softDeleteFile *)
Mark(w) ==
  LET f == worker[w].file IN
  /\ worker[w].pc = "mark"
  /\ file' = [file EXCEPT ![f].status = "deleted",
                ![f].by = IF @ = "nobody" THEN "erasure" ELSE @]
  /\ Ran(w, f)
  /\ HandlerAt(w, "report")
  /\ UNCHANGED <<object, url, request, erasing, faults, now>>

(* The worker reports success, if the lease is still its own. *)
Report(w) ==
  LET f == worker[w].file IN
  /\ worker[w].pc = "report"
  /\ IF worker[w].leased
       THEN \E k \in Queue!LifeType : Queue!Succeed(job[f], k) /\ job' = [job EXCEPT ![f] = k]
       ELSE UNCHANGED job
  /\ Stop(w)
  /\ UNCHANGED <<file, object, url, request, erasing, faults, now>>

Exhausted(f) == job[f].used = MaxAttempts

(* The provider fails: back to the queue, or for good. *)
Throw(w) ==
  LET f == worker[w].file IN
  /\ worker[w].pc = "erase"
  /\ faults < Faults
  /\ IF worker[w].leased /\ Exhausted(f)
       THEN \E k \in Queue!LifeType : Queue!Fail(job[f], k) /\ job' = [job EXCEPT ![f] = k]
       ELSE UNCHANGED job
  /\ Stop(w)
  /\ faults' = faults + 1
  /\ UNCHANGED <<file, object, url, request, erasing, now>>

Crash(w) ==
  /\ worker[w].pc # "idle"
  /\ faults < Faults
  /\ Stop(w)
  /\ faults' = faults + 1
  /\ UNCHANGED <<file, object, url, job, request, erasing, now>>

(* The handler outlives its lease and goes on. *)
Lapse(w) ==
  /\ worker[w].leased
  /\ faults < Faults
  /\ worker' = [worker EXCEPT ![w].leased = FALSE]
  /\ faults' = faults + 1
  /\ UNCHANGED <<file, object, url, job, request, erasing, now>>

(* The last lease is over: the queue buries the job. *)
GiveUp(f) ==
  /\ job[f].state = "open" /\ Exhausted(f) /\ ~Leased(f)
  /\ \E k \in Queue!LifeType : Queue!Fail(job[f], k) /\ job' = [job EXCEPT ![f] = k]
  /\ UNCHANGED <<file, object, url, request, worker, erasing, faults, now>>

(* No request takes longer than Delay from its insert to the URL. *)
Tick ==
  /\ now < Horizon
  /\ \A q \in Request : request[q].pc = "sign" => now < file[request[q].file].born + Delay
  /\ now' = now + 1
  /\ UNCHANGED <<file, object, url, job, request, worker, erasing, faults>>

-----------------------------------------------------------------------------
Sweep(q) == SweepOne(q) \/ EndSweep(q)

Handler(w) == Find(w) \/ Erase(w) \/ Mark(w) \/ Report(w)

Next ==
  \/ BeginSweep \/ Sweep(Cron) \/ BeginErasure \/ Tick
  \/ \E q \in Request :
       \/ Sweep(q) \/ Reserve(q) \/ Sign(q) \/ Head(q) \/ Decide(q) \/ Delete(q) \/ Abandon(q)
       \/ \E f \in File : BeginUpload(q, f) \/ BeginComplete(q, f) \/ BeginDelete(q, f)
  \/ \E f \in File : GiveUp(f) \/ \E bytes \in Strange \union {Size[f]} : Put(f, bytes)
  \/ \E w \in Worker :
       \/ Handler(w) \/ Throw(w) \/ Crash(w) \/ Lapse(w)
       \/ \E f \in File : ClaimJob(w, f) \/ EraseFile(w, f)

(* Time passes, cron calls its route, the queue's workers go on and take   *)
(* up what is due.  A request that has reserved gets to its URL or is      *)
(* stopped; no other request is fair, and no member has to come back.      *)
Fairness ==
  /\ WF_vars(Tick)
  /\ WF_vars(BeginSweep \/ Sweep(Cron))
  /\ \A w \in Worker : WF_vars(Handler(w) \/ \E f \in File : ClaimJob(w, f))
  /\ \A f \in File : WF_vars(GiveUp(f))
  /\ \A q \in Request : WF_vars(request[q].pc = "sign" /\ (Sign(q) \/ Abandon(q)))

Spec == Init /\ [][Next]_vars /\ Fairness

-----------------------------------------------------------------------------
(* Properties. *)

(* What the organization asked for and has not got rid of fits its plan,   *)
(* although the sum and the insert are two statements and the allowance is *)
(* freed only when the provider has confirmed (reserveFileWithinQuota).  A *)
(* file weighs what was declared, or less when less arrived: a completion  *)
(* that finds another size corrects the row before the file is deleted.    *)
Weight == [f \in File |-> IF file[f].size < Size[f] THEN file[f].size ELSE Size[f]]
QuotaKept == SumFunctionOnSet(Weight, Held) =< Quota

(* A file on its way out never comes back: not by a completion that read   *)
(* the row before, nor by a second deletion (activateUploadingFile,        *)
(* scheduleFileDeletion).                                                  *)
NeverRevived ==
  [][\A f \in File :
       /\ Is(f, "deleting") => file'[f].status \in {"deleting", "deleted"}
       /\ Is(f, "deleted") => file'[f].status = "deleted"]_vars

(* A file that is offered for download has its object (the completion      *)
(* route asks the provider, then updates the row; a sweep that listed the  *)
(* file before must not take its object).  An erasure takes the object     *)
(* before the row, whatever the row says.                                  *)
ActiveHasObject ==
  ~erasing => \A f \in File :
    Is(f, "active") => object[f] # None

(* Nothing stays `deleting` without a job to finish it, unless the job     *)
(* used all its attempts; and asking again then starts it again            *)
(* (scheduleFileDeletion's transaction).                                   *)
DeletingIsQueued ==
  \A f \in File : Is(f, "deleting") => job[f].state \in {"open", "failed"}

(* An abandoned upload leaves no object behind: by the time the sweep may  *)
(* take it its URL has expired, and the object goes before the row         *)
(* (cleanupStaleUploads, deleteStoredObject).  An erasure does not wait    *)
(* for the URL.                                                            *)
SweptLeavesNothing ==
  ~erasing => \A f \in File :
    Is(f, "deleted") /\ file[f].by = "sweep" => object[f] = None

(* Every pending upload ends, although nobody ever completes it, and every *)
(* deletion ends, or its job has used all its attempts.                    *)
FilesEnd ==
  \A f \in File :
    /\ Is(f, "uploading") ~> ~Is(f, "uploading")
    /\ Is(f, "deleting") ~> Is(f, "deleted") \/ job[f].state = "failed"

=============================================================================
