--------------------------- MODULE AccountErasure ---------------------------
(***************************************************************************)
(* The privacy requests of one account (src/models/account-lifecycle.ts,   *)
(* src/services/account-lifecycle/index.ts): exports of its data and its   *)
(* erasure after a period of grace, each run by a job of the queue.        *)
(*                                                                         *)
(* An erasure works outside the database first (Stripe, the bucket, the    *)
(* providers), records every effect, and rewrites all tables in one        *)
(* transaction at the end.  What there is to remove is a set of things;    *)
(* the blockers (sole owner, last administrator) are a flag other people   *)
(* raise and lower.  The queue is the promise of DurableJob.  One          *)
(* transaction or external call is one step; the locks of a transaction    *)
(* are inside it.                                                          *)
(***************************************************************************)
EXTENDS Integers

CONSTANTS
  Erasure, Export,  \* privacy requests of each type
  Thing,            \* subscriptions, customers, files, task outputs
  Marked,           \* things whose own row says that they are gone: files
  Late,             \* things that may appear at any time
  Worker,           \* handlers at work at a time
  None,             \* null
  Grace,            \* erasureGracePeriodMs
  Retention,        \* exportRetentionMs
  MaxAttempts,      \* maxAttempts of the jobs
  Faults,           \* bound: handlers that throw, die or outlive their lease
  Flips,            \* bound: how often the blockers change
  Horizon           \* bound: the clock

Request == Erasure \union Export

(* The job that removes the artifact of an export. *)
ExpireJob(e) == <<"account_export_expire", e>>
Job == Request \union {ExpireJob(e) : e \in Export}

ASSUME LifecycleAssumption ==
  /\ Erasure \intersect Export = {}
  /\ \A e, f \in Export : ExpireJob(e) \notin Request
  /\ Marked \subseteq Thing /\ Late \subseteq Thing /\ Thing \intersect Request = {}
  /\ None \notin Job \union Thing
  /\ {"none", "there", "orphan"} \intersect Erasure = {}
  /\ Grace \in Nat /\ Retention \in Nat /\ MaxAttempts \in Nat \ {0}
  /\ Faults \in Nat /\ Flips \in Nat /\ Horizon \in Nat

VARIABLES
  user,      \* users.lifecycle_status, or "gone" when the row is deleted
  request,   \* privacy_requests
  thing,     \* each thing: not there yet, there, the erasure that removed it,
             \* or orphan: it came when the account was gone
  artifact,  \* the bucket: whether each export's document is in it
  blocked,   \* getLifecycleBlockers finds one
  job,       \* the jobs, as DurableJob sees them
  runAt,     \* jobs.run_at
  worker,    \* what each handler holds in memory
  faults, flips, now

vars == <<user, request, thing, artifact, blocked, job, runAt, worker, faults, flips, now>>
tables == <<user, request, job, runAt>>

Queue == INSTANCE DurableJob WITH Row <- Job, MaxAttempts <- MaxAttempts, life <- job

Ended == {"completed", "canceled", "blocked"}
Live == {"scheduled", "processing", "failed"}   \* ACTIVE_ERASURE_STATUSES

RequestType ==
  [status : {"absent"} \union Live \union Ended, due : Nat,
   key : BOOLEAN, expires : Nat, done : SUBSET (Thing \union Export)]

IdleWorker == [pc |-> "idle", job |-> None, todo |-> {}, at |-> None, leased |-> FALSE]

TypeOK ==
  /\ user \in {"active", "deletion_pending", "erasing", "gone"}
  /\ request \in [Request -> RequestType]
  /\ thing \in [Thing -> {"none", "there", "orphan"} \union Erasure]
  /\ artifact \in [Export -> BOOLEAN]
  /\ blocked \in BOOLEAN
  /\ job \in [Job -> Queue!LifeType]
  /\ runAt \in [Job -> Nat]
  /\ worker \in [Worker ->
       [pc : {"idle", "begin", "plan", "effect", "record", "finalize", "fail", "report",
              "prepare", "put", "complete", "undo", "expire", "remove", "clear"},
        job : Job \union {None}, todo : SUBSET (Thing \union Export),
        at : Thing \union Export \union {None}, leased : BOOLEAN]]
  /\ faults \in 0..Faults /\ flips \in 0..Flips /\ now \in 0..Horizon

Init ==
  /\ user = "active"
  /\ request = [r \in Request |->
       [status |-> "absent", due |-> 0, key |-> FALSE, expires |-> 0, done |-> {}]]
  /\ thing = [x \in Thing |-> IF x \in Late THEN "none" ELSE "there"]
  /\ artifact = [e \in Export |-> FALSE]
  /\ blocked = FALSE
  /\ Queue!Init
  /\ runAt = [j \in Job |-> 0]
  /\ worker = [w \in Worker |-> IdleWorker]
  /\ faults = 0 /\ flips = 0 /\ now = 0

Is(r, s) == request[r].status = s
Set(r, s) == [request EXCEPT ![r].status = s]

(* An unique index allows one live erasure: the update of another throws. *)
SetFailed(r) ==
  IF r \in Erasure /\ \E q \in Erasure \ {r} : request[q].status \in Live
    THEN request ELSE Set(r, "failed")

ChangeJob(j, Change(_, _)) ==
  \E k \in Queue!LifeType : Change(job[j], k) /\ job' = [job EXCEPT ![j] = k]

(* insert ... on conflict do nothing, to run at t. *)
Insert(j, t) ==
  IF job[j].state = "absent"
    THEN ChangeJob(j, Queue!Submit) /\ runAt' = [runAt EXCEPT ![j] = t]
    ELSE UNCHANGED <<job, runAt>>

-----------------------------------------------------------------------------
(* What the person does: createPrivacyRequest, cancelScheduledErasure.     *)

Outside == <<thing, artifact, blocked, worker, faults, flips, now>>

NoActiveErasure == \A r \in Erasure : request[r].status \notin Live

RequestErasure(r) ==
  /\ Is(r, "absent")
  /\ user \notin {"erasing", "gone"}
  /\ NoActiveErasure
  /\ now + Grace =< Horizon
  /\ IF blocked
       THEN request' = Set(r, "blocked") /\ UNCHANGED <<user, job, runAt>>
       ELSE /\ request' = [request EXCEPT ![r].status = "scheduled", ![r].due = now + Grace]
            /\ Insert(r, now + Grace)
            /\ user' = "deletion_pending"
  /\ UNCHANGED Outside

RequestExport(e) ==
  /\ Is(e, "absent")
  /\ user \notin {"erasing", "gone"}
  /\ request' = [request EXCEPT ![e].status = "scheduled", ![e].due = now]
  /\ Insert(e, now)
  /\ UNCHANGED <<user, thing, artifact, blocked, worker, faults, flips, now>>

(* Mutant: anything that is not over may be canceled. *)
CancelableLive(r) == request[r].status \in Live

Cancelable(r) == Is(r, "scheduled")

Cancel(r) ==
  /\ user # "gone"
  /\ Cancelable(r)
  /\ request' = Set(r, "canceled")
  /\ ChangeJob(r, Queue!Cancel)
  /\ user' = "active"
  /\ UNCHANGED <<runAt, thing, artifact, blocked, worker, faults, flips, now>>

(* A subscription, an upload or a task of the account appears, by itself   *)
(* or from a request or a webhook that was under way.  That request may be *)
(* slower than the erasure: no insert asks whether the account still is.   *)
Arrive(x) ==
  /\ thing[x] = "none"
  /\ thing' = [thing EXCEPT ![x] = IF user = "gone" THEN "orphan" ELSE "there"]
  /\ UNCHANGED <<user, request, artifact, blocked, job, runAt, worker, faults, flips, now>>

(* The other owner or administrator leaves, is banned, or comes back. *)
Flip ==
  /\ flips < Flips
  /\ blocked' = ~blocked
  /\ flips' = flips + 1
  /\ UNCHANGED <<user, request, thing, artifact, job, runAt, worker, faults, now>>

-----------------------------------------------------------------------------
(* Handlers. *)

GoTo(w, pc) == worker' = [worker EXCEPT ![w].pc = pc]

Leased(j) == \E w \in Worker : worker[w].leased /\ worker[w].job = j

(* The erasure has scrubbed the payload of its own job. *)
FirstStep(j) ==
  IF j \notin Request THEN "expire" ELSE IF user = "gone" THEN "fail" ELSE "begin"

ClaimJob(w, j) ==
  /\ worker[w].pc = "idle"
  /\ ~Leased(j) /\ runAt[j] =< now
  /\ ChangeJob(j, Queue!Attempt)
  /\ worker' = [worker EXCEPT ![w] =
       [IdleWorker EXCEPT !.pc = FirstStep(j), !.job = j, !.leased = TRUE]]
  /\ UNCHANGED <<user, request, thing, artifact, blocked, runAt, faults, flips, now>>

(* The handler returns: its job may be reported as done. *)
Return(w) ==
  /\ GoTo(w, "report")
  /\ IF worker[w].leased THEN ChangeJob(worker[w].job, Queue!Run) ELSE UNCHANGED job

(* Mutant: a blocker that turns up leaves the account as it was. *)
BeginErasureKept(w) ==
  LET r == worker[w].job IN
  /\ worker[w].pc = "begin" /\ r \in Erasure
  /\ IF request[r].status \in Ended \/ request[r].due > now
       THEN Return(w) /\ UNCHANGED <<user, request>>
       ELSE IF blocked
         THEN request' = Set(r, "blocked") /\ UNCHANGED user /\ Return(w)
         ELSE /\ request' = Set(r, "processing")
              /\ user' = "erasing"
              /\ GoTo(w, "plan")
              /\ UNCHANGED job
  /\ UNCHANGED <<thing, artifact, blocked, runAt, faults, flips, now>>

(* beginPrivacyRequest for an erasure. *)
BeginErasure(w) ==
  LET r == worker[w].job IN
  /\ worker[w].pc = "begin" /\ r \in Erasure
  /\ IF request[r].status \in Ended \/ request[r].due > now
       THEN Return(w) /\ UNCHANGED <<user, request>>
       ELSE IF blocked
         THEN request' = Set(r, "blocked") /\ user' = "active" /\ Return(w)
         ELSE /\ request' = Set(r, "processing")
              /\ user' = "erasing"
              /\ GoTo(w, "plan")
              /\ UNCHANGED job
  /\ UNCHANGED <<thing, artifact, blocked, runAt, faults, flips, now>>

(* What the database knows of: a row that says so itself drops out. *)
Listed ==
  {x \in Thing : IF x \in Marked THEN thing[x] = "there" ELSE thing[x] # "none"}
    \union {e \in Export : request[e].key}

(* The loops of runAccountErasure go on while something is left. *)
Loop(todo) == IF todo = {} THEN "finalize" ELSE "effect"

(* getAccountErasurePlan: the plan, or the blockers, or nobody to erase. *)
Plan(w) ==
  LET r    == worker[w].job
      todo == Listed \ request[r].done
  IN
  /\ worker[w].pc = "plan"
  /\ IF user = "gone"
       THEN IF Is(r, "completed") THEN Return(w) ELSE GoTo(w, "fail") /\ UNCHANGED job
       ELSE /\ worker' = IF blocked THEN [worker EXCEPT ![w].pc = "fail"]
                         ELSE [worker EXCEPT ![w].pc = Loop(todo), ![w].todo = todo]
            /\ UNCHANGED job
  /\ UNCHANGED <<user, request, thing, artifact, blocked, runAt, faults, flips, now>>

(* Cancel or delete at the provider; what is gone already is no error. *)
Removed(x, r) == IF thing[x] = "there" THEN r ELSE thing[x]

(* One effect of the loops. *)
Effect(w) ==
  /\ worker[w].pc = "effect"
  /\ \E x \in worker[w].todo :
       /\ thing' = IF x \in Thing
                     THEN [thing EXCEPT ![x] = Removed(x, worker[w].job)] ELSE thing
       /\ artifact' = IF x \in Export THEN [artifact EXCEPT ![x] = FALSE] ELSE artifact
       /\ worker' = [worker EXCEPT ![w].pc = "record", ![w].at = x]
  /\ UNCHANGED <<user, request, blocked, job, runAt, faults, flips, now>>

(* recordPrivacyExternalEffect *)
Record(w) ==
  /\ worker[w].pc = "record"
  /\ request' = [request EXCEPT ![worker[w].job].done = @ \union {worker[w].at}]
  /\ worker' = [worker EXCEPT ![w].pc = Loop(worker[w].todo \ {worker[w].at}),
                  ![w].todo = @ \ {worker[w].at}, ![w].at = None]
  /\ UNCHANGED <<user, thing, artifact, blocked, job, runAt, faults, flips, now>>

(* Mutant: the plan was carried out, so nothing can be left. *)
PendingPlanned(r) == {}

(* What finalizeAccountErasure still misses. *)
Pending(r) == {x \in Listed : x \in Marked \/ x \notin request[r].done}

(* The last transaction. *)
Scrub(r) ==
  /\ user' = "gone"
  /\ request' = [q \in Request |->
       IF request[q].status = "absent" THEN request[q]
       ELSE [request[q] EXCEPT !.key = FALSE, !.expires = 0, !.done = {},
               !.status = IF q = r \/ (q \in Erasure /\ @ = "completed")
                            THEN "completed" ELSE "canceled"]]
  /\ job' = [j \in Job |->
       IF j # r /\ job[j].state = "open" THEN [job[j] EXCEPT !.state = "canceled"] ELSE job[j]]

(* finalizeAccountErasure *)
Finalize(w) ==
  LET r == worker[w].job IN
  /\ worker[w].pc = "finalize"
  /\ IF Is(r, "completed") THEN Return(w) /\ UNCHANGED <<user, request>>
     ELSE IF user = "gone" \/ blocked \/ Pending(r) # {}
       THEN /\ request' = IF user # "gone" /\ blocked THEN SetFailed(r) ELSE request
            /\ GoTo(w, "fail")
            /\ UNCHANGED <<user, job>>
       ELSE Scrub(r) /\ GoTo(w, "finalize")
  /\ UNCHANGED <<thing, artifact, blocked, runAt, faults, flips, now>>

(* beginPrivacyRequest for an export. *)
BeginExport(w) ==
  LET e == worker[w].job IN
  /\ worker[w].pc = "begin" /\ e \in Export
  /\ IF request[e].status \in Ended THEN Return(w) /\ UNCHANGED request
     ELSE IF user = "erasing" THEN Return(w) /\ request' = Set(e, "canceled")
     ELSE GoTo(w, "prepare") /\ request' = Set(e, "processing") /\ UNCHANGED job
  /\ UNCHANGED <<user, thing, artifact, blocked, runAt, faults, flips, now>>

AbortsExport(e) == Is(e, "canceled") \/ user \in {"erasing", "gone"}

(* Mutant: the key is left to the completion. *)
PrepareJob(w) ==
  LET e == worker[w].job IN
  /\ worker[w].pc = "prepare"
  /\ IF AbortsExport(e)
       THEN request' = Set(e, "canceled") /\ Return(w) /\ UNCHANGED runAt
       ELSE Insert(ExpireJob(e), now + Retention) /\ GoTo(w, "put") /\ UNCHANGED request
  /\ UNCHANGED <<user, thing, artifact, blocked, faults, flips, now>>

(* prepareAccountExportArtifact: the key and its cleanup, before the bytes. *)
Prepare(w) ==
  LET e == worker[w].job IN
  /\ worker[w].pc = "prepare"
  /\ IF Is(e, "completed") THEN GoTo(w, "put") /\ UNCHANGED <<request, job, runAt>>
     ELSE IF AbortsExport(e)
       THEN request' = Set(e, "canceled") /\ Return(w) /\ UNCHANGED runAt
       ELSE /\ request' = [request EXCEPT ![e].key = TRUE, ![e].expires = now + Retention]
            /\ Insert(ExpireJob(e), now + Retention)
            /\ GoTo(w, "put")
  /\ UNCHANGED <<user, thing, artifact, blocked, faults, flips, now>>

Put(w) ==
  /\ worker[w].pc = "put"
  /\ artifact' = [artifact EXCEPT ![worker[w].job] = TRUE]
  /\ GoTo(w, "complete")
  /\ UNCHANGED <<user, request, thing, blocked, job, runAt, faults, flips, now>>

(* completeAccountExport *)
Complete(w) ==
  LET e == worker[w].job IN
  /\ worker[w].pc = "complete"
  /\ IF Is(e, "completed") THEN Return(w) /\ UNCHANGED request
     ELSE IF Is(e, "canceled") \/ user \in {"erasing", "gone"}
       THEN GoTo(w, "undo") /\ UNCHANGED <<request, job>>
       ELSE /\ request' = [request EXCEPT ![e].status = "completed", ![e].key = TRUE,
                             ![e].expires = now + Retention]
            /\ Return(w)
  /\ UNCHANGED <<user, thing, artifact, blocked, runAt, faults, flips, now>>

(* Erasure won: the document goes. *)
Undo(w) ==
  /\ worker[w].pc = "undo"
  /\ artifact' = [artifact EXCEPT ![worker[w].job] = FALSE]
  /\ Return(w)
  /\ UNCHANGED <<user, request, thing, blocked, runAt, faults, flips, now>>

ExportOf(j) == CHOOSE e \in Export : j = ExpireJob(e)

(* expireAccountExport reads the request ... *)
Expire(w) ==
  LET e == ExportOf(worker[w].job) IN
  /\ worker[w].pc = "expire"
  /\ IF ~request[e].key \/ request[e].expires > now
       THEN Return(w)
       ELSE GoTo(w, "remove") /\ UNCHANGED job
  /\ UNCHANGED <<user, request, thing, artifact, blocked, runAt, faults, flips, now>>

(* ... removes the document ... *)
Remove(w) ==
  /\ worker[w].pc = "remove"
  /\ artifact' = [artifact EXCEPT ![ExportOf(worker[w].job)] = FALSE]
  /\ GoTo(w, "clear")
  /\ UNCHANGED <<user, request, thing, blocked, job, runAt, faults, flips, now>>

(* ... and forgets where it was. *)
Clear(w) ==
  /\ worker[w].pc = "clear"
  /\ request' = [request EXCEPT ![ExportOf(worker[w].job)].key = FALSE]
  /\ Return(w)
  /\ UNCHANGED <<user, thing, artifact, blocked, runAt, faults, flips, now>>

Report(w) ==
  LET j == worker[w].job IN
  /\ worker[w].pc = "report"
  /\ IF worker[w].leased /\ job[j].state = "open"
       THEN ChangeJob(j, Queue!Succeed) ELSE UNCHANGED job
  /\ worker' = [worker EXCEPT ![w] = IdleWorker]
  /\ UNCHANGED <<user, request, thing, artifact, blocked, runAt, faults, flips, now>>

Exhausted(j) == job[j].used = MaxAttempts

Failable == {"scheduled", "processing", "failed", "blocked"}

(* markPrivacyRequestFailed, then the queue's retry or its end. *)
Fail(w) ==
  LET j == worker[w].job IN
  /\ worker[w].pc = "fail"
  /\ request' = IF j \in Request /\ request[j].status \in Failable THEN SetFailed(j) ELSE request
  /\ IF worker[w].leased /\ Exhausted(j) /\ job[j].state = "open"
       THEN ChangeJob(j, Queue!Fail) ELSE UNCHANGED job
  /\ worker' = [worker EXCEPT ![w] = IdleWorker]
  /\ UNCHANGED <<user, thing, artifact, blocked, runAt, faults, flips, now>>

(* A provider refuses. *)
Throw(w) ==
  /\ \/ worker[w].pc = "effect"
     \/ worker[w].pc \in {"put", "undo", "remove"}
  /\ faults < Faults
  /\ worker' = [worker EXCEPT ![w].pc = "fail", ![w].todo = {}]
  /\ faults' = faults + 1
  /\ UNCHANGED <<user, request, thing, artifact, blocked, job, runAt, flips, now>>

Crash(w) ==
  /\ worker[w].pc # "idle"
  /\ faults < Faults
  /\ worker' = [worker EXCEPT ![w] = IdleWorker]
  /\ faults' = faults + 1
  /\ UNCHANGED <<user, request, thing, artifact, blocked, job, runAt, flips, now>>

(* The handler's timeout passes and it goes on unattended (runWithTimeout). *)
Lapse(w) ==
  /\ worker[w].leased
  /\ faults < Faults
  /\ worker' = [worker EXCEPT ![w].leased = FALSE]
  /\ faults' = faults + 1
  /\ UNCHANGED <<user, request, thing, artifact, blocked, job, runAt, flips, now>>

GiveUp(j) ==
  /\ job[j].state = "open" /\ Exhausted(j) /\ ~Leased(j)
  /\ ChangeJob(j, Queue!Fail)
  /\ UNCHANGED <<user, request, thing, artifact, blocked, runAt, worker, faults, flips, now>>

(* The clock counts days, and a handler works for minutes. *)
Tick ==
  /\ now < Horizon
  /\ \A w \in Worker : worker[w].pc = "idle"
  /\ now' = now + 1
  /\ UNCHANGED <<user, request, thing, artifact, blocked, job, runAt, worker, faults, flips>>

-----------------------------------------------------------------------------
Handler(w) ==
  \/ BeginErasure(w) \/ Plan(w) \/ Effect(w) \/ Record(w) \/ Finalize(w)
  \/ BeginExport(w) \/ Prepare(w) \/ Put(w) \/ Complete(w) \/ Undo(w)
  \/ Expire(w) \/ Remove(w) \/ Clear(w) \/ Report(w) \/ Fail(w)

Next ==
  \/ \E r \in Erasure : RequestErasure(r) \/ Cancel(r)
  \/ \E e \in Export : RequestExport(e)
  \/ \E x \in Late : Arrive(x)
  \/ Flip \/ Tick
  \/ \E w \in Worker :
       \/ Handler(w) \/ Throw(w) \/ Crash(w) \/ Lapse(w)
       \/ \E j \in Job : ClaimJob(w, j)
  \/ \E j \in Job : GiveUp(j)

Fairness ==
  /\ WF_vars(Tick)
  /\ \A w \in Worker : WF_vars(Handler(w) \/ \E j \in Job : ClaimJob(w, j))
  /\ \A j \in Job : WF_vars(GiveUp(j))

Spec == Init /\ [][Next]_vars /\ Fairness

-----------------------------------------------------------------------------
(* Properties. *)

(* An account that is reported as erased has nothing left outside: every   *)
(* thing the database knew of was removed, whatever appeared while the     *)
(* erasure ran and however often it was retried (finalizeAccountErasure,   *)
(* src/config/account-lifecycle.ts).  What a slower request adds after the *)
(* last transaction is an orphan, which nothing looks for.                 *)
ErasedEverything ==
  user = "gone" => \A x \in Thing : thing[x] # "there"

(* Nothing is removed before the period of grace is over, nor for an       *)
(* erasure its owner canceled in it: the cancellation and the job that     *)
(* begins are decided by the request's row (cancelScheduledErasure,        *)
(* beginPrivacyRequest).                                                   *)
GraceKept ==
  \A r \in Erasure : (\E x \in Thing : thing[x] = r) =>
    request[r].due =< now /\ (user # "gone" => ~Is(r, "canceled"))

(* What the account says and what its requests say agree: a pending        *)
(* deletion has a scheduled erasure to cancel, an account in erasure one   *)
(* that is being worked on or will be retried or looked at.                *)
StatusAgrees ==
  /\ user = "deletion_pending" <=> \E r \in Erasure : Is(r, "scheduled")
  /\ user = "erasing" => \E r \in Erasure : request[r].status \in {"processing", "failed"}

(* Until its removal is due, a document in the bucket is named by its row, *)
(* so that a download, the expiry and the erasure find it, wherever the    *)
(* upload dies (prepareAccountExportArtifact comes first, and              *)
(* clearExpiredAccountExportArtifact last).                                *)
ArtifactNamed ==
  user # "gone" => \A e \in Export :
    artifact[e] =>
      \/ request[e].key
      \/ job[ExpireJob(e)].state # "absent" /\ runAt[ExpireJob(e)] =< now

-----------------------------------------------------------------------------
(* What the repository says, and the code does not do. *)

(* src/models/account-lifecycle.ts: the artifact "has a durable expiry     *)
(* path".  The job keeps the time of the first preparation; a retry moves  *)
(* the expiry beyond it, and the job then finds nothing to do, once and    *)
(* for all.                                                                *)
DurableExpiry ==
  \A e \in Export :
    artifact[e] /\ Is(e, "completed") => job[ExpireJob(e)].state \in {"open", "failed"}
=============================================================================
