------------------------------ MODULE JobQueue ------------------------------
(***************************************************************************)
(* The durable job queue: the `jobs` table (src/models/job.ts), the drain  *)
(* loop that cron invocations run (src/services/jobs/index.ts), and the    *)
(* three ways other parts of the system write the table: enqueueing,       *)
(* reviving a finished job, and cancelling (src/models/account-            *)
(* lifecycle.ts, src/models/file.ts).                                      *)
(*                                                                         *)
(* A worker is one cron invocation.  It claims a job by stamping           *)
(* `locked_at`; that timestamp is the lease token, and every completion    *)
(* write is conditional on it.  An invocation may stop at any point        *)
(* (Crash) or sleep for longer than the lease and wake up again.           *)
(***************************************************************************)
EXTENDS Integers

CONSTANTS
  Worker,        \* concurrent cron invocations
  Caller,        \* requests that enqueue with a revive step
  Row,           \* row ids; an id is never used twice
  PlainKeys,     \* dedupe keys inserted once and never revived (mail, Slack)
  RetryKeys,     \* keys enqueued with retryFailed (new_user_credits)
  FileKeys,      \* keys of storage_object_delete
  ErasureKeys,   \* keys of account_erasure
  NoKey,         \* a null dedupe_key
  None,          \* a null column
  MaxAttempts,   \* jobs.max_attempts
  StaleLock,     \* STALE_LOCK_MS
  BackoffBase,   \* BACKOFF_BASE_MS
  Retention,     \* RETENTION_MS
  Delay,         \* how far ahead a delayed job's run_at may lie
  MaxRevive      \* bound: how often callers revive a finished job

Keys == PlainKeys \union RetryKeys \union FileKeys \union ErasureKeys

(* Delay before the retry that follows attempt n. *)
RetryDelay(n) == BackoffBase * 2^(n - 1)

ASSUME TimingAssumption ==
  /\ MaxAttempts \in Nat \ {0}
  /\ StaleLock \in Nat
  /\ Retention \in Nat
  /\ Delay \in Nat
  /\ MaxRevive \in Nat
  /\ \A n \in 1..MaxAttempts : RetryDelay(n) \in Nat \ {0}

ASSUME KeyAssumption ==
  /\ NoKey \notin Keys
  /\ FileKeys \intersect ErasureKeys = {}
  /\ RetryKeys \intersect ErasureKeys = {}
  /\ None \notin Nat
  /\ None \notin Row

VARIABLES
  jobs,     \* the table
  worker,   \* what each cron invocation holds in memory
  caller,   \* the key an insertJob call is between its two statements for
  done,     \* rows whose handler completed since they were last (re)queued
  now,      \* the clock all servers share
  revived   \* how many revivals callers have been granted (bound only)

vars == <<jobs, worker, caller, done, now, revived>>

Finished == {"succeeded", "failed"}
Status == {"absent", "pending", "running", "canceled", "pruned"} \union Finished
Busy == {"claimed", "running", "succeeding", "failing"}

JobType ==
  [status : Status, attempts : 0..MaxAttempts, runAt : Nat,
   lockedAt : Nat \union {None}, completedAt : Nat \union {None},
   key : Keys \union {NoKey}]

(* `attempt` is job.attempts as the claim returned it. *)
WorkerType ==
  [phase : {"idle"}, row : {None}, token : {None}, attempt : {0}]
    \union
  [phase : Busy, row : Row, token : Nat, attempt : 1..MaxAttempts]

TypeOK ==
  /\ jobs \in [Row -> JobType]
  /\ worker \in [Worker -> WorkerType]
  /\ caller \in [Caller -> RetryKeys \union FileKeys \union {NoKey}]
  /\ done \in SUBSET Row
  /\ now \in Nat
  /\ revived \in 0..MaxRevive

Idle == [phase |-> "idle", row |-> None, token |-> None, attempt |-> 0]

Init ==
  /\ jobs = [r \in Row |->
       [status |-> "absent", attempts |-> 0, runAt |-> 0, lockedAt |-> None,
        completedAt |-> None, key |-> NoKey]]
  /\ worker = [w \in Worker |-> Idle]
  /\ caller = [c \in Caller |-> NoKey]
  /\ done = {}
  /\ now = 0
  /\ revived = 0

-----------------------------------------------------------------------------
(* Enqueueing. *)

Present(r) == jobs[r].status \notin {"absent", "pruned"}

KeyTaken(k) == k # NoKey /\ \E r \in Row : Present(r) /\ jobs[r].key = k

(* INSERT ... ON CONFLICT (dedupe_key) DO NOTHING. *)
InsertOrNothing(k, runAt) ==
  \/ KeyTaken(k) /\ UNCHANGED jobs
  \/ /\ ~KeyTaken(k)
     /\ \E r \in Row :
          /\ jobs[r].status = "absent"
          /\ jobs' = [jobs EXCEPT ![r] =
               [status |-> "pending", attempts |-> 0, runAt |-> runAt,
                lockedAt |-> None, completedAt |-> None, key |-> k]]

(* insertJob without retryFailed: one statement. *)
Enqueue(k) ==
  /\ \E d \in {0, Delay} : InsertOrNothing(k, now + d)
  /\ UNCHANGED <<worker, caller, done, now, revived>>

(* The statuses each reviving writer accepts: insertJob's retryFailed, and *)
(* scheduleFileDeletion.                                                   *)
Revivable(k) == IF k \in FileKeys THEN Finished \union {"canceled"} ELSE {"failed"}

(* Mutant: the revive statement forgets to ask for a finished job. *)
RevivesAny(r, k) == jobs[r].key = k /\ Present(r)

Revives(r, k) == jobs[r].key = k /\ jobs[r].status \in Revivable(k)

(* First statement: UPDATE the row with this key back to pending.  When it *)
(* matches, the call returns; otherwise the insert follows.                *)
ReviveStatement(c, k) ==
  /\ caller[c] = NoKey
  /\ \/ \E r \in Row :
          /\ Revives(r, k)
          /\ revived < MaxRevive
          /\ revived' = revived + 1
          /\ jobs' = [jobs EXCEPT ![r] =
               [@ EXCEPT !.status = "pending", !.attempts = 0, !.runAt = now,
                         !.lockedAt = None, !.completedAt = None]]
          /\ done' = done \ {r}
          /\ UNCHANGED caller
     \/ /\ \A r \in Row : ~Revives(r, k)
        /\ caller' = [caller EXCEPT ![c] = k]
        /\ UNCHANGED <<jobs, done, revived>>
  /\ UNCHANGED <<worker, now>>

(* Second statement: the insert, which may by now conflict. *)
InsertStatement(c) ==
  /\ caller[c] # NoKey
  /\ InsertOrNothing(caller[c], now)
  /\ caller' = [caller EXCEPT ![c] = NoKey]
  /\ UNCHANGED <<worker, done, now, revived>>

(* cancelScheduledErasure: whatever the job was doing, lease column kept. *)
CancelScheduledErasure(k) ==
  /\ \E r \in Row :
       /\ Present(r) /\ jobs[r].key = k
       /\ jobs' = [jobs EXCEPT ![r] = [@ EXCEPT !.status = "canceled", !.completedAt = now]]
  /\ UNCHANGED <<worker, caller, done, now, revived>>

(* A live job is cancelled, and every job gives its dedupe key up for a    *)
(* unique one.  completed_at is guarded by `dedupe_key <> ...`, which is   *)
(* not true of a null key.                                                 *)
Scrubbed(r) ==
  IF jobs[r].status \in {"pending", "running"}
  THEN [jobs[r] EXCEPT !.status = "canceled", !.key = NoKey,
                       !.completedAt = IF jobs[r].key = NoKey THEN @ ELSE now]
  ELSE [jobs[r] EXCEPT !.key = NoKey]

(* finalizeAccountErasure, run by erasure job e (whose request was neither *)
(* cancelled nor followed by another live one): all jobs of the subject.   *)
ScrubSubject(e, S) ==
  /\ Present(e) /\ jobs[e].key \in ErasureKeys /\ jobs[e].status # "canceled"
  /\ \A r \in S : /\ Present(r)
                  /\ jobs[r].key \in ErasureKeys =>
                       jobs[r].status \in Finished \union {"canceled"}
  /\ jobs' = [r \in Row |->
       IF r = e THEN [jobs[e] EXCEPT !.key = NoKey]
       ELSE IF r \in S THEN Scrubbed(r)
       ELSE jobs[r]]
  /\ UNCHANGED <<worker, caller, done, now, revived>>

-----------------------------------------------------------------------------
(* Draining. *)

(* Mutant: a lease as old as the limit already counts as stale. *)
LeaseExpiredEarly(r) == jobs[r].lockedAt <= now - StaleLock

LeaseExpired(r) == jobs[r].lockedAt < now - StaleLock

Due(r) ==
  \/ jobs[r].status = "pending" /\ jobs[r].runAt <= now
  \/ jobs[r].status = "running" /\ LeaseExpired(r)

Claimable(r) == Due(r) /\ jobs[r].attempts < MaxAttempts
Exhausted(r) == Due(r) /\ jobs[r].attempts >= MaxAttempts

(* Mutant: the claim statement loses its burial step. *)
NoneBuried == jobs

(* The `exhausted` CTE of the claim statement. *)
Buried == [r \in Row |->
  IF Exhausted(r)
  THEN [jobs[r] EXCEPT !.status = "failed", !.lockedAt = None, !.completedAt = now]
  ELSE jobs[r]]

Leased(r) ==
  [jobs[r] EXCEPT !.status = "running", !.lockedAt = now, !.attempts = @ + 1]

(* claimDueJobs(1): one statement that buries every exhausted job and      *)
(* leases the claimable job with the earliest run_at, if there is one.     *)
ClaimDueJobs(w) ==
  /\ worker[w].phase = "idle"
  /\ \/ \E r \in Row :
          /\ Claimable(r)
          /\ \A s \in Row : Claimable(s) => jobs[r].runAt <= jobs[s].runAt
          /\ jobs' = [Buried EXCEPT ![r] = Leased(r)]
          /\ worker' = [worker EXCEPT ![w] =
               [phase |-> "claimed", row |-> r, token |-> now,
                attempt |-> jobs[r].attempts + 1]]
     \/ /\ \A r \in Row : ~Claimable(r)
        /\ \E r \in Row : Exhausted(r)
        /\ jobs' = Buried
        /\ UNCHANGED worker
  /\ UNCHANGED <<caller, done, now, revived>>

MoveTo(w, from, to) ==
  /\ worker[w].phase = from
  /\ worker' = [worker EXCEPT ![w].phase = to]

(* The claim itself crossed the drain deadline: released as a failure. *)
DeadlineElapsed(w) ==
  /\ MoveTo(w, "claimed", "failing")
  /\ UNCHANGED <<jobs, caller, done, now, revived>>

(* A job that outlived the deploy that understood it: marked failed as if  *)
(* on its last attempt.                                                    *)
UnknownType(w) ==
  /\ worker[w].phase = "claimed"
  /\ worker' = [worker EXCEPT ![w].phase = "failing", ![w].attempt = MaxAttempts]
  /\ UNCHANGED <<jobs, caller, done, now, revived>>

StartHandler(w) ==
  /\ MoveTo(w, "claimed", "running")
  /\ UNCHANGED <<jobs, caller, done, now, revived>>

HandlerReturns(w) ==
  /\ MoveTo(w, "running", "succeeding")
  /\ done' = done \union {worker[w].row}
  /\ UNCHANGED <<jobs, caller, now, revived>>

(* The handler throws or exceeds its timeout; its effect may have happened. *)
HandlerFails(w) ==
  /\ MoveTo(w, "running", "failing")
  /\ done' \in {done, done \union {worker[w].row}}
  /\ UNCHANGED <<jobs, caller, now, revived>>

(* Mutant: a completion write that checks only the id. *)
HoldsRowId(w) == worker[w].phase # "idle"

(* The predicate of every completion write: id, status and locked_at. *)
HoldsLease(w) ==
  /\ worker[w].phase # "idle"
  /\ jobs[worker[w].row].status = "running"
  /\ jobs[worker[w].row].lockedAt = worker[w].token

(* A completion write: applied under the lease, lost without it. *)
Complete(w, job) ==
  /\ jobs' = IF HoldsLease(w) THEN [jobs EXCEPT ![worker[w].row] = job] ELSE jobs
  /\ worker' = [worker EXCEPT ![w] = Idle]
  /\ UNCHANGED <<caller, done, now, revived>>

MarkJobSucceeded(w) ==
  /\ worker[w].phase = "succeeding"
  /\ Complete(w, [jobs[worker[w].row] EXCEPT
       !.status = "succeeded", !.lockedAt = None, !.completedAt = now])

OutOfAttempts(w) == worker[w].attempt >= MaxAttempts

MarkJobFailed(w) ==
  /\ worker[w].phase = "failing"
  /\ IF OutOfAttempts(w)
     THEN Complete(w, [jobs[worker[w].row] EXCEPT
            !.status = "failed", !.lockedAt = None, !.completedAt = now])
     ELSE Complete(w, [jobs[worker[w].row] EXCEPT
            !.status = "pending", !.lockedAt = None,
            !.runAt = now + RetryDelay(worker[w].attempt)])

(* The invocation is killed; whatever it held in memory is gone. *)
Crash(w) ==
  /\ worker[w].phase # "idle"
  /\ worker' = [worker EXCEPT ![w] = Idle]
  /\ UNCHANGED <<jobs, caller, done, now, revived>>

Prunable(r) == jobs[r].status \in Finished /\ jobs[r].completedAt < now - Retention

PruneFinishedJobs ==
  /\ \E r \in Row : Prunable(r)
  /\ jobs' = [r \in Row |->
       IF Prunable(r) THEN [jobs[r] EXCEPT !.status = "pruned"] ELSE jobs[r]]
  /\ UNCHANGED <<worker, caller, done, now, revived>>

-----------------------------------------------------------------------------
(* The clock.  It advances only while some column still has to come due:   *)
(* once no comparison with the clock can change, later instants are        *)
(* indistinguishable to the code, so nothing is lost by not taking them.   *)
(* (Tokens are compared for equality only.)                                *)
Waiting(r) ==
  \/ jobs[r].status = "pending" /\ jobs[r].runAt > now
  \/ jobs[r].status = "running" /\ ~LeaseExpired(r)
  \/ jobs[r].status \in Finished /\ ~Prunable(r)

Tick ==
  /\ \E r \in Row : Waiting(r)
  /\ now' = now + 1
  /\ UNCHANGED <<jobs, worker, caller, done, revived>>

Drain(w) ==
  \/ ClaimDueJobs(w) \/ DeadlineElapsed(w) \/ UnknownType(w) \/ StartHandler(w)
  \/ HandlerReturns(w) \/ HandlerFails(w)
  \/ MarkJobSucceeded(w) \/ MarkJobFailed(w)

Request ==
  \/ \E k \in PlainKeys \union ErasureKeys \union {NoKey} : Enqueue(k)
  \/ \E c \in Caller : \/ \E k \in RetryKeys \union FileKeys : ReviveStatement(c, k)
                       \/ InsertStatement(c)
  \/ \E k \in ErasureKeys : CancelScheduledErasure(k)
  \/ \E e \in Row : \E S \in SUBSET (Row \ {e}) : ScrubSubject(e, S)

Next ==
  \/ Request
  \/ \E w \in Worker : Drain(w) \/ Crash(w)
  \/ PruneFinishedJobs
  \/ Tick

(* Cron fires again and again, a running invocation is bounded by its      *)
(* handler timeout, and time passes.  Nothing is assumed of callers, and   *)
(* no invocation is assumed to survive.                                    *)
Fairness ==
  /\ WF_vars(Tick)
  /\ \A w \in Worker : WF_vars(Drain(w))

Spec == Init /\ [][Next]_vars /\ Fairness

-----------------------------------------------------------------------------
(* Properties. *)

(* A queued job always has an attempt left, a leased job is within its     *)
(* budget and carries its token, and a finished job carries none: no       *)
(* history of crashes, reclaims and revivals spends an extra attempt.      *)
RowShape ==
  \A r \in Row :
    /\ jobs[r].status = "pending" => jobs[r].attempts < MaxAttempts
    /\ jobs[r].status = "running" => jobs[r].attempts > 0 /\ jobs[r].lockedAt # None
    /\ jobs[r].status \in Finished => jobs[r].lockedAt = None /\ jobs[r].completedAt # None

(* No two invocations ever hold the lease of one job, whatever was         *)
(* reclaimed, revived or cancelled in between.                             *)
LeaseExclusive ==
  \A v, w \in Worker :
    HoldsLease(v) /\ HoldsLease(w) /\ worker[v].row = worker[w].row => v = w

(* "succeeded" is written only if the handler ran to its end since the job *)
(* was last queued.                                                        *)
SucceededRan == \A r \in Row : jobs[r].status = "succeeded" => r \in done

(* Why leases exclude each other although rows are revived: a token left   *)
(* behind by an older lease is strictly older than the lease in force, and *)
(* older than the clock by the time the row may be claimed again.          *)
TokenOrder ==
  /\ \A r \in Row :
       /\ jobs[r].status = "running" => jobs[r].lockedAt <= now
       /\ jobs[r].status = "canceled" => jobs[r].key \notin RetryKeys \union FileKeys
  /\ \A w \in Worker : worker[w].phase # "idle" =>
       LET job == jobs[worker[w].row] IN
         /\ job.status # "absent"
         /\ worker[w].token <= now
         /\ job.status = "running" => worker[w].token <= job.lockedAt
         /\ job.status \in {"pending"} \union Finished => worker[w].token < now
         /\ HoldsLease(w) => job.attempts <= worker[w].attempt
         /\ HoldsLease(w) /\ worker[w].phase = "succeeding" => worker[w].row \in done

QueueInv == TypeOK /\ RowShape /\ LeaseExclusive /\ SucceededRan /\ TokenOrder

(* A live lease is ended only by its holder or by a cancellation: a        *)
(* reclaim waits until it is stale, and nobody else completes the job.     *)
LiveLeaseKept ==
  [][\A r \in Row :
       /\ jobs[r].status = "running"
       /\ now - jobs[r].lockedAt <= StaleLock
       /\ <<jobs'[r].status, jobs'[r].lockedAt>> # <<jobs[r].status, jobs[r].lockedAt>>
       => \/ jobs'[r].status = "canceled"
          \/ \E w \in Worker : HoldsLease(w) /\ worker[w].row = r /\ worker'[w] = Idle]_vars

(* A late worker never reopens or rewrites a finished job: succeeded,      *)
(* failed and cancelled rows change only by pruning, by losing their key,  *)
(* or by an explicit revival that starts again from attempt zero.          *)
FinishedStays ==
  [][\A r \in Row :
       jobs[r].status \in Finished \union {"canceled"} /\ jobs'[r].status # jobs[r].status
       => \/ jobs'[r].status = "pruned"
          \/ jobs'[r].status = "canceled" /\ jobs[r].key \in ErasureKeys
          \/ /\ jobs'[r].status = "pending"
             /\ jobs'[r].attempts = 0
             /\ jobs[r].status \in Revivable(jobs[r].key)]_vars

(* Every job that is queued or running is eventually neither: handlers     *)
(* that throw, hang or are killed exhaust the attempts, and the claim      *)
(* statement buries a job whose last lease expired.                        *)
EveryJobEnds ==
  \A r \in Row :
    jobs[r].status \in {"pending", "running"}
      ~> jobs[r].status \in Finished \union {"canceled", "pruned"}

(* The life of each row as the enqueuing code sees it. *)
LifeOf(r) ==
  [state |-> CASE jobs[r].status \in {"pending", "running"} -> "open"
               [] jobs[r].status = "pruned" -> "gone"
               [] OTHER -> jobs[r].status,
   used  |-> jobs[r].attempts,
   ran   |-> r \in done]

Promise == INSTANCE DurableJob WITH life <- [r \in Row |-> LifeOf(r)]

(* Leases, backoff, sweeps and crashes implement the bounded, restartable  *)
(* job of DurableJob.                                                      *)
KeepsPromise == Promise!Spec
=============================================================================
