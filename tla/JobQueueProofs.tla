--------------------------- MODULE JobQueueProofs ---------------------------
(* Proofs about JobQueue, for any number of invocations, callers and rows. *)
EXTENDS JobQueue, TLAPS

THEOREM InitQueueInv == Init => QueueInv
  <1> SUFFICES ASSUME Init PROVE QueueInv
    OBVIOUS
  <1> USE TimingAssumption, KeyAssumption DEF Init, Idle
  <1>1. TypeOK
    BY DEF TypeOK, JobType, WorkerType, Status
  <1>2. RowShape /\ LeaseExclusive /\ SucceededRan /\ TokenOrder
    BY DEF RowShape, LeaseExclusive, SucceededRan, TokenOrder, HoldsLease, Finished
  <1> QED
    BY <1>1, <1>2 DEF QueueInv

LEMMA InsertStep ==
  ASSUME QueueInv, NEW k \in Keys \union {NoKey}, NEW t \in Nat,
         InsertOrNothing(k, t),
         UNCHANGED <<worker, done, now, revived>>,
         caller' \in [Caller -> RetryKeys \union FileKeys \union {NoKey}]
  PROVE  QueueInv'
  <1> USE TimingAssumption, KeyAssumption DEF QueueInv, InsertOrNothing
  <1>1. CASE UNCHANGED jobs
    BY <1>1 DEF TypeOK, RowShape, LeaseExclusive, SucceededRan, TokenOrder, HoldsLease
  <1>2. CASE \E r \in Row :
               /\ jobs[r].status = "absent"
               /\ jobs' = [jobs EXCEPT ![r] =
                    [status |-> "pending", attempts |-> 0, runAt |-> t,
                     lockedAt |-> None, completedAt |-> None, key |-> k]]
    <2>1. PICK r \in Row :
               /\ jobs[r].status = "absent"
               /\ jobs' = [jobs EXCEPT ![r] =
                    [status |-> "pending", attempts |-> 0, runAt |-> t,
                     lockedAt |-> None, completedAt |-> None, key |-> k]]
      BY <1>2
    <2>2. TypeOK'
      BY <2>1 DEF TypeOK, JobType, Status
    <2>3. RowShape' /\ SucceededRan'
      BY <2>1 DEF TypeOK, JobType, RowShape, SucceededRan, Finished
    <2>4. LeaseExclusive' /\ TokenOrder'
      BY <2>1 DEF TypeOK, JobType, WorkerType, LeaseExclusive, TokenOrder, HoldsLease, Finished
    <2> QED
      BY <2>2, <2>3, <2>4
  <1> QED
    BY <1>1, <1>2

(* Steps that only move one invocation along: they leave the table alone,  *)
(* so all they must do is keep the row, the token and a large enough       *)
(* attempt number, and reach "succeeding" only with the effect done.       *)
LEMMA WorkerStep ==
  ASSUME QueueInv, NEW w \in Worker, NEW x \in WorkerType,
         worker' = [worker EXCEPT ![w] = x],
         UNCHANGED <<jobs, caller, now, revived>>,
         done \subseteq done', done' \in SUBSET Row,
         x.phase # "idle" =>
           /\ worker[w].phase # "idle"
           /\ x.row = worker[w].row /\ x.token = worker[w].token
           /\ x.attempt >= worker[w].attempt
           /\ x.phase = "succeeding" => x.row \in done'
  PROVE  QueueInv'
  <1> USE KeyAssumption, TimingAssumption DEF QueueInv
  <1>1. TypeOK'
    BY DEF TypeOK
  <1>2. RowShape' /\ SucceededRan'
    BY DEF RowShape, SucceededRan
  <1>3. LeaseExclusive'
    BY DEF TypeOK, LeaseExclusive, HoldsLease
  <1>4. TokenOrder'
    BY DEF TypeOK, JobType, WorkerType, Busy, TokenOrder, HoldsLease
  <1> QED
    BY <1>1, <1>2, <1>3, <1>4

(* A completion write under the lease: the row leaves "running" without a  *)
(* token, and the writer forgets it.                                       *)
LEMMA CompletionStep ==
  ASSUME QueueInv, NEW w \in Worker, NEW job \in JobType, HoldsLease(w),
         jobs' = [jobs EXCEPT ![worker[w].row] = job],
         worker' = [worker EXCEPT ![w] = Idle],
         UNCHANGED <<caller, done, now, revived>>,
         job.lockedAt = None,
         \/ job.status = "pending" /\ job.attempts < MaxAttempts
         \/ job.status = "failed" /\ job.completedAt # None
         \/ /\ job.status = "succeeded" /\ job.completedAt # None
            /\ worker[w].row \in done
  PROVE  QueueInv'
  <1> USE KeyAssumption, TimingAssumption DEF QueueInv
  <1> DEFINE r == worker[w].row
  <1>1. r \in Row /\ jobs[r].status = "running" /\ jobs[r].lockedAt = worker[w].token
    BY DEF HoldsLease, TypeOK, WorkerType
  <1>2. Idle \in WorkerType
    BY DEF Idle, WorkerType
  <1>3. TypeOK'
    BY <1>1, <1>2 DEF TypeOK
  <1>4. RowShape' /\ SucceededRan'
    BY <1>1 DEF TypeOK, RowShape, SucceededRan, Finished
  <1>5. LeaseExclusive'
    BY <1>1 DEF TypeOK, LeaseExclusive, HoldsLease, Idle
  <1>6. \A v \in Worker : v # w /\ worker[v].phase # "idle" /\ worker[v].row = r
                          => worker[v].token < now
    <2> SUFFICES ASSUME NEW v \in Worker, v # w, worker[v].phase # "idle", worker[v].row = r
                 PROVE  worker[v].token < now
      OBVIOUS
    <2>1. worker[v].token \in Nat /\ worker[w].token \in Nat /\ now \in Nat
      BY DEF TypeOK, WorkerType, Busy, HoldsLease
    <2>2. worker[v].token <= worker[w].token /\ worker[w].token <= now
      BY <1>1 DEF TokenOrder
    <2>3. worker[v].token # worker[w].token
      BY <1>1 DEF LeaseExclusive, HoldsLease
    <2> QED
      BY <2>1, <2>2, <2>3
  <1>7. TokenOrder'
    <2>1. /\ jobs'[r] = job /\ \A q \in Row \ {r} : jobs'[q] = jobs[q]
          /\ worker'[w].phase = "idle" /\ \A v \in Worker \ {w} : worker'[v] = worker[v]
          /\ job.status \in {"pending"} \union Finished
      BY <1>1 DEF TypeOK, Idle, Finished
    <2>2. ASSUME NEW q \in Row
          PROVE  /\ jobs'[q].status = "running" => jobs'[q].lockedAt <= now
                 /\ jobs'[q].status = "canceled" => jobs'[q].key \notin RetryKeys \union FileKeys
      BY <2>1 DEF TokenOrder, Finished
    <2>3. ASSUME NEW v \in Worker \ {w}, worker[v].phase # "idle", worker[v].row # r
          PROVE  /\ worker[v].row \in Row \ {r}
                 /\ jobs'[worker[v].row] = jobs[worker[v].row]
      BY <2>1, <2>3 DEF TypeOK, WorkerType
    <2>4. ASSUME NEW v \in Worker \ {w}, worker[v].phase # "idle", worker[v].row = r
          PROVE  worker[v].token < now /\ worker[v].token <= now /\ ~HoldsLease(v)'
      BY <1>6, <2>1, <2>4 DEF HoldsLease, TokenOrder, Finished
    <2> QED
      BY <2>1, <2>2, <2>3, <2>4 DEF TokenOrder, HoldsLease, Finished
  <1> QED
    BY <1>3, <1>4, <1>5, <1>7

(* A revived row starts again: tokens left behind are older than the clock *)
(* because the row is finished, and only finished rows are revived.        *)
LEMMA ReviveStep ==
  ASSUME QueueInv, NEW r \in Row, NEW k \in RetryKeys \union FileKeys, Revives(r, k),
         jobs' = [jobs EXCEPT ![r] =
               [@ EXCEPT !.status = "pending", !.attempts = 0, !.runAt = now,
                         !.lockedAt = None, !.completedAt = None]],
         done' = done \ {r}, revived' \in 0..MaxRevive,
         UNCHANGED <<worker, caller, now>>
  PROVE  QueueInv'
  <1> USE KeyAssumption, TimingAssumption DEF QueueInv
  <1>1. jobs[r].status \in Finished
    BY DEF Revives, Revivable, Finished, TokenOrder
  <1>2. TypeOK'
    <2>1. [jobs[r] EXCEPT !.status = "pending", !.attempts = 0, !.runAt = now,
                          !.lockedAt = None, !.completedAt = None] \in JobType
      <3>1. jobs[r] \in JobType /\ now \in Nat /\ 0 \in 0..MaxAttempts
        BY DEF TypeOK
      <3> QED
        BY <3>1 DEF JobType, Status
    <2>2. jobs' \in [Row -> JobType] /\ done' \in SUBSET Row
      BY <2>1 DEF TypeOK
    <2> QED
      BY <2>2 DEF TypeOK
  <1>3. RowShape' /\ SucceededRan'
    BY DEF TypeOK, JobType, RowShape, SucceededRan, Finished
  <1>4. LeaseExclusive'
    BY DEF TypeOK, JobType, LeaseExclusive, HoldsLease
  <1>5. TokenOrder'
    BY <1>1 DEF TypeOK, JobType, TokenOrder, HoldsLease, Finished
  <1> QED
    BY <1>2, <1>3, <1>4, <1>5

LEMMA CancelStep ==
  ASSUME QueueInv, NEW k \in ErasureKeys, CancelScheduledErasure(k)
  PROVE  QueueInv'
  <1> USE KeyAssumption, TimingAssumption DEF QueueInv
  <1>1. PICK r \in Row :
          /\ Present(r) /\ jobs[r].key = k
          /\ jobs' = [jobs EXCEPT ![r] = [@ EXCEPT !.status = "canceled", !.completedAt = now]]
    BY DEF CancelScheduledErasure
  <1>2. UNCHANGED <<worker, caller, done, now, revived>>
    BY DEF CancelScheduledErasure
  <1>3. TypeOK'
    <2>1. [jobs[r] EXCEPT !.status = "canceled", !.completedAt = now] \in JobType
      <3>1. jobs[r] \in JobType /\ now \in Nat
        BY DEF TypeOK
      <3> QED
        BY <3>1 DEF JobType, Status
    <2>2. jobs' \in [Row -> JobType]
      BY <1>1, <2>1 DEF TypeOK
    <2> QED
      BY <1>2, <2>2 DEF TypeOK
  <1>4. RowShape' /\ SucceededRan'
    BY <1>1, <1>2 DEF TypeOK, JobType, RowShape, SucceededRan, Finished
  <1>5. LeaseExclusive'
    BY <1>1, <1>2 DEF TypeOK, JobType, WorkerType, LeaseExclusive, HoldsLease
  <1>6. TokenOrder'
    BY <1>1, <1>2 DEF TypeOK, JobType, WorkerType, TokenOrder, HoldsLease, Finished
  <1> QED
    BY <1>3, <1>4, <1>5, <1>6

LEMMA ScrubStep ==
  ASSUME QueueInv, NEW e \in Row, NEW S \in SUBSET (Row \ {e}), ScrubSubject(e, S)
  PROVE  QueueInv'
  <1> USE DEF QueueInv, ScrubSubject, Scrubbed
  <1>1. TypeOK'
    <2>1. ASSUME NEW r \in Row PROVE jobs'[r] \in JobType
      <3>1. jobs[r] \in JobType /\ now \in Nat
        BY DEF TypeOK
      <3>2. CASE r = e
        BY <3>1, <3>2 DEF JobType
      <3>3. CASE r # e /\ r \in S /\ jobs[r].status \in {"pending", "running"}
        BY <3>1, <3>3 DEF JobType, Status
      <3>4. CASE r # e /\ r \in S /\ jobs[r].status \notin {"pending", "running"}
        BY <3>1, <3>4 DEF JobType
      <3>5. CASE r # e /\ r \notin S
        BY <3>1, <3>5
      <3> QED
        BY <3>2, <3>3, <3>4, <3>5
    <2>2. jobs' \in [Row -> JobType]
      BY <2>1
    <2> QED
      BY <2>2 DEF TypeOK
  <1>2. \A r \in Row :
          /\ \/ jobs'[r].status = jobs[r].status
             \/ jobs'[r].status = "canceled" /\ jobs'[r].key = NoKey
          /\ jobs'[r].attempts = jobs[r].attempts /\ jobs'[r].lockedAt = jobs[r].lockedAt
          /\ jobs'[r].key \in {jobs[r].key, NoKey}
          /\ jobs'[r].status \in Finished => jobs'[r].completedAt = jobs[r].completedAt
    <2> SUFFICES ASSUME NEW r \in Row
                 PROVE
          /\ \/ jobs'[r].status = jobs[r].status
             \/ jobs'[r].status = "canceled" /\ jobs'[r].key = NoKey
          /\ jobs'[r].attempts = jobs[r].attempts /\ jobs'[r].lockedAt = jobs[r].lockedAt
          /\ jobs'[r].key \in {jobs[r].key, NoKey}
          /\ jobs'[r].status \in Finished => jobs'[r].completedAt = jobs[r].completedAt
      OBVIOUS
    <2>1. jobs[r] \in JobType
      BY DEF TypeOK
    <2>2. CASE r = e
      BY <2>1, <2>2 DEF JobType, Finished
    <2>3. CASE r # e /\ r \in S
      BY <2>1, <2>3 DEF JobType, Finished
    <2>4. CASE r # e /\ r \notin S
      BY <2>1, <2>4
    <2> QED
      BY <2>2, <2>3, <2>4
  <1>3. UNCHANGED <<worker, caller, done, now, revived>>
    OBVIOUS
  <1> HIDE DEF ScrubSubject, Scrubbed
  <1>4. RowShape' /\ SucceededRan'
    BY <1>1, <1>2, <1>3 DEF RowShape, SucceededRan, Finished
  <1>5. LeaseExclusive'
    BY <1>2, <1>3 DEF TypeOK, WorkerType, LeaseExclusive, HoldsLease
  <1>6. TokenOrder'
    BY KeyAssumption, <1>2, <1>3 DEF TypeOK, WorkerType, TokenOrder, HoldsLease, Finished, Keys
  <1> QED
    BY <1>1, <1>4, <1>5, <1>6

LEMMA PruneStep ==
  ASSUME QueueInv, PruneFinishedJobs
  PROVE  QueueInv'
  <1> USE KeyAssumption, TimingAssumption DEF QueueInv, PruneFinishedJobs, Prunable
  <1>1. TypeOK'
    BY DEF TypeOK, JobType, Status
  <1>2. RowShape' /\ SucceededRan'
    BY DEF TypeOK, JobType, RowShape, SucceededRan, Finished
  <1>3. LeaseExclusive'
    BY DEF TypeOK, JobType, WorkerType, LeaseExclusive, HoldsLease
  <1>4. TokenOrder'
    BY DEF TypeOK, JobType, WorkerType, TokenOrder, HoldsLease, Finished
  <1> QED
    BY <1>1, <1>2, <1>3, <1>4

LEMMA TickStep ==
  ASSUME QueueInv, Tick
  PROVE  QueueInv'
  <1> USE KeyAssumption, TimingAssumption DEF QueueInv, Tick
  <1>1. TypeOK'
    BY DEF TypeOK
  <1>2. RowShape' /\ SucceededRan' /\ LeaseExclusive'
    BY DEF RowShape, SucceededRan, LeaseExclusive, HoldsLease
  <1>3. TokenOrder'
    <2>1. now \in Nat /\ now <= now' /\ UNCHANGED <<jobs, worker, done>>
      BY DEF TypeOK
    <2>2. ASSUME NEW r \in Row, jobs[r].status = "running"
          PROVE  jobs[r].lockedAt <= now'
      <3>1. jobs[r].lockedAt \in Nat /\ jobs[r].lockedAt <= now
        BY <2>2 DEF TypeOK, JobType, RowShape, TokenOrder
      <3> QED
        BY <2>1, <3>1
    <2>3. ASSUME NEW w \in Worker, worker[w].phase # "idle"
          PROVE  /\ worker[w].token <= now => worker[w].token <= now'
                 /\ worker[w].token < now => worker[w].token < now'
      <3>1. worker[w].token \in Nat
        BY <2>3 DEF TypeOK, WorkerType, Busy
      <3> QED
        BY <2>1, <3>1
    <2> QED
      BY <2>1, <2>2, <2>3 DEF TokenOrder, HoldsLease
  <1> QED
    BY <1>1, <1>2, <1>3

(* The claim statement.  A row that is buried or leased was pending or had *)
(* an expired lease, so every token still held for it is older than now.   *)
LEMMA BuriedRow ==
  ASSUME QueueInv, NEW r \in Row
  PROVE  /\ Buried[r] \in JobType
         /\ Buried[r].key = jobs[r].key
         /\ \/ Buried[r] = jobs[r]
            \/ /\ Due(r)
               /\ Buried[r].status = "failed" /\ Buried[r].lockedAt = None
               /\ Buried[r].completedAt = now
  <1>1. jobs[r] \in JobType /\ now \in Nat
    BY DEF QueueInv, TypeOK
  <1> QED
    BY <1>1 DEF Buried, Exhausted, JobType, Status, Finished

LEMMA DueTokensOld ==
  ASSUME QueueInv, NEW r \in Row, Due(r),
         NEW w \in Worker, worker[w].phase # "idle", worker[w].row = r
  PROVE  worker[w].token < now
  <1> USE DEF QueueInv
  <1>1. CASE jobs[r].status = "pending"
    BY <1>1 DEF TokenOrder
  <1>2. CASE jobs[r].status = "running" /\ LeaseExpired(r)
    <2>1. /\ worker[w].token <= jobs[r].lockedAt
          /\ worker[w].token \in Nat /\ jobs[r].lockedAt \in Nat
          /\ now \in Nat /\ StaleLock \in Nat
      BY <1>2, TimingAssumption DEF TokenOrder, TypeOK, WorkerType, Busy, JobType, RowShape
    <2> QED
      BY <1>2, <2>1 DEF LeaseExpired
  <1> QED
    BY <1>1, <1>2 DEF Due

LEMMA BuryStep ==
  ASSUME QueueInv, jobs' = Buried, UNCHANGED <<worker, caller, done, now, revived>>
  PROVE  QueueInv'
  <1> USE DEF QueueInv
  <1>1. jobs' \in [Row -> JobType]
    BY BuriedRow DEF Buried
  <1>2. \A r \in Row :
          /\ jobs'[r].key = jobs[r].key
          /\ \/ jobs'[r] = jobs[r]
             \/ /\ Due(r)
                /\ jobs'[r].status = "failed" /\ jobs'[r].lockedAt = None
                /\ jobs'[r].completedAt = now
    BY BuriedRow
  <1>3. TypeOK'
    BY <1>1 DEF TypeOK
  <1>4. RowShape' /\ SucceededRan'
    BY <1>2, KeyAssumption DEF RowShape, SucceededRan, Finished, TypeOK
  <1>5. LeaseExclusive'
    BY <1>2 DEF TypeOK, WorkerType, LeaseExclusive, HoldsLease
  <1>6. TokenOrder'
    <2>1. \A r \in Row :
            /\ jobs'[r].status = "running" => jobs'[r].lockedAt <= now'
            /\ jobs'[r].status = "canceled" => jobs'[r].key \notin RetryKeys \union FileKeys
      BY <1>2 DEF TokenOrder
    <2>2. ASSUME NEW w \in Worker, worker[w].phase # "idle"
          PROVE  LET job == jobs'[worker[w].row] IN
                   /\ job.status # "absent"
                   /\ worker[w].token <= now
                   /\ job.status = "running" => worker[w].token <= job.lockedAt
                   /\ job.status \in {"pending"} \union Finished => worker[w].token < now
                   /\ HoldsLease(w)' => job.attempts <= worker[w].attempt
                   /\ HoldsLease(w)' /\ worker[w].phase = "succeeding" => worker[w].row \in done
      <3>1. worker[w].row \in Row
        BY <2>2 DEF TypeOK, WorkerType
      <3>2. CASE jobs'[worker[w].row] = jobs[worker[w].row]
        BY <2>2, <3>1, <3>2 DEF TokenOrder, HoldsLease
      <3>3. CASE Due(worker[w].row) /\ jobs'[worker[w].row].status = "failed"
        BY <2>2, <3>1, <3>3, DueTokensOld DEF TokenOrder, HoldsLease
      <3> QED
        BY <1>2, <3>1, <3>2, <3>3
    <2> QED
      BY <2>1, <2>2 DEF TokenOrder
  <1> QED
    BY <1>3, <1>4, <1>5, <1>6

LEMMA LeasedRow ==
  ASSUME QueueInv, NEW r \in Row, Claimable(r)
  PROVE  /\ Leased(r) \in JobType /\ Leased(r).status = "running" /\ Leased(r).lockedAt = now
         /\ Leased(r).attempts = jobs[r].attempts + 1 /\ Leased(r).key = jobs[r].key
         /\ jobs[r].attempts + 1 \in 1..MaxAttempts
  <1>1. /\ jobs[r] \in JobType /\ now \in Nat /\ jobs[r].attempts \in 0..MaxAttempts
        /\ jobs[r].attempts < MaxAttempts
    BY DEF QueueInv, TypeOK, JobType, Claimable
  <1>2. jobs[r].attempts + 1 \in 1..MaxAttempts /\ jobs[r].attempts + 1 \in 0..MaxAttempts
    BY <1>1, TimingAssumption
  <1> QED
    BY <1>1, <1>2 DEF Leased, JobType, Status

LEMMA LeaseStep ==
  ASSUME QueueInv, NEW w \in Worker, NEW r \in Row, Claimable(r),
         worker[w].phase = "idle",
         jobs' = [Buried EXCEPT ![r] = Leased(r)],
         worker' = [worker EXCEPT ![w] =
               [phase |-> "claimed", row |-> r, token |-> now,
                attempt |-> jobs[r].attempts + 1]],
         UNCHANGED <<caller, done, now, revived>>
  PROVE  QueueInv'
  <1> USE DEF QueueInv
  <1>1. /\ Due(r) /\ Buried[r] = jobs[r] /\ jobs[r] \in JobType /\ now \in Nat
        /\ jobs[r].attempts \in 0..MaxAttempts /\ jobs[r].attempts < MaxAttempts
    <2>1. Due(r) /\ jobs[r] \in JobType /\ now \in Nat /\ jobs[r].attempts < MaxAttempts
      BY DEF Claimable, TypeOK
    <2>2. jobs[r].attempts \in 0..MaxAttempts
      BY <2>1 DEF JobType
    <2>3. ~Exhausted(r)
      BY <2>1, <2>2, TimingAssumption DEF Exhausted
    <2> QED
      BY <2>1, <2>2, <2>3 DEF Buried
  <1>2. /\ jobs'[r] = Leased(r)
        /\ \A q \in Row \ {r} : jobs'[q] = Buried[q]
    <2>1. Buried \in [Row -> JobType]
      BY BuriedRow DEF Buried
    <2> QED
      BY <2>1
  <1>3. jobs[r].attempts + 1 \in 1..MaxAttempts
    BY LeasedRow
  <1>4. jobs'[r] \in JobType /\ jobs'[r].status = "running" /\ jobs'[r].lockedAt = now
        /\ jobs'[r].attempts = jobs[r].attempts + 1 /\ jobs'[r].key = jobs[r].key
    BY <1>2, LeasedRow
  <1>5. TypeOK'
    <2>1. jobs' \in [Row -> JobType]
      BY <1>2, <1>4, BuriedRow DEF Buried
    <2>2. worker' \in [Worker -> WorkerType]
      BY <1>1, <1>3 DEF TypeOK, WorkerType, Busy
    <2> QED
      BY <2>1, <2>2 DEF TypeOK
  <1>6. \A q \in Row \ {r} :
          /\ jobs'[q].key = jobs[q].key
          /\ \/ jobs'[q] = jobs[q]
             \/ /\ Due(q)
                /\ jobs'[q].status = "failed" /\ jobs'[q].lockedAt = None
                /\ jobs'[q].completedAt = now
    BY <1>2, BuriedRow
  <1>7. RowShape' /\ SucceededRan'
    BY <1>1, <1>3, <1>4, <1>6, KeyAssumption DEF RowShape, SucceededRan, Finished
  <1>8. ASSUME NEW v \in Worker, v # w, worker[v].phase # "idle", worker[v].row = r
        PROVE  worker[v].token \in Nat /\ worker[v].token < now
    BY <1>1, <1>8, DueTokensOld DEF TypeOK, WorkerType, Busy
  <1>9. /\ \A v \in Worker \ {w} : worker'[v] = worker[v]
        /\ worker'[w] = [phase |-> "claimed", row |-> r, token |-> now,
                         attempt |-> jobs[r].attempts + 1]
    BY DEF TypeOK
  <1>10. LeaseExclusive'
    <2> SUFFICES ASSUME NEW u \in Worker, NEW v \in Worker, u # v,
                        HoldsLease(u)', HoldsLease(v)', worker'[u].row = worker'[v].row
                 PROVE  FALSE
      BY DEF LeaseExclusive
    <2>1. ASSUME NEW x \in Worker \ {w} PROVE ~(HoldsLease(x)' /\ worker'[x].row = r)
      BY <1>1, <1>4, <1>8, <1>9, <2>1 DEF HoldsLease
    <2>2. u # w /\ v # w
      BY <2>1, <1>9
    <2>3. worker[u].row \in Row \ {r}
      BY <2>1, <2>2, <1>9 DEF TypeOK, WorkerType, HoldsLease
    <2>4. HoldsLease(u) /\ HoldsLease(v)
      BY <1>6, <1>9, <2>2, <2>3 DEF HoldsLease
    <2> QED
      BY <1>9, <2>2, <2>4 DEF LeaseExclusive
  <1>11. TokenOrder'
    <2>1. \A q \in Row :
            /\ jobs'[q].status = "running" => jobs'[q].lockedAt <= now
            /\ jobs'[q].status = "canceled" => jobs'[q].key \notin RetryKeys \union FileKeys
      BY <1>1, <1>4, <1>6 DEF TokenOrder
    <2> DEFINE Ordered(v) ==
          LET job == jobs'[worker'[v].row] IN
            /\ job.status # "absent"
            /\ worker'[v].token <= now
            /\ job.status = "running" => worker'[v].token <= job.lockedAt
            /\ job.status \in {"pending"} \union Finished => worker'[v].token < now
            /\ HoldsLease(v)' => job.attempts <= worker'[v].attempt
            /\ HoldsLease(v)' /\ worker'[v].phase = "succeeding" => worker'[v].row \in done
    <2>2. Ordered(w)
      BY <1>1, <1>3, <1>4, <1>9 DEF HoldsLease, Finished
    <2>3. ASSUME NEW v \in Worker, v # w, worker[v].phase # "idle", worker[v].row = r
          PROVE  Ordered(v)
      BY <1>1, <1>4, <1>8, <1>9, <2>3 DEF HoldsLease, Finished
    <2>4. ASSUME NEW v \in Worker, v # w, worker[v].phase # "idle", worker[v].row # r
          PROVE  Ordered(v)
      <3>1. worker[v].row \in Row \ {r} /\ worker'[v] = worker[v]
        BY <1>9, <2>4 DEF TypeOK, WorkerType
      <3>2. CASE jobs'[worker[v].row] = jobs[worker[v].row]
        BY <2>4, <3>1, <3>2 DEF TokenOrder, HoldsLease
      <3>3. CASE Due(worker[v].row) /\ jobs'[worker[v].row].status = "failed"
        BY <2>4, <3>1, <3>3, DueTokensOld DEF TokenOrder, HoldsLease
      <3> QED
        BY <1>6, <3>1, <3>2, <3>3
    <2> QED
      BY <1>9, <2>1, <2>2, <2>3, <2>4 DEF TokenOrder
  <1> QED
    BY <1>5, <1>7, <1>10, <1>11

LEMMA ClaimStep ==
  ASSUME QueueInv, NEW w \in Worker, ClaimDueJobs(w)
  PROVE  QueueInv'
  <1>1. CASE \E r \in Row :
               /\ Claimable(r)
               /\ jobs' = [Buried EXCEPT ![r] = Leased(r)]
               /\ worker' = [worker EXCEPT ![w] =
                    [phase |-> "claimed", row |-> r, token |-> now,
                     attempt |-> jobs[r].attempts + 1]]
    BY <1>1, LeaseStep DEF ClaimDueJobs
  <1>2. CASE jobs' = Buried /\ UNCHANGED worker
    BY <1>2, BuryStep DEF ClaimDueJobs
  <1> QED
    BY <1>1, <1>2 DEF ClaimDueJobs

(* The completion writes, under the lease and without it. *)
LEMMA BusyWorker ==
  ASSUME QueueInv, NEW w \in Worker, worker[w].phase # "idle"
  PROVE  /\ worker[w] \in [phase : Busy, row : Row, token : Nat, attempt : 1..MaxAttempts]
         /\ jobs[worker[w].row] \in JobType /\ now \in Nat
  BY DEF QueueInv, TypeOK, WorkerType

LEMMA LostStep ==
  ASSUME QueueInv, NEW w \in Worker, worker' = [worker EXCEPT ![w] = Idle],
         UNCHANGED <<jobs, caller, done, now, revived>>
  PROVE  QueueInv'
  <1>1. Idle \in WorkerType /\ Idle.phase = "idle"
    BY DEF Idle, WorkerType
  <1>2. done \subseteq done' /\ done' \in SUBSET Row
    BY DEF QueueInv, TypeOK
  <1> QED
    BY <1>1, <1>2, WorkerStep

LEMMA SucceededStep ==
  ASSUME QueueInv, NEW w \in Worker, MarkJobSucceeded(w)
  PROVE  QueueInv'
  <1> DEFINE job == [jobs[worker[w].row] EXCEPT
                       !.status = "succeeded", !.lockedAt = None, !.completedAt = now]
  <1>1. worker[w].phase = "succeeding" /\ Complete(w, job)
    BY DEF MarkJobSucceeded
  <1>2. CASE HoldsLease(w)
    <2>1. worker[w].phase # "idle"
      BY <1>1
    <2>2. jobs[worker[w].row] \in JobType /\ now \in Nat /\ worker[w].row \in Row
      BY <2>1, BusyWorker
    <2>3. /\ job \in JobType /\ job.lockedAt = None
          /\ job.status = "succeeded" /\ job.completedAt # None
      BY <2>2, KeyAssumption DEF JobType, Status, Finished
    <2>4. worker[w].row \in done
      BY <1>1, <1>2, <2>1 DEF QueueInv, TokenOrder
    <2>5. /\ jobs' = [jobs EXCEPT ![worker[w].row] = job]
          /\ worker' = [worker EXCEPT ![w] = Idle]
          /\ UNCHANGED <<caller, done, now, revived>>
      BY <1>1, <1>2 DEF Complete
    <2> HIDE DEF job
    <2> QED
      BY <1>2, <2>3, <2>4, <2>5, CompletionStep
  <1>3. CASE ~HoldsLease(w)
    BY <1>1, <1>3, LostStep DEF Complete
  <1> QED
    BY <1>2, <1>3

LEMMA FailedStep ==
  ASSUME QueueInv, NEW w \in Worker, MarkJobFailed(w)
  PROVE  QueueInv'
  <1> DEFINE over == [jobs[worker[w].row] EXCEPT
                        !.status = "failed", !.lockedAt = None, !.completedAt = now]
             again == [jobs[worker[w].row] EXCEPT
                         !.status = "pending", !.lockedAt = None,
                         !.runAt = now + RetryDelay(worker[w].attempt)]
  <1>1. /\ worker[w].phase # "idle"
        /\ IF OutOfAttempts(w) THEN Complete(w, over) ELSE Complete(w, again)
    BY DEF MarkJobFailed
  <1>2. /\ jobs[worker[w].row] \in JobType /\ now \in Nat
        /\ worker[w].attempt \in 1..MaxAttempts
    BY <1>1, BusyWorker
  <1>3. CASE HoldsLease(w) /\ OutOfAttempts(w)
    <2>1. /\ over \in JobType /\ over.lockedAt = None
          /\ over.status = "failed" /\ over.completedAt # None
      BY <1>2, KeyAssumption DEF JobType, Status, Finished
    <2>2. /\ jobs' = [jobs EXCEPT ![worker[w].row] = over]
          /\ worker' = [worker EXCEPT ![w] = Idle]
          /\ UNCHANGED <<caller, done, now, revived>>
      BY <1>1, <1>3 DEF Complete
    <2> HIDE DEF over
    <2> QED
      BY <1>3, <2>1, <2>2, CompletionStep
  <1>4. CASE HoldsLease(w) /\ ~OutOfAttempts(w)
    <2>1. now + RetryDelay(worker[w].attempt) \in Nat
      BY <1>2, TimingAssumption
    <2>2. jobs[worker[w].row].attempts < MaxAttempts
      <3>1. jobs[worker[w].row].attempts <= worker[w].attempt
        BY <1>1, <1>4 DEF QueueInv, TokenOrder
      <3>2. worker[w].attempt < MaxAttempts
        BY <1>2, <1>4, TimingAssumption DEF OutOfAttempts
      <3> QED
        BY <1>2, <3>1, <3>2, TimingAssumption DEF JobType
    <2>3. /\ again \in JobType /\ again.lockedAt = None
          /\ again.status = "pending" /\ again.attempts = jobs[worker[w].row].attempts
      BY <1>2, <2>1 DEF JobType, Status
    <2>4. /\ jobs' = [jobs EXCEPT ![worker[w].row] = again]
          /\ worker' = [worker EXCEPT ![w] = Idle]
          /\ UNCHANGED <<caller, done, now, revived>>
      BY <1>1, <1>4 DEF Complete
    <2> HIDE DEF again
    <2> QED
      BY <1>4, <2>2, <2>3, <2>4, CompletionStep
  <1>5. CASE ~HoldsLease(w)
    BY <1>1, <1>5, LostStep DEF Complete
  <1> QED
    BY <1>3, <1>4, <1>5

(* The steps of a drain that touch only what the invocation remembers. *)
LEMMA MoveStep ==
  ASSUME QueueInv, NEW w \in Worker,
         \/ DeadlineElapsed(w) \/ UnknownType(w) \/ StartHandler(w)
         \/ HandlerReturns(w) \/ HandlerFails(w)
  PROVE  QueueInv'
  <1>1. /\ worker[w].phase # "idle"
        /\ \E ph \in Busy, a \in {worker[w].attempt, MaxAttempts} :
             /\ worker' = [worker EXCEPT ![w] = [worker[w] EXCEPT !.phase = ph, !.attempt = a]]
             /\ ph = "succeeding" => worker[w].row \in done'
    <2>1. worker[w].phase # "idle"
      BY DEF DeadlineElapsed, UnknownType, StartHandler, HandlerReturns, HandlerFails, MoveTo
    <2>2. worker[w] \in [phase : Busy, row : Row, token : Nat, attempt : 1..MaxAttempts]
      BY <2>1, BusyWorker
    <2>3. \A ph : [worker[w] EXCEPT !.phase = ph]
                 = [worker[w] EXCEPT !.phase = ph, !.attempt = worker[w].attempt]
      BY <2>2
    <2>4. CASE DeadlineElapsed(w) \/ HandlerFails(w)
      BY <2>1, <2>3, <2>4 DEF DeadlineElapsed, HandlerFails, MoveTo, Busy
    <2>5. CASE UnknownType(w)
      BY <2>1, <2>5 DEF UnknownType, Busy
    <2>6. CASE StartHandler(w)
      BY <2>1, <2>3, <2>6 DEF StartHandler, MoveTo, Busy
    <2>7. CASE HandlerReturns(w)
      BY <2>1, <2>3, <2>7 DEF HandlerReturns, MoveTo, Busy
    <2> QED
      BY <2>1, <2>4, <2>5, <2>6, <2>7
  <1>2. PICK ph \in Busy, a \in {worker[w].attempt, MaxAttempts} :
             /\ worker' = [worker EXCEPT ![w] = [worker[w] EXCEPT !.phase = ph, !.attempt = a]]
             /\ ph = "succeeding" => worker[w].row \in done'
    BY <1>1
  <1> DEFINE x == [worker[w] EXCEPT !.phase = ph, !.attempt = a]
  <1>3. worker[w] \in [phase : Busy, row : Row, token : Nat, attempt : 1..MaxAttempts]
    BY <1>1, BusyWorker
  <1>4. a \in 1..MaxAttempts /\ a >= worker[w].attempt
    BY <1>3, TimingAssumption
  <1>5. /\ x \in WorkerType /\ x.row = worker[w].row /\ x.token = worker[w].token
        /\ x.attempt = a /\ x.phase = ph
    BY <1>3, <1>4 DEF WorkerType
  <1>6. /\ UNCHANGED <<jobs, caller, now, revived>>
        /\ done \subseteq done' /\ done' \in SUBSET Row
    BY <1>3 DEF QueueInv, TypeOK, DeadlineElapsed, UnknownType, StartHandler, HandlerReturns,
                HandlerFails, MoveTo
  <1> HIDE DEF x
  <1> QED
    BY <1>1, <1>2, <1>4, <1>5, <1>6, WorkerStep DEF x

LEMMA RequestStep ==
  ASSUME QueueInv, Request
  PROVE  QueueInv'
  <1>0. TypeOK /\ now \in Nat /\ now + 0 \in Nat /\ now + Delay \in Nat
    BY TimingAssumption DEF QueueInv, TypeOK
  <1>1. ASSUME NEW k \in PlainKeys \union ErasureKeys \union {NoKey}, Enqueue(k)
        PROVE  QueueInv'
    <2>1. PICK d \in {0, Delay} : InsertOrNothing(k, now + d)
      BY <1>1 DEF Enqueue
    <2>2. now + d \in Nat
      BY <1>0
    <2>3. k \in Keys \union {NoKey}
      BY DEF Keys
    <2>4. UNCHANGED <<worker, caller, done, now, revived>>
      BY <1>1 DEF Enqueue
    <2> QED
      BY <1>0, <2>1, <2>2, <2>3, <2>4, InsertStep DEF TypeOK
  <1>2. ASSUME NEW c \in Caller, NEW k \in RetryKeys \union FileKeys, ReviveStatement(c, k)
        PROVE  QueueInv'
    <2>1. CASE \E r \in Row :
          /\ Revives(r, k)
          /\ revived < MaxRevive
          /\ revived' = revived + 1
          /\ jobs' = [jobs EXCEPT ![r] =
               [@ EXCEPT !.status = "pending", !.attempts = 0, !.runAt = now,
                         !.lockedAt = None, !.completedAt = None]]
          /\ done' = done \ {r}
          /\ UNCHANGED caller
      <3>1. revived \in 0..MaxRevive /\ revived < MaxRevive /\ revived' = revived + 1
        BY <1>0, <2>1 DEF TypeOK
      <3>2. revived' \in 0..MaxRevive
        BY <3>1, TimingAssumption
      <3> QED
        BY <1>2, <2>1, <3>2, ReviveStep DEF ReviveStatement
    <2>2. CASE /\ caller' = [caller EXCEPT ![c] = k]
               /\ UNCHANGED <<jobs, done, revived>>
      <3>1. caller' \in [Caller -> RetryKeys \union FileKeys \union {NoKey}]
        BY <1>0, <2>2 DEF TypeOK
      <3>2. UNCHANGED <<jobs, worker, done, now, revived>>
        BY <1>2, <2>2 DEF ReviveStatement
      <3> QED
        BY <3>1, <3>2 DEF QueueInv, TypeOK, RowShape, LeaseExclusive, SucceededRan, TokenOrder,
                          HoldsLease
    <2> QED
      BY <1>2, <2>1, <2>2 DEF ReviveStatement
  <1>3. ASSUME NEW c \in Caller, InsertStatement(c)
        PROVE  QueueInv'
    <2>1. caller[c] \in Keys \union {NoKey}
      BY <1>0 DEF TypeOK, Keys
    <2>2. /\ InsertOrNothing(caller[c], now)
          /\ caller' = [caller EXCEPT ![c] = NoKey]
          /\ UNCHANGED <<worker, done, now, revived>>
      BY <1>3 DEF InsertStatement
    <2>3. caller' \in [Caller -> RetryKeys \union FileKeys \union {NoKey}]
      BY <1>0, <2>2 DEF TypeOK
    <2> QED
      BY <1>0, <2>1, <2>2, <2>3, InsertStep
  <1> QED
    BY <1>1, <1>2, <1>3, CancelStep, ScrubStep DEF Request

THEOREM NextQueueInv == QueueInv /\ [Next]_vars => QueueInv'
  <1> SUFFICES ASSUME QueueInv, [Next]_vars PROVE QueueInv'
    OBVIOUS
  <1>1. CASE Request
    BY <1>1, RequestStep
  <1>2. ASSUME NEW w \in Worker, Drain(w) PROVE QueueInv'
    BY <1>2, ClaimStep, MoveStep, SucceededStep, FailedStep DEF Drain
  <1>3. ASSUME NEW w \in Worker, Crash(w) PROVE QueueInv'
    BY <1>3, LostStep DEF Crash
  <1>4. CASE PruneFinishedJobs
    BY <1>4, PruneStep
  <1>5. CASE Tick
    BY <1>5, TickStep
  <1>6. CASE UNCHANGED vars
    BY <1>6 DEF vars, QueueInv, TypeOK, RowShape, LeaseExclusive, SucceededRan, TokenOrder,
                HoldsLease
  <1> QED
    BY <1>1, <1>2, <1>3, <1>4, <1>5, <1>6 DEF Next

-----------------------------------------------------------------------------
(* The strengthened invariant, and what a reader wants from it. *)

(* At every moment the table, the invocations and the clock agree as       *)
(* QueueInv says, for any number of rows, invocations and callers.         *)
THEOREM AlwaysQueueInv == Spec => []QueueInv
  BY InitQueueInv, NextQueueInv, PTL DEF Spec

(* Two invocations never hold the lease of one job.                        *)
THEOREM AlwaysLeaseExclusive == Spec => []LeaseExclusive
  <1>1. QueueInv => LeaseExclusive
    BY DEF QueueInv
  <1> QED
    BY <1>1, AlwaysQueueInv, PTL

(* No job spends more attempts than it has, and a finished job carries no  *)
(* lease.                                                                  *)
THEOREM AlwaysRowShape == Spec => []RowShape
  <1>1. QueueInv => RowShape
    BY DEF QueueInv
  <1> QED
    BY <1>1, AlwaysQueueInv, PTL

(* A job is recorded as succeeded only after its handler ran to the end.   *)
THEOREM AlwaysSucceededRan == Spec => []SucceededRan
  <1>1. QueueInv => SucceededRan
    BY DEF QueueInv
  <1> QED
    BY <1>1, AlwaysQueueInv, PTL

-----------------------------------------------------------------------------
(* What a step may do to one row, and with it the two action properties    *)
(* and the refinement of DurableJob.                                       *)

Kept(r) == /\ jobs'[r] = jobs[r]
           /\ r \in done => r \in done'
           /\ r \in done' => r \in done \/ jobs[r].status # "absent"

(* Every other step leaves the record of completed handlers alone. *)
Inserted(r) == /\ jobs[r].status = "absent"
               /\ jobs'[r].status = "pending" /\ jobs'[r].attempts = 0

Revived(r) == /\ jobs[r].status \in Revivable(jobs[r].key)
              /\ jobs'[r].status = "pending" /\ jobs'[r].attempts = 0
              /\ r \notin done'

Canceled(r) == /\ jobs[r].status \notin {"absent", "pruned"}
               /\ jobs[r].status \in Finished \union {"canceled"} => jobs[r].key \in ErasureKeys
               /\ jobs'[r].status = "canceled" /\ jobs'[r].attempts = jobs[r].attempts

LostKey(r) == /\ jobs'[r].status = jobs[r].status /\ jobs'[r].attempts = jobs[r].attempts
              /\ jobs'[r].lockedAt = jobs[r].lockedAt

Taken(r) == /\ Claimable(r)
            /\ jobs'[r].status = "running" /\ jobs'[r].attempts = jobs[r].attempts + 1

Dropped(r) == /\ Exhausted(r)
              /\ jobs'[r].status = "failed" /\ jobs'[r].attempts = jobs[r].attempts

Completed(r) == /\ \E w \in Worker : HoldsLease(w) /\ worker[w].row = r /\ worker'[w] = Idle
                /\ jobs'[r].status \in {"succeeded", "failed", "pending"}
                /\ jobs'[r].status = "succeeded" => r \in done
                /\ jobs'[r].attempts = jobs[r].attempts

Forgotten(r) == /\ jobs[r].status \in Finished
                /\ jobs'[r].status = "pruned" /\ jobs'[r].attempts = jobs[r].attempts

RowMove(r) ==
  \/ Kept(r)
  \/ Revived(r)
  \/ /\ done' = done
     /\ \/ Inserted(r) \/ Canceled(r) \/ LostKey(r) \/ Taken(r) \/ Dropped(r)
        \/ Completed(r) \/ Forgotten(r)

LEMMA RequestMoves == ASSUME TypeOK, Request, NEW r \in Row PROVE RowMove(r)
  <1>1. ASSUME NEW k, NEW t, InsertOrNothing(k, t), done' = done PROVE RowMove(r)
    BY <1>1 DEF InsertOrNothing, RowMove, Kept, Inserted, TypeOK
  <1>2. ASSUME NEW c \in Caller, NEW k \in RetryKeys \union FileKeys, ReviveStatement(c, k)
        PROVE  RowMove(r)
    <2>1. CASE jobs' = jobs /\ done' = done
      BY <2>1 DEF RowMove, Kept
    <2>2. ASSUME NEW q \in Row, Revives(q, k), done' = done \ {q},
                 jobs' = [jobs EXCEPT ![q] =
                   [@ EXCEPT !.status = "pending", !.attempts = 0, !.runAt = now,
                             !.lockedAt = None, !.completedAt = None]]
          PROVE  RowMove(r)
      <3>1. CASE q = r
        BY <2>2, <3>1 DEF Revives, RowMove, Revived, TypeOK, JobType
      <3>2. CASE q # r
        BY <2>2, <3>2 DEF RowMove, Kept, TypeOK
      <3> QED  BY <3>1, <3>2
    <2> QED  BY <1>2, <2>1, <2>2 DEF ReviveStatement
  <1>3. ASSUME NEW k \in ErasureKeys, CancelScheduledErasure(k) PROVE RowMove(r)
    BY <1>3 DEF CancelScheduledErasure, Present, RowMove, Kept, Canceled, TypeOK, JobType
  <1>4. ASSUME NEW e \in Row, NEW S \in SUBSET (Row \ {e}), ScrubSubject(e, S) PROVE RowMove(r)
    <2>1. CASE r = e
      BY <1>4, <2>1 DEF ScrubSubject, RowMove, LostKey, TypeOK, JobType
    <2>2. CASE r \in S
      <3>1. done' = done /\ jobs'[r] = Scrubbed(r)
        BY <1>4, <2>2 DEF ScrubSubject
      <3>2. CASE jobs[r].status \in {"pending", "running"}
        BY <3>1, <3>2 DEF Scrubbed, RowMove, Canceled, Finished, TypeOK, JobType
      <3>3. CASE jobs[r].status \notin {"pending", "running"}
        BY <3>1, <3>3 DEF Scrubbed, RowMove, LostKey, TypeOK, JobType
      <3> QED  BY <3>2, <3>3
    <2>3. CASE r # e /\ r \notin S
      BY <1>4, <2>3 DEF ScrubSubject, RowMove, Kept
    <2> QED  BY <2>1, <2>2, <2>3
  <1> QED
    BY <1>1, <1>2, <1>3, <1>4 DEF Request, Enqueue, InsertStatement

LEMMA ClaimMoves ==
  ASSUME TypeOK, NEW w \in Worker, ClaimDueJobs(w), NEW r \in Row
  PROVE  RowMove(r)
  <1>1. done' = done
    BY DEF ClaimDueJobs
  <1>2. \/ jobs'[r] = Buried[r]
        \/ Claimable(r) /\ jobs'[r] = Leased(r)
    BY DEF ClaimDueJobs, TypeOK, Buried
  <1>3. CASE Claimable(r) /\ jobs'[r] = Leased(r)
    BY <1>1, <1>3 DEF Leased, RowMove, Taken, TypeOK, JobType
  <1>4. CASE Exhausted(r) /\ jobs'[r] = Buried[r]
    BY <1>1, <1>4 DEF Buried, RowMove, Dropped, TypeOK, JobType
  <1>5. CASE ~Exhausted(r) /\ jobs'[r] = Buried[r]
    BY <1>1, <1>5 DEF Buried, RowMove, Kept
  <1> QED  BY <1>2, <1>3, <1>4, <1>5

LEMMA CompleteMoves ==
  ASSUME QueueInv, NEW w \in Worker, MarkJobSucceeded(w) \/ MarkJobFailed(w), NEW r \in Row
  PROVE  RowMove(r)
  <1>1. done' = done /\ worker' = [worker EXCEPT ![w] = Idle]
    BY DEF MarkJobSucceeded, MarkJobFailed, Complete
  <1>2. CASE jobs'[r] = jobs[r]
    BY <1>1, <1>2 DEF RowMove, Kept
  <1>3. CASE jobs'[r] # jobs[r]
    <2>1. HoldsLease(w) /\ worker[w].row = r
      BY <1>3 DEF MarkJobSucceeded, MarkJobFailed, Complete, QueueInv, TypeOK
    <2>2. /\ jobs'[r].status \in {"succeeded", "failed", "pending"}
          /\ jobs'[r].attempts = jobs[r].attempts
          /\ jobs'[r].status = "succeeded" => worker[w].phase = "succeeding"
      <3> USE DEF Complete, QueueInv, TypeOK, JobType
      <3>1. CASE MarkJobSucceeded(w)
        BY <2>1, <3>1 DEF MarkJobSucceeded
      <3>2. CASE MarkJobFailed(w)
        <4>1. CASE OutOfAttempts(w)
          <5>1. jobs'[r] = [jobs[r] EXCEPT !.status = "failed", !.lockedAt = None,
                              !.completedAt = now]
            BY <2>1, <3>2, <4>1 DEF MarkJobFailed
          <5> QED  BY <5>1
        <4>2. ASSUME NEW t, NEW job, job = [jobs[r] EXCEPT !.status = "pending",
                       !.lockedAt = None, !.runAt = t]
              PROVE  job.status = "pending" /\ job.attempts = jobs[r].attempts
          BY <4>2
        <4>3. CASE ~OutOfAttempts(w)
          <5>1. jobs'[r] = [jobs[r] EXCEPT !.status = "pending", !.lockedAt = None,
                              !.runAt = now + RetryDelay(worker[w].attempt)]
            BY <2>1, <3>2, <4>3 DEF MarkJobFailed
          <5> QED  BY <4>2, <5>1
        <4> QED  BY <4>1, <4>3
      <3> QED  BY <3>1, <3>2
    <2>3. jobs'[r].status = "succeeded" => r \in done
      BY <2>1, <2>2 DEF QueueInv, TokenOrder, HoldsLease
    <2> QED
      BY <1>1, <2>1, <2>2, <2>3 DEF RowMove, Completed, QueueInv, TypeOK
  <1> QED  BY <1>2, <1>3

LEMMA StepMoves == ASSUME QueueInv, [Next]_vars, NEW r \in Row PROVE RowMove(r)
  <1>1. ASSUME NEW w \in Worker, Drain(w) PROVE RowMove(r)
    <2>1. CASE DeadlineElapsed(w) \/ UnknownType(w) \/ StartHandler(w)
      BY <2>1 DEF DeadlineElapsed, UnknownType, StartHandler, RowMove, Kept
    <2>2. CASE HandlerReturns(w) \/ HandlerFails(w)
      <3>1. jobs' = jobs /\ done \subseteq done' /\ done' \subseteq done \union {worker[w].row}
        BY <2>2 DEF HandlerReturns, HandlerFails
      <3>2. jobs[worker[w].row].status # "absent"
        BY <2>2 DEF HandlerReturns, HandlerFails, MoveTo, QueueInv, TokenOrder
      <3> QED  BY <3>1, <3>2 DEF RowMove, Kept
    <2> QED
      BY <1>1, <2>1, <2>2, ClaimMoves, CompleteMoves DEF Drain, QueueInv
  <1>2. ASSUME NEW w \in Worker, Crash(w) PROVE RowMove(r)
    BY <1>2 DEF Crash, RowMove, Kept
  <1>3. CASE PruneFinishedJobs
    BY <1>3 DEF PruneFinishedJobs, Prunable, RowMove, Kept, Forgotten, QueueInv, TypeOK, JobType
  <1>4. CASE Tick \/ UNCHANGED vars
    BY <1>4 DEF Tick, vars, RowMove, Kept
  <1> QED
    BY <1>1, <1>2, <1>3, <1>4, RequestMoves DEF Next, QueueInv

(* A live lease is ended only by its holder or by a cancellation.          *)
THEOREM AlwaysLiveLeaseKept == Spec => LiveLeaseKept
  <1>1. ASSUME QueueInv, [Next]_vars, NEW r \in Row,
               jobs[r].status = "running", now - jobs[r].lockedAt <= StaleLock,
               <<jobs'[r].status, jobs'[r].lockedAt>> # <<jobs[r].status, jobs[r].lockedAt>>
        PROVE  \/ jobs'[r].status = "canceled"
               \/ \E w \in Worker : HoldsLease(w) /\ worker[w].row = r /\ worker'[w] = Idle
    <2>1. jobs[r].lockedAt \in Nat /\ now \in Nat /\ StaleLock \in Nat
      BY <1>1, TimingAssumption DEF QueueInv, TypeOK, JobType, RowShape
    <2>2. ~Due(r)
      BY <1>1, <2>1 DEF Due, LeaseExpired
    <2>3. RowMove(r)
      BY <1>1, StepMoves
    <2> QED
      BY <1>1, <2>2, <2>3 DEF RowMove, Kept, Inserted, Revived, Revivable, Finished, Canceled,
         LostKey, Taken, Claimable, Dropped, Exhausted, Completed, Forgotten
  <1>2. QueueInv /\ [Next]_vars =>
          \A r \in Row :
            /\ jobs[r].status = "running"
            /\ now - jobs[r].lockedAt <= StaleLock
            /\ <<jobs'[r].status, jobs'[r].lockedAt>> # <<jobs[r].status, jobs[r].lockedAt>>
            => \/ jobs'[r].status = "canceled"
               \/ \E w \in Worker : HoldsLease(w) /\ worker[w].row = r /\ worker'[w] = Idle
    BY <1>1
  <1> QED
    BY <1>2, AlwaysQueueInv, PTL DEF Spec, LiveLeaseKept

(* A late worker never reopens or rewrites a finished job.                 *)
THEOREM AlwaysFinishedStays == Spec => FinishedStays
  <1>1. ASSUME QueueInv, [Next]_vars, NEW r \in Row,
               jobs[r].status \in Finished \union {"canceled"},
               jobs'[r].status # jobs[r].status
        PROVE  \/ jobs'[r].status = "pruned"
               \/ jobs'[r].status = "canceled" /\ jobs[r].key \in ErasureKeys
               \/ /\ jobs'[r].status = "pending"
                  /\ jobs'[r].attempts = 0
                  /\ jobs[r].status \in Revivable(jobs[r].key)
    <2>1. RowMove(r)
      BY <1>1, StepMoves
    <2>2. ~Due(r) /\ ~\E w \in Worker : HoldsLease(w) /\ worker[w].row = r
      BY <1>1 DEF Due, HoldsLease, Finished
    <2> QED
      BY <1>1, <2>1, <2>2 DEF RowMove, Kept, Inserted, Revived, Canceled, LostKey, Taken,
         Claimable, Dropped, Exhausted, Completed, Forgotten, Finished
  <1>2. QueueInv /\ [Next]_vars =>
          \A r \in Row :
            jobs[r].status \in Finished \union {"canceled"} /\ jobs'[r].status # jobs[r].status
            => \/ jobs'[r].status = "pruned"
               \/ jobs'[r].status = "canceled" /\ jobs[r].key \in ErasureKeys
               \/ /\ jobs'[r].status = "pending"
                  /\ jobs'[r].attempts = 0
                  /\ jobs[r].status \in Revivable(jobs[r].key)
    BY <1>1
  <1> QED
    BY <1>2, AlwaysQueueInv, PTL DEF Spec, FinishedStays

-----------------------------------------------------------------------------
(* The refinement of DurableJob. *)

(* No handler has run for a row that was never inserted.                   *)
DoneWasInserted == \A r \in Row : r \in done => jobs[r].status # "absent"

LEMMA DoneStep == QueueInv /\ DoneWasInserted /\ [Next]_vars => DoneWasInserted'
  <1> SUFFICES ASSUME QueueInv, DoneWasInserted, [Next]_vars, NEW r \in Row, r \in done'
               PROVE  jobs'[r].status # "absent"
    BY DEF DoneWasInserted
  <1>1. RowMove(r)
    BY StepMoves
  <1> QED
    BY <1>1 DEF RowMove, Kept, Inserted, Revived, Canceled, LostKey, Taken, Dropped,
       Completed, Forgotten, DoneWasInserted

Life == [r \in Row |-> LifeOf(r)]

(* What a status looks like from outside. *)
Seen(s) == CASE s \in {"pending", "running"} -> "open"
             [] s = "pruned" -> "gone"
             [] OTHER -> s

LEMMA SeenStatus ==
  /\ Seen("pending") = "open" /\ Seen("running") = "open" /\ Seen("pruned") = "gone"
  /\ Seen("absent") = "absent" /\ Seen("canceled") = "canceled"
  /\ Seen("succeeded") = "succeeded" /\ Seen("failed") = "failed"
  BY DEF Seen

LEMMA LifeSeen ==
  ASSUME NEW r \in Row
  PROVE  LifeOf(r) = [state |-> Seen(jobs[r].status), used |-> jobs[r].attempts, ran |-> r \in done]
  BY DEF LifeOf, Seen

LEMMA LifeSeenNext ==
  ASSUME NEW r \in Row
  PROVE  LifeOf(r)' =
           [state |-> Seen(jobs'[r].status), used |-> jobs'[r].attempts, ran |-> r \in done']
  BY DEF LifeOf, Seen

LEMMA LifeTyped ==
  ASSUME NEW s \in Status, NEW n \in 0..MaxAttempts, NEW b \in BOOLEAN
  PROVE  [state |-> Seen(s), used |-> n, ran |-> b] \in Promise!LifeType
  BY SeenStatus DEF Promise!LifeType, Promise!Over, Status, Finished

LEMMA RecordRan ==
  ASSUME NEW s, NEW n, NEW ran, NEW x
  PROVE  [[state |-> s, used |-> n, ran |-> ran] EXCEPT !.ran = x]
           = [state |-> s, used |-> n, ran |-> x]
  OBVIOUS

(* One row: each move is a step of its life, or none.                      *)
LEMMA LifeStep ==
  ASSUME QueueInv, DoneWasInserted, [Next]_vars, NEW r \in Row
  PROVE  LifeOf(r)' = LifeOf(r) \/ Promise!Step(LifeOf(r), LifeOf(r)')
  <1> DEFINE s == jobs[r].status   n == jobs[r].attempts
             t == jobs'[r].status  m == jobs'[r].attempts
             ran == (r \in done)   ranNext == (r \in done')
  <1>t. n \in 0..MaxAttempts /\ MaxAttempts \in Nat \ {0} /\ s \in Status
    BY TimingAssumption DEF QueueInv, TypeOK, JobType
  <1>l. /\ LifeOf(r) = [state |-> Seen(s), used |-> n, ran |-> ran]
        /\ LifeOf(r)' = [state |-> Seen(t), used |-> m, ran |-> ranNext]
    BY LifeSeen, LifeSeenNext
  <1>d. done' = done => ranNext = ran
    OBVIOUS
  <1>r. /\ r \in done => ran = TRUE
        /\ r \in done' => ranNext = TRUE
        /\ r \notin done' => ranNext = FALSE
    BY SMT
  <1>k. Kept(r) => ranNext = ran \/ (ranNext = TRUE /\ s # "absent")
    BY SMT DEF Kept
  <1> HIDE DEF ran, ranNext
  <1>1. CASE Kept(r)
    <2>1. t = s /\ m = n
      BY <1>1 DEF Kept
    <2>2. CASE ranNext = ran
      BY <1>l, <2>1, <2>2
    <2>3. CASE ranNext # ran
      <3>1. ranNext = TRUE /\ s # "absent"
        BY <1>1, <2>3, <1>k
      <3>2. Seen(s) # "absent"
        BY <1>t, <3>1, SeenStatus DEF Status, Finished
      <3>3. LifeOf(r).state # "absent"
        BY <1>l, <3>2
      <3>4. LifeOf(r)' = [LifeOf(r) EXCEPT !.ran = ranNext]
        BY <1>l, <2>1, RecordRan
      <3>5. LifeOf(r)' = [LifeOf(r) EXCEPT !.ran = TRUE]
        BY <3>1, <3>4, Zenon
      <3> QED  BY <3>3, <3>5, Zenon DEF Promise!Step, Promise!Run
    <2> QED  BY <2>2, <2>3
  <1>2. CASE Revived(r)
    <2>1. s \in Promise!Over /\ t = "pending" /\ m = 0
      BY <1>2 DEF Revived, Revivable, Finished, Promise!Over
    <2>2. ranNext = FALSE
      BY <1>2, <1>r DEF Revived
    <2>3. LifeOf(r)' = [state |-> "open", used |-> 0, ran |-> FALSE]
      BY <1>l, <2>1, <2>2, SeenStatus, Zenon
    <2>4. LifeOf(r).state \in Promise!Over
      BY <1>l, <2>1, SeenStatus DEF Promise!Over
    <2> QED  BY <2>3, <2>4, Zenon DEF Promise!Step, Promise!Revive
  <1>3. ASSUME done' = done, Inserted(r)
        PROVE  Promise!Submit(LifeOf(r), LifeOf(r)')
    <2>1. s = "absent" /\ t = "pending" /\ m = 0
      BY <1>3 DEF Inserted
    <2>2. ranNext = FALSE
      BY <1>3, <2>1, <1>r DEF DoneWasInserted
    <2>3. LifeOf(r)' = [state |-> "open", used |-> 0, ran |-> FALSE]
      BY <1>l, <2>1, <2>2, SeenStatus, Zenon
    <2>4. LifeOf(r).state = "absent"
      BY <1>l, <2>1, SeenStatus
    <2> QED  BY <2>3, <2>4, Zenon DEF Promise!Submit
  <1>4. ASSUME done' = done, Canceled(r)
        PROVE  Promise!Cancel(LifeOf(r), LifeOf(r)')
    <2>1. s \notin {"absent", "pruned"} /\ t = "canceled" /\ m = n
      BY <1>4 DEF Canceled
    <2> QED  BY <1>4, <1>t, <1>l, <1>d, <2>1, SeenStatus DEF Promise!Cancel, Status, Finished
  <1>5. ASSUME done' = done, LostKey(r)
        PROVE  LifeOf(r)' = LifeOf(r)
    BY <1>5, <1>l, <1>d DEF LostKey
  <1>6. ASSUME done' = done, Taken(r)
        PROVE  Promise!Attempt(LifeOf(r), LifeOf(r)')
    <2>1. s \in {"pending", "running"} /\ n < MaxAttempts /\ t = "running" /\ m = n + 1
      BY <1>6 DEF Taken, Claimable, Due
    <2> QED  BY <1>6, <1>l, <1>d, <2>1, SeenStatus DEF Promise!Attempt
  <1>7. ASSUME done' = done, Dropped(r)
        PROVE  Promise!Fail(LifeOf(r), LifeOf(r)')
    <2>1. s \in {"pending", "running"} /\ n > 0 /\ t = "failed" /\ m = n
      BY <1>7, <1>t DEF Dropped, Exhausted, Due
    <2> QED  BY <1>7, <1>l, <1>d, <2>1, SeenStatus DEF Promise!Fail
  <1>8. ASSUME done' = done, Completed(r)
        PROVE  \/ LifeOf(r)' = LifeOf(r)
               \/ Promise!Succeed(LifeOf(r), LifeOf(r)') \/ Promise!Fail(LifeOf(r), LifeOf(r)')
    <2>1. s = "running" /\ n > 0 /\ m = n /\ t \in {"succeeded", "failed", "pending"}
      BY <1>8 DEF Completed, HoldsLease, QueueInv, RowShape
    <2>2. t = "succeeded" => ran = TRUE
      BY <1>8, <1>r DEF Completed
    <2>3. CASE t = "pending"
      BY <1>8, <1>l, <1>d, <2>1, <2>3, SeenStatus
    <2>4. CASE t = "succeeded"
      <3>1. /\ LifeOf(r).state = "open" /\ LifeOf(r).used > 0
            /\ LifeOf(r)' = [LifeOf(r) EXCEPT !.state = "succeeded"]
        BY <1>8, <1>l, <1>d, <2>1, <2>4, SeenStatus
      <3>2. LifeOf(r).ran = TRUE
        BY <1>l, <2>2, <2>4
      <3> QED  BY <3>1, <3>2 DEF Promise!Succeed
    <2>5. CASE t = "failed"
      BY <1>8, <1>l, <1>d, <2>1, <2>5, SeenStatus DEF Promise!Fail
    <2> QED  BY <2>1, <2>3, <2>4, <2>5
  <1>9. ASSUME done' = done, Forgotten(r)
        PROVE  Promise!Forget(LifeOf(r), LifeOf(r)')
    <2>1. s \in {"succeeded", "failed"} /\ t = "pruned" /\ m = n
      BY <1>9 DEF Forgotten, Finished
    <2> QED  BY <1>9, <1>l, <1>d, <2>1, SeenStatus DEF Promise!Forget
  <1>10. RowMove(r)
    BY StepMoves
  <1> QED
    BY <1>1, <1>2, <1>3, <1>4, <1>5, <1>6, <1>7, <1>8, <1>9, <1>10 DEF RowMove, Promise!Step

(* Leases, backoff, sweeps and crashes implement the bounded, restartable  *)
(* job of DurableJob, row by row, for any number of rows and invocations.  *)
THEOREM QueueKeepsPromise == Spec => KeepsPromise
  <1>1. Init => Promise!Init /\ DoneWasInserted
    <2> SUFFICES ASSUME Init PROVE Promise!Init /\ DoneWasInserted
      OBVIOUS
    <2>1. ASSUME NEW r \in Row
          PROVE  LifeOf(r) = [state |-> "absent", used |-> 0, ran |-> FALSE]
      <3> DEFINE ran == (r \in done)
      <3>1. jobs[r].status = "absent" /\ jobs[r].attempts = 0
        BY DEF Init
      <3>2. ran = FALSE
        BY SMT DEF Init
      <3>3. LifeOf(r) = [state |-> Seen(jobs[r].status), used |-> jobs[r].attempts, ran |-> ran]
        BY LifeSeen
      <3> HIDE DEF ran
      <3> QED  BY <3>1, <3>2, <3>3, SeenStatus
    <2>2. Promise!Init
      BY <2>1 DEF Promise!Init
    <2> QED  BY <2>2 DEF Init, DoneWasInserted
  <1>2. QueueInv /\ QueueInv' /\ DoneWasInserted /\ [Next]_vars => [Promise!Next]_Life
    <2> SUFFICES ASSUME QueueInv, QueueInv', DoneWasInserted, [Next]_vars PROVE Promise!Next
      OBVIOUS
    <2>1. ASSUME NEW r \in Row PROVE LifeOf(r)' \in Promise!LifeType
      <3>1. jobs'[r].status \in Status /\ jobs'[r].attempts \in 0..MaxAttempts
        BY DEF QueueInv, TypeOK, JobType
      <3>2. (r \in done') \in BOOLEAN
        OBVIOUS
      <3> QED  BY <3>1, <3>2, LifeSeenNext, LifeTyped
    <2>2. Life' \in [Row -> Promise!LifeType]
      BY <2>1 DEF Life
    <2> QED
      BY <2>2, LifeStep DEF Promise!Next, Life
  <1> QED
    BY <1>1, <1>2, InitQueueInv, NextQueueInv, DoneStep, PTL
    DEF Spec, KeepsPromise, Promise!Spec, Life
=============================================================================
