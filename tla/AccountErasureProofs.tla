------------------------ MODULE AccountErasureProofs ------------------------
(***************************************************************************)
(* Proofs about AccountErasure for any number of requests, things and      *)
(* handlers, any delays, retries and faults.                               *)
(*                                                                         *)
(* Begun(r) is what makes an external effect legitimate: the request was   *)
(* due and nobody can cancel it any more.  It lasts, whatever other        *)
(* handlers do to the same request; so do the effects that were recorded,  *)
(* and the name of a document until its removal is due.                    *)
(***************************************************************************)
EXTENDS AccountErasure, TLAPS

Gone == user = "gone"

Begun(r) ==
  /\ request[r].status \notin {"absent", "scheduled"}
  /\ request[r].due =< now
  /\ ~Gone => ~Is(r, "canceled")

Exists(j) == job[j].state # "absent"

(* The row of the export knows its document, or its removal is due. *)
Named(e) == request[e].key \/ (Exists(ExpireJob(e)) /\ runAt[ExpireJob(e)] =< now)

RequestOK(r) ==
  /\ Exists(r) => ~Is(r, "absent")
  /\ r \in Export /\ Exists(ExpireJob(r)) => ~Is(r, "absent")
  /\ request[r].key => ~Is(r, "absent")
  /\ r \in Erasure /\ Exists(r) => runAt[r] = request[r].due
  /\ \A x \in request[r].done \intersect Thing : thing[x] \in Erasure
  /\ r \in Export /\ Is(r, "completed") /\ ~Gone => Named(r)
  /\ Gone => request[r].status \in {"absent", "completed", "canceled"}

ExportOK(e) == artifact[e] /\ ~Gone => Named(e)

ThingOK(x) ==
  /\ thing[x] \in Erasure => Begun(thing[x])
  /\ Gone => thing[x] # "there"
  /\ ~Gone => thing[x] # "orphan"

AtErasure == {"plan", "effect", "record", "finalize"}
AtExport == {"prepare", "put", "complete", "undo"}
AtExpiry == {"expire", "remove", "clear"}

HandlerOK(x) ==
  /\ x.pc # "idle" => x.job \in Job
  /\ x.pc = "begin" =>
       /\ x.job \in Request /\ ~Is(x.job, "absent") /\ x.todo = {}
       /\ x.job \in Erasure => request[x.job].due =< now
  /\ x.pc \in AtErasure =>
       /\ x.job \in Erasure /\ Begun(x.job)
       /\ \A y \in x.todo \intersect Thing : thing[y] \notin {"none", "orphan"}
  /\ x.pc = "record" => x.at # None /\ (x.at \in Thing => thing[x.at] \in Erasure)
  /\ x.pc = "fail" /\ x.job \in Erasure => request[x.job].status \notin {"absent", "scheduled"}
  /\ x.pc \in AtExport => x.job \in Export /\ ~Is(x.job, "absent")
  /\ x.pc \in {"put", "complete"} => Gone \/ Named(x.job)
  /\ x.pc \in AtExpiry => x.job \in Job \ Request /\ Exists(x.job) /\ runAt[x.job] =< now

RequestsOK == \A r \in Request : RequestOK(r)
ExportsOK == \A e \in Export : ExportOK(e)
ThingsOK == \A x \in Thing : ThingOK(x)
HandlersOK == \A w \in Worker : HandlerOK(worker[w])

(* The unique index over the live erasures. *)
OneLive ==
  \A p, q \in Erasure : request[p].status \in Live /\ request[q].status \in Live => p = q

ErasureInv ==
  TypeOK /\ RequestsOK /\ ExportsOK /\ ThingsOK /\ HandlersOK /\ OneLive /\ StatusAgrees

(* What a step leaves standing. *)
Fate ==
  /\ Gone => Gone'
  /\ \A r \in Request : ~Is(r, "absent") => ~Is(r, "absent")' /\ request'[r].due = request[r].due
  /\ \A r \in Erasure : Begun(r) => Begun(r)'
  /\ \A r \in Erasure : request[r].status \notin {"absent", "scheduled"} =>
                          request'[r].status \notin {"absent", "scheduled"}
  /\ \A x \in Thing : /\ thing[x] \notin {"none", "orphan"} =>
                           thing'[x] \notin {"none", "orphan"}
                      /\ thing[x] \in Erasure => thing'[x] = thing[x]
  /\ \A e \in Export : Gone \/ Named(e) => (Gone \/ Named(e))'
  /\ \A j \in Job : Exists(j) => Exists(j)' /\ runAt'[j] = runAt[j]
  /\ now' \in Nat /\ now =< now'

HandlerType ==
  [pc : {"idle", "begin", "plan", "effect", "record", "finalize", "fail", "report",
         "prepare", "put", "complete", "undo", "expire", "remove", "clear"},
   job : Job \union {None}, todo : SUBSET (Thing \union Export),
   at : Thing \union Export \union {None}, leased : BOOLEAN]

LEMMA Names ==
  /\ \A e \in Export : ExpireJob(e) \in Job \ Request /\ ExportOf(ExpireJob(e)) = e
  /\ \A j \in Job \ Request : ExportOf(j) \in Export /\ j = ExpireJob(ExportOf(j))
  /\ Request \subseteq Job /\ Erasure \subseteq Request /\ Export \subseteq Request
<1>1. \A e \in Export : ExpireJob(e) \in Job \ Request
  BY LifecycleAssumption DEF Job, Request
<1>2. \A e, f \in Export : ExpireJob(e) = ExpireJob(f) => e = f
  BY DEF ExpireJob
<1>3. \A j \in Job \ Request : \E e \in Export : j = ExpireJob(e)
  BY DEF Job
<1> QED
  BY <1>1, <1>2, <1>3 DEF ExportOf, Job, Request

LEMMA InitErasureInv == Init => ErasureInv
<1> SUFFICES ASSUME Init PROVE ErasureInv
  OBVIOUS
<1> USE DEF Init
<1>1. TypeOK
  <2>1. job \in [Job -> Queue!LifeType]
    <3> DEFINE n == [state |-> "absent", used |-> 0, ran |-> FALSE]
    <3>1. n \in Queue!LifeType
      BY LifecycleAssumption DEF Queue!LifeType
    <3>2. job = [j \in Job |-> n]
      BY DEF Queue!Init
    <3> HIDE DEF n
    <3> QED
      BY <3>1, <3>2
  <2>2. request \in [Request -> RequestType]
    BY DEF RequestType, Live, Ended
  <2>3. worker \in [Worker -> HandlerType]
    BY DEF HandlerType, IdleWorker
  <2>4. blocked \in BOOLEAN
    OBVIOUS
  <2>5. artifact \in [Export -> BOOLEAN]
    OBVIOUS
  <2>6. thing \in [Thing -> {"none", "there", "orphan"} \union Erasure]
    OBVIOUS
  <2>7. runAt \in [Job -> Nat] /\ faults \in 0..Faults /\ flips \in 0..Flips /\ now \in 0..Horizon
    BY LifecycleAssumption
  <2> QED
    BY <2>1, <2>2, <2>3, <2>4, <2>5, <2>6, <2>7 DEF TypeOK, HandlerType
<1>2. \A j \in Job : ~Exists(j)
  BY DEF Exists, Queue!Init
<1>3. RequestsOK /\ ExportsOK
  BY <1>2, Names DEF RequestsOK, ExportsOK, RequestOK, ExportOK, Is, Gone
<1>4. ThingsOK
  BY LifecycleAssumption DEF ThingsOK, ThingOK, Gone
<1>5. HandlersOK
  BY DEF HandlersOK, HandlerOK, IdleWorker, AtErasure, AtExport, AtExpiry
<1>6. OneLive /\ StatusAgrees
  BY Names DEF OneLive, StatusAgrees, Is, Live
<1> QED
  BY <1>1, <1>3, <1>4, <1>5, <1>6 DEF ErasureInv

-----------------------------------------------------------------------------
(* What lasts. *)

TablesType ==
  /\ user \in {"active", "deletion_pending", "erasing", "gone"}
  /\ request \in [Request -> RequestType]
  /\ thing \in [Thing -> {"none", "there", "orphan"} \union Erasure]
  /\ artifact \in [Export -> BOOLEAN]
  /\ blocked \in BOOLEAN
  /\ job \in [Job -> Queue!LifeType]
  /\ runAt \in [Job -> Nat]
  /\ faults \in 0..Faults /\ flips \in 0..Flips /\ now \in 0..Horizon

LEMMA Types == TypeOK <=> TablesType /\ worker \in [Worker -> HandlerType]
BY DEF TypeOK, TablesType, HandlerType

LEMMA TypesNext == TablesType' /\ worker' \in [Worker -> HandlerType] => TypeOK'
BY DEF TypeOK, TablesType, HandlerType

LEMMA HandlerKeeps ==
  ASSUME ErasureInv, Fate, NEW w \in Worker, NEW x \in HandlerType, worker'[w] = x, HandlerOK(x)
  PROVE  HandlerOK(worker[w])'
<1>1. now \in Nat
  BY LifecycleAssumption DEF ErasureInv, TypeOK
<1>2. x.pc = "begin" => /\ request'[x.job].status # "absent"
                        /\ x.job \in Erasure => request'[x.job].due =< now'
  <2> SUFFICES ASSUME x.pc = "begin"
               PROVE  /\ request'[x.job].status # "absent"
                      /\ x.job \in Erasure => request'[x.job].due =< now'
    OBVIOUS
  <2>1. x.job \in Request /\ request[x.job].due \in Nat
    BY DEF HandlerOK, ErasureInv, TypeOK, RequestType
  <2> QED
    BY <1>1, <2>1 DEF HandlerOK, Fate, Is
<1>3. x.pc \in AtErasure => Begun(worker[w].job)'
  BY DEF HandlerOK, Fate, Begun, Is, Gone
<1>4. x.pc \in AtErasure => \A y \in x.todo \intersect Thing : thing'[y] \notin {"none", "orphan"}
  BY DEF HandlerOK, Fate
<1>5. x.pc = "record" /\ x.at \in Thing => thing'[x.at] \in Erasure
  BY DEF HandlerOK, Fate
<1>6. x.pc = "fail" /\ x.job \in Erasure => request'[x.job].status \notin {"absent", "scheduled"}
  BY DEF HandlerOK, Fate
<1>7. x.pc \in AtExport => request'[x.job].status # "absent"
  BY Names DEF HandlerOK, Fate, Is
<1>8. x.pc \in {"put", "complete"} =>
        \/ user' = "gone"
        \/ request'[x.job].key
        \/ job'[ExpireJob(x.job)].state # "absent" /\ runAt'[ExpireJob(x.job)] =< now'
  BY DEF HandlerOK, Fate, AtExport, Gone, Named, Exists
<1>9. x.pc \in AtExpiry => job'[x.job].state # "absent" /\ runAt'[x.job] =< now'
  BY <1>1 DEF HandlerOK, Fate, Exists, ErasureInv, TypeOK
<1> QED
  BY <1>2, <1>3, <1>4, <1>5, <1>6, <1>7, <1>8, <1>9
     DEF HandlerOK, Is, Begun, Gone, Named, Exists

(* The handlers, after one of them moved. *)
LEMMA HandlersMove ==
  ASSUME ErasureInv, Fate, NEW w \in Worker, NEW x \in HandlerType,
         worker' = [worker EXCEPT ![w] = x], HandlerOK(worker[w])'
  PROVE  HandlersOK' /\ worker' \in [Worker -> HandlerType]
<1>1. /\ worker \in [Worker -> HandlerType] /\ worker'[w] = x
      /\ \A v \in Worker : v # w => worker'[v] = worker[v]
  BY Types DEF ErasureInv
<1>2. \A v \in Worker \ {w} : HandlerOK(worker[v])'
  BY <1>1, HandlerKeeps DEF ErasureInv, HandlersOK
<1>3. ASSUME NEW v \in Worker PROVE HandlerOK(worker[v])'
  <2>1. CASE v = w
    BY <2>1
  <2>2. CASE v # w
    BY <1>2, <2>2
  <2> QED
    BY <2>1, <2>2
<1> QED
  BY <1>1, <1>3 DEF HandlersOK

LEMMA HandlersKeep ==
  ASSUME ErasureInv, Fate, UNCHANGED worker
  PROVE  HandlersOK' /\ worker' \in [Worker -> HandlerType]
BY HandlerKeeps, Types DEF ErasureInv, HandlersOK

(* How the jobs change: none disappears, one of a request is made with the *)
(* request, and the removal of a document when there is a request.         *)
JobsKept ==
  /\ job' \in [Job -> Queue!LifeType] /\ runAt' \in [Job -> Nat]
  /\ \A j \in Job : Exists(j) => job'[j].state # "absent" /\ runAt'[j] = runAt[j]
  /\ \A j \in Request : ~Exists(j) => job'[j].state = "absent"
  /\ \A e \in Export : Is(e, "absent") /\ ~Exists(ExpireJob(e)) =>
                       job'[ExpireJob(e)].state = "absent"

LEMMA JobsStay == ASSUME ErasureInv, UNCHANGED <<job, runAt>> PROVE JobsKept
BY DEF ErasureInv, TypeOK, JobsKept, Exists

LEMMA JobMoves ==
  ASSUME ErasureInv, NEW j \in Job, UNCHANGED runAt,
         \/ ChangeJob(j, Queue!Attempt) \/ ChangeJob(j, Queue!Run)
         \/ ChangeJob(j, Queue!Succeed) \/ ChangeJob(j, Queue!Fail)
         \/ ChangeJob(j, Queue!Cancel)
  PROVE  JobsKept /\ Exists(j)
<1>1. PICK k \in Queue!LifeType : job' = [job EXCEPT ![j] = k]
           /\ \/ Queue!Attempt(job[j], k) \/ Queue!Run(job[j], k) \/ Queue!Succeed(job[j], k)
              \/ Queue!Fail(job[j], k) \/ Queue!Cancel(job[j], k)
  BY DEF ChangeJob
<1>2. job \in [Job -> Queue!LifeType] /\ runAt \in [Job -> Nat]
  BY DEF ErasureInv, TypeOK
<1>3. job[j].state # "absent" /\ k.state # "absent"
  BY <1>1, <1>2 DEF Queue!Attempt, Queue!Run, Queue!Succeed, Queue!Fail, Queue!Cancel,
                    Queue!LifeType
<1> QED
  BY <1>1, <1>2, <1>3 DEF JobsKept, Exists

(* The requests, after one of them that exists was written. *)
LEMMA RequestWritten ==
  ASSUME ErasureInv, JobsKept, UNCHANGED <<thing, artifact, now>>,
         NEW r \in Request, NEW v \in RequestType, request' = [request EXCEPT ![r] = v],
         ~Is(r, "absent"), v.status # "absent", v.due = request[r].due,
         (user' = "gone") = Gone,
         \A x \in v.done \intersect Thing : thing[x] \in Erasure,
         r \in Erasure =>
           /\ v.status = "canceled" => Is(r, "canceled") \/ Is(r, "scheduled")
           /\ v.status = "scheduled" => Is(r, "scheduled")
           /\ v.status \in Live => \A q \in Erasure \ {r} : request[q].status \notin Live,
         Gone => v.status \in {"completed", "canceled"},
         r \in Export /\ (Gone \/ Named(r) \/ v.status = "completed") =>
           (\/ Gone \/ v.key
            \/ job'[ExpireJob(r)].state # "absent" /\ runAt'[ExpireJob(r)] =< now)
  PROVE  /\ Fate /\ RequestsOK' /\ ExportsOK' /\ ThingsOK' /\ OneLive'
         /\ request' \in [Request -> RequestType]
<1>1. /\ request \in [Request -> RequestType] /\ request' \in [Request -> RequestType]
      /\ request'[r] = v /\ \A q \in Request \ {r} : request'[q] = request[q]
      /\ thing \in [Thing -> {"none", "there", "orphan"} \union Erasure] /\ now \in Nat
  BY LifecycleAssumption DEF ErasureInv, TypeOK
<1>2. \A q \in Erasure : Begun(q) => Begun(q)'
  BY <1>1, Names DEF Begun, Gone, Is
<1>3. \A e \in Export : e # r => (Gone \/ Named(e) => (Gone \/ Named(e))')
  BY <1>1, Names DEF Gone, Named, JobsKept, Exists
<1>4. r \in Export /\ (Gone \/ Named(r) \/ v.status = "completed") => (Gone \/ Named(r))'
  BY <1>1 DEF Gone, Named, Exists
<1>5. Fate
  <2>1. \A q \in Request : ~Is(q, "absent") => ~Is(q, "absent")' /\ request'[q].due = request[q].due
    BY <1>1 DEF Is
  <2>2. \A q \in Erasure : request[q].status \notin {"absent", "scheduled"} =>
                            request'[q].status \notin {"absent", "scheduled"}
    BY <1>1, Names DEF Is
  <2>3. \A j \in Job : Exists(j) => Exists(j)' /\ runAt'[j] = runAt[j]
    BY DEF JobsKept, Exists
  <2>4. \A e \in Export : Gone \/ Named(e) => (Gone \/ Named(e))'
    BY <1>3, <1>4
  <2> QED
    BY <1>1, <1>2, <2>1, <2>2, <2>3, <2>4 DEF Fate, Gone
<1>6. RequestsOK'
  <2> SUFFICES ASSUME NEW q \in Request PROVE RequestOK(q)'
    BY DEF RequestsOK
  <2>1. RequestOK(q)
    BY DEF ErasureInv, RequestsOK
  <2>2. Exists(q)' => Exists(q) /\ runAt'[q] = runAt[q]
    BY Names DEF JobsKept, Exists
  <2>3. Exists(q)' => ~Is(q, "absent")' /\ (q \in Erasure => runAt'[q] = request'[q].due)
    BY <1>1, <2>1, <2>2 DEF RequestOK, Is
  <2>7. /\ q \in Export /\ Exists(ExpireJob(q))' => ~Is(q, "absent")'
        /\ request'[q].key => ~Is(q, "absent")'
    BY <1>1, <2>1, Names DEF RequestOK, JobsKept, Exists, Is
  <2>4. \A x \in request'[q].done \intersect Thing : thing'[x] \in Erasure
    BY <1>1, <2>1 DEF RequestOK
  <2>5. q \in Export /\ Is(q, "completed")' => (Gone \/ Named(q))'
    BY <1>1, <1>3, <1>4, <2>1 DEF RequestOK, Is
  <2>6. Gone' => request'[q].status \in {"absent", "completed", "canceled"}
    BY <1>1, <2>1 DEF RequestOK, Gone
  <2> QED
    BY <2>3, <2>4, <2>5, <2>6, <2>7 DEF RequestOK, Exists
<1>7. ExportsOK' /\ ThingsOK'
  <2>1. \A e \in Export : artifact[e] => (Gone \/ Named(e))'
    BY <1>5 DEF ErasureInv, ExportsOK, ExportOK, Fate
  <2>2. \A x \in Thing : thing[x] \in Erasure => Begun(thing[x])'
    BY <1>2 DEF ErasureInv, ThingsOK, ThingOK
  <2>3. \A x \in Thing : /\ Gone' => thing[x] # "there"
                         /\ ~Gone' => thing[x] # "orphan"
    BY DEF ErasureInv, ThingsOK, ThingOK, Gone
  <2> QED
    BY <2>1, <2>2, <2>3 DEF ExportsOK, ExportOK, ThingsOK, ThingOK, Begun, Gone, Named, Is, Exists
<1>8. OneLive'
  BY <1>1, Names DEF ErasureInv, OneLive
<1> QED
  BY <1>1, <1>5, <1>6, <1>7, <1>8

(* Nothing was written but jobs. *)
LEMMA NothingWritten ==
  ASSUME ErasureInv, JobsKept, UNCHANGED <<user, request, thing>>,
         \A e \in Export : artifact'[e] => artifact[e], now' \in Nat, now =< now'
  PROVE  Fate /\ RequestsOK' /\ ExportsOK' /\ ThingsOK' /\ OneLive' /\ StatusAgrees'
<1>1. /\ request \in [Request -> RequestType] /\ runAt \in [Job -> Nat] /\ now \in Nat
      /\ thing \in [Thing -> {"none", "there", "orphan"} \union Erasure]
  BY LifecycleAssumption DEF ErasureInv, TypeOK
<1>2. \A q \in Erasure : Begun(q) => Begun(q)'
  <2>1. \A q \in Erasure : request[q].due \in Nat
    BY <1>1, Names DEF RequestType
  <2> QED
    BY <1>1, <2>1 DEF Begun, Gone, Is
<1>3. \A e \in Export : Gone \/ Named(e) => (Gone \/ Named(e))'
  BY <1>1, Names DEF Gone, Named, JobsKept, Exists
<1>4. Fate
  <2>1. \A q \in Request : ~Is(q, "absent") => ~Is(q, "absent")' /\ request'[q].due = request[q].due
    BY DEF Is
  <2>2. \A j \in Job : Exists(j) => Exists(j)' /\ runAt'[j] = runAt[j]
    BY DEF JobsKept, Exists
  <2> QED
    BY <1>1, <1>2, <1>3, <2>1, <2>2 DEF Fate, Gone
<1>5. RequestsOK'
  <2> SUFFICES ASSUME NEW q \in Request PROVE RequestOK(q)'
    BY DEF RequestsOK
  <2>1. RequestOK(q)
    BY DEF ErasureInv, RequestsOK
  <2>2. Exists(q)' => Exists(q) /\ runAt'[q] = runAt[q]
    BY Names DEF JobsKept, Exists
  <2>3. Exists(q)' => ~Is(q, "absent")' /\ (q \in Erasure => runAt'[q] = request'[q].due)
    BY <2>1, <2>2 DEF RequestOK, Is
  <2>7. /\ q \in Export /\ Exists(ExpireJob(q))' => ~Is(q, "absent")'
        /\ request'[q].key => ~Is(q, "absent")'
    BY <2>1, Names DEF RequestOK, JobsKept, Exists, Is
  <2>4. \A x \in request'[q].done \intersect Thing : thing'[x] \in Erasure
    BY <2>1 DEF RequestOK
  <2>5. q \in Export /\ Is(q, "completed")' => (Gone \/ Named(q))'
    BY <1>3, <2>1 DEF RequestOK, Is
  <2>6. Gone' => request'[q].status \in {"absent", "completed", "canceled"}
    BY <2>1 DEF RequestOK, Gone
  <2> QED
    BY <2>3, <2>4, <2>5, <2>6, <2>7 DEF RequestOK, Exists
<1>6. ExportsOK' /\ ThingsOK'
  <2>1. \A e \in Export : artifact'[e] => (Gone \/ Named(e))'
    BY <1>3 DEF ErasureInv, ExportsOK, ExportOK
  <2>2. \A x \in Thing : thing[x] \in Erasure => Begun(thing[x])'
    BY <1>2 DEF ErasureInv, ThingsOK, ThingOK
  <2>3. \A x \in Thing : /\ Gone' => thing[x] # "there"
                         /\ ~Gone' => thing[x] # "orphan"
    BY DEF ErasureInv, ThingsOK, ThingOK, Gone
  <2> QED
    BY <2>1, <2>2, <2>3 DEF ExportsOK, ExportOK, ThingsOK, ThingOK, Begun, Gone, Named, Is, Exists
<1>7. OneLive' /\ StatusAgrees'
  BY DEF ErasureInv, OneLive, StatusAgrees, Is
<1> QED
  BY <1>4, <1>5, <1>6, <1>7

(* A handler took x into its memory, and the tables are as they were. *)
LEMMA HandlerOnly ==
  ASSUME ErasureInv, JobsKept, UNCHANGED <<user, request, thing, artifact, blocked, flips, now>>,
         faults' \in 0..Faults,
         NEW w \in Worker, NEW x \in HandlerType, worker' = [worker EXCEPT ![w] = x], HandlerOK(x)
  PROVE  ErasureInv'
<1>1. now \in Nat /\ worker'[w] = x /\ TablesType
  BY LifecycleAssumption, Types DEF ErasureInv, TypeOK
<1>2. Fate /\ RequestsOK' /\ ExportsOK' /\ ThingsOK' /\ OneLive' /\ StatusAgrees'
  BY <1>1, NothingWritten
<1>3. HandlersOK' /\ worker' \in [Worker -> HandlerType]
  BY <1>1, <1>2, HandlerKeeps, HandlersMove
<1>4. TablesType'
  BY <1>1 DEF TablesType, JobsKept
<1> QED
  BY <1>2, <1>3, <1>4, TypesNext DEF ErasureInv

Handlers ==
  {"idle", "begin", "plan", "effect", "record", "finalize", "fail", "report",
   "prepare", "put", "complete", "undo", "expire", "remove", "clear"}

LEMMA Goes ==
  ASSUME ErasureInv, NEW w \in Worker, NEW pc \in Handlers, GoTo(w, pc)
  PROVE  \E x \in HandlerType :
           /\ worker' = [worker EXCEPT ![w] = x]
           /\ x.pc = pc /\ x.job = worker[w].job /\ x.todo = worker[w].todo
           /\ x.at = worker[w].at
<1> DEFINE x == [worker[w] EXCEPT !.pc = pc]
<1>1. worker \in [Worker -> HandlerType]
  BY Types DEF ErasureInv
<1>2. /\ x \in HandlerType
      /\ x.pc = pc /\ x.job = worker[w].job /\ x.todo = worker[w].todo
      /\ x.at = worker[w].at
  BY <1>1 DEF HandlerType, Handlers
<1>3. worker' = [worker EXCEPT ![w] = x]
  BY <1>1 DEF GoTo
<1> HIDE DEF x
<1> QED
  BY <1>2, <1>3

LEMMA Memory ==
  ASSUME ErasureInv, NEW w \in Worker
  PROVE  /\ worker[w] \in HandlerType /\ HandlerOK(worker[w])
         /\ worker[w].pc # "idle" => worker[w].job \in Job
BY Types DEF ErasureInv, HandlersOK, HandlerOK

(* A handler that returns. *)
LEMMA Returns ==
  ASSUME ErasureInv, NEW w \in Worker, worker[w].pc # "idle", Return(w), UNCHANGED runAt
  PROVE  /\ JobsKept
         /\ \E x \in HandlerType : /\ worker' = [worker EXCEPT ![w] = x] /\ HandlerOK(x)
                                  /\ x.pc = "report" /\ x.job = worker[w].job
<1>1. worker[w].job \in Job
  BY Memory
<1>2. JobsKept
  BY <1>1, JobMoves, JobsStay DEF Return
<1>3. PICK x \in HandlerType : /\ worker' = [worker EXCEPT ![w] = x]
                              /\ x.pc = "report" /\ x.job = worker[w].job
  BY Goes DEF Return, Handlers
<1>4. HandlerOK(x)
  BY <1>1, <1>3 DEF HandlerOK, AtErasure, AtExport, AtExpiry
<1> QED
  BY <1>2, <1>3, <1>4

LEMMA Idle == IdleWorker \in HandlerType /\ HandlerOK(IdleWorker) /\ IdleWorker.pc = "idle"
BY DEF IdleWorker, HandlerType, HandlerOK, AtErasure, AtExport, AtExpiry

-----------------------------------------------------------------------------
(* Steps that write no table but the jobs. *)

LEMMA ReturnStep ==
  ASSUME ErasureInv, NEW w \in Worker, worker[w].pc # "idle", Return(w),
         UNCHANGED <<user, request, thing, artifact, blocked, runAt, faults, flips, now>>
  PROVE  ErasureInv'
<1>1. JobsKept /\ faults' \in 0..Faults
  BY Returns DEF ErasureInv, TypeOK
<1>2. PICK x \in HandlerType : worker' = [worker EXCEPT ![w] = x] /\ HandlerOK(x)
  BY Returns
<1> QED
  BY <1>1, <1>2, HandlerOnly

(* It goes on with what it has, or ends in an error. *)
LEMMA GoToStep ==
  ASSUME ErasureInv, NEW w \in Worker, NEW pc \in Handlers, GoTo(w, pc), worker[w].pc # "idle",
         UNCHANGED <<user, request, thing, artifact, blocked, job, runAt, faults, flips, now>>,
         \A x \in HandlerType :
           x.pc = pc /\ x.job = worker[w].job /\ x.todo = worker[w].todo /\ x.at = worker[w].at =>
             HandlerOK(x)
  PROVE  ErasureInv'
<1>1. JobsKept /\ faults' \in 0..Faults
  BY JobsStay DEF ErasureInv, TypeOK
<1>2. PICK x \in HandlerType : worker' = [worker EXCEPT ![w] = x] /\ HandlerOK(x)
  BY Goes
<1> QED
  BY <1>1, <1>2, HandlerOnly

LEMMA FailStep ==
  ASSUME ErasureInv, NEW w \in Worker, worker[w].pc \in AtErasure, GoTo(w, "fail"),
         UNCHANGED <<user, request, thing, artifact, blocked, job, runAt, faults, flips, now>>
  PROVE  ErasureInv'
<1>1. worker[w].job \in Job /\ request[worker[w].job].status \notin {"absent", "scheduled"}
  BY Memory DEF HandlerOK, AtErasure, Begun
<1> QED
  BY <1>1, GoToStep DEF HandlerOK, AtErasure, AtExport, AtExpiry, Handlers

LEMMA PlanStep ==
  ASSUME ErasureInv, NEW w \in Worker, Plan(w)
  PROVE  ErasureInv'
<1> DEFINE r == worker[w].job
           todo == Listed \ request[r].done
<1>1. worker[w].pc = "plan" /\ worker[w].pc \in AtErasure
  BY DEF Plan, AtErasure
<1>2. CASE Return(w)
  BY <1>1, <1>2, ReturnStep DEF Plan
<1>3. CASE GoTo(w, "fail") /\ UNCHANGED job
  BY <1>1, <1>3, FailStep DEF Plan
<1>4. CASE /\ worker' = [worker EXCEPT ![w].pc = Loop(todo), ![w].todo = todo]
           /\ UNCHANGED job /\ ~Gone
  <2> DEFINE x == [worker[w] EXCEPT !.pc = Loop(todo), !.todo = todo]
  <2>1. /\ todo \in SUBSET (Thing \union Export)
        /\ \A y \in todo \intersect Thing : thing[y] \notin {"none", "orphan"}
    BY <1>4, LifecycleAssumption, Names DEF Listed, ErasureInv, ThingsOK, ThingOK
  <2>2. Loop(todo) \in {"finalize", "effect"}
    BY DEF Loop
  <2> HIDE DEF todo
  <2>3. worker[w] \in HandlerType /\ HandlerOK(worker[w])
    BY Memory
  <2>4. /\ x \in HandlerType /\ x.pc \in {"finalize", "effect"}
        /\ x.job = worker[w].job /\ x.todo = todo
    BY <2>1, <2>2, <2>3 DEF HandlerType
  <2>5. worker' = [worker EXCEPT ![w] = x]
    BY <1>4, Types DEF ErasureInv
  <2> HIDE DEF x
  <2>6. HandlerOK(x)
    BY <1>1, <2>1, <2>3, <2>4 DEF HandlerOK, AtErasure, AtExport, AtExpiry
  <2> QED
    BY <1>4, <2>4, <2>5, <2>6, HandlerOnly, JobsStay DEF Plan, ErasureInv, TypeOK
<1> QED
  BY <1>1, <1>2, <1>3, <1>4 DEF Plan, GoTo, Gone

LEMMA ExpireStep ==
  ASSUME ErasureInv, NEW w \in Worker, Expire(w)
  PROVE  ErasureInv'
<1>1. CASE Return(w)
  BY <1>1, ReturnStep DEF Expire
<1>2. CASE GoTo(w, "remove") /\ UNCHANGED job
  <2>1. HandlerOK(worker[w]) /\ worker[w].pc = "expire"
    BY Memory DEF Expire
  <2> QED
    BY <1>2, <2>1, GoToStep DEF Expire, HandlerOK, AtErasure, AtExport, AtExpiry, Handlers
<1> QED
  BY <1>1, <1>2 DEF Expire

LEMMA ReportStep ==
  ASSUME ErasureInv, NEW w \in Worker, Report(w)
  PROVE  ErasureInv'
<1>1. worker[w].job \in Job
  BY Memory DEF Report
<1>2. JobsKept /\ faults' \in 0..Faults
  BY <1>1, JobMoves, JobsStay DEF Report, ErasureInv, TypeOK
<1> QED
  BY <1>2, Idle, HandlerOnly DEF Report

LEMMA FaultStep ==
  ASSUME ErasureInv, NEW w \in Worker, Throw(w) \/ Crash(w) \/ Lapse(w)
  PROVE  ErasureInv'
<1>1. /\ worker[w] \in HandlerType /\ HandlerOK(worker[w]) /\ worker \in [Worker -> HandlerType]
      /\ worker[w].pc # "idle" => worker[w].job \in Job
  BY Memory, Types DEF ErasureInv
<1>2. JobsKept /\ faults' \in 0..Faults
  BY JobsStay, LifecycleAssumption DEF Throw, Crash, Lapse, ErasureInv, TypeOK
<1>3. CASE Throw(w)
  <2> DEFINE x == [worker[w] EXCEPT !.pc = "fail", !.todo = {}]
  <2>1. x \in HandlerType /\ x.pc = "fail" /\ x.job = worker[w].job
    BY <1>1 DEF HandlerType
  <2>2. worker' = [worker EXCEPT ![w] = x]
    BY <1>1, <1>3 DEF Throw
  <2> HIDE DEF x
  <2>3. HandlerOK(x)
    <3>1. worker[w].pc = "effect" \/ worker[w].pc \in AtExport \union AtExpiry
      BY <1>3 DEF Throw, AtExport, AtExpiry
    <3>2. x.job \in Erasure => request[x.job].status \notin {"absent", "scheduled"}
      BY <1>1, <2>1, <3>1, LifecycleAssumption, Names DEF HandlerOK, AtErasure, Begun
    <3> QED
      BY <1>1, <2>1, <3>1, <3>2 DEF HandlerOK, AtErasure, AtExport, AtExpiry
  <2> QED
    BY <1>2, <1>3, <2>1, <2>2, <2>3, HandlerOnly DEF Throw
<1>4. CASE Crash(w)
  BY <1>2, <1>4, Idle, HandlerOnly DEF Crash
<1>5. CASE Lapse(w)
  <2> DEFINE x == [worker[w] EXCEPT !.leased = FALSE]
  <2>1. /\ x \in HandlerType /\ x.pc = worker[w].pc /\ x.job = worker[w].job
        /\ x.todo = worker[w].todo /\ x.at = worker[w].at
    BY <1>1 DEF HandlerType
  <2>2. worker' = [worker EXCEPT ![w] = x]
    BY <1>1, <1>5 DEF Lapse
  <2> HIDE DEF x
  <2>3. HandlerOK(x)
    BY <1>1, <2>1 DEF HandlerOK
  <2> QED
    BY <1>2, <1>5, <2>1, <2>2, <2>3, HandlerOnly DEF Lapse
<1> QED
  BY <1>3, <1>4, <1>5

LEMMA ClaimJobStep ==
  ASSUME ErasureInv, NEW w \in Worker, NEW j \in Job, ClaimJob(w, j)
  PROVE  ErasureInv'
<1>1. JobsKept /\ Exists(j) /\ faults' \in 0..Faults
  BY JobMoves DEF ClaimJob, ErasureInv, TypeOK
<1> DEFINE x == [IdleWorker EXCEPT !.pc = FirstStep(j), !.job = j, !.leased = TRUE]
<1>2. /\ x \in HandlerType /\ x.pc = FirstStep(j) /\ x.job = j /\ x.todo = {}
  BY DEF IdleWorker, HandlerType, FirstStep
<1>3. worker' = [worker EXCEPT ![w] = x]
  BY DEF ClaimJob
<1> HIDE DEF x
<1>4. HandlerOK(x)
  <2>1. runAt[j] =< now /\ RequestsOK
    BY DEF ClaimJob, ErasureInv
  <2>2. CASE j \notin Request
    BY <1>1, <1>2, <2>1, <2>2, Names DEF FirstStep, HandlerOK, AtErasure, AtExport, AtExpiry
  <2>3. CASE j \in Request
    <3>1. RequestOK(j)
      BY <2>1, <2>3 DEF RequestsOK
    <3> QED
      BY <1>1, <1>2, <2>1, <2>3, <3>1 DEF FirstStep, HandlerOK, AtErasure, AtExport, AtExpiry,
                                         RequestOK, Gone, Is
  <2> QED
    BY <2>2, <2>3
<1> QED
  BY <1>1, <1>2, <1>3, <1>4, HandlerOnly DEF ClaimJob

LEMMA QueueStep ==
  ASSUME ErasureInv, Flip \/ Tick \/ \E j \in Job : GiveUp(j)
  PROVE  ErasureInv'
<1>1. TablesType /\ now \in Nat
  BY LifecycleAssumption, Types DEF ErasureInv, TypeOK
<1>2. JobsKept
  BY JobMoves, JobsStay DEF Flip, Tick, GiveUp
<1>3. now' \in 0..Horizon /\ now =< now' /\ flips' \in 0..Flips
  BY <1>1, LifecycleAssumption DEF TablesType, Flip, Tick, GiveUp
<1>4. Fate /\ RequestsOK' /\ ExportsOK' /\ ThingsOK' /\ OneLive' /\ StatusAgrees'
  BY <1>2, <1>3, LifecycleAssumption, NothingWritten DEF Flip, Tick, GiveUp
<1>5. HandlersOK' /\ worker' \in [Worker -> HandlerType]
  BY <1>4, HandlersKeep DEF Flip, Tick, GiveUp
<1>6. blocked' \in BOOLEAN
  BY <1>1 DEF TablesType, Flip, Tick, GiveUp
<1>7. TablesType'
  BY <1>1, <1>2, <1>3, <1>6 DEF TablesType, JobsKept, Flip, Tick, GiveUp
<1> QED
  BY <1>4, <1>5, <1>7, TypesNext DEF ErasureInv

-----------------------------------------------------------------------------
(* Steps that write a request. *)

LEMMA HandlerWrites ==
  ASSUME ErasureInv, JobsKept, UNCHANGED <<blocked, faults, flips, now>>,
         Fate, RequestsOK', ExportsOK', ThingsOK', OneLive', StatusAgrees',
         user' \in {"active", "deletion_pending", "erasing", "gone"},
         request' \in [Request -> RequestType],
         thing' \in [Thing -> {"none", "there", "orphan"} \union Erasure],
         artifact' \in [Export -> BOOLEAN],
         NEW w \in Worker, NEW x \in HandlerType, worker' = [worker EXCEPT ![w] = x],
         HandlerOK(worker[w])'
  PROVE  ErasureInv'
<1>1. TablesType
  BY Types DEF ErasureInv
<1>2. HandlersOK' /\ worker' \in [Worker -> HandlerType]
  BY HandlersMove
<1>3. TablesType'
  BY <1>1 DEF TablesType, JobsKept
<1> QED
  BY <1>2, <1>3, TypesNext DEF ErasureInv

LEMMA StatusWritten ==
  ASSUME ErasureInv, JobsKept, UNCHANGED <<thing, artifact, now>>,
         NEW r \in Request, NEW s \in {"processing", "failed", "canceled", "blocked"},
         request' = Set(r, s), ~Is(r, "absent"), (user' = "gone") = Gone,
         Gone => s = "canceled",
         r \in Erasure =>
           /\ s = "canceled" => Is(r, "scheduled")
           /\ s \in Live => \A q \in Erasure \ {r} : request[q].status \notin Live
  PROVE  /\ Fate /\ RequestsOK' /\ ExportsOK' /\ ThingsOK' /\ OneLive'
         /\ request' \in [Request -> RequestType]
         /\ request'[r].status = s /\ request'[r].due = request[r].due
         /\ \A q \in Request \ {r} : request'[q] = request[q]
<1> DEFINE v == [request[r] EXCEPT !.status = s]
<1>1. request \in [Request -> RequestType] /\ request[r] \in RequestType
  BY DEF ErasureInv, TypeOK
<1>2. /\ v \in RequestType /\ v.status = s /\ v.due = request[r].due
      /\ v.key = request[r].key /\ v.done = request[r].done
  BY <1>1 DEF RequestType, Live, Ended
<1>3. request' = [request EXCEPT ![r] = v]
  BY <1>1 DEF Set
<1> HIDE DEF v
<1>4. \A x \in v.done \intersect Thing : thing[x] \in Erasure
  BY <1>2 DEF ErasureInv, RequestsOK, RequestOK
<1>5. r \in Export /\ (Gone \/ Named(r) \/ v.status = "completed") =>
           (\/ Gone \/ v.key
            \/ job'[ExpireJob(r)].state # "absent" /\ runAt'[ExpireJob(r)] =< now)
  BY <1>2, Names DEF Named, JobsKept, Exists
<1>6. /\ Fate /\ RequestsOK' /\ ExportsOK' /\ ThingsOK' /\ OneLive'
      /\ request' \in [Request -> RequestType]
  BY <1>2, <1>3, <1>4, <1>5, RequestWritten
<1> QED
  BY <1>1, <1>2, <1>3, <1>6

LEMMA OthersDead ==
  ASSUME ErasureInv, NEW r \in Erasure, request[r].status \notin {"absent"} \union Ended
  PROVE  /\ ~Gone /\ request[r].status \in Live
         /\ \A q \in Erasure \ {r} : request[q].status \notin Live
<1>1. request[r] \in RequestType /\ RequestOK(r)
  BY Names DEF ErasureInv, TypeOK, RequestsOK
<1>2. request[r].status \in Live
  BY <1>1 DEF RequestType
<1> QED
  BY <1>1, <1>2 DEF RequestOK, Live, ErasureInv, OneLive

LEMMA BeginErasureStep ==
  ASSUME ErasureInv, NEW w \in Worker, BeginErasure(w)
  PROVE  ErasureInv'
<1>1. PICK r \in Erasure : r = worker[w].job
  BY DEF BeginErasure
<1>2. /\ worker[w] \in HandlerType /\ HandlerOK(worker[w]) /\ worker[w].pc = "begin"
      /\ worker[w].todo = {} /\ ~Is(r, "absent") /\ r \in Request /\ TablesType
      /\ worker \in [Worker -> HandlerType]
  BY <1>1, Memory, Names, Types DEF BeginErasure, HandlerOK, ErasureInv
<1>3. CASE Return(w) /\ UNCHANGED <<user, request>>
  BY <1>2, <1>3, ReturnStep DEF BeginErasure
<1>4. ASSUME ~(request[r].status \in Ended \/ request[r].due > now) PROVE ErasureInv'
  <2>1. /\ ~Gone /\ request[r].status \in Live
        /\ \A q \in Erasure \ {r} : request[q].status \notin Live
    BY <1>2, <1>4, OthersDead DEF Is
  <2>2. CASE request' = Set(r, "blocked") /\ user' = "active" /\ Return(w)
    <3>1. JobsKept
      BY <1>2, <2>2, Returns DEF BeginErasure
    <3>2. PICK x \in HandlerType : worker' = [worker EXCEPT ![w] = x] /\ HandlerOK(x)
      BY <1>2, <2>2, Returns DEF BeginErasure
    <3>3. /\ Fate /\ RequestsOK' /\ ExportsOK' /\ ThingsOK' /\ OneLive'
          /\ request' \in [Request -> RequestType]
          /\ request'[r].status = "blocked"
          /\ \A q \in Request \ {r} : request'[q] = request[q]
      BY <1>2, <2>1, <2>2, <3>1, StatusWritten DEF BeginErasure, Gone, Live
    <3>4. StatusAgrees'
      BY <2>1, <2>2, <3>3, Names DEF StatusAgrees, Is, Live
    <3>5. HandlerOK(worker[w])'
      BY <1>2, <3>2, <3>3, HandlerKeeps
    <3> QED
      BY <1>2, <2>2, <3>1, <3>2, <3>3, <3>4, <3>5, HandlerWrites DEF BeginErasure, TablesType
  <2>3. CASE /\ request' = Set(r, "processing") /\ user' = "erasing"
             /\ GoTo(w, "plan") /\ UNCHANGED job
    <3>1. JobsKept
      BY <2>3, JobsStay DEF BeginErasure
    <3>2. PICK x \in HandlerType : /\ worker' = [worker EXCEPT ![w] = x]
                                  /\ x.pc = "plan" /\ x.job = r /\ x.todo = {}
      BY <1>1, <1>2, <2>3, Goes DEF Handlers
    <3>3. /\ Fate /\ RequestsOK' /\ ExportsOK' /\ ThingsOK' /\ OneLive'
          /\ request' \in [Request -> RequestType]
          /\ request'[r].status = "processing" /\ request'[r].due = request[r].due
          /\ \A q \in Request \ {r} : request'[q] = request[q]
      BY <1>2, <2>1, <2>3, <3>1, StatusWritten DEF BeginErasure, Gone
    <3>4. StatusAgrees'
      BY <2>1, <2>3, <3>3, Names DEF StatusAgrees, Is, Live
    <3>5. Begun(r)'
      <4>1. request[r].due \in Nat /\ now \in Nat /\ now' = now
        BY <1>2, LifecycleAssumption DEF TablesType, RequestType, BeginErasure
      <4> QED
        BY <1>4, <3>3, <4>1 DEF Begun, Is
    <3>6. HandlerOK(worker[w])'
      <4>1. worker'[w] = x
        BY <1>2, <3>2
      <4> QED
        BY <3>2, <3>5, <4>1, Names DEF HandlerOK, AtErasure, AtExport, AtExpiry
    <3> QED
      BY <1>2, <2>3, <3>1, <3>2, <3>3, <3>4, <3>6, HandlerWrites DEF BeginErasure, TablesType
  <2> QED
    BY <1>1, <1>4, <2>2, <2>3 DEF BeginErasure
<1> QED
  BY <1>1, <1>3, <1>4 DEF BeginErasure

LEMMA BeginExportStep ==
  ASSUME ErasureInv, NEW w \in Worker, BeginExport(w)
  PROVE  ErasureInv'
<1>1. PICK e \in Export : e = worker[w].job
  BY DEF BeginExport
<1>2. /\ worker[w] \in HandlerType /\ HandlerOK(worker[w]) /\ worker[w].pc = "begin"
      /\ ~Is(e, "absent") /\ e \in Request /\ e \notin Erasure /\ TablesType
      /\ worker \in [Worker -> HandlerType]
  BY <1>1, Memory, Names, Types, LifecycleAssumption DEF BeginExport, HandlerOK, ErasureInv
<1>3. CASE Return(w) /\ UNCHANGED request
  BY <1>2, <1>3, ReturnStep DEF BeginExport
<1>4. ASSUME request[e].status \notin Ended, Return(w), request' = Set(e, "canceled")
      PROVE  ErasureInv'
  <2>1. JobsKept
    BY <1>2, <1>4, Returns DEF BeginExport
  <2>2. PICK x \in HandlerType : worker' = [worker EXCEPT ![w] = x] /\ HandlerOK(x)
    BY <1>2, <1>4, Returns DEF BeginExport
  <2>3. /\ Fate /\ RequestsOK' /\ ExportsOK' /\ ThingsOK' /\ OneLive'
        /\ request' \in [Request -> RequestType]
        /\ \A q \in Request \ {e} : request'[q] = request[q]
    BY <1>2, <1>4, <2>1, StatusWritten DEF BeginExport, Gone
  <2>4. StatusAgrees'
    BY <1>2, <2>3, Names DEF StatusAgrees, Is, ErasureInv, BeginExport
  <2>5. HandlerOK(worker[w])'
    BY <1>2, <2>2, <2>3, HandlerKeeps
  <2> QED
    BY <1>2, <2>1, <2>2, <2>3, <2>4, <2>5, HandlerWrites DEF BeginExport, TablesType
<1>5. ASSUME request[e].status \notin Ended, GoTo(w, "prepare"), UNCHANGED job,
             request' = Set(e, "processing")
      PROVE  ErasureInv'
  <2>1. JobsKept /\ ~Gone
    <3>1. RequestOK(e)
      BY <1>2 DEF ErasureInv, RequestsOK
    <3> QED
      BY <1>2, <1>5, <3>1, JobsStay DEF BeginExport, RequestOK, Is, Ended
  <2>2. PICK x \in HandlerType : /\ worker' = [worker EXCEPT ![w] = x]
                                /\ x.pc = "prepare" /\ x.job = e
    BY <1>1, <1>5, Goes DEF Handlers
  <2>3. /\ Fate /\ RequestsOK' /\ ExportsOK' /\ ThingsOK' /\ OneLive'
        /\ request' \in [Request -> RequestType]
        /\ \A q \in Request \ {e} : request'[q] = request[q]
    BY <1>2, <1>5, <2>1, StatusWritten DEF BeginExport, Gone
  <2>4. StatusAgrees'
    BY <1>2, <2>3, Names DEF StatusAgrees, Is, ErasureInv, BeginExport
  <2>5. HandlerOK(worker[w])'
    <3>1. HandlerOK(x)
      BY <1>2, <2>2, Names DEF HandlerOK, AtErasure, AtExport, AtExpiry
    <3> QED
      BY <1>2, <2>2, <2>3, <3>1, HandlerKeeps
  <2> QED
    BY <1>2, <1>5, <2>1, <2>2, <2>3, <2>4, <2>5, HandlerWrites DEF BeginExport, TablesType
<1> QED
  BY <1>1, <1>3, <1>4, <1>5 DEF BeginExport

(* markPrivacyRequestFailed, where nothing forbids it. *)
LEMMA FailureWritten ==
  ASSUME ErasureInv, JobsKept, UNCHANGED <<user, thing, artifact, now>>,
         NEW r \in Request, request' = SetFailed(r), ~Gone,
         ~Is(r, "absent"), r \in Erasure => ~Is(r, "scheduled")
  PROVE  /\ Fate /\ RequestsOK' /\ ExportsOK' /\ ThingsOK' /\ OneLive' /\ StatusAgrees'
         /\ request' \in [Request -> RequestType]
<1>1. CASE request' = request
  <2>1. now' \in Nat /\ now =< now' /\ request' \in [Request -> RequestType]
    BY <1>1, LifecycleAssumption DEF ErasureInv, TypeOK
  <2> QED
    BY <1>1, <2>1, NothingWritten
<1>2. CASE /\ request' = Set(r, "failed")
           /\ r \in Erasure => \A q \in Erasure \ {r} : request[q].status \notin Live
  <2>1. /\ Fate /\ RequestsOK' /\ ExportsOK' /\ ThingsOK' /\ OneLive'
        /\ request' \in [Request -> RequestType] /\ request'[r].status = "failed"
        /\ \A q \in Request \ {r} : request'[q] = request[q]
    BY <1>2, StatusWritten DEF Gone
  <2>2. StatusAgrees'
    <3>1. CASE r \in Erasure
      <4>1. \A q \in Erasure : Is(q, "scheduled") <=> Is(q, "scheduled")'
        BY <2>1, <3>1, Names DEF Is
      <4>2. request'[r].status \in {"processing", "failed"}
        BY <2>1
      <4> QED
        BY <3>1, <4>1, <4>2 DEF StatusAgrees, Is, ErasureInv
    <3>2. CASE r \notin Erasure
      BY <2>1, <3>2, Names DEF StatusAgrees, Is, ErasureInv
    <3> QED
      BY <3>1, <3>2
  <2> QED
    BY <2>1, <2>2
<1> QED
  BY <1>1, <1>2 DEF SetFailed

LEMMA FailureStep ==
  ASSUME ErasureInv, NEW w \in Worker, Fail(w)
  PROVE  ErasureInv'
<1>1. PICK j \in Job : j = worker[w].job
  BY Memory DEF Fail
<1>2. HandlerOK(worker[w]) /\ worker[w].pc = "fail" /\ TablesType
  BY Memory, Types DEF Fail, ErasureInv
<1>3. JobsKept
  BY <1>1, JobMoves, JobsStay DEF Fail
<1>4. /\ Fate /\ RequestsOK' /\ ExportsOK' /\ ThingsOK' /\ OneLive' /\ StatusAgrees'
      /\ request' \in [Request -> RequestType]
  <2>1. CASE request' = request
    <3>1. now' \in Nat /\ now =< now' /\ request' \in [Request -> RequestType]
      BY <1>2, <2>1, LifecycleAssumption DEF TablesType, Fail
    <3> QED
      BY <1>3, <2>1, <3>1, NothingWritten DEF Fail
  <2>2. CASE j \in Request /\ request[j].status \in Failable /\ request' = SetFailed(j)
    <3>1. RequestOK(j)
      BY <2>2 DEF ErasureInv, RequestsOK
    <3>2. ~Gone /\ ~Is(j, "absent") /\ (j \in Erasure => ~Is(j, "scheduled"))
      BY <1>1, <1>2, <2>2, <3>1 DEF Failable, RequestOK, HandlerOK, Is
    <3> QED
      BY <1>3, <2>2, <3>2, FailureWritten DEF Fail
  <2> QED
    BY <1>1, <2>1, <2>2 DEF Fail
<1>5. HandlerOK(worker[w])'
  <2>1. worker'[w] = IdleWorker
    BY Types DEF Fail, ErasureInv
  <2> QED
    BY <1>4, <2>1, Idle, HandlerKeeps
<1> QED
  BY <1>2, <1>3, <1>4, <1>5, Idle, HandlerWrites DEF Fail, TablesType

LEMMA ScrubStep ==
  ASSUME ErasureInv, NEW w \in Worker, NEW r \in Erasure, r = worker[w].job,
         worker[w].pc = "finalize", Pending(r) = {}, ~Gone, Scrub(r), GoTo(w, "finalize"),
         UNCHANGED <<thing, artifact, blocked, runAt, faults, flips, now>>
  PROVE  ErasureInv'
<1>1. /\ HandlerOK(worker[w]) /\ TablesType /\ r \in Request /\ Begun(r)
      /\ worker \in [Worker -> HandlerType] /\ now \in Nat
  BY Memory, Names, Types, LifecycleAssumption DEF ErasureInv, HandlerOK, AtErasure, TablesType
<1>2. /\ user' = "gone"
      /\ \A q \in Request : request[q].status = "absent" => request'[q] = request[q]
      /\ \A q \in Request : request[q].status # "absent" =>
           /\ request'[q].status \in {"completed", "canceled"}
           /\ request'[q].due = request[q].due /\ request'[q].done = {}
  <2>1. ASSUME NEW q \in Request PROVE request[q] \in RequestType
    BY <1>1 DEF TablesType
  <2> QED
    BY <2>1 DEF Scrub, RequestType
<1>3. request' \in [Request -> RequestType]
  <2>1. ASSUME NEW q \in Request PROVE request'[q] \in RequestType
    <3>1. request[q] \in RequestType
      BY <1>1 DEF TablesType
    <3> QED
      BY <3>1 DEF Scrub, RequestType, Live, Ended
  <2> QED
    BY <2>1 DEF Scrub
<1>4. JobsKept
  <2>1. job \in [Job -> Queue!LifeType]
    BY <1>1 DEF TablesType
  <2>2. ASSUME NEW j \in Job
        PROVE  /\ job'[j] \in Queue!LifeType
               /\ job'[j].state = "absent" <=> job[j].state = "absent"
    <3>1. [job[j] EXCEPT !.state = "canceled"] \in Queue!LifeType
      BY <2>1 DEF Queue!LifeType, Queue!Over
    <3>2. job[j].state = "open" => [job[j] EXCEPT !.state = "canceled"].state = "canceled"
      BY <2>1 DEF Queue!LifeType
    <3>3. job'[j] = IF j # r /\ job[j].state = "open"
                      THEN [job[j] EXCEPT !.state = "canceled"] ELSE job[j]
      BY DEF Scrub
    <3> QED
      BY <2>1, <3>1, <3>2, <3>3
  <2>3. job' = [j \in Job |-> job'[j]]
    BY DEF Scrub
  <2>4. job' \in [Job -> Queue!LifeType]
    BY <2>2, <2>3
  <2> QED
    BY <1>1, <2>2, <2>4, Names DEF JobsKept, Exists, TablesType
<1>5. Fate
  <2>1. \A q \in Request : ~Is(q, "absent") => ~Is(q, "absent")' /\ request'[q].due = request[q].due
    BY <1>2 DEF Is
  <2>2. \A q \in Erasure : Begun(q) => Begun(q)'
    BY <1>2, Names DEF Begun, Gone, Is
  <2>3. \A q \in Erasure : request[q].status \notin {"absent", "scheduled"} =>
                            request'[q].status \notin {"absent", "scheduled"}
    BY <1>2, Names
  <2>4. \A j \in Job : Exists(j) => Exists(j)' /\ runAt'[j] = runAt[j]
    BY <1>4 DEF JobsKept, Exists
  <2> QED
    BY <1>1, <1>2, <2>1, <2>2, <2>3, <2>4 DEF Fate, Gone
<1>6. RequestsOK'
  <2> SUFFICES ASSUME NEW q \in Request PROVE RequestOK(q)'
    BY DEF RequestsOK
  <2>1. RequestOK(q)
    BY DEF ErasureInv, RequestsOK
  <2>2. Exists(q)' => Exists(q) /\ runAt'[q] = runAt[q]
    BY <1>4, Names DEF JobsKept, Exists
  <2>3. Exists(q)' => ~Is(q, "absent")' /\ (q \in Erasure => runAt'[q] = request'[q].due)
    BY <1>2, <2>1, <2>2 DEF RequestOK, Is
  <2>6. /\ q \in Export /\ Exists(ExpireJob(q))' => ~Is(q, "absent")'
        /\ request'[q].key => ~Is(q, "absent")'
    BY <1>2, <1>4, <2>1, Names DEF RequestOK, JobsKept, Exists, Is
  <2>4. \A x \in request'[q].done \intersect Thing : thing'[x] \in Erasure
    BY <1>2, <2>1 DEF RequestOK
  <2>5. request'[q].status \in {"absent", "completed", "canceled"}
    BY <1>2
  <2> QED
    BY <1>2, <2>3, <2>4, <2>5, <2>6 DEF RequestOK, Exists, Gone
<1>7. ThingsOK'
  <2> SUFFICES ASSUME NEW x \in Thing PROVE ThingOK(x)'
    BY DEF ThingsOK
  <2>1. thing[x] \in Erasure => Begun(thing[x])'
    BY <1>5 DEF Fate, ErasureInv, ThingsOK, ThingOK
  <2>2. thing[x] # "there"
    <3> SUFFICES ASSUME thing[x] = "there" PROVE FALSE
      OBVIOUS
    <3>1. x \in Listed
      BY DEF Listed
    <3>2. x \in request[r].done
      BY <3>1 DEF Pending
    <3>3. thing[x] \in Erasure
      BY <1>1, <3>2 DEF ErasureInv, RequestsOK, RequestOK
    <3> QED
      BY <3>3, LifecycleAssumption
  <2>3. thing'[x] = thing[x]
    OBVIOUS
  <2> QED
    BY <1>2, <2>1, <2>2, <2>3 DEF ThingOK, Begun, Is, Gone
<1>8. ExportsOK' /\ OneLive' /\ StatusAgrees'
  <2>1. \A q \in Erasure : request'[q].status \in {"absent", "completed", "canceled"}
    BY <1>2, Names
  <2>2. OneLive' /\ StatusAgrees'
    BY <1>2, <2>1 DEF OneLive, StatusAgrees, Is, Live
  <2> QED
    BY <1>2, <2>2 DEF ExportsOK, ExportOK, Gone
<1>9. PICK x \in HandlerType : /\ worker' = [worker EXCEPT ![w] = x]
           /\ x.pc = "finalize" /\ x.job = worker[w].job /\ x.todo = worker[w].todo
  BY Goes DEF Handlers
<1>10. HandlerOK(worker[w])'
  <2>1. HandlerOK(x)
    BY <1>1, <1>9 DEF HandlerOK, AtErasure, AtExport, AtExpiry
  <2> QED
    BY <1>1, <1>5, <1>9, <2>1, HandlerKeeps
<1> QED
  BY <1>1, <1>2, <1>3, <1>4, <1>5, <1>6, <1>7, <1>8, <1>9, <1>10, HandlerWrites DEF TablesType

LEMMA FinalizeStep ==
  ASSUME ErasureInv, NEW w \in Worker, Finalize(w)
  PROVE  ErasureInv'
<1>1. PICK r \in Erasure : r = worker[w].job
  BY Memory DEF Finalize, HandlerOK, AtErasure
<1>2. /\ HandlerOK(worker[w]) /\ worker[w].pc = "finalize" /\ TablesType /\ r \in Request
      /\ worker[w].pc \in AtErasure /\ Begun(r) /\ worker \in [Worker -> HandlerType]
  BY <1>1, Memory, Names, Types DEF Finalize, ErasureInv, HandlerOK, AtErasure
<1>3. CASE Return(w) /\ UNCHANGED <<user, request>>
  BY <1>2, <1>3, ReturnStep DEF Finalize
<1>4. CASE GoTo(w, "fail") /\ request' = request /\ UNCHANGED <<user, job>>
  BY <1>2, <1>4, FailStep DEF Finalize
<1>5. CASE ~Gone /\ GoTo(w, "fail") /\ request' = SetFailed(r) /\ UNCHANGED <<user, job>>
  <2>1. /\ Fate /\ RequestsOK' /\ ExportsOK' /\ ThingsOK' /\ OneLive' /\ StatusAgrees'
        /\ request' \in [Request -> RequestType] /\ JobsKept
    BY <1>2, <1>5, FailureWritten, JobsStay DEF Finalize, Begun, Is
  <2>2. PICK x \in HandlerType : worker' = [worker EXCEPT ![w] = x] /\ x.pc = "fail" /\ x.job = r
    BY <1>1, <1>5, Goes DEF Handlers
  <2>3. HandlerOK(worker[w])'
    <3>1. HandlerOK(x)
      BY <1>2, <2>2, Names DEF HandlerOK, AtErasure, AtExport, AtExpiry, Begun
    <3> QED
      BY <1>2, <2>1, <2>2, <3>1, HandlerKeeps
  <2> QED
    BY <1>2, <1>5, <2>1, <2>2, <2>3, HandlerWrites DEF Finalize, TablesType
<1>6. CASE Pending(r) = {} /\ ~Gone /\ Scrub(r) /\ GoTo(w, "finalize")
  BY <1>1, <1>2, <1>6, ScrubStep DEF Finalize
<1> QED
  BY <1>1, <1>3, <1>4, <1>5, <1>6 DEF Finalize, Gone

(* A job that is put in the queue, unless it is there. *)
LEMMA Inserts ==
  ASSUME ErasureInv, NEW j \in Job, NEW t \in Nat, Insert(j, t)
  PROVE  /\ job' \in [Job -> Queue!LifeType] /\ runAt' \in [Job -> Nat]
         /\ \A i \in Job : Exists(i) => job'[i].state # "absent" /\ runAt'[i] = runAt[i]
         /\ \A i \in Job \ {j} : ~Exists(i) => job'[i].state = "absent"
         /\ ~Exists(j) => job'[j].state # "absent" /\ runAt'[j] = t
<1>1. job \in [Job -> Queue!LifeType] /\ runAt \in [Job -> Nat]
  BY DEF ErasureInv, TypeOK
<1>2. CASE UNCHANGED <<job, runAt>> /\ Exists(j)
  BY <1>1, <1>2 DEF Exists
<1>3. CASE ~Exists(j) /\ ChangeJob(j, Queue!Submit) /\ runAt' = [runAt EXCEPT ![j] = t]
  <2>1. PICK k \in Queue!LifeType : job' = [job EXCEPT ![j] = k] /\ Queue!Submit(job[j], k)
    BY <1>3 DEF ChangeJob
  <2>2. k.state = "open"
    BY <2>1 DEF Queue!Submit
  <2> QED
    BY <1>1, <1>3, <2>1, <2>2 DEF Exists
<1> QED
  BY <1>2, <1>3 DEF Insert, Exists

LEMMA PrepareStep ==
  ASSUME ErasureInv, NEW w \in Worker, Prepare(w)
  PROVE  ErasureInv'
<1>1. PICK e \in Export : e = worker[w].job
  BY Memory DEF Prepare, HandlerOK, AtExport
<1>2. /\ HandlerOK(worker[w]) /\ worker[w].pc = "prepare" /\ TablesType /\ ~Is(e, "absent")
      /\ e \in Request /\ e \notin Erasure /\ RequestOK(e) /\ worker \in [Worker -> HandlerType]
      /\ request[e] \in RequestType /\ ExpireJob(e) \in Job \ Request
  BY <1>1, Memory, Names, Types, LifecycleAssumption
     DEF Prepare, ErasureInv, HandlerOK, AtExport, RequestsOK, TablesType
<1>3. CASE Is(e, "completed") /\ GoTo(w, "put") /\ UNCHANGED <<request, job, runAt>>
  <2>1. \A x \in HandlerType : x.pc = "put" /\ x.job = e => HandlerOK(x)
    BY <1>2, <1>3, Names DEF HandlerOK, AtErasure, AtExport, AtExpiry, RequestOK
  <2> QED
    BY <1>1, <1>2, <1>3, <2>1, GoToStep DEF Prepare, Handlers
<1>4. ASSUME request' = Set(e, "canceled"), Return(w), UNCHANGED runAt PROVE ErasureInv'
  <2>1. JobsKept
    BY <1>2, <1>4, Returns
  <2>2. PICK x \in HandlerType : worker' = [worker EXCEPT ![w] = x] /\ HandlerOK(x)
    BY <1>2, <1>4, Returns
  <2>3. /\ Fate /\ RequestsOK' /\ ExportsOK' /\ ThingsOK' /\ OneLive'
        /\ request' \in [Request -> RequestType]
        /\ \A q \in Request \ {e} : request'[q] = request[q]
    BY <1>2, <1>4, <2>1, StatusWritten DEF Prepare, Gone
  <2>4. StatusAgrees'
    BY <1>2, <2>3, Names DEF StatusAgrees, Is, ErasureInv, Prepare
  <2>5. HandlerOK(worker[w])'
    BY <1>2, <2>2, <2>3, HandlerKeeps
  <2> QED
    BY <1>2, <2>1, <2>2, <2>3, <2>4, <2>5, HandlerWrites DEF Prepare, TablesType
<1>5. ASSUME ~Gone, GoTo(w, "put"), Insert(ExpireJob(e), now + Retention),
             request' = [request EXCEPT ![e].key = TRUE, ![e].expires = now + Retention]
      PROVE  ErasureInv'
  <2>0. now + Retention \in Nat
    BY <1>2, LifecycleAssumption DEF TablesType
  <2>1. JobsKept
    <3>1. \A d \in Export : d # e => ExpireJob(d) \in Job \ {ExpireJob(e)}
      BY <1>1, Names
    <3>2. \A i \in Request : i \in Job \ {ExpireJob(e)}
      BY <1>2, Names
    <3>3. /\ job' \in [Job -> Queue!LifeType] /\ runAt' \in [Job -> Nat]
          /\ \A i \in Job : Exists(i) => job'[i].state # "absent" /\ runAt'[i] = runAt[i]
          /\ \A i \in Job \ {ExpireJob(e)} : ~Exists(i) => job'[i].state = "absent"
      BY <1>2, <1>5, <2>0, Inserts
    <3>4. \A d \in Export : Is(d, "absent") /\ ~Exists(ExpireJob(d)) =>
                             job'[ExpireJob(d)].state = "absent"
      BY <1>2, <3>1, <3>3
    <3> QED
      BY <3>2, <3>3, <3>4 DEF JobsKept
  <2> DEFINE v == [request[e] EXCEPT !.key = TRUE, !.expires = now + Retention]
  <2>2. /\ v \in RequestType /\ v.status = request[e].status /\ v.due = request[e].due
        /\ v.key = TRUE /\ v.done = request[e].done
    BY <1>2, <2>0 DEF RequestType
  <2>3. request' = [request EXCEPT ![e] = v]
    BY <1>2, <1>5 DEF TablesType
  <2> HIDE DEF v
  <2>4. \A x \in v.done \intersect Thing : thing[x] \in Erasure
    BY <1>2, <2>2 DEF RequestOK
  <2>5. /\ Fate /\ RequestsOK' /\ ExportsOK' /\ ThingsOK' /\ OneLive'
        /\ request' \in [Request -> RequestType]
    BY <1>2, <1>5, <2>1, <2>2, <2>3, <2>4, RequestWritten DEF Prepare, Gone, Is
  <2>6. request'[e].key = TRUE /\ \A q \in Request \ {e} : request'[q] = request[q]
    BY <1>2, <2>2, <2>3 DEF TablesType
  <2>7. StatusAgrees'
    BY <1>2, <2>6, Names DEF StatusAgrees, Is, ErasureInv, Prepare
  <2>8. PICK x \in HandlerType : worker' = [worker EXCEPT ![w] = x] /\ x.pc = "put" /\ x.job = e
    BY <1>1, <1>5, Goes DEF Handlers
  <2>9. HandlerOK(worker[w])'
    <3>1. worker'[w] = x /\ request'[e].status # "absent"
      BY <1>2, <2>2, <2>3, <2>8 DEF Is, TablesType
    <3> QED
      BY <1>2, <2>6, <2>8, <3>1, Names
         DEF HandlerOK, AtErasure, AtExport, AtExpiry, Named, Is
  <2> QED
    BY <1>2, <2>1, <2>5, <2>7, <2>8, <2>9, HandlerWrites DEF Prepare, TablesType
<1> QED
  BY <1>1, <1>3, <1>4, <1>5 DEF Prepare, AbortsExport, Gone

LEMMA CompleteStep ==
  ASSUME ErasureInv, NEW w \in Worker, Complete(w)
  PROVE  ErasureInv'
<1>1. PICK e \in Export : e = worker[w].job
  BY Memory DEF Complete, HandlerOK, AtExport
<1>2. /\ HandlerOK(worker[w]) /\ worker[w].pc = "complete" /\ TablesType /\ ~Is(e, "absent")
      /\ e \in Request /\ e \notin Erasure /\ RequestOK(e) /\ worker \in [Worker -> HandlerType]
      /\ request[e] \in RequestType
  BY <1>1, Memory, Names, Types, LifecycleAssumption
     DEF Complete, ErasureInv, HandlerOK, AtExport, RequestsOK, TablesType
<1>3. CASE Return(w) /\ UNCHANGED request
  BY <1>2, <1>3, ReturnStep DEF Complete
<1>4. CASE GoTo(w, "undo") /\ UNCHANGED <<request, job>>
  <2>1. \A x \in HandlerType : x.pc = "undo" /\ x.job = e => HandlerOK(x)
    BY <1>2, Names DEF HandlerOK, AtErasure, AtExport, AtExpiry
  <2> QED
    BY <1>1, <1>2, <1>4, <2>1, GoToStep DEF Complete, Handlers
<1>5. ASSUME ~Gone, Return(w),
             request' = [request EXCEPT ![e].status = "completed", ![e].key = TRUE,
                           ![e].expires = now + Retention]
      PROVE  ErasureInv'
  <2>0. now + Retention \in Nat
    BY <1>2, LifecycleAssumption DEF TablesType
  <2>1. JobsKept
    BY <1>2, <1>5, Returns DEF Complete
  <2> DEFINE v == [request[e] EXCEPT !.status = "completed", !.key = TRUE,
                     !.expires = now + Retention]
  <2>2. /\ v \in RequestType /\ v.status = "completed" /\ v.due = request[e].due
        /\ v.key = TRUE /\ v.done = request[e].done
    BY <1>2, <2>0 DEF RequestType, Ended
  <2>3. request' = [request EXCEPT ![e] = v]
    BY <1>2, <1>5 DEF TablesType
  <2> HIDE DEF v
  <2>4. \A x \in v.done \intersect Thing : thing[x] \in Erasure
    BY <1>2, <2>2 DEF RequestOK
  <2>5. /\ Fate /\ RequestsOK' /\ ExportsOK' /\ ThingsOK' /\ OneLive'
        /\ request' \in [Request -> RequestType]
    BY <1>2, <1>5, <2>1, <2>2, <2>3, <2>4, RequestWritten DEF Complete, Gone, Is
  <2>6. \A q \in Request \ {e} : request'[q] = request[q]
    BY <1>2, <2>3 DEF TablesType
  <2>7. StatusAgrees'
    BY <1>2, <2>6, Names DEF StatusAgrees, Is, ErasureInv, Complete
  <2>8. PICK x \in HandlerType : worker' = [worker EXCEPT ![w] = x] /\ HandlerOK(x)
    BY <1>2, <1>5, Returns DEF Complete
  <2>9. HandlerOK(worker[w])'
    BY <1>2, <2>5, <2>8, HandlerKeeps
  <2> QED
    BY <1>2, <2>1, <2>5, <2>7, <2>8, <2>9, HandlerWrites DEF Complete, TablesType
<1> QED
  BY <1>1, <1>3, <1>4, <1>5 DEF Complete, Gone

LEMMA RecordStep ==
  ASSUME ErasureInv, NEW w \in Worker, Record(w)
  PROVE  ErasureInv'
<1>1. PICK r \in Erasure : r = worker[w].job
  BY Memory DEF Record, HandlerOK, AtErasure
<1>2. /\ worker[w] \in HandlerType /\ HandlerOK(worker[w]) /\ worker[w].pc = "record"
      /\ TablesType /\ r \in Request /\ RequestOK(r) /\ worker \in [Worker -> HandlerType]
      /\ request[r] \in RequestType /\ Begun(r)
  BY <1>1, Memory, Names, Types
     DEF Record, ErasureInv, HandlerOK, AtErasure, RequestsOK, TablesType
<1>3. PICK y \in Thing \union Export : y = worker[w].at /\ (y \in Thing => thing[y] \in Erasure)
  BY <1>2 DEF HandlerOK, HandlerType
<1>4. JobsKept
  BY JobsStay DEF Record
<1> DEFINE v == [request[r] EXCEPT !.done = @ \union {y}]
<1>5. /\ v \in RequestType /\ v.status = request[r].status /\ v.due = request[r].due
      /\ v.key = request[r].key /\ v.done = request[r].done \union {y}
  BY <1>2 DEF RequestType
<1>6. request' = [request EXCEPT ![r] = v]
  BY <1>1, <1>2, <1>3 DEF TablesType, Record
<1> HIDE DEF v
<1>7. \A x \in v.done \intersect Thing : thing[x] \in Erasure
  BY <1>2, <1>3, <1>5 DEF RequestOK
<1>8. v.status \in Live => \A q \in Erasure \ {r} : request[q].status \notin Live
  BY <1>5 DEF ErasureInv, OneLive
<1>9. /\ v.status = "canceled" => Is(r, "canceled")
      /\ v.status # "scheduled" /\ ~Is(r, "absent") /\ v.status # "absent"
      /\ Gone => v.status \in {"completed", "canceled"}
  BY <1>2, <1>5 DEF Is, Begun, RequestOK
<1>10. (user' = "gone") = Gone
  BY DEF Record, Gone
<1>11. /\ Fate /\ RequestsOK' /\ ExportsOK' /\ ThingsOK' /\ OneLive'
      /\ request' \in [Request -> RequestType]
  BY <1>2, <1>4, <1>5, <1>6, <1>7, <1>8, <1>9, <1>10, RequestWritten, LifecycleAssumption DEF Record
<1>12. StatusAgrees'
  <2>1. \A q \in Request : request'[q].status = request[q].status
    BY <1>2, <1>5, <1>6 DEF TablesType
  <2> QED
    BY <2>1, Names DEF StatusAgrees, Is, ErasureInv, Record
<1> DEFINE todo == worker[w].todo \ {y}
           x == [worker[w] EXCEPT !.pc = Loop(todo), !.todo = todo, !.at = None]
<1>13. todo \subseteq worker[w].todo /\ todo \in SUBSET (Thing \union Export)
  BY <1>2 DEF HandlerType
<1>14. Loop(todo) \in {"finalize", "effect"}
  BY DEF Loop
<1>15. worker' = [worker EXCEPT ![w] = x]
  BY <1>2, <1>3 DEF Record
<1> HIDE DEF todo
<1>16. /\ x \in HandlerType /\ x.pc \in {"finalize", "effect"}
      /\ x.job = r /\ x.todo = todo
  BY <1>1, <1>2, <1>13, <1>14 DEF HandlerType
<1> HIDE DEF x
<1>17. HandlerOK(x)
  BY <1>1, <1>2, <1>13, <1>16 DEF HandlerOK, AtErasure, AtExport, AtExpiry
<1>18. HandlerOK(worker[w])'
  BY <1>2, <1>11, <1>15, <1>16, <1>17, HandlerKeeps
<1> QED
  BY <1>2, <1>4, <1>11, <1>12, <1>15, <1>16, <1>18, HandlerWrites DEF Record, TablesType

LEMMA ClearStep ==
  ASSUME ErasureInv, NEW w \in Worker, Clear(w)
  PROVE  ErasureInv'
<1>1. PICK e \in Export : e = ExportOf(worker[w].job) /\ ExpireJob(e) = worker[w].job
  BY Memory, Names DEF Clear, HandlerOK, AtExpiry
<1>2. /\ HandlerOK(worker[w]) /\ worker[w].pc = "clear" /\ TablesType
      /\ Exists(ExpireJob(e)) /\ runAt[ExpireJob(e)] =< now /\ ExpireJob(e) \in Job
      /\ e \in Request /\ e \notin Erasure /\ RequestOK(e) /\ worker \in [Worker -> HandlerType]
      /\ request[e] \in RequestType
  BY <1>1, Memory, Names, Types, LifecycleAssumption
     DEF Clear, ErasureInv, HandlerOK, AtExpiry, RequestsOK, TablesType
<1>3. JobsKept
  BY <1>2, Returns DEF Clear
<1>4. PICK x \in HandlerType : worker' = [worker EXCEPT ![w] = x] /\ HandlerOK(x)
  BY <1>2, Returns DEF Clear
<1> DEFINE v == [request[e] EXCEPT !.key = FALSE]
<1>5. /\ v \in RequestType /\ v.status = request[e].status /\ v.due = request[e].due
      /\ v.done = request[e].done
  BY <1>2 DEF RequestType
<1>6. request' = [request EXCEPT ![e] = v]
  BY <1>1, <1>2 DEF TablesType, Clear
<1> HIDE DEF v
<1>7. \A y \in v.done \intersect Thing : thing[y] \in Erasure
  BY <1>2, <1>5 DEF RequestOK
<1>8. job'[ExpireJob(e)].state # "absent" /\ runAt'[ExpireJob(e)] =< now
  BY <1>2, <1>3 DEF JobsKept
<1>9. ~Is(e, "absent")
  BY <1>2 DEF RequestOK
<1> QED
  <2>1. Gone => v.status \in {"completed", "canceled"}
    BY <1>2, <1>5, <1>9 DEF RequestOK, Is
  <2>2. (user' = "gone") = Gone
    BY DEF Clear, Gone
  <2>3. /\ Fate /\ RequestsOK' /\ ExportsOK' /\ ThingsOK' /\ OneLive'
        /\ request' \in [Request -> RequestType]
    BY <1>2, <1>3, <1>5, <1>6, <1>7, <1>8, <1>9, <2>1, <2>2, RequestWritten DEF Clear, Is
  <2>4. StatusAgrees'
    <3>1. \A q \in Request : request'[q].status = request[q].status
      BY <1>2, <1>5, <1>6 DEF TablesType
    <3> QED
      BY <3>1, Names DEF StatusAgrees, Is, ErasureInv, Clear
  <2>5. HandlerOK(worker[w])'
    BY <1>2, <1>4, <2>3, HandlerKeeps
  <2> QED
    BY <1>2, <1>3, <1>4, <2>3, <2>4, <2>5, HandlerWrites DEF Clear, TablesType

-----------------------------------------------------------------------------
(* Steps outside the database. *)

LEMMA OutsideWritten ==
  ASSUME ErasureInv, UNCHANGED <<user, request, job, runAt, now>>,
         thing' \in [Thing -> {"none", "there", "orphan"} \union Erasure],
         \A x \in Thing : /\ thing[x] \notin {"none", "orphan"} =>
                               thing'[x] \notin {"none", "orphan"}
                          /\ thing[x] \in Erasure => thing'[x] = thing[x]
                          /\ \A r \in Erasure : thing'[x] = r => thing[x] = r \/ Begun(r)
                          /\ Gone => thing'[x] # "there"
                          /\ ~Gone => thing'[x] # "orphan",
         \A e \in Export : artifact'[e] => artifact[e] \/ Gone \/ Named(e)
  PROVE  /\ Fate /\ RequestsOK' /\ ExportsOK' /\ ThingsOK' /\ OneLive' /\ StatusAgrees'
         /\ JobsKept
<1>1. /\ thing \in [Thing -> {"none", "there", "orphan"} \union Erasure] /\ now \in Nat /\ JobsKept
  BY LifecycleAssumption, JobsStay DEF ErasureInv, TypeOK
<1>2. \A q \in Erasure : Begun(q) => Begun(q)'
  BY DEF Begun, Gone, Is
<1>3. Fate
  BY <1>1, <1>2 DEF Fate, Is, Exists, Gone, Named
<1>4. RequestsOK'
  <2> SUFFICES ASSUME NEW q \in Request PROVE RequestOK(q)'
    BY DEF RequestsOK
  <2>1. RequestOK(q)
    BY DEF ErasureInv, RequestsOK
  <2>2. \A x \in request'[q].done \intersect Thing : thing'[x] \in Erasure
    BY <1>1, <2>1 DEF RequestOK
  <2> QED
    BY <2>1, <2>2 DEF RequestOK, Exists, Is, Named, Gone
<1>5. ExportsOK'
  BY DEF ErasureInv, ExportsOK, ExportOK, Gone, Named, Exists
<1>6. ThingsOK'
  <2> SUFFICES ASSUME NEW x \in Thing PROVE ThingOK(x)'
    BY DEF ThingsOK
  <2>1. \A r \in Erasure : thing'[x] = r => Begun(r)'
    BY <1>2 DEF ErasureInv, ThingsOK, ThingOK
  <2> QED
    BY <2>1 DEF ThingOK, Begun, Is, Gone
<1> QED
  BY <1>1, <1>3, <1>4, <1>5, <1>6 DEF OneLive, StatusAgrees, Is, ErasureInv

LEMMA ArriveStep ==
  ASSUME ErasureInv, NEW x \in Late, Arrive(x)
  PROVE  ErasureInv'
<1>1. TablesType /\ x \in Thing /\ x \notin Erasure
  BY Types, LifecycleAssumption, Names DEF ErasureInv
<1>2. thing' \in [Thing -> {"none", "there", "orphan"} \union Erasure]
  BY <1>1 DEF TablesType, Arrive
<1>3. \A y \in Thing : /\ thing[y] \notin {"none", "orphan"} =>
                            thing'[y] \notin {"none", "orphan"}
                       /\ thing[y] \in Erasure => thing'[y] = thing[y]
                       /\ \A r \in Erasure : thing'[y] = r => thing[y] = r \/ Begun(r)
                       /\ Gone => thing'[y] # "there"
                       /\ ~Gone => thing'[y] # "orphan"
  BY <1>1, LifecycleAssumption DEF TablesType, Arrive, Gone, ErasureInv, ThingsOK, ThingOK
<1>4. /\ Fate /\ RequestsOK' /\ ExportsOK' /\ ThingsOK' /\ OneLive' /\ StatusAgrees'
      /\ JobsKept
  BY <1>2, <1>3, OutsideWritten DEF Arrive
<1>5. HandlersOK' /\ worker' \in [Worker -> HandlerType]
  BY <1>4, HandlersKeep DEF Arrive
<1>6. TablesType'
  BY <1>1, <1>2 DEF TablesType, Arrive
<1> QED
  BY <1>4, <1>5, <1>6, TypesNext DEF ErasureInv

LEMMA EffectStep ==
  ASSUME ErasureInv, NEW w \in Worker, Effect(w)
  PROVE  ErasureInv'
<1>1. PICK r \in Erasure : r = worker[w].job
  BY Memory DEF Effect, HandlerOK, AtErasure
<1>2. PICK x \in worker[w].todo :
        /\ thing' = IF x \in Thing THEN [thing EXCEPT ![x] = Removed(x, r)] ELSE thing
        /\ artifact' = IF x \in Export THEN [artifact EXCEPT ![x] = FALSE] ELSE artifact
        /\ worker' = [worker EXCEPT ![w].pc = "record", ![w].at = x]
  BY <1>1 DEF Effect
<1>3. /\ worker[w] \in HandlerType /\ HandlerOK(worker[w]) /\ worker[w].pc \in AtErasure
      /\ TablesType /\ Begun(r) /\ worker \in [Worker -> HandlerType]
      /\ x \in Thing => thing[x] \notin {"none", "orphan"}
  BY <1>1, Memory, Types DEF Effect, ErasureInv, HandlerOK, AtErasure
<1>4. x \in Thing \union Export /\ x # None
  BY <1>3, LifecycleAssumption, Names DEF HandlerType
<1>5. x \in Thing => Removed(x, r) \in Erasure /\ (thing[x] \in Erasure => Removed(x, r) = thing[x])
                    /\ (thing[x] # Removed(x, r) => Removed(x, r) = r)
  BY <1>3, LifecycleAssumption DEF Removed, TablesType
<1>6. /\ thing' \in [Thing -> {"none", "there", "orphan"} \union Erasure]
      /\ artifact' \in [Export -> BOOLEAN]
  BY <1>2, <1>3, <1>5 DEF TablesType
<1>7. \A y \in Thing : /\ thing[y] \notin {"none", "orphan"} =>
                            thing'[y] \notin {"none", "orphan"}
                       /\ thing[y] \in Erasure => thing'[y] = thing[y]
                       /\ \A q \in Erasure : thing'[y] = q => thing[y] = q \/ Begun(q)
                       /\ Gone => thing'[y] # "there"
                       /\ ~Gone => thing'[y] # "orphan"
  <2> SUFFICES ASSUME NEW y \in Thing
               PROVE  /\ thing[y] \notin {"none", "orphan"} =>
                           thing'[y] \notin {"none", "orphan"}
                      /\ thing[y] \in Erasure => thing'[y] = thing[y]
                      /\ \A q \in Erasure : thing'[y] = q => thing[y] = q \/ Begun(q)
                      /\ Gone => thing'[y] # "there"
                      /\ ~Gone => thing'[y] # "orphan"
    OBVIOUS
  <2>1. CASE y = x
    BY <1>2, <1>3, <1>5, <2>1, LifecycleAssumption DEF TablesType
  <2>2. CASE y # x
    <3>1. thing'[y] = thing[y]
      BY <1>2, <1>3, <2>2 DEF TablesType
    <3> QED
      BY <3>1 DEF ErasureInv, ThingsOK, ThingOK
  <2> QED
    BY <2>1, <2>2
<1>8. \A e \in Export : artifact'[e] => artifact[e]
  BY <1>2, <1>3 DEF TablesType
<1>9. /\ Fate /\ RequestsOK' /\ ExportsOK' /\ ThingsOK' /\ OneLive' /\ StatusAgrees'
      /\ JobsKept
  BY <1>6, <1>7, <1>8, OutsideWritten DEF Effect
<1> DEFINE h == [worker[w] EXCEPT !.pc = "record", !.at = x]
<1>10. /\ h \in HandlerType /\ h.pc = "record" /\ h.job = r /\ h.todo = worker[w].todo
       /\ h.at = x
  BY <1>1, <1>3, <1>4 DEF HandlerType
<1>11. worker' = [worker EXCEPT ![w] = h]
  BY <1>2, <1>3
<1> HIDE DEF h
<1>12. HandlerOK(worker[w])'
  <2>1. worker'[w] = h /\ r \in Job
    BY <1>3, <1>11, Names
  <2>2. Begun(r)'
    BY <1>3, <1>9 DEF Fate
  <2>3. \A y \in h.todo \intersect Thing : thing'[y] \notin {"none", "orphan"}
    BY <1>1, <1>3, <1>7, <1>10 DEF HandlerOK
  <2>4. x \in Thing => thing'[x] \in Erasure
    BY <1>2, <1>3, <1>5 DEF TablesType
  <2> QED
    BY <1>4, <1>10, <2>1, <2>2, <2>3, <2>4 DEF HandlerOK, AtErasure, AtExport, AtExpiry
<1> QED
  BY <1>3, <1>6, <1>9, <1>10, <1>11, <1>12, HandlerWrites DEF Effect, TablesType

LEMMA DocumentStep ==
  ASSUME ErasureInv, NEW w \in Worker, Put(w) \/ Remove(w)
  PROVE  ErasureInv'
<1>1. /\ worker[w] \in HandlerType /\ HandlerOK(worker[w]) /\ TablesType
      /\ worker \in [Worker -> HandlerType]
  BY Memory, Types DEF ErasureInv
<1>2. \A e \in Export : artifact'[e] => artifact[e] \/ Gone \/ Named(e)
  BY <1>1 DEF Put, Remove, TablesType, HandlerOK
<1>3. /\ Fate /\ RequestsOK' /\ ExportsOK' /\ ThingsOK' /\ OneLive' /\ StatusAgrees'
      /\ JobsKept
  <2>1. /\ thing' \in [Thing -> {"none", "there", "orphan"} \union Erasure]
        /\ \A x \in Thing : /\ Gone => thing'[x] # "there"
                            /\ ~Gone => thing'[x] # "orphan"
    BY <1>1 DEF Put, Remove, TablesType, ErasureInv, ThingsOK, ThingOK
  <2> QED
    BY <1>2, <2>1, OutsideWritten DEF Put, Remove
<1>4. artifact' \in [Export -> BOOLEAN]
  BY <1>1 DEF Put, Remove, TablesType
<1>5. PICK x \in HandlerType :
        /\ worker' = [worker EXCEPT ![w] = x] /\ x.job = worker[w].job
        /\ \/ worker[w].pc = "put" /\ x.pc = "complete"
           \/ worker[w].pc = "remove" /\ x.pc = "clear"
  BY Goes DEF Put, Remove, Handlers
<1>6. HandlerOK(worker[w])'
  <2>1. HandlerOK(x)
    BY <1>1, <1>5 DEF HandlerOK, AtErasure, AtExport, AtExpiry
  <2> QED
    BY <1>1, <1>3, <1>5, <2>1, HandlerKeeps
<1> QED
  BY <1>1, <1>3, <1>4, <1>5, <1>6, HandlerWrites DEF Put, Remove, TablesType

LEMMA UndoStep ==
  ASSUME ErasureInv, NEW w \in Worker, Undo(w)
  PROVE  ErasureInv'
<1>1. HandlerOK(worker[w]) /\ TablesType /\ worker[w].pc = "undo" /\ worker[w].job \in Export
      /\ worker \in [Worker -> HandlerType] /\ now \in Nat
  BY Memory, Types, LifecycleAssumption DEF ErasureInv, Undo, HandlerOK, AtExport, TablesType
<1>2. JobsKept
  BY <1>1, Returns DEF Undo
<1>3. PICK x \in HandlerType : worker' = [worker EXCEPT ![w] = x] /\ HandlerOK(x)
  BY <1>1, Returns DEF Undo
<1>4. artifact' \in [Export -> BOOLEAN] /\ \A e \in Export : artifact'[e] => artifact[e]
  BY <1>1 DEF Undo, TablesType
<1>5. /\ Fate /\ RequestsOK' /\ ExportsOK' /\ ThingsOK' /\ OneLive' /\ StatusAgrees'
  BY <1>1, <1>2, <1>4, NothingWritten DEF Undo
<1>6. HandlerOK(worker[w])'
  BY <1>1, <1>3, <1>5, HandlerKeeps
<1> QED
  BY <1>1, <1>2, <1>3, <1>4, <1>5, <1>6, HandlerWrites DEF Undo, TablesType

-----------------------------------------------------------------------------
(* Steps of the person. *)

LEMMA PersonWrites ==
  ASSUME ErasureInv, UNCHANGED Outside,
         job' \in [Job -> Queue!LifeType], runAt' \in [Job -> Nat],
         Fate, RequestsOK', ExportsOK', ThingsOK', OneLive', StatusAgrees',
         user' \in {"active", "deletion_pending", "erasing", "gone"},
         request' \in [Request -> RequestType]
  PROVE  ErasureInv'
<1>1. TablesType /\ UNCHANGED <<thing, artifact, blocked, worker, faults, flips, now>>
  BY Types DEF ErasureInv, Outside
<1>2. HandlersOK' /\ worker' \in [Worker -> HandlerType]
  BY <1>1, HandlersKeep
<1>3. TablesType'
  BY <1>1 DEF TablesType
<1> QED
  BY <1>2, <1>3, TypesNext DEF ErasureInv

LEMMA CancelStep ==
  ASSUME ErasureInv, NEW r \in Erasure, Cancel(r)
  PROVE  ErasureInv'
<1>1. r \in Request /\ r \in Job /\ Is(r, "scheduled")
  BY Names DEF Cancel, Cancelable
<1>2. JobsKept
  BY <1>1, JobMoves DEF Cancel
<1>3. /\ ~Gone /\ \A q \in Erasure \ {r} : request[q].status \notin Live
  BY <1>1, OthersDead DEF Is, Ended
<1>4. /\ Fate /\ RequestsOK' /\ ExportsOK' /\ ThingsOK' /\ OneLive'
      /\ request' \in [Request -> RequestType] /\ request'[r].status = "canceled"
      /\ \A q \in Request \ {r} : request'[q] = request[q]
  <2>1. (user' = "gone") = Gone /\ "canceled" \notin Live /\ ~Is(r, "absent")
    BY <1>1, <1>3 DEF Cancel, Gone, Live, Is
  <2> QED
    BY <1>1, <1>2, <1>3, <2>1, StatusWritten DEF Cancel
<1>5. StatusAgrees'
  BY <1>3, <1>4, Names DEF StatusAgrees, Is, Live, Cancel
<1> QED
  BY <1>2, <1>4, <1>5, PersonWrites DEF Cancel, Outside, JobsKept

(* A request is made, and perhaps its job. *)
LEMMA RequestMade ==
  ASSUME ErasureInv, UNCHANGED <<thing, artifact, now>>, ~Gone, user' # "gone",
         NEW r \in Request, Is(r, "absent"), NEW v \in RequestType,
         request' = [request EXCEPT ![r] = v],
         v.status \in {"scheduled", "blocked"}, v.done = request[r].done,
         \/ UNCHANGED <<job, runAt>>
         \/ Insert(r, v.due),
         r \in Erasure /\ v.status = "scheduled" => NoActiveErasure
  PROVE  /\ Fate /\ RequestsOK' /\ ExportsOK' /\ ThingsOK' /\ OneLive'
         /\ job' \in [Job -> Queue!LifeType] /\ runAt' \in [Job -> Nat]
         /\ request' \in [Request -> RequestType] /\ request'[r] = v
         /\ \A q \in Request \ {r} : request'[q] = request[q]
<1>1. /\ request \in [Request -> RequestType] /\ request' \in [Request -> RequestType]
      /\ request'[r] = v /\ \A q \in Request \ {r} : request'[q] = request[q]
      /\ thing \in [Thing -> {"none", "there", "orphan"} \union Erasure] /\ now \in Nat
      /\ r \in Job /\ v.due \in Nat /\ RequestOK(r)
      /\ job \in [Job -> Queue!LifeType] /\ runAt \in [Job -> Nat]
  BY LifecycleAssumption, Names DEF ErasureInv, TypeOK, RequestType, RequestsOK
<1>2. /\ job' \in [Job -> Queue!LifeType] /\ runAt' \in [Job -> Nat] /\ ~Exists(r)
      /\ \A j \in Job : Exists(j) => job'[j].state # "absent" /\ runAt'[j] = runAt[j]
      /\ \A j \in Job \ {r} : ~Exists(j) => job'[j].state = "absent"
      /\ job'[r].state # "absent" => runAt'[r] = v.due
  <2>1. ~Exists(r)
    BY <1>1 DEF RequestOK
  <2>2. CASE UNCHANGED <<job, runAt>>
    BY <1>1, <2>1, <2>2 DEF Exists
  <2>3. CASE Insert(r, v.due)
    <3>1. /\ job' \in [Job -> Queue!LifeType] /\ runAt' \in [Job -> Nat]
          /\ \A i \in Job : Exists(i) => job'[i].state # "absent" /\ runAt'[i] = runAt[i]
          /\ \A i \in Job \ {r} : ~Exists(i) => job'[i].state = "absent"
          /\ ~Exists(r) => job'[r].state # "absent" /\ runAt'[r] = v.due
      BY <1>1, <2>3, Inserts
    <3> QED
      BY <2>1, <3>1
  <2> QED
    BY <2>2, <2>3
<1>3. \A e \in Export : ExpireJob(e) \in Job \ {r}
  BY Names
<1>4. Fate
  <2>1. \A q \in Request : ~Is(q, "absent") => ~Is(q, "absent")' /\ request'[q].due = request[q].due
    BY <1>1 DEF Is
  <2>2. \A q \in Erasure : Begun(q) => Begun(q)'
    BY <1>1, Names DEF Begun, Gone, Is
  <2>3. \A q \in Erasure : request[q].status \notin {"absent", "scheduled"} =>
                            request'[q].status \notin {"absent", "scheduled"}
    BY <1>1, Names DEF Is
  <2>4. \A j \in Job : Exists(j) => Exists(j)' /\ runAt'[j] = runAt[j]
    BY <1>2 DEF Exists
  <2>5. \A e \in Export : Gone \/ Named(e) => (Gone \/ Named(e))'
    <3> SUFFICES ASSUME NEW e \in Export, Named(e) PROVE Named(e)'
      OBVIOUS
    <3>1. CASE e = r
      <4>1. (Exists(ExpireJob(e)) /\ runAt[ExpireJob(e)] =< now) \/ request[r].key
        BY <3>1 DEF Named
      <4>2. ~Exists(ExpireJob(e))
        BY <1>1, <3>1 DEF RequestOK
      <4>3. ~request[r].key
        BY <1>1 DEF RequestOK
      <4> QED
        BY <4>1, <4>2, <4>3
    <3>2. CASE e # r
      BY <1>1, <1>2, <1>3, <3>2, Names DEF Named, Exists
    <3> QED
      BY <3>1, <3>2
  <2> QED
    BY <1>1, <2>1, <2>2, <2>3, <2>4, <2>5 DEF Fate, Gone
<1>5. RequestsOK'
  <2> SUFFICES ASSUME NEW q \in Request PROVE RequestOK(q)'
    BY DEF RequestsOK
  <2>1. RequestOK(q) /\ ~Gone'
    BY DEF ErasureInv, RequestsOK, Gone
  <2>2. CASE q = r
    <3>1. request'[q].status # "absent" /\ request'[q].status # "completed"
      BY <1>1, <2>2
    <3>2. Exists(q)' => runAt'[q] = request'[q].due
      BY <1>1, <1>2, <2>2 DEF Exists
    <3>3. \A x \in request'[q].done \intersect Thing : thing'[x] \in Erasure
      BY <1>1, <2>1, <2>2 DEF RequestOK
    <3> QED
      BY <2>1, <3>1, <3>2, <3>3 DEF RequestOK, Is
  <2>3. CASE q # r
    <3>1. request'[q] = request[q] /\ q \in Job /\ (Exists(q)' => Exists(q) /\ runAt'[q] = runAt[q])
      BY <1>1, <1>2, <2>3, Names DEF Exists
    <3>2. q \in Export => (Exists(ExpireJob(q))' => Exists(ExpireJob(q)))
      BY <1>2, <1>3 DEF Exists
    <3>3. q \in Export => (Named(q) => Named(q)')
      BY <2>1, <1>4 DEF Fate
    <3> QED
      BY <2>1, <3>1, <3>2, <3>3 DEF RequestOK, Is, Gone
  <2> QED
    BY <2>2, <2>3
<1>6. ExportsOK' /\ ThingsOK'
  <2>1. \A e \in Export : artifact[e] => (Gone \/ Named(e))'
    BY <1>4 DEF ErasureInv, ExportsOK, ExportOK, Fate
  <2>2. \A x \in Thing : thing[x] \in Erasure => Begun(thing[x])'
    BY <1>4 DEF ErasureInv, ThingsOK, ThingOK, Fate
  <2>3. \A x \in Thing : thing[x] # "orphan" /\ ~Gone'
    BY DEF ErasureInv, ThingsOK, ThingOK, Gone
  <2> QED
    BY <2>1, <2>2, <2>3
       DEF ExportsOK, ExportOK, ThingsOK, ThingOK, Begun, Gone, Named, Is, Exists
<1>7. OneLive'
  BY <1>1, Names DEF ErasureInv, OneLive, NoActiveErasure, Live
<1> QED
  BY <1>1, <1>2, <1>4, <1>5, <1>6, <1>7

LEMMA RequestErasureStep ==
  ASSUME ErasureInv, NEW r \in Erasure, RequestErasure(r)
  PROVE  ErasureInv'
<1>1. /\ r \in Request /\ Is(r, "absent") /\ ~Gone /\ user # "erasing" /\ NoActiveErasure
      /\ TablesType /\ request[r] \in RequestType /\ now \in Nat /\ now + Grace \in Nat
      /\ UNCHANGED <<thing, artifact, blocked, worker, faults, flips, now>>
  BY Names, Types, LifecycleAssumption DEF RequestErasure, Gone, ErasureInv, TablesType, Outside
<1>2. CASE request' = Set(r, "blocked") /\ UNCHANGED <<user, job, runAt>>
  <2> DEFINE v == [request[r] EXCEPT !.status = "blocked"]
  <2>1. v \in RequestType /\ v.status = "blocked" /\ v.done = request[r].done
    BY <1>1 DEF RequestType, Ended
  <2>2. request' = [request EXCEPT ![r] = v]
    BY <1>1, <1>2 DEF TablesType, Set
  <2> HIDE DEF v
  <2>3. /\ Fate /\ RequestsOK' /\ ExportsOK' /\ ThingsOK' /\ OneLive'
        /\ job' \in [Job -> Queue!LifeType] /\ runAt' \in [Job -> Nat]
        /\ request' \in [Request -> RequestType] /\ request'[r] = v
        /\ \A q \in Request \ {r} : request'[q] = request[q]
    BY <1>1, <1>2, <2>1, <2>2, RequestMade DEF Gone
  <2>4. StatusAgrees'
    BY <1>1, <1>2, <2>1, <2>3, Names DEF StatusAgrees, Is, ErasureInv
  <2> QED
    BY <1>1, <1>2, <2>3, <2>4, PersonWrites DEF TablesType, Outside
<1>3. CASE /\ request' = [request EXCEPT ![r].status = "scheduled", ![r].due = now + Grace]
           /\ Insert(r, now + Grace) /\ user' = "deletion_pending"
  <2> DEFINE v == [request[r] EXCEPT !.status = "scheduled", !.due = now + Grace]
  <2>1. /\ v \in RequestType /\ v.status = "scheduled" /\ v.done = request[r].done
        /\ v.due = now + Grace
    BY <1>1 DEF RequestType, Live
  <2>2. request' = [request EXCEPT ![r] = v]
    BY <1>1, <1>3 DEF TablesType
  <2> HIDE DEF v
  <2>3. /\ Fate /\ RequestsOK' /\ ExportsOK' /\ ThingsOK' /\ OneLive'
        /\ job' \in [Job -> Queue!LifeType] /\ runAt' \in [Job -> Nat]
        /\ request' \in [Request -> RequestType] /\ request'[r] = v
        /\ \A q \in Request \ {r} : request'[q] = request[q]
    BY <1>1, <1>3, <2>1, <2>2, RequestMade
  <2>4. StatusAgrees'
    BY <1>3, <2>1, <2>3, Names DEF StatusAgrees, Is
  <2> QED
    BY <1>1, <1>3, <2>3, <2>4, PersonWrites DEF Outside
<1> QED
  BY <1>2, <1>3 DEF RequestErasure

LEMMA RequestExportStep ==
  ASSUME ErasureInv, NEW e \in Export, RequestExport(e)
  PROVE  ErasureInv'
<1>1. /\ e \in Request /\ e \notin Erasure /\ Is(e, "absent") /\ ~Gone /\ user' = user
      /\ TablesType /\ request[e] \in RequestType /\ now \in Nat
      /\ UNCHANGED <<thing, artifact, blocked, worker, faults, flips, now>>
  BY Names, Types, LifecycleAssumption DEF RequestExport, Gone, ErasureInv, TablesType
<1> DEFINE v == [request[e] EXCEPT !.status = "scheduled", !.due = now]
<1>2. /\ v \in RequestType /\ v.status = "scheduled" /\ v.done = request[e].done
      /\ v.due = now
  BY <1>1 DEF RequestType, Live
<1>3. request' = [request EXCEPT ![e] = v]
  BY <1>1 DEF TablesType, RequestExport
<1> HIDE DEF v
<1>4. /\ Fate /\ RequestsOK' /\ ExportsOK' /\ ThingsOK' /\ OneLive'
      /\ job' \in [Job -> Queue!LifeType] /\ runAt' \in [Job -> Nat]
      /\ request' \in [Request -> RequestType]
      /\ \A q \in Request \ {e} : request'[q] = request[q]
  <2>1. Insert(e, v.due)
    BY <1>2 DEF RequestExport
  <2> QED
    BY <1>1, <1>2, <1>3, <2>1, RequestMade DEF Gone
<1>5. StatusAgrees'
  BY <1>1, <1>4, Names DEF StatusAgrees, Is, ErasureInv
<1> QED
  BY <1>1, <1>4, <1>5, PersonWrites DEF TablesType, Outside

-----------------------------------------------------------------------------
(* Every step keeps the invariant. *)

LEMMA NextErasureInv == ErasureInv /\ [Next]_vars => ErasureInv'
<1> SUFFICES ASSUME ErasureInv, [Next]_vars PROVE ErasureInv'
  OBVIOUS
<1>1. ASSUME NEW r \in Erasure, RequestErasure(r) \/ Cancel(r) PROVE ErasureInv'
  BY <1>1, RequestErasureStep, CancelStep
<1>2. ASSUME NEW e \in Export, RequestExport(e) PROVE ErasureInv'
  BY <1>2, RequestExportStep
<1>3. ASSUME NEW x \in Late, Arrive(x) PROVE ErasureInv'
  BY <1>3, ArriveStep
<1>4. CASE Flip \/ Tick \/ \E j \in Job : GiveUp(j)
  BY <1>4, QueueStep
<1>5. ASSUME NEW w \in Worker, Handler(w) PROVE ErasureInv'
  <2>1. CASE BeginErasure(w) \/ Plan(w) \/ Effect(w) \/ Record(w) \/ Finalize(w)
    BY <2>1, BeginErasureStep, PlanStep, EffectStep, RecordStep, FinalizeStep
  <2>2. CASE BeginExport(w) \/ Prepare(w) \/ Put(w) \/ Complete(w) \/ Undo(w)
    BY <2>2, BeginExportStep, PrepareStep, DocumentStep, CompleteStep, UndoStep
  <2>3. CASE Expire(w) \/ Remove(w) \/ Clear(w) \/ Report(w) \/ Fail(w)
    BY <2>3, ExpireStep, DocumentStep, ClearStep, ReportStep, FailureStep
  <2> QED
    BY <1>5, <2>1, <2>2, <2>3 DEF Handler
<1>6. ASSUME NEW w \in Worker, Throw(w) \/ Crash(w) \/ Lapse(w) PROVE ErasureInv'
  BY <1>6, FaultStep
<1>7. ASSUME NEW w \in Worker, NEW j \in Job, ClaimJob(w, j) PROVE ErasureInv'
  BY <1>7, ClaimJobStep
<1>8. CASE UNCHANGED vars
  BY <1>8 DEF vars, ErasureInv, TypeOK, RequestsOK, RequestOK, ExportsOK, ExportOK, ThingsOK,
     ThingOK, HandlersOK, HandlerOK, OneLive, StatusAgrees, Is, Gone, Begun, Exists, Named
<1> QED
  BY <1>1, <1>2, <1>3, <1>4, <1>5, <1>6, <1>7, <1>8 DEF Next

(* The invariant holds in every state of every behaviour of the requests,  *)
(* their jobs and handlers (src/models/account-lifecycle.ts).              *)
THEOREM AlwaysErasureInv == Spec => []ErasureInv
BY InitErasureInv, NextErasureInv, PTL DEF Spec

(* Every variable keeps its type. *)
THEOREM AlwaysTypeOK == Spec => []TypeOK
<1>1. ErasureInv => TypeOK
  BY DEF ErasureInv
<1> QED
  BY <1>1, AlwaysErasureInv, PTL

(* However many things appear while an erasure runs, and however many      *)
(* handlers die at it, an account is reported as erased only when nothing  *)
(* is left of it outside (finalizeAccountErasure).                         *)
THEOREM AlwaysErasedEverything == Spec => []ErasedEverything
<1>1. ErasureInv => ErasedEverything
  BY DEF ErasureInv, ThingsOK, ThingOK, ErasedEverything, Gone
<1> QED
  BY <1>1, AlwaysErasureInv, PTL

(* Nothing outside is ever removed for an erasure that was still in its    *)
(* period of grace, or that its owner canceled in it                       *)
(* (cancelScheduledErasure, beginPrivacyRequest).                          *)
THEOREM AlwaysGraceKept == Spec => []GraceKept
<1>1. ErasureInv => GraceKept
  BY DEF ErasureInv, ThingsOK, ThingOK, GraceKept, Begun, Gone
<1> QED
  BY <1>1, AlwaysErasureInv, PTL

(* The status of the account and those of its requests agree, whatever     *)
(* blockers come and go (beginPrivacyRequest, markPrivacyRequestFailed).   *)
THEOREM AlwaysStatusAgrees == Spec => []StatusAgrees
<1>1. ErasureInv => StatusAgrees
  BY DEF ErasureInv
<1> QED
  BY <1>1, AlwaysErasureInv, PTL

(* A document in the bucket has its key in its row until its removal is    *)
(* due, wherever an upload or a removal dies                               *)
(* (prepareAccountExportArtifact, clearExpiredAccountExportArtifact).      *)
THEOREM AlwaysArtifactNamed == Spec => []ArtifactNamed
<1>1. ErasureInv => ArtifactNamed
  BY DEF ErasureInv, ExportsOK, ExportOK, ArtifactNamed, Named, Exists, Gone
<1> QED
  BY <1>1, AlwaysErasureInv, PTL

-----------------------------------------------------------------------------
(* The queue behind the requests.  The jobs move by the steps that         *)
(* DurableJob allows and JobQueue implements, the cancellations of the     *)
(* last transaction included.                                              *)

JobsStep == \A j \in Job : job'[j] = job[j] \/ Queue!Step(job[j], job'[j])

LEMMA JobsStill == ASSUME UNCHANGED job PROVE JobsStep
BY DEF JobsStep

LEMMA OneJob ==
  ASSUME TypeOK, NEW j, NEW k, job' = [job EXCEPT ![j] = k], Queue!Step(job[j], k)
  PROVE  JobsStep
<1>1. job \in [Job -> Queue!LifeType]
  BY DEF TypeOK
<1>2. ASSUME NEW i \in Job PROVE job'[i] = job[i] \/ Queue!Step(job[i], job'[i])
  <2>1. job'[i] = IF i = j THEN k ELSE job[i]
    BY <1>1
  <2>2. CASE i = j
    BY <2>1, <2>2
  <2>3. CASE i # j
    BY <2>1, <2>3
  <2> QED  BY <2>2, <2>3
<1> QED
  BY <1>2 DEF JobsStep

LEMMA JobChanged ==
  ASSUME TypeOK, NEW j,
         \/ ChangeJob(j, Queue!Submit) \/ ChangeJob(j, Queue!Attempt) \/ ChangeJob(j, Queue!Run)
         \/ ChangeJob(j, Queue!Succeed) \/ ChangeJob(j, Queue!Fail) \/ ChangeJob(j, Queue!Cancel)
  PROVE  JobsStep
<1>1. PICK k \in Queue!LifeType : Queue!Step(job[j], k) /\ job' = [job EXCEPT ![j] = k]
  BY DEF ChangeJob, Queue!Step
<1> QED
  BY <1>1, OneJob

LEMMA JobInserted == ASSUME TypeOK, NEW j, NEW t, Insert(j, t) PROVE JobsStep
BY JobChanged, JobsStill DEF Insert

LEMMA JobReturned == ASSUME TypeOK, NEW w, Return(w) PROVE JobsStep
BY JobChanged, JobsStill DEF Return

(* The last transaction cancels what is still open. *)
LEMMA JobsScrubbed == ASSUME TypeOK, NEW r, Scrub(r) PROVE JobsStep
<1>1. ASSUME NEW j \in Job PROVE job'[j] = job[j] \/ Queue!Step(job[j], job'[j])
  <2>1. job'[j] = IF j # r /\ job[j].state = "open"
                    THEN [job[j] EXCEPT !.state = "canceled"] ELSE job[j]
    BY DEF Scrub
  <2>2. CASE j # r /\ job[j].state = "open"
    <3>1. Queue!Cancel(job[j], job'[j])
      BY <2>1, <2>2 DEF Queue!Cancel
    <3> QED  BY <3>1 DEF Queue!Step
  <2> QED  BY <2>1, <2>2
<1> QED
  BY <1>1 DEF JobsStep

LEMMA HandlerUsesQueue == ASSUME TypeOK, NEW w \in Worker, Handler(w) PROVE JobsStep
<1>1. ASSUME BeginErasure(w) \/ BeginExport(w) \/ Plan(w) PROVE JobsStep
  BY <1>1, JobReturned, JobsStill DEF BeginErasure, BeginExport, Plan
<1>2. ASSUME Effect(w) \/ Record(w) \/ Put(w) \/ Remove(w) PROVE JobsStep
  BY <1>2, JobsStill DEF Effect, Record, Put, Remove
<1>3. CASE Finalize(w)
  BY <1>3, JobReturned, JobsStill, JobsScrubbed DEF Finalize
<1>4. CASE Prepare(w)
  BY <1>4, JobReturned, JobsStill, JobInserted DEF Prepare
<1>5. ASSUME Complete(w) \/ Undo(w) \/ Expire(w) \/ Clear(w) PROVE JobsStep
  BY <1>5, JobReturned, JobsStill DEF Complete, Undo, Expire, Clear
<1>6. ASSUME Report(w) \/ Fail(w) PROVE JobsStep
  BY <1>6, JobChanged, JobsStill DEF Report, Fail
<1> QED
  BY <1>1, <1>2, <1>3, <1>4, <1>5, <1>6 DEF Handler

LEMMA NextUsesQueue == TypeOK /\ [Next]_vars => JobsStep
<1> SUFFICES ASSUME TypeOK, [Next]_vars PROVE JobsStep
  OBVIOUS
<1>1. ASSUME NEW r \in Erasure, RequestErasure(r) \/ Cancel(r) PROVE JobsStep
  BY <1>1, JobInserted, JobChanged, JobsStill DEF RequestErasure, Cancel
<1>2. ASSUME NEW e \in Export, RequestExport(e) PROVE JobsStep
  BY <1>2, JobInserted DEF RequestExport
<1>3. ASSUME (\E x \in Late : Arrive(x)) \/ Flip \/ Tick PROVE JobsStep
  BY <1>3, JobsStill DEF Arrive, Flip, Tick
<1>4. ASSUME NEW w \in Worker, Handler(w) PROVE JobsStep
  BY <1>4, HandlerUsesQueue
<1>5. ASSUME NEW w \in Worker, Throw(w) \/ Crash(w) \/ Lapse(w) PROVE JobsStep
  BY <1>5, JobsStill DEF Throw, Crash, Lapse
<1>6. ASSUME NEW w \in Worker, NEW j \in Job, ClaimJob(w, j) PROVE JobsStep
  BY <1>6, JobChanged DEF ClaimJob
<1>7. ASSUME NEW j \in Job, GiveUp(j) PROVE JobsStep
  BY <1>7, JobChanged DEF GiveUp
<1>8. CASE UNCHANGED vars
  BY <1>8, JobsStill DEF vars
<1> QED
  BY <1>1, <1>2, <1>3, <1>4, <1>5, <1>6, <1>7, <1>8 DEF Next

(* Requests, expiries and erasures only ask of the queue what it promises: *)
(* every behaviour of theirs is one of DurableJob, for any number of jobs, *)
(* so what JobQueue implements is what this module builds on.              *)
THEOREM ErasureUsesQueue == Spec => Queue!Spec
<1>1. Init => Queue!Init
  BY DEF Init
<1>2. TypeOK /\ TypeOK' /\ [Next]_vars => [Queue!Next]_job
  <2> SUFFICES ASSUME TypeOK, TypeOK', [Next]_vars PROVE Queue!Next
    OBVIOUS
  <2>1. job' \in [Job -> Queue!LifeType]
    BY DEF TypeOK
  <2> QED
    BY <2>1, NextUsesQueue DEF JobsStep, Queue!Next
<1> QED
  BY <1>1, <1>2, AlwaysTypeOK, PTL DEF Spec, Queue!Spec
=============================================================================
