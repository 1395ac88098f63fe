---------------------------- MODULE StorageProofs ----------------------------
(***************************************************************************)
(* Proofs about Storage for any number of files, requests and handlers,    *)
(* any sizes, faults and clock.                                            *)
(*                                                                         *)
(* What a request or a handler read of a row and of its object stays true  *)
(* enough until it writes: a row moves only towards `deleted`, and an      *)
(* object is taken only from a row that is on its way there.  Fate says so *)
(* of a step, FileOK, RequestOK and HandlerOK of a state.                  *)
(*                                                                         *)
(* QuotaInv needs to know how a sum over a finite set changes with one     *)
(* element.  The section on sums derives that from the definition of the   *)
(* fold: where the fold had no value, there would be a least such set.     *)
(***************************************************************************)
EXTENDS Storage, FiniteSetTheorems, TLAPS

Out == {"deleting", "deleted"}
Asking == {"sweep", "reserve"}

FileOK(f) ==
  /\ Is(f, "absent") => job[f].state = "absent" /\ url[f] = None
  /\ Is(f, "deleting") => job[f].state \in {"open", "failed"}
  /\ job[f].state = "open" => file[f].status \in Out
  /\ file[f].status \in Out => file[f].by # "nobody"
  /\ url[f] # None => url[f] =< file[f].born + Delay + PutLife
  /\ file[f].by = "sweep" /\ ~Is(f, "absent") =>
       file[f].status \in Out /\ file[f].born + StaleAfter < now
  /\ ~erasing /\ Is(f, "active") => object[f] # None
  /\ ~erasing /\ Is(f, "deleted") /\ file[f].by = "sweep" => object[f] = None

RequestOK(x) ==
  /\ x.pc \in {"reserve", "sign", "head", "decide", "delete"} => x.file \in File
  /\ x.pc \in Asking /\ x.file # None => Is(x.file, "absent")
  /\ x.pc \in {"sign", "head", "decide", "delete"} => ~Is(x.file, "absent")
  /\ x.pc = "sign" => now =< file[x.file].born + Delay
  /\ x.pc = "decide" =>
       /\ x.size \in Nat
       /\ Is(x.file, "uploading") /\ ~erasing => object[x.file] # None
  /\ \A f \in x.stale : ~Is(f, "absent") /\ file[f].born + StaleAfter < now

HandlerOK(x) ==
  x.pc # "idle" =>
    /\ x.file \in File /\ ~Is(x.file, "absent")
    /\ ~erasing => file[x.file].status \in Out
    /\ x.pc = "report" => Is(x.file, "deleted")
    /\ x.pc = "mark" /\ ~erasing /\ file[x.file].by = "sweep" => object[x.file] = None

(* No two requests upload the same file, and the cron route none. *)
Apart ==
  \A p, q \in Request :
    p # q /\ request[p].pc \in Asking /\ request[q].pc \in Asking /\ request[p].file # None =>
      request[p].file # request[q].file

CronOK == request[Cron].pc \in {"idle", "sweep"} /\ request[Cron].file = None

FilesOK == \A f \in File : FileOK(f)
RequestsOK == \A q \in Request \union {Cron} : RequestOK(request[q])
HandlersOK == \A w \in Worker : HandlerOK(worker[w])

StorageInv == TypeOK /\ FilesOK /\ RequestsOK /\ HandlersOK /\ Apart /\ CronOK

(* What may become of a row and its object in one step. *)
RowFate(f) ==
  /\ ~Is(f, "absent") => ~Is(f, "absent")' /\ file'[f].born = file[f].born
  /\ file[f].status \in Out => file'[f].status \in Out /\ file'[f].by = file[f].by
  /\ Is(f, "deleted") => Is(f, "deleted")'
  /\ Is(f, "uploading")' => file[f].status \in {"absent", "uploading"}

ObjectFate(f) ==
  /\ ~erasing' /\ Is(f, "uploading") /\ object[f] # None => object'[f] # None
  /\ file[f].by = "sweep" /\ file[f].status \in Out /\ object[f] = None => object'[f] = None

Fate == \A f \in File : RowFate(f)
ObjectsFate == \A f \in File : ObjectFate(f)

LEMMA InitStorageInv == Init => StorageInv
<1> SUFFICES ASSUME Init PROVE StorageInv
  OBVIOUS
<1> USE StorageAssumption DEF Init, Queue!Init
<1>1. TypeOK
  <2>1. job \in [File -> Queue!LifeType]
    <3> DEFINE n == [state |-> "absent", used |-> 0, ran |-> FALSE]
    <3>1. n \in Queue!LifeType
      BY DEF Queue!LifeType
    <3>2. job = [f \in File |-> n]
      OBVIOUS
    <3> HIDE DEF n
    <3> QED
      BY <3>1, <3>2
  <2>2. file \in [File -> FileType]
    BY DEF FileType
  <2>3. object \in [File -> Nat \union {None}]
    OBVIOUS
  <2>4. url \in [File -> Nat \union {None}]
    OBVIOUS
  <2>5. erasing \in BOOLEAN
    OBVIOUS
  <2>6. faults \in 0..Faults /\ now \in 0..Horizon
    OBVIOUS
  <2> QED
    BY <2>1, <2>2, <2>3, <2>4, <2>5, <2>6 DEF TypeOK, IdleRequest, IdleWorker
<1>2. FilesOK
  BY DEF FilesOK, FileOK, Is, Out
<1>3. RequestsOK /\ HandlersOK /\ Apart /\ CronOK
  BY DEF RequestsOK, RequestOK, HandlersOK, HandlerOK, Apart, CronOK, IdleRequest, IdleWorker,
     Asking
<1> QED
  BY <1>1, <1>2, <1>3 DEF StorageInv

-----------------------------------------------------------------------------
(* What others have read stays true. *)

LEMMA RequestKeeps ==
  ASSUME StorageInv, Fate, ObjectsFate, now' = now, erasing => erasing',
         NEW q \in Request \union {Cron}, request'[q] = request[q],
         request[q].pc \in Asking /\ request[q].file \in File /\ Is(request[q].file, "absent") =>
           Is(request[q].file, "absent")'
  PROVE  RequestOK(request[q])'
<1> DEFINE x == request[q]
<1>1. RequestOK(x) /\ x.stale \subseteq File /\ x.file \in File \union {None} /\ erasing \in BOOLEAN
  BY DEF StorageInv, RequestsOK, TypeOK
<1>2. \A f \in x.stale : ~Is(f, "absent")' /\ file'[f].born + StaleAfter < now'
  BY <1>1 DEF RequestOK, Fate, RowFate
<1>3. x.pc \in {"sign", "head", "decide", "delete"} => ~Is(x.file, "absent")'
                                                    /\ file'[x.file].born = file[x.file].born
  BY <1>1 DEF RequestOK, Fate, RowFate
<1>4. x.pc = "decide" /\ file'[x.file].status = "uploading" /\ ~erasing' => object'[x.file] # None
  BY <1>1 DEF RequestOK, Fate, RowFate, ObjectsFate, ObjectFate, Is
<1> QED
  BY <1>1, <1>2, <1>3, <1>4 DEF RequestOK, Is

LEMMA HandlerKeeps ==
  ASSUME StorageInv, Fate, ObjectsFate, erasing => erasing',
         NEW w \in Worker, worker'[w] = worker[w]
  PROVE  HandlerOK(worker[w])'
<1> DEFINE x == worker[w]
<1>1. HandlerOK(x) /\ erasing \in BOOLEAN
  BY DEF StorageInv, HandlersOK, TypeOK
<1> QED
  BY <1>1 DEF HandlerOK, Fate, RowFate, ObjectsFate, ObjectFate, Is

(* Nothing happened to the files. *)
LEMMA NoFate ==
  ASSUME UNCHANGED <<file, object>>
  PROVE  Fate /\ ObjectsFate
BY DEF Fate, ObjectsFate, RowFate, ObjectFate, Is

RequestType ==
  [pc : {"idle", "sweep", "reserve", "sign", "head", "decide", "delete"},
   file : File \union {None}, size : Nat \union {None}, stale : SUBSET File]

HandlerType ==
  [pc : {"idle", "find", "erase", "mark", "report"},
   file : File \union {None}, leased : BOOLEAN]

(* The requests, after the request q moved to x. *)
LEMMA RequestsKeep ==
  ASSUME StorageInv, Fate, ObjectsFate, now' = now, erasing => erasing',
         NEW q \in Request \union {Cron}, NEW x \in RequestType,
         request' = [request EXCEPT ![q] = x],
         RequestOK(request[q])',
         q = Cron => x.pc \in {"idle", "sweep"} /\ x.file = None,
         \A p \in Request \ {q} :
           x.pc \in Asking /\ request[p].pc \in Asking /\ x.file # None =>
             x.file # request[p].file,
         \A p \in Request \ {q} :
           request[p].pc \in Asking /\ request[p].file \in File
             /\ Is(request[p].file, "absent") => file'[request[p].file].status = "absent"
  PROVE  /\ RequestsOK' /\ Apart' /\ CronOK'
         /\ request' \in [Request \union {Cron} -> RequestType]
<1>1. /\ request' \in [Request \union {Cron} -> RequestType] /\ request'[q] = x
      /\ \A p \in Request \union {Cron} : p # q => request'[p] = request[p]
  BY DEF StorageInv, TypeOK, RequestType
<1>2. RequestsOK'
  <2> SUFFICES ASSUME NEW p \in Request \union {Cron} PROVE RequestOK(request[p])'
    BY DEF RequestsOK
  <2>1. CASE p = q
    BY <2>1
  <2>2. CASE p # q
    <3>1. request[p].pc \in Asking /\ request[p].file \in File
            /\ Is(request[p].file, "absent") => Is(request[p].file, "absent")'
      BY <1>1, <2>2, StorageAssumption DEF StorageInv, CronOK, Is
    <3> QED
      BY <1>1, <2>2, <3>1, RequestKeeps
  <2> QED
    BY <2>1, <2>2
<1>3. Apart' /\ CronOK'
  BY <1>1, StorageAssumption DEF StorageInv, Apart, CronOK
<1> QED
  BY <1>1, <1>2, <1>3

LEMMA HandlersKeep ==
  ASSUME StorageInv, Fate, ObjectsFate, erasing => erasing', UNCHANGED worker
  PROVE  HandlersOK'
BY HandlerKeeps DEF HandlersOK

LEMMA FilesKeep ==
  ASSUME StorageInv, UNCHANGED <<file, object, url, job, erasing, now>>
  PROVE  FilesOK'
BY DEF StorageInv, FilesOK, FileOK, Is

-----------------------------------------------------------------------------
(* Steps of a request that write no table. *)

LEMMA RequestOnly ==
  ASSUME StorageInv, UNCHANGED <<file, object, url, job, worker, erasing, faults, now>>,
         NEW q \in Request \union {Cron}, NEW x \in RequestType,
         request' = [request EXCEPT ![q] = x], RequestOK(x),
         q = Cron => x.pc \in {"idle", "sweep"} /\ x.file = None,
         \A p \in Request \ {q} :
           x.pc \in Asking /\ request[p].pc \in Asking /\ x.file # None =>
             x.file # request[p].file
  PROVE  StorageInv' /\ Fate
<1>1. request'[q] = x
  BY DEF StorageInv, TypeOK
<1>2. RequestOK(request[q])'
  BY <1>1 DEF RequestOK, Is
<1>3. \A p \in Request \ {q} :
           request[p].pc \in Asking /\ request[p].file \in File
             /\ Is(request[p].file, "absent") => file'[request[p].file].status = "absent"
  BY DEF Is
<1>4. /\ RequestsOK' /\ Apart' /\ CronOK'
      /\ request' \in [Request \union {Cron} -> RequestType]
  BY <1>2, <1>3, NoFate, RequestsKeep
<1> QED
  BY <1>4, NoFate, HandlersKeep, FilesKeep DEF StorageInv, TypeOK, RequestType

LEMMA Idle ==
  /\ IdleRequest \in RequestType /\ RequestOK(IdleRequest) /\ IdleRequest.file = None
  /\ IdleRequest.pc = "idle" /\ IdleWorker \in HandlerType /\ HandlerOK(IdleWorker)
BY DEF IdleRequest, RequestType, RequestOK, Asking, IdleWorker, HandlerType, HandlerOK

LEMMA LeaveStep ==
  ASSUME StorageInv, UNCHANGED <<file, object, url, job, worker, erasing, faults, now>>,
         NEW q \in Request \union {Cron}, Leave(q)
  PROVE  StorageInv' /\ Fate
BY Idle, RequestOnly DEF Leave, Asking

LEMMA BeginSweepStep ==
  ASSUME StorageInv, BeginSweep
  PROVE  StorageInv' /\ Fate
<1> DEFINE x == [IdleRequest EXCEPT !.pc = "sweep", !.stale = StaleFiles]
<1>1. x \in RequestType /\ x.pc = "sweep" /\ x.file = None /\ x.stale = StaleFiles
  BY DEF IdleRequest, RequestType, StaleFiles
<1>2. request' = [request EXCEPT ![Cron] = x]
  BY DEF BeginSweep
<1> HIDE DEF x
<1>3. RequestOK(x)
  BY <1>1 DEF RequestOK, StaleFiles, Is
<1> QED
  BY <1>1, <1>2, <1>3, RequestOnly DEF BeginSweep

LEMMA BeginUploadStep ==
  ASSUME StorageInv, NEW q \in Request, NEW f \in File, BeginUpload(q, f)
  PROVE  StorageInv' /\ Fate
<1> DEFINE x == [IdleRequest EXCEPT !.pc = "sweep", !.file = f, !.stale = StaleFiles]
<1>1. x \in RequestType /\ x.pc = "sweep" /\ x.file = f /\ x.stale = StaleFiles
  BY DEF IdleRequest, RequestType, StaleFiles
<1>2. request' = [request EXCEPT ![q] = x]
  BY DEF BeginUpload
<1> HIDE DEF x
<1>3. RequestOK(x)
  BY <1>1 DEF RequestOK, StaleFiles, Is, BeginUpload
<1> QED
  BY <1>1, <1>2, <1>3, RequestOnly, StorageAssumption DEF BeginUpload

LEMMA EndSweepStep ==
  ASSUME StorageInv, NEW q \in Request \union {Cron}, EndSweep(q)
  PROVE  StorageInv' /\ Fate
<1>1. CASE request[q].file = None
  BY <1>1, LeaveStep DEF EndSweep
<1>2. CASE request[q].file # None
  <2> DEFINE x == [request[q] EXCEPT !.pc = "reserve"]
  <2>1. /\ x \in RequestType /\ x.pc = "reserve" /\ x.file = request[q].file
        /\ x.stale = request[q].stale /\ x.file \in File
    BY <1>2 DEF RequestType, StorageInv, TypeOK
  <2>2. request' = [request EXCEPT ![q] = x]
    BY <1>2 DEF EndSweep, GoTo, StorageInv, TypeOK
  <2> HIDE DEF x
  <2>3. RequestOK(request[q]) /\ request[q].pc \in Asking
    BY DEF StorageInv, RequestsOK, EndSweep, Asking
  <2>4. RequestOK(x)
    BY <2>1, <2>3 DEF RequestOK, Asking
  <2>5. q \in Request
    BY <1>2 DEF StorageInv, CronOK
  <2>6. \A p \in Request \ {q} : request[p].pc \in Asking => x.file # request[p].file
    BY <1>2, <2>1, <2>3, <2>5 DEF StorageInv, Apart
  <2> QED
    BY <2>1, <2>2, <2>4, <2>5, <2>6, RequestOnly, StorageAssumption DEF EndSweep
<1> QED
  BY <1>1, <1>2

(* A completion or a deletion reads a row, a completion its object. *)
LEMMA ReadStep ==
  ASSUME StorageInv, UNCHANGED <<file, object, url, job, worker, erasing, faults, now>>,
         NEW q \in Request, NEW x \in RequestType,
         request' = [request EXCEPT ![q] = x],
         x.pc \in {"head", "decide", "delete"},
         x.file \in File, ~Is(x.file, "absent"), x.stale \subseteq request[q].stale,
         x.pc = "decide" => x.size \in Nat /\ object[x.file] # None
  PROVE  StorageInv' /\ Fate
<1>1. RequestOK(request[q])
  BY DEF StorageInv, RequestsOK
<1>2. RequestOK(x)
  BY <1>1 DEF RequestOK, Asking
<1> QED
  BY <1>2, RequestOnly, StorageAssumption DEF Asking

LEMMA BeginStep ==
  ASSUME StorageInv, NEW q \in Request, NEW f \in File, BeginComplete(q, f) \/ BeginDelete(q, f)
  PROVE  StorageInv' /\ Fate
<1>1. ~Is(f, "absent")
  BY DEF BeginComplete, BeginDelete, Is, Unfinished
<1>2. PICK pc \in {"head", "delete"} :
        request' = [request EXCEPT ![q] = [IdleRequest EXCEPT !.pc = pc, !.file = f]]
  BY DEF BeginComplete, BeginDelete
<1> DEFINE x == [IdleRequest EXCEPT !.pc = pc, !.file = f]
<1>3. x \in RequestType /\ x.pc = pc /\ x.file = f /\ x.stale = {}
  BY DEF IdleRequest, RequestType
<1>4. request' = [request EXCEPT ![q] = x]
  BY <1>2
<1> HIDE DEF x
<1> QED
  BY <1>1, <1>3, <1>4, ReadStep DEF BeginComplete, BeginDelete

LEMMA HeadStep ==
  ASSUME StorageInv, NEW q \in Request, Head(q)
  PROVE  StorageInv' /\ Fate
<1> DEFINE f == request[q].file
<1>1. CASE object[f] = None
  BY <1>1, LeaveStep DEF Head
<1>2. CASE object[f] # None
  <2> DEFINE x == [request[q] EXCEPT !.pc = "decide", !.size = object[f]]
  <2>1. f \in File /\ ~Is(f, "absent")
    BY DEF Head, StorageInv, RequestsOK, RequestOK
  <2>2. object[f] \in Nat
    BY <1>2, <2>1 DEF StorageInv, TypeOK
  <2>3. x \in RequestType /\ x.pc = "decide" /\ x.file = f /\ x.size = object[f]
        /\ x.stale = request[q].stale
    BY <2>2, ZenonT(60) DEF RequestType, StorageInv, TypeOK
  <2>4. request' = [request EXCEPT ![q] = x]
    BY <1>2 DEF Head, StorageInv, TypeOK
  <2> HIDE DEF x
  <2> QED
    BY <1>2, <2>1, <2>2, <2>3, <2>4, ReadStep, ZenonT(60) DEF Head
<1> QED
  BY <1>1, <1>2

-----------------------------------------------------------------------------
(* Steps that write a row. *)

(* The row of f becomes n, its job k. *)
LEMMA RowWritten ==
  ASSUME StorageInv, NEW f \in File, NEW n \in FileType, NEW k \in Queue!LifeType,
         file' = [file EXCEPT ![f] = n], job' = [job EXCEPT ![f] = k],
         UNCHANGED <<object, url, erasing, now>>,
         FileOK(f)'
  PROVE  /\ file' \in [File -> FileType] /\ job' \in [File -> Queue!LifeType]
         /\ file'[f] = n /\ job'[f] = k /\ \A g \in File : g # f => file'[g] = file[g]
         /\ FilesOK'
<1>1. /\ file' \in [File -> FileType] /\ job' \in [File -> Queue!LifeType]
      /\ file'[f] = n /\ job'[f] = k
      /\ \A g \in File : g # f => file'[g] = file[g] /\ job'[g] = job[g]
  BY DEF StorageInv, TypeOK
<1>2. \A g \in File : g # f => FileOK(g)'
  BY <1>1 DEF StorageInv, FilesOK, FileOK, Is
<1> QED
  BY <1>1, <1>2 DEF FilesOK

(* The job of f after Enqueue. *)
LEMMA Enqueued ==
  ASSUME StorageInv, NEW f \in File, Enqueue(f)
  PROVE  \E k \in Queue!LifeType : job' = [job EXCEPT ![f] = k] /\ k.state = "open"
<1>1. CASE job[f].state = "open"
  <2>1. job[f] \in Queue!LifeType /\ job' = [job EXCEPT ![f] = job[f]]
    BY <1>1 DEF Enqueue, StorageInv, TypeOK
  <2> QED
    BY <1>1, <2>1
<1>2. CASE job[f].state # "open"
  <2>1. PICK k \in Queue!LifeType :
          /\ Queue!Submit(job[f], k) \/ Queue!Revive(job[f], k)
          /\ job' = [job EXCEPT ![f] = k]
    BY <1>2 DEF Enqueue
  <2>2. k.state = "open"
    BY <2>1 DEF Queue!Submit, Queue!Revive
  <2> QED
    BY <2>1, <2>2
<1> QED
  BY <1>1, <1>2

LEMMA Rewritten ==
  ASSUME NEW a \in FileType, NEW s, NEW z, NEW b
  PROVE  [a EXCEPT !.status = s, !.size = z, !.by = b]
           = [status |-> s, size |-> z, born |-> a.born, by |-> b]
<1> DEFINE e == [a EXCEPT !.status = s, !.size = z, !.by = b]
           n == [status |-> s, size |-> z, born |-> a.born, by |-> b]
<1>1. DOMAIN a = {"status", "size", "born", "by"}
  BY DEF FileType
<1>2. DOMAIN e = DOMAIN n
  BY <1>1
<1>3. e["status"] = n["status"] /\ e["size"] = n["size"] /\ e["born"] = n["born"] /\ e["by"] = n["by"]
  BY <1>1
<1> QED
  BY <1>1, <1>2, <1>3

LEMMA Retitled ==
  ASSUME NEW a \in FileType, NEW s, NEW b
  PROVE  [a EXCEPT !.status = s, !.by = b]
           = [status |-> s, size |-> a.size, born |-> a.born, by |-> b]
<1> DEFINE e == [a EXCEPT !.status = s, !.by = b]
           n == [status |-> s, size |-> a.size, born |-> a.born, by |-> b]
<1>1. DOMAIN a = {"status", "size", "born", "by"}
  BY DEF FileType
<1>2. DOMAIN e = DOMAIN n
  BY <1>1
<1>3. e["status"] = n["status"] /\ e["size"] = n["size"] /\ e["born"] = n["born"] /\ e["by"] = n["by"]
  BY <1>1
<1> QED
  BY <1>1, <1>2, <1>3

(* A deletion is scheduled, or the row is no longer expected. *)
LEMMA Scheduled ==
  ASSUME StorageInv, NEW f \in File, NEW expected \in SUBSET Unfinished, NEW bytes \in Nat,
         NEW who \in {"sweep", "person"}, Schedule(f, expected, bytes, who),
         UNCHANGED <<object, url, worker, erasing, faults, now>>,
         who = "sweep" => expected = {"uploading"} /\ file[f].born + StaleAfter < now
  PROVE  /\ Fate /\ ObjectsFate /\ FilesOK' /\ HandlersOK'
         /\ file' \in [File -> FileType] /\ job' \in [File -> Queue!LifeType]
         /\ ~Is(f, "absent") => ~Is(f, "absent")' /\ file'[f].born = file[f].born
         /\ \A g \in File : Is(g, "absent") => Is(g, "absent")'
<1>1. CASE UNCHANGED rows
  <2>1. UNCHANGED <<file, object, url, job, worker, erasing, now>>
    BY <1>1 DEF rows
  <2> QED
    BY <2>1, NoFate, FilesKeep, HandlersKeep DEF StorageInv, TypeOK, Is
<1>2. CASE file[f].status \in expected /\ ~(UNCHANGED rows)
  <2>1. PICK k \in Queue!LifeType : job' = [job EXCEPT ![f] = k] /\ k.state = "open"
    BY <1>2, Enqueued DEF Schedule
  <2> DEFINE b == IF file[f].by = "nobody" THEN who ELSE file[f].by
             n == [status |-> "deleting", size |-> bytes, born |-> file[f].born, by |-> b]
  <2>2. /\ n \in FileType /\ n.status = "deleting" /\ n.born = file[f].born /\ n.by = b
    BY DEF StorageInv, TypeOK, FileType
  <2>3. file' = [file EXCEPT ![f] = n]
    <3>1. file' = [file EXCEPT ![f].status = "deleting", ![f].size = bytes,
                     ![f].by = IF @ = "nobody" THEN who ELSE @]
      BY <1>2 DEF Schedule
    <3>2. file' = [file EXCEPT ![f].status = "deleting", ![f].size = bytes, ![f].by = b]
      BY <3>1
    <3>3. file[f] \in FileType /\ file \in [File -> FileType]
      BY DEF StorageInv, TypeOK
    <3> HIDE DEF b
    <3>4. n = [file[f] EXCEPT !.status = "deleting", !.size = bytes, !.by = b]
      BY <3>3, Rewritten
    <3> HIDE DEF n
    <3> QED
      BY <3>2, <3>3, <3>4
  <2>4. b # "nobody" /\ (file[f].status \in Out => b = file[f].by)
    BY DEF StorageInv, FilesOK, FileOK
  <2>5. b = "sweep" => file[f].born + StaleAfter < now
    BY <1>2 DEF StorageInv, FilesOK, FileOK, Unfinished, Is
  <2> HIDE DEF n, b
  <2>6. file'[f] = n /\ job'[f] = k /\ \A g \in File : g # f => file'[g] = file[g]
    BY <2>1, <2>3 DEF StorageInv, TypeOK
  <2>7. ~Is(f, "absent") /\ ~Is(f, "deleted")
    BY <1>2 DEF Is, Unfinished
  <2>8. FileOK(f)'
    BY <2>1, <2>2, <2>4, <2>5, <2>6, <2>7 DEF StorageInv, FilesOK, FileOK, Is, Out
  <2>9. /\ file' \in [File -> FileType] /\ job' \in [File -> Queue!LifeType] /\ FilesOK'
    BY <2>1, <2>2, <2>3, <2>8, RowWritten
  <2>10. Fate /\ ObjectsFate
    BY <2>2, <2>4, <2>6, <2>7 DEF Fate, RowFate, ObjectsFate, ObjectFate, Is, Out
  <2> QED
    BY <2>2, <2>6, <2>7, <2>9, <2>10, HandlersKeep DEF Is
<1> QED
  BY <1>1, <1>2 DEF Schedule

LEMMA SweepOneStep ==
  ASSUME StorageInv, NEW q \in Request \union {Cron}, SweepOne(q)
  PROVE  StorageInv' /\ Fate
<1>1. PICK f \in request[q].stale :
        /\ Schedule(f, {"uploading"}, file[f].size, "sweep")
        /\ request' = [request EXCEPT ![q].stale = @ \ {f}]
  BY DEF SweepOne
<1>2. f \in File /\ file[f].born + StaleAfter < now /\ file[f].size \in Nat
  BY DEF StorageInv, TypeOK, RequestsOK, RequestOK, FileType
<1>3. UNCHANGED <<object, url, worker, erasing, faults, now>> /\ request[q].pc = "sweep"
  BY DEF SweepOne
<1>4. /\ Fate /\ ObjectsFate /\ FilesOK' /\ HandlersOK'
      /\ file' \in [File -> FileType] /\ job' \in [File -> Queue!LifeType]
      /\ \A g \in File : Is(g, "absent") => Is(g, "absent")'
  BY <1>1, <1>2, <1>3, Scheduled DEF Unfinished
<1> DEFINE x == [request[q] EXCEPT !.stale = @ \ {f}]
<1>5. /\ x \in RequestType /\ x.pc = "sweep" /\ x.file = request[q].file
      /\ x.stale = request[q].stale \ {f}
  BY <1>3 DEF StorageInv, TypeOK, RequestType
<1>6. request' = [request EXCEPT ![q] = x]
  BY <1>1 DEF StorageInv, TypeOK
<1> HIDE DEF x
<1>7. RequestOK(request[q])'
  <2>1. RequestOK(request[q]) /\ x.stale \subseteq File /\ request'[q] = x
    BY <1>5, <1>6 DEF StorageInv, RequestsOK, TypeOK
  <2>2. x.file # None => x.file \in File
    BY <1>5 DEF StorageInv, TypeOK
  <2>3. \A g \in x.stale : ~Is(g, "absent")' /\ file'[g].born + StaleAfter < now'
    BY <1>3, <1>4, <1>5, <2>1 DEF RequestOK, Fate, RowFate
  <2> QED
    BY <1>3, <1>4, <1>5, <2>1, <2>2, <2>3 DEF RequestOK, Is
<1>8. q = Cron => x.file = None
  BY <1>5 DEF StorageInv, CronOK
<1>9. \A p \in Request \ {q} :
           x.pc \in Asking /\ request[p].pc \in Asking /\ x.file # None =>
             x.file # request[p].file
  BY <1>3, <1>5, <1>8 DEF StorageInv, Apart, Asking
<1>10. \A p \in Request \ {q} :
           request[p].pc \in Asking /\ request[p].file \in File
             /\ Is(request[p].file, "absent") => file'[request[p].file].status = "absent"
  BY <1>4 DEF Is
<1>11. /\ RequestsOK' /\ Apart' /\ CronOK'
       /\ request' \in [Request \union {Cron} -> RequestType]
  BY <1>10, <1>3, <1>4, <1>5, <1>6, <1>7, <1>8, <1>9, RequestsKeep
<1> QED
  BY <1>3, <1>4, <1>11 DEF StorageInv, TypeOK, RequestType

(* A request writes and leaves. *)
LEMMA Leaves ==
  ASSUME StorageInv, NEW q \in Request, Leave(q), Fate, ObjectsFate, FilesOK', HandlersOK',
         file' \in [File -> FileType], job' \in [File -> Queue!LifeType],
         UNCHANGED <<object, url, worker, erasing, faults, now>>,
         \A g \in File : Is(g, "absent") => Is(g, "absent")'
  PROVE  StorageInv'
<1>1. request' = [request EXCEPT ![q] = IdleRequest] /\ request'[q] = IdleRequest
  BY DEF Leave, StorageInv, TypeOK
<1>2. RequestOK(request[q])'
  BY <1>1 DEF RequestOK, IdleRequest, Asking
<1>3. /\ RequestsOK' /\ Apart' /\ CronOK'
      /\ request' \in [Request \union {Cron} -> RequestType]
  <2>1. \A p \in Request \ {q} :
           request[p].pc \in Asking /\ request[p].file \in File
             /\ Is(request[p].file, "absent") => file'[request[p].file].status = "absent"
    BY DEF Is
  <2> QED
    BY <1>1, <1>2, <2>1, Idle, StorageAssumption, RequestsKeep DEF Asking
<1> QED
  BY <1>3 DEF StorageInv, TypeOK, RequestType

LEMMA DeleteStep ==
  ASSUME StorageInv, NEW q \in Request, Delete(q)
  PROVE  StorageInv' /\ Fate
<1> DEFINE f == request[q].file
<1>1. f \in File /\ file[f].size \in Nat
  BY DEF Delete, StorageInv, TypeOK, RequestsOK, RequestOK, FileType
<1> QED
  BY <1>1, Scheduled, Leaves DEF Delete

LEMMA DecideStep ==
  ASSUME StorageInv, NEW q \in Request, Decide(q)
  PROVE  StorageInv' /\ Fate
<1>1. PICK f \in File :
        /\ f = request[q].file /\ request[q].size \in Nat
        /\ Is(f, "uploading") /\ ~erasing => object[f] # None
  BY DEF Decide, StorageInv, RequestsOK, RequestOK
<1>2. UNCHANGED <<object, url, worker, erasing, faults, now>> /\ Leave(q)
  BY DEF Decide
<1>3. CASE Mismatch(f, request[q].size)
  <2>1. Schedule(f, {"uploading"}, request[q].size, "person")
    BY <1>1, <1>3 DEF Decide
  <2> QED
    BY <1>1, <1>2, <2>1, Scheduled, Leaves DEF Unfinished
<1>4. CASE UNCHANGED <<file, job>>
  <2>1. UNCHANGED <<file, object, url, job, worker, erasing, faults, now>>
    BY <1>2, <1>4
  <2> QED
    BY <1>2, <2>1, LeaveStep
<1>5. CASE Is(f, "uploading") /\ file' = [file EXCEPT ![f].status = "active"] /\ UNCHANGED job
  <2> DEFINE n == [file[f] EXCEPT !.status = "active"]
  <2>1. n \in FileType /\ n.status = "active" /\ n.born = file[f].born /\ n.by = file[f].by
    BY <1>1 DEF StorageInv, TypeOK, FileType
  <2>2. file' = [file EXCEPT ![f] = n]
    BY <1>1, <1>5 DEF StorageInv, TypeOK
  <2> HIDE DEF n
  <2>3. job[f] \in Queue!LifeType /\ job' = [job EXCEPT ![f] = job[f]]
    BY <1>1, <1>5 DEF StorageInv, TypeOK
  <2>4. file'[f] = n /\ \A g \in File : g # f => file'[g] = file[g]
    BY <1>1, <2>2 DEF StorageInv, TypeOK
  <2>5. FileOK(f)
    BY <1>1 DEF StorageInv, FilesOK
  <2>6. FileOK(f)'
    <3>1. file[f].by # "sweep" /\ job[f].state # "open"
      BY <1>5, <2>5 DEF FileOK, Is, Out
    <3> QED
      BY <1>1, <1>2, <1>5, <2>1, <2>4, <2>5, <3>1 DEF FileOK, Is, Out, Decide
  <2>7. file' \in [File -> FileType] /\ FilesOK'
    BY <1>1, <1>2, <2>1, <2>2, <2>3, <2>6, RowWritten
  <2>8. Fate /\ ObjectsFate /\ \A g \in File : Is(g, "absent") => Is(g, "absent")'
    BY <1>2, <1>5, <2>1, <2>4 DEF Fate, RowFate, ObjectsFate, ObjectFate, Is, Out
  <2>9. job' \in [File -> Queue!LifeType]
    BY <1>5 DEF StorageInv, TypeOK
  <2> QED
    BY <1>2, <2>7, <2>8, <2>9, HandlersKeep, Leaves
<1> QED
  BY <1>1, <1>3, <1>4, <1>5 DEF Decide

LEMMA ReserveStep ==
  ASSUME StorageInv, NEW q \in Request, Reserve(q)
  PROVE  StorageInv' /\ Fate
<1>1. PICK f \in File : f = request[q].file /\ Is(f, "absent")
  BY StorageAssumption DEF Reserve, StorageInv, RequestsOK, RequestOK, Asking
<1>2. UNCHANGED <<object, url, job, worker, erasing, faults, now>> /\ request[q].pc = "reserve"
  BY DEF Reserve
<1>3. CASE Leave(q) /\ UNCHANGED file
  <2>1. UNCHANGED <<file, object, url, job, worker, erasing, faults, now>>
    BY <1>2, <1>3
  <2> QED
    BY <1>3, <2>1, LeaveStep
<1>4. CASE /\ file' = [file EXCEPT ![f] =
                [status |-> "uploading", size |-> Size[f], born |-> now, by |-> "nobody"]]
           /\ GoTo(q, "sign")
  <2> DEFINE n == [status |-> "uploading", size |-> Size[f], born |-> now, by |-> "nobody"]
             x == [request[q] EXCEPT !.pc = "sign"]
  <2>1. now \in Nat /\ Size[f] \in Nat
    BY StorageAssumption DEF StorageInv, TypeOK
  <2>2. n \in FileType /\ n.status = "uploading" /\ n.born = now /\ n.by = "nobody"
    BY <2>1 DEF FileType
  <2>3. file' = [file EXCEPT ![f] = n]
    BY <1>4
  <2>4. /\ x \in RequestType /\ x.pc = "sign" /\ x.file = f /\ x.stale = request[q].stale
        /\ request' = [request EXCEPT ![q] = x]
    BY <1>1, <1>4 DEF GoTo, StorageInv, TypeOK, RequestType
  <2> HIDE DEF n, x
  <2>5. file'[f] = n /\ \A g \in File : g # f => file'[g] = file[g]
    BY <2>3 DEF StorageInv, TypeOK
  <2>6. FileOK(f)' /\ job' = [job EXCEPT ![f] = job[f]] /\ job[f] \in Queue!LifeType
    <3>1. job[f].state = "absent" /\ url[f] = None
      BY <1>1 DEF StorageInv, FilesOK, FileOK
    <3> QED
      BY <1>2, <2>2, <2>5, <3>1 DEF FileOK, Is, Out, StorageInv, TypeOK
  <2>7. file' \in [File -> FileType] /\ FilesOK'
    BY <1>2, <2>2, <2>3, <2>6, RowWritten
  <2>8. Fate /\ ObjectsFate
    BY <1>1, <1>2, <2>2, <2>5 DEF Fate, RowFate, ObjectsFate, ObjectFate, Is, Out
  <2>9. RequestOK(request[q])'
    <3>1. request'[q] = x /\ RequestOK(request[q]) /\ request[q].stale \subseteq File
      BY <2>4 DEF StorageInv, TypeOK, RequestsOK
    <3>2. \A g \in x.stale : ~Is(g, "absent")' /\ file'[g].born + StaleAfter < now'
      BY <1>1, <1>2, <2>4, <2>5, <3>1 DEF RequestOK, Is
    <3>3. now' =< file'[f].born + Delay
      BY <1>2, <2>1, <2>2, <2>5, StorageAssumption
    <3> QED
      BY <2>2, <2>4, <2>5, <3>1, <3>2, <3>3 DEF RequestOK, Is, Asking
  <2>10. \A p \in Request \ {q} :
           request[p].pc \in Asking /\ request[p].file \in File
             /\ Is(request[p].file, "absent") => file'[request[p].file].status = "absent"
    <3> SUFFICES ASSUME NEW p \in Request \ {q}, request[p].pc \in Asking,
                        request[p].file \in File, Is(request[p].file, "absent")
                 PROVE  file'[request[p].file].status = "absent"
      OBVIOUS
    <3>1. request[p].file # f
      BY <1>1, <1>2, StorageAssumption DEF StorageInv, Apart, Asking
    <3> QED
      BY <2>5, <3>1 DEF Is
  <2>11. /\ RequestsOK' /\ Apart' /\ CronOK'
         /\ request' \in [Request \union {Cron} -> RequestType]
    BY <1>2, <2>4, <2>8, <2>9, <2>10, RequestsKeep, StorageAssumption DEF Asking
  <2> QED
    BY <1>2, <2>7, <2>8, <2>11, HandlersKeep DEF StorageInv, TypeOK, RequestType
<1> QED
  BY <1>1, <1>3, <1>4 DEF Reserve

LEMMA SignStep ==
  ASSUME StorageInv, NEW q \in Request, Sign(q)
  PROVE  StorageInv' /\ Fate
<1>1. PICK f \in File : /\ f = request[q].file /\ ~Is(f, "absent")
                        /\ now =< file[f].born + Delay
  BY DEF Sign, StorageInv, RequestsOK, RequestOK
<1>2. UNCHANGED <<file, object, job, worker, erasing, faults, now>> /\ Leave(q)
      /\ url' = [url EXCEPT ![f] = now + PutLife]
  BY <1>1 DEF Sign
<1>3. now \in Nat /\ now + PutLife \in Nat
  BY StorageAssumption DEF StorageInv, TypeOK
<1>4. /\ url' \in [File -> Nat \union {None}] /\ url'[f] = now + PutLife
      /\ \A g \in File : g # f => url'[g] = url[g]
  BY <1>2, <1>3 DEF StorageInv, TypeOK
<1>5. FilesOK'
  <2>1. file[f].born \in Nat
    BY DEF StorageInv, TypeOK, FileType
  <2>2. now + PutLife =< file[f].born + Delay + PutLife
    BY <1>1, <1>3, <2>1, StorageAssumption
  <2> QED
    BY <1>1, <1>2, <1>4, <2>2 DEF StorageInv, FilesOK, FileOK, Is
<1>6. Fate /\ ObjectsFate
  BY <1>2, NoFate
<1>7. /\ request' = [request EXCEPT ![q] = IdleRequest] /\ request'[q] = IdleRequest
  BY <1>2 DEF Leave, StorageInv, TypeOK
<1>8. RequestOK(request[q])'
  BY <1>7 DEF RequestOK, IdleRequest, Asking
<1>9. \A p \in Request \ {q} :
         request[p].pc \in Asking /\ request[p].file \in File
           /\ Is(request[p].file, "absent") => file'[request[p].file].status = "absent"
  BY <1>2 DEF Is
<1>10. /\ RequestsOK' /\ Apart' /\ CronOK'
       /\ request' \in [Request \union {Cron} -> RequestType]
  BY <1>2, <1>6, <1>7, <1>8, <1>9, Idle, StorageAssumption, RequestsKeep DEF Asking
<1> QED
  BY <1>2, <1>4, <1>5, <1>6, <1>10, HandlersKeep DEF StorageInv, TypeOK, RequestType

(* Rows and requests stay as they are. *)
LEMMA RowsStay ==
  ASSUME StorageInv, ObjectsFate, UNCHANGED <<file, request, now>>, erasing => erasing',
         FilesOK', HandlersOK',
         object' \in [File -> Nat \union {None}], job' \in [File -> Queue!LifeType],
         worker' \in [Worker -> HandlerType],
         erasing' \in BOOLEAN, faults' \in 0..Faults, UNCHANGED url
  PROVE  StorageInv' /\ Fate
<1>1. Fate
  BY DEF Fate, RowFate, Is
<1>2. RequestsOK'
  BY <1>1, RequestKeeps DEF RequestsOK, Is
<1>3. Apart' /\ CronOK'
  BY DEF StorageInv, Apart, CronOK
<1> QED
  BY <1>1, <1>2, <1>3 DEF StorageInv, TypeOK, HandlerType

LEMMA PutStep ==
  ASSUME StorageInv, NEW f \in File, NEW bytes \in Strange \union {Size[f]}, Put(f, bytes)
  PROVE  StorageInv' /\ Fate
<1>1. bytes \in Nat /\ bytes # None
  BY StorageAssumption
<1>2. /\ object' \in [File -> Nat \union {None}] /\ object'[f] = bytes
      /\ \A g \in File : g # f => object'[g] = object[g]
  BY <1>1 DEF Put, StorageInv, TypeOK
<1>3. UNCHANGED <<file, url, job, request, worker, erasing, faults, now>>
  BY DEF Put
<1>4. file[f].by # "sweep"
  <2>1. /\ url[f] \in Nat /\ now \in Nat /\ file[f].born \in Nat
        /\ url[f] # None /\ now =< url[f]
    BY DEF Put, StorageInv, TypeOK, FileType
  <2>2. url[f] =< file[f].born + Delay + PutLife /\ ~Is(f, "absent")
    BY <2>1 DEF StorageInv, FilesOK, FileOK
  <2>3. ~(file[f].born + StaleAfter < now)
    BY <2>1, <2>2, StorageAssumption, StaleAssumption
  <2> QED
    BY <2>2, <2>3 DEF StorageInv, FilesOK, FileOK
<1>5. ObjectsFate
  BY <1>1, <1>2, <1>4 DEF ObjectsFate, ObjectFate
<1>6. FilesOK'
  BY <1>1, <1>2, <1>3, <1>4 DEF StorageInv, FilesOK, FileOK, Is
<1>7. Fate
  BY <1>3 DEF Fate, RowFate, Is
<1>8. HandlersOK' /\ worker' \in [Worker -> HandlerType]
  BY <1>3, <1>5, <1>7, HandlersKeep DEF StorageInv, TypeOK, HandlerType
<1> QED
  BY <1>2, <1>3, <1>5, <1>6, <1>8, RowsStay DEF StorageInv, TypeOK

LEMMA BeginErasureStep ==
  ASSUME StorageInv, BeginErasure
  PROVE  StorageInv' /\ Fate
<1>1. UNCHANGED <<file, object, url, job, request, worker, faults, now>> /\ erasing'
  BY DEF BeginErasure
<1>2. FilesOK'
  BY <1>1 DEF StorageInv, FilesOK, FileOK, Is
<1>3. Fate /\ ObjectsFate /\ erasing' \in BOOLEAN
  BY <1>1, NoFate DEF BeginErasure
<1>4. HandlersOK' /\ worker' \in [Worker -> HandlerType]
  BY <1>1, <1>3, HandlersKeep DEF StorageInv, TypeOK, HandlerType
<1> QED
  BY <1>1, <1>2, <1>3, <1>4, RowsStay DEF StorageInv, TypeOK

LEMMA TickStep ==
  ASSUME StorageInv, Tick
  PROVE  StorageInv' /\ Fate
<1>1. UNCHANGED <<file, object, url, job, request, worker, erasing, faults>> /\ now' = now + 1
  BY DEF Tick
<1>2. now \in Nat /\ now' \in 0..Horizon
  BY <1>1, StorageAssumption DEF Tick, StorageInv, TypeOK
<1>3. Fate /\ ObjectsFate
  BY <1>1, NoFate
<1>4. FilesOK' /\ HandlersOK'
  <2>1. ASSUME NEW f \in File PROVE FileOK(f)'
    <3>1. FileOK(f) /\ file[f].born \in Nat
      BY DEF StorageInv, FilesOK, TypeOK, FileType
    <3> QED
      BY <3>1, <1>1, <1>2, StorageAssumption DEF FileOK, Is
  <2> QED
    BY <2>1, <1>1, <1>3, HandlersKeep DEF FilesOK
<1>5. RequestsOK'
  <2> SUFFICES ASSUME NEW q \in Request \union {Cron} PROVE RequestOK(request[q])'
    BY DEF RequestsOK
  <2>1. RequestOK(request[q]) /\ request[q].stale \subseteq File
    BY DEF StorageInv, RequestsOK, TypeOK
  <2>2. request[q].pc = "sign" =>
          request[q].file \in File /\ now' =< file[request[q].file].born + Delay
    <3> SUFFICES ASSUME request[q].pc = "sign"
                 PROVE  request[q].file \in File /\ now' =< file[request[q].file].born + Delay
      OBVIOUS
    <3>1. request[q].file \in File /\ q \in Request
      BY <2>1 DEF RequestOK, StorageInv, CronOK
    <3>2. now < file[request[q].file].born + Delay /\ file[request[q].file].born \in Nat
      BY <3>1 DEF Tick, StorageInv, TypeOK, FileType
    <3> QED
      BY <3>1, <3>2, <1>1, <1>2, StorageAssumption
  <2>3. \A f \in request[q].stale : file[f].born + StaleAfter < now'
    <3> SUFFICES ASSUME NEW f \in request[q].stale PROVE file[f].born + StaleAfter < now'
      OBVIOUS
    <3>1. file[f].born + StaleAfter < now /\ file[f].born \in Nat
      BY <2>1 DEF RequestOK, StorageInv, TypeOK, FileType
    <3> QED
      BY <3>1, <1>1, <1>2, StorageAssumption
  <2> QED
    BY <1>1, <2>1, <2>2, <2>3 DEF RequestOK, Is
<1>6. Apart' /\ CronOK'
  BY <1>1 DEF StorageInv, Apart, CronOK
<1> QED
  BY <1>1, <1>2, <1>3, <1>4, <1>5, <1>6 DEF StorageInv, TypeOK

-----------------------------------------------------------------------------
(* Steps of the handlers and of the queue. *)

(* What the queue may do to the job of a file; only a handler that is done *)
(* reports success.                                                        *)
JobFate(f) ==
  \/ job'[f].state = job[f].state
  \/ job[f].state = "open" /\ job'[f].state = "failed"
  \/ job[f].state = "open" /\ job'[f].state = "succeeded" /\ ~Is(f, "deleting")

LEMMA JobsMove ==
  ASSUME StorageInv, UNCHANGED <<file, object, url, erasing, now>>,
         \A f \in File : JobFate(f)
  PROVE  FilesOK'
BY DEF StorageInv, FilesOK, FileOK, Is, JobFate

LEMMA HandlerMoves ==
  ASSUME StorageInv, UNCHANGED <<file, object, url, request, erasing, now>>,
         faults' \in 0..Faults, job' \in [File -> Queue!LifeType],
         \A f \in File : JobFate(f),
         NEW w \in Worker, NEW x \in HandlerType,
         worker' = [worker EXCEPT ![w] = x], HandlerOK(x)
  PROVE  StorageInv' /\ Fate
<1>1. /\ worker' \in [Worker -> HandlerType]
      /\ \A v \in Worker : worker'[v] = IF v = w THEN x ELSE worker[v]
  BY DEF StorageInv, TypeOK, HandlerType
<1>2. \A v \in Worker : HandlerOK(worker'[v])
  BY <1>1 DEF StorageInv, HandlersOK
<1>3. HandlersOK'
  BY <1>2 DEF HandlersOK, HandlerOK, Is
<1>4. FilesOK'
  BY JobsMove
<1> QED
  BY <1>1, <1>3, <1>4, NoFate, RowsStay DEF StorageInv, TypeOK

(* One job moves to k. *)
LEMMA JobMoves ==
  ASSUME StorageInv, NEW f \in File, NEW k \in Queue!LifeType,
         job' = [job EXCEPT ![f] = k],
         \/ Queue!Attempt(job[f], k) \/ Queue!Run(job[f], k) \/ Queue!Fail(job[f], k)
         \/ Queue!Succeed(job[f], k) /\ Is(f, "deleted")
  PROVE  job' \in [File -> Queue!LifeType] /\ \A g \in File : JobFate(g)
<1>1. job[f] \in Queue!LifeType
  BY DEF StorageInv, TypeOK
<1>2. /\ job' \in [File -> Queue!LifeType] /\ job'[f] = k
      /\ \A g \in File : g # f => job'[g] = job[g]
  BY DEF StorageInv, TypeOK
<1>3. JobFate(f)
  <2>1. CASE Queue!Attempt(job[f], k) \/ Queue!Run(job[f], k)
    BY <1>1, <1>2, <2>1 DEF JobFate, Queue!Attempt, Queue!Run, Queue!LifeType
  <2>2. CASE Queue!Fail(job[f], k)
    BY <1>1, <1>2, <2>2 DEF JobFate, Queue!Fail, Queue!LifeType
  <2>3. CASE Queue!Succeed(job[f], k) /\ Is(f, "deleted")
    BY <1>1, <1>2, <2>3 DEF JobFate, Queue!Succeed, Queue!LifeType, Is
  <2> QED
    BY <2>1, <2>2, <2>3
<1> QED
  BY <1>2, <1>3 DEF JobFate

LEMMA JobsStay ==
  ASSUME StorageInv, UNCHANGED job
  PROVE  job' \in [File -> Queue!LifeType] /\ \A g \in File : JobFate(g)
BY DEF StorageInv, TypeOK, JobFate

LEMMA RanMoves ==
  ASSUME StorageInv, NEW w \in Worker, NEW f \in File, Ran(w, f)
  PROVE  job' \in [File -> Queue!LifeType] /\ \A g \in File : JobFate(g)
BY JobMoves, JobsStay DEF Ran

LEMMA FaultsType ==
  ASSUME StorageInv, faults' = faults \/ (faults < Faults /\ faults' = faults + 1)
  PROVE  faults' \in 0..Faults
BY StorageAssumption DEF StorageInv, TypeOK

(* Where a handler is. *)
LEMMA HandlerWhere ==
  ASSUME StorageInv, NEW w \in Worker, worker[w].pc # "idle"
  PROVE  HandlerOK(worker[w]) /\ worker[w] \in HandlerType /\ worker[w].file \in File
BY DEF StorageInv, HandlersOK, HandlerOK, TypeOK, HandlerType

LEMMA HandlerTo ==
  ASSUME StorageInv, NEW w \in Worker, worker[w].pc # "idle",
         NEW pc \in {"erase", "mark", "report"}, HandlerAt(w, pc)
  PROVE  \E x \in HandlerType :
           /\ x.pc = pc /\ x.file = worker[w].file
           /\ worker' = [worker EXCEPT ![w] = x]
<1> DEFINE x == [worker[w] EXCEPT !.pc = pc]
<1>1. x \in HandlerType /\ x.pc = pc /\ x.file = worker[w].file
  BY HandlerWhere DEF HandlerType
<1>2. worker' = [worker EXCEPT ![w] = x]
  BY DEF HandlerAt, StorageInv, TypeOK
<1> QED
  BY <1>1, <1>2

LEMMA StopStep ==
  ASSUME StorageInv, NEW w \in Worker, Stop(w),
         UNCHANGED <<file, object, url, request, erasing, now>>,
         faults' \in 0..Faults, job' \in [File -> Queue!LifeType], \A f \in File : JobFate(f)
  PROVE  StorageInv' /\ Fate
BY Idle, HandlerMoves DEF Stop

LEMMA TakeStep ==
  ASSUME StorageInv, NEW w \in Worker, NEW f \in File, ClaimJob(w, f) \/ EraseFile(w, f)
  PROVE  StorageInv' /\ Fate
<1>1. PICK l \in BOOLEAN :
        worker' = [worker EXCEPT ![w] = [pc |-> "find", file |-> f, leased |-> l]]
  BY DEF ClaimJob, EraseFile
<1> DEFINE x == [pc |-> "find", file |-> f, leased |-> l]
<1>2. x \in HandlerType /\ x.pc = "find" /\ x.file = f /\ worker' = [worker EXCEPT ![w] = x]
  BY <1>1 DEF HandlerType
<1> HIDE DEF x
<1>3. UNCHANGED <<file, object, url, request, erasing, faults, now>> /\ faults' \in 0..Faults
  BY DEF ClaimJob, EraseFile, StorageInv, TypeOK
<1>4. job' \in [File -> Queue!LifeType] /\ \A g \in File : JobFate(g)
  BY JobMoves, JobsStay DEF ClaimJob, EraseFile
<1>5. HandlerOK(x)
  <2>1. CASE ClaimJob(w, f)
    <3>1. job[f].state = "open"
      BY <2>1 DEF ClaimJob, Queue!Attempt
    <3>2. file[f].status \in Out
      BY <3>1 DEF StorageInv, FilesOK, FileOK
    <3> QED
      BY <1>2, <3>2 DEF HandlerOK, Out, Is
  <2>2. CASE EraseFile(w, f)
    BY <1>2, <2>2 DEF EraseFile, HandlerOK, Unfinished, Is
  <2> QED
    BY <2>1, <2>2
<1> QED
  BY <1>2, <1>3, <1>4, <1>5, HandlerMoves

LEMMA FindStep ==
  ASSUME StorageInv, NEW w \in Worker, Find(w)
  PROVE  StorageInv' /\ Fate
<1>1. PICK f \in File : f = worker[w].file
  BY HandlerWhere DEF Find
<1>2. HandlerOK(worker[w]) /\ worker[w].pc # "idle"
  BY HandlerWhere DEF Find
<1>3. UNCHANGED <<file, object, url, request, erasing, faults, now>> /\ faults' \in 0..Faults
  BY DEF Find, StorageInv, TypeOK
<1>4. CASE Is(f, "deleted") /\ HandlerAt(w, "report") /\ Ran(w, f)
  <2>1. PICK x \in HandlerType : /\ x.pc = "report" /\ x.file = worker[w].file
                                 /\ worker' = [worker EXCEPT ![w] = x]
    BY <1>2, <1>4, HandlerTo
  <2>2. HandlerOK(x)
    BY <1>1, <1>2, <1>4, <2>1 DEF HandlerOK
  <2> QED
    BY <1>3, <1>4, <2>1, <2>2, RanMoves, HandlerMoves
<1>5. CASE HandlerAt(w, "erase") /\ UNCHANGED job
  <2>1. PICK x \in HandlerType : /\ x.pc = "erase" /\ x.file = worker[w].file
                                 /\ worker' = [worker EXCEPT ![w] = x]
    BY <1>2, <1>5, HandlerTo
  <2>2. HandlerOK(x)
    BY <1>2, <2>1 DEF HandlerOK
  <2> QED
    BY <1>3, <1>5, <2>1, <2>2, JobsStay, HandlerMoves
<1> QED
  BY <1>1, <1>4, <1>5 DEF Find

LEMMA ReportStep ==
  ASSUME StorageInv, NEW w \in Worker, Report(w)
  PROVE  StorageInv' /\ Fate
<1>1. PICK f \in File : f = worker[w].file /\ Is(f, "deleted")
  BY HandlerWhere DEF Report, HandlerOK
<1>2. job' \in [File -> Queue!LifeType] /\ \A g \in File : JobFate(g)
  BY <1>1, JobMoves, JobsStay DEF Report
<1>3. faults' \in 0..Faults
  BY FaultsType DEF Report
<1> QED
  BY <1>2, <1>3, StopStep DEF Report

LEMMA FaultStep ==
  ASSUME StorageInv, NEW w \in Worker, Throw(w) \/ Crash(w) \/ Lapse(w)
  PROVE  StorageInv' /\ Fate
<1>1. faults' \in 0..Faults
  BY FaultsType DEF Throw, Crash, Lapse
<1>2. CASE Throw(w)
  <2>1. PICK f \in File : f = worker[w].file
    BY <1>2, HandlerWhere DEF Throw
  <2>2. job' \in [File -> Queue!LifeType] /\ \A g \in File : JobFate(g)
    BY <1>2, <2>1, JobMoves, JobsStay DEF Throw
  <2> QED
    BY <1>1, <1>2, <2>2, StopStep DEF Throw
<1>3. CASE Crash(w)
  BY <1>1, <1>3, JobsStay, StopStep DEF Crash
<1>4. CASE Lapse(w)
  <2> DEFINE x == [worker[w] EXCEPT !.leased = FALSE]
  <2>1. x \in HandlerType /\ x.pc = worker[w].pc /\ x.file = worker[w].file
    BY DEF StorageInv, TypeOK, HandlerType
  <2>2. worker' = [worker EXCEPT ![w] = x]
    BY <1>4 DEF Lapse, StorageInv, TypeOK
  <2> HIDE DEF x
  <2>3. HandlerOK(x)
    BY <2>1 DEF StorageInv, HandlersOK, HandlerOK
  <2> QED
    BY <1>1, <1>4, <2>1, <2>2, <2>3, JobsStay, HandlerMoves DEF Lapse
<1> QED
  BY <1>2, <1>3, <1>4

LEMMA GiveUpStep ==
  ASSUME StorageInv, NEW f \in File, GiveUp(f)
  PROVE  StorageInv' /\ Fate
<1>1. UNCHANGED <<file, object, url, request, worker, erasing, faults, now>>
  BY DEF GiveUp
<1>2. job' \in [File -> Queue!LifeType] /\ \A g \in File : JobFate(g)
  BY JobMoves DEF GiveUp
<1>3. FilesOK'
  BY <1>1, <1>2, JobsMove
<1>4. Fate /\ ObjectsFate
  BY <1>1, NoFate
<1>5. HandlersOK' /\ worker' \in [Worker -> HandlerType]
  BY <1>1, <1>4, HandlersKeep DEF StorageInv, TypeOK, HandlerType
<1> QED
  BY <1>1, <1>2, <1>3, <1>4, <1>5, RowsStay DEF StorageInv, TypeOK

LEMMA EraseStep ==
  ASSUME StorageInv, NEW w \in Worker, Erase(w)
  PROVE  StorageInv' /\ Fate
<1>1. PICK f \in File : f = worker[w].file
  BY HandlerWhere DEF Erase
<1>2. HandlerOK(worker[w]) /\ worker[w].pc # "idle"
  BY HandlerWhere DEF Erase
<1>3. UNCHANGED <<file, url, job, request, erasing, faults, now>>
  BY DEF Erase
<1>4. /\ object' \in [File -> Nat \union {None}] /\ object'[f] = None
      /\ \A g \in File : g # f => object'[g] = object[g]
  BY <1>1 DEF Erase, StorageInv, TypeOK
<1>5. ~Is(f, "absent") /\ (~erasing => file[f].status \in Out)
  BY <1>1, <1>2 DEF HandlerOK
<1>6. ObjectsFate
  BY <1>3, <1>4, <1>5 DEF ObjectsFate, ObjectFate, Is, Out
<1>7. FilesOK'
  BY <1>3, <1>4, <1>5 DEF StorageInv, FilesOK, FileOK, Is, Out
<1>8. PICK x \in HandlerType : /\ x.pc = "mark" /\ x.file = worker[w].file
                               /\ worker' = [worker EXCEPT ![w] = x]
  BY <1>2, HandlerTo DEF Erase
<1>9. /\ worker' \in [Worker -> HandlerType]
      /\ \A v \in Worker : worker'[v] = IF v = w THEN x ELSE worker[v]
  BY <1>8 DEF StorageInv, TypeOK, HandlerType
<1>10. HandlersOK'
  <2> SUFFICES ASSUME NEW v \in Worker PROVE HandlerOK(worker[v])'
    BY DEF HandlersOK
  <2>1. CASE v = w
    BY <2>1, <1>1, <1>3, <1>4, <1>5, <1>8, <1>9 DEF HandlerOK, Is
  <2>2. CASE v # w
    <3>1. Fate
      BY <1>3 DEF Fate, RowFate, Is
    <3> QED
      BY <2>2, <3>1, <1>3, <1>6, <1>9, HandlerKeeps
  <2> QED
    BY <2>1, <2>2
<1> QED
  BY <1>3, <1>4, <1>6, <1>7, <1>9, <1>10, RowsStay DEF StorageInv, TypeOK

LEMMA MarkStep ==
  ASSUME StorageInv, NEW w \in Worker, Mark(w)
  PROVE  StorageInv' /\ Fate
<1>1. PICK f \in File : f = worker[w].file
  BY HandlerWhere DEF Mark
<1>2. HandlerOK(worker[w]) /\ worker[w].pc = "mark"
  BY HandlerWhere DEF Mark
<1>3. UNCHANGED <<object, url, request, erasing, faults, now>>
  BY DEF Mark
<1>4. /\ ~Is(f, "absent") /\ (~erasing => file[f].status \in Out)
      /\ ~erasing /\ file[f].by = "sweep" => object[f] = None
  BY <1>1, <1>2 DEF HandlerOK
<1>5. job' \in [File -> Queue!LifeType] /\ \A g \in File : JobFate(g)
  BY <1>1, RanMoves DEF Mark
<1> DEFINE b == IF file[f].by = "nobody" THEN "erasure" ELSE file[f].by
           n == [status |-> "deleted", size |-> file[f].size, born |-> file[f].born, by |-> b]
<1>6. n \in FileType /\ n.status = "deleted" /\ n.born = file[f].born /\ n.by = b
  BY DEF StorageInv, TypeOK, FileType
<1>7. file' = [file EXCEPT ![f] = n]
  <2>1. file' = [file EXCEPT ![f].status = "deleted",
                   ![f].by = IF @ = "nobody" THEN "erasure" ELSE @]
    BY <1>1 DEF Mark
  <2>2. file' = [file EXCEPT ![f].status = "deleted", ![f].by = b]
    BY <2>1
  <2>3. file[f] \in FileType /\ file \in [File -> FileType]
    BY DEF StorageInv, TypeOK
  <2> HIDE DEF b
  <2>4. n = [file[f] EXCEPT !.status = "deleted", !.by = b]
    BY <2>3, Retitled
  <2> HIDE DEF n
  <2> QED
    BY <2>2, <2>3, <2>4
<1>8. b # "nobody" /\ (file[f].status \in Out => b = file[f].by)
      /\ (b = "sweep" => file[f].by = "sweep")
  BY DEF StorageInv, FilesOK, FileOK
<1> HIDE DEF n, b
<1>9. /\ file'[f] = n /\ file' \in [File -> FileType]
      /\ \A g \in File : g # f => file'[g] = file[g]
  BY <1>6, <1>7 DEF StorageInv, TypeOK
<1>10. FilesOK'
  <2>1. ASSUME NEW g \in File, g # f PROVE FileOK(g)'
    BY <2>1, <1>3, <1>5, <1>9 DEF StorageInv, FilesOK, FileOK, Is, JobFate
  <2>2. FileOK(f)'
    BY <1>3, <1>4, <1>6, <1>8, <1>9 DEF StorageInv, FilesOK, FileOK, Is, Out
  <2> QED
    BY <2>1, <2>2 DEF FilesOK
<1>11. Fate /\ ObjectsFate
  BY <1>3, <1>4, <1>6, <1>8, <1>9 DEF Fate, RowFate, ObjectsFate, ObjectFate, Is, Out
<1>12. PICK x \in HandlerType : /\ x.pc = "report" /\ x.file = worker[w].file
                                /\ worker' = [worker EXCEPT ![w] = x]
  BY <1>2, HandlerTo DEF Mark
<1>13. /\ worker' \in [Worker -> HandlerType]
       /\ \A v \in Worker : worker'[v] = IF v = w THEN x ELSE worker[v]
  BY <1>12 DEF StorageInv, TypeOK, HandlerType
<1>14. HandlersOK'
  <2> SUFFICES ASSUME NEW v \in Worker PROVE HandlerOK(worker[v])'
    BY DEF HandlersOK
  <2>1. CASE v = w
    BY <2>1, <1>1, <1>6, <1>9, <1>12, <1>13 DEF HandlerOK, Is, Out
  <2>2. CASE v # w
    BY <2>2, <1>3, <1>11, <1>13, HandlerKeeps
  <2> QED
    BY <2>1, <2>2
<1>15. RequestsOK' /\ Apart' /\ CronOK'
  <2>1. \A q \in Request \union {Cron} :
          request[q].pc \in Asking /\ request[q].file \in File /\ Is(request[q].file, "absent") =>
            Is(request[q].file, "absent")'
    BY <1>3, <1>4, <1>9 DEF Is
  <2>2. RequestsOK'
    BY <2>1, <1>3, <1>11, RequestKeeps DEF RequestsOK
  <2> QED
    BY <2>2, <1>3 DEF StorageInv, Apart, CronOK
<1> QED
  BY <1>3, <1>5, <1>9, <1>10, <1>11, <1>13, <1>14, <1>15 DEF StorageInv, TypeOK, HandlerType

-----------------------------------------------------------------------------

LEMMA NextStorageInv == StorageInv /\ [Next]_vars => StorageInv' /\ Fate
<1> SUFFICES ASSUME StorageInv, [Next]_vars PROVE StorageInv' /\ Fate
  OBVIOUS
<1>1. CASE UNCHANGED vars
  <2>1. UNCHANGED <<file, object, url, job, request, worker, erasing, faults, now>>
    BY <1>1 DEF vars
  <2>2. FilesOK' /\ HandlersOK' /\ ObjectsFate
    BY <2>1, NoFate, FilesKeep, HandlersKeep
  <2> QED
    BY <2>1, <2>2, RowsStay DEF StorageInv, TypeOK, HandlerType
<1>2. ASSUME NEW q \in Request \union {Cron}, Sweep(q) PROVE StorageInv' /\ Fate
  BY <1>2, SweepOneStep, EndSweepStep DEF Sweep
<1>3. ASSUME NEW q \in Request, Abandon(q) PROVE StorageInv' /\ Fate
  BY <1>3, LeaveStep DEF Abandon
<1>4. ASSUME NEW w \in Worker, Handler(w) PROVE StorageInv' /\ Fate
  BY <1>4, FindStep, EraseStep, MarkStep, ReportStep DEF Handler
<1>5. CASE Next
  BY <1>5, <1>2, <1>3, <1>4, BeginSweepStep, BeginErasureStep, TickStep, ReserveStep, SignStep,
     HeadStep, DecideStep, DeleteStep, BeginUploadStep, BeginStep, GiveUpStep, PutStep,
     FaultStep, TakeStep DEF Next
<1> QED
  BY <1>1, <1>5

(* The invariant of the uploads. *)
THEOREM AlwaysStorageInv == Spec => []StorageInv
<1>1. Init => StorageInv
  BY InitStorageInv
<1>2. StorageInv /\ [Next]_vars => StorageInv'
  BY NextStorageInv
<1> QED
  BY <1>1, <1>2, PTL DEF Spec

(* Every variable keeps its type. *)
THEOREM AlwaysTypeOK == Spec => []TypeOK
<1>1. StorageInv => TypeOK
  BY DEF StorageInv
<1> QED
  BY <1>1, AlwaysStorageInv, PTL

(* A file that is offered for download has its object, for any number of   *)
(* requests, sweeps, clients and handlers at work on it.                   *)
THEOREM AlwaysActiveHasObject == Spec => []ActiveHasObject
<1>1. StorageInv => ActiveHasObject
  BY DEF StorageInv, FilesOK, FileOK, ActiveHasObject
<1> QED
  BY <1>1, AlwaysStorageInv, PTL

(* A row that says `deleting` has a job that will finish it, or one that   *)
(* has used its attempts (scheduleFileDeletion).                           *)
THEOREM AlwaysDeletingIsQueued == Spec => []DeletingIsQueued
<1>1. StorageInv => DeletingIsQueued
  BY DEF StorageInv, FilesOK, FileOK, DeletingIsQueued
<1> QED
  BY <1>1, AlwaysStorageInv, PTL

(* An abandoned upload that was swept leaves no object: the URL of a stale *)
(* row has expired whenever PutLife + Delay =< StaleAfter.                 *)
THEOREM AlwaysSweptLeavesNothing == Spec => []SweptLeavesNothing
<1>1. StorageInv => SweptLeavesNothing
  BY DEF StorageInv, FilesOK, FileOK, SweptLeavesNothing
<1> QED
  BY <1>1, AlwaysStorageInv, PTL

(* A file on its way out never comes back, whatever a completion or a      *)
(* second deletion read before (activateUploadingFile, softDeleteFile).    *)
THEOREM StaysDeleted == Spec => NeverRevived
<1>1. StorageInv /\ [Next]_vars =>
        \A f \in File :
          /\ Is(f, "deleting") => file'[f].status \in {"deleting", "deleted"}
          /\ Is(f, "deleted") => file'[f].status = "deleted"
  <2> SUFFICES ASSUME StorageInv, [Next]_vars, NEW f \in File
               PROVE  /\ Is(f, "deleting") => file'[f].status \in {"deleting", "deleted"}
                      /\ Is(f, "deleted") => file'[f].status = "deleted"
    OBVIOUS
  <2>1. RowFate(f)
    BY NextStorageInv DEF Fate
  <2> QED
    BY <2>1 DEF RowFate, Is, Out
<1> QED
  BY <1>1, AlwaysStorageInv, PTL DEF Spec, NeverRevived

-----------------------------------------------------------------------------
(* Sums.  The library folds with a recursive function over the subsets of  *)
(* a set.  That there is one, that it does not depend on the set it was    *)
(* defined over, and what it computes follow from a least counterexample:  *)
(* among the subsets of a finite set that are wrong there is a smallest.   *)

Some(s) == CHOOSE x \in s : TRUE
Sums(g, w, S) ==
  g = [s \in SUBSET S |-> IF s = {} THEN 0 ELSE w[Some(s)] + g[s \ {Some(s)}]]

LEMMA SumIs ==
  ASSUME NEW w, NEW S
  PROVE  SumFunctionOnSet(w, S) = (CHOOSE g : Sums(g, w, S))[S]
BY Zenon DEF SumFunctionOnSet, FoldFunctionOnSet, MapThenFoldSet, Sums, Some

(* Among some subsets of a finite set there is a smallest. *)
LEMMA Smallest ==
  ASSUME NEW S, IsFiniteSet(S), NEW B, B \subseteq SUBSET S, B # {}
  PROVE  \E s \in B : \A t \in B : t \subseteq s => t = s
<1>1. IsWellFoundedOn(StrictSubsetOrdering(S), SUBSET S)
  BY FS_StrictSubsetOrderingWellFounded, FS_FiniteSubsetsOfFinite
<1>2. PICK s \in B : \A t \in B : ~(<<t, s>> \in StrictSubsetOrdering(S))
  BY <1>1, WFMin
<1>3. \A t \in B : t \subseteq s => t = s
  BY <1>2 DEF StrictSubsetOrdering
<1> QED
  BY <1>3

LEMMA SumsAlike ==
  ASSUME NEW w, NEW S, IsFiniteSet(S), NEW T, T \subseteq S,
         NEW g, Sums(g, w, S), NEW h, Sums(h, w, T)
  PROVE  \A t \in SUBSET T : g[t] = h[t]
<1> DEFINE B == {t \in SUBSET T : g[t] # h[t]}
<1>1. SUFFICES ASSUME B # {} PROVE FALSE
  OBVIOUS
<1>2. PICK s \in B : \A t \in B : t \subseteq s => t = s
  <2>1. B \subseteq SUBSET S
    OBVIOUS
  <2> HIDE DEF B
  <2> QED
    BY <1>1, <2>1, Smallest
<1>3. s \in SUBSET S /\ s \in SUBSET T
  BY <1>2
<1>4. CASE s = {}
  BY <1>2, <1>3, <1>4 DEF Sums
<1>5. CASE s # {}
  <2>1. Some(s) \in s
    BY <1>5 DEF Some
  <2>2. g[s] = w[Some(s)] + g[s \ {Some(s)}] /\ h[s] = w[Some(s)] + h[s \ {Some(s)}]
    BY <1>3, <1>5 DEF Sums
  <2>3. g[s \ {Some(s)}] = h[s \ {Some(s)}]
    BY <1>2, <1>3, <2>1
  <2> QED
    BY <1>2, <2>2, <2>3
<1> QED
  BY <1>4, <1>5

LEMMA SumsThere ==
  ASSUME NEW w, NEW S, IsFiniteSet(S)
  PROVE  \E g : Sums(g, w, S)
<1> DEFINE B == {T \in SUBSET S : ~\E g : Sums(g, w, T)}
<1>1. SUFFICES ASSUME B # {} PROVE FALSE
  OBVIOUS
<1>2. PICK T \in B : \A t \in B : t \subseteq T => t = T
  <2>1. B \subseteq SUBSET S
    OBVIOUS
  <2> HIDE DEF B
  <2> QED
    BY <1>1, <2>1, Smallest
<1>3. T \in SUBSET S /\ ~\E g : Sums(g, w, T)
  BY <1>2
<1> DEFINE G(s) == (CHOOSE g : Sums(g, w, s))
<1>4. ASSUME NEW s \in SUBSET T, s # T PROVE Sums(G(s), w, s) /\ IsFiniteSet(s)
  <2>1. s \notin B /\ s \in SUBSET S
    BY <1>2, <1>3, <1>4
  <2>2. \E g : Sums(g, w, s)
    BY <2>1
  <2>3. Sums(G(s), w, s)
    BY <2>2
  <2> QED
    BY <2>1, <2>3, FS_Subset
<1> DEFINE h == [s \in SUBSET T |->
                   IF s = {} THEN 0
                   ELSE w[Some(s)] + G(s \ {Some(s)})[s \ {Some(s)}]]
<1>5. ASSUME NEW s \in SUBSET T, s # T PROVE h[s] = G(s)[s]
  <2>1. Sums(G(s), w, s) /\ IsFiniteSet(s)
    BY <1>4, <1>5
  <2>2. G(s)[s] = IF s = {} THEN 0 ELSE w[Some(s)] + G(s)[s \ {Some(s)}]
    BY <2>1 DEF Sums
  <2>3. CASE s = {}
    BY <2>2, <2>3
  <2>4. CASE s # {}
    <3> DEFINE t == s \ {Some(s)}
    <3>1. Some(s) \in s
      BY <2>4 DEF Some
    <3>2. t \in SUBSET T /\ t # T /\ t \subseteq s
      BY <3>1
    <3>3. Sums(G(t), w, t)
      BY <1>4, <3>2
    <3> HIDE DEF G
    <3>4. G(s)[t] = G(t)[t]
      BY <2>1, <3>2, <3>3, SumsAlike
    <3> QED
      BY <2>2, <2>4, <3>4
  <2> QED
    BY <2>3, <2>4
<1>6. Sums(h, w, T)
  <2>1. ASSUME NEW s \in SUBSET T, s # {}
        PROVE  G(s \ {Some(s)})[s \ {Some(s)}] = h[s \ {Some(s)}]
    <3>1. Some(s) \in s
      BY <2>1 DEF Some
    <3>2. s \ {Some(s)} \in SUBSET T /\ s \ {Some(s)} # T
      BY <3>1
    <3> HIDE DEF G, h
    <3> QED
      BY <1>5, <3>2
  <2>2. h = [s \in SUBSET T |->
               IF s = {} THEN 0 ELSE w[Some(s)] + G(s \ {Some(s)})[s \ {Some(s)}]]
    OBVIOUS
  <2> HIDE DEF h, G
  <2>3. h = [s \in SUBSET T |-> IF s = {} THEN 0 ELSE w[Some(s)] + h[s \ {Some(s)}]]
    BY <2>1, <2>2, Zenon
  <2> QED
    BY <2>3 DEF Sums
<1> HIDE DEF h
<1> QED
  BY <1>3, <1>6

(* What the sum of the weights of a finite set is, by cases. *)
LEMMA SumStep ==
  ASSUME NEW w, NEW S, IsFiniteSet(S)
  PROVE  /\ S = {} => SumFunctionOnSet(w, S) = 0
         /\ S # {} => SumFunctionOnSet(w, S) = w[Some(S)] + SumFunctionOnSet(w, S \ {Some(S)})
<1> DEFINE G(s) == (CHOOSE g : Sums(g, w, s))
<1>1. \A s : IsFiniteSet(s) => Sums(G(s), w, s)
  BY SumsThere
<1>2. \A s : SumFunctionOnSet(w, s) = G(s)[s]
  BY SumIs
<1> HIDE DEF G
<1>3. G(S)[S] = IF S = {} THEN 0 ELSE w[Some(S)] + G(S)[S \ {Some(S)}]
  BY <1>1 DEF Sums
<1>4. G(S)[S \ {Some(S)}] = G(S \ {Some(S)})[S \ {Some(S)}]
  <2>1. IsFiniteSet(S \ {Some(S)})
    BY FS_Subset
  <2> QED
    BY <1>1, <2>1, SumsAlike, SMTT(40)
<1> QED
  BY <1>2, <1>3, <1>4

LEMMA SumNat ==
  ASSUME NEW w, NEW S, IsFiniteSet(S), \A x \in S : w[x] \in Nat
  PROVE  SumFunctionOnSet(w, S) \in Nat
<1> DEFINE B == {s \in SUBSET S : SumFunctionOnSet(w, s) \notin Nat}
<1>1. SUFFICES ASSUME B # {} PROVE FALSE
  OBVIOUS
<1>2. PICK s \in B : \A t \in B : t \subseteq s => t = s
  <2>1. B \subseteq SUBSET S
    OBVIOUS
  <2> HIDE DEF B
  <2> QED
    BY <1>1, <2>1, Smallest
<1>3. s \in SUBSET S /\ IsFiniteSet(s) /\ SumFunctionOnSet(w, s) \notin Nat
  BY <1>2, FS_Subset
<1>4. s # {}
  <2>1. s = {} => SumFunctionOnSet(w, s) = 0
    BY <1>3, SumStep
  <2> QED
    BY <1>3, <2>1
<1>5. Some(s) \in s
  BY <1>4 DEF Some
<1>6. SumFunctionOnSet(w, s \ {Some(s)}) \in Nat
  <2>1. s \ {Some(s)} \in SUBSET S /\ s \ {Some(s)} # s
    BY <1>3, <1>5
  <2>2. s \ {Some(s)} \notin B
    BY <1>2, <2>1
  <2> QED
    BY <2>1, <2>2
<1>7. SumFunctionOnSet(w, s) = w[Some(s)] + SumFunctionOnSet(w, s \ {Some(s)})
  BY <1>3, <1>4, SumStep
<1>8. w[Some(s)] \in Nat
  BY <1>3, <1>5
<1> QED
  BY <1>3, <1>6, <1>7, <1>8

(* The order of the summands does not matter. *)
LEMMA SumPick ==
  ASSUME NEW w, NEW S, IsFiniteSet(S), \A x \in S : w[x] \in Nat, NEW x \in S
  PROVE  SumFunctionOnSet(w, S) = w[x] + SumFunctionOnSet(w, S \ {x})
<1> DEFINE Wrong(s) == \E y \in s : SumFunctionOnSet(w, s) # w[y] + SumFunctionOnSet(w, s \ {y})
           B == {s \in SUBSET S : Wrong(s)}
<1>1. SUFFICES ASSUME B # {} PROVE FALSE
  OBVIOUS
<1>2. PICK s \in B : \A t \in B : t \subseteq s => t = s
  <2>1. B \subseteq SUBSET S
    OBVIOUS
  <2> HIDE DEF B
  <2> QED
    BY <1>1, <2>1, Smallest
<1>3. PICK y \in s : SumFunctionOnSet(w, s) # w[y] + SumFunctionOnSet(w, s \ {y})
  BY <1>2
<1>4. s \in SUBSET S
  BY <1>2
<1> DEFINE c == Some(s)
<1>5. c \in s
  BY DEF Some
<1>6. SumFunctionOnSet(w, s) = w[c] + SumFunctionOnSet(w, s \ {c})
  BY <1>4, <1>5, FS_Subset, SumStep
<1> HIDE DEF c
<1>7. c # y
  BY <1>3, <1>6
<1>8. ASSUME NEW t \in SUBSET s, t # s, NEW z \in t
      PROVE  SumFunctionOnSet(w, t) = w[z] + SumFunctionOnSet(w, t \ {z})
  BY <1>2, <1>4, <1>8
<1>9. SumFunctionOnSet(w, s \ {c}) = w[y] + SumFunctionOnSet(w, (s \ {c}) \ {y})
  BY <1>5, <1>7, <1>8
<1>10. SumFunctionOnSet(w, s \ {y}) = w[c] + SumFunctionOnSet(w, (s \ {y}) \ {c})
  BY <1>5, <1>7, <1>8
<1>11. (s \ {c}) \ {y} = (s \ {y}) \ {c}
  OBVIOUS
<1>12. /\ w[c] \in Nat /\ w[y] \in Nat
       /\ SumFunctionOnSet(w, (s \ {c}) \ {y}) \in Nat
  <2>1. IsFiniteSet((s \ {c}) \ {y}) /\ (s \ {c}) \ {y} \subseteq S
    BY <1>4, FS_Subset
  <2> QED
    BY <1>4, <1>5, <2>1, SumNat
<1> DEFINE n == SumFunctionOnSet(w, (s \ {c}) \ {y})
           m == SumFunctionOnSet(w, s \ {c})
           k == SumFunctionOnSet(w, s \ {y})
<1>13. n \in Nat /\ m = w[y] + n /\ k = w[c] + n
  BY <1>9, <1>10, <1>11, <1>12
<1>14. SumFunctionOnSet(w, s) = w[c] + m /\ SumFunctionOnSet(w, s) # w[y] + k
  BY <1>3, <1>6
<1> HIDE DEF n, m, k
<1> QED
  BY <1>12, <1>13, <1>14

(* Fewer summands that are no larger make no larger sum. *)
LEMMA SumLess ==
  ASSUME NEW v, NEW w, NEW T, NEW S, IsFiniteSet(S), T \subseteq S,
         \A x \in S : w[x] \in Nat, \A x \in T : v[x] \in Nat /\ v[x] =< w[x]
  PROVE  SumFunctionOnSet(v, T) =< SumFunctionOnSet(w, S)
<1> DEFINE Wrong(s) == ~(SumFunctionOnSet(v, T \cap s) =< SumFunctionOnSet(w, s))
           B == {s \in SUBSET S : Wrong(s)}
<1>1. SUFFICES ASSUME B # {} PROVE FALSE
  <2>1. T \cap S = T
    OBVIOUS
  <2>2. S \notin B => SumFunctionOnSet(v, T) =< SumFunctionOnSet(w, S)
    BY <2>1
  <2> HIDE DEF B
  <2> QED
    BY <2>2
<1>2. PICK s \in B : \A t \in B : t \subseteq s => t = s
  <2>1. B \subseteq SUBSET S
    OBVIOUS
  <2> HIDE DEF B
  <2> QED
    BY <1>1, <2>1, Smallest
<1>3. s \in SUBSET S /\ Wrong(s)
  BY <1>2
<1>4. /\ IsFiniteSet(s) /\ \A x \in s : w[x] \in Nat
      /\ IsFiniteSet(T \cap s) /\ \A x \in T \cap s : v[x] \in Nat /\ v[x] =< w[x]
  BY <1>3, FS_Subset
<1>5. s # {}
  <2>1. SUFFICES ASSUME s = {} PROVE FALSE
    OBVIOUS
  <2>2. SumFunctionOnSet(v, T \cap s) = 0 /\ SumFunctionOnSet(w, s) = 0
    BY <1>4, <2>1, SumStep
  <2> QED
    BY <1>3, <2>2
<1>6. PICK x : x \in s
  BY <1>5
<1> DEFINE t == s \ {x}
<1>7. /\ t \in SUBSET S /\ t \subseteq s /\ t # s /\ IsFiniteSet(t)
      /\ IsFiniteSet(T \cap t)
  BY <1>3, <1>4, <1>6, FS_Subset
<1>8. SumFunctionOnSet(v, T \cap t) =< SumFunctionOnSet(w, t)
  BY <1>2, <1>7
<1>9. SumFunctionOnSet(w, s) = w[x] + SumFunctionOnSet(w, t) /\ w[x] \in Nat
  BY <1>4, <1>6, SumPick
<1>10. SumFunctionOnSet(w, t) \in Nat /\ SumFunctionOnSet(v, T \cap t) \in Nat
  <2>1. (\A y \in t : w[y] \in Nat) /\ (\A y \in T \cap t : v[y] \in Nat)
    BY <1>4
  <2> HIDE DEF t
  <2> QED
    BY <1>7, <2>1, SumNat
<1>11. CASE x \in T
  <2>1. (T \cap s) \ {x} = T \cap t
    OBVIOUS
  <2>2. x \in T \cap s /\ v[x] \in Nat /\ v[x] =< w[x]
    BY <1>4, <1>6, <1>11
  <2>3. SumFunctionOnSet(v, T \cap s) = v[x] + SumFunctionOnSet(v, (T \cap s) \ {x})
    BY <1>4, <2>2, SumPick
  <2> DEFINE n == SumFunctionOnSet(v, T \cap t)  m == SumFunctionOnSet(w, t)
  <2>4. /\ SumFunctionOnSet(v, T \cap s) = v[x] + n /\ SumFunctionOnSet(w, s) = w[x] + m
        /\ n \in Nat /\ m \in Nat /\ n =< m
    BY <1>8, <1>9, <1>10, <2>1, <2>3
  <2>5. v[x] + n =< w[x] + m
    <3> HIDE DEF n, m
    <3> QED
      BY <1>9, <2>2, <2>4
  <2> QED
    BY <1>3, <2>4, <2>5
<1>12. CASE x \notin T
  <2>1. T \cap s = T \cap t
    BY <1>12
  <2> DEFINE n == SumFunctionOnSet(v, T \cap t)  m == SumFunctionOnSet(w, t)
  <2>2. /\ SumFunctionOnSet(v, T \cap s) = n /\ SumFunctionOnSet(w, s) = w[x] + m
        /\ n \in Nat /\ m \in Nat /\ n =< m
    BY <1>8, <1>9, <1>10, <2>1
  <2>3. n =< w[x] + m
    <3> HIDE DEF n, m
    <3> QED
      BY <1>9, <2>2
  <2> QED
    BY <1>3, <2>2, <2>3
<1> QED
  BY <1>11, <1>12

-----------------------------------------------------------------------------
(* The quota.  A row weighs what was declared, or less; a step either adds *)
(* one row that the sum left room for or makes nothing heavier.            *)

QuotaInv ==
  /\ IsFiniteSet(Held)
  /\ \A f \in File : Is(f, "uploading") => file[f].size = Size[f]
  /\ QuotaKept

LEMMA Weights ==
  ASSUME TypeOK
  PROVE  \A f \in File : /\ Weight[f] \in Nat /\ Sizes[f] \in Nat /\ Size[f] \in Nat
                         /\ Weight[f] =< Sizes[f] /\ Weight[f] =< Size[f]
                         /\ Sizes[f] = file[f].size
BY StorageAssumption DEF TypeOK, FileType, Weight, Sizes

LEMMA InitQuotaInv == Init => QuotaInv
<1> SUFFICES ASSUME Init PROVE QuotaInv
  OBVIOUS
<1>1. TypeOK
  BY InitStorageInv DEF StorageInv
<1>2. Held = Stored
  BY StorageAssumption DEF Init, Held, Unfinished
<1>3. SumFunctionOnSet(Weight, Stored) =< SumFunctionOnSet(Size, Stored)
  <2>1. /\ \A f \in Stored : Size[f] \in Nat
        /\ \A f \in Stored : Weight[f] \in Nat /\ Weight[f] =< Size[f]
    BY <1>1, Weights, StorageAssumption
  <2> QED
    BY <2>1, SumLess, StoredAssumption
<1>4. SumFunctionOnSet(Weight, Stored) \in Nat /\ SumFunctionOnSet(Size, Stored) \in Nat
  <2>1. \A f \in Stored : Size[f] \in Nat /\ Weight[f] \in Nat
    BY <1>1, Weights, StorageAssumption
  <2> QED
    BY <2>1, SumNat, StoredAssumption
<1>5. QuotaKept
  <2>1. Quota \in Nat /\ SumFunctionOnSet(Size, Stored) =< Quota
    BY StorageAssumption, StoredAssumption
  <2> QED
    BY <1>2, <1>3, <1>4, <2>1 DEF QuotaKept
<1>6. \A f \in File : Is(f, "uploading") => file[f].size = Size[f]
  BY DEF Init, Is
<1> QED
  BY <1>2, <1>5, <1>6, StoredAssumption DEF QuotaInv

(* No row is added and none becomes heavier. *)
LEMMA Lighter ==
  ASSUME TypeOK, TypeOK', QuotaInv,
         \A f \in File : file'[f].status \in Unfinished =>
           file[f].status \in Unfinished /\ Weight'[f] =< Weight[f],
         \A f \in File : Is(f, "uploading")' => file'[f].size = Size[f]
  PROVE  QuotaInv'
<1>1. Held' \subseteq Held /\ \A f \in Held' : Weight'[f] =< Weight[f]
  BY DEF Held
<1>2. IsFiniteSet(Held) /\ IsFiniteSet(Held')
  BY <1>1, FS_Subset DEF QuotaInv
<1>3. Held \subseteq File /\ Held' \subseteq File
  BY DEF Held
<1>4. (\A f \in File : Weight[f] \in Nat) /\ (\A f \in File : Weight'[f] \in Nat)
  BY StorageAssumption DEF TypeOK, FileType, Weight
<1> PICK v, w, T, S : v = Weight' /\ w = Weight /\ T = Held' /\ S = Held
  OBVIOUS
<1>5. /\ IsFiniteSet(S) /\ IsFiniteSet(T) /\ T \subseteq S /\ \A f \in S : w[f] \in Nat
      /\ \A f \in T : v[f] \in Nat /\ v[f] =< w[f]
  BY <1>1, <1>2, <1>3, <1>4
<1>6. SumFunctionOnSet(v, T) =< SumFunctionOnSet(w, S)
  BY <1>5, SumLess
<1>7. SumFunctionOnSet(v, T) \in Nat /\ SumFunctionOnSet(w, S) \in Nat
  BY <1>5, SumNat
<1>8. SumFunctionOnSet(w, S) =< Quota /\ Quota \in Nat
  BY StorageAssumption DEF QuotaInv, QuotaKept
<1>9. SumFunctionOnSet(v, T) =< Quota
  BY <1>6, <1>7, <1>8
<1>10. QuotaKept'
  BY <1>9 DEF QuotaKept
<1> QED
  BY <1>2, <1>10 DEF QuotaInv

LEMMA QuotaStill ==
  ASSUME TypeOK, TypeOK', QuotaInv, UNCHANGED file
  PROVE  QuotaInv'
<1>1. \A f \in File : Weight'[f] = Weight[f] /\ Weight[f] \in Nat
  BY Weights DEF Weight
<1> QED
  BY <1>1, Lighter DEF QuotaInv, Is

(* reserveFileWithinQuota adds a row that fits. *)
LEMMA QuotaReserve ==
  ASSUME StorageInv, TypeOK', QuotaInv, NEW q \in Request, Reserve(q)
  PROVE  QuotaInv'
<1> USE DEF StorageInv
<1>1. PICK f \in File : f = request[q].file /\ Is(f, "absent")
  BY StorageAssumption DEF Reserve, RequestsOK, RequestOK, Asking
<1>2. CASE UNCHANGED file
  BY <1>2, QuotaStill
<1>3. CASE /\ ~(UsedBytes + Size[f] > Quota)
           /\ file' = [file EXCEPT ![f] =
                [status |-> "uploading", size |-> Size[f], born |-> now, by |-> "nobody"]]
  <2>1. /\ file'[f].status = "uploading" /\ file'[f].size = Size[f]
        /\ \A g \in File : g # f => file'[g] = file[g]
    BY <1>3 DEF TypeOK
  <2>2. f \notin Held /\ Held' = Held \union {f} /\ Held \subseteq File
    BY <1>1, <2>1 DEF Held, Unfinished, Is
  <2>3. /\ \A g \in File : Weight[g] \in Nat /\ Sizes[g] \in Nat /\ Weight[g] =< Sizes[g]
        /\ Size[f] \in Nat
    BY Weights
  <2>4. Weight'[f] = Size[f] /\ \A g \in File : g # f => Weight'[g] = Weight[g]
    BY <2>1, <2>3 DEF Weight
  <2>5. IsFiniteSet(Held) /\ IsFiniteSet(Held')
    BY <2>2, FS_AddElement DEF QuotaInv
  <2> PICK v, w, z, T, S : v = Weight' /\ w = Weight /\ z = Sizes /\ T = Held' /\ S = Held
    OBVIOUS
  <2>6. /\ IsFiniteSet(S) /\ IsFiniteSet(T) /\ f \in T /\ T \ {f} = S /\ f \notin S
        /\ v[f] = Size[f] /\ Size[f] \in Nat
        /\ \A g \in S : v[g] \in Nat /\ v[g] = w[g] /\ z[g] \in Nat /\ v[g] =< z[g]
    BY <2>2, <2>3, <2>4, <2>5
  <2>7. SumFunctionOnSet(v, T) = Size[f] + SumFunctionOnSet(v, S)
    <3>1. \A g \in T : v[g] \in Nat
      BY <2>6
    <3> QED
      BY <2>6, <3>1, SumPick
  <2>8. SumFunctionOnSet(v, S) =< SumFunctionOnSet(z, S)
    BY <2>6, SumLess
  <2>9. SumFunctionOnSet(v, S) \in Nat /\ SumFunctionOnSet(z, S) \in Nat
    BY <2>6, SumNat
  <2>10. ~(SumFunctionOnSet(z, S) + Size[f] > Quota) /\ Quota \in Nat
    BY <1>3, StorageAssumption DEF UsedBytes
  <2>11. SumFunctionOnSet(v, T) =< Quota
    BY <2>6, <2>7, <2>8, <2>9, <2>10
  <2>12. QuotaKept'
    BY <2>11 DEF QuotaKept
  <2>13. \A g \in File : Is(g, "uploading")' => file'[g].size = Size[g]
    BY <2>1 DEF QuotaInv, Is
  <2> QED
    BY <2>5, <2>12, <2>13 DEF QuotaInv
<1> QED
  BY <1>1, <1>2, <1>3 DEF Reserve

(* A deletion is scheduled: the row keeps its place, and what it weighs is *)
(* at most what it did.                                                    *)
LEMMA QuotaScheduled ==
  ASSUME StorageInv, TypeOK', QuotaInv, NEW f \in File, NEW bytes \in Nat,
         NEW expected \in SUBSET Unfinished, NEW who, Schedule(f, expected, bytes, who),
         bytes = file[f].size \/ expected = {"uploading"}
  PROVE  QuotaInv'
<1> USE DEF StorageInv
<1>1. CASE UNCHANGED file
  BY <1>1, QuotaStill
<1>2. CASE /\ file[f].status \in expected
           /\ file' = [file EXCEPT ![f].status = "deleting", ![f].size = bytes,
                         ![f].by = IF @ = "nobody" THEN who ELSE @]
  <2>1. /\ file'[f].status = "deleting" /\ file'[f].size = bytes
        /\ \A g \in File : g # f => file'[g] = file[g]
    BY <1>2 DEF TypeOK, FileType
  <2>2. Weight'[f] =< Weight[f]
    <3>1. file[f].size \in Nat /\ Size[f] \in Nat
      BY StorageAssumption DEF TypeOK, FileType
    <3>2. bytes = file[f].size \/ file[f].size = Size[f]
      BY <1>2 DEF QuotaInv, Is
    <3> QED
      BY <2>1, <3>1, <3>2 DEF Weight
  <2>3. \A g \in File : g # f => Weight'[g] = Weight[g] /\ Weight[g] \in Nat
    BY <2>1, Weights DEF Weight
  <2>4. \A g \in File : file'[g].status \in Unfinished =>
          file[g].status \in Unfinished /\ Weight'[g] =< Weight[g]
    BY <1>2, <2>1, <2>2, <2>3
  <2>5. \A g \in File : Is(g, "uploading")' => file'[g].size = Size[g]
    BY <2>1 DEF QuotaInv, Is
  <2> QED
    BY <2>4, <2>5, Lighter
<1> QED
  BY <1>1, <1>2 DEF Schedule, rows

(* The row of one file changes its status, and nothing else counts. *)
LEMMA QuotaStatus ==
  ASSUME StorageInv, TypeOK', QuotaInv, NEW f \in File,
         \A g \in File : g # f => file'[g] = file[g],
         file'[f].size = file[f].size, file'[f].status # "uploading",
         file'[f].status \in Unfinished => file[f].status \in Unfinished
  PROVE  QuotaInv'
<1>1. \A g \in File : Weight'[g] = Weight[g] /\ Weight[g] \in Nat
  BY Weights DEF Weight, StorageInv
<1>2. \A g \in File : file'[g].status \in Unfinished =>
          file[g].status \in Unfinished /\ Weight'[g] =< Weight[g]
  BY <1>1
<1>3. \A g \in File : Is(g, "uploading")' => file'[g].size = Size[g]
  BY DEF QuotaInv, Is
<1> QED
  BY <1>2, <1>3, Lighter DEF StorageInv

LEMMA QuotaDecide ==
  ASSUME StorageInv, TypeOK', QuotaInv, NEW q \in Request, Decide(q)
  PROVE  QuotaInv'
<1>1. PICK f \in File : f = request[q].file /\ request[q].size \in Nat
  BY DEF Decide, StorageInv, RequestsOK, RequestOK
<1>2. CASE Mismatch(f, request[q].size)
  <2>1. Schedule(f, {"uploading"}, request[q].size, "person")
    BY <1>1, <1>2 DEF Decide
  <2> QED
    BY <1>1, <2>1, QuotaScheduled DEF Unfinished
<1>3. CASE UNCHANGED file
  BY <1>3, QuotaStill DEF StorageInv
<1>4. CASE Is(f, "uploading") /\ file' = [file EXCEPT ![f].status = "active"]
  <2>1. /\ file'[f].status = "active" /\ file'[f].size = file[f].size
        /\ \A g \in File : g # f => file'[g] = file[g]
    BY <1>4 DEF StorageInv, TypeOK, FileType
  <2> QED
    BY <1>4, <2>1, QuotaStatus DEF Is, Unfinished
<1> QED
  BY <1>1, <1>2, <1>3, <1>4 DEF Decide

LEMMA QuotaMark ==
  ASSUME StorageInv, TypeOK', QuotaInv, NEW w \in Worker, Mark(w)
  PROVE  QuotaInv'
<1>1. PICK f \in File : f = worker[w].file
  BY HandlerWhere, SMTT(40) DEF Mark
<1>2. /\ file'[f].status = "deleted" /\ file'[f].size = file[f].size
      /\ \A g \in File : g # f => file'[g] = file[g]
  BY <1>1 DEF Mark, StorageInv, TypeOK, FileType
<1> QED
  BY <1>2, QuotaStatus DEF Unfinished

LEMMA NextQuotaInv == StorageInv /\ QuotaInv /\ [Next]_vars => QuotaInv'
<1> SUFFICES ASSUME StorageInv, QuotaInv, [Next]_vars PROVE QuotaInv'
  OBVIOUS
<1>1. TypeOK /\ TypeOK'
  BY NextStorageInv DEF StorageInv
<1>2. ASSUME UNCHANGED file PROVE QuotaInv'
  BY <1>1, <1>2, QuotaStill
<1>3. ASSUME NEW q \in Request \union {Cron}, SweepOne(q) PROVE QuotaInv'
  <2>1. PICK f \in request[q].stale : Schedule(f, {"uploading"}, file[f].size, "sweep")
    BY <1>3 DEF SweepOne
  <2>2. f \in File /\ file[f].size \in Nat
    BY <1>1 DEF TypeOK, FileType
  <2> QED
    BY <1>1, <2>1, <2>2, QuotaScheduled DEF Unfinished
<1>4. ASSUME NEW q \in Request, Delete(q) PROVE QuotaInv'
  <2>1. PICK f \in File : f = request[q].file
    BY <1>4 DEF Delete, StorageInv, RequestsOK, RequestOK
  <2>2. file[f].size \in Nat
    BY <1>1 DEF TypeOK, FileType
  <2> QED
    BY <1>1, <1>4, <2>1, <2>2, QuotaScheduled DEF Delete
<1>5. ASSUME NEW q \in Request, Reserve(q) \/ Decide(q) PROVE QuotaInv'
  BY <1>1, <1>5, QuotaReserve, QuotaDecide
<1>6. ASSUME NEW w \in Worker, Mark(w) PROVE QuotaInv'
  BY <1>1, <1>6, QuotaMark
<1>7. ASSUME NEW q \in Request \union {Cron}, EndSweep(q) PROVE UNCHANGED file
  BY <1>7, SMTT(40) DEF EndSweep
<1>8. ASSUME NEW q \in Request,
             \/ Sign(q) \/ Head(q) \/ Abandon(q)
             \/ \E f \in File : BeginUpload(q, f) \/ BeginComplete(q, f) \/ BeginDelete(q, f)
      PROVE  UNCHANGED file
  BY <1>8 DEF Sign, Head, Abandon, BeginUpload, BeginComplete, BeginDelete
<1>9. ASSUME NEW f \in File, GiveUp(f) \/ \E bytes \in Strange \union {Size[f]} : Put(f, bytes)
      PROVE  UNCHANGED file
  BY <1>9 DEF GiveUp, Put
<1>10. ASSUME NEW w \in Worker,
              \/ Find(w) \/ Erase(w) \/ Report(w) \/ Throw(w) \/ Crash(w) \/ Lapse(w)
              \/ \E f \in File : ClaimJob(w, f) \/ EraseFile(w, f)
      PROVE  UNCHANGED file
  BY <1>10 DEF Find, Erase, Report, Throw, Crash, Lapse, ClaimJob, EraseFile
<1>11. ASSUME BeginSweep \/ BeginErasure \/ Tick PROVE UNCHANGED file
  BY <1>11 DEF BeginSweep, BeginErasure, Tick
<1> QED
  BY <1>2, <1>3, <1>4, <1>5, <1>6, <1>7, <1>8, <1>9, <1>10, <1>11
  DEF Next, Sweep, Handler, vars

(* What an organization has asked for and not got rid of fits its plan:    *)
(* the sum and the insert of reserveFileWithinQuota are under one lock,    *)
(* and a row gives its place back only when softDeleteFile has marked it.  *)
THEOREM AlwaysQuotaKept == Spec => []QuotaKept
<1>1. Init => StorageInv /\ QuotaInv
  BY InitStorageInv, InitQuotaInv
<1>2. StorageInv /\ QuotaInv /\ [Next]_vars => (StorageInv /\ QuotaInv)'
  BY NextStorageInv, NextQuotaInv
<1>3. QuotaInv => QuotaKept
  BY DEF QuotaInv
<1> QED
  BY <1>1, <1>2, <1>3, PTL DEF Spec

-----------------------------------------------------------------------------
(* The queue behind the files: their deletion jobs move by the steps that  *)
(* DurableJob allows and JobQueue implements.                              *)

QueueStep == \A f \in File : job'[f] = job[f] \/ Queue!Step(job[f], job'[f])

LEMMA QueueStill == ASSUME UNCHANGED job PROVE QueueStep
BY DEF QueueStep

LEMMA OneJob ==
  ASSUME TypeOK, NEW f, NEW k, job' = [job EXCEPT ![f] = k], Queue!Step(job[f], k)
  PROVE  QueueStep
<1>1. job \in [File -> Queue!LifeType]
  BY DEF TypeOK
<1>2. ASSUME NEW g \in File PROVE job'[g] = job[g] \/ Queue!Step(job[g], job'[g])
  <2>1. job'[g] = IF g = f THEN k ELSE job[g]
    BY <1>1
  <2>2. CASE g = f
    BY <2>1, <2>2
  <2>3. CASE g # f
    BY <2>1, <2>3
  <2> QED  BY <2>2, <2>3
<1> QED
  BY <1>2 DEF QueueStep

LEMMA ScheduledInQueue ==
  ASSUME TypeOK, NEW f, NEW expected, NEW bytes, NEW who, Schedule(f, expected, bytes, who)
  PROVE  QueueStep
<1>1. CASE UNCHANGED job
  BY <1>1, QueueStill
<1>2. CASE Enqueue(f) /\ ~UNCHANGED job
  <2>1. PICK k \in Queue!LifeType :
          (Queue!Submit(job[f], k) \/ Queue!Revive(job[f], k)) /\ job' = [job EXCEPT ![f] = k]
    BY <1>2 DEF Enqueue
  <2>2. Queue!Step(job[f], k)
    BY <2>1 DEF Queue!Step
  <2> QED  BY <2>1, <2>2, OneJob
<1> QED
  BY <1>1, <1>2 DEF Schedule, rows

LEMMA HandlerUsesQueue ==
  ASSUME TypeOK, NEW w \in Worker,
         \/ Handler(w) \/ Throw(w) \/ Crash(w) \/ Lapse(w)
         \/ \E f \in File : ClaimJob(w, f) \/ EraseFile(w, f)
  PROVE  QueueStep
<1>1. ASSUME NEW f, Ran(w, f) PROVE QueueStep
  BY <1>1, OneJob, QueueStill DEF Ran, Queue!Step
<1>2. ASSUME Find(w) \/ Mark(w) PROVE QueueStep
  BY <1>1, <1>2, QueueStill DEF Find, Mark
<1>3. ASSUME Erase(w) \/ Crash(w) \/ Lapse(w) PROVE QueueStep
  BY <1>3, QueueStill DEF Erase, Crash, Lapse
<1>4. CASE Report(w)
  BY <1>4, OneJob, QueueStill DEF Report, Queue!Step
<1>5. CASE Throw(w)
  BY <1>5, OneJob, QueueStill DEF Throw, Queue!Step
<1>6. ASSUME NEW f \in File, ClaimJob(w, f) PROVE QueueStep
  BY <1>6, OneJob DEF ClaimJob, Queue!Step
<1>7. ASSUME NEW f \in File, EraseFile(w, f) PROVE QueueStep
  BY <1>7, QueueStill DEF EraseFile
<1> QED
  BY <1>2, <1>3, <1>4, <1>5, <1>6, <1>7 DEF Handler

LEMMA RequestUsesQueue ==
  ASSUME TypeOK, NEW q \in Request,
         \/ Reserve(q) \/ Sign(q) \/ Head(q) \/ Decide(q) \/ Delete(q) \/ Abandon(q)
         \/ \E f \in File : BeginUpload(q, f) \/ BeginComplete(q, f) \/ BeginDelete(q, f)
  PROVE  QueueStep
<1>1. ASSUME Reserve(q) \/ Sign(q) \/ Head(q) \/ Abandon(q) PROVE QueueStep
  BY <1>1, QueueStill DEF Reserve, Sign, Head, Abandon
<1>2. ASSUME NEW f \in File, BeginUpload(q, f) \/ BeginComplete(q, f) \/ BeginDelete(q, f)
      PROVE  QueueStep
  BY <1>2, QueueStill DEF BeginUpload, BeginComplete, BeginDelete
<1>3. CASE Decide(q)
  BY <1>3, ScheduledInQueue, QueueStill DEF Decide
<1>4. CASE Delete(q)
  BY <1>4, ScheduledInQueue DEF Delete
<1> QED
  BY <1>1, <1>2, <1>3, <1>4

LEMMA NextUsesQueue == TypeOK /\ [Next]_vars => QueueStep
<1> SUFFICES ASSUME TypeOK, [Next]_vars PROVE QueueStep
  OBVIOUS
<1>1. ASSUME NEW q \in Request \union {Cron}, Sweep(q) PROVE QueueStep
  BY <1>1, ScheduledInQueue, QueueStill DEF Sweep, SweepOne, EndSweep
<1>2. ASSUME BeginSweep \/ BeginErasure \/ Tick PROVE QueueStep
  BY <1>2, QueueStill DEF BeginSweep, BeginErasure, Tick
<1>3. ASSUME NEW q \in Request,
             \/ Reserve(q) \/ Sign(q) \/ Head(q) \/ Decide(q) \/ Delete(q) \/ Abandon(q)
             \/ \E f \in File : BeginUpload(q, f) \/ BeginComplete(q, f) \/ BeginDelete(q, f)
      PROVE  QueueStep
  BY <1>3, RequestUsesQueue
<1>4. ASSUME NEW f \in File, GiveUp(f) \/ \E bytes \in Strange \union {Size[f]} : Put(f, bytes)
      PROVE  QueueStep
  BY <1>4, OneJob, QueueStill DEF GiveUp, Put, Queue!Step
<1>5. ASSUME NEW w \in Worker,
             \/ Handler(w) \/ Throw(w) \/ Crash(w) \/ Lapse(w)
             \/ \E f \in File : ClaimJob(w, f) \/ EraseFile(w, f)
      PROVE  QueueStep
  BY <1>5, HandlerUsesQueue
<1>6. CASE UNCHANGED vars
  BY <1>6, QueueStill DEF vars
<1> QED
  BY <1>1, <1>2, <1>3, <1>4, <1>5, <1>6 DEF Next

(* Uploads, sweeps, deletions and erasures only ask of the queue what it   *)
(* promises: every behaviour of theirs is one of DurableJob, for any       *)
(* number of files (scheduleFileDeletion, deleteStoredObject).             *)
THEOREM StorageUsesQueue == Spec => Queue!Spec
<1>1. Init => Queue!Init
  BY DEF Init
<1>2. TypeOK /\ TypeOK' /\ [Next]_vars => [Queue!Next]_job
  <2> SUFFICES ASSUME TypeOK, TypeOK', [Next]_vars PROVE Queue!Next
    OBVIOUS
  <2>1. job' \in [File -> Queue!LifeType]
    BY DEF TypeOK
  <2> QED
    BY <2>1, NextUsesQueue DEF QueueStep, Queue!Next
<1> QED
  BY <1>1, <1>2, AlwaysTypeOK, PTL DEF Spec, Queue!Spec
=============================================================================
