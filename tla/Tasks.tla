-------------------------------- MODULE Tasks --------------------------------
(***************************************************************************)
(* Paid work (src/services/tasks.ts, src/models/task.ts, in front of them  *)
(* src/app/api/tasks/text-to-video/route.ts): a task is inserted under the *)
(* idempotency key of its user, paid out of the organization's ledger, run *)
(* at a provider, and given back when anything fails.                      *)
(*                                                                         *)
(* Every task has one trans_no for each request that may ask for it.  Its  *)
(* spend and its refund are the transactions of CreditLedger; what happens *)
(* between them is this module's.  Other spends (the ping) and other       *)
(* refunds go on at the same time.                                         *)
(***************************************************************************)
EXTENDS CreditLedger

CONSTANTS
  Task,       \* user, type and idempotency key
  TransNo,    \* the spends a task may make: Task -> SUBSET SpendIds
  Faults      \* bound: database calls of a task that throw, and crashes

ASSUME TasksAssumption ==
  /\ \A t \in Task : TransNo[t] \subseteq SpendIds
  /\ \A t, u \in Task : t # u => TransNo[t] \intersect TransNo[u] = {}
  /\ NoOne \notin SpendIds
  /\ Faults \in Nat

VARIABLES
  task,    \* tasks
  run,     \* what each request of createTextToVideoTask holds in memory
  logged,  \* "refund text-to-video credits failed", by trans_no
  faults

taskVars == <<task, run, logged, faults>>

TaskSpends == UNION {TransNo[t] : t \in Task}
NoTask == [status |-> "none", transNo |-> NoOne]
Done == [pc |-> "done", task |-> NoOne, transNo |-> NoOne]

TasksInit ==
  /\ Init
  /\ task = [t \in Task |-> NoTask]
  /\ run = [q \in Request |-> Done]
  /\ logged = {}
  /\ faults = 0

Step(q, pc) == run' = [run EXCEPT ![q].pc = pc]

(* Mutant: no unique index. *)
InsertsAnyway(t) == TRUE

(* insertTaskForIdempotencyKey: onConflictDoNothing.                       *)
Inserts(t) == task[t].status = "none"

(* The route, and the row.  A repeated key is answered with the row there  *)
(* is.                                                                     *)
CreateTask(q, t) ==
  /\ run[q] = Done /\ request[q] = Idle
  /\ Inserts(t)
  /\ task' = [task EXCEPT ![t] = [NoTask EXCEPT !.status = "running"]]
  /\ run' = [run EXCEPT ![q] = [pc |-> "spend", task |-> t, transNo |-> NoOne]]
  /\ UNCHANGED <<vars, logged, faults>>

(* decreaseCredits, under a fresh trans_no.                                *)
Fresh(t) ==
  {s \in TransNo[t] : RowsOf("spend", s) = {} /\ \A p \in Request : run[p].transNo # s}

Spend(q) ==
  LET fresh == Fresh(run[q].task)
      s == CHOOSE x \in fresh : TRUE IN
  /\ run[q].pc = "spend" /\ fresh # {}
  /\ CallSpend(q, s)
  /\ run' = [run EXCEPT ![q].pc = "spending", ![q].transNo = s]
  /\ UNCHANGED <<task, logged, faults>>

(* Its transaction is over, and answers, or throws although it committed.  *)
Spent(q) ==
  LET paid == RowsOf("spend", run[q].transNo) # {} IN
  /\ run[q].pc = "spending" /\ request[q] = Idle
  /\ \/ paid /\ Step(q, "note") /\ UNCHANGED faults
     \/ ~paid /\ run' = [run EXCEPT ![q].pc = "fail", ![q].transNo = NoOne] /\ UNCHANGED faults
     \/ /\ paid /\ faults < Faults /\ faults' = faults + 1
        /\ run' = [run EXCEPT ![q].pc = "fail", ![q].transNo = NoOne]
  /\ UNCHANGED <<vars, task, logged>>

(* updateTaskStatus: the row names the spend.                              *)
NoteSpend(q) ==
  /\ run[q].pc = "note"
  /\ task' = [task EXCEPT ![run[q].task].transNo = run[q].transNo]
  /\ Step(q, "generate")
  /\ UNCHANGED <<vars, logged, faults>>

(* generateTextToVideo, which may throw.                                   *)
Generate(q) ==
  /\ run[q].pc = "generate"
  /\ \E pc \in {"finish", "refund"} : Step(q, pc)
  /\ UNCHANGED <<vars, task, logged, faults>>

Finish(q) ==
  /\ run[q].pc = "finish"
  /\ task' = [task EXCEPT ![run[q].task].status = "succeeded"]
  /\ run' = [run EXCEPT ![q] = Done]
  /\ UNCHANGED <<vars, logged, faults>>

(* An update throws, before or after it was written.                       *)
UpdateThrows(q) ==
  LET t == run[q].task IN
  /\ run[q].pc \in {"note", "finish"}
  /\ faults < Faults /\ faults' = faults + 1
  /\ \/ UNCHANGED task
     \/ run[q].pc = "finish" /\ task' = [task EXCEPT ![t].status = "succeeded"]
     \/ run[q].pc = "note" /\ task' = [task EXCEPT ![t].transNo = run[q].transNo]
  /\ Step(q, "refund")
  /\ UNCHANGED <<vars, logged>>

(* The catch: refundCreditsForTransaction, if the spend is known.          *)
Refund(q) ==
  /\ run[q].pc = "refund"
  /\ CallRefund(q, run[q].transNo)
  /\ Step(q, "refunding")
  /\ UNCHANGED <<task, logged, faults>>

(* Its transaction is over; a refund that failed is logged.                *)
Refunded(q) ==
  /\ run[q].pc = "refunding" /\ request[q] = Idle
  /\ Step(q, "fail")
  /\ logged' = IF RowsOf("refund", run[q].transNo) = {} THEN logged \union {run[q].transNo}
                                                         ELSE logged
  /\ UNCHANGED <<vars, task, faults>>

(* updateTaskStatus: `undefined` leaves credits_trans_no as it is.         *)
MarkFailed(q) ==
  LET r == run[q] IN
  /\ r.pc = "fail"
  /\ task' = [task EXCEPT ![r.task] =
       [status |-> "failed", transNo |-> IF r.transNo = NoOne THEN @.transNo ELSE r.transNo]]
  /\ run' = [run EXCEPT ![q] = Done]
  /\ UNCHANGED <<vars, logged, faults>>

(* The process dies, wherever it is; nothing takes the task up again.      *)
Crash(q) ==
  /\ run[q] # Done
  /\ faults < Faults /\ faults' = faults + 1
  /\ run' = [run EXCEPT ![q] = Done]
  /\ Release(q)
  /\ UNCHANGED <<ledger, erased, now, task, logged>>

TaskNext ==
  \E q \in Request :
    \/ \E t \in Task : CreateTask(q, t)
    \/ Spend(q) \/ Spent(q) \/ NoteSpend(q) \/ Generate(q) \/ Finish(q) \/ UpdateThrows(q)
    \/ Refund(q) \/ Refunded(q) \/ MarkFailed(q) \/ Crash(q)

(* What the ledger does by itself, and for others.                         *)
LedgerNext ==
  \/ \E q \in Request :
       \/ /\ run[q] = Done
          /\ \/ \E g \in GrantIds : CallGrant(q, g)
             \/ \E s \in SpendIds \ TaskSpends : CallSpend(q, s)
       \/ Transaction(q)
  \/ EraseMember \/ Tick

TasksNext == TaskNext \/ (LedgerNext /\ UNCHANGED taskVars)

TasksSpec == TasksInit /\ [][TasksNext]_<<vars, taskVars>>

-----------------------------------------------------------------------------
(* Properties. *)

Standing(s) == RowsOf("spend", s) # {} /\ RowsOf("refund", s) = {}

(* A task is paid once, however often its key is sent ("double-charging    *)
(* for a double-clicked task", docs/database.md:193), and a failed one     *)
(* whose row names its spend was given it back, or the log says that it    *)
(* was not.                                                                *)
TaskPaidOnce ==
  \A t \in Task :
    /\ Cardinality({s \in TransNo[t] : RowsOf("spend", s) # {}}) <= 1
    /\ task[t].status = "failed" /\ Standing(task[t].transNo) => task[t].transNo \in logged
=============================================================================
