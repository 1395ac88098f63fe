----------------------------- MODULE DurableJob -----------------------------
(***************************************************************************)
(* What the queue promises to the code that enqueues work, without leases, *)
(* clocks or workers (src/services/jobs/index.ts, src/services/jobs/       *)
(* handlers.ts): a job is attempted at most MaxAttempts times per life,    *)
(* reports success only after its handler ran to the end, and once over    *)
(* stays over until somebody asks for it again.  JobQueue implements it.   *)
(***************************************************************************)
EXTENDS Naturals

CONSTANTS Row, MaxAttempts

VARIABLE life

Over == {"succeeded", "failed", "canceled"}

LifeType ==
  [state : {"absent", "open", "gone"} \union Over, used : 0..MaxAttempts, ran : BOOLEAN]

Init == life = [r \in Row |-> [state |-> "absent", used |-> 0, ran |-> FALSE]]

(* How one job may change in a step. *)
Submit(j, k) == /\ j.state = "absent"
                /\ k = [state |-> "open", used |-> 0, ran |-> FALSE]

Attempt(j, k) == /\ j.state = "open" /\ j.used < MaxAttempts
                 /\ k = [j EXCEPT !.used = @ + 1]

(* The handler's effect; a late worker may complete it after the job ended. *)
Run(j, k) == /\ j.state # "absent"
             /\ k = [j EXCEPT !.ran = TRUE]

Succeed(j, k) == /\ j.state = "open" /\ j.used > 0 /\ j.ran
                 /\ k = [j EXCEPT !.state = "succeeded"]

Fail(j, k) == /\ j.state = "open" /\ j.used > 0
              /\ k = [j EXCEPT !.state = "failed"]

Cancel(j, k) == /\ j.state \notin {"absent", "gone"}
                /\ k = [j EXCEPT !.state = "canceled"]

Revive(j, k) == /\ j.state \in Over
                /\ k = [state |-> "open", used |-> 0, ran |-> FALSE]

Forget(j, k) == /\ j.state \in {"succeeded", "failed"}
                /\ k = [j EXCEPT !.state = "gone"]

Step(j, k) ==
  \/ Submit(j, k) \/ Attempt(j, k) \/ Run(j, k) \/ Succeed(j, k) \/ Fail(j, k)
  \/ Cancel(j, k) \/ Revive(j, k) \/ Forget(j, k)

(* One statement may change several jobs at once. *)
Next == /\ life' \in [Row -> LifeType]
        /\ \A r \in Row : life'[r] = life[r] \/ Step(life[r], life'[r])

Spec == Init /\ [][Next]_life
=============================================================================
