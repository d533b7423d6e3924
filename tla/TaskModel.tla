----------------------------- MODULE TaskModel -----------------------------
(***************************************************************************)
(* The value layer of the durable kernel (codey/durable/model.py and       *)
(* reducer.py): the phase and status graphs of a task checkpoint, the      *)
(* submission graph, and the pure predicates the store evaluates before it *)
(* accepts a checkpoint.  No state lives here.                             *)
(*                                                                         *)
(* A checkpoint is the record type Checkpoint below.  Two fields abstract  *)
(* JSON data to what those predicates tell apart:                          *)
(*   op   - the "operation" mapping: absent ("none"); at a leaf that still *)
(*          needs kernel cleanup ("busy"); at another leaf that cleanup    *)
(*          behind the cancellation barrier may write ("closed"); or at    *)
(*          any position it may not write ("open");                        *)
(*   held - a completion_answer was saved while owned work drains.         *)
(***************************************************************************)
EXTENDS Naturals, Sequences, FiniteSets

Phases == {"accepted", "dispatching", "running", "completion_pending",
           "completed", "failed", "cancelled"}

Statuses == {"pending", "running", "waiting", "completing",
             "completed", "failed", "cancelled"}

Terminal == {"completed", "failed", "cancelled"}

Operations == {"none", "open", "busy", "closed"}

PhaseTransitions ==
  [accepted           |-> {"dispatching", "running", "failed", "cancelled"},
   dispatching        |-> {"accepted", "running", "failed", "cancelled"},
   running            |-> {"completion_pending", "failed", "cancelled"},
   completion_pending |-> {"completed", "failed", "cancelled"},
   completed          |-> {},
   failed             |-> {},
   cancelled          |-> {}]

StatusTransitions ==
  [pending    |-> {"pending", "running", "waiting", "failed", "cancelled"},
   running    |-> {"running", "pending", "waiting", "completing", "failed",
                   "cancelled"},
   waiting    |-> {"waiting", "running", "pending", "failed", "cancelled"},
   completing |-> {"completing", "completed", "failed", "cancelled"},
   completed  |-> {"completed"},
   failed     |-> {"failed"},
   cancelled  |-> {"cancelled"}]

ValidTaskTransition(p, q) == p = q \/ q \in PhaseTransitions[p]

ValidTaskStatusTransition(s, u) == u \in StatusTransitions[s]

SubmissionStatuses == {"queued", "running", "done", "unanswered", "cancelled"}

ValidSubmissionTransition(s, u) ==
  \/ s = u
  \/ s = "queued"  /\ u \in {"running", "done", "unanswered", "cancelled"}
  \/ s = "running" /\ u \in {"done", "unanswered", "cancelled"}

-----------------------------------------------------------------------------
(* Predicates over one checkpoint k, or over a stored one k and its        *)
(* proposed successor n.                                                   *)

Live(k) == k.status \in {"pending", "running", "waiting", "completing"}

(* kernel_cleanup_required *)
KernelCleanupRequired(k) ==
  /\ k.op # "none"
  /\ k.pend # {} \/ k.op = "busy"

\* Mutant: a cleanup that recovery may not put back into the queue.
ValidCancellationCleanupHere(k, n) ==
  /\ n.cancel
  /\ n.phase = "running"
  /\ n.status \in {"running", "waiting"}
  /\ k.op # "none"
  /\ n.op \in {"busy", "closed"}

(* valid_cancellation_cleanup: what may still be saved behind the barrier. *)
ValidCancellationCleanup(k, n) ==
  /\ n.cancel
  /\ n.phase = "running"
  /\ n.status \in {"running", "pending", "waiting"}
  /\ k.op # "none"
  /\ n.op \in {"busy", "closed"}

(* valid_execution_attempt: the fence every checkpoint write passes. *)
ValidExecutionAttempt(k, n, expected) ==
  /\ k.token = expected
  /\ \/ n.token = k.token /\ n.attempt = k.attempt /\ n.owner = k.owner
     \/ /\ n.token # k.token
        /\ n.token = 0
        /\ n.status \in {"pending", "waiting"} \union Terminal
        /\ n.attempt = k.attempt
     \/ /\ n.token # k.token
        /\ n.token # 0
        /\ k.status = "pending"
        /\ n.status = "running"
        /\ k.token = 0
        /\ n.attempt = k.attempt + 1

(* TaskCheckpoint.__post_init__ *)
WellFormed(k) ==
  /\ k.status \in Terminal => k.phase = k.status
  /\ k.phase \in Terminal => k.status \in Terminal
  /\ (k.token # 0) <=> (k.owner # 0)
  /\ k.token # 0 => k.attempt # 0 /\ k.pid # 0
  /\ k.token = 0 => k.pid = 0

\* Mutant: the store without the cancellation barrier.
ValidExistingTaskNoBarrier(k, n, expected) ==
  /\ k.phase # "none"
  /\ ValidExecutionAttempt(k, n, expected)
  /\ n.parent = k.parent /\ n.abandon = k.abandon
  /\ ValidTaskTransition(k.phase, n.phase)
  /\ ValidTaskStatusTransition(k.status, n.status)
  /\ WellFormed(n)

(* _validate_existing_task, less the identity fields no operation changes. *)
ValidExistingTask(k, n, expected) ==
  /\ k.phase # "none"                     \* there is a stored task
  /\ k.cancel => \/ n.phase \in {"cancelled", "failed"}
                 \/ ValidCancellationCleanup(k, n)
  /\ ValidExecutionAttempt(k, n, expected)
  /\ n.parent = k.parent /\ n.abandon = k.abandon
  /\ ValidTaskTransition(k.phase, n.phase)
  /\ ValidTaskStatusTransition(k.status, n.status)
  /\ WellFormed(n)

(* with_effect_intents, and cancellation_receipts_only behind the barrier. *)
AdmitsEffects(k) ==
  /\ k.phase = "running"
  /\ k.status \in {"running", "waiting"}
  /\ k.cancel => k.op = "busy"

(* _release_attempt_state *)
Released(k) == [k EXCEPT !.token = 0, !.owner = 0, !.pid = 0]
=============================================================================
