-------------------------- MODULE LifecycleProofs --------------------------
(***************************************************************************)
(* Steps of the durable task kernel: what a commit may do to a task that   *)
(* is being stopped, who may change its effects, and that the kernel       *)
(* implements TaskLifecycle.                                               *)
(*                                                                         *)
(* StepKinds sorts the steps of Next into five kinds: nothing is           *)
(* committed, a task is admitted, a worker records, a completion advances, *)
(* or one checkpoint moves quietly, its effects and answers untouched.     *)
(* Each theorem is then one argument per kind.                             *)
(***************************************************************************)
EXTENDS DurableTasksProofs

\* What the store lets a checkpoint k become, whoever asks.
Allowed(k, n) ==
  /\ k.phase # "none"
  /\ k.cancel => n.phase \in {"cancelled", "failed"} \/ ValidCancellationCleanup(k, n)
  /\ ValidTaskTransition(k.phase, n.phase)
  /\ WellFormed(n)

\* A commit that neither records nor answers.
Quiet(k, n) ==
  /\ Allowed(k, n)
  /\ n.above = k.above
  /\ n.op = k.op
  /\ k.cancel => n.cancel
  /\ \/ n.phase \in {k.phase, "cancelled", "failed"}
     \/ n.phase \in {"accepted", "dispatching"}
     \/ n.phase = "running" /\ ~k.cancel

Moves(t) ==
  /\ task' = [task EXCEPT ![t] = task'[t]]
  /\ Quiet(task[t], task'[t])
  /\ UNCHANGED <<eff, answers>>

Nothing == UNCHANGED <<task, eff, answers>>

\* The stored checkpoints are well formed, a task that was never admitted
\* has no history, and owners were admitted before what they own.
Store ==
  \A t \in Tasks :
    /\ WellFormed(task[t])
    /\ task[t].phase = "none" => task[t].op = "none" /\ ~task[t].cancel
    /\ task[t].phase = "none" => task[t].above = {}
    /\ \A o \in task[t].above : task[o].phase # "none"

-----------------------------------------------------------------------------
(* The kinds of steps.                                                     *)

\* A commit of _commit that keeps position and barrier is quiet.
LEMMA QuietCommit ==
  ASSUME Tables, NEW t \in Tasks, NEW n, NEW x, Commit(t, n, x),
         n.above = task[t].above, n.op = task[t].op,
         task[t].cancel => n.cancel,
         \/ n.phase \in {task[t].phase, "cancelled", "failed"}
         \/ n.phase \in {"accepted", "dispatching"}
         \/ n.phase = "running" /\ ~task[t].cancel,
         UNCHANGED <<eff, answers>>
  PROVE  Moves(t)
BY DEF Tables, Commit, ValidExistingTask, Moves, Quiet, Allowed

\* fail_task is quiet: it keeps the pending receipts.
LEMMA QuietFail ==
  ASSUME Tables, NEW t \in Tasks, NEW x, FailTask(t, x)
  PROVE  Moves(t)
<1>1. task[t] \in Checkpoint
  BY DEF Tables
<1>2. /\ FailedState(task[t]).above = task[t].above
      /\ FailedState(task[t]).op = task[t].op
      /\ FailedState(task[t]).cancel = task[t].cancel
      /\ FailedState(task[t]).phase = "failed"
  BY <1>1 DEF FailedState, Released, Checkpoint
<1> QED BY <1>2, QuietCommit DEF FailTask

\* _cancel_terminal is quiet.
LEMMA QuietCancel ==
  ASSUME Tables, NEW t \in Tasks, CancelTerminal(t)
  PROVE  Moves(t)
<1>1. task[t] \in Checkpoint
  BY DEF Tables
<1>2. /\ CancelledState(task[t]).above = task[t].above
      /\ CancelledState(task[t]).op = task[t].op
      /\ CancelledState(task[t]).cancel
      /\ CancelledState(task[t]).phase = "cancelled"
  BY <1>1 DEF CancelledState, Released, Checkpoint
<1>3. Commit(t, CancelledState(task[t]), task[t].token)
  BY DEF CancelTerminal, CanCancelTerminal, Commit
<1> QED BY <1>2, <1>3, QuietCommit DEF CancelTerminal

\* claim_task is quiet.
LEMMA QuietClaim ==
  ASSUME Tables, NEW t \in Tasks, Claim(t)
  PROVE  Moves(t)
<1>1. task[t] \in Checkpoint
  BY DEF Tables
<1>2. /\ ClaimedState(task[t]).above = task[t].above
      /\ ClaimedState(task[t]).op = task[t].op
      /\ ClaimedState(task[t]).cancel = task[t].cancel
      /\ ClaimedState(task[t]).phase \in {task[t].phase, "dispatching"}
  BY <1>1 DEF ClaimedState, Checkpoint
<1> QED BY <1>2, QuietCommit DEF Claim

\* So is the release of a claim.
LEMMA QuietUnclaim ==
  ASSUME Tables, NEW t \in Tasks, NEW x, Commit(t, UnclaimedState(task[t]), x),
         UNCHANGED <<eff, answers>>
  PROVE  Moves(t)
<1>1. task[t] \in Checkpoint
  BY DEF Tables
<1>2. /\ UnclaimedState(task[t]).above = task[t].above
      /\ UnclaimedState(task[t]).op = task[t].op
      /\ UnclaimedState(task[t]).cancel = task[t].cancel
      /\ UnclaimedState(task[t]).phase \in {task[t].phase, "accepted"}
  BY <1>1 DEF UnclaimedState, Released, Checkpoint
<1> QED BY <1>2, QuietCommit

\* So are waking a parked or joined task and recovering one.
LEMMA QuietQueue ==
  ASSUME Tables, NEW t \in Tasks, NEW x, UNCHANGED <<eff, answers>>,
         \/ Commit(t, RecoverableState(task[t]), x)
         \/ Commit(t, Released([task[t] EXCEPT !.status = "pending"]), x)
         \/ Commit(t, JoinedState(task[t]), x)
  PROVE  Moves(t)
<1>1. task[t] \in Checkpoint
  BY DEF Tables
<1>2. ASSUME NEW n \in {RecoverableState(task[t]),
                        Released([task[t] EXCEPT !.status = "pending"]),
                        JoinedState(task[t])}
      PROVE  /\ n.above = task[t].above /\ n.op = task[t].op
             /\ n.cancel = task[t].cancel /\ n.phase = task[t].phase
  BY <1>1 DEF RecoverableState, JoinedState, Released, Checkpoint
<1> QED BY <1>2, QuietCommit

\* wait_task is quiet, for a decision and for a join.
LEMMA QuietPark ==
  ASSUME Tables, NEW w \in workers, w.task \in Tasks,
         \/ \E answered \in Parks : WorkerPark(w, answered)
         \/ \E list \in WaitLists, policy \in JoinPolicies : WorkerJoin(w, list, policy)
  PROVE  Moves(w.task)
<1>1. task[w.task] \in Checkpoint
  BY DEF Tables
<1>2. ASSUME NEW answered, WorkerPark(w, answered)
      PROVE  Moves(w.task)
  <2> DEFINE n == Released([task[w.task] EXCEPT !.join = FALSE, !.policy = "allSettled",
                     !.status = IF answered THEN "pending" ELSE "waiting"])
  <2>1. /\ n.above = task[w.task].above /\ n.op = task[w.task].op
        /\ n.cancel = task[w.task].cancel /\ n.phase = task[w.task].phase
    BY <1>1 DEF Released, Checkpoint
  <2>2. Commit(w.task, n, task[w.task].token)
    BY <1>2 DEF WorkerPark
  <2>3. UNCHANGED <<eff, answers>>
    BY <1>2 DEF WorkerPark
  <2> HIDE DEF n
  <2> QED BY <2>1, <2>2, <2>3, QuietCommit
<1>3. ASSUME NEW list, NEW policy, WorkerJoin(w, list, policy)
      PROVE  Moves(w.task)
  <2> DEFINE n == Released([task[w.task] EXCEPT !.on = list, !.policy = policy,
                                                !.join = TRUE, !.status = "waiting"])
  <2>1. /\ n.above = task[w.task].above /\ n.op = task[w.task].op
        /\ n.cancel = task[w.task].cancel /\ n.phase = task[w.task].phase
    BY <1>1 DEF Released, Checkpoint
  <2>2. Commit(w.task, n, task[w.task].token)
    BY <1>3 DEF WorkerJoin
  <2>3. UNCHANGED <<eff, answers>>
    BY <1>3 DEF WorkerJoin
  <2> HIDE DEF n
  <2> QED BY <2>1, <2>2, <2>3, QuietCommit
<1> QED BY <1>2, <1>3

\* The commits of request_cancel and cancel_task only add the barrier.
LEMMA QuietStop ==
  ASSUME Tables, NEW t \in Tasks, RequestCommit(t) \/ CloseCommit(t)
  PROVE  Moves(t)
<1>1. task[t] \in Checkpoint
  BY DEF Tables
<1>2. CASE CancelTerminal(t)
  BY <1>2, QuietCancel
<1>3. ASSUME NEW n \in {HeldState(task[t]), RequestedState(t)}
      PROVE  /\ n.above = task[t].above /\ n.op = task[t].op
             /\ n.cancel /\ n.phase = task[t].phase
  BY <1>1 DEF HeldState, RequestedState, Checkpoint
<1>4. CASE Commit(t, RequestedState(t), task[t].token) /\ UNCHANGED <<eff, answers>>
  BY <1>3, <1>4, QuietCommit
<1>5. CASE Commit(t, HeldState(task[t]), task[t].token) /\ UNCHANGED <<eff, answers>>
  BY <1>3, <1>5, QuietCommit
<1> QED BY <1>2, <1>4, <1>5 DEF RequestCommit, CloseCommit

\* start_task moves to running only without a barrier.
LEMMA QuietStart ==
  ASSUME Tables, NEW w \in workers, w.task \in Tasks, WorkerStart(w)
  PROVE  Nothing \/ Moves(w.task)
<1>1. task[w.task] \in Checkpoint
  BY DEF Tables
<1> DEFINE n == [task[w.task] EXCEPT !.phase = "running", !.status = "running"]
<1>2. /\ n.above = task[w.task].above /\ n.op = task[w.task].op
      /\ n.cancel = task[w.task].cancel /\ n.phase = "running"
  BY <1>1 DEF Checkpoint
<1>3. UNCHANGED <<eff, answers>>
  BY DEF WorkerStart
<1>4. CASE /\ ~task[w.task].cancel
           /\ Commit(w.task, n, BoundToken(task[w.task], w.token))
  <2> HIDE DEF n
  <2> QED BY <1>2, <1>3, <1>4, QuietCommit
<1>5. CASE UNCHANGED task
  BY <1>3, <1>5 DEF Nothing
<1> QED BY <1>4, <1>5 DEF WorkerStart

Advances(t) == \E x : AdvanceCompletion(t, x)

Records ==
  \E w \in workers, intents, settlements \in SUBSET Effects, op \in OpSteps :
    WorkerRecord(w, intents, settlements, op)

Admits == \E t \in Tasks : \E p \in OwnerChoice[t], b \in Abandons : Admit(t, p, b)

\* The steps of the mutation line commit at most one checkpoint each.
LEMMA LineKinds ==
  ASSUME IInv,
         \/ CompleteStep \/ CancelRoot
         \/ \E t \in Tasks :
              CancelChild(t) \/ JoinStep(t) \/ FinalizeStep(t) \/ RecoverStep(t)
  PROVE  Nothing \/ \E t \in Tasks : Moves(t) \/ Advances(t)
<1>1. Tables /\ LineInv
  BY DEF IInv
<1>2. CASE CompleteStep
  <2>1. line.task \in Tasks
    BY <1>1, <1>2 DEF LineInv, CompleteStep
  <2> QED BY <1>2, <2>1 DEF CompleteStep, Advances, Nothing
<1>3. CASE CancelRoot
  <2>1. line.task \in Tasks
    BY <1>1, <1>3 DEF LineInv, CancelRoot, Cancelling
  <2> QED BY <1>1, <1>3, <2>1, QuietStop DEF CancelRoot
<1>4. ASSUME NEW t \in Tasks, CancelChild(t)
      PROVE  Nothing \/ Moves(t)
  BY <1>1, <1>4, QuietStop DEF CancelChild, Nothing
<1>5. ASSUME NEW t \in Tasks, JoinStep(t)
      PROVE  Nothing \/ Moves(t)
  BY <1>1, <1>5, QuietFail, QuietQueue DEF JoinStep, Nothing
<1>6. ASSUME NEW t \in Tasks, FinalizeStep(t)
      PROVE  Nothing \/ Moves(t) \/ Advances(t)
  BY <1>1, <1>6, QuietCancel DEF FinalizeStep, Nothing, Advances
<1>7. ASSUME NEW t \in Tasks, RecoverStep(t)
      PROVE  Nothing \/ Moves(t)
  BY <1>1, <1>7, QuietFail, QuietCancel, QuietQueue DEF RecoverStep, Nothing
<1> QED BY <1>2, <1>3, <1>4, <1>5, <1>6, <1>7

\* Every step is of one of the five kinds.
LEMMA StepKinds ==
  ASSUME IInv, [Next]_vars
  PROVE  Nothing \/ Admits \/ Records \/ \E t \in Tasks : Moves(t) \/ Advances(t)
<1>1. Tables /\ \A w \in workers : w.task \in Tasks
  BY DEF IInv, WorkersInv, Worker
<1>2. CASE UNCHANGED vars
  BY <1>2 DEF vars, Nothing
<1>3. CASE \E t \in Tasks : \E p \in OwnerChoice[t], b \in Abandons : Admit(t, p, b)
  BY <1>3 DEF Admits
<1>4. ASSUME NEW t \in Tasks, Claim(t) \/ SchedulerFail(t) \/ Requeue(t)
      PROVE  Moves(t)
  BY <1>1, <1>4, QuietClaim, QuietFail, QuietQueue DEF SchedulerFail, Requeue
<1>5. ASSUME NEW t \in Tasks, NEW w \in workers, Unclaim(t, w)
      PROVE  Moves(t)
  BY <1>1, <1>5, QuietUnclaim DEF Unclaim
<1>6. ASSUME NEW w \in workers, WorkerStart(w)
      PROVE  Nothing \/ Moves(w.task)
  BY <1>1, <1>6, QuietStart
<1>7. ASSUME NEW w \in workers, WorkerFail(w) \/ WorkerWaitCancelled(w)
      PROVE  Moves(w.task)
  BY <1>1, <1>7, QuietFail, QuietCancel, QuietUnclaim DEF WorkerFail, WorkerWaitCancelled
<1>8. ASSUME NEW w \in workers,
             \/ \E answered \in Parks : WorkerPark(w, answered)
             \/ \E list \in WaitLists, policy \in JoinPolicies : WorkerJoin(w, list, policy)
      PROVE  Moves(w.task)
  BY <1>1, <1>8, QuietPark
<1>9. CASE \E w \in workers, intents, settlements \in SUBSET Effects, op \in OpSteps :
             WorkerRecord(w, intents, settlements, op)
  BY <1>9 DEF Records
<1>10. ASSUME \/ \E t \in Tasks : RequestCancel(t) \/ CancelTask(t)
              \/ \E w \in workers : WorkerCancel(w) \/ WorkerComplete(w) \/ WorkerExit(w)
              \/ CancelConflict \/ ReconcileBegin \/ FinalizeBegin \/ Crash
              \/ RecoverDone \/ \E p \in Pids : Restart(p)
       PROVE  Nothing
  BY <1>10 DEF RequestCancel, CancelTask, WorkerCancel, WorkerComplete, WorkerExit,
               CancelConflict, ReconcileBegin, FinalizeBegin, Crash, RecoverDone,
               Restart, Nothing
<1>11. CASE \/ CompleteStep \/ CancelRoot
            \/ \E t \in Tasks :
                 CancelChild(t) \/ JoinStep(t) \/ FinalizeStep(t) \/ RecoverStep(t)
  BY <1>11, LineKinds
<1> QED BY <1>1, <1>2, <1>3, <1>4, <1>5, <1>6, <1>7, <1>8, <1>9, <1>10, <1>11 DEF Next

-----------------------------------------------------------------------------
(* The fence and the barrier.                                              *)

\* A worker's record reaches only its own task, behind the fence.
LEMMA RecordRow ==
  ASSUME Tables, NEW w \in workers, w.task \in Tasks,
         NEW intents \in SUBSET Effects, NEW settlements \in SUBSET Effects,
         NEW op \in OpSteps, WorkerRecord(w, intents, settlements, op)
  PROVE  /\ task' = [task EXCEPT ![w.task] = task'[w.task]]
         /\ Allowed(task[w.task], task'[w.task])
         /\ task'[w.task].above = task[w.task].above
         /\ task'[w.task].cancel = task[w.task].cancel
         /\ task'[w.task].phase = task[w.task].phase
         /\ task[w.task].token = BoundToken(task[w.task], w.token)
         /\ w.stage # "queued"
         /\ intents # {} => AdmitsEffects(task[w.task])
         /\ eff' = [eff EXCEPT ![w.task] = eff'[w.task]]
         /\ intents = {} => Unsettled(w.task)' \subseteq Unsettled(w.task)
         /\ UNCHANGED answers
<1>1. task[w.task] \in Checkpoint
  BY DEF Tables
<1> DEFINE n == [task[w.task] EXCEPT !.pend = (@ \union intents) \ settlements, !.op = op]
<1>2. n.above = task[w.task].above /\ n.cancel = task[w.task].cancel
      /\ n.phase = task[w.task].phase
  BY <1>1 DEF Checkpoint
<1>3. Commit(w.task, n, BoundToken(task[w.task], w.token))
  BY DEF WorkerRecord
<1>4. /\ w.stage # "queued"
      /\ intents # {} => AdmitsEffects(task[w.task])
      /\ UNCHANGED answers
  BY DEF WorkerRecord
<1>5. eff' = [eff EXCEPT ![w.task] = [e \in Effects |->
          IF e \in intents THEN "pending"
          ELSE IF e \in settlements THEN "settled" ELSE @[e]]]
  BY DEF WorkerRecord
<1>6. eff' = [eff EXCEPT ![w.task] = eff'[w.task]]
  BY <1>5 DEF Tables
<1>7. intents = {} => Unsettled(w.task)' \subseteq Unsettled(w.task)
  BY <1>5 DEF Unsettled, Tables
<1> HIDE DEF n
<1>8. task' = [task EXCEPT ![w.task] = n] /\ task'[w.task] = n
  BY <1>3 DEF Commit, Tables
<1>9. /\ Allowed(task[w.task], n)
      /\ task[w.task].token = BoundToken(task[w.task], w.token)
  BY <1>3 DEF Commit, ValidExistingTask, ValidExecutionAttempt, Allowed
<1> QED BY <1>2, <1>4, <1>6, <1>7, <1>8, <1>9

\* advance_task keeps position, owners and effects and meets no barrier.
LEMMA AdvanceRow ==
  ASSUME Tables, NEW t \in Tasks, Advances(t)
  PROVE  /\ task' = [task EXCEPT ![t] = task'[t]]
         /\ Allowed(task[t], task'[t])
         /\ ~task[t].cancel
         /\ task'[t].op = task[t].op
         /\ task'[t].above = task[t].above
         /\ task'[t].cancel = task[t].cancel
         /\ task'[t].phase \in {"running", "completion_pending"} \/
              /\ task'[t].phase = "completed"
              /\ task[t].phase = "completion_pending"
              /\ LiveBelow(t) = {}
         /\ answers' = [answers EXCEPT ![t] =
              IF task'[t].phase = "completed" THEN @ + 1 ELSE @]
         /\ UNCHANGED eff
<1>1. task[t] \in Checkpoint
  BY DEF Tables
<1>2. PICK x : AdvanceCompletion(t, x)
  BY DEF Advances
<1>3. task'[t] = CompletionNext(t)
  BY <1>2 DEF AdvanceCompletion, Tables
<1>4. /\ CompletionNext(t).op = task[t].op
      /\ CompletionNext(t).above = task[t].above
      /\ CompletionNext(t).cancel = task[t].cancel
      /\ CompletionNext(t).phase \in {"running", "completion_pending"} \/
           /\ CompletionNext(t).phase = "completed"
           /\ task[t].phase = "completion_pending"
           /\ LiveBelow(t) = {}
  BY <1>1 DEF CompletionNext, Checkpoint
<1> QED BY <1>2, <1>3, <1>4
        DEF AdvanceCompletion, CanAdvance, ValidExistingTask, Allowed

\* An admitted task stays admitted.
LEMMA StaysAdmitted ==
  ASSUME NEW k \in Checkpoint, NEW n, Allowed(k, n)
  PROVE  n.phase # "none"
<1>1. k.phase \in Phases
  BY DEF Allowed, Checkpoint
<1> QED BY <1>1 DEF Allowed, ValidTaskTransition, PhaseTransitions, Phases

\* A commit to a stored task keeps the store in order.
LEMMA StoreRow ==
  ASSUME Tables, Store, NEW t \in Tasks,
         task' = [task EXCEPT ![t] = task'[t]],
         Allowed(task[t], task'[t]),
         task'[t].above = task[t].above
  PROVE  Store'
<1>1. task'[t].phase # "none" /\ WellFormed(task'[t])
  BY StaysAdmitted DEF Tables, Allowed
<1>2. \A u \in Tasks : u # t => task'[u] = task[u]
  BY DEF Tables
<1>3. \A u \in Tasks : task'[u].above = task[u].above
  BY <1>2
<1>4. \A u \in Tasks : task[u].phase # "none" => task'[u].phase # "none"
  BY <1>1, <1>2
<1>5. \A u \in Tasks : task[u].above \subseteq Tasks
  BY DEF Tables, Checkpoint
<1>6. ASSUME NEW u \in Tasks
      PROVE  /\ WellFormed(task'[u])
             /\ task'[u].phase = "none" => task'[u].op = "none" /\ ~task'[u].cancel
             /\ task'[u].phase = "none" => task'[u].above = {}
  BY <1>1, <1>2 DEF Store
<1>7. ASSUME NEW u \in Tasks, NEW o \in task'[u].above
      PROVE  task'[o].phase # "none"
  BY <1>3, <1>4, <1>5 DEF Store
<1> QED BY <1>6, <1>7 DEF Store

\* So does an admission: the owner and its owners are admitted already.
LEMMA StoreAdmit ==
  ASSUME Tables, Store, NEW t \in Tasks, NEW p \in OwnerChoice[t], NEW b \in Abandons,
         Admit(t, p, b)
  PROVE  Store'
<1> DEFINE up == IF p = NoTask THEN {} ELSE task[p].above \union {p}
           n == [Absent EXCEPT !.phase = "accepted", !.status = "pending",
                               !.parent = p, !.abandon = b, !.above = up]
<1>1. task' = [task EXCEPT ![t] = n]
  BY DEF Admit
<1>2. p = NoTask \/ (p \in Tasks /\ task[p].phase # "none")
  BY OwnerChoiceAssumption DEF Admit, Admitted
<1>3. n.above = up /\ n.phase = "accepted" /\ WellFormed(n)
  BY DEF Absent, WellFormed, Terminal
<1>4. \A o \in up : o \in Tasks /\ task[o].phase # "none"
  BY <1>2 DEF Store, Tables, Checkpoint
<1> HIDE DEF up, n
<1>5. task'[t] = n /\ \A u \in Tasks : u # t => task'[u] = task[u]
  BY <1>1 DEF Tables
<1>6. \A u \in Tasks : task[u].phase # "none" => task'[u].phase # "none"
  BY <1>3, <1>5
<1>7. \A u \in Tasks : task[u].above \subseteq Tasks
  BY DEF Tables, Checkpoint
<1>8. ASSUME NEW u \in Tasks
      PROVE  /\ WellFormed(task'[u])
             /\ task'[u].phase = "none" => task'[u].op = "none" /\ ~task'[u].cancel
             /\ task'[u].phase = "none" => task'[u].above = {}
  BY <1>3, <1>5 DEF Store
<1>9. ASSUME NEW u \in Tasks, NEW o \in task'[u].above
      PROVE  task'[o].phase # "none"
  <2>1. CASE u = t
    BY <1>3, <1>4, <1>5, <1>6, <2>1
  <2>2. CASE u # t
    BY <1>5, <1>6, <1>7, <2>2 DEF Store
  <2> QED BY <2>1, <2>2
<1> QED BY <1>8, <1>9 DEF Store

\* Every step keeps the store in order.
LEMMA StoreNext ==
  ASSUME IInv, Store, [Next]_vars
  PROVE  Store'
<1>1. Tables /\ \A w \in workers : w.task \in Tasks
  BY DEF IInv, WorkersInv, Worker
<1>2. CASE Nothing
  BY <1>2 DEF Nothing, Store
<1>3. CASE Admits
  BY <1>1, <1>3, StoreAdmit DEF Admits
<1>4. ASSUME NEW t \in Tasks, Moves(t)
      PROVE  Store'
  BY <1>1, <1>4, StoreRow DEF Moves, Quiet
<1>5. ASSUME NEW t \in Tasks, Advances(t)
      PROVE  Store'
  BY <1>1, <1>5, StoreRow, AdvanceRow
<1>6. ASSUME NEW w \in workers, NEW intents \in SUBSET Effects,
             NEW settlements \in SUBSET Effects, NEW op \in OpSteps,
             WorkerRecord(w, intents, settlements, op)
      PROVE  Store'
  <2>1. /\ task' = [task EXCEPT ![w.task] = task'[w.task]]
        /\ Allowed(task[w.task], task'[w.task])
        /\ task'[w.task].above = task[w.task].above
    BY <1>1, <1>6, RecordRow
  <2> QED BY <1>1, <2>1, StoreRow
<1> QED BY <1>2, <1>3, <1>4, <1>5, <1>6, StepKinds DEF Records

(* The store holds well-formed checkpoints, and owners were admitted before *)
(* what they own: TaskCheckpoint.__post_init__ and the frozen owner edges.  *)
THEOREM StoreInOrder == Spec => [](IInv /\ Store)
<1>1. Init => Store
  BY DEF Init, Store, Absent, WellFormed, Terminal
<1>2. IInv /\ Store /\ [Next]_vars => Store'
  BY StoreNext
<1> QED BY <1>1, <1>2, Inductive, PTL DEF Spec

(* A stopped task goes nowhere but to cancelled or failed, its barrier is   *)
(* never withdrawn, and only kernel cleanup records behind it.              *)
THEOREM BarrierHolds == Spec => CancelBarrier
<1> DEFINE Barred(t) ==
      /\ task'[t].cancel
      /\ task'[t].phase \in {task[t].phase, "cancelled", "failed"}
      /\ task'[t].op \in {task[t].op, "busy", "closed"}
      /\ ~(Unsettled(t)' \subseteq Unsettled(t)) => task[t].op = "busy"
<1>1. ASSUME IInv, Store, [Next]_vars, NEW u \in Tasks,
             task[u].cancel, Live(task[u])
      PROVE  Barred(u)
  <2>1. Tables /\ \A w \in workers : w.task \in Tasks
    BY <1>1 DEF IInv, WorkersInv, Worker
  <2>2. task[u] \in Checkpoint /\ task[u].phase \notin Terminal
    BY <1>1, <2>1 DEF Store, WellFormed, Live, Tables, Terminal
  <2>3. CASE task'[u] = task[u] /\ eff'[u] = eff[u]
    BY <1>1, <2>3 DEF Unsettled
  <2>4. CASE Nothing
    BY <2>3, <2>4 DEF Nothing
  <2>5. ASSUME NEW t \in Tasks, NEW p \in OwnerChoice[t], NEW b \in Abandons,
               Admit(t, p, b)
        PROVE  Barred(u)
    <3>1. t # u
      BY <1>1, <2>5 DEF Store, Admit, Admitted
    <3> QED BY <2>1, <2>3, <2>5, <3>1 DEF Admit, Tables
  <2>6. ASSUME NEW t \in Tasks, Moves(t)
        PROVE  Barred(u)
    <3>1. CASE t # u
      BY <2>1, <2>3, <2>6, <3>1 DEF Moves, Tables
    <3>2. CASE t = u
      <4>1. Quiet(task[u], task'[u]) /\ eff' = eff
        BY <2>6, <3>2 DEF Moves
      <4>2. task'[u].phase \in {task[u].phase, "cancelled", "failed"}
        BY <1>1, <4>1 DEF Quiet, Allowed, ValidCancellationCleanup
      <4> QED BY <1>1, <4>1, <4>2 DEF Quiet, Unsettled
    <3> QED BY <3>1, <3>2
  <2>7. ASSUME NEW t \in Tasks, Advances(t)
        PROVE  Barred(u)
    <3>1. t # u
      BY <1>1, <2>1, <2>7, AdvanceRow
    <3>2. task'[u] = task[u] /\ eff'[u] = eff[u]
      BY <2>1, <2>7, <3>1, AdvanceRow DEF Tables
    <3> QED BY <2>3, <3>2
  <2>8. ASSUME NEW w \in workers, NEW intents \in SUBSET Effects,
               NEW settlements \in SUBSET Effects, NEW op \in OpSteps,
               WorkerRecord(w, intents, settlements, op)
        PROVE  Barred(u)
    <3>1. CASE w.task # u
      <4>1. task'[u] = task[u] /\ eff'[u] = eff[u]
        BY <2>1, <2>8, <3>1, RecordRow DEF Tables
      <4> QED BY <2>3, <4>1
    <3>2. CASE w.task = u
      <4>1. /\ Allowed(task[u], task'[u])
            /\ task'[u].cancel = task[u].cancel
            /\ task'[u].phase = task[u].phase
            /\ intents # {} => AdmitsEffects(task[u])
            /\ intents = {} => Unsettled(u)' \subseteq Unsettled(u)
        BY <2>1, <2>8, <3>2, RecordRow
      <4>2. task'[u].op \in {"busy", "closed"}
        BY <1>1, <2>2, <4>1 DEF Allowed, ValidCancellationCleanup, Terminal
      <4>3. intents # {} => task[u].op = "busy"
        BY <1>1, <4>1 DEF AdmitsEffects
      <4> QED BY <1>1, <4>1, <4>2, <4>3
    <3> QED BY <3>1, <3>2
  <2> QED BY <1>1, <2>4, <2>5, <2>6, <2>7, <2>8, StepKinds DEF Admits, Records
<1>2. ASSUME IInv, Store, [Next]_vars
      PROVE  [\A t \in Tasks : task[t].cancel /\ Live(task[t]) => Barred(t)]_vars
  BY <1>1, <1>2
<1> QED BY <1>2, StoreInOrder, PTL DEF Spec, CancelBarrier

(* Effects and operation position of a task change only under the worker of *)
(* its current attempt, or in the tail after it was failed or cancelled.    *)
THEOREM FenceHolds == Spec => EffectsFenced
<1> DEFINE Fenced(t) ==
      eff'[t] # eff[t] \/ task'[t].op # task[t].op =>
        \/ Settled(task[t])
        \/ \E w \in workers : /\ w.task = t
                              /\ w.token = task[t].token
                              /\ w.stage # "queued"
<1>1. ASSUME IInv, Store, [Next]_vars, NEW u \in Tasks
      PROVE  Fenced(u)
  <2>1. Tables /\ \A w \in workers : w.task \in Tasks
    BY <1>1 DEF IInv, WorkersInv, Worker
  <2>2. CASE Nothing
    BY <2>2 DEF Nothing
  <2>3. ASSUME NEW t \in Tasks, NEW p \in OwnerChoice[t], NEW b \in Abandons,
               Admit(t, p, b)
        PROVE  Fenced(u)
    <3>1. eff' = eff /\ task[t].op = "none"
      BY <1>1, <2>3 DEF Store, Admit, Admitted
    <3>2. task'[t].op = "none" /\ (u # t => task'[u] = task[u])
      BY <2>1, <2>3 DEF Admit, Absent, Tables
    <3> QED BY <3>1, <3>2
  <2>4. ASSUME NEW t \in Tasks, Moves(t)
        PROVE  Fenced(u)
    BY <2>1, <2>4 DEF Moves, Quiet, Tables
  <2>5. ASSUME NEW t \in Tasks, Advances(t)
        PROVE  Fenced(u)
    <3>1. eff' = eff /\ task'[t].op = task[t].op /\ (u # t => task'[u] = task[u])
      BY <2>1, <2>5, AdvanceRow DEF Tables
    <3> QED BY <3>1
  <2>6. ASSUME NEW w \in workers, NEW intents \in SUBSET Effects,
               NEW settlements \in SUBSET Effects, NEW op \in OpSteps,
               WorkerRecord(w, intents, settlements, op)
        PROVE  Fenced(u)
    <3>1. /\ w.task # u => task'[u] = task[u] /\ eff'[u] = eff[u]
          /\ task[w.task].token = BoundToken(task[w.task], w.token)
          /\ w.stage # "queued"
      BY <2>1, <2>6, RecordRow DEF Tables
    <3>2. Settled(task[w.task]) \/ task[w.task].token = w.token
      BY <3>1 DEF BoundToken
    <3> QED BY <3>1, <3>2
  <2> QED BY <1>1, <2>2, <2>3, <2>4, <2>5, <2>6, StepKinds DEF Admits, Records
<1>2. ASSUME IInv, Store, [Next]_vars
      PROVE  [\A t \in Tasks : Fenced(t)]_vars
  BY <1>1, <1>2
<1> QED BY <1>2, StoreInOrder, PTL DEF Spec, EffectsFenced

-----------------------------------------------------------------------------
(* The kernel implements TaskLifecycle.                                    *)

Seen == [t \in Tasks |-> View(task[t])]

OwnersSeen == [t \in Tasks |-> task[t].above]

AbstractStep == [Lifecycle!LifecycleNext]_(Lifecycle!lifecycleVars)

\* A commit to one stored task changes what is seen of that task only.
LEMMA SeenRow ==
  ASSUME Tables, NEW t \in Tasks,
         task' = [task EXCEPT ![t] = task'[t]],
         task'[t].above = task[t].above
  PROVE  Seen' = [Seen EXCEPT ![t] = View(task'[t])] /\ OwnersSeen' = OwnersSeen
<1>1. \A u \in Tasks : u # t => task'[u] = task[u]
  BY DEF Tables
<1>2. \A u \in Tasks : task'[u].above = task[u].above
  BY <1>1
<1>3. Seen' = [Seen EXCEPT ![t] = View(task'[t])]
  BY <1>1 DEF Seen
<1>4. OwnersSeen' = OwnersSeen
  BY <1>2 DEF OwnersSeen
<1> QED BY <1>3, <1>4

\* If it looks the same, the step is a stutter.
LEMMA SeenSame ==
  ASSUME Tables, NEW t \in Tasks,
         task' = [task EXCEPT ![t] = task'[t]],
         task'[t].above = task[t].above,
         View(task'[t]) = View(task[t]), UNCHANGED answers
  PROVE  AbstractStep
<1>1. Seen' = Seen /\ OwnersSeen' = OwnersSeen
  BY SeenRow DEF Seen
<1> QED BY <1>1 DEF AbstractStep, Lifecycle!lifecycleVars, Seen, OwnersSeen

\* A quiet commit stops a task, gives it up or is not seen.
LEMMA MovesSeen ==
  ASSUME Tables, NEW t \in Tasks, Moves(t)
  PROVE  AbstractStep
<1>1. /\ task[t] \in Checkpoint
      /\ task' = [task EXCEPT ![t] = task'[t]]
      /\ Quiet(task[t], task'[t])
      /\ UNCHANGED answers
  BY DEF Tables, Moves
<1>2. task'[t].above = task[t].above
  BY <1>1 DEF Quiet
<1>3. task[t].phase \in Phases
  BY <1>1 DEF Quiet, Allowed, Checkpoint
<1>4. Seen' = [Seen EXCEPT ![t] = View(task'[t])] /\ OwnersSeen' = OwnersSeen
  BY <1>1, <1>2, SeenRow
<1>5. \/ View(task'[t]) = View(task[t])
      \/ View(task[t]) = "open" /\ View(task'[t]) = "stopping"
      \/ /\ View(task[t]) \in {"open", "stopping"}
         /\ View(task'[t]) \in {"unanswered", "cancelled"}
  BY <1>1, <1>3 DEF Quiet, Allowed, View, ValidTaskTransition, PhaseTransitions, Phases
<1>6. CASE View(task'[t]) = View(task[t])
  BY <1>1, <1>2, <1>6, SeenSame
<1>7. CASE View(task[t]) = "open" /\ View(task'[t]) = "stopping"
  <2>1. Lifecycle!Stop(t)
    BY <1>1, <1>4, <1>7 DEF Lifecycle!Stop, Seen, OwnersSeen
  <2> QED BY <2>1 DEF AbstractStep, Lifecycle!LifecycleNext
<1>8. CASE /\ View(task[t]) \in {"open", "stopping"}
           /\ View(task'[t]) \in {"unanswered", "cancelled"}
  <2>1. Lifecycle!GiveUp(t)
    BY <1>1, <1>4, <1>8 DEF Lifecycle!GiveUp, Lifecycle!Open, Seen, OwnersSeen
  <2> QED BY <2>1 DEF AbstractStep, Lifecycle!LifecycleNext
<1> QED BY <1>5, <1>6, <1>7, <1>8

\* What is not live is not seen open.
LEMMA ClosedSeen ==
  ASSUME IInv, Store, NEW d \in Tasks, ~Live(task[d])
  PROVE  View(task[d]) \notin {"open", "stopping"}
<1>1. task[d].status \in Statuses \union {"none"} /\ WellFormed(task[d])
  BY DEF IInv, Tables, Checkpoint, Store
<1>2. task[d].status = "none" => task[d].phase = "none"
  BY DEF IInv, Rows, RowInv
<1> QED BY <1>1, <1>2 DEF Live, Statuses, Terminal, WellFormed, View

\* A completion that advances answers the task or is not seen.
LEMMA AdvancesSeen ==
  ASSUME IInv, Store, NEW t \in Tasks, Advances(t)
  PROVE  AbstractStep
<1>1. Tables
  BY DEF IInv
<1>2. /\ task' = [task EXCEPT ![t] = task'[t]]
      /\ Allowed(task[t], task'[t])
      /\ ~task[t].cancel /\ ~task'[t].cancel
      /\ task'[t].above = task[t].above
  BY <1>1, AdvanceRow
<1>3. Seen' = [Seen EXCEPT ![t] = View(task'[t])] /\ OwnersSeen' = OwnersSeen
  BY <1>1, <1>2, SeenRow
<1>4. CASE task'[t].phase \in {"running", "completion_pending"}
  <2>1. answers \in [Tasks -> Nat]
    BY <1>1 DEF Tables
  <2>2. UNCHANGED answers
    BY <1>1, <1>4, <2>1, AdvanceRow
  <2>3. task[t].phase \in Phases
    BY <1>1, <1>2 DEF Allowed, Tables, Checkpoint
  <2>4. View(task'[t]) = View(task[t])
    BY <1>2, <1>4, <2>3
       DEF Allowed, View, ValidTaskTransition, PhaseTransitions, Phases
  <2> QED BY <1>1, <1>2, <2>2, <2>4, SeenSame
<1>5. CASE /\ task'[t].phase = "completed"
           /\ task[t].phase = "completion_pending"
           /\ LiveBelow(t) = {}
  <2>1. View(task[t]) = "open" /\ View(task'[t]) = "answered"
    BY <1>2, <1>5 DEF View
  <2>2. answers' = [answers EXCEPT ![t] = @ + 1]
    BY <1>1, <1>5, AdvanceRow
  <2>3. ASSUME NEW d \in Tasks, t \in task[d].above
        PROVE  View(task[d]) \notin {"open", "stopping"}
    BY <1>5, <2>3, ClosedSeen DEF LiveBelow
  <2>4. Lifecycle!Answer(t)
    BY <1>3, <2>1, <2>2, <2>3 DEF Lifecycle!Answer, Lifecycle!Open, Seen, OwnersSeen
  <2> QED BY <2>4 DEF AbstractStep, Lifecycle!LifecycleNext
<1> QED BY <1>1, <1>4, <1>5, AdvanceRow

\* An admission is a submission whose owners are known.
LEMMA AdmitSeen ==
  ASSUME Tables, Store, NEW t \in Tasks, NEW p \in OwnerChoice[t], NEW b \in Abandons,
         Admit(t, p, b)
  PROVE  AbstractStep
<1> DEFINE up == IF p = NoTask THEN {} ELSE task[p].above \union {p}
           n == [Absent EXCEPT !.phase = "accepted", !.status = "pending",
                               !.parent = p, !.abandon = b, !.above = up]
<1>1. task' = [task EXCEPT ![t] = n] /\ UNCHANGED answers
  BY DEF Admit
<1>2. /\ p = NoTask \/ (p \in Tasks /\ task[p].phase # "none")
      /\ task[t].phase = "none"
  BY OwnerChoiceAssumption DEF Admit, Admitted
<1>3. n.above = up /\ View(n) = "open"
  BY DEF Absent, View
<1>4. \A o \in up : o \in Tasks /\ task[o].phase # "none"
  BY <1>2 DEF Store, Tables, Checkpoint
<1> HIDE DEF up, n
<1>5. task'[t] = n /\ \A u \in Tasks : u # t => task'[u] = task[u]
  BY <1>1 DEF Tables
<1>6. Seen' = [Seen EXCEPT ![t] = "open"]
  BY <1>3, <1>5 DEF Seen
<1>7. OwnersSeen' = [OwnersSeen EXCEPT ![t] = up]
  BY <1>3, <1>5 DEF OwnersSeen
<1>8. \A o \in up : o \in Tasks /\ Seen[o] # "absent"
  <2>1. ASSUME NEW o \in Tasks, task[o].phase # "none"
        PROVE  View(task[o]) # "absent"
    BY <2>1 DEF View
  <2> QED BY <1>4, <2>1 DEF Seen
<1>9. Seen[t] = "absent" /\ up \in SUBSET Tasks /\ t \notin up
  BY <1>2, <1>4 DEF Seen, View
<1>10. Lifecycle!Submit(t)
  BY <1>1, <1>6, <1>7, <1>8, <1>9 DEF Lifecycle!Submit, Seen, OwnersSeen
<1> QED BY <1>10 DEF AbstractStep, Lifecycle!LifecycleNext

\* Every step of the kernel is a step or a stutter of TaskLifecycle.
LEMMA StepSeen ==
  ASSUME IInv, Store, [Next]_vars
  PROVE  AbstractStep
<1>1. Tables /\ \A w \in workers : w.task \in Tasks
  BY DEF IInv, WorkersInv, Worker
<1>2. CASE Nothing
  BY <1>2 DEF Nothing, AbstractStep, Lifecycle!lifecycleVars
<1>3. CASE Admits
  BY <1>1, <1>3, AdmitSeen DEF Admits
<1>4. ASSUME NEW t \in Tasks, Moves(t) \/ Advances(t)
      PROVE  AbstractStep
  BY <1>1, <1>4, MovesSeen, AdvancesSeen
<1>5. ASSUME NEW w \in workers, NEW intents \in SUBSET Effects,
             NEW settlements \in SUBSET Effects, NEW op \in OpSteps,
             WorkerRecord(w, intents, settlements, op)
      PROVE  AbstractStep
  <2>1. /\ task' = [task EXCEPT ![w.task] = task'[w.task]]
        /\ task'[w.task].above = task[w.task].above
        /\ task'[w.task].cancel = task[w.task].cancel
        /\ task'[w.task].phase = task[w.task].phase
        /\ UNCHANGED answers
    BY <1>1, <1>5, RecordRow
  <2>2. View(task'[w.task]) = View(task[w.task])
    BY <2>1 DEF View
  <2> QED BY <1>1, <2>1, <2>2, SeenSame
<1> QED BY <1>2, <1>3, <1>4, <1>5, StepKinds DEF Records

(* The durable kernel implements TaskLifecycle: one outcome per submission, *)
(* at most one answer, none after a Stop and none while owned work is open, *)
(* for every ownership tree and through every crash.                        *)
THEOREM LifecycleImplemented == Spec => ImplementsLifecycle
<1>1. Init => Lifecycle!LifecycleInit
  BY DEF Init, Lifecycle!LifecycleInit, View, Absent
<1>2. IInv /\ Store /\ [Next]_vars =>
        [Lifecycle!LifecycleNext]_(Lifecycle!lifecycleVars)
  BY StepSeen DEF AbstractStep
<1> QED BY <1>1, <1>2, StoreInOrder, PTL
        DEF Spec, ImplementsLifecycle, Lifecycle!LifecycleSpec
=============================================================================
