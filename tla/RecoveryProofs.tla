--------------------------- MODULE RecoveryProofs ---------------------------
(***************************************************************************)
(* The operations that hold the mutation line for several commits:         *)
(* recovery after a crash, the join pass, and a Stop that walks the tree   *)
(* of owned tasks.                                                         *)
(*                                                                         *)
(* Each of them decides from a snapshot (the todo list of the line) and    *)
(* commits later.  Recovering and Stopping say what is left of the         *)
(* snapshot between two commits.  That recovery can release every attempt  *)
(* it finds, none being skipped with a conflict, rests on where a task may *)
(* be in its life (Placed): an operation position exists only after        *)
(* start_task, and a position that cleanup cannot resume leaves no receipt *)
(* open.  Placed in turn holds since a worker past its first checks never  *)
(* shares its attempt with a task still in dispatch (Bound).               *)
(*                                                                         *)
(* Walking says of both operations that walk the tree, request_cancel and  *)
(* cancel_task, that their order from the leaves up is kept.               *)
(*                                                                         *)
(* The last section is about wait_task: the walk of its cycle check cannot *)
(* miss a circle of joins (NoRing), since a walk as long as there are      *)
(* tasks has come back to one it passed.                                   *)
(***************************************************************************)
EXTENDS LifecycleProofs, FiniteSetTheorems

Placed(k) ==
  /\ k.status \in {"pending", "running", "waiting"} =>
       k.phase \in {"accepted", "dispatching", "running"}
  /\ k.status = "running" => k.phase # "accepted"
  /\ k.phase = "none" => k.attempt = 0
  /\ k.op # "none" => k.phase \notin {"accepted", "dispatching"}
  /\ k.op = "open" => k.pend = {}
  /\ k.status = "completing" => k.phase = "completion_pending"

Bound(w) ==
  /\ w.token <= task[w.task].attempt
  /\ w.stage # "queued" /\ w.token = task[w.task].attempt =>
       task[w.task].phase \notin {"accepted", "dispatching"}

Acyclic == \A t \in Tasks : t \notin task[t].above

\* What is left of recovery's snapshot is still running.
Recovering ==
  line.op = "recover" => \A t \in line.todo : task[t].status = "running"

\* A Stop on its way: the root is not yet barred and comes last, and every
\* live task below it is either still to come or barred already.
Stopping ==
  line.op = "request_cancel" =>
    /\ ~task[line.task].cancel
    /\ line.task \notin line.todo
    /\ \A d \in Tasks : line.task \in task[d].above /\ Live(task[d]) =>
                          d \in line.todo \/ task[d].cancel

\* A running task is this process's own, or recovery has yet to come to it
\* and will see that its process is dead.
OwnRuns ==
  proc.up => \A t \in Tasks : task[t].status = "running" =>
    \/ task[t].owner = proc.epoch
    \/ line.op = "recover" /\ t \in line.todo /\ task[t].pid # proc.pid

Placement == (\A t \in Tasks : Placed(task[t])) /\ (\A w \in workers : Bound(w))

Snapshots == Acyclic /\ Recovering /\ Stopping

-----------------------------------------------------------------------------
(* What a commit does to the row it replaces.                              *)

\* Every commit but an admission and a claim.
Turn(k, n) ==
  /\ n.phase # "none"
  /\ n.above = k.above
  /\ n.attempt = k.attempt
  /\ Placed(n)
  /\ n.phase \in {"accepted", "dispatching"} => k.phase \in {"accepted", "dispatching"}
  /\ n.status = "running" =>
       k.status = "running" /\ n.owner = k.owner /\ n.pid = k.pid

Turns(t) == task' = [task EXCEPT ![t] = task'[t]] /\ Turn(task[t], task'[t])

\* fail_task.
LEMMA TurnFail ==
  ASSUME Tables, NEW t \in Tasks, NEW x, Placed(task[t]), FailTask(t, x)
  PROVE  Turns(t)
<1>1. task[t] \in Checkpoint
  BY DEF Tables
<1> DEFINE n == FailedState(task[t])
<1>2. /\ n.phase = "failed" /\ n.status = "failed" /\ n.above = task[t].above
      /\ n.attempt = task[t].attempt /\ n.op = task[t].op /\ n.pend = task[t].pend
  BY <1>1 DEF FailedState, Released, Checkpoint
<1>3. task' = [task EXCEPT ![t] = n]
  BY DEF FailTask, Commit
<1> HIDE DEF n
<1>4. task'[t] = n
  BY <1>3 DEF Tables
<1> QED BY <1>2, <1>3, <1>4 DEF Turns, Turn, Placed

\* _cancel_terminal, which also leaves the barrier behind.
LEMMA TurnCancel ==
  ASSUME Tables, NEW t \in Tasks, Placed(task[t]), CancelTerminal(t)
  PROVE  Turns(t) /\ task'[t].cancel
<1>1. task[t] \in Checkpoint
  BY DEF Tables
<1> DEFINE n == CancelledState(task[t])
<1>2. /\ n.phase = "cancelled" /\ n.status = "cancelled" /\ n.above = task[t].above
      /\ n.attempt = task[t].attempt /\ n.op = task[t].op /\ n.pend = task[t].pend
      /\ n.cancel
  BY <1>1 DEF CancelledState, Released, Checkpoint
<1>3. task' = [task EXCEPT ![t] = n]
  BY DEF CancelTerminal
<1> HIDE DEF n
<1>4. task'[t] = n
  BY <1>3 DEF Tables
<1> QED BY <1>2, <1>3, <1>4 DEF Turns, Turn, Placed

\* A release to the queue: unclaim_task, an answered question, recovery.
LEMMA TurnRelease ==
  ASSUME Tables, NEW t \in Tasks, Placed(task[t]),
         task[t].status \in {"pending", "running", "waiting"},
         NEW n \in {UnclaimedState(task[t]), RecoverableState(task[t])},
         NEW x, Commit(t, n, x)
  PROVE  Turns(t) /\ task'[t].status = "pending"
<1>1. task[t] \in Checkpoint
  BY DEF Tables
<1>2. /\ n.status = "pending" /\ n.above = task[t].above
      /\ n.attempt = task[t].attempt /\ n.op = task[t].op /\ n.pend = task[t].pend
      /\ n.phase = task[t].phase \/ (n.phase = "accepted" /\ task[t].phase = "dispatching")
  BY <1>1 DEF UnclaimedState, RecoverableState, Released, Checkpoint
<1>3. task' = [task EXCEPT ![t] = n] /\ task'[t] = n /\ task[t].phase # "none"
  BY DEF Commit, ValidExistingTask, Tables
<1> QED BY <1>2, <1>3 DEF Turns, Turn, Placed

\* A joined task wakes.
LEMMA TurnWake ==
  ASSUME Tables, NEW t \in Tasks, Placed(task[t]), task[t].status = "waiting",
         NEW x, Commit(t, JoinedState(task[t]), x)
  PROVE  Turns(t)
<1>1. task[t] \in Checkpoint
  BY DEF Tables
<1> DEFINE n == JoinedState(task[t])
<1>2. /\ n.status = "pending" /\ n.above = task[t].above /\ n.phase = task[t].phase
      /\ n.attempt = task[t].attempt /\ n.op = task[t].op /\ n.pend = task[t].pend
  BY <1>1 DEF JoinedState, Checkpoint
<1>3. task' = [task EXCEPT ![t] = n] /\ task[t].phase # "none"
  BY DEF Commit, ValidExistingTask
<1> HIDE DEF n
<1>4. task'[t] = n
  BY <1>3 DEF Tables
<1> QED BY <1>2, <1>3, <1>4 DEF Turns, Turn, Placed

\* The commit of request_cancel or cancel_task leaves the barrier behind.
LEMMA TurnStop ==
  ASSUME Tables, Rows, NEW t \in Tasks, Placed(task[t]), RequestCommit(t) \/ CloseCommit(t)
  PROVE  Turns(t) /\ task'[t].cancel
<1> DEFINE k == task[t]
           Barred(n) ==
             /\ n.above = k.above /\ n.phase = k.phase /\ n.cancel
             /\ n.attempt = k.attempt /\ n.op = k.op /\ n.pend = k.pend
             /\ n.owner = k.owner /\ n.pid = k.pid
             /\ \/ n.status \in {"pending", "waiting"}
                \/ n.status = k.status /\ k.status \in {"running", "completing"}
<1>1. k \in Checkpoint /\ (k.phase = "none" <=> k.status = "none")
  BY DEF Tables, Rows, RowInv
<1>2. CASE CancelTerminal(t)
  BY <1>2, TurnCancel
<1>3. Barred(HeldState(k))
  BY <1>1 DEF HeldState, Checkpoint
<1>4. Barred([k EXCEPT !.cancel = TRUE, !.status = IF @ = "running" THEN @ ELSE "pending"])
  BY <1>1 DEF Checkpoint
<1>5. Barred(RequestedState(t))
  BY <1>3, <1>4 DEF RequestedState
<1>6. ASSUME NEW n, Barred(n), NEW x, Commit(t, n, x)
      PROVE  Turns(t) /\ task'[t].cancel
  <2>1. /\ task' = [task EXCEPT ![t] = n] /\ k.phase # "none"
        /\ ValidTaskStatusTransition(k.status, n.status)
    BY <1>6 DEF Commit, ValidExistingTask
  <2>2. task'[t] = n
    BY <2>1 DEF Tables
  <2>3. n.status \in {"pending", "waiting"} =>
          k.status \in {"pending", "running", "waiting"}
    <3>1. k.status \in Statuses
      BY <1>1, <2>1 DEF Checkpoint
    <3> QED BY <2>1, <3>1 DEF ValidTaskStatusTransition, StatusTransitions, Statuses
  <2>4. n.status = "running" => k.status = "running"
    BY <1>6
  <2>5. Placed(n)
    BY <1>6, <2>1, <2>3 DEF Placed
  <2> QED BY <1>6, <2>1, <2>2, <2>4, <2>5 DEF Turns, Turn
<1> QED BY <1>2, <1>3, <1>5, <1>6 DEF RequestCommit, CloseCommit

\* wait_task, for a decision or a join, from a task that runs or is queued.
LEMMA TurnPark ==
  ASSUME Tables, NEW w \in workers, w.task \in Tasks, Placed(task[w.task]),
         \/ \E answered \in Parks : WorkerPark(w, answered)
         \/ \E list \in WaitLists, policy \in JoinPolicies : WorkerJoin(w, list, policy)
  PROVE  Turns(w.task) /\ task[w.task].status # "waiting"
<1> DEFINE k == task[w.task]
           Parked(n) ==
             /\ n.status \in {"pending", "waiting"} /\ n.above = k.above
             /\ n.phase = k.phase /\ n.attempt = k.attempt
             /\ n.op = k.op /\ n.pend = k.pend
<1>1. k \in Checkpoint
  BY DEF Tables
<1>2. k.status \in {"running", "pending"}
  BY DEF WorkerPark, WorkerJoin, CanWait
<1>3. ASSUME NEW n, Parked(n), NEW x, Commit(w.task, n, x)
      PROVE  Turns(w.task)
  <2>1. /\ task' = [task EXCEPT ![w.task] = n] /\ k.phase # "none"
    BY <1>3 DEF Commit, ValidExistingTask
  <2>2. task'[w.task] = n
    BY <2>1 DEF Tables
  <2>3. Placed(n)
    BY <1>2, <1>3, <2>1 DEF Placed
  <2> QED BY <1>3, <2>1, <2>2, <2>3 DEF Turns, Turn
<1>4. ASSUME NEW answered, WorkerPark(w, answered)
      PROVE  Turns(w.task)
  <2> DEFINE n == Released([k EXCEPT !.join = FALSE, !.policy = "allSettled",
                     !.status = IF answered THEN "pending" ELSE "waiting"])
  <2>1. Parked(n)
    BY <1>1 DEF Released, Checkpoint
  <2>2. Commit(w.task, n, k.token)
    BY <1>4 DEF WorkerPark
  <2> HIDE DEF n, Parked
  <2> QED BY <1>3, <2>1, <2>2
<1>5. ASSUME NEW list, NEW policy, WorkerJoin(w, list, policy)
      PROVE  Turns(w.task)
  <2> DEFINE n == Released([k EXCEPT !.on = list, !.policy = policy,
                                     !.join = TRUE, !.status = "waiting"])
  <2>1. Parked(n)
    BY <1>1 DEF Released, Checkpoint
  <2>2. Commit(w.task, n, k.token)
    BY <1>5 DEF WorkerJoin
  <2> HIDE DEF n, Parked
  <2> QED BY <1>3, <2>1, <2>2
<1> QED BY <1>2, <1>4, <1>5

\* start_task leaves dispatch behind.
LEMMA TurnStart ==
  ASSUME Tables, NEW w \in workers, w.task \in Tasks, Placed(task[w.task]),
         WorkerStart(w)
  PROVE  /\ UNCHANGED task \/ Turns(w.task)
         /\ task'[w.task].phase \notin {"accepted", "dispatching"}
         /\ task[w.task].status = "running"
<1> DEFINE k == task[w.task]
           n == [k EXCEPT !.phase = "running", !.status = "running"]
<1>1. k \in Checkpoint
  BY DEF Tables
<1>2. k.status = "running"
  BY DEF WorkerStart, Holds
<1>3. CASE k.phase = "dispatching" /\ Commit(w.task, n, BoundToken(k, w.token))
  <2>1. /\ n.phase = "running" /\ n.status = "running" /\ n.above = k.above
        /\ n.attempt = k.attempt /\ n.op = k.op /\ n.pend = k.pend
        /\ n.owner = k.owner /\ n.pid = k.pid
    BY <1>1 DEF Checkpoint
  <2>2. task' = [task EXCEPT ![w.task] = n]
    BY <1>3 DEF Commit
  <2> HIDE DEF n
  <2>3. task'[w.task] = n
    BY <2>2 DEF Tables
  <2>4. Turns(w.task)
    BY <1>2, <1>3, <2>1, <2>2, <2>3 DEF Turns, Turn, Placed
  <2> QED BY <1>2, <2>1, <2>3, <2>4
<1>4. CASE k.phase # "dispatching" /\ UNCHANGED task
  BY <1>2, <1>4 DEF Placed
<1> QED BY <1>3, <1>4 DEF WorkerStart

\* One commit of complete_task or finish_task; it runs only what ran.
LEMMA TurnAdvance ==
  ASSUME Tables, Rows, Rows', NEW t \in Tasks, Placed(task[t]), Advances(t)
  PROVE  Turns(t)
<1> DEFINE k == task[t]
           n == CompletionNext(t)
<1>1. k \in Checkpoint /\ Owned(k) /\ Owned(task'[t]) /\ (k.phase = "none" <=> k.status = "none")
  BY DEF Tables, Rows, RowInv
<1>2. PICK x : AdvanceCompletion(t, x)
  BY DEF Advances
<1>3. /\ task' = [task EXCEPT ![t] = n] /\ k.phase # "none"
      /\ ValidTaskStatusTransition(k.status, n.status)
  BY <1>2 DEF AdvanceCompletion, CanAdvance, ValidExistingTask
<1>4. task'[t] = n
  BY <1>3 DEF Tables
<1>5. /\ n.above = k.above /\ n.attempt = k.attempt /\ n.op = k.op /\ n.pend = k.pend
      /\ n.owner = k.owner /\ n.pid = k.pid /\ n.token = k.token
      /\ \/ n.phase = "running" /\ n.status = "running"
         \/ n.phase = "completion_pending" /\ n.status = "completing"
         \/ n.phase = "completed" /\ n.status = "completed"
  BY <1>1 DEF CompletionNext, Checkpoint
<1>6. n.status = "running" => k.status = "running"
  <2> HIDE DEF n
  <2>1. k.status \in Statuses
    BY <1>1, <1>3 DEF Checkpoint
  <2>2. n.status = "running" => k.token # 0
    BY <1>1, <1>4, <1>5 DEF Owned
  <2>3. n.status = "running" => k.status \notin {"completing", "completed"}
    BY <1>3, <2>1 DEF ValidTaskStatusTransition, StatusTransitions
  <2> QED BY <1>1, <2>2, <2>3 DEF Owned
<1> HIDE DEF n
<1>7. Placed(n)
  BY <1>3, <1>5 DEF Placed
<1> QED BY <1>3, <1>4, <1>5, <1>6, <1>7 DEF Turns, Turn

\* A worker records only past dispatch, and closes what it leaves.
LEMMA TurnRecord ==
  ASSUME Tables, Rows, NEW w \in workers, w.task \in Tasks, w.token # 0,
         Placed(task[w.task]), Bound(w),
         NEW intents \in SUBSET Effects, NEW settlements \in SUBSET Effects,
         NEW op \in OpSteps, WorkerRecord(w, intents, settlements, op)
  PROVE  Turns(w.task) /\ task'[w.task].status = task[w.task].status
<1> DEFINE k == task[w.task]
           n == [k EXCEPT !.pend = (@ \union intents) \ settlements, !.op = op]
<1>1. k \in Checkpoint /\ Owned(k) /\ (k.phase = "none" <=> k.status = "none")
  BY DEF Tables, Rows, RowInv
<1>2. /\ n.phase = k.phase /\ n.status = k.status /\ n.above = k.above /\ n.op = op
      /\ n.attempt = k.attempt /\ n.owner = k.owner /\ n.pid = k.pid
  BY <1>1 DEF Checkpoint
<1>3. Commit(w.task, n, BoundToken(k, w.token)) /\ w.stage # "queued" /\ (op = "open" => n.pend = {})
  BY DEF WorkerRecord
<1> HIDE DEF n
<1>4. /\ task' = [task EXCEPT ![w.task] = n] /\ k.phase # "none"
      /\ k.token = BoundToken(k, w.token) /\ WellFormed(n)
  BY <1>3 DEF Commit, ValidExistingTask, ValidExecutionAttempt
<1>5. task'[w.task] = n
  BY <1>4 DEF Tables
<1>6. k.phase \notin {"accepted", "dispatching"}
  <2>1. CASE Settled(k)
    BY <1>2, <1>4, <2>1 DEF Settled, WellFormed, Terminal
  <2>2. CASE ~Settled(k)
    <3>1. k.token = w.token
      BY <1>4, <2>2 DEF BoundToken
    <3> QED BY <1>1, <1>3, <3>1 DEF Owned, Bound
  <2> QED BY <2>1, <2>2
<1>7. Placed(n)
  BY <1>2, <1>3, <1>4, <1>6 DEF Placed
<1> QED BY <1>2, <1>4, <1>5, <1>7 DEF Turns, Turn

-----------------------------------------------------------------------------
(* The steps, sorted by what they do to the rows.                          *)

Claims == \E t \in Tasks : Claim(t)

\* Steps that commit nothing.
LEMMA NoCommit ==
  ASSUME \/ \E t \in Tasks : RequestCancel(t) \/ CancelTask(t)
         \/ \E w \in workers : WorkerCancel(w) \/ WorkerComplete(w) \/ WorkerExit(w)
         \/ CancelConflict \/ ReconcileBegin \/ FinalizeBegin \/ Crash
         \/ RecoverDone \/ \E p \in Pids : Restart(p)
  PROVE  UNCHANGED task
BY DEF RequestCancel, CancelTask, WorkerCancel, WorkerComplete, WorkerExit,
       CancelConflict, ReconcileBegin, FinalizeBegin, Crash, RecoverDone, Restart

\* The steps of an operation that holds the line.
LEMMA LineTurns ==
  ASSUME IInv, Rows', Placement, Recovering,
         \/ CompleteStep \/ CancelRoot
         \/ \E t \in Tasks :
              CancelChild(t) \/ JoinStep(t) \/ FinalizeStep(t) \/ RecoverStep(t)
  PROVE  UNCHANGED task \/ \E t \in Tasks : Turns(t)
<1>1. Tables /\ Rows /\ LineInv /\ \A t \in Tasks : Placed(task[t])
  BY DEF IInv, Placement
<1>2. CASE CompleteStep
  <2>1. line.task \in Tasks
    BY <1>1, <1>2 DEF LineInv, CompleteStep
  <2>2. UNCHANGED task \/ Advances(line.task)
    BY <1>2 DEF CompleteStep, Advances
  <2> QED BY <1>1, <2>1, <2>2, TurnAdvance
<1>3. CASE CancelRoot
  <2>1. line.task \in Tasks
    BY <1>1, <1>3 DEF LineInv, CancelRoot, Cancelling
  <2> QED BY <1>1, <1>3, <2>1, TurnStop DEF CancelRoot
<1>4. ASSUME NEW t \in Tasks, CancelChild(t)
      PROVE  UNCHANGED task \/ Turns(t)
  BY <1>1, <1>4, TurnStop DEF CancelChild
<1>5. ASSUME NEW t \in Tasks, JoinStep(t)
      PROVE  UNCHANGED task \/ Turns(t)
  BY <1>1, <1>5, TurnFail, TurnWake DEF JoinStep, JoinReady
<1>6. ASSUME NEW t \in Tasks, FinalizeStep(t)
      PROVE  UNCHANGED task \/ Turns(t)
  <2>1. UNCHANGED task \/ CancelTerminal(t) \/ Advances(t)
    BY <1>6 DEF FinalizeStep, Advances
  <2> QED BY <1>1, <2>1, TurnCancel, TurnAdvance
<1>7. ASSUME NEW t \in Tasks, RecoverStep(t)
      PROVE  UNCHANGED task \/ Turns(t)
  <2>1. task[t].status = "running"
    BY <1>7 DEF RecoverStep, Recovering
  <2>2. \/ UNCHANGED task \/ FailTask(t, task[t].token) \/ CancelTerminal(t)
        \/ Commit(t, RecoverableState(task[t]), task[t].token)
    BY <1>7 DEF RecoverStep
  <2> QED BY <1>1, <2>1, <2>2, TurnFail, TurnCancel, TurnRelease
<1> QED BY <1>2, <1>3, <1>4, <1>5, <1>6, <1>7

\* Nothing is committed, a task is admitted or claimed, or one row turns.
LEMMA TurnKinds ==
  ASSUME IInv, Rows', Placement, Recovering, Next
  PROVE  UNCHANGED task \/ Admits \/ Claims \/ \E t \in Tasks : Turns(t)
<1>1. /\ Tables /\ Rows
      /\ \A t \in Tasks : Placed(task[t])
      /\ \A w \in workers : w.task \in Tasks /\ w.token # 0 /\ Bound(w)
  BY DEF IInv, WorkersInv, Worker, Placement
<1>2. CASE \E t \in Tasks : \E p \in OwnerChoice[t], b \in Abandons : Admit(t, p, b)
  BY <1>2 DEF Admits
<1>3. ASSUME NEW t \in Tasks, Claim(t)
      PROVE  Claims
  BY <1>3 DEF Claims
<1>4. ASSUME NEW t \in Tasks, SchedulerFail(t)
      PROVE  Turns(t)
  BY <1>1, <1>4, TurnFail DEF SchedulerFail
<1>5. ASSUME NEW t \in Tasks, Requeue(t)
      PROVE  Turns(t)
  <2>1. task[t].status = "waiting" /\ Commit(t, RecoverableState(task[t]), task[t].token)
    BY <1>5 DEF Requeue, RecoverableState
  <2> QED BY <1>1, <2>1, TurnRelease
<1>6. ASSUME NEW t \in Tasks, NEW w \in workers, Unclaim(t, w)
      PROVE  Turns(t)
  BY <1>1, <1>6, TurnRelease DEF Unclaim
<1>7. ASSUME NEW w \in workers, WorkerStart(w)
      PROVE  UNCHANGED task \/ Turns(w.task)
  BY <1>1, <1>7, TurnStart
<1>8. ASSUME NEW w \in workers, WorkerFail(w)
      PROVE  Turns(w.task)
  BY <1>1, <1>8, TurnFail DEF WorkerFail
<1>9. ASSUME NEW w \in workers, WorkerWaitCancelled(w)
      PROVE  Turns(w.task)
  <2>1. \/ CancelTerminal(w.task)
        \/ /\ task[w.task].status = "running"
           /\ Commit(w.task, UnclaimedState(task[w.task]),
                     BoundToken(task[w.task], w.token))
    BY <1>9 DEF WorkerWaitCancelled
  <2> QED BY <1>1, <2>1, TurnCancel, TurnRelease
<1>10. ASSUME NEW w \in workers,
              \/ \E answered \in Parks : WorkerPark(w, answered)
              \/ \E list \in WaitLists, policy \in JoinPolicies : WorkerJoin(w, list, policy)
       PROVE  Turns(w.task)
  BY <1>1, <1>10, TurnPark
<1>11. ASSUME NEW w \in workers, NEW intents \in SUBSET Effects,
              NEW settlements \in SUBSET Effects, NEW op \in OpSteps,
              WorkerRecord(w, intents, settlements, op)
       PROVE  Turns(w.task)
  BY <1>1, <1>11, TurnRecord
<1>12. CASE \/ CompleteStep \/ CancelRoot
            \/ \E t \in Tasks :
                 CancelChild(t) \/ JoinStep(t) \/ FinalizeStep(t) \/ RecoverStep(t)
  BY <1>12, LineTurns
<1>13. CASE \/ \E t \in Tasks : RequestCancel(t) \/ CancelTask(t)
            \/ \E w \in workers : WorkerCancel(w) \/ WorkerComplete(w) \/ WorkerExit(w)
            \/ CancelConflict \/ ReconcileBegin \/ FinalizeBegin \/ Crash
            \/ RecoverDone \/ \E p \in Pids : Restart(p)
  BY <1>13, NoCommit
<1> QED BY <1>1, <1>2, <1>3, <1>4, <1>5, <1>6, <1>7, <1>8, <1>9, <1>10, <1>11,
           <1>12, <1>13 DEF Next

\* What a claim does to the row.
LEMMA ClaimRow ==
  ASSUME IInv, NEW t \in Tasks, Placed(task[t]), Claim(t)
  PROVE  /\ task' = [task EXCEPT ![t] = task'[t]]
         /\ task[t].phase # "none" /\ task[t].status = "pending"
         /\ Placed(task'[t])
         /\ task'[t].phase # "none" /\ task'[t].above = task[t].above
         /\ task'[t].attempt = task[t].attempt + 1
         /\ task'[t].owner = proc.epoch
<1> DEFINE k == task[t]
           n == ClaimedState(k)
<1>1. k \in Checkpoint /\ task \in [Tasks -> Checkpoint] /\ k.status = "pending"
  BY DEF IInv, Tables, Claim
<1>2. task' = [task EXCEPT ![t] = n] /\ k.phase # "none"
  BY DEF Claim, Commit, ValidExistingTask
<1>3. /\ n.status = "running" /\ n.above = k.above /\ n.op = k.op /\ n.pend = k.pend
      /\ n.attempt = k.attempt + 1 /\ n.owner = proc.epoch
      /\ n.phase = IF k.phase = "accepted" THEN "dispatching" ELSE k.phase
  BY <1>1 DEF ClaimedState, Checkpoint
<1> HIDE DEF n
<1>4. task'[t] = n
  BY <1>1, <1>2
<1>5. Placed(n)
  BY <1>1, <1>2, <1>3 DEF Placed
<1> QED BY <1>1, <1>2, <1>3, <1>4, <1>5 DEF Placed

-----------------------------------------------------------------------------
(* Where tasks and their workers are.                                      *)

\* Every row stays in a place it may be in.
LEMMA PlacedNext ==
  ASSUME IInv, Rows', Placement, Recovering, Next
  PROVE  \A t \in Tasks : Placed(task'[t])
<1>1. task \in [Tasks -> Checkpoint] /\ \A t \in Tasks : Placed(task[t])
  BY DEF IInv, Tables, Placement
<1>2. CASE UNCHANGED task
  BY <1>1, <1>2
<1>3. ASSUME NEW t \in Tasks, NEW p \in OwnerChoice[t], NEW b \in Abandons, Admit(t, p, b)
      PROVE  \A u \in Tasks : Placed(task'[u])
  <2>1. /\ \A u \in Tasks : u # t => task'[u] = task[u]
        /\ task'[t].phase = "accepted" /\ task'[t].status = "pending"
        /\ task'[t].op = "none"
    BY <1>1, <1>3 DEF Admit, Absent
  <2>2. Placed(task'[t])
    BY <2>1 DEF Placed
  <2> QED BY <1>1, <2>1, <2>2
<1>4. ASSUME NEW t \in Tasks, task' = [task EXCEPT ![t] = task'[t]], Placed(task'[t])
      PROVE  \A u \in Tasks : Placed(task'[u])
  BY <1>1, <1>4
<1>5. ASSUME NEW t \in Tasks, Claim(t)
      PROVE  \A u \in Tasks : Placed(task'[u])
  BY <1>1, <1>4, <1>5, ClaimRow
<1>6. ASSUME NEW t \in Tasks, Turns(t)
      PROVE  \A u \in Tasks : Placed(task'[u])
  BY <1>4, <1>6 DEF Turns, Turn
<1> QED BY <1>2, <1>3, <1>5, <1>6, TurnKinds DEF Admits, Claims

\* A commit leaves every worker where its attempt is.
LEMMA WorkersBound ==
  ASSUME IInv, Rows', Placement, Recovering, Next, NEW w \in workers
  PROVE  Bound(w)'
<1>1. /\ task \in [Tasks -> Checkpoint] /\ \A t \in Tasks : Placed(task[t])
      /\ w.task \in Tasks /\ w.token \in Nat /\ w.token # 0 /\ Bound(w)
      /\ task[w.task].attempt \in Nat
  BY DEF IInv, Tables, WorkersInv, Worker, Placement, Checkpoint
<1>2. CASE task'[w.task] = task[w.task]
  BY <1>1, <1>2 DEF Bound
<1>3. ASSUME NEW t \in Tasks, NEW p \in OwnerChoice[t], NEW b \in Abandons, Admit(t, p, b)
      PROVE  Bound(w)'
  <2>1. w.task # t
    BY <1>1, <1>3 DEF Admit, Admitted, Placed, Bound
  <2>2. task'[w.task] = task[w.task]
    BY <1>1, <1>3, <2>1 DEF Admit
  <2> QED BY <1>2, <2>2
<1>4. ASSUME NEW t \in Tasks, Claim(t)
      PROVE  Bound(w)'
  <2>1. CASE w.task = t
    <3>1. task'[w.task].attempt = task[w.task].attempt + 1
      BY <1>1, <1>4, <2>1, ClaimRow
    <3> QED BY <1>1, <3>1 DEF Bound
  <2>2. CASE w.task # t
    <3>1. task'[w.task] = task[w.task]
      BY <1>1, <1>4, <2>2, ClaimRow
    <3> QED BY <1>2, <3>1
  <2> QED BY <2>1, <2>2
<1>5. ASSUME NEW t \in Tasks, Turns(t)
      PROVE  Bound(w)'
  <2>1. CASE w.task = t
    BY <1>1, <1>5, <2>1 DEF Turns, Turn, Bound
  <2>2. CASE w.task # t
    <3>1. task'[w.task] = task[w.task]
      BY <1>1, <1>5, <2>2 DEF Turns
    <3> QED BY <1>2, <3>1
  <2> QED BY <2>1, <2>2
<1> QED BY <1>2, <1>3, <1>4, <1>5, TurnKinds DEF Admits, Claims

\* Where the workers of the next state come from.
LEMMA WorkerOrigins ==
  ASSUME IInv, Next, NEW v \in workers'
  PROVE  \/ v \in workers
         \/ \E t \in Tasks : /\ Claim(t)
                             /\ v = [task |-> t, token |-> task[t].attempt + 1,
                                     stage |-> "queued"]
         \/ \E w \in workers : /\ v.task = w.task /\ v.token = w.token
                               /\ w.stage # "queued" \/ WorkerStart(w)
<1>1. workers \subseteq Worker
  BY DEF IInv, WorkersInv
<1>2. ASSUME NEW w \in workers, NEW stage, workers' = At(w, stage)
      PROVE  v \in workers \/ (v.task = w.task /\ v.token = w.token)
  BY <1>1, <1>2 DEF At, Worker
<1>3. ASSUME NEW t \in Tasks, Claim(t)
      PROVE  v \in workers \/ v = [task |-> t, token |-> task[t].attempt + 1,
                                   stage |-> "queued"]
  BY <1>3 DEF Claim
<1>4. ASSUME NEW w \in workers, WorkerStart(w)
      PROVE  v \in workers \/ (v.task = w.task /\ v.token = w.token)
  BY <1>2, <1>4 DEF WorkerStart
<1>5. ASSUME NEW w \in workers,
             \/ WorkerFail(w) \/ WorkerCancel(w) \/ WorkerComplete(w)
             \/ WorkerWaitCancelled(w)
             \/ \E answered \in Parks : WorkerPark(w, answered)
             \/ \E list \in WaitLists, policy \in JoinPolicies : WorkerJoin(w, list, policy)
      PROVE  v \in workers \/ (v.task = w.task /\ v.token = w.token /\ w.stage # "queued")
  <2>1. /\ w.stage # "queued"
        /\ \E stage \in {"settled", "closing"} : workers' = At(w, stage)
    BY <1>5 DEF WorkerFail, WorkerCancel, WorkerComplete, WorkerWaitCancelled,
                WorkerPark, WorkerJoin, CanWait
  <2> QED BY <1>2, <2>1
<1>6. ASSUME NEW t \in Tasks,
             \/ \E p \in OwnerChoice[t], b \in Abandons : Admit(t, p, b)
             \/ \E w \in workers : Unclaim(t, w)
             \/ SchedulerFail(t) \/ Requeue(t) \/ RequestCancel(t) \/ CancelTask(t)
             \/ CancelChild(t) \/ JoinStep(t) \/ FinalizeStep(t) \/ RecoverStep(t)
      PROVE  v \in workers
  BY <1>6 DEF Admit, Unclaim, SchedulerFail, Requeue, RequestCancel, CancelTask,
              CancelChild, JoinStep, FinalizeStep, RecoverStep
<1>7. ASSUME NEW w \in workers,
             \/ WorkerExit(w)
             \/ \E intents, settlements \in SUBSET Effects, op \in OpSteps :
                  WorkerRecord(w, intents, settlements, op)
      PROVE  v \in workers
  BY <1>7 DEF WorkerExit, WorkerRecord
<1>8. ASSUME \/ CompleteStep \/ CancelRoot \/ CancelConflict \/ ReconcileBegin
             \/ FinalizeBegin \/ Crash \/ RecoverDone \/ \E p \in Pids : Restart(p)
      PROVE  v \in workers
  BY <1>8 DEF CompleteStep, CancelRoot, CancelConflict, ReconcileBegin,
              FinalizeBegin, Crash, RecoverDone, Restart
<1> QED BY <1>3, <1>4, <1>5, <1>6, <1>7, <1>8 DEF Next

\* Tasks and workers stay in their places.
LEMMA PlacementNext ==
  ASSUME IInv, Rows', Placement, Recovering, Next
  PROVE  Placement'
<1>1. /\ task \in [Tasks -> Checkpoint] /\ \A t \in Tasks : Placed(task[t])
      /\ \A w \in workers : w.task \in Tasks
      /\ \A w \in workers : Bound(w)'
  BY WorkersBound DEF IInv, Tables, WorkersInv, Worker, Placement
<1>2. ASSUME NEW v \in workers'
      PROVE  Bound(v)'
  <2>1. CASE v \in workers
    BY <1>1, <2>1
  <2>2. ASSUME NEW t \in Tasks, Claim(t),
               v = [task |-> t, token |-> task[t].attempt + 1, stage |-> "queued"]
        PROVE  Bound(v)'
    <3>1. task'[t].attempt = task[t].attempt + 1 /\ task[t].attempt \in Nat
      BY <1>1, <2>2, ClaimRow DEF Checkpoint
    <3> QED BY <2>2, <3>1 DEF Bound
  <2>3. ASSUME NEW w \in workers, v.task = w.task, v.token = w.token,
               w.stage # "queued" \/ WorkerStart(w)
        PROVE  Bound(v)'
    <3>1. w.stage # "queued" \/ task'[w.task].phase \notin {"accepted", "dispatching"}
      BY <1>1, <2>3, TurnStart DEF IInv
    <3> QED BY <1>1, <2>3, <3>1 DEF Bound
  <2> QED BY <2>1, <2>2, <2>3, WorkerOrigins
<1> QED BY <1>2, PlacedNext DEF Placement

-----------------------------------------------------------------------------
(* What an operation on the line may rely on between two commits.          *)

\* While an operation holds the line, only its own steps, a worker that
\* returns and a crash can happen.
LEMMA OnTheLine ==
  ASSUME Next
  PROVE  \/ Ready
         \/ UNCHANGED <<task, line, proc>>
         \/ Crash
         \/ \E p \in Pids : Restart(p)
         \/ LineStep
<1>1. ASSUME NEW t \in Tasks,
             \/ \E p \in OwnerChoice[t], b \in Abandons : Admit(t, p, b)
             \/ Claim(t) \/ SchedulerFail(t) \/ Requeue(t)
             \/ \E w \in workers : Unclaim(t, w)
             \/ RequestCancel(t) \/ CancelTask(t)
      PROVE  Ready
  BY <1>1 DEF Admit, Claim, SchedulerFail, Requeue, Unclaim, RequestCancel, CancelTask
<1>2. ASSUME NEW w \in workers,
             \/ WorkerStart(w) \/ WorkerFail(w) \/ WorkerCancel(w) \/ WorkerComplete(w)
             \/ WorkerWaitCancelled(w)
             \/ \E answered \in Parks : WorkerPark(w, answered)
             \/ \E list \in WaitLists, policy \in JoinPolicies : WorkerJoin(w, list, policy)
             \/ \E intents, settlements \in SUBSET Effects, op \in OpSteps :
                  WorkerRecord(w, intents, settlements, op)
      PROVE  Ready
  BY <1>2 DEF WorkerStart, WorkerFail, WorkerCancel, WorkerComplete,
              WorkerWaitCancelled, WorkerPark, WorkerJoin, WorkerRecord, CanWait
<1>3. ASSUME NEW w \in workers, WorkerExit(w)
      PROVE  UNCHANGED <<task, line, proc>>
  BY <1>3 DEF WorkerExit
<1>4. CASE ReconcileBegin
  BY <1>4 DEF ReconcileBegin
<1> QED BY <1>1, <1>2, <1>3, <1>4 DEF Next, LineStep

\* A step from the free line starts a recovery never, and a Stop only from
\* request_cancel; the process stays.
LEMMA FromIdle ==
  ASSUME Next, Ready
  PROVE  /\ line'.op # "recover"
         /\ line'.op = "request_cancel" => \E t \in Tasks : RequestCancel(t)
         /\ line'.op = "cancel_task" =>
              (\E t \in Tasks : CancelTask(t)) \/ \E w \in workers : WorkerCancel(w)
         /\ Crash \/ UNCHANGED proc
<1>1. proc.up /\ line = Idle /\ line.op = "idle"
  BY DEF Ready, Idle
<1>2. ASSUME NEW t \in Tasks,
             \/ \E p \in OwnerChoice[t], b \in Abandons : Admit(t, p, b)
             \/ Claim(t) \/ SchedulerFail(t) \/ Requeue(t)
             \/ \E w \in workers : Unclaim(t, w)
      PROVE  UNCHANGED <<line, proc>>
  BY <1>2 DEF Admit, Claim, SchedulerFail, Requeue, Unclaim
<1>3. ASSUME NEW w \in workers,
             \/ WorkerStart(w) \/ WorkerFail(w) \/ WorkerWaitCancelled(w) \/ WorkerExit(w)
             \/ \E answered \in Parks : WorkerPark(w, answered)
             \/ \E list \in WaitLists, policy \in JoinPolicies : WorkerJoin(w, list, policy)
             \/ \E intents, settlements \in SUBSET Effects, op \in OpSteps :
                  WorkerRecord(w, intents, settlements, op)
      PROVE  UNCHANGED <<line, proc>>
  BY <1>3 DEF WorkerStart, WorkerFail, WorkerWaitCancelled, WorkerExit,
              WorkerPark, WorkerJoin, WorkerRecord
<1>4. ASSUME NEW t \in Tasks, RequestCancel(t)
      PROVE  /\ UNCHANGED proc /\ line'.op = "request_cancel"
             /\ \E u \in Tasks : RequestCancel(u)
  BY <1>4 DEF RequestCancel, Busy
<1>5. ASSUME NEW t \in Tasks, CancelTask(t)
      PROVE  UNCHANGED proc /\ line'.op = "cancel_task" /\ \E u \in Tasks : CancelTask(u)
  BY <1>5 DEF CancelTask, Busy
<1>6. ASSUME NEW w \in workers, WorkerCancel(w) \/ WorkerComplete(w)
      PROVE  /\ UNCHANGED proc
             /\ line'.op \in {"cancel_task", "complete"}
             /\ line'.op = "cancel_task" => \E v \in workers : WorkerCancel(v)
  BY <1>6 DEF WorkerCancel, WorkerComplete, Busy
<1>7. CASE ReconcileBegin
  BY <1>7 DEF ReconcileBegin, Busy
<1>8. CASE Crash
  BY <1>1, <1>8 DEF Crash
<1>9. ~LineStep /\ ~(\E p \in Pids : Restart(p))
  BY <1>1 DEF LineStep, CompleteStep, CancelRoot, CancelConflict, FinalizeBegin,
              RecoverDone, CancelChild, JoinStep, FinalizeStep, RecoverStep,
              Cancelling, Restart
<1>10. CASE \/ \E t \in Tasks : RequestCancel(t) \/ CancelTask(t)
            \/ \E w \in workers : WorkerCancel(w) \/ WorkerComplete(w)
  BY <1>4, <1>5, <1>6, <1>10
<1>11. CASE UNCHANGED <<line, proc>>
  BY <1>1, <1>11
<1> QED BY <1>2, <1>3, <1>7, <1>8, <1>9, <1>10, <1>11 DEF Next, LineStep

\* The line never changes hands without becoming free, join to finalize
\* excepted.
LEMMA OnePerLine ==
  ASSUME LineInv, LineStep
  PROVE  /\ UNCHANGED proc /\ proc.up
         /\ line'.op = "recover" => line.op = "recover" /\ \E t \in Tasks : RecoverStep(t)
         /\ line'.op = "request_cancel" =>
              line.op = "request_cancel" /\ \E t \in Tasks : CancelChild(t)
         /\ line'.op = "cancel_task" =>
              line.op = "cancel_task" /\ \E t \in Tasks : CancelChild(t)
<1>1. line \in Line /\ Idle.op = "idle"
  BY DEF LineInv, Idle
<1>2. CASE CompleteStep
  BY <1>1, <1>2 DEF CompleteStep
<1>3. CASE CancelRoot \/ CancelConflict \/ RecoverDone
  BY <1>1, <1>3 DEF CancelRoot, CancelConflict, RecoverDone, Cancelling
<1>4. CASE FinalizeBegin
  BY <1>1, <1>4 DEF FinalizeBegin, Busy
<1>5. ASSUME NEW t \in Tasks, line' = [line EXCEPT !.todo = @ \ {t}]
      PROVE  line'.op = line.op
  BY <1>1, <1>5 DEF Line
<1>6. ASSUME NEW t \in Tasks, CancelChild(t)
      PROVE  UNCHANGED proc /\ proc.up /\ line'.op = line.op /\ line.op # "recover"
  BY <1>5, <1>6 DEF CancelChild, Cancelling
<1>7. ASSUME NEW t \in Tasks, RecoverStep(t)
      PROVE  UNCHANGED proc /\ proc.up /\ line'.op = line.op /\ line.op = "recover"
  BY <1>5, <1>7 DEF RecoverStep
<1>8. ASSUME NEW t \in Tasks, JoinStep(t) \/ FinalizeStep(t)
      PROVE  /\ UNCHANGED proc /\ proc.up
             /\ line'.op \in {"idle", line.op} /\ line.op \in {"join", "finalize"}
  BY <1>1, <1>5, <1>8 DEF JoinStep, FinalizeStep, Rest
<1> QED BY <1>2, <1>3, <1>4, <1>6, <1>7, <1>8 DEF LineStep

\* Recovery touches the task it has come to and no other.
LEMMA RecoverOne ==
  ASSUME Tables, NEW t \in Tasks, RecoverStep(t), NEW u \in Tasks, u # t
  PROVE  task'[u] = task[u]
<1>1. \/ UNCHANGED task \/ FailTask(t, task[t].token) \/ CancelTerminal(t)
      \/ Commit(t, RecoverableState(task[t]), task[t].token)
  BY DEF RecoverStep
<1> QED BY <1>1 DEF Tables, FailTask, Commit, CancelTerminal

\* Recovery keeps its snapshot.
LEMMA RecoveringNext ==
  ASSUME IInv, Recovering, Next
  PROVE  Recovering'
<1>1. SUFFICES ASSUME line'.op = "recover", NEW t \in line'.todo
               PROVE  task'[t].status = "running"
  BY DEF Recovering
<1>2. Tables /\ LineInv
  BY DEF IInv
<1>3. CASE UNCHANGED <<task, line>>
  BY <1>1, <1>3 DEF Recovering
<1>4. ASSUME NEW p \in Pids, Restart(p)
      PROVE  task'[t].status = "running"
  BY <1>1, <1>4 DEF Restart, Busy
<1>5. ASSUME NEW u \in Tasks, RecoverStep(u), line.op = "recover"
      PROVE  task'[t].status = "running"
  <2>1. line \in Line /\ line' = [line EXCEPT !.todo = @ \ {u}]
    BY <1>2, <1>5 DEF LineInv, RecoverStep
  <2>2. t \in line.todo /\ t # u /\ t \in Tasks
    BY <1>1, <2>1 DEF Line
  <2> QED BY <1>2, <1>5, <2>2, RecoverOne DEF Recovering
<1>6. CASE Crash
  BY <1>1, <1>6 DEF Crash, Idle
<1> QED BY <1>1, <1>2, <1>3, <1>4, <1>5, <1>6, OnTheLine, FromIdle, OnePerLine

\* An owner was there before what it owns: no task owns itself.
LEMMA AcyclicNext ==
  ASSUME IInv, Rows', Store, Placement, Recovering, Acyclic, Next
  PROVE  Acyclic'
<1>1. task \in [Tasks -> Checkpoint] /\ \A t \in Tasks : Placed(task[t])
  BY DEF IInv, Tables, Placement
<1>2. CASE \A t \in Tasks : task'[t].above = task[t].above
  BY <1>2 DEF Acyclic
<1>3. ASSUME NEW t \in Tasks, NEW p \in OwnerChoice[t], NEW b \in Abandons, Admit(t, p, b)
      PROVE  Acyclic'
  <2> DEFINE up == IF p = NoTask THEN {} ELSE task[p].above \union {p}
  <2>1. task'[t].above = up /\ \A u \in Tasks : u # t => task'[u] = task[u]
    BY <1>1, <1>3 DEF Admit, Absent
  <2>2. t \notin up
    <3>1. task[t].phase = "none" /\ p # t /\ p \in Tasks \union {NoTask}
      BY <1>3, OwnerChoiceAssumption DEF Admit, Admitted
    <3> QED BY <3>1 DEF Store
  <2> HIDE DEF up
  <2> QED BY <2>1, <2>2 DEF Acyclic
<1>4. ASSUME NEW t \in Tasks, Claim(t)
      PROVE  \A u \in Tasks : task'[u].above = task[u].above
  <2>1. task' = [task EXCEPT ![t] = task'[t]] /\ task'[t].above = task[t].above
    BY <1>1, <1>4, ClaimRow
  <2> QED BY <1>1, <2>1
<1>5. ASSUME NEW t \in Tasks, Turns(t)
      PROVE  \A u \in Tasks : task'[u].above = task[u].above
  BY <1>1, <1>5 DEF Turns, Turn
<1> QED BY <1>2, <1>3, <1>4, <1>5, TurnKinds DEF Admits, Claims

\* A descendant that a Stop has come to carries the barrier from then on.
LEMMA StopOne ==
  ASSUME IInv, Placement, NEW c \in Tasks, CancelChild(c)
  PROVE  /\ task'[c].cancel
         /\ \A d \in Tasks : d # c => task'[d] = task[d]
         /\ \A d \in Tasks : task'[d].above = task[d].above
<1>1. task \in [Tasks -> Checkpoint] /\ Tables /\ Rows /\ Placed(task[c])
  BY DEF IInv, Tables, Placement
<1>2. CASE UNCHANGED task /\ task[c].cancel
  BY <1>2
<1>3. CASE RequestCommit(c) \/ CloseCommit(c)
  <2>1. Turns(c) /\ task'[c].cancel
    BY <1>1, <1>3, TurnStop
  <2> QED BY <1>1, <2>1 DEF Turns, Turn
<1> QED BY <1>2, <1>3 DEF CancelChild

\* A Stop keeps its snapshot.
LEMMA StoppingNext ==
  ASSUME IInv, Placement, Acyclic, Stopping, Next
  PROVE  Stopping'
<1>1. CASE line'.op # "request_cancel"
  BY <1>1 DEF Stopping
<1>2. Tables /\ LineInv
  BY DEF IInv
<1>3. CASE UNCHANGED <<task, line>>
  BY <1>3 DEF Stopping, Live
<1>4. ASSUME NEW t \in Tasks, RequestCancel(t)
      PROVE  Stopping'
  <2>1. /\ line'.task = t /\ line'.todo = LiveBelow(t) /\ ~task[t].cancel
        /\ task' = task /\ t \notin LiveBelow(t)
    BY <1>4 DEF RequestCancel, Busy, Acyclic, LiveBelow
  <2> QED BY <2>1 DEF Stopping, LiveBelow, Live
<1>5. ASSUME NEW c \in Tasks, CancelChild(c), line.op = "request_cancel"
      PROVE  Stopping'
  <2>1. /\ line'.op = line.op /\ line'.task = line.task /\ line'.todo = line.todo \ {c}
        /\ c \in line.todo
    BY <1>2, <1>5 DEF LineInv, Line, CancelChild
  <2>2. /\ task'[c].cancel
        /\ \A d \in Tasks : d # c => task'[d] = task[d]
        /\ \A d \in Tasks : task'[d].above = task[d].above
    BY <1>5, StopOne
  <2>3. line.task \in Tasks
    BY <1>2, <1>5 DEF LineInv
  <2>4. c # line.task
    BY <1>5, <2>1 DEF Stopping
  <2> QED BY <1>5, <2>1, <2>2, <2>3, <2>4 DEF Stopping, Live
<1>6. CASE Crash
  BY <1>1, <1>6 DEF Crash, Idle
<1>7. ASSUME NEW p \in Pids, Restart(p)
      PROVE  Stopping'
  BY <1>1, <1>7 DEF Restart, Busy
<1> QED BY <1>1, <1>2, <1>3, <1>4, <1>5, <1>6, <1>7, OnTheLine, FromIdle, OnePerLine

-----------------------------------------------------------------------------
(* Recovery is complete.                                                   *)

\* To fail or to cancel a live task is never refused to a caller that
\* presents the token the store expects.
LEMMA EndAccepted ==
  ASSUME IInv, Store, NEW t \in Tasks, Placed(task[t]), Live(task[t]),
         NEW x, x = task[t].token
  PROVE  /\ CanFail(t, x)
         /\ CanCancelTerminal(t)
<1> DEFINE k == task[t]
           Closed(n) ==
             /\ n.phase \in {"failed", "cancelled"} /\ n.status = n.phase
             /\ n.token = 0 /\ n.owner = 0 /\ n.pid = 0
             /\ n.attempt = k.attempt /\ n.parent = k.parent /\ n.abandon = k.abandon
<1>1. /\ k \in Checkpoint /\ sub[t] \in SubmissionStatuses /\ WellFormed(k)
      /\ k.pend = Unsettled(t) /\ Told(k, sub[t], answers[t])
  BY DEF IInv, Tables, Rows, RowInv, Unsettled, Store
<1>2. /\ k.status \in {"pending", "running", "waiting", "completing"}
      /\ k.phase \in {"accepted", "dispatching", "running", "completion_pending"}
  BY DEF Placed, Live
<1>3. ASSUME NEW n, Closed(n)
      PROVE  ValidExistingTask(k, n, k.token)
  <2>1. ValidExecutionAttempt(k, n, k.token)
    BY <1>1, <1>3 DEF ValidExecutionAttempt, Terminal, WellFormed
  <2>2. /\ ValidTaskTransition(k.phase, n.phase)
        /\ ValidTaskStatusTransition(k.status, n.status)
    BY <1>2, <1>3 DEF ValidTaskTransition, ValidTaskStatusTransition,
                      PhaseTransitions, StatusTransitions
  <2>3. WellFormed(n)
    BY <1>3 DEF WellFormed, Terminal
  <2> QED BY <1>2, <1>3, <2>1, <2>2, <2>3 DEF ValidExistingTask
<1>4. Closed(FailedState(k)) /\ Closed(CancelledState(k))
  BY <1>1 DEF FailedState, CancelledState, Released, Checkpoint
<1>5. /\ ValidExistingTask(k, FailedState(k), k.token)
      /\ ValidExistingTask(k, CancelledState(k), k.token)
  <2> HIDE DEF Closed
  <2> QED BY <1>3, <1>4
<1>6. ValidSubmissionTransition(sub[t], "unanswered")
  BY <1>1, <1>2 DEF Told, SubmissionStatuses, ValidSubmissionTransition
<1> QED BY <1>1, <1>5, <1>6 DEF CanFail, CanCancelTerminal

\* The commit recovery has prepared for a running task is never refused.
LEMMA NoConflict ==
  ASSUME IInv, Store, NEW t \in Tasks, Placed(task[t]), task[t].status = "running"
  PROVE  /\ CanFail(t, task[t].token)
         /\ CanCancelTerminal(t)
         /\ ~(task[t].cancel /\ ~KernelCleanupRequired(task[t])) =>
              ValidExistingTask(task[t], RecoverableState(task[t]), task[t].token)
<1> DEFINE k == task[t]
<1>1. k \in Checkpoint /\ Owned(k)
  BY DEF IInv, Tables, Rows, RowInv
<1>2. k.phase \in {"dispatching", "running"} /\ k.token # 0
  BY <1>1 DEF Placed, Owned
<1>3. CanFail(t, k.token) /\ CanCancelTerminal(t)
  BY EndAccepted DEF Live
<1>4. ASSUME ~(k.cancel /\ ~KernelCleanupRequired(k))
      PROVE  ValidExistingTask(k, RecoverableState(k), k.token)
  <2> DEFINE n == RecoverableState(k)
  <2>1. /\ n.phase = k.phase /\ n.status = "pending" /\ n.token = 0
        /\ n.owner = 0 /\ n.pid = 0 /\ n.attempt = k.attempt /\ n.parent = k.parent
        /\ n.abandon = k.abandon /\ n.op = k.op /\ n.cancel = k.cancel
    BY <1>1 DEF RecoverableState, Released, Checkpoint
  <2> HIDE DEF n
  <2>2. k.cancel => ValidCancellationCleanup(k, n)
    <3>1. k.op \in Operations
      BY <1>1 DEF Checkpoint
    <3>2. k.cancel => k.op \in {"busy", "closed"}
      BY <1>4, <3>1 DEF KernelCleanupRequired, Placed, Operations
    <3>3. k.cancel => k.phase = "running"
      BY <1>2, <3>2 DEF Placed
    <3> QED BY <2>1, <3>2, <3>3 DEF ValidCancellationCleanup
  <2>3. ValidExecutionAttempt(k, n, k.token)
    BY <1>2, <2>1 DEF ValidExecutionAttempt
  <2>4. /\ ValidTaskTransition(k.phase, n.phase)
        /\ ValidTaskStatusTransition(k.status, n.status)
    BY <2>1 DEF ValidTaskTransition, ValidTaskStatusTransition, StatusTransitions
  <2>5. WellFormed(n)
    BY <1>2, <2>1 DEF WellFormed, Terminal
  <2>6. k.phase # "none" /\ n.parent = k.parent /\ n.abandon = k.abandon
    BY <1>2, <2>1
  <2>7. ValidExistingTask(k, n, k.token)
    BY <2>2, <2>3, <2>4, <2>5, <2>6 DEF ValidExistingTask
  <2> QED BY <2>7 DEF n
<1> QED BY <1>3, <1>4

\* Recovery takes every attempt of a dead process away.
LEMMA RecoveryReleases ==
  ASSUME IInv, Store, NEW t \in Tasks, Placed(task[t]), task[t].status = "running",
         RecoverStep(t), task[t].pid # proc.pid
  PROVE  task'[t].status # "running"
<1> DEFINE k == task[t]
<1>1. k \in Checkpoint /\ task \in [Tasks -> Checkpoint]
  BY DEF IInv, Tables
<1>2. \/ FailTask(t, k.token) \/ CancelTerminal(t)
      \/ Commit(t, RecoverableState(k), k.token)
  BY NoConflict DEF RecoverStep, ProcessIsAlive
<1>3. /\ FailedState(k).status = "failed" /\ CancelledState(k).status = "cancelled"
      /\ RecoverableState(k).status = "pending"
  BY <1>1 DEF FailedState, CancelledState, RecoverableState, Released, Checkpoint
<1> QED BY <1>1, <1>2, <1>3 DEF FailTask, CancelTerminal, Commit

\* No running task is left behind by a process that died.
LEMMA OwnRunsNext ==
  ASSUME ~PidReuse, IInv, Rows', Store, Placement, Recovering, OwnRuns, Next
  PROVE  OwnRuns'
<1>1. /\ task \in [Tasks -> Checkpoint] /\ Tables /\ LineInv
      /\ \A t \in Tasks : Placed(task[t])
  BY DEF IInv, Tables, Placement
<1>2. CASE Crash
  BY <1>2 DEF Crash, OwnRuns, IInv, Process
<1>3. ASSUME NEW p \in Pids, Restart(p)
      PROVE  OwnRuns'
  BY <1>3 DEF Restart, Busy, OwnRuns
<1>4. CASE UNCHANGED <<task, line, proc>>
  BY <1>4 DEF OwnRuns
<1>5. ASSUME NEW t \in Tasks, RecoverStep(t)
      PROVE  OwnRuns'
  <2>1. /\ line.op = "recover" /\ t \in line.todo /\ proc' = proc /\ proc.up
        /\ line'.op = "recover" /\ line'.todo = line.todo \ {t}
    BY <1>1, <1>5 DEF RecoverStep, LineInv, Line
  <2>2. task[t].status = "running"
    BY <2>1 DEF Recovering
  <2>3. ASSUME NEW u \in Tasks, task'[u].status = "running"
        PROVE  \/ task'[u].owner = proc.epoch
               \/ u \in line'.todo /\ task'[u].pid # proc.pid
    <3>1. CASE u # t
      <4>1. task'[u] = task[u]
        BY <1>1, <1>5, <3>1, RecoverOne
      <4> QED BY <2>1, <2>3, <3>1, <4>1 DEF OwnRuns
    <3>2. CASE u = t /\ task[t].pid # proc.pid
      BY <1>1, <1>5, <2>2, <2>3, <3>2, RecoveryReleases
    <3>3. CASE u = t /\ task[t].pid = proc.pid
      <4>1. task[t].owner = proc.epoch
        BY <2>1, <2>2, <3>3 DEF OwnRuns
      <4>2. UNCHANGED task
        BY <1>5, <3>3 DEF RecoverStep, ProcessIsAlive
      <4> QED BY <3>3, <4>1, <4>2
    <3> QED BY <3>1, <3>2, <3>3
  <2> QED BY <2>1, <2>3 DEF OwnRuns
<1>6. CASE RecoverDone
  BY <1>6 DEF RecoverDone, OwnRuns
<1>7. ASSUME line.op # "recover", proc' = proc
      PROVE  OwnRuns'
  <2>1. SUFFICES ASSUME proc.up, NEW u \in Tasks, task'[u].status = "running"
                 PROVE  task'[u].owner = proc.epoch
    BY <1>7 DEF OwnRuns
  <2>2. \A t \in Tasks : task[t].status = "running" => task[t].owner = proc.epoch
    BY <1>7, <2>1 DEF OwnRuns
  <2>3. CASE task'[u] = task[u]
    BY <2>1, <2>2, <2>3
  <2>4. ASSUME NEW t \in Tasks, NEW p \in OwnerChoice[t], NEW b \in Abandons,
               Admit(t, p, b)
        PROVE  task'[u].owner = proc.epoch
    <3>1. u # t => task'[u] = task[u]
      BY <1>1, <2>4 DEF Admit
    <3>2. task'[t].status = "pending"
      BY <1>1, <2>4 DEF Admit, Absent
    <3> QED BY <2>1, <2>3, <3>1, <3>2
  <2>5. ASSUME NEW t \in Tasks, Claim(t)
        PROVE  task'[u].owner = proc.epoch
    <3>1. task' = [task EXCEPT ![t] = task'[t]] /\ task'[t].owner = proc.epoch
      BY <1>1, <2>5, ClaimRow
    <3>2. u # t => task'[u] = task[u]
      BY <1>1, <3>1
    <3> QED BY <2>3, <3>1, <3>2
  <2>6. ASSUME NEW t \in Tasks, Turns(t)
        PROVE  task'[u].owner = proc.epoch
    <3>1. u # t => task'[u] = task[u]
      BY <1>1, <2>6 DEF Turns
    <3>2. CASE u = t
      BY <2>1, <2>2, <2>6, <3>2 DEF Turns, Turn
    <3> QED BY <2>3, <3>1, <3>2
  <2> QED BY <2>3, <2>4, <2>5, <2>6, TurnKinds DEF Admits, Claims
<1>8. CASE Ready
  BY <1>2, <1>7, <1>8, FromIdle DEF Ready, Idle
<1>9. CASE LineStep
  <2>1. CASE line.op = "recover"
    BY <1>5, <1>6, <1>9, <2>1
       DEF LineStep, CompleteStep, CancelRoot, CancelConflict, FinalizeBegin,
           CancelChild, JoinStep, FinalizeStep, Cancelling
  <2>2. CASE line.op # "recover"
    BY <1>1, <1>7, <1>9, <2>2, OnePerLine
  <2> QED BY <2>1, <2>2
<1> QED BY <1>2, <1>3, <1>4, <1>8, <1>9, OnTheLine

-----------------------------------------------------------------------------
\* The invariant of this module, on top of the rows and the store.
RInv == Placement /\ Snapshots

\* It holds before any task is admitted.
LEMMA RInvInit ==
  ASSUME Init
  PROVE  RInv /\ OwnRuns
<1>1. \A t \in Tasks : task[t] = Absent
  BY DEF Init
<1>2. \A t \in Tasks : Placed(task[t]) /\ task[t].above = {} /\ task[t].status = "none"
  BY <1>1 DEF Placed, Absent
<1>3. workers = {} /\ line.op = "idle"
  BY DEF Init, Idle
<1> QED BY <1>2, <1>3
        DEF RInv, Placement, Snapshots, Acyclic, Recovering, Stopping, OwnRuns

\* Every step keeps it.
LEMMA RInvNext ==
  ASSUME IInv, IInv', Store, RInv, [Next]_vars
  PROVE  RInv'
<1>1. Rows'
  BY DEF IInv
<1>2. CASE Next
  BY <1>1, <1>2, PlacementNext, AcyclicNext, RecoveringNext, StoppingNext
     DEF RInv, Snapshots
<1>3. CASE UNCHANGED vars
  BY <1>3 DEF vars, RInv, Placement, Bound, Snapshots, Acyclic, Recovering, Stopping, Live
<1> QED BY <1>2, <1>3

(* Tasks, workers and the operation on the mutation line stay where the     *)
(* commits of session.py expect them.                                       *)
THEOREM PlacesHold == Spec => [](IInv /\ Store /\ RInv)
<1>1. Init => RInv
  BY RInvInit
<1>2. IInv /\ IInv' /\ Store /\ RInv /\ [Next]_vars => RInv'
  BY RInvNext
<1> QED BY <1>1, <1>2, StoreInOrder, PTL DEF Spec

(* recover_scheduler_state leaves no task running under an attempt of an    *)
(* earlier process: whatever the crash interrupted, the commit it prepares  *)
(* is never refused.  The hypothesis is the one process_is_alive needs: the *)
(* new process does not get the pid that a stored attempt names.            *)
THEOREM RecoveryComplete ==
  ASSUME ~PidReuse
  PROVE  Spec => []NoOrphanRun
<1>1. Init => OwnRuns
  BY RInvInit
<1>2. IInv /\ IInv' /\ Store /\ RInv /\ OwnRuns /\ [Next]_vars => OwnRuns'
  <2>1. ASSUME UNCHANGED vars, OwnRuns
        PROVE  OwnRuns'
    BY <2>1 DEF vars, OwnRuns
  <2> QED BY <2>1, OwnRunsNext DEF IInv, RInv, Snapshots
<1>3. OwnRuns => NoOrphanRun
  BY DEF OwnRuns, NoOrphanRun, Ready, Idle
<1> QED BY <1>1, <1>2, <1>3, PlacesHold, PTL DEF Spec

(* A Stop that reaches its root has barred every live task below it, at any *)
(* depth, though it committed them one by one.                              *)
THEOREM StopReaches == Spec => StopReachesSubtree
<1> DEFINE Reached ==
      line.op = "request_cancel" /\ line' = Idle /\ task'[line.task].cancel =>
        \A d \in Tasks : line.task \in task'[d].above /\ Live(task'[d]) =>
                           task'[d].cancel
<1>1. ASSUME IInv, Store, RInv, Next, line.op = "request_cancel", line' = Idle,
             task'[line.task].cancel, NEW d \in Tasks,
             line.task \in task'[d].above, Live(task'[d])
      PROVE  task'[d].cancel
  <2>1. /\ task \in [Tasks -> Checkpoint] /\ Tables /\ Rows /\ LineInv /\ line.task \in Tasks
        /\ \A t \in Tasks : Placed(task[t])
    BY <1>1 DEF IInv, Tables, LineInv, RInv, Placement
  <2>2. Stopping
    BY <1>1 DEF RInv, Snapshots
  <2>3. task' # task
    BY <1>1, <2>2 DEF Stopping
  <2>4. \/ \E t \in Tasks : CancelChild(t)
        \/ CancelRoot
    BY <1>1, <2>3, NoCommit, OnTheLine
       DEF Ready, Idle, LineStep, CompleteStep, JoinStep, FinalizeStep, RecoverStep
  <2>5. CASE \E t \in Tasks : CancelChild(t)
    BY <1>1, <2>1, <2>5 DEF CancelChild, Idle, LineInv, Line
  <2>6. CASE CancelRoot
    <3>1. line.todo = {} /\ RequestCommit(line.task)
      BY <1>1, <2>6 DEF CancelRoot
    <3>2. Turns(line.task)
      BY <2>1, <3>1, TurnStop
    <3>3. d # line.task => task'[d] = task[d]
      BY <2>1, <3>2 DEF Turns
    <3> QED BY <1>1, <2>2, <3>1, <3>3 DEF Stopping
  <2> QED BY <2>4, <2>5, <2>6
<1>2. ASSUME IInv, Store, RInv, [Next]_vars
      PROVE  [Reached]_vars
  BY <1>1, <1>2
<1> QED BY <1>2, PlacesHold, PTL DEF Spec, StopReachesSubtree

-----------------------------------------------------------------------------
(* The barrier comes from below.                                           *)

\* What owns my owner owns me.
Transitive == \A t \in Tasks : \A o \in task[t].above : task[o].above \subseteq task[t].above

\* Below a task that the walk has yet to come to, all that is live is still to
\* come as well or barred already; and so for the root of the walk.
Walking ==
  line.op \in {"request_cancel", "cancel_task"} =>
    /\ line.todo \subseteq Tasks
    /\ \A c \in line.todo \union {line.task}, d \in Tasks :
         c \in task[d].above /\ Live(task[d]) => d \in line.todo \/ task[d].cancel

\* An admitted task takes over what its owner has above it.
LEMMA TransitiveNext ==
  ASSUME IInv, Rows', Store, RInv, Transitive, Next
  PROVE  Transitive'
<1>1. task \in [Tasks -> Checkpoint] /\ \A t \in Tasks : Placed(task[t])
  BY DEF IInv, Tables, RInv, Placement
<1>2. CASE \A t \in Tasks : task'[t].above = task[t].above
  <2>1. \A t \in Tasks : task[t].above \subseteq Tasks
    BY <1>1 DEF Checkpoint
  <2> QED BY <1>2, <2>1 DEF Transitive
<1>3. ASSUME NEW t \in Tasks, NEW p \in OwnerChoice[t], NEW b \in Abandons, Admit(t, p, b)
      PROVE  Transitive'
  <2> DEFINE up == IF p = NoTask THEN {} ELSE task[p].above \union {p}
  <2>1. task'[t].above = up /\ \A u \in Tasks : u # t => task'[u] = task[u]
    BY <1>1, <1>3 DEF Admit, Absent
  <2>2. /\ task[t].phase = "none" /\ p # t /\ p \in Tasks \union {NoTask}
        /\ p # NoTask => task[p].phase # "none"
    BY <1>3, OwnerChoiceAssumption DEF Admit, Admitted
  <2>3. \A u \in Tasks : t \notin task[u].above /\ task[u].above \subseteq Tasks
    BY <1>1, <2>2 DEF Store, Checkpoint
  <2>4. ASSUME NEW o \in up
        PROVE  o \in Tasks /\ o # t /\ task[o].above \subseteq up
    BY <2>2, <2>3, <2>4 DEF Transitive
  <2> HIDE DEF up
  <2>5. ASSUME NEW u \in Tasks, NEW o \in task'[u].above
        PROVE  task'[o].above \subseteq task'[u].above
    <3>1. CASE u = t
      BY <2>1, <2>4, <2>5, <3>1
    <3>2. CASE u # t
      BY <2>1, <2>3, <2>5, <3>2 DEF Transitive
    <3> QED BY <3>1, <3>2
  <2> QED BY <2>5 DEF Transitive
<1>4. ASSUME NEW t \in Tasks, Claim(t)
      PROVE  \A u \in Tasks : task'[u].above = task[u].above
  <2>1. task' = [task EXCEPT ![t] = task'[t]] /\ task'[t].above = task[t].above
    BY <1>1, <1>4, ClaimRow
  <2> QED BY <1>1, <2>1
<1>5. ASSUME NEW t \in Tasks, Turns(t)
      PROVE  \A u \in Tasks : task'[u].above = task[u].above
  BY <1>1, <1>5 DEF Turns, Turn
<1> QED BY <1>2, <1>3, <1>4, <1>5, TurnKinds
        DEF Admits, Claims, RInv, Snapshots

\* The walk keeps what it has done.
LEMMA WalkingNext ==
  ASSUME IInv, RInv, Transitive, Walking, Next
  PROVE  Walking'
<1>1. CASE line'.op \notin {"request_cancel", "cancel_task"}
  BY <1>1 DEF Walking
<1>2. task \in [Tasks -> Checkpoint] /\ LineInv /\ \A w \in workers : w.task \in Tasks
  BY DEF IInv, Tables, WorkersInv, Worker
<1>3. CASE UNCHANGED <<task, line>>
  BY <1>3 DEF Walking, Live
<1>4. ASSUME NEW t \in Tasks, UNCHANGED task,
             line'.task = t, line'.todo = LiveBelow(t)
      PROVE  Walking'
  <2>1. ASSUME NEW c \in LiveBelow(t) \union {t}, NEW d \in Tasks,
               c \in task[d].above, Live(task[d])
        PROVE  d \in LiveBelow(t)
    BY <2>1 DEF LiveBelow, Transitive
  <2>2. LiveBelow(t) \subseteq Tasks
    BY DEF LiveBelow
  <2> QED BY <1>4, <2>1, <2>2 DEF Walking, Live
<1>5. ASSUME NEW t \in Tasks, RequestCancel(t) \/ CancelTask(t)
      PROVE  Walking'
  BY <1>4, <1>5 DEF RequestCancel, CancelTask, Busy
<1>6. ASSUME NEW w \in workers, WorkerCancel(w)
      PROVE  Walking'
  BY <1>2, <1>4, <1>6 DEF WorkerCancel, Busy
<1>7. ASSUME NEW c \in Tasks, CancelChild(c), line.op \in {"request_cancel", "cancel_task"}
      PROVE  Walking'
  <2>1. line'.op = line.op /\ line'.task = line.task /\ line'.todo = line.todo \ {c}
    BY <1>2, <1>7 DEF LineInv, Line, CancelChild
  <2>2. /\ task'[c].cancel
        /\ \A d \in Tasks : d # c => task'[d] = task[d]
        /\ \A d \in Tasks : task'[d].above = task[d].above
    BY <1>7, StopOne DEF RInv
  <2> QED BY <1>7, <2>1, <2>2 DEF Walking, Live
<1>8. CASE Crash
  BY <1>1, <1>8 DEF Crash, Idle
<1>9. ASSUME NEW p \in Pids, Restart(p)
      PROVE  Walking'
  BY <1>1, <1>9 DEF Restart, Busy
<1> QED BY <1>1, <1>2, <1>3, <1>5, <1>6, <1>7, <1>8, <1>9, OnTheLine, FromIdle, OnePerLine

\* No task is barred by this step.
Unbarred == \A t \in Tasks : task'[t].cancel => task[t].cancel

\* A commit that leaves the barrier of its task alone.
LEMMA UnbarredOne ==
  ASSUME task \in [Tasks -> Checkpoint], NEW t \in Tasks, NEW n,
         task' = [task EXCEPT ![t] = n], n.cancel => task[t].cancel
  PROVE  Unbarred
BY DEF Unbarred

\* Only the walk of a Stop sets a barrier.
LEMMA BarKinds ==
  ASSUME IInv, Store, Next
  PROVE  Unbarred \/ (\E c \in Tasks : CancelChild(c)) \/ CancelRoot
<1>1. /\ task \in [Tasks -> Checkpoint] /\ LineInv
      /\ \A w \in workers : w.task \in Tasks
  BY DEF IInv, Tables, WorkersInv, Worker
<1>2. ASSUME UNCHANGED task
      PROVE  Unbarred
  BY <1>2 DEF Unbarred
<1>3. ASSUME NEW t \in Tasks
      PROVE  /\ FailedState(task[t]).cancel = task[t].cancel
             /\ ClaimedState(task[t]).cancel = task[t].cancel
             /\ UnclaimedState(task[t]).cancel = task[t].cancel
             /\ RecoverableState(task[t]).cancel = task[t].cancel
             /\ JoinedState(task[t]).cancel = task[t].cancel
             /\ CompletionNext(t).cancel = task[t].cancel
  <2>1. task[t] \in Checkpoint
    BY <1>1
  <2>2. /\ FailedState(task[t]).cancel = task[t].cancel
        /\ ClaimedState(task[t]).cancel = task[t].cancel
        /\ UnclaimedState(task[t]).cancel = task[t].cancel
        /\ RecoverableState(task[t]).cancel = task[t].cancel
        /\ JoinedState(task[t]).cancel = task[t].cancel
    BY <2>1 DEF FailedState, ClaimedState, UnclaimedState, RecoverableState,
                JoinedState, Released, Checkpoint
  <2>3. CompletionNext(t).cancel = task[t].cancel
    BY <2>1 DEF CompletionNext, Checkpoint
  <2> QED BY <2>2, <2>3
<1>4. ASSUME NEW t \in Tasks, NEW x,
             \/ FailTask(t, x)
             \/ Commit(t, ClaimedState(task[t]), x)
             \/ Commit(t, UnclaimedState(task[t]), x)
             \/ Commit(t, RecoverableState(task[t]), x)
             \/ Commit(t, JoinedState(task[t]), x)
             \/ AdvanceCompletion(t, x)
      PROVE  Unbarred
  <2>1. \E n : task' = [task EXCEPT ![t] = n] /\ n.cancel = task[t].cancel
    BY <1>3, <1>4 DEF Commit, FailTask, AdvanceCompletion
  <2> QED BY <1>1, <2>1, UnbarredOne
<1>5. ASSUME NEW t \in Tasks, CancelTerminal(t), task[t].cancel
      PROVE  Unbarred
  BY <1>1, <1>5, UnbarredOne DEF CancelTerminal
<1>6. ASSUME NEW t \in Tasks, NEW p \in OwnerChoice[t], NEW b \in Abandons, Admit(t, p, b)
      PROVE  Unbarred
  BY <1>1, <1>6 DEF Admit, Absent, Unbarred
<1>7. ASSUME NEW t \in Tasks,
             \/ Claim(t) \/ SchedulerFail(t) \/ Requeue(t)
             \/ \E w \in workers : Unclaim(t, w)
      PROVE  Unbarred
  BY <1>4, <1>7 DEF Claim, SchedulerFail, Requeue, Unclaim, RecoverableState
<1>8. ASSUME NEW t \in Tasks, JoinStep(t)
      PROVE  Unbarred
  BY <1>2, <1>4, <1>8 DEF JoinStep
<1>9. ASSUME NEW t \in Tasks, FinalizeStep(t)
      PROVE  Unbarred
  BY <1>2, <1>4, <1>5, <1>9 DEF FinalizeStep
<1>10. ASSUME NEW t \in Tasks, RecoverStep(t)
       PROVE  Unbarred
  BY <1>2, <1>4, <1>5, <1>10 DEF RecoverStep
<1>11. CASE CompleteStep
  BY <1>1, <1>2, <1>4, <1>11 DEF LineInv, CompleteStep
<1>12. ASSUME NEW w \in workers, WorkerStart(w)
       PROVE  Unbarred
  <2> DEFINE n == [task[w.task] EXCEPT !.phase = "running", !.status = "running"]
  <2>1. UNCHANGED task \/ task' = [task EXCEPT ![w.task] = n]
    BY <1>12 DEF WorkerStart, Commit
  <2>2. n.cancel = task[w.task].cancel
    BY <1>1 DEF Checkpoint
  <2> HIDE DEF n
  <2> QED BY <1>1, <1>2, <2>1, <2>2, UnbarredOne
<1>13. ASSUME NEW w \in workers, WorkerFail(w) \/ WorkerWaitCancelled(w)
       PROVE  Unbarred
  BY <1>1, <1>4, <1>5, <1>13 DEF WorkerFail, WorkerWaitCancelled
<1>14. ASSUME NEW w \in workers, NEW answered \in Parks, WorkerPark(w, answered)
       PROVE  Unbarred
  <2> DEFINE n == Released([task[w.task] EXCEPT !.join = FALSE, !.policy = "allSettled",
                     !.status = IF answered THEN "pending" ELSE "waiting"])
  <2>1. task' = [task EXCEPT ![w.task] = n]
    BY <1>14 DEF WorkerPark, Commit
  <2>2. n.cancel = task[w.task].cancel
    BY <1>1 DEF Released, Checkpoint
  <2> HIDE DEF n
  <2> QED BY <1>1, <2>1, <2>2, UnbarredOne
<1>15. ASSUME NEW w \in workers, NEW list \in WaitLists, NEW policy \in JoinPolicies,
              WorkerJoin(w, list, policy)
       PROVE  Unbarred
  <2> DEFINE n == Released([task[w.task] EXCEPT !.on = list, !.policy = policy,
                                         !.join = TRUE, !.status = "waiting"])
  <2>1. task' = [task EXCEPT ![w.task] = n]
    BY <1>15 DEF WorkerJoin, Commit
  <2>2. n.cancel = task[w.task].cancel
    BY <1>1 DEF Released, Checkpoint
  <2> HIDE DEF n
  <2> QED BY <1>1, <2>1, <2>2, UnbarredOne
<1>16. ASSUME NEW w \in workers, NEW intents, NEW settlements, NEW op,
              WorkerRecord(w, intents, settlements, op)
       PROVE  Unbarred
  <2> DEFINE n == [task[w.task] EXCEPT !.pend = (@ \union intents) \ settlements, !.op = op]
  <2>1. task' = [task EXCEPT ![w.task] = n]
    BY <1>16 DEF WorkerRecord, Commit
  <2>2. n.cancel = task[w.task].cancel
    BY <1>1 DEF Checkpoint
  <2> HIDE DEF n
  <2> QED BY <1>1, <2>1, <2>2, UnbarredOne
<1>17. CASE \/ \E t \in Tasks : RequestCancel(t) \/ CancelTask(t)
            \/ \E w \in workers : WorkerCancel(w) \/ WorkerComplete(w) \/ WorkerExit(w)
            \/ CancelConflict \/ ReconcileBegin \/ FinalizeBegin \/ Crash
            \/ RecoverDone \/ \E p \in Pids : Restart(p)
  BY <1>2, <1>17, NoCommit
<1> QED BY <1>6, <1>7, <1>8, <1>9, <1>10, <1>11, <1>12, <1>13, <1>14, <1>15, <1>16,
           <1>17 DEF Next

(* request_cancel and cancel_task commit from the leaves of the ownership   *)
(* tree: a task gets its barrier only when all that is live below it, at    *)
(* any depth, has one, so a walk that dies or conflicts half way leaves no  *)
(* barred task over a task that a repeated Stop would not reach.            *)
THEOREM BarrierClimbs == Spec => BarrierFromBelow
<1> DEFINE Below ==
      \A t \in Tasks :
        ~task[t].cancel /\ task'[t].cancel =>
          \A d \in Tasks : t \in task'[d].above /\ Live(task'[d]) => task'[d].cancel
<1>1. ASSUME IInv, Store, RInv, Walking, Next, NEW t \in Tasks,
             ~task[t].cancel, task'[t].cancel, NEW d \in Tasks,
             t \in task'[d].above, Live(task'[d])
      PROVE  task'[d].cancel
  <2>1. /\ Tables /\ Rows /\ LineInv /\ Acyclic /\ Placement
        /\ \A u \in Tasks : Placed(task[u])
    BY <1>1 DEF IInv, RInv, Placement, Snapshots
  <2>2. ASSUME NEW c \in Tasks, CancelChild(c)
        PROVE  task'[d].cancel
    <3>1. /\ task'[c].cancel
          /\ \A u \in Tasks : u # c => task'[u] = task[u]
          /\ \A u \in Tasks : task'[u].above = task[u].above
      BY <1>1, <2>1, <2>2, StopOne
    <3>2. /\ c \in line.todo /\ c \notin task[c].above
          /\ \A u \in line.todo : c \notin task[u].above
          /\ line.op \in {"request_cancel", "cancel_task"}
      BY <2>1, <2>2 DEF CancelChild, Cancelling, Acyclic
    <3> QED BY <1>1, <3>1, <3>2 DEF Walking
  <2>3. CASE CancelRoot
    <3> DEFINE c == line.task
    <3>1. /\ c \in Tasks /\ line.todo = {}
          /\ RequestCommit(c) \/ CloseCommit(c)
          /\ line.op \in {"request_cancel", "cancel_task"}
      BY <2>1, <2>3 DEF CancelRoot, Cancelling, LineInv
    <3>2. Turns(c)
      BY <2>1, <3>1, TurnStop
    <3>3. /\ \A u \in Tasks : u # c => task'[u] = task[u]
          /\ \A u \in Tasks : task'[u].above = task[u].above
          /\ c \notin task[c].above
      BY <2>1, <3>1, <3>2 DEF Turns, Turn, Tables, Acyclic
    <3> QED BY <1>1, <3>1, <3>3 DEF Walking
  <2> QED BY <1>1, <2>2, <2>3, BarKinds DEF Unbarred
<1>2. IInv /\ Store /\ RInv /\ Walking /\ [Next]_vars => [Below]_vars
  BY <1>1
<1>3. Init => Transitive /\ Walking
  <2>1. ASSUME Init
        PROVE  (\A t \in Tasks : task[t].above = {}) /\ line.op = "idle"
    BY <2>1 DEF Init, Absent, Idle
  <2> QED BY <2>1 DEF Transitive, Walking
<1>4. ASSUME IInv, IInv', Store, RInv, Transitive, Walking, [Next]_vars
      PROVE  Transitive' /\ Walking'
  <2>1. CASE UNCHANGED vars
    BY <1>4, <2>1 DEF vars, Transitive, Walking, Live
  <2>2. CASE Next
    BY <1>4, <2>2, TransitiveNext, WalkingNext DEF IInv
  <2> QED BY <1>4, <2>1, <2>2
<1> QED BY <1>2, <1>3, <1>4, PlacesHold, PTL DEF Spec, BarrierFromBelow

-----------------------------------------------------------------------------
(* The finalization pass.                                                  *)

(* The join pass can fail or wake every task that wait_task parked, in      *)
(* whatever process it was parked: a parked task holds no attempt, and the  *)
(* session presents none.                                                   *)
THEOREM JoinsRun == Spec => []JoinsRunnable
<1>1. ASSUME IInv, Store, RInv, NEW t \in Tasks
      PROVE  ~JoinConflict(t)
  <2> DEFINE k == task[t]
             n == JoinedState(k)
  <2>1. SUFFICES ASSUME JoinReady(t)
                 PROVE  /\ CanFail(t, UnboundToken(k))
                        /\ ValidExistingTask(k, n, UnboundToken(k))
    BY DEF JoinConflict
  <2>2. k \in Checkpoint /\ WellFormed(k) /\ Owned(k) /\ Placed(k)
    BY <1>1 DEF IInv, Tables, Rows, RowInv, Store, RInv, Placement
  <2>3. k.status = "waiting" /\ ~k.cancel /\ k.token = 0
    BY <2>1, <2>2 DEF JoinReady, Owned
  <2>4. UnboundToken(k) = k.token
    BY <2>3 DEF UnboundToken
  <2>5. CanFail(t, UnboundToken(k))
    BY <1>1, <2>2, <2>3, <2>4, EndAccepted DEF Live
  <2>6. /\ n.phase = k.phase /\ n.status = "pending" /\ n.token = k.token
        /\ n.owner = k.owner /\ n.pid = k.pid /\ n.attempt = k.attempt
        /\ n.parent = k.parent /\ n.abandon = k.abandon
    BY <2>2 DEF JoinedState, Checkpoint
  <2>7. k.phase \in {"accepted", "dispatching", "running"}
    BY <2>2, <2>3 DEF Placed
  <2> HIDE DEF n
  <2>8. ValidExecutionAttempt(k, n, k.token)
    BY <2>6 DEF ValidExecutionAttempt
  <2>9. /\ ValidTaskTransition(k.phase, n.phase)
        /\ ValidTaskStatusTransition(k.status, n.status)
    BY <2>3, <2>6 DEF ValidTaskTransition, ValidTaskStatusTransition, StatusTransitions
  <2>10. WellFormed(n)
    BY <2>2, <2>6, <2>7 DEF WellFormed, Terminal
  <2>11. ValidExistingTask(k, n, k.token)
    BY <2>3, <2>6, <2>7, <2>8, <2>9, <2>10 DEF ValidExistingTask
  <2> QED BY <2>4, <2>5, <2>11
<1>2. IInv /\ Store /\ RInv => JoinsRunnable
  BY <1>1 DEF JoinsRunnable
<1> QED BY <1>2, PlacesHold, PTL

(* The process that holds an answer can publish it, or close it behind the  *)
(* barrier, once the owned work has ended: it still owns the attempt, and   *)
(* _commit presents it.                                                     *)
THEOREM HeldPublishes == Spec => []HeldPublishable
<1>1. ASSUME IInv, Store, RInv, NEW t \in Tasks,
             HasHeldAnswer(t), LiveBelow(t) = {}, task[t].owner = proc.epoch
      PROVE  ~FinalizeConflict(t)
  <2> DEFINE k == task[t]
             n == CompletionNext(t)
  <2>1. /\ k \in Checkpoint /\ sub[t] \in SubmissionStatuses /\ WellFormed(k)
        /\ Placed(k) /\ Told(k, sub[t], answers[t])
    BY <1>1 DEF IInv, Tables, Rows, RowInv, Store, RInv, Placement
  <2>2. k.status = "completing" /\ k.phase = "completion_pending"
    BY <1>1, <2>1 DEF HasHeldAnswer, Placed
  <2>3. UnboundToken(k) = k.token
    BY <1>1, <2>2 DEF UnboundToken, Settled, Terminal
  <2>4. CanCancelTerminal(t)
    BY <1>1, <2>1, <2>2, EndAccepted DEF Live
  <2>5. ASSUME ~k.cancel
        PROVE  CanAdvance(t, UnboundToken(k))
    <3>1. n = [k EXCEPT !.phase = "completed", !.status = "completed"]
      BY <1>1, <2>2 DEF CompletionNext
    <3>2. /\ n.phase = "completed" /\ n.status = "completed" /\ n.token = k.token
          /\ n.owner = k.owner /\ n.pid = k.pid /\ n.attempt = k.attempt
          /\ n.parent = k.parent /\ n.abandon = k.abandon
      BY <2>1, <3>1 DEF Checkpoint
    <3>3. CompletionOutcome(t) = "done"
      BY <3>2 DEF CompletionOutcome
    <3> HIDE DEF n
    <3>4. ValidExecutionAttempt(k, n, k.token)
      BY <3>2 DEF ValidExecutionAttempt
    <3>5. /\ ValidTaskTransition(k.phase, n.phase)
          /\ ValidTaskStatusTransition(k.status, n.status)
      BY <2>2, <3>2 DEF ValidTaskTransition, ValidTaskStatusTransition,
                        PhaseTransitions, StatusTransitions
    <3>6. WellFormed(n)
      BY <2>1, <3>2 DEF WellFormed, Terminal
    <3>7. ValidExistingTask(k, n, k.token)
      BY <2>2, <2>5, <3>2, <3>4, <3>5, <3>6 DEF ValidExistingTask
    <3>8. ValidSubmissionTransition(sub[t], "done")
      BY <2>1, <2>2 DEF Told, SubmissionStatuses, ValidSubmissionTransition
    <3> QED BY <2>3, <2>5, <3>3, <3>7, <3>8 DEF CanAdvance, n
  <2> QED BY <1>1, <2>4, <2>5 DEF FinalizeConflict
<1>2. IInv /\ Store /\ RInv => HeldPublishable
  BY <1>1 DEF HeldPublishable
<1> QED BY <1>2, PlacesHold, PTL

(* A joined task goes back to the queue only when all it waits on is        *)
(* terminal, or behind the barrier.                                         *)
THEOREM JoinsSound == Spec => JoinSound
<1> DEFINE Woken(t) ==
      task[t].status = "waiting" /\ task[t].join /\ task'[t].status = "pending" =>
        task[t].cancel \/ task'[t].cancel \/ JoinDone(t)
<1>1. ASSUME IInv, Store, RInv, Next, NEW u \in Tasks, task[u].status = "waiting",
             task[u].join, task'[u].status = "pending", ~task'[u].cancel
      PROVE  JoinDone(u)
  <2>1. /\ task \in [Tasks -> Checkpoint] /\ Tables /\ Rows /\ LineInv
        /\ \A t \in Tasks : Placed(task[t])
        /\ \A w \in workers : w.task \in Tasks /\ w.token # 0 /\ Bound(w)
    BY <1>1 DEF IInv, Tables, RInv, Placement, WorkersInv, Worker
  <2>2. ASSUME NEW t \in Tasks, task' = [task EXCEPT ![t] = task'[t]]
        PROVE  t = u
    BY <1>1, <2>1, <2>2
  <2>3. ASSUME NEW t \in Tasks, NEW p \in OwnerChoice[t], NEW b \in Abandons,
               Admit(t, p, b)
        PROVE  FALSE
    <3>1. u # t => task'[u] = task[u]
      BY <2>1, <2>3 DEF Admit
    <3>2. task[t].status # "waiting"
      BY <2>1, <2>3 DEF Admit, Admitted, Rows, RowInv
    <3> QED BY <1>1, <3>1, <3>2
  <2>4. ASSUME NEW t \in Tasks, Claim(t)
        PROVE  FALSE
    <3>1. task' = [task EXCEPT ![t] = task'[t]] /\ task[t].status = "pending"
      BY <1>1, <2>1, <2>4, ClaimRow
    <3> QED BY <1>1, <2>2, <3>1
  <2>5. ASSUME NEW t \in Tasks, NEW w \in workers, Unclaim(t, w)
        PROVE  FALSE
    <3>1. task[t].status = "running" /\ \A v \in Tasks : v # t => task'[v] = task[v]
      BY <2>1, <2>5 DEF Unclaim, Commit
    <3> QED BY <1>1, <3>1
  <2>6. ASSUME NEW t \in Tasks, NEW x, FailTask(t, x)
        PROVE  FALSE
    <3>1. /\ task'[t] = FailedState(task[t])
          /\ \A v \in Tasks : v # t => task'[v] = task[v]
      BY <2>1, <2>6 DEF FailTask, Commit
    <3>2. FailedState(task[t]).status = "failed"
      BY <2>1 DEF FailedState, Released, Checkpoint
    <3> QED BY <1>1, <3>1, <3>2
  <2>7. ASSUME NEW t \in Tasks, Requeue(t)
        PROVE  FALSE
    <3>1. ~task[t].join /\ \A v \in Tasks : v # t => task'[v] = task[v]
      BY <2>1, <2>7 DEF Requeue, Commit
    <3> QED BY <1>1, <3>1
  <2>8. ASSUME NEW t \in Tasks, Turns(t), task'[t].cancel \/ task[t].status # "waiting"
        PROVE  FALSE
    BY <1>1, <2>2, <2>8 DEF Turns
  <2>9. ASSUME NEW w \in workers,
               \/ \E answered \in Parks : WorkerPark(w, answered)
               \/ \E list \in WaitLists, policy \in JoinPolicies : WorkerJoin(w, list, policy)
        PROVE  FALSE
    BY <2>1, <2>8, <2>9, TurnPark
  <2>10. ASSUME NEW w \in workers, WorkerStart(w)
         PROVE  FALSE
    BY <1>1, <2>1, <2>8, <2>10, TurnStart
  <2>11. ASSUME NEW w \in workers, WorkerWaitCancelled(w)
         PROVE  FALSE
    <3>1. task[w.task].status \in {"running", "pending"}
      BY <2>11 DEF WorkerWaitCancelled, CanWait
    <3>2. \A v \in Tasks : v # w.task => task'[v] = task[v]
      BY <2>1, <2>11 DEF WorkerWaitCancelled, Commit, CancelTerminal
    <3> QED BY <1>1, <3>1, <3>2
  <2>12. ASSUME NEW w \in workers, NEW intents \in SUBSET Effects,
                NEW settlements \in SUBSET Effects, NEW op \in OpSteps,
                WorkerRecord(w, intents, settlements, op)
         PROVE  FALSE
    <3>1. Turns(w.task) /\ task'[w.task].status = task[w.task].status
      BY <2>1, <2>12, TurnRecord
    <3> QED BY <1>1, <2>1, <2>2, <3>1 DEF Turns
  <2>13. ASSUME NEW t \in Tasks, Advances(t)
         PROVE  FALSE
    <3>1. PICK x : AdvanceCompletion(t, x)
      BY <2>13 DEF Advances
    <3>2. task' = [task EXCEPT ![t] = CompletionNext(t)]
      BY <3>1 DEF AdvanceCompletion
    <3>3. CompletionNext(t).status # "pending"
      BY <2>1, CompletionNextFields
    <3> QED BY <1>1, <2>1, <3>2, <3>3
  <2>14. ASSUME NEW t \in Tasks, CancelTerminal(t) \/ RequestCommit(t) \/ CloseCommit(t)
         PROVE  FALSE
    BY <2>1, <2>8, <2>14, TurnCancel, TurnStop
  <2>15. ASSUME NEW t \in Tasks, RecoverStep(t)
         PROVE  FALSE
    <3>1. task[t].status = "running"
      BY <1>1, <2>15 DEF RecoverStep, RInv, Snapshots, Recovering
    <3> QED BY <1>1, <2>1, <2>15, <3>1, RecoverOne
  <2>16. ASSUME NEW t \in Tasks, JoinStep(t)
         PROVE  JoinDone(u)
    <3>1. t = u
      BY <1>1, <2>1, <2>16 DEF JoinStep, FailTask, Commit
    <3> QED BY <1>1, <2>6, <2>16, <3>1 DEF JoinStep
  <2>17. task' # task
    BY <1>1
  <2>18. ASSUME NEW t \in Tasks, CancelChild(t) \/ FinalizeStep(t) \/ SchedulerFail(t)
         PROVE  FALSE
    BY <2>6, <2>13, <2>14, <2>17, <2>18
       DEF CancelChild, FinalizeStep, SchedulerFail, Advances
  <2>19. ASSUME NEW w \in workers, WorkerFail(w)
         PROVE  FALSE
    BY <2>1, <2>6, <2>19 DEF WorkerFail
  <2>20. ASSUME CompleteStep \/ CancelRoot
         PROVE  FALSE
    <3>1. line.task \in Tasks
      BY <2>1, <2>20 DEF LineInv, CompleteStep, CancelRoot, Cancelling
    <3> QED BY <2>13, <2>14, <2>17, <2>20, <3>1 DEF CompleteStep, CancelRoot, Advances
  <2> QED BY <1>1, <2>3, <2>4, <2>5, <2>7, <2>9, <2>10, <2>11, <2>12, <2>15, <2>16,
             <2>17, <2>18, <2>19, <2>20, NoCommit DEF Next
<1>2. ASSUME IInv, Store, RInv, [Next]_vars
      PROVE  [\A t \in Tasks : Woken(t)]_vars
  BY <1>1, <1>2
<1> QED BY <1>2, PlacesHold, PTL DEF Spec, JoinSound

-----------------------------------------------------------------------------
(* Joins cannot wait in a circle.                                          *)

\* No set of tasks exists each of which names a member of the set, whatever
\* their statuses are: wait_task follows waiting_on without looking at them.
NoRing ==
  \A S \in (SUBSET Tasks) \ {{}} :
    \E t \in S : ~\E d \in S : InList(d, task[t].on)

WaitsShort == \A t \in Tasks : Len(task[t].on) <= 1

\* f is the walk of the cycle check from d, up to step n.
Follows(f, d, n) ==
  f = [i \in 0 .. n |-> IF i = 0 THEN d
         ELSE IF task[f[i-1]].on = <<>> THEN f[i-1]
         ELSE Head(task[f[i-1]].on)]

Walk(d) == CHOOSE f : Follows(f, d, Cardinality(Tasks))

\* The walk that wait_task looks at.
LEMMA WalkDef ==
  ASSUME NEW t, NEW d
  PROVE  WaitCycle(t, d) <=>
           \E i \in 0 .. Cardinality(Tasks) : InList(t, task[Walk(d)[i]].on)
BY DEF WaitCycle, Walk, Follows

\* A set of numbers has a least one.
LEMMA LeastOf ==
  ASSUME NEW S \in SUBSET Nat, S # {}
  PROVE  \E x \in S : \A y \in S : x <= y
<1> DEFINE R == OpToRel(<, Nat)
<1>1. IsWellFoundedOn(R, Nat)
  BY NatLessThanWellFounded
<1>2. \A x, y \in Nat : x < y => <<x, y>> \in R
  BY DEF OpToRel
<1> HIDE DEF R
<1>3. \E x \in S : \A y \in S : ~ (<<y, x>> \in R)
  BY <1>1, WFMin
<1>4. \E x \in S : \A y \in S : ~ (y < x)
  BY <1>2, <1>3, Zenon
<1> QED
  BY <1>4

\* The walk is defined at every length.
LEMMA WalkExists ==
  ASSUME NEW d, NEW n \in Nat
  PROVE  \E f : Follows(f, d, n)
<1> DEFINE Then(x) == IF task[x].on = <<>> THEN x ELSE Head(task[x].on)
           Short == {m \in Nat : ~\E f : Follows(f, d, m)}
<1>1. SUFFICES ASSUME Short # {}
               PROVE  FALSE
  OBVIOUS
<1>2. PICK m \in Short : \A y \in Short : m <= y
  <2>1. Short \subseteq Nat
    OBVIOUS
  <2> HIDE DEF Short
  <2> QED BY <1>1, <2>1, LeastOf
<1>3. m \in Nat /\ ~\E f : Follows(f, d, m)
  OBVIOUS
<1>4. CASE m = 0
  <2> DEFINE g == [i \in 0 .. 0 |-> d]
  <2>1. g = [i \in 0 .. 0 |-> IF i = 0 THEN d ELSE Then(g[i-1])]
    OBVIOUS
  <2>2. Follows(g, d, m)
    BY <1>4, <2>1 DEF Follows
  <2> QED BY <1>3, <2>2
<1>5. CASE m # 0
  <2>1. m - 1 \in Nat /\ m - 1 \notin Short
    BY <1>2, <1>3, <1>5
  <2>2. PICK f : Follows(f, d, m - 1)
    BY <2>1
  <2>3. /\ f = [i \in 0 .. m - 1 |-> f[i]]
        /\ \A i \in 0 .. m - 1 : f[i] = IF i = 0 THEN d ELSE Then(f[i-1])
    BY <2>2, Zenon DEF Follows
  <2> DEFINE g == [i \in 0 .. m |-> IF i < m THEN f[i] ELSE Then(f[m-1])]
  <2>4. \A i \in 0 .. m : g[i] = IF i = 0 THEN d ELSE Then(g[i-1])
    <3> HIDE DEF Then
    <3>1. ASSUME NEW i \in 0 .. m
          PROVE  g[i] = IF i = 0 THEN d ELSE Then(g[i-1])
      <4>1. CASE i = 0
        <5>1. 0 \in 0 .. m - 1 /\ 0 \in 0 .. m /\ 0 < m
          BY <1>3, <1>5
        <5>2. g[0] = f[0]
          BY <5>1
        <5>3. f[0] = d
          BY <2>3, <5>1
        <5> QED BY <4>1, <5>2, <5>3
      <4>2. CASE i # 0 /\ i < m
        <5>1. i \in 0 .. m - 1 /\ i - 1 \in 0 .. m /\ i - 1 < m
          BY <1>3, <4>2
        <5>2. g[i] = f[i] /\ g[i-1] = f[i-1]
          BY <4>2, <5>1
        <5> QED BY <2>3, <4>2, <5>1, <5>2
      <4>3. CASE i = m
        <5>1. m - 1 \in 0 .. m /\ m - 1 < m
          BY <1>3, <1>5
        <5>2. g[m] = Then(f[m-1]) /\ g[m-1] = f[m-1]
          BY <5>1
        <5> QED BY <1>5, <4>3, <5>2
      <4> QED BY <1>3, <4>1, <4>2, <4>3
    <3> QED BY <3>1
  <2>5. g = [i \in 0 .. m |-> IF i = 0 THEN d ELSE Then(g[i-1])]
    <3>1. g = [i \in 0 .. m |-> g[i]]
      OBVIOUS
    <3> HIDE DEF g, Then
    <3> QED BY <2>4, <3>1
  <2>6. Follows(g, d, m)
    <3> HIDE DEF g
    <3> QED BY <2>5 DEF Follows
  <2> QED BY <1>3, <2>6
<1> QED BY <1>4, <1>5

\* The steps of the walk.
LEMMA WalkSteps ==
  ASSUME IsFiniteSet(Tasks), NEW d
  PROVE  LET f == Walk(d)
             N == Cardinality(Tasks)
         IN /\ f = [i \in 0 .. N |-> f[i]]
            /\ f[0] = d
            /\ \A i \in 1 .. N : f[i] = IF task[f[i-1]].on = <<>> THEN f[i-1]
                                        ELSE Head(task[f[i-1]].on)
<1> DEFINE f == Walk(d)
           N == Cardinality(Tasks)
<1>1. N \in Nat
  BY FS_CardinalityType
<1>2. Follows(f, d, N)
  BY <1>1, WalkExists, Zenon DEF Walk
<1> HIDE DEF f, N
<1>3. /\ f = [i \in 0 .. N |-> f[i]]
      /\ \A i \in 0 .. N : f[i] = IF i = 0 THEN d
           ELSE IF task[f[i-1]].on = <<>> THEN f[i-1] ELSE Head(task[f[i-1]].on)
  BY <1>2, Zenon DEF Follows
<1>4. 0 \in 0 .. N /\ \A i \in 1 .. N : i \in 0 .. N /\ i # 0
  BY <1>1
<1>5. /\ f[0] = d
      /\ \A i \in 1 .. N : f[i] = IF task[f[i-1]].on = <<>> THEN f[i-1]
                                  ELSE Head(task[f[i-1]].on)
  BY <1>3, <1>4
<1> QED BY <1>3, <1>5 DEF f, N

\* In a list of at most one dependency the first is the only one.
LEMMA OnlyOne ==
  ASSUME NEW s \in Seq(Tasks), Len(s) <= 1, NEW e, InList(e, s)
  PROVE  s # <<>> /\ Head(s) = e
BY DEF InList

\* The first dependency is one of the list.
LEMMA FirstOf ==
  ASSUME NEW s \in Seq(Tasks), s # <<>>
  PROVE  InList(Head(s), s)
BY DEF InList

\* A walk that does not meet t goes round inside any set that is closed but
\* for t: by the pigeonhole principle it returns to a task it has passed.
LEMMA WalkReturns ==
  ASSUME IsFiniteSet(Tasks), task \in [Tasks -> Checkpoint], WaitsShort, NoRing,
         NEW t \in Tasks, NEW d \in Tasks, d # t, ~WaitCycle(t, d),
         NEW S \in SUBSET Tasks, d \in S,
         \A u \in S \ {t} : \E e \in S : InList(e, task[u].on)
  PROVE  FALSE
<1> DEFINE f == Walk(d)
           N == Cardinality(Tasks)
<1>1. N \in Nat
  BY FS_CardinalityType
<1>2. /\ f = [i \in 0 .. N |-> f[i]]
      /\ f[0] = d
      /\ \A i \in 1 .. N : f[i] = IF task[f[i-1]].on = <<>> THEN f[i-1]
                                  ELSE Head(task[f[i-1]].on)
  BY WalkSteps
<1>3. \A i \in 0 .. N : ~InList(t, task[f[i]].on)
  BY WalkDef
<1> HIDE DEF f, N
<1>4. ASSUME NEW u \in S \ {t}
      PROVE  /\ task[u].on # <<>> /\ Head(task[u].on) \in S
             /\ InList(Head(task[u].on), task[u].on)
  <2>1. PICK e \in S : InList(e, task[u].on)
    BY <1>4
  <2>2. task[u].on \in Seq(Tasks) /\ Len(task[u].on) <= 1
    BY DEF WaitsShort, Checkpoint
  <2> QED BY <2>1, <2>2, OnlyOne
<1>5. \A i \in 0 .. N : f[i] \in S \ {t}
  <2> DEFINE Out == {i \in 0 .. N : f[i] \notin S \ {t}}
  <2>1. SUFFICES ASSUME Out # {}
                 PROVE  FALSE
    OBVIOUS
  <2>2. PICK m \in Out : \A y \in Out : m <= y
    <3>1. Out \subseteq Nat
      BY <1>1
    <3> HIDE DEF Out
    <3> QED BY <2>1, <3>1, LeastOf
  <2>3. m \in 0 .. N /\ f[m] \notin S \ {t}
    OBVIOUS
  <2>4. m # 0
    BY <1>2, <2>3
  <2>5. m - 1 \in 0 .. N /\ m \in 1 .. N /\ m - 1 \notin Out
    BY <1>1, <2>2, <2>3, <2>4
  <2>6. f[m-1] \in S \ {t}
    BY <2>5
  <2>7. f[m] = Head(task[f[m-1]].on) /\ f[m] \in S /\ InList(f[m], task[f[m-1]].on)
    BY <1>2, <1>4, <2>5, <2>6
  <2>8. f[m] # t
    BY <1>3, <2>5, <2>7
  <2> QED BY <2>3, <2>7, <2>8
<1>6. \E x, y \in 0 .. N : x # y /\ f[x] = f[y]
  <2>1. f \in [0 .. N -> Tasks]
    BY <1>2, <1>5
  <2>2. IsFiniteSet(0 .. N) /\ Cardinality(0 .. N) = N + 1
    BY <1>1, FS_Interval
  <2>3. Cardinality(Tasks) < Cardinality(0 .. N)
    BY <1>1, <2>2 DEF N
  <2> QED BY <2>1, <2>2, <2>3, FS_PigeonHole
<1>7. PICK x \in 0 .. N, y \in 0 .. N : x < y /\ f[x] = f[y]
  BY <1>1, <1>6
<1> DEFINE C == {f[m] : m \in x .. (y - 1)}
<1>8. C \in (SUBSET Tasks) \ {{}}
  <2>1. x \in x .. (y - 1) /\ x .. (y - 1) \subseteq 0 .. N
    BY <1>1, <1>7
  <2> QED BY <1>5, <2>1
<1>9. PICK u \in C : ~\E e \in C : InList(e, task[u].on)
  <2> HIDE DEF C
  <2> QED BY <1>8 DEF NoRing
<1>10. PICK m \in x .. (y - 1) : u = f[m]
  OBVIOUS
<1>11. m \in 0 .. N /\ m + 1 \in 1 .. N /\ (m + 1) - 1 = m
  BY <1>1, <1>7, <1>10
<1>12. InList(f[m+1], task[u].on)
  <2>1. f[m+1] = IF task[f[m]].on = <<>> THEN f[m] ELSE Head(task[f[m]].on)
    BY <1>2, <1>11
  <2> QED BY <1>4, <1>5, <1>10, <1>11, <2>1
<1>13. f[m+1] \in C
  <2>1. CASE m + 1 = y
    <3>1. x \in x .. (y - 1)
      BY <1>7
    <3> QED BY <1>7, <2>1, <3>1
  <2>2. CASE m + 1 # y
    <3>1. m + 1 \in x .. (y - 1)
      BY <1>7, <1>10, <2>2
    <3> QED BY <3>1
  <2> QED BY <2>1, <2>2
<1> QED BY <1>9, <1>12, <1>13

\* Every commit but a join keeps waiting_on or empties it.
Loosens == \A t \in Tasks : task'[t].on \in {task[t].on, <<>>}

\* One row is replaced.
LEMMA LoosenOne ==
  ASSUME task \in [Tasks -> Checkpoint], NEW t \in Tasks, NEW n,
         task' = [task EXCEPT ![t] = n], n.on \in {task[t].on, <<>>}
  PROVE  Loosens
BY DEF Loosens

\* The checkpoints that keep waiting_on.
LEMMA SameOn ==
  ASSUME NEW t \in Tasks, task[t] \in Checkpoint
  PROVE  LET k == task[t] IN
         /\ FailedState(k).on = k.on
         /\ CancelledState(k).on = k.on
         /\ ClaimedState(k).on = k.on
         /\ UnclaimedState(k).on = k.on
         /\ RecoverableState(k).on = k.on
         /\ HeldState(k).on = k.on
         /\ RequestedState(t).on = k.on
         /\ CompletionNext(t).on = k.on
         /\ JoinedState(k).on = <<>>
<1>1. task[t] \in Checkpoint
  OBVIOUS
<1>2. /\ FailedState(task[t]).on = task[t].on
      /\ CancelledState(task[t]).on = task[t].on
      /\ ClaimedState(task[t]).on = task[t].on
      /\ UnclaimedState(task[t]).on = task[t].on
      /\ RecoverableState(task[t]).on = task[t].on
      /\ JoinedState(task[t]).on = <<>>
  BY <1>1 DEF FailedState, CancelledState, ClaimedState, UnclaimedState,
              RecoverableState, JoinedState, Released, Checkpoint
<1>3. HeldState(task[t]).on = task[t].on
  BY <1>1 DEF HeldState, Checkpoint
<1>4. RequestedState(t).on = task[t].on
  BY <1>1, <1>3 DEF RequestedState, Checkpoint
<1>5. CompletionNext(t).on = task[t].on
  BY <1>1 DEF CompletionNext, Checkpoint
<1> QED BY <1>2, <1>3, <1>4, <1>5

Joins == \E w \in workers, list \in WaitLists, policy \in JoinPolicies :
           WorkerJoin(w, list, policy)

\* Only wait_task(on=...) adds a dependency.
LEMMA OnKinds ==
  ASSUME IInv, Next
  PROVE  Loosens \/ Joins
<1>1. /\ task \in [Tasks -> Checkpoint] /\ LineInv
      /\ \A w \in workers : w.task \in Tasks
  BY DEF IInv, Tables, WorkersInv, Worker
<1>2. ASSUME UNCHANGED task
      PROVE  Loosens
  BY <1>2 DEF Loosens
<1>3. ASSUME NEW t \in Tasks, NEW x, FailTask(t, x)
      PROVE  Loosens
  BY <1>1, <1>3, LoosenOne, SameOn DEF FailTask, Commit
<1>4. ASSUME NEW t \in Tasks, CancelTerminal(t)
      PROVE  Loosens
  BY <1>1, <1>4, LoosenOne, SameOn DEF CancelTerminal
<1>5. ASSUME NEW t \in Tasks, Advances(t)
      PROVE  Loosens
  BY <1>1, <1>5, LoosenOne, SameOn DEF Advances, AdvanceCompletion
<1>6. ASSUME NEW t \in Tasks, NEW x,
             \/ Commit(t, ClaimedState(task[t]), x)
             \/ Commit(t, UnclaimedState(task[t]), x)
             \/ Commit(t, RecoverableState(task[t]), x)
             \/ Commit(t, JoinedState(task[t]), x)
             \/ Commit(t, HeldState(task[t]), x)
             \/ Commit(t, RequestedState(t), x)
      PROVE  Loosens
  <2>1. \E n : task' = [task EXCEPT ![t] = n] /\ n.on \in {task[t].on, <<>>}
    BY <1>1, <1>6, SameOn DEF Commit
  <2> QED BY <1>1, <2>1, LoosenOne
<1>7. ASSUME NEW t \in Tasks, NEW p \in OwnerChoice[t], NEW b \in Abandons, Admit(t, p, b)
      PROVE  Loosens
  BY <1>1, <1>7 DEF Admit, Absent, Loosens
<1>8. ASSUME NEW t \in Tasks, Claim(t) \/ SchedulerFail(t) \/ Requeue(t)
      PROVE  Loosens
  BY <1>3, <1>6, <1>8 DEF Claim, SchedulerFail, Requeue, RecoverableState
<1>9. ASSUME NEW t \in Tasks, NEW w \in workers, Unclaim(t, w)
      PROVE  Loosens
  BY <1>6, <1>9 DEF Unclaim
<1>10. ASSUME NEW t \in Tasks, RequestCommit(t) \/ CloseCommit(t)
       PROVE  Loosens
  BY <1>4, <1>6, <1>10 DEF RequestCommit, CloseCommit
<1>11. ASSUME NEW t \in Tasks,
              CancelChild(t) \/ JoinStep(t) \/ FinalizeStep(t) \/ RecoverStep(t)
       PROVE  Loosens
  <2>1. CASE CancelChild(t)
    <3>1. UNCHANGED task \/ RequestCommit(t) \/ CloseCommit(t)
      BY <2>1 DEF CancelChild
    <3> QED BY <1>2, <1>10, <3>1
  <2>2. CASE JoinStep(t)
    <3>1. \/ UNCHANGED task \/ FailTask(t, UnboundToken(task[t]))
          \/ Commit(t, JoinedState(task[t]), UnboundToken(task[t]))
      BY <2>2 DEF JoinStep
    <3> QED BY <1>2, <1>3, <1>6, <3>1
  <2>3. CASE FinalizeStep(t)
    <3>1. UNCHANGED task \/ CancelTerminal(t) \/ Advances(t)
      BY <2>3 DEF FinalizeStep, Advances
    <3> QED BY <1>2, <1>4, <1>5, <3>1
  <2>4. CASE RecoverStep(t)
    <3>1. \/ UNCHANGED task \/ FailTask(t, task[t].token) \/ CancelTerminal(t)
          \/ Commit(t, RecoverableState(task[t]), task[t].token)
      BY <2>4 DEF RecoverStep
    <3> QED BY <1>2, <1>3, <1>4, <1>6, <3>1
  <2> QED BY <1>11, <2>1, <2>2, <2>3, <2>4
<1>12. CASE CompleteStep \/ CancelRoot
  <2>1. line.task \in Tasks
    BY <1>1, <1>12 DEF LineInv, CompleteStep, CancelRoot, Cancelling
  <2> QED BY <1>2, <1>5, <1>10, <1>12, <2>1 DEF CompleteStep, CancelRoot, Advances
<1>13. ASSUME NEW w \in workers, WorkerStart(w)
       PROVE  Loosens
  <2> DEFINE n == [task[w.task] EXCEPT !.phase = "running", !.status = "running"]
  <2>1. UNCHANGED task \/ task' = [task EXCEPT ![w.task] = n]
    BY <1>13 DEF WorkerStart, Commit
  <2>2. n.on = task[w.task].on
    BY <1>1 DEF Released, Checkpoint
  <2> HIDE DEF n
  <2> QED BY <1>1, <1>2, <2>1, <2>2, LoosenOne
<1>14. ASSUME NEW w \in workers, WorkerFail(w) \/ WorkerWaitCancelled(w)
       PROVE  Loosens
  BY <1>1, <1>3, <1>4, <1>6, <1>14 DEF WorkerFail, WorkerWaitCancelled
<1>15. ASSUME NEW w \in workers, NEW answered \in Parks, WorkerPark(w, answered)
       PROVE  Loosens
  <2> DEFINE n == Released([task[w.task] EXCEPT !.join = FALSE, !.policy = "allSettled",
                     !.status = IF answered THEN "pending" ELSE "waiting"])
  <2>1. task' = [task EXCEPT ![w.task] = n]
    BY <1>15 DEF WorkerPark, Commit
  <2>2. n.on = task[w.task].on
    BY <1>1 DEF Released, Checkpoint
  <2> HIDE DEF n
  <2> QED BY <1>1, <2>1, <2>2, LoosenOne
<1>16. ASSUME NEW w \in workers, NEW intents, NEW settlements, NEW op,
              WorkerRecord(w, intents, settlements, op)
       PROVE  Loosens
  <2> DEFINE n == [task[w.task] EXCEPT !.pend = (@ \union intents) \ settlements, !.op = op]
  <2>1. task' = [task EXCEPT ![w.task] = n]
    BY <1>16 DEF WorkerRecord, Commit
  <2>2. n.on = task[w.task].on
    BY <1>1 DEF Released, Checkpoint
  <2> HIDE DEF n
  <2> QED BY <1>1, <2>1, <2>2, LoosenOne
<1>17. CASE \/ \E t \in Tasks : RequestCancel(t) \/ CancelTask(t)
            \/ \E w \in workers : WorkerCancel(w) \/ WorkerComplete(w) \/ WorkerExit(w)
            \/ CancelConflict \/ ReconcileBegin \/ FinalizeBegin \/ Crash
            \/ RecoverDone \/ \E p \in Pids : Restart(p)
  BY <1>2, <1>17, NoCommit
<1> QED BY <1>1, <1>7, <1>8, <1>9, <1>11, <1>12, <1>13, <1>14, <1>15, <1>16, <1>17
        DEF Next, Joins

\* An empty list and a shorter one close no ring.
LEMMA RingLoosens ==
  ASSUME NoRing, Loosens
  PROVE  NoRing'
<1>1. ASSUME NEW S \in (SUBSET Tasks) \ {{}}
      PROVE  \E t \in S : ~\E d \in S : InList(d, task'[t].on)
  <2>1. PICK t \in S : ~\E d \in S : InList(d, task[t].on)
    BY DEF NoRing
  <2>2. task'[t].on \in {task[t].on, <<>>}
    BY DEF Loosens
  <2>3. ~\E d \in S : InList(d, <<>>)
    BY DEF InList
  <2> QED BY <2>1, <2>2, <2>3
<1> QED BY <1>1 DEF NoRing

\* A join that wait_task accepts closes no ring.
LEMMA RingJoins ==
  ASSUME IsFiniteSet(Tasks), \A l \in WaitLists : Len(l) <= 1,
         IInv, WaitsShort, NoRing, Joins
  PROVE  WaitsShort' /\ NoRing'
<1>1. task \in [Tasks -> Checkpoint] /\ \A w \in workers : w.task \in Tasks
  BY DEF IInv, Tables, WorkersInv, Worker
<1>2. PICK w \in workers, list \in WaitLists, policy \in JoinPolicies :
             WorkerJoin(w, list, policy)
  BY DEF Joins
<1> DEFINE t == w.task
           n == Released([task[t] EXCEPT !.on = list, !.policy = policy,
                                         !.join = TRUE, !.status = "waiting"])
<1>3. n.on = list
  BY <1>1 DEF Released, Checkpoint
<1>4. task' = [task EXCEPT ![t] = n]
  BY <1>2 DEF WorkerJoin, Commit
<1> HIDE DEF n
<1>5. t \in Tasks /\ task'[t].on = list /\ \A u \in Tasks : u # t => task'[u] = task[u]
  BY <1>1, <1>3, <1>4
<1>6. list \in Seq(Tasks) /\ Len(list) <= 1
  BY WaitListsAssumption
<1>7. \A i \in DOMAIN list : list[i] # t /\ ~WaitCycle(t, list[i])
  BY <1>2 DEF WorkerJoin
<1> HIDE DEF t
<1>8. WaitsShort'
  BY <1>5, <1>6 DEF WaitsShort
<1>9. ASSUME NEW S \in (SUBSET Tasks) \ {{}},
             \A u \in S : \E e \in S : InList(e, task'[u].on)
      PROVE  FALSE
  <2>1. t \in S
    <3>1. CASE t \notin S
      <4>1. \A u \in S : \E e \in S : InList(e, task[u].on)
        BY <1>5, <1>9, <3>1
      <4> QED BY <4>1 DEF NoRing
    <3> QED BY <3>1
  <2>2. PICK d \in S : InList(d, list)
    BY <1>5, <1>9, <2>1
  <2>3. d # t /\ ~WaitCycle(t, d)
    BY <1>7, <2>2 DEF InList
  <2>4. \A u \in S \ {t} : \E e \in S : InList(e, task[u].on)
    BY <1>5, <1>9
  <2>5. d \in Tasks /\ S \in SUBSET Tasks
    BY <2>2
  <2> QED BY <1>1, <1>5, <2>3, <2>4, <2>5, WalkReturns
<1> QED BY <1>8, <1>9 DEF NoRing

(* wait_task refuses every join that would close a circle of waiting tasks, *)
(* whichever tasks the callers join and in whatever order, Stops, crashes   *)
(* and recovery included.  The hypothesis is what its check can see: it     *)
(* follows the first dependency of each task, so a join names one.          *)
THEOREM WaitsEnd ==
  ASSUME IsFiniteSet(Tasks), \A l \in WaitLists : Len(l) <= 1
  PROVE  Spec => []NoWaitCycle
<1>1. ASSUME Init
      PROVE  WaitsShort /\ NoRing
  <2>1. \A t \in Tasks : task[t].on = <<>>
    BY <1>1 DEF Init, Absent
  <2>2. \A d : ~InList(d, <<>>)
    BY DEF InList
  <2> QED BY <2>1, <2>2 DEF WaitsShort, NoRing
<1>2. ASSUME IInv, WaitsShort, NoRing, [Next]_vars
      PROVE  WaitsShort' /\ NoRing'
  <2>1. CASE UNCHANGED vars
    BY <1>2, <2>1 DEF vars, WaitsShort, NoRing
  <2>2. CASE Next /\ Loosens
    <3>1. WaitsShort'
      BY <1>2, <2>2 DEF Loosens, WaitsShort
    <3> QED BY <1>2, <2>2, <3>1, RingLoosens
  <2>3. CASE Joins
    BY <1>2, <2>3, RingJoins
  <2> QED BY <1>2, <2>1, <2>2, <2>3, OnKinds
<1>3. NoRing => NoWaitCycle
  BY DEF NoRing, NoWaitCycle
<1> QED BY <1>1, <1>2, <1>3, Inductive, PTL DEF Spec

=============================================================================
