------------------------- MODULE DurableTasksProofs -------------------------
(***************************************************************************)
(* Safety of the durable task kernel for every set of tasks and effects,   *)
(* every ownership tree and every bound.                                   *)
(*                                                                         *)
(* The argument is per row.  RowInv says of one task's checkpoint, its     *)
(* submission row, its effect rows and its answers everything that the     *)
(* commits rely on.  Every commit replaces one row, so the proof has one   *)
(* lemma for each kind of commit (keep, start, record, advance, fail,      *)
(* cancel, admit) about constant rows, and one lemma per action that names *)
(* the commit it performs.  IInv adds what the commits of a worker rest    *)
(* on: a worker, and the complete_task that holds the mutation line, carry *)
(* a real attempt token.                                                   *)
(***************************************************************************)
EXTENDS DurableTasks, TLAPS

Tables ==
  /\ task \in [Tasks -> Checkpoint]
  /\ sub \in [Tasks -> SubmissionStatuses]
  /\ eff \in [Tasks -> [Effects -> {"none", "pending", "settled"}]]
  /\ answers \in [Tasks -> Nat]

Owned(k) ==
  /\ k.token \in {0, k.attempt}
  /\ k.token # 0 <=> k.status \in {"running", "completing", "completed"}

Told(k, s, a) ==
  /\ a = IF k.phase = "completed" THEN 1 ELSE 0
  /\ k.phase = "completed" <=> s = "done"
  /\ k.phase = "failed"    <=> s = "unanswered"
  /\ k.phase = "cancelled" <=> s = "cancelled"
  /\ s = "running" => k.phase \in {"running", "completion_pending"}

RowInv(k, s, e, a) ==
  /\ k.phase = "none" <=> k.status = "none"
  /\ k.phase = "none" => k.pend = {}
  /\ Owned(k)
  /\ Told(k, s, a)
  /\ k.pend = {x \in Effects : e[x] = "pending"}

\* What a commit that only moves a task through its attempts may change.
Kept(k, n) ==
  /\ n \in Checkpoint
  /\ n.status # "none"
  /\ n.pend = k.pend
  /\ Owned(n)
  /\ \/ n.phase = k.phase
     \/ {n.phase, k.phase} \subseteq {"accepted", "dispatching"}

Rows == \A t \in Tasks : RowInv(task[t], sub[t], eff[t], answers[t])

WorkersInv == workers \subseteq Worker /\ \A w \in workers : w.token # 0

LineInv ==
  /\ line \in Line
  /\ line.op \in {"request_cancel", "cancel_task", "complete"} => line.task \in Tasks
  /\ line.op = "complete" => line.token # 0

IInv == Tables /\ Rows /\ WorkersInv /\ LineInv /\ proc \in Process

-----------------------------------------------------------------------------
(* One row changes.                                                        *)

\* A commit that replaces the row of one task by a row that satisfies RowInv
\* keeps all rows: no commit of session.py touches the row of another task.
LEMMA RowStep ==
  ASSUME Tables, Rows, NEW t \in Tasks,
         task'[t] \in Checkpoint,
         sub'[t] \in SubmissionStatuses,
         eff'[t] \in [Effects -> {"none", "pending", "settled"}],
         answers'[t] \in Nat,
         RowInv(task'[t], sub'[t], eff'[t], answers'[t]),
         task' = [task EXCEPT ![t] = task'[t]],
         sub' = [sub EXCEPT ![t] = sub'[t]],
         eff' = [eff EXCEPT ![t] = eff'[t]],
         answers' = [answers EXCEPT ![t] = answers'[t]]
  PROVE  Tables' /\ Rows'
<1>1. Tables'
  BY DEF Tables
<1>2. ASSUME NEW u \in Tasks
      PROVE  RowInv(task'[u], sub'[u], eff'[u], answers'[u])
  <2>1. CASE u = t
    BY <2>1 DEF Tables
  <2>2. CASE u # t
    <3>1. /\ task'[u] = task[u] /\ sub'[u] = sub[u]
          /\ eff'[u] = eff[u] /\ answers'[u] = answers[u]
      BY <2>2 DEF Tables
    <3> QED BY <3>1 DEF Rows
  <2> QED BY <2>1, <2>2
<1> QED BY <1>1, <1>2 DEF Rows

\* A step that commits nothing keeps the rows.
LEMMA SameRows ==
  ASSUME Tables, Rows, UNCHANGED <<task, sub, eff, answers>>
  PROVE  Tables' /\ Rows'
BY DEF Tables, Rows

\* A row stays in order when its checkpoint moves as Kept allows.
LEMMA KeptRow ==
  ASSUME NEW k \in Checkpoint, NEW n, NEW s, NEW e, NEW a,
         RowInv(k, s, e, a), k.phase # "none", Kept(k, n)
  PROVE  RowInv(n, s, e, a)
BY DEF RowInv, Told, Kept

\* A commit of the checkpoint alone.
LEMMA KeepStep ==
  ASSUME Tables, Rows, NEW t \in Tasks,
         task[t].phase # "none",
         Kept(task[t], task'[t]),
         task' = [task EXCEPT ![t] = task'[t]],
         UNCHANGED <<sub, eff, answers>>
  PROVE  Tables' /\ Rows'
<1>1. /\ sub' = [sub EXCEPT ![t] = sub'[t]]
      /\ eff' = [eff EXCEPT ![t] = eff'[t]]
      /\ answers' = [answers EXCEPT ![t] = answers'[t]]
  BY DEF Tables
<1>2. /\ sub'[t] \in SubmissionStatuses
      /\ eff'[t] \in [Effects -> {"none", "pending", "settled"}]
      /\ answers'[t] \in Nat
  BY DEF Tables
<1>3. task'[t] \in Checkpoint
  BY DEF Kept
<1>4. RowInv(task'[t], sub'[t], eff'[t], answers'[t])
  BY KeptRow DEF Tables, Rows
<1> QED BY <1>1, <1>2, <1>3, <1>4, RowStep

-----------------------------------------------------------------------------
(* The checkpoints that the operations compute.                            *)

\* claim_task hands the newest attempt its token.
LEMMA ClaimedKept ==
  ASSUME NEW k \in Checkpoint, k.phase # "none", proc \in Process
  PROVE  Kept(k, ClaimedState(k))
<1> DEFINE n == ClaimedState(k)
<1>1. proc.epoch \in Nat /\ proc.pid \in Nat /\ k.attempt + 1 \in Nat
  BY DEF Process, Checkpoint
<1>2. n \in Checkpoint
  BY <1>1 DEF ClaimedState, Checkpoint, Phases, Statuses
<1>3. /\ n.status = "running" /\ n.pend = k.pend
      /\ n.token = k.attempt + 1 /\ n.attempt = k.attempt + 1
      /\ n.phase = IF k.phase = "accepted" THEN "dispatching" ELSE k.phase
  BY DEF ClaimedState, Checkpoint
<1>4. k.attempt \in Nat
  BY DEF Checkpoint
<1> QED BY <1>2, <1>3, <1>4 DEF Kept, Owned

\* unclaim_task releases the attempt.
LEMMA UnclaimedKept ==
  ASSUME NEW k \in Checkpoint, k.phase # "none"
  PROVE  Kept(k, UnclaimedState(k))
BY DEF Kept, Owned, UnclaimedState, Released, Checkpoint, Phases, Statuses

\* recover_scheduler_state and an answered question release the attempt.
LEMMA RecoverableKept ==
  ASSUME NEW k \in Checkpoint, k.phase # "none"
  PROVE  Kept(k, RecoverableState(k))
BY DEF Kept, Owned, RecoverableState, Released, Checkpoint, Phases, Statuses

\* A joined task that wakes holds no attempt.
LEMMA JoinedKept ==
  ASSUME NEW k \in Checkpoint, k.phase # "none", k.status = "waiting", Owned(k)
  PROVE  Kept(k, JoinedState(k))
<1> DEFINE n == JoinedState(k)
<1>1. <<>> \in Seq(Tasks)
  OBVIOUS
<1>2. n \in Checkpoint
  BY <1>1 DEF JoinedState, Checkpoint, Statuses
<1>3. /\ n.phase = k.phase /\ n.pend = k.pend /\ n.status = "pending"
      /\ n.token = k.token /\ n.attempt = k.attempt
  BY DEF JoinedState, Checkpoint
<1> QED BY <1>2, <1>3 DEF Kept, Owned

\* The barrier on an owner whose tree still drains leaves a running or
\* completing attempt in place.
LEMMA HeldKept ==
  ASSUME NEW k \in Checkpoint, k.phase # "none", k.status # "none", Owned(k),
         ValidTaskStatusTransition(k.status, HeldState(k).status)
  PROVE  Kept(k, HeldState(k))
<1> DEFINE n == HeldState(k)
<1>1. n \in Checkpoint
  BY DEF HeldState, Checkpoint, Statuses
<1>2. /\ n.phase = k.phase /\ n.pend = k.pend
      /\ n.token = k.token /\ n.attempt = k.attempt
      /\ n.status = IF k.status \in {"running", "completing"}
                    THEN k.status ELSE "waiting"
  BY DEF HeldState, Checkpoint
<1>3. k.status # "completed"
  BY <1>2 DEF ValidTaskStatusTransition, StatusTransitions
<1> QED BY <1>1, <1>2, <1>3 DEF Kept, Owned

\* The barrier without owned work below: pending again unless it runs.
LEMMA StoppedKept ==
  ASSUME NEW k \in Checkpoint, k.phase # "none", k.status # "none", Owned(k),
         NEW n, n = [k EXCEPT !.cancel = TRUE,
                              !.status = IF @ = "running" THEN @ ELSE "pending"],
         ValidTaskStatusTransition(k.status, n.status)
  PROVE  Kept(k, n)
<1>1. n \in Checkpoint
  BY DEF Checkpoint, Statuses
<1>2. /\ n.phase = k.phase /\ n.pend = k.pend
      /\ n.token = k.token /\ n.attempt = k.attempt
      /\ n.status = IF k.status = "running" THEN k.status ELSE "pending"
  BY DEF Checkpoint
<1>3. k.status \notin {"completing", "completed"}
  BY <1>2 DEF ValidTaskStatusTransition, StatusTransitions
<1> QED BY <1>1, <1>2, <1>3 DEF Kept, Owned

\* wait_task for a decision releases the attempt.
LEMMA ParkedKept ==
  ASSUME NEW k \in Checkpoint, k.phase # "none",
         NEW status \in {"pending", "waiting"}
  PROVE  Kept(k, Released([k EXCEPT !.join = FALSE, !.policy = "allSettled",
                                    !.status = status]))
BY DEF Kept, Owned, Released, Checkpoint, Phases, Statuses

\* wait_task(on=...) releases the attempt.
LEMMA JoinKept ==
  ASSUME NEW k \in Checkpoint, k.phase # "none",
         NEW list \in Seq(Tasks), NEW policy \in {"allSettled", "failFast"}
  PROVE  Kept(k, Released([k EXCEPT !.on = list, !.policy = policy,
                                    !.join = TRUE, !.status = "waiting"]))
BY DEF Kept, Owned, Released, Checkpoint, Phases, Statuses

-----------------------------------------------------------------------------
(* The commits that also move the submission, the effects or the answers.  *)

\* fail_task: the task and its submission end together, receipts kept.
LEMMA FailStep ==
  ASSUME Tables, Rows, NEW t \in Tasks,
         task[t].phase # "none",
         ValidTaskTransition(task[t].phase, FailedState(task[t]).phase),
         task' = [task EXCEPT ![t] = FailedState(task[t])],
         sub' = [sub EXCEPT ![t] = "unanswered"],
         UNCHANGED <<eff, answers>>
  PROVE  Tables' /\ Rows'
<1> DEFINE k == task[t]
           n == FailedState(k)
<1>1. k \in Checkpoint /\ RowInv(k, sub[t], eff[t], answers[t])
  BY DEF Tables, Rows
<1>2. n \in Checkpoint
  BY <1>1 DEF FailedState, Released, Checkpoint, Phases, Statuses
<1>3. /\ n.phase = "failed" /\ n.status = "failed"
      /\ n.token = 0 /\ n.pend = k.pend
  BY <1>1 DEF FailedState, Released, Checkpoint
<1>4. k.phase # "completed" /\ k.phase # "cancelled"
  BY <1>3 DEF ValidTaskTransition, PhaseTransitions
<1>5. RowInv(n, "unanswered", eff[t], answers[t])
  BY <1>1, <1>3, <1>4 DEF RowInv, Told, Owned
<1>6. /\ task'[t] = n /\ sub'[t] = "unanswered"
      /\ eff'[t] = eff[t] /\ answers'[t] = answers[t]
  BY DEF Tables
<1>7. /\ sub'[t] \in SubmissionStatuses
      /\ eff'[t] \in [Effects -> {"none", "pending", "settled"}]
      /\ answers'[t] \in Nat
      /\ eff' = [eff EXCEPT ![t] = eff'[t]]
      /\ answers' = [answers EXCEPT ![t] = answers'[t]]
  BY <1>6 DEF Tables, SubmissionStatuses
<1> QED BY <1>2, <1>5, <1>6, <1>7, RowStep

\* _cancel_terminal: the task and its submission end together.
LEMMA CancelStep ==
  ASSUME Tables, Rows, NEW t \in Tasks, CancelTerminal(t)
  PROVE  Tables' /\ Rows'
<1> DEFINE k == task[t]
           n == CancelledState(k)
           s == IF sub[t] \in {"queued", "running"} THEN "cancelled" ELSE sub[t]
<1>1. /\ k \in Checkpoint /\ RowInv(k, sub[t], eff[t], answers[t])
      /\ sub[t] \in SubmissionStatuses
  BY DEF Tables, Rows
<1>2. n \in Checkpoint
  BY <1>1 DEF CancelledState, Released, Checkpoint, Phases, Statuses
<1>3. /\ n.phase = "cancelled" /\ n.status = "cancelled"
      /\ n.token = 0 /\ n.pend = k.pend
  BY <1>1 DEF CancelledState, Released, Checkpoint
<1>4. k.phase # "none" /\ k.phase # "completed" /\ k.phase # "failed"
  BY <1>3 DEF CancelTerminal, CanCancelTerminal, ValidExistingTask,
              ValidTaskTransition, PhaseTransitions
<1>5. s = "cancelled"
  BY <1>1, <1>4 DEF RowInv, Told, SubmissionStatuses
<1>6. RowInv(n, "cancelled", eff[t], answers[t])
  BY <1>1, <1>3, <1>4 DEF RowInv, Told, Owned
<1>7. /\ task'[t] = n /\ sub'[t] = "cancelled"
      /\ eff'[t] = eff[t] /\ answers'[t] = answers[t]
      /\ task' = [task EXCEPT ![t] = task'[t]]
      /\ sub' = [sub EXCEPT ![t] = sub'[t]]
  BY <1>5 DEF Tables, CancelTerminal
<1>8. /\ sub'[t] \in SubmissionStatuses
      /\ eff'[t] \in [Effects -> {"none", "pending", "settled"}]
      /\ answers'[t] \in Nat
      /\ eff' = [eff EXCEPT ![t] = eff'[t]]
      /\ answers' = [answers EXCEPT ![t] = answers'[t]]
  BY <1>7 DEF Tables, SubmissionStatuses, CancelTerminal
<1> QED BY <1>2, <1>6, <1>7, <1>8, RowStep

\* The checkpoint that complete_task and finish_task commit next.
LEMMA CompletionNextFields ==
  ASSUME NEW t \in Tasks, task[t] \in Checkpoint
  PROVE  LET k == task[t]
             n == CompletionNext(t)
         IN /\ n \in Checkpoint
            /\ n.token = k.token /\ n.attempt = k.attempt /\ n.pend = k.pend
            /\ n.status \in {"running", "completing", "completed"}
            /\ \/ n.phase = "running" /\ k.phase \in {"accepted", "dispatching"}
               \/ n.phase = "completion_pending"
               \/ n.phase = "completed" /\ k.phase = "completion_pending"
<1> DEFINE k == task[t]
<1>1. CASE k.phase \in {"accepted", "dispatching"}
  <2>1. CompletionNext(t) = [k EXCEPT !.phase = "running", !.status = "running"]
    BY <1>1 DEF CompletionNext
  <2> QED BY <1>1, <2>1 DEF Checkpoint, Phases, Statuses
<1>2. CASE k.phase \notin {"accepted", "dispatching", "completion_pending"}
  <2>1. CompletionNext(t) =
          [k EXCEPT !.phase = "completion_pending", !.status = "completing"]
    BY <1>2 DEF CompletionNext
  <2> QED BY <1>2, <2>1 DEF Checkpoint, Phases, Statuses
<1>3. CASE k.phase = "completion_pending" /\ LiveBelow(t) # {}
  <2>1. CompletionNext(t) = [k EXCEPT !.status = "completing", !.held = TRUE]
    BY <1>3 DEF CompletionNext
  <2> QED BY <1>3, <2>1 DEF Checkpoint, Phases, Statuses
<1>4. CASE k.phase = "completion_pending" /\ LiveBelow(t) = {}
  <2>1. CompletionNext(t) =
          [k EXCEPT !.phase = "completed", !.status = "completed"]
    BY <1>4 DEF CompletionNext
  <2> QED BY <1>4, <2>1 DEF Checkpoint, Phases, Statuses
<1> QED BY <1>1, <1>2, <1>3, <1>4

\* One commit of complete_task or finish_task, for a task with an attempt.
LEMMA AdvanceStep ==
  ASSUME Tables, Rows, NEW t \in Tasks,
         task[t].token # 0,
         ValidTaskTransition(task[t].phase, CompletionNext(t).phase),
         task[t].phase # "none",
         task' = [task EXCEPT ![t] = CompletionNext(t)],
         sub' = [sub EXCEPT ![t] = CompletionOutcome(t)],
         answers' = [answers EXCEPT ![t] =
           IF CompletionNext(t).phase = "completed" THEN @ + 1 ELSE @],
         UNCHANGED eff
  PROVE  Tables' /\ Rows'
<1> DEFINE k == task[t]
           n == CompletionNext(t)
           s == CompletionOutcome(t)
           a == IF n.phase = "completed" THEN answers[t] + 1 ELSE answers[t]
<1>1. /\ k \in Checkpoint /\ RowInv(k, sub[t], eff[t], answers[t])
      /\ sub[t] \in SubmissionStatuses /\ answers[t] \in Nat
  BY DEF Tables, Rows
<1>2. /\ n \in Checkpoint
      /\ n.token = k.token /\ n.attempt = k.attempt /\ n.pend = k.pend
      /\ n.status \in {"running", "completing", "completed"}
      /\ \/ n.phase = "running" /\ k.phase \in {"accepted", "dispatching"}
         \/ n.phase = "completion_pending"
         \/ n.phase = "completed" /\ k.phase = "completion_pending"
  BY <1>1, CompletionNextFields
<1>3. /\ n.phase = "running" => s = "running"
      /\ n.phase = "completed" => s = "done"
      /\ n.phase = "completion_pending" => s = sub[t]
  BY DEF CompletionOutcome
<1>4. s \in SubmissionStatuses /\ a \in Nat
  BY <1>1, <1>2, <1>3 DEF SubmissionStatuses
<1>5. k.phase \notin {"completed", "failed", "cancelled"}
  BY <1>2 DEF ValidTaskTransition, PhaseTransitions
<1>6. n.phase = "completion_pending" => k.phase \in {"running", "completion_pending"}
  <2>1. k.phase \in Phases
    BY <1>1 DEF Checkpoint
  <2> QED BY <2>1 DEF ValidTaskTransition, PhaseTransitions, Phases
<1>7. Told(n, s, a)
  BY <1>1, <1>2, <1>3, <1>5, <1>6 DEF RowInv, Told
<1>8. Owned(n)
  BY <1>1, <1>2 DEF RowInv, Owned
<1>9. RowInv(n, s, eff[t], a)
  BY <1>1, <1>2, <1>7, <1>8 DEF RowInv
<1>10. /\ task'[t] = n /\ sub'[t] = s /\ eff'[t] = eff[t] /\ answers'[t] = a
       /\ eff'[t] \in [Effects -> {"none", "pending", "settled"}]
       /\ eff' = [eff EXCEPT ![t] = eff'[t]]
  BY DEF Tables
<1>11. answers' = [answers EXCEPT ![t] = answers'[t]]
  BY <1>10
<1> QED BY <1>2, <1>4, <1>9, <1>10, <1>11, RowStep

\* start_task for a dispatched attempt: task and submission start together.
LEMMA StartStep ==
  ASSUME Tables, Rows, NEW t \in Tasks,
         task[t].token # 0,
         task[t].phase = "dispatching",
         task' = [task EXCEPT ![t] =
                   [task[t] EXCEPT !.phase = "running", !.status = "running"]],
         sub' = [sub EXCEPT ![t] = "running"],
         UNCHANGED <<eff, answers>>
  PROVE  Tables' /\ Rows'
<1> DEFINE k == task[t]
           n == [k EXCEPT !.phase = "running", !.status = "running"]
<1>1. k \in Checkpoint /\ RowInv(k, sub[t], eff[t], answers[t])
  BY DEF Tables, Rows
<1>2. n \in Checkpoint
  BY <1>1 DEF Checkpoint, Phases, Statuses
<1>3. /\ n.phase = "running" /\ n.status = "running"
      /\ n.token = k.token /\ n.attempt = k.attempt /\ n.pend = k.pend
  BY <1>1 DEF Checkpoint
<1>4. RowInv(n, "running", eff[t], answers[t])
  BY <1>1, <1>3 DEF RowInv, Told, Owned
<1>5. /\ task'[t] = n /\ sub'[t] = "running"
      /\ eff'[t] = eff[t] /\ answers'[t] = answers[t]
  BY DEF Tables
<1>6. /\ sub'[t] \in SubmissionStatuses
      /\ eff'[t] \in [Effects -> {"none", "pending", "settled"}]
      /\ answers'[t] \in Nat
      /\ eff' = [eff EXCEPT ![t] = eff'[t]]
      /\ answers' = [answers EXCEPT ![t] = answers'[t]]
  BY <1>5 DEF Tables, SubmissionStatuses
<1> QED BY <1>2, <1>4, <1>5, <1>6, RowStep

\* One runtime mutation: intents and settlements change the effect rows and
\* pending_effect_ids together.
LEMMA RecordStep ==
  ASSUME Tables, Rows, NEW w \in Worker,
         NEW intents \in SUBSET Effects, NEW settlements \in SUBSET Effects,
         NEW op \in OpSteps,
         WorkerRecord(w, intents, settlements, op)
  PROVE  Tables' /\ Rows'
<1> DEFINE t == w.task
           k == task[t]
           n == [k EXCEPT !.pend = (@ \union intents) \ settlements, !.op = op]
           e == [x \in Effects |->
                  IF x \in intents THEN "pending"
                  ELSE IF x \in settlements THEN "settled" ELSE eff[t][x]]
<1>1. /\ t \in Tasks /\ k \in Checkpoint
      /\ RowInv(k, sub[t], eff[t], answers[t])
      /\ eff[t] \in [Effects -> {"none", "pending", "settled"}]
  BY DEF Tables, Rows, Worker
<1>2. /\ k.phase # "none"
      /\ \A x \in intents : eff[t][x] = "none"
      /\ \A x \in settlements : eff[t][x] = "pending"
      /\ task' = [task EXCEPT ![t] = n]
      /\ eff' = [eff EXCEPT ![t] = e]
      /\ UNCHANGED <<sub, answers>>
  BY <1>1 DEF WorkerRecord, Commit, ValidExistingTask, Tables
<1>3. op \in Operations
  BY OpStepsAssumption
<1>4. n \in Checkpoint
  BY <1>1, <1>3 DEF Checkpoint
<1>5. /\ n.phase = k.phase /\ n.status = k.status /\ n.token = k.token
      /\ n.attempt = k.attempt /\ n.pend = (k.pend \union intents) \ settlements
  BY <1>1 DEF Checkpoint
<1>6. e \in [Effects -> {"none", "pending", "settled"}]
  BY <1>1
<1>7. n.pend = {x \in Effects : e[x] = "pending"}
  <2>1. k.pend = {x \in Effects : eff[t][x] = "pending"}
    BY <1>1 DEF RowInv
  <2> QED BY <1>2, <1>5, <2>1
<1>8. RowInv(n, sub[t], e, answers[t])
  BY <1>1, <1>2, <1>5, <1>7 DEF RowInv, Told, Owned
<1>9. /\ task'[t] = n /\ sub'[t] = sub[t] /\ eff'[t] = e /\ answers'[t] = answers[t]
      /\ sub'[t] \in SubmissionStatuses /\ answers'[t] \in Nat
      /\ sub' = [sub EXCEPT ![t] = sub'[t]]
      /\ answers' = [answers EXCEPT ![t] = answers'[t]]
      /\ task' = [task EXCEPT ![t] = task'[t]]
      /\ eff' = [eff EXCEPT ![t] = eff'[t]]
  BY <1>1, <1>2 DEF Tables
<1>10. task'[t] \in Checkpoint /\ RowInv(task'[t], sub'[t], eff'[t], answers'[t])
  BY <1>4, <1>8, <1>9
<1>11. eff'[t] \in [Effects -> {"none", "pending", "settled"}]
  BY <1>6, <1>9
<1> QED BY <1>1, <1>9, <1>10, <1>11, RowStep

\* admission: a fresh row.
LEMMA AdmitStep ==
  ASSUME Tables, Rows, NEW t \in Tasks,
         NEW p \in OwnerChoice[t], NEW b \in Abandons,
         Admit(t, p, b)
  PROVE  Tables' /\ Rows'
<1> DEFINE k == task[t]
           above == IF p = NoTask THEN {} ELSE task[p].above \union {p}
           n == [Absent EXCEPT !.phase = "accepted", !.status = "pending",
                               !.parent = p, !.abandon = b, !.above = above]
<1>1. p \in Tasks \union {NoTask} /\ b \in BOOLEAN
  BY OwnerChoiceAssumption, AbandonsAssumption
<1>2. above \in SUBSET Tasks
  <2>1. p # NoTask => task[p] \in Checkpoint
    BY <1>1 DEF Tables
  <2>2. p # NoTask => task[p].above \in SUBSET Tasks
    BY <2>1 DEF Checkpoint
  <2> QED BY <1>1, <2>2
<1>3. <<>> \in Seq(Tasks)
  OBVIOUS
<1>4. n \in Checkpoint
  BY <1>1, <1>2, <1>3 DEF Absent, Checkpoint, Phases, Statuses, Operations
<1>5. /\ n.phase = "accepted" /\ n.status = "pending"
      /\ n.token = 0 /\ n.attempt = 0 /\ n.pend = {}
  BY DEF Absent
<1>6. /\ k \in Checkpoint /\ RowInv(k, sub[t], eff[t], answers[t])
      /\ sub[t] \in SubmissionStatuses
  BY DEF Tables, Rows
<1>7. k.phase = "none"
  BY DEF Admit, Admitted
<1>8. sub[t] = "queued"
  BY <1>6, <1>7 DEF RowInv, Told, SubmissionStatuses
<1>9. RowInv(n, sub[t], eff[t], answers[t])
  BY <1>5, <1>6, <1>7, <1>8 DEF RowInv, Told, Owned
<1>10. /\ task' = [task EXCEPT ![t] = n]
       /\ UNCHANGED <<sub, eff, answers>>
  BY DEF Admit
<1>11. /\ task'[t] = n /\ sub'[t] = sub[t] /\ eff'[t] = eff[t]
       /\ answers'[t] = answers[t]
       /\ task' = [task EXCEPT ![t] = task'[t]]
       /\ sub' = [sub EXCEPT ![t] = sub'[t]]
       /\ eff' = [eff EXCEPT ![t] = eff'[t]]
       /\ answers' = [answers EXCEPT ![t] = answers'[t]]
       /\ eff'[t] \in [Effects -> {"none", "pending", "settled"}]
       /\ answers'[t] \in Nat
  BY <1>10 DEF Tables
<1>12. /\ task'[t] \in Checkpoint /\ sub'[t] \in SubmissionStatuses
       /\ RowInv(task'[t], sub'[t], eff'[t], answers'[t])
  BY <1>4, <1>6, <1>9, <1>11
<1> QED BY <1>11, <1>12, RowStep

-----------------------------------------------------------------------------
(* The tables, action by action.                                           *)

\* The row of a stored task, as the commits find it.
LEMMA StoredRow ==
  ASSUME Tables, Rows, NEW t \in Tasks
  PROVE  /\ task[t] \in Checkpoint
         /\ Owned(task[t])
         /\ task[t].phase # "none" => task[t].status # "none"
BY DEF Tables, Rows, RowInv

\* The barrier on an owner keeps the rows.
LEMMA HoldStep ==
  ASSUME Tables, Rows, NEW t \in Tasks,
         Commit(t, HeldState(task[t]), task[t].token),
         UNCHANGED <<sub, eff, answers>>
  PROVE  Tables' /\ Rows'
<1>1. /\ task[t].phase # "none"
      /\ ValidTaskStatusTransition(task[t].status, HeldState(task[t]).status)
      /\ task' = [task EXCEPT ![t] = HeldState(task[t])]
  BY DEF Commit, ValidExistingTask
<1>2. task'[t] = HeldState(task[t])
  BY <1>1 DEF Tables
<1>3. Kept(task[t], task'[t])
  BY <1>1, <1>2, StoredRow, HeldKept
<1> QED BY <1>1, <1>2, <1>3, KeepStep

\* The commit of request_cancel keeps the rows.
LEMMA RequestStep ==
  ASSUME Tables, Rows, NEW t \in Tasks, RequestCommit(t)
  PROVE  Tables' /\ Rows'
<1>1. CASE /\ Commit(t, RequestedState(t), task[t].token)
           /\ UNCHANGED <<sub, eff, answers>>
           /\ LiveBelow(t) # {}
  <2>1. Commit(t, HeldState(task[t]), task[t].token)
    BY <1>1 DEF RequestedState
  <2> QED BY <1>1, <2>1, HoldStep
<1>2. CASE /\ Commit(t, RequestedState(t), task[t].token)
           /\ UNCHANGED <<sub, eff, answers>>
           /\ LiveBelow(t) = {}
  <2> DEFINE n == [task[t] EXCEPT !.cancel = TRUE,
                     !.status = IF @ = "running" THEN @ ELSE "pending"]
  <2>1. RequestedState(t) = n
    BY <1>2 DEF RequestedState
  <2>2. /\ task[t].phase # "none"
        /\ ValidTaskStatusTransition(task[t].status, n.status)
        /\ task' = [task EXCEPT ![t] = n]
    BY <1>2, <2>1 DEF Commit, ValidExistingTask
  <2>3. task'[t] = n
    BY <2>2 DEF Tables
  <2>4. Kept(task[t], n)
    BY <2>2, StoredRow, StoppedKept
  <2>5. Kept(task[t], task'[t]) /\ task' = [task EXCEPT ![t] = task'[t]]
    BY <2>2, <2>3, <2>4
  <2> QED BY <1>2, <2>2, <2>5, KeepStep
<1>3. CASE CancelTerminal(t)
  BY <1>3, CancelStep
<1> QED BY <1>1, <1>2, <1>3 DEF RequestCommit

\* The commit of cancel_task keeps the rows.
LEMMA CloseStep ==
  ASSUME Tables, Rows, NEW t \in Tasks, CloseCommit(t)
  PROVE  Tables' /\ Rows'
<1>1. CASE /\ Commit(t, HeldState(task[t]), task[t].token)
           /\ UNCHANGED <<sub, eff, answers>>
  BY <1>1, HoldStep
<1>2. CASE CancelTerminal(t)
  BY <1>2, CancelStep
<1> QED BY <1>1, <1>2 DEF CloseCommit

\* unclaim_task keeps the rows.
LEMMA UnclaimStep ==
  ASSUME Tables, Rows, NEW t \in Tasks,
         task[t].phase # "none",
         task' = [task EXCEPT ![t] = UnclaimedState(task[t])],
         UNCHANGED <<sub, eff, answers>>
  PROVE  Tables' /\ Rows'
<1>1. task'[t] = UnclaimedState(task[t])
  BY DEF Tables
<1>2. Kept(task[t], task'[t])
  BY <1>1, StoredRow, UnclaimedKept
<1> QED BY <1>1, <1>2, KeepStep

\* An answered question, a settled approval and recovery write the same.
LEMMA RequeueStep ==
  ASSUME Tables, Rows, NEW t \in Tasks,
         task[t].phase # "none",
         task' = [task EXCEPT ![t] = RecoverableState(task[t])],
         UNCHANGED <<sub, eff, answers>>
  PROVE  Tables' /\ Rows'
<1>1. task'[t] = RecoverableState(task[t])
  BY DEF Tables
<1>2. Kept(task[t], task'[t])
  BY <1>1, StoredRow, RecoverableKept
<1> QED BY <1>1, <1>2, KeepStep

\* claim_task keeps the rows.
LEMMA ClaimStep ==
  ASSUME Tables, Rows, proc \in Process, NEW t \in Tasks, Claim(t)
  PROVE  Tables' /\ Rows'
<1>1. /\ task[t].phase # "none"
      /\ task' = [task EXCEPT ![t] = ClaimedState(task[t])]
      /\ UNCHANGED <<sub, eff, answers>>
  BY DEF Claim, Commit, ValidExistingTask
<1>2. task'[t] = ClaimedState(task[t])
  BY <1>1 DEF Tables
<1>3. Kept(task[t], task'[t])
  BY <1>1, <1>2, StoredRow, ClaimedKept
<1> QED BY <1>1, <1>2, <1>3, KeepStep

\* The commit that wakes a joined task keeps the rows.
LEMMA JoinedStep ==
  ASSUME Tables, Rows, NEW t \in Tasks,
         task[t].phase # "none", task[t].status = "waiting",
         task' = [task EXCEPT ![t] = JoinedState(task[t])],
         UNCHANGED <<sub, eff, answers>>
  PROVE  Tables' /\ Rows'
<1>1. task'[t] = JoinedState(task[t])
  BY DEF Tables
<1>2. Kept(task[t], task'[t])
  BY <1>1, StoredRow, JoinedKept
<1> QED BY <1>1, <1>2, KeepStep

\* wait_task for a decision keeps the rows.
LEMMA ParkStep ==
  ASSUME Tables, Rows, NEW w \in Worker, NEW answered \in BOOLEAN,
         WorkerPark(w, answered)
  PROVE  Tables' /\ Rows'
<1> DEFINE t == w.task
           status == IF answered THEN "pending" ELSE "waiting"
           n == Released([task[t] EXCEPT !.join = FALSE, !.policy = "allSettled",
                                         !.status = status])
<1>1. t \in Tasks /\ status \in {"pending", "waiting"}
  BY DEF Worker
<1>2. /\ task[t].phase # "none"
      /\ task' = [task EXCEPT ![t] = n]
      /\ UNCHANGED <<sub, eff, answers>>
  BY DEF WorkerPark, Commit, ValidExistingTask
<1>3. task'[t] = n
  BY <1>1, <1>2 DEF Tables
<1>4. Kept(task[t], n)
  BY <1>1, <1>2, StoredRow, ParkedKept
<1>5. Kept(task[t], task'[t]) /\ task' = [task EXCEPT ![t] = task'[t]]
  BY <1>2, <1>3, <1>4
<1> QED BY <1>1, <1>2, <1>5, KeepStep

\* wait_task(on=...) keeps the rows.
LEMMA WaitStep ==
  ASSUME Tables, Rows, NEW w \in Worker, NEW list \in WaitLists,
         NEW policy \in JoinPolicies, WorkerJoin(w, list, policy)
  PROVE  Tables' /\ Rows'
<1> DEFINE t == w.task
           n == Released([task[t] EXCEPT !.on = list, !.policy = policy,
                                         !.join = TRUE, !.status = "waiting"])
<1>1. /\ t \in Tasks /\ list \in Seq(Tasks)
      /\ policy \in {"allSettled", "failFast"}
  BY WaitListsAssumption, JoinPoliciesAssumption DEF Worker
<1>2. /\ task[t].phase # "none"
      /\ task' = [task EXCEPT ![t] = n]
      /\ UNCHANGED <<sub, eff, answers>>
  BY DEF WorkerJoin, Commit, ValidExistingTask
<1>3. task'[t] = n
  BY <1>1, <1>2 DEF Tables
<1>4. Kept(task[t], n)
  BY <1>1, <1>2, StoredRow, JoinKept
<1>5. Kept(task[t], task'[t]) /\ task' = [task EXCEPT ![t] = task'[t]]
  BY <1>2, <1>3, <1>4
<1> QED BY <1>1, <1>2, <1>5, KeepStep

\* complete_task never moves a task whose attempt is not its worker's.
LEMMA CompleteRows ==
  ASSUME IInv, CompleteStep
  PROVE  Tables' /\ Rows'
<1> DEFINE t == line.task
           x == BoundToken(task[t], line.token)
<1>1. line.op = "complete" /\ t \in Tasks /\ line.token # 0 /\ Tables /\ Rows
  BY DEF CompleteStep, IInv, LineInv
<1>2. CASE AdvanceCompletion(t, x)
  <2>1. /\ ValidExistingTask(task[t], CompletionNext(t), x)
        /\ task' = [task EXCEPT ![t] = CompletionNext(t)]
        /\ sub' = [sub EXCEPT ![t] = CompletionOutcome(t)]
        /\ answers' = [answers EXCEPT ![t] =
             IF CompletionNext(t).phase = "completed" THEN @ + 1 ELSE @]
        /\ UNCHANGED eff
    BY <1>2 DEF AdvanceCompletion, CanAdvance
  <2>2. /\ task[t].phase # "none"
        /\ task[t].token = x
        /\ ValidTaskTransition(task[t].phase, CompletionNext(t).phase)
        /\ ValidTaskStatusTransition(task[t].status, CompletionNext(t).status)
    BY <2>1 DEF ValidExistingTask, ValidExecutionAttempt
  <2>3. CompletionNext(t).status \in {"running", "completing", "completed"}
    BY <1>1, CompletionNextFields DEF Tables
  <2>4. ~Settled(task[t])
    <3>1. task[t].status \notin {"failed", "cancelled"}
      BY <2>2, <2>3 DEF ValidTaskStatusTransition, StatusTransitions
    <3> QED BY <1>1, <3>1, StoredRow DEF Settled, Terminal, Owned
  <2>5. task[t].token # 0
    BY <1>1, <2>2, <2>4 DEF BoundToken
  <2> QED BY <1>1, <2>1, <2>2, <2>5, AdvanceStep
<1>3. CASE UNCHANGED <<task, sub, eff, answers>>
  BY <1>1, <1>3, SameRows
<1> QED BY <1>2, <1>3 DEF CompleteStep

\* reconcile_finalization publishes only answers of tasks with an attempt.
LEMMA FinalizeRows ==
  ASSUME IInv, NEW t \in Tasks, FinalizeStep(t)
  PROVE  Tables' /\ Rows'
<1>1. Tables /\ Rows
  BY DEF IInv
<1>2. CASE UNCHANGED <<task, sub, eff, answers>>
  BY <1>1, <1>2, SameRows
<1>3. CASE CancelTerminal(t)
  BY <1>1, <1>3, CancelStep
<1>4. CASE HasHeldAnswer(t) /\ AdvanceCompletion(t, UnboundToken(task[t]))
  <2>1. task[t].token # 0
    BY <1>1, <1>4, StoredRow DEF HasHeldAnswer, Owned
  <2>2. /\ task[t].phase # "none"
        /\ ValidTaskTransition(task[t].phase, CompletionNext(t).phase)
        /\ task' = [task EXCEPT ![t] = CompletionNext(t)]
        /\ sub' = [sub EXCEPT ![t] = CompletionOutcome(t)]
        /\ answers' = [answers EXCEPT ![t] =
             IF CompletionNext(t).phase = "completed" THEN @ + 1 ELSE @]
        /\ UNCHANGED eff
    BY <1>4 DEF AdvanceCompletion, CanAdvance, ValidExistingTask
  <2> QED BY <1>1, <2>1, <2>2, AdvanceStep
<1> QED BY <1>2, <1>3, <1>4 DEF FinalizeStep

\* reconcile_waiting_tasks keeps the rows.
LEMMA JoinRows ==
  ASSUME IInv, NEW t \in Tasks, JoinStep(t)
  PROVE  Tables' /\ Rows'
<1>1. Tables /\ Rows
  BY DEF IInv
<1>2. CASE UNCHANGED <<task, sub, eff, answers>>
  BY <1>1, <1>2, SameRows
<1>3. CASE FailTask(t, UnboundToken(task[t]))
  BY <1>1, <1>3, FailStep DEF FailTask, Commit, Settle, ValidExistingTask
<1>4. CASE /\ JoinReady(t)
           /\ Commit(t, JoinedState(task[t]), UnboundToken(task[t]))
           /\ UNCHANGED <<sub, eff, answers>>
  BY <1>1, <1>4, JoinedStep DEF JoinReady, Commit, ValidExistingTask
<1> QED BY <1>2, <1>3, <1>4 DEF JoinStep

\* recover_scheduler_state keeps the rows.
LEMMA RecoverRows ==
  ASSUME IInv, NEW t \in Tasks, RecoverStep(t)
  PROVE  Tables' /\ Rows'
<1>1. Tables /\ Rows
  BY DEF IInv
<1>2. CASE UNCHANGED <<task, sub, eff, answers>>
  BY <1>1, <1>2, SameRows
<1>3. CASE FailTask(t, task[t].token)
  BY <1>1, <1>3, FailStep DEF FailTask, Commit, Settle, ValidExistingTask
<1>4. CASE CancelTerminal(t)
  BY <1>1, <1>4, CancelStep
<1>5. CASE /\ Commit(t, RecoverableState(task[t]), task[t].token)
           /\ UNCHANGED <<sub, eff, answers>>
  BY <1>1, <1>5, RequeueStep DEF Commit, ValidExistingTask
<1> QED BY <1>2, <1>3, <1>4, <1>5 DEF RecoverStep

\* One descendant of a cancellation.
LEMMA CancelChildRows ==
  ASSUME IInv, NEW c \in Tasks, CancelChild(c)
  PROVE  Tables' /\ Rows'
<1>1. Tables /\ Rows
  BY DEF IInv
<1>2. CASE UNCHANGED <<task, sub, eff, answers>>
  BY <1>1, <1>2, SameRows
<1>3. CASE RequestCommit(c)
  BY <1>1, <1>3, RequestStep
<1>4. CASE CloseCommit(c)
  BY <1>1, <1>4, CloseStep
<1> QED BY <1>2, <1>3, <1>4 DEF CancelChild

\* The root of a cancellation.
LEMMA CancelRootRows ==
  ASSUME IInv, CancelRoot
  PROVE  Tables' /\ Rows'
<1>1. Tables /\ Rows /\ line.task \in Tasks
  BY DEF IInv, LineInv, CancelRoot, Cancelling
<1>2. CASE RequestCommit(line.task)
  BY <1>1, <1>2, RequestStep
<1>3. CASE CloseCommit(line.task)
  BY <1>1, <1>3, CloseStep
<1> QED BY <1>2, <1>3 DEF CancelRoot

\* run_task keeps the rows.
LEMMA WorkerStartRows ==
  ASSUME IInv, NEW w \in workers, WorkerStart(w)
  PROVE  Tables' /\ Rows'
<1>1. Tables /\ Rows /\ w.task \in Tasks /\ w.token # 0
  BY DEF IInv, WorkersInv, Worker
<1>2. CASE UNCHANGED <<task, sub>>
  BY <1>1, <1>2, SameRows DEF WorkerStart
<1>3. CASE /\ task[w.task].phase = "dispatching"
           /\ Commit(w.task,
                [task[w.task] EXCEPT !.phase = "running", !.status = "running"],
                BoundToken(task[w.task], w.token))
           /\ Settle(w.task, "running")
  BY <1>1, <1>3, StartStep DEF WorkerStart, Holds, Commit, Settle
<1> QED BY <1>2, <1>3 DEF WorkerStart

\* wait_task behind the barrier keeps the rows.
LEMMA WorkerWaitCancelledRows ==
  ASSUME IInv, NEW w \in workers, WorkerWaitCancelled(w)
  PROVE  Tables' /\ Rows'
<1>1. Tables /\ Rows /\ w.task \in Tasks
  BY DEF IInv, WorkersInv, Worker
<1>2. CASE CancelTerminal(w.task)
  BY <1>1, <1>2, CancelStep
<1>3. CASE /\ Commit(w.task, UnclaimedState(task[w.task]),
                     BoundToken(task[w.task], w.token))
           /\ UNCHANGED <<sub, eff, answers>>
  BY <1>1, <1>3, UnclaimStep DEF Commit, ValidExistingTask
<1> QED BY <1>2, <1>3 DEF WorkerWaitCancelled

\* Every step keeps the tables and their rows.
LEMMA RowsNext ==
  ASSUME IInv, Next
  PROVE  Tables' /\ Rows'
<1>1. Tables /\ Rows /\ proc \in Process /\ workers \subseteq Worker
  BY DEF IInv, WorkersInv
<1>2. ASSUME NEW t \in Tasks, NEW p \in OwnerChoice[t], NEW b \in Abandons, Admit(t, p, b)
      PROVE  Tables' /\ Rows'
  BY <1>1, <1>2, AdmitStep
<1>3. ASSUME NEW t \in Tasks, Claim(t)
      PROVE  Tables' /\ Rows'
  BY <1>1, <1>3, ClaimStep
<1>4. ASSUME NEW t \in Tasks, NEW w \in workers, Unclaim(t, w)
      PROVE  Tables' /\ Rows'
  BY <1>1, <1>4, UnclaimStep DEF Unclaim, Commit, ValidExistingTask
<1>5. ASSUME NEW t \in Tasks, SchedulerFail(t)
      PROVE  Tables' /\ Rows'
  BY <1>1, <1>5, FailStep DEF SchedulerFail, FailTask, Commit, Settle, ValidExistingTask
<1>6. ASSUME NEW t \in Tasks, Requeue(t)
      PROVE  Tables' /\ Rows'
  BY <1>1, <1>6, RequeueStep DEF Requeue, RecoverableState, Commit, ValidExistingTask
<1>7. ASSUME NEW w \in workers, NEW intents \in SUBSET Effects,
             NEW settlements \in SUBSET Effects, NEW op \in OpSteps,
             WorkerRecord(w, intents, settlements, op)
      PROVE  Tables' /\ Rows'
  BY <1>1, <1>7, RecordStep
<1>8. ASSUME NEW w \in workers, WorkerFail(w)
      PROVE  Tables' /\ Rows'
  <2>1. w.task \in Tasks
    BY <1>1 DEF Worker
  <2> QED BY <1>1, <1>8, <2>1, FailStep
          DEF WorkerFail, FailTask, Commit, Settle, ValidExistingTask
<1>9. ASSUME NEW w \in workers, NEW answered \in Parks, WorkerPark(w, answered)
      PROVE  Tables' /\ Rows'
  BY <1>1, <1>9, ParkStep, ParksAssumption
<1>10. ASSUME NEW w \in workers, NEW list \in WaitLists, NEW policy \in JoinPolicies,
              WorkerJoin(w, list, policy)
       PROVE  Tables' /\ Rows'
  BY <1>1, <1>10, WaitStep
<1>11. ASSUME NEW t \in Tasks, RequestCancel(t) \/ CancelTask(t)
       PROVE  Tables' /\ Rows'
  BY <1>1, <1>11, SameRows DEF RequestCancel, CancelTask
<1>12. ASSUME NEW w \in workers, WorkerCancel(w) \/ WorkerComplete(w) \/ WorkerExit(w)
       PROVE  Tables' /\ Rows'
  BY <1>1, <1>12, SameRows DEF WorkerCancel, WorkerComplete, WorkerExit
<1>13. ASSUME \/ CancelConflict \/ ReconcileBegin \/ FinalizeBegin \/ Crash
              \/ RecoverDone \/ \E p \in Pids : Restart(p)
       PROVE  Tables' /\ Rows'
  BY <1>1, <1>13, SameRows
     DEF CancelConflict, ReconcileBegin, FinalizeBegin, Crash, RecoverDone, Restart
<1> QED
  BY <1>2, <1>3, <1>4, <1>5, <1>6, <1>7, <1>8, <1>9, <1>10, <1>11, <1>12, <1>13,
     CompleteRows, FinalizeRows, JoinRows, RecoverRows, CancelChildRows,
     CancelRootRows, WorkerStartRows, WorkerWaitCancelledRows
     DEF Next

-----------------------------------------------------------------------------
(* Workers, the mutation line and the process.                             *)

\* A worker that moves on keeps its attempt.
LEMMA AtWorkers ==
  ASSUME WorkersInv, NEW w \in workers,
         NEW stage \in {"queued", "live", "settled", "closing"},
         workers' = At(w, stage)
  PROVE  WorkersInv'
BY DEF WorkersInv, At, Worker

\* Every worker is bound to a real attempt.
LEMMA WorkersNext ==
  ASSUME IInv, Next
  PROVE  WorkersInv'
<1>1. WorkersInv /\ Tables
  BY DEF IInv
<1>2. CASE workers' \subseteq workers
  BY <1>1, <1>2 DEF WorkersInv
<1>3. ASSUME NEW t \in Tasks, Claim(t)
      PROVE  WorkersInv'
  <2>1. task[t].attempt \in Nat
    BY <1>1 DEF Tables, Checkpoint
  <2> QED BY <1>1, <1>3, <2>1 DEF WorkersInv, Claim, Worker
<1>4. ASSUME NEW w \in workers,
             \/ WorkerStart(w) \/ WorkerFail(w) \/ WorkerCancel(w) \/ WorkerComplete(w)
             \/ WorkerWaitCancelled(w)
             \/ \E answered \in Parks : WorkerPark(w, answered)
             \/ \E list \in WaitLists, policy \in JoinPolicies : WorkerJoin(w, list, policy)
      PROVE  WorkersInv'
  <2>1. \E stage \in {"queued", "live", "settled", "closing"} : workers' = At(w, stage)
    BY <1>4 DEF WorkerStart, WorkerFail, WorkerCancel, WorkerComplete,
                WorkerWaitCancelled, WorkerPark, WorkerJoin
  <2> QED BY <1>1, <2>1, AtWorkers
<1>5. ASSUME NEW t \in Tasks,
             \/ \E p \in OwnerChoice[t], b \in Abandons : Admit(t, p, b)
             \/ \E w \in workers : Unclaim(t, w)
             \/ SchedulerFail(t) \/ Requeue(t) \/ RequestCancel(t) \/ CancelTask(t)
             \/ CancelChild(t) \/ JoinStep(t) \/ FinalizeStep(t) \/ RecoverStep(t)
      PROVE  workers' \subseteq workers
  BY <1>5 DEF Admit, Unclaim, SchedulerFail, Requeue, RequestCancel, CancelTask,
              CancelChild, JoinStep, FinalizeStep, RecoverStep
<1>6. ASSUME NEW w \in workers,
             \/ WorkerExit(w)
             \/ \E intents, settlements \in SUBSET Effects, op \in OpSteps :
                  WorkerRecord(w, intents, settlements, op)
      PROVE  workers' \subseteq workers
  BY <1>6 DEF WorkerExit, WorkerRecord
<1>7. ASSUME \/ CompleteStep \/ CancelRoot \/ CancelConflict \/ ReconcileBegin
             \/ FinalizeBegin \/ Crash \/ RecoverDone \/ \E p \in Pids : Restart(p)
      PROVE  workers' \subseteq workers
  BY <1>7 DEF CompleteStep, CancelRoot, CancelConflict, ReconcileBegin,
              FinalizeBegin, Crash, RecoverDone, Restart
<1> QED BY <1>2, <1>3, <1>4, <1>5, <1>6, <1>7 DEF Next

\* An operation that takes the line names its task and its attempt.
LEMMA BusyLine ==
  ASSUME NEW op \in LineOps, NEW t \in Tasks \union {NoTask}, NEW token \in Nat,
         NEW todo \in SUBSET Tasks,
         op \in {"request_cancel", "cancel_task", "complete"} => t \in Tasks,
         op = "complete" => token # 0,
         line' = Busy(op, t, token, todo)
  PROVE  LineInv'
BY DEF LineInv, Line, Busy

\* The operation on the line stays well formed.
LEMMA LineNext ==
  ASSUME IInv, Next
  PROVE  LineInv'
<1>1. LineInv /\ WorkersInv
  BY DEF IInv
<1>2. CASE line' = Idle
  BY <1>2 DEF LineInv, Line, Idle, LineOps
<1>3. CASE line' = line
  BY <1>1, <1>3 DEF LineInv
<1>4. ASSUME NEW t \in Tasks, line' = [line EXCEPT !.todo = @ \ {t}]
      PROVE  LineInv'
  BY <1>1, <1>4 DEF LineInv, Line
<1>5. ASSUME NEW t \in Tasks, RequestCancel(t)
      PROVE  LineInv'
  BY <1>5, BusyLine DEF RequestCancel, LiveBelow, LineOps
<1>6. ASSUME NEW t \in Tasks, CancelTask(t)
      PROVE  LineInv'
  BY <1>6, BusyLine DEF CancelTask, LiveBelow, LineOps
<1>7. ASSUME NEW w \in workers, WorkerCancel(w)
      PROVE  LineInv'
  <2>1. w.task \in Tasks
    BY <1>1 DEF WorkersInv, Worker
  <2> QED BY <1>7, <2>1, BusyLine DEF WorkerCancel, LiveBelow, LineOps
<1>8. ASSUME NEW w \in workers, WorkerComplete(w)
      PROVE  LineInv'
  <2>1. w.task \in Tasks /\ w.token \in Nat /\ w.token # 0
    BY <1>1 DEF WorkersInv, Worker
  <2> QED BY <1>8, <2>1, BusyLine DEF WorkerComplete, LineOps
<1>9. CASE ReconcileBegin \/ FinalizeBegin
  <2>1. FinalizationQueue \in SUBSET Tasks
    BY DEF FinalizationQueue
  <2>2. CASE line' = Busy("join", NoTask, 0, FinalizationQueue)
    BY <2>1, <2>2, BusyLine DEF LineOps
  <2>3. CASE line' = Busy("finalize", NoTask, 0, FinalizationQueue)
    BY <2>1, <2>3, BusyLine DEF LineOps
  <2> QED BY <1>2, <1>9, <2>2, <2>3 DEF ReconcileBegin, FinalizeBegin
<1>10. CASE \E p \in Pids : Restart(p)
  BY <1>10, BusyLine DEF Restart, LineOps
<1>11. ASSUME NEW t \in Tasks,
              \/ \E p \in OwnerChoice[t], b \in Abandons : Admit(t, p, b)
              \/ Claim(t) \/ SchedulerFail(t) \/ Requeue(t)
              \/ \E w \in workers : Unclaim(t, w)
       PROVE  line' = line
  BY <1>11 DEF Admit, Claim, SchedulerFail, Requeue, Unclaim
<1>12. ASSUME NEW t \in Tasks,
              CancelChild(t) \/ JoinStep(t) \/ FinalizeStep(t) \/ RecoverStep(t)
       PROVE  line' = Idle \/ line' = [line EXCEPT !.todo = @ \ {t}]
  BY <1>12 DEF CancelChild, JoinStep, FinalizeStep, RecoverStep, Rest
<1>13. ASSUME NEW w \in workers,
              \/ WorkerStart(w) \/ WorkerFail(w) \/ WorkerWaitCancelled(w) \/ WorkerExit(w)
              \/ \E answered \in Parks : WorkerPark(w, answered)
              \/ \E list \in WaitLists, policy \in JoinPolicies : WorkerJoin(w, list, policy)
              \/ \E intents, settlements \in SUBSET Effects, op \in OpSteps :
                   WorkerRecord(w, intents, settlements, op)
       PROVE  line' = line
  BY <1>13 DEF WorkerStart, WorkerFail, WorkerWaitCancelled, WorkerExit,
               WorkerPark, WorkerJoin, WorkerRecord
<1>14. ASSUME CompleteStep \/ CancelRoot \/ CancelConflict \/ Crash \/ RecoverDone
       PROVE  line' = Idle \/ line' = line
  BY <1>14 DEF CompleteStep, CancelRoot, CancelConflict, Crash, RecoverDone
<1> QED BY <1>2, <1>3, <1>4, <1>5, <1>6, <1>7, <1>8, <1>9, <1>10, <1>11, <1>12,
           <1>13, <1>14 DEF Next

\* Only a crash and a restart change the process.
LEMMA ProcessNext ==
  ASSUME IInv, Next
  PROVE  proc' \in Process
<1>1. proc \in Process
  BY DEF IInv
<1>2. CASE Crash
  BY <1>1, <1>2 DEF Crash, Process
<1>3. CASE \E p \in Pids : Restart(p)
  BY <1>1, <1>3, PidsAssumption DEF Restart, Process
<1>4. CASE proc' = proc
  BY <1>1, <1>4
<1>5. ASSUME NEW t \in Tasks,
             \/ \E p \in OwnerChoice[t], b \in Abandons : Admit(t, p, b)
             \/ \E w \in workers : Unclaim(t, w)
             \/ Claim(t) \/ SchedulerFail(t) \/ Requeue(t) \/ RequestCancel(t)
             \/ CancelTask(t) \/ CancelChild(t) \/ JoinStep(t) \/ FinalizeStep(t)
             \/ RecoverStep(t)
      PROVE  proc' = proc
  BY <1>5 DEF Admit, Claim, Unclaim, SchedulerFail, Requeue, RequestCancel, CancelTask,
              CancelChild, JoinStep, FinalizeStep, RecoverStep
<1>6. ASSUME NEW w \in workers,
             \/ WorkerStart(w) \/ WorkerFail(w) \/ WorkerCancel(w) \/ WorkerComplete(w)
             \/ WorkerWaitCancelled(w) \/ WorkerExit(w)
             \/ \E answered \in Parks : WorkerPark(w, answered)
             \/ \E list \in WaitLists, policy \in JoinPolicies : WorkerJoin(w, list, policy)
             \/ \E intents, settlements \in SUBSET Effects, op \in OpSteps :
                  WorkerRecord(w, intents, settlements, op)
      PROVE  proc' = proc
  BY <1>6 DEF WorkerStart, WorkerFail, WorkerCancel, WorkerComplete,
              WorkerWaitCancelled, WorkerExit, WorkerPark, WorkerJoin, WorkerRecord
<1>7. ASSUME \/ CompleteStep \/ CancelRoot \/ CancelConflict \/ ReconcileBegin
             \/ FinalizeBegin \/ RecoverDone
      PROVE  proc' = proc
  BY <1>7 DEF CompleteStep, CancelRoot, CancelConflict, ReconcileBegin,
              FinalizeBegin, RecoverDone
<1> QED BY <1>2, <1>3, <1>4, <1>5, <1>6, <1>7 DEF Next

-----------------------------------------------------------------------------
\* An empty store satisfies the invariant.
LEMMA IInvInit ==
  ASSUME Init
  PROVE  IInv
<1>1. <<>> \in Seq(Tasks)
  OBVIOUS
<1>2. Absent \in Checkpoint
  BY <1>1 DEF Absent, Checkpoint, Operations
<1>3. Tables
  BY <1>2 DEF Init, Tables, SubmissionStatuses
<1>4. Rows
  <2>1. ASSUME NEW t \in Tasks
        PROVE  RowInv(Absent, "queued", [e \in Effects |-> "none"], 0)
    BY DEF RowInv, Told, Owned, Absent
  <2> QED BY <2>1 DEF Init, Rows
<1>5. WorkersInv
  BY DEF Init, WorkersInv
<1>6. LineInv
  BY DEF Init, LineInv, Line, Idle, LineOps
<1>7. proc \in Process
  <2>1. proc = [up |-> TRUE, epoch |-> 1, pid |-> FirstPid]
    BY DEF Init
  <2>2. FirstPid \in Nat
    BY PidsAssumption
  <2> QED BY <2>1, <2>2 DEF Process
<1> QED BY <1>3, <1>4, <1>5, <1>6, <1>7 DEF IInv

\* Every step keeps the invariant.
LEMMA IInvNext ==
  ASSUME IInv, [Next]_vars
  PROVE  IInv'
<1>1. CASE Next
  BY <1>1, RowsNext, WorkersNext, LineNext, ProcessNext DEF IInv
<1>2. CASE UNCHANGED vars
  <2>1. Tables' /\ Rows'
    BY <1>2, SameRows DEF IInv, vars
  <2> QED BY <1>2, <2>1 DEF IInv, vars, WorkersInv, LineInv
<1> QED BY <1>1, <1>2

(* The rows of the store, the workers and the line keep the relations the   *)
(* commits of session.py rest on.                                           *)
THEOREM Inductive == Spec => []IInv
<1>1. Init => IInv
  BY IInvInit
<1>2. IInv /\ [Next]_vars => IInv'
  BY IInvNext
<1> QED BY <1>1, <1>2, PTL DEF Spec

(* Every row, worker and line of the kernel stays well typed, whatever the  *)
(* tasks, effects and bounds are.                                           *)
THEOREM TypeCorrect == Spec => []TypeOK
<1>1. IInv => TypeOK
  BY DEF IInv, Tables, WorkersInv, LineInv, TypeOK
<1> QED BY <1>1, Inductive, PTL

(* The submission row tells the outcome of its task at every moment, and a  *)
(* completed task has exactly one assistant entry.                          *)
THEOREM OutcomesAgree == Spec => []OutcomeAgrees
<1>1. IInv => OutcomeAgrees
  BY DEF IInv, Rows, RowInv, Told, OutcomeAgrees
<1> QED BY <1>1, Inductive, PTL

(* pending_effect_ids names exactly the effect rows without a settlement.   *)
THEOREM ReceiptsAgree == Spec => []EffectsAgree
<1>1. IInv => EffectsAgree
  BY DEF IInv, Rows, RowInv, EffectsAgree, Unsettled
<1> QED BY <1>1, Inductive, PTL

(* An attempt token is the newest attempt's, and is held exactly while that *)
(* attempt runs or has completed the task.                                  *)
THEOREM AttemptsOwned == Spec => []AttemptOwnership
<1>1. IInv => AttemptOwnership
  BY DEF IInv, Rows, RowInv, Owned, AttemptOwnership
<1> QED BY <1>1, Inductive, PTL
=============================================================================
