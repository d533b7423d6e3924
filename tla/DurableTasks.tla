---------------------------- MODULE DurableTasks ----------------------------
(***************************************************************************)
(* The durable task kernel of Codey: DurableSession (session.py) over the  *)
(* SQLite store (sqlite.py).  Every session operation holds the session's  *)
(* mutation line for its whole duration, and every commit inside it is one *)
(* SQLite transaction.  So an operation with a single commit is one action *)
(* here, and an operation with several commits takes the variable line and *)
(* performs them one step at a time: nothing of the same process comes in  *)
(* between, but the process can die between any two of them.               *)
(*                                                                         *)
(* Actors: callers (admission, Stop), the scheduler (claim, unclaim, join  *)
(* and finalization passes), workers bound to one execution attempt, and a *)
(* process that crashes and restarts.                                      *)
(***************************************************************************)
EXTENDS TaskModel

CONSTANTS
  Tasks,        \* task identities callers may admit
  NoTask,       \* "no owner"
  Effects,      \* effect identities, per task
  Pids,         \* process ids the operating system may hand out
  FirstPid,     \* the pid of the first of these processes
  PidReuse,     \* may a process get the pid a stored attempt names?
  OwnerChoice,  \* OwnerChoice[t]: the owner_task_id arguments tried for t
  WaitLists,    \* the "on" arguments tried for wait_task
  JoinPolicies, \* the join_policy arguments tried for wait_task
  Abandons,     \* the abandon_on_restart arguments tried at admission
  OpSteps,      \* the operation positions workers may record
  Parks,        \* the "already answered" cases tried for wait_task
  Stops,        \* tasks a caller may stop
  Faults,       \* tasks whose dispatch may fail
  MaxAttempt,   \* bound: claims per task
  MaxEpoch      \* bound: process incarnations

ASSUME NoTaskAssumption == NoTask \notin Tasks
ASSUME PidsAssumption == Pids \subseteq Nat \ {0} /\ FirstPid \in Pids
ASSUME PidReuseAssumption == PidReuse \in BOOLEAN
ASSUME OwnerChoiceAssumption ==
  OwnerChoice \in [Tasks -> SUBSET (Tasks \union {NoTask})]
ASSUME WaitListsAssumption == WaitLists \subseteq Seq(Tasks)
ASSUME JoinPoliciesAssumption == JoinPolicies \subseteq {"allSettled", "failFast"}
ASSUME AbandonsAssumption == Abandons \subseteq BOOLEAN
ASSUME OpStepsAssumption == OpSteps \subseteq Operations \ {"none"}
ASSUME ParksAssumption == Parks \subseteq BOOLEAN
ASSUME StopsAssumption == Stops \subseteq Tasks
ASSUME FaultsAssumption == Faults \subseteq Tasks
ASSUME BoundsAssumption == MaxAttempt \in Nat /\ MaxEpoch \in Nat

VARIABLES
  task,     \* the tasks table
  sub,      \* status of each task's submission row
  eff,      \* the effects table: eff[t][e]
  answers,  \* assistant_message entries committed by each task's completion
  workers,  \* workers of this process, bound to an attempt by execution()
  line,     \* the multi-commit operation that holds the mutation line
  proc      \* the process: alive or not, its incarnation and pid

vars == <<task, sub, eff, answers, workers, line, proc>>

Checkpoint ==
  [phase   : Phases \union {"none"},
   status  : Statuses \union {"none"},
   attempt : Nat,                     \* attempt_number
   token   : Nat,                     \* attempt_token; 0 is the empty token
   owner   : Nat,                     \* attempt_owner; 0 is the empty owner
   pid     : Nat,                     \* attempt_process_id
   cancel  : BOOLEAN,                 \* cancel_requested
   parent  : Tasks \union {NoTask},   \* owner_task_id
   above   : SUBSET Tasks,            \* closure of the frozen owner edges
   on      : Seq(Tasks),              \* waiting_on
   policy  : {"allSettled", "failFast"},
   join    : BOOLEAN,                 \* join_wait
   pend    : SUBSET Effects,          \* pending_effect_ids
   op      : Operations,
   held    : BOOLEAN,
   abandon : BOOLEAN]

\* queued: dispatched, not yet executed; live: past its first checks;
\* settled: it has called complete_task or wait_task; closing: its last
\* settlement is behind it, only tail writes are left.
Worker == [task : Tasks, token : Nat,
           stage : {"queued", "live", "settled", "closing"}]

LineOps == {"idle", "request_cancel", "cancel_task", "complete",
            "join", "finalize", "recover"}

Line == [op : LineOps, task : Tasks \union {NoTask}, token : Nat,
         todo : SUBSET Tasks]

Process == [up : BOOLEAN, epoch : Nat, pid : Nat]

Absent ==
  [phase |-> "none", status |-> "none", attempt |-> 0, token |-> 0,
   owner |-> 0, pid |-> 0, cancel |-> FALSE, parent |-> NoTask, above |-> {},
   on |-> <<>>, policy |-> "allSettled", join |-> FALSE, pend |-> {},
   op |-> "none", held |-> FALSE, abandon |-> FALSE]

Idle == [op |-> "idle", task |-> NoTask, token |-> 0, todo |-> {}]

Busy(op, t, token, todo) ==
  [op |-> op, task |-> t, token |-> token, todo |-> todo]

Init ==
  /\ task = [t \in Tasks |-> Absent]
  /\ sub = [t \in Tasks |-> "queued"]
  /\ eff = [t \in Tasks |-> [e \in Effects |-> "none"]]
  /\ answers = [t \in Tasks |-> 0]
  /\ workers = {}
  /\ line = Idle
  /\ proc = [up |-> TRUE, epoch |-> 1, pid |-> FirstPid]

-----------------------------------------------------------------------------
(* Reads.                                                                  *)

Admitted(t) == task[t].phase # "none"

\* A single-commit operation of a usable session can start.
Ready == proc.up /\ line = Idle

LiveBelow(t) == {d \in Tasks : t \in task[d].above /\ Live(task[d])}

Unsettled(t) == {e \in Effects : eff[t][e] = "pending"}

Settled(k) == k.status \in Terminal /\ k.token = 0

\* Mutant: whatever token is stored is taken for the worker's own.
BoundTokenUnfenced(k, token) == k.token

\* The token _commit expects when the caller names none: the worker's own
\* attempt, or for an unbound caller the attempt this session owns.
BoundToken(k, token) == IF Settled(k) THEN 0 ELSE token

\* Mutant: a caller without an attempt never presents one.
UnboundTokenEmpty(k) == 0

UnboundToken(k) ==
  IF Settled(k) THEN 0 ELSE IF k.owner = proc.epoch THEN k.token ELSE 0

-----------------------------------------------------------------------------
(* Commits: one transaction each.                                          *)

Commit(t, n, expected) ==
  /\ ValidExistingTask(task[t], n, expected)
  /\ task' = [task EXCEPT ![t] = n]

Settle(t, status) ==
  /\ ValidSubmissionTransition(sub[t], status)
  /\ sub' = [sub EXCEPT ![t] = status]

CancelledState(k) ==
  Released([k EXCEPT !.phase = "cancelled", !.status = "cancelled",
                     !.cancel = TRUE])

\* _cancel_terminal, guard and commit.
CanCancelTerminal(t) ==
  /\ task[t].pend = Unsettled(t)
  /\ ValidExistingTask(task[t], CancelledState(task[t]), task[t].token)

\* Mutant: a status the submission table does not know.
CancelTerminalMisspelt(t) ==
  /\ CanCancelTerminal(t)
  /\ task' = [task EXCEPT ![t] = CancelledState(task[t])]
  /\ sub' = [sub EXCEPT ![t] = "canceled"]
  /\ UNCHANGED <<eff, answers>>

CancelTerminal(t) ==
  /\ CanCancelTerminal(t)
  /\ task' = [task EXCEPT ![t] = CancelledState(task[t])]
  /\ sub' = [sub EXCEPT ![t] = IF @ \in {"queued", "running"}
                               THEN "cancelled" ELSE @]
  /\ UNCHANGED <<eff, answers>>

\* Mutant: a failure that forgets the receipts it cannot judge.
FailedStateDropsReceipts(k) ==
  Released([k EXCEPT !.phase = "failed", !.status = "failed", !.pend = {}])

FailedState(k) ==
  Released([k EXCEPT !.phase = "failed", !.status = "failed"])

\* fail_task: stops scheduling, keeps the pending receipts.
CanFail(t, expected) ==
  /\ task[t].pend = Unsettled(t)
  /\ ValidExistingTask(task[t], FailedState(task[t]), expected)
  /\ ValidSubmissionTransition(sub[t], "unanswered")

FailTask(t, expected) ==
  /\ CanFail(t, expected)
  /\ Commit(t, FailedState(task[t]), expected)
  /\ Settle(t, "unanswered")
  /\ UNCHANGED <<eff, answers>>

-----------------------------------------------------------------------------
(* Admission, claim and release.                                           *)

\* Mutant: a repeated request is admitted again.
AdmitRepeated(t, p, a) ==
  /\ Ready
  /\ p # t
  /\ p # NoTask => Admitted(p)
  /\ task' = [task EXCEPT ![t] =
       [Absent EXCEPT !.phase = "accepted", !.status = "pending",
                      !.parent = p, !.abandon = a]]
  /\ UNCHANGED <<sub, eff, answers, workers, line, proc>>

Admit(t, p, a) ==
  /\ Ready
  /\ ~Admitted(t)
  /\ p # t
  /\ p # NoTask => Admitted(p)
  /\ task' = [task EXCEPT ![t] =
       [Absent EXCEPT !.phase = "accepted", !.status = "pending",
                      !.parent = p, !.abandon = a,
                      !.above = IF p = NoTask THEN {}
                                ELSE task[p].above \union {p}]]
  /\ UNCHANGED <<sub, eff, answers, workers, line, proc>>

ClaimedState(k) ==
  [k EXCEPT !.phase = IF @ = "accepted" THEN "dispatching" ELSE @,
            !.status = "running", !.attempt = @ + 1, !.token = k.attempt + 1,
            !.owner = proc.epoch, !.pid = proc.pid]

\* claim_task; the host queues one worker for the attempt.
Claim(t) ==
  /\ Ready
  /\ task[t].status = "pending"
  /\ task[t].attempt < MaxAttempt
  /\ Commit(t, ClaimedState(task[t]), task[t].token)
  /\ workers' = workers \union
       {[task |-> t, token |-> task[t].attempt + 1, stage |-> "queued"]}
  /\ UNCHANGED <<sub, eff, answers, line, proc>>

UnclaimedState(k) ==
  Released([k EXCEPT !.phase = IF @ = "dispatching" THEN "accepted" ELSE @,
                     !.status = "pending"])

\* A dispatch that was refused (no worker started) or that raised (its worker
\* may be running all the same) gives the claim back.
Unclaim(t, w) ==
  /\ Ready
  /\ t \in Faults
  /\ w.task = t
  /\ w.token = task[t].token
  /\ task[t].status = "running"
  /\ Commit(t, UnclaimedState(task[t]), UnboundToken(task[t]))
  /\ \/ workers' = workers
     \/ w.stage = "queued" /\ workers' = workers \ {w}
  /\ UNCHANGED <<sub, eff, answers, line, proc>>

\* The scheduler fails a task after its dispatch budget is spent.
SchedulerFail(t) ==
  /\ Ready
  /\ t \in Faults
  /\ Live(task[t])
  /\ FailTask(t, task[t].token)
  /\ UNCHANGED <<workers, line, proc>>

-----------------------------------------------------------------------------
(* Workers.                                                                *)

At(w, stage) == (workers \ {w}) \union {[w EXCEPT !.stage = stage]}

Holds(w) == task[w.task].token = w.token /\ task[w.task].status = "running"

\* run_task: a dispatched worker that still holds its attempt starts a fresh
\* task; one that resumes a parked task goes on from its checkpoint.
WorkerStart(w) ==
  /\ Ready
  /\ w.stage = "queued"
  /\ Holds(w)
  /\ \/ /\ task[w.task].phase = "dispatching"
        /\ ~task[w.task].cancel
        /\ Commit(w.task,
                  [task[w.task] EXCEPT !.phase = "running", !.status = "running"],
                  BoundToken(task[w.task], w.token))
        /\ Settle(w.task, "running")
     \/ /\ task[w.task].phase # "dispatching"
        /\ UNCHANGED <<task, sub>>
  /\ workers' = At(w, "live")
  /\ UNCHANGED <<eff, answers, line, proc>>

\* A worker returns without a settlement when its attempt is over or when the
\* barrier refuses its start_task.
WorkerExit(w) ==
  /\ proc.up
  /\ \/ ~Holds(w)
     \/ w.stage = "closing"
     \/ /\ w.stage = "queued"
        /\ task[w.task].phase = "dispatching"
        /\ task[w.task].cancel
  /\ workers' = workers \ {w}
  /\ UNCHANGED <<task, sub, eff, answers, line, proc>>

\* One runtime mutation (transact_task through mutate_checkpoint, and
\* record_effect_intents and settle_effect): new intents, settlements and
\* the operation position share one commit.
WorkerRecord(w, intents, settlements, op) ==
  LET t == w.task
      k == task[t]
      n == [k EXCEPT !.pend = (@ \union intents) \ settlements, !.op = op]
  IN /\ Ready
     /\ w.stage # "queued"
     /\ \A e \in intents : eff[t][e] = "none"
     /\ \A e \in settlements : eff[t][e] = "pending"
     /\ intents # {} => k.status = "running" /\ AdmitsEffects(k)
     /\ op = "open" => n.pend = {}
     /\ Commit(t, n, BoundToken(k, w.token))
     /\ eff' = [eff EXCEPT ![t] = [e \in Effects |->
          IF e \in intents THEN "pending"
          ELSE IF e \in settlements THEN "settled" ELSE @[e]]]
     /\ UNCHANGED <<sub, answers, workers, line, proc>>

WorkerFail(w) ==
  /\ Ready
  /\ w.stage \in {"live", "settled"}
  /\ FailTask(w.task, BoundToken(task[w.task], w.token))
  /\ workers' = At(w, "closing")
  /\ UNCHANGED <<line, proc>>

\* complete_task takes the line; CompleteStep performs its commits.
WorkerComplete(w) ==
  /\ Ready
  /\ w.stage = "live"
  /\ line' = Busy("complete", w.task, w.token, {})
  /\ workers' = At(w, "settled")
  /\ UNCHANGED <<task, sub, eff, answers, proc>>

InList(t, s) == \E i \in DOMAIN s : s[i] = t

\* Mutant: only the direct dependency is looked at.
WaitCycleDirect(t, d) == InList(t, task[d].on)

\* The cycle check of wait_task: from dependency d it follows only the first
\* dependency of each waiting task.
WaitCycle(t, d) ==
  LET walk[i \in 0 .. Cardinality(Tasks)] ==
        IF i = 0 THEN d
        ELSE IF task[walk[i-1]].on = <<>> THEN walk[i-1]
        ELSE Head(task[walk[i-1]].on)
  IN \E i \in 0 .. Cardinality(Tasks) : InList(t, task[walk[i]].on)

CanWait(w) ==
  /\ Ready
  /\ w.stage = "live"
  /\ task[w.task].status \in {"running", "pending"}

\* wait_task for an external decision; "answered" is a question answered
\* while the worker was still on its way here.
WorkerPark(w, answered) ==
  /\ CanWait(w)
  /\ ~task[w.task].cancel
  /\ Commit(w.task,
            Released([task[w.task] EXCEPT !.join = FALSE, !.policy = "allSettled",
               !.status = IF answered THEN "pending" ELSE "waiting"]),
            task[w.task].token)
  /\ workers' = At(w, "settled")
  /\ UNCHANGED <<sub, eff, answers, line, proc>>

\* Mutant: a join that keeps the attempt it gives up.
WorkerJoinKeepsAttempt(w, list, policy) ==
  /\ CanWait(w)
  /\ ~task[w.task].cancel
  /\ \A i \in DOMAIN list : /\ list[i] # w.task
                            /\ Admitted(list[i])
                            /\ ~WaitCycle(w.task, list[i])
  /\ Commit(w.task,
            [task[w.task] EXCEPT !.on = list, !.policy = policy,
                                 !.join = TRUE, !.status = "waiting"],
            task[w.task].token)
  /\ workers' = At(w, "settled")
  /\ UNCHANGED <<sub, eff, answers, line, proc>>

\* wait_task(on=...) joins other tasks.
WorkerJoin(w, list, policy) ==
  /\ CanWait(w)
  /\ ~task[w.task].cancel
  /\ \A i \in DOMAIN list : /\ list[i] # w.task
                            /\ Admitted(list[i])
                            /\ ~WaitCycle(w.task, list[i])
  /\ Commit(w.task,
            Released([task[w.task] EXCEPT !.on = list, !.policy = policy,
                                          !.join = TRUE, !.status = "waiting"]),
            task[w.task].token)
  /\ workers' = At(w, "settled")
  /\ UNCHANGED <<sub, eff, answers, line, proc>>

\* wait_task behind the barrier: leave cleanup to a later attempt, or cancel.
WorkerWaitCancelled(w) ==
  /\ CanWait(w)
  /\ task[w.task].cancel
  /\ \/ /\ KernelCleanupRequired(task[w.task])
        /\ task[w.task].status = "running"
        /\ Commit(w.task, UnclaimedState(task[w.task]),
                  BoundToken(task[w.task], w.token))
        /\ UNCHANGED <<sub, eff, answers>>
     \/ /\ ~KernelCleanupRequired(task[w.task])
        /\ CancelTerminal(w.task)
  /\ workers' = At(w, "settled")
  /\ UNCHANGED <<line, proc>>

\* Mutant: a decision that also ends a join.
RequeueJoined(t) ==
  /\ Ready
  /\ task[t].status = "waiting"
  /\ Commit(t, Released([task[t] EXCEPT !.status = "pending"]), task[t].token)
  /\ UNCHANGED <<sub, eff, answers, workers, line, proc>>

\* An answered question or a settled approval admits the continuation.
Requeue(t) ==
  /\ Ready
  /\ task[t].status = "waiting"
  /\ ~task[t].join
  /\ Commit(t, Released([task[t] EXCEPT !.status = "pending"]), task[t].token)
  /\ UNCHANGED <<sub, eff, answers, workers, line, proc>>

-----------------------------------------------------------------------------
(* complete_task, finish_task and _hold_completion, commit by commit.      *)

\* Mutant: completion that waits for its direct children only.
CompletionNextShallow(t) ==
  LET k == task[t] IN
  CASE k.phase # "completion_pending" ->
         [k EXCEPT !.phase = "completion_pending", !.status = "completing"]
    [] k.phase = "completion_pending"
       /\ \E d \in Tasks : task[d].parent = t /\ Live(task[d]) ->
         [k EXCEPT !.status = "completing", !.held = TRUE]
    [] OTHER ->
         [k EXCEPT !.phase = "completed", !.status = "completed"]

CompletionNext(t) ==
  LET k == task[t] IN
  CASE k.phase \in {"accepted", "dispatching"} ->
         [k EXCEPT !.phase = "running", !.status = "running"]
    [] k.phase \notin {"accepted", "dispatching", "completion_pending"} ->
         [k EXCEPT !.phase = "completion_pending", !.status = "completing"]
    [] k.phase = "completion_pending" /\ LiveBelow(t) # {} ->
         [k EXCEPT !.status = "completing", !.held = TRUE]
    [] OTHER ->
         [k EXCEPT !.phase = "completed", !.status = "completed"]

\* Mutant: the submission is done one commit too early.
CompletionOutcomeEarly(t) ==
  IF CompletionNext(t).phase = "running" THEN "running" ELSE "done"

\* The submission update that travels with that commit.
CompletionOutcome(t) ==
  CASE CompletionNext(t).phase = "running"   -> "running"
    [] CompletionNext(t).phase = "completed" -> "done"
    [] OTHER                                 -> sub[t]

\* advance_task refuses to move a task behind the barrier.
CanAdvance(t, expected) ==
  /\ ~task[t].cancel
  /\ ValidExistingTask(task[t], CompletionNext(t), expected)
  /\ ValidSubmissionTransition(sub[t], CompletionOutcome(t))

AdvanceCompletion(t, expected) ==
  /\ CanAdvance(t, expected)
  /\ task' = [task EXCEPT ![t] = CompletionNext(t)]
  /\ sub' = [sub EXCEPT ![t] = CompletionOutcome(t)]
  /\ answers' = [answers EXCEPT ![t] =
       IF CompletionNext(t).phase = "completed" THEN @ + 1 ELSE @]
  /\ UNCHANGED eff

CompleteStep ==
  LET t == line.task
      expected == BoundToken(task[t], line.token)
  IN /\ proc.up
     /\ line.op = "complete"
     /\ \/ /\ AdvanceCompletion(t, expected)
           /\ line' = IF \/ CompletionNext(t).phase = "completed"
                         \/ task[t].phase = "completion_pending"
                      THEN Idle ELSE line
        \/ /\ ~CanAdvance(t, expected)        \* CommitConflict
           /\ line' = Idle
           /\ UNCHANGED <<task, sub, eff, answers>>
     /\ UNCHANGED <<workers, proc>>

-----------------------------------------------------------------------------
(* Cancellation: request_cancel and cancel_task walk the ownership subtree *)
(* deepest children first, then commit the root.                           *)

\* Mutant: a Stop that reaches the direct children only.
RequestCancelShallow(t) ==
  /\ Ready
  /\ t \in Stops
  /\ Live(task[t])
  /\ ~task[t].cancel
  /\ line' = Busy("request_cancel", t, 0,
                  {d \in LiveBelow(t) : task[d].parent = t})
  /\ UNCHANGED <<task, sub, eff, answers, workers, proc>>

\* request_cancel returns at once for a settled task or a repeated Stop.
RequestCancel(t) ==
  /\ Ready
  /\ t \in Stops
  /\ Live(task[t])
  /\ ~task[t].cancel
  /\ line' = Busy("request_cancel", t, 0, LiveBelow(t))
  /\ UNCHANGED <<task, sub, eff, answers, workers, proc>>

\* The scheduler closes a requested cancellation that needs no cleanup.
CancelTask(t) ==
  /\ Ready
  /\ Live(task[t])
  /\ task[t].cancel
  /\ ~KernelCleanupRequired(task[t])
  /\ line' = Busy("cancel_task", t, 0, LiveBelow(t))
  /\ UNCHANGED <<task, sub, eff, answers, workers, proc>>

\* A worker whose run ends behind the barrier closes it, once.
WorkerCancel(w) ==
  /\ Ready
  /\ w.stage \in {"live", "settled"}
  /\ Live(task[w.task])
  /\ task[w.task].cancel
  /\ line' = Busy("cancel_task", w.task, 0, LiveBelow(w.task))
  /\ workers' = At(w, "closing")
  /\ UNCHANGED <<task, sub, eff, answers, proc>>

\* The owner keeps its status while the tree below it drains.
HeldState(k) ==
  [k EXCEPT !.cancel = TRUE,
            !.status = IF @ \in {"running", "completing"} THEN @ ELSE "waiting"]

\* A nested cancel_task rewrites every held task below c again, which the
\* barrier refuses unless the task is in cleanup.
NestedConflict(c) ==
  \E d \in LiveBelow(c) :
    /\ task[d].status # "running"
    /\ task[d].cancel
    /\ ~ValidCancellationCleanup(task[d], HeldState(task[d]))

\* The commit of request_cancel (root FALSE: for a running descendant).
RequestedState(t) ==
  LET k == task[t] IN
  IF LiveBelow(t) # {} THEN HeldState(k)
  ELSE [k EXCEPT !.cancel = TRUE,
                 !.status = IF @ = "running" THEN @ ELSE "pending"]

RequestKeeps(t) ==
  \/ LiveBelow(t) # {}
  \/ task[t].status = "running"
  \/ KernelCleanupRequired(task[t])

\* What one cancellation commit does to task t, and whether it conflicts.
RequestConflict(t) ==
  IF RequestKeeps(t)
  THEN ~ValidExistingTask(task[t], RequestedState(t), task[t].token)
  ELSE ~CanCancelTerminal(t)

RequestCommit(t) ==
  \/ /\ RequestKeeps(t)
     /\ Commit(t, RequestedState(t), task[t].token)
     /\ UNCHANGED <<sub, eff, answers>>
  \/ /\ ~RequestKeeps(t)
     /\ CancelTerminal(t)

CloseConflict(t) ==
  IF LiveBelow(t) # {}
  THEN ~ValidExistingTask(task[t], HeldState(task[t]), task[t].token)
  ELSE ~CanCancelTerminal(t)

CloseCommit(t) ==
  \/ /\ LiveBelow(t) # {}
     /\ Commit(t, HeldState(task[t]), task[t].token)
     /\ UNCHANGED <<sub, eff, answers>>
  \/ /\ LiveBelow(t) = {}
     /\ CancelTerminal(t)

Cancelling == proc.up /\ line.op \in {"request_cancel", "cancel_task"}

\* Mutant: the descendants in any order.
CancelChildUnordered(c) ==
  /\ Cancelling
  /\ c \in line.todo
  /\ line' = [line EXCEPT !.todo = @ \ {c}]
  /\ \/ /\ task[c].status = "running" /\ task[c].cancel
        /\ UNCHANGED <<task, sub, eff, answers>>
     \/ /\ task[c].status = "running" /\ ~task[c].cancel
        /\ ~NestedConflict(c)
        /\ RequestCommit(c)
     \/ /\ task[c].status # "running"
        /\ ~NestedConflict(c)
        /\ CloseCommit(c)
  /\ UNCHANGED <<workers, proc>>

\* One descendant: a running one gets the barrier, any other is closed.
CancelChild(c) ==
  /\ Cancelling
  /\ c \in line.todo
  /\ \A d \in line.todo : c \notin task[d].above
  /\ line' = [line EXCEPT !.todo = @ \ {c}]
  /\ \/ /\ task[c].status = "running" /\ task[c].cancel
        /\ UNCHANGED <<task, sub, eff, answers>>
     \/ /\ task[c].status = "running" /\ ~task[c].cancel
        /\ ~NestedConflict(c)
        /\ RequestCommit(c)
     \/ /\ task[c].status # "running"
        /\ ~NestedConflict(c)
        /\ CloseCommit(c)
  /\ UNCHANGED <<workers, proc>>

CancelRoot ==
  /\ Cancelling
  /\ line.todo = {}
  /\ line' = Idle
  /\ \/ line.op = "request_cancel" /\ RequestCommit(line.task)
     \/ line.op = "cancel_task" /\ CloseCommit(line.task)
  /\ UNCHANGED <<workers, proc>>

\* A conflicting commit ends the operation; earlier commits stay.
CancelConflict ==
  /\ Cancelling
  /\ \/ \E c \in line.todo :
          /\ \A d \in line.todo : c \notin task[d].above
          /\ \/ task[c].status = "running" /\ ~task[c].cancel
                /\ (NestedConflict(c) \/ RequestConflict(c))
             \/ task[c].status # "running"
                /\ (NestedConflict(c) \/ CloseConflict(c))
     \/ /\ line.todo = {}
        /\ \/ line.op = "request_cancel" /\ RequestConflict(line.task)
           \/ line.op = "cancel_task" /\ CloseConflict(line.task)
  /\ line' = Idle
  /\ UNCHANGED <<task, sub, eff, answers, workers, proc>>

-----------------------------------------------------------------------------
(* The scheduler's pass over the finalization queue: reconcile_waiting_-   *)
(* tasks for every candidate, then reconcile_finalization.                 *)

FinalizationQueue == {t \in Tasks : task[t].status \in {"completing", "waiting"}}

ReconcileBegin ==
  /\ Ready
  /\ FinalizationQueue # {}
  /\ line' = Busy("join", NoTask, 0, FinalizationQueue)
  /\ UNCHANGED <<task, sub, eff, answers, workers, proc>>

JoinReady(t) ==
  /\ task[t].status = "waiting"
  /\ ~task[t].cancel
  /\ task[t].on # <<>> \/ task[t].join

JoinFailed(t) ==
  /\ task[t].policy = "failFast"
  /\ \E i \in DOMAIN task[t].on :
       task[task[t].on[i]].status \in {"failed", "cancelled"}

JoinDone(t) ==
  \A i \in DOMAIN task[t].on : task[task[t].on[i]].status \in Terminal

JoinedState(k) == [k EXCEPT !.on = <<>>, !.status = "pending"]

\* A CommitConflict of one candidate ends the whole pass.
JoinConflict(t) ==
  /\ JoinReady(t)
  /\ \/ JoinFailed(t) /\ ~CanFail(t, UnboundToken(task[t]))
     \/ /\ ~JoinFailed(t) /\ JoinDone(t)
        /\ ~ValidExistingTask(task[t], JoinedState(task[t]), UnboundToken(task[t]))

JoinStep(t) ==
  /\ proc.up
  /\ line.op = "join"
  /\ t \in line.todo
  /\ \/ /\ JoinConflict(t)
        /\ line' = Idle
        /\ UNCHANGED <<task, sub, eff, answers>>
     \/ /\ ~JoinConflict(t)
        /\ line' = [line EXCEPT !.todo = @ \ {t}]
        /\ \/ /\ JoinReady(t) /\ JoinFailed(t)
              /\ FailTask(t, UnboundToken(task[t]))
           \/ /\ JoinReady(t) /\ ~JoinFailed(t) /\ JoinDone(t)
              /\ Commit(t, JoinedState(task[t]), UnboundToken(task[t]))
              /\ UNCHANGED <<sub, eff, answers>>
           \/ /\ JoinReady(t) => ~JoinFailed(t) /\ ~JoinDone(t)
              /\ UNCHANGED <<task, sub, eff, answers>>
  /\ UNCHANGED <<workers, proc>>

FinalizeBegin ==
  /\ proc.up
  /\ line.op = "join"
  /\ line.todo = {}
  /\ line' = IF FinalizationQueue = {} THEN Idle
             ELSE Busy("finalize", NoTask, 0, FinalizationQueue)
  /\ UNCHANGED <<task, sub, eff, answers, workers, proc>>

HasHeldAnswer(t) == task[t].status = "completing" /\ task[t].held

\* A CommitConflict of one candidate ends the whole pass.
FinalizeConflict(t) ==
  /\ LiveBelow(t) = {}
  /\ IF task[t].cancel THEN ~CanCancelTerminal(t)
     ELSE HasHeldAnswer(t) /\ ~CanAdvance(t, UnboundToken(task[t]))

Rest(t) == IF line.todo = {t} THEN Idle ELSE [line EXCEPT !.todo = @ \ {t}]

FinalizeStep(t) ==
  /\ proc.up
  /\ line.op = "finalize"
  /\ t \in line.todo
  /\ \/ /\ FinalizeConflict(t)
        /\ line' = Idle
        /\ UNCHANGED <<task, sub, eff, answers>>
     \/ /\ ~FinalizeConflict(t)
        /\ line' = Rest(t)
        /\ \/ LiveBelow(t) = {} /\ task[t].cancel /\ CancelTerminal(t)
           \/ /\ LiveBelow(t) = {} /\ ~task[t].cancel /\ HasHeldAnswer(t)
              /\ AdvanceCompletion(t, UnboundToken(task[t]))
           \/ /\ LiveBelow(t) # {} \/ (~task[t].cancel /\ ~HasHeldAnswer(t))
              /\ UNCHANGED <<task, sub, eff, answers>>
  /\ UNCHANGED <<workers, proc>>

-----------------------------------------------------------------------------
(* Process death and recovery.                                             *)

Crash ==
  /\ proc.up
  /\ proc.epoch < MaxEpoch
  /\ proc' = [proc EXCEPT !.up = FALSE]
  /\ workers' = {}
  /\ line' = Idle
  /\ UNCHANGED <<task, sub, eff, answers>>

\* process_is_alive: only this process is alive, under whatever pid it got.
ProcessIsAlive(pid) == pid = proc.pid

\* Mutant: recovery that overlooks claims whose worker had not started.
RestartSkipsDispatching(p) ==
  /\ ~proc.up
  /\ PidReuse \/ \A t \in Tasks : task[t].pid # p
  /\ proc' = [up |-> TRUE, epoch |-> proc.epoch + 1, pid |-> p]
  /\ line' = Busy("recover", NoTask, 0,
                  {t \in Tasks : task[t].status = "running" /\ task[t].phase = "running"})
  /\ UNCHANGED <<task, sub, eff, answers, workers>>

\* The next incarnation opens the database and starts recovery.
Restart(p) ==
  /\ ~proc.up
  /\ PidReuse \/ \A t \in Tasks : task[t].pid # p
  /\ proc' = [up |-> TRUE, epoch |-> proc.epoch + 1, pid |-> p]
  /\ line' = Busy("recover", NoTask, 0,
                  {t \in Tasks : task[t].status = "running"})
  /\ UNCHANGED <<task, sub, eff, answers, workers>>

\* Mutant: recovery that keeps the dead attempt's token.
RecoverableStateKeepsToken(k) == [k EXCEPT !.status = "pending"]

RecoverableState(k) == Released([k EXCEPT !.status = "pending"])

\* recover_scheduler_state for one task; a CommitConflict skips the task.
RecoverStep(t) ==
  LET k == task[t]
      closes == k.cancel /\ ~KernelCleanupRequired(k)
      conflict == IF k.abandon THEN ~CanFail(t, k.token)
                  ELSE IF closes THEN ~CanCancelTerminal(t)
                  ELSE ~ValidExistingTask(k, RecoverableState(k), k.token)
  IN /\ proc.up
     /\ line.op = "recover"
     /\ t \in line.todo
     /\ line' = [line EXCEPT !.todo = @ \ {t}]
     /\ \/ /\ ProcessIsAlive(k.pid) \/ conflict
           /\ UNCHANGED <<task, sub, eff, answers>>
        \/ /\ ~ProcessIsAlive(k.pid) /\ k.abandon
           /\ FailTask(t, k.token)
        \/ /\ ~ProcessIsAlive(k.pid) /\ ~k.abandon /\ closes
           /\ CancelTerminal(t)
        \/ /\ ~ProcessIsAlive(k.pid) /\ ~k.abandon /\ ~closes
           /\ Commit(t, RecoverableState(k), k.token)
           /\ UNCHANGED <<sub, eff, answers>>
     /\ UNCHANGED <<workers, proc>>

RecoverDone ==
  /\ proc.up
  /\ line.op = "recover"
  /\ line.todo = {}
  /\ line' = Idle
  /\ UNCHANGED <<task, sub, eff, answers, workers, proc>>

-----------------------------------------------------------------------------
Next ==
  \/ \E t \in Tasks :
       \/ \E p \in OwnerChoice[t], a \in Abandons : Admit(t, p, a)
       \/ Claim(t)
       \/ \E w \in workers : Unclaim(t, w)
       \/ SchedulerFail(t)
       \/ Requeue(t)
       \/ RequestCancel(t)
       \/ CancelTask(t)
       \/ CancelChild(t)
       \/ JoinStep(t)
       \/ FinalizeStep(t)
       \/ RecoverStep(t)
  \/ \E w \in workers :
       \/ WorkerStart(w)
       \/ \E intents, settlements \in SUBSET Effects, op \in OpSteps :
            WorkerRecord(w, intents, settlements, op)
       \/ WorkerFail(w)
       \/ WorkerCancel(w)
       \/ WorkerComplete(w)
       \/ \E answered \in Parks : WorkerPark(w, answered)
       \/ \E list \in WaitLists, policy \in JoinPolicies : WorkerJoin(w, list, policy)
       \/ WorkerWaitCancelled(w)
       \/ WorkerExit(w)
  \/ CompleteStep
  \/ CancelRoot
  \/ CancelConflict
  \/ ReconcileBegin
  \/ FinalizeBegin
  \/ Crash
  \/ \E p \in Pids : Restart(p)
  \/ RecoverDone

Spec == Init /\ [][Next]_vars

(* Fairness.  An operation that holds the mutation line runs to its end or *)
(* dies with the process, which is started again; while a task is pending  *)
(* the scheduler's thread runs: it claims, closes requested cancellations  *)
(* and makes its pass; the worker that holds an attempt settles it.        *)
(* Strong, since each waits for a lock that others keep taking.  A commit  *)
(* that leaves nothing pending starts no thread, so no pass follows it.    *)

LineStep ==
  \/ CompleteStep \/ CancelRoot \/ CancelConflict \/ FinalizeBegin \/ RecoverDone
  \/ \E t \in Tasks :
       CancelChild(t) \/ JoinStep(t) \/ FinalizeStep(t) \/ RecoverStep(t)

\* Behind the barrier a worker settles with cancel_task.
SettleAttempt(t) ==
  \E w \in workers :
    /\ w.task = t
    /\ Holds(w)
    /\ \/ WorkerStart(w)
       \/ ~task[t].cancel /\ (WorkerFail(w) \/ WorkerComplete(w))
       \/ WorkerCancel(w)

FairSpec ==
  /\ Spec
  /\ WF_vars(LineStep)
  /\ WF_vars(\E p \in Pids : Restart(p))
  /\ SF_vars((\E t \in Tasks : task[t].status = "pending") /\ ReconcileBegin)
  /\ \A t \in Tasks : /\ SF_vars(Claim(t))
                      /\ SF_vars(task[t].status = "pending" /\ CancelTask(t))
                      /\ SF_vars(SettleAttempt(t))

\* The same, were the pass made again and again all the same: a premise only
\* for what fails even so.
PassSpec == FairSpec /\ SF_vars(ReconcileBegin)

-----------------------------------------------------------------------------
(* Properties.                                                             *)

(* The checkpoints, rows, workers and the line have their types. *)
TypeOK ==
  /\ task \in [Tasks -> Checkpoint]
  /\ sub \in [Tasks -> SubmissionStatuses]
  /\ eff \in [Tasks -> [Effects -> {"none", "pending", "settled"}]]
  /\ answers \in [Tasks -> Nat]
  /\ workers \subseteq Worker
  /\ line \in Line
  /\ proc \in Process

(* advance_task, fail_task and _cancel_terminal move a task, its submission *)
(* row and the assistant entry in one transaction: at every moment, a crash *)
(* between two commits of one operation included, the submission tells the  *)
(* outcome of its task, and a completed task has exactly one answer.        *)
OutcomeAgrees ==
  \A t \in Tasks :
    /\ answers[t] = IF task[t].phase = "completed" THEN 1 ELSE 0
    /\ task[t].phase = "completed" <=> sub[t] = "done"
    /\ task[t].phase = "failed"    <=> sub[t] = "unanswered"
    /\ task[t].phase = "cancelled" <=> sub[t] = "cancelled"
    /\ sub[t] = "running" => task[t].phase \in {"running", "completion_pending"}

(* pending_effect_ids of the checkpoint always names exactly the effect rows *)
(* without a settlement; fail_task and _cancel_terminal raise when it does   *)
(* not, so a task for which it broke could never be closed again.            *)
EffectsAgree ==
  \A t \in Tasks : task[t].pend = Unsettled(t)

(* A task holds an attempt token exactly while an attempt is running or has *)
(* completed it, and it is the newest attempt: a released, parked, failed   *)
(* or cancelled task has none, so the next claim is possible and every      *)
(* older worker is fenced off.                                              *)
AttemptOwnership ==
  \A t \in Tasks :
    /\ task[t].token \in {0, task[t].attempt}
    /\ task[t].token # 0 <=> task[t].status \in {"running", "completing", "completed"}

(* recover_scheduler_state returns "abandoned scheduler ownership to the    *)
(* durable pending queue": once it is through, no task is left running      *)
(* under an attempt of an earlier process.                                  *)
NoOrphanRun ==
  Ready => \A t \in Tasks :
    task[t].status = "running" => task[t].owner = proc.epoch

(* wait_task refuses a wait cycle: no set of waiting tasks exists each of   *)
(* which joins a member of the set, for no join pass could ever wake one.   *)
NoWaitCycle ==
  \A S \in (SUBSET Tasks) \ {{}} :
    \E t \in S : task[t].status = "waiting" => ~\E d \in S : InList(d, task[t].on)

(* A join whose commit conflicts ends the finalization pass for every task, *)
(* and every later pass again: whoever parked the task, in whatever         *)
(* process, the pass can wake it or fail it.                                *)
JoinsRunnable == \A t \in Tasks : ~JoinConflict(t)

(* _commit takes the attempt this session owns for a caller that names      *)
(* none: so the process that held an answer while owned work ran is able to *)
(* publish it, or to close it behind the barrier, once that work has ended. *)
HeldPublishable ==
  \A t \in Tasks :
    HasHeldAnswer(t) /\ LiveBelow(t) = {} /\ task[t].owner = proc.epoch =>
      ~FinalizeConflict(t)

(* valid_execution_attempt: effect rows and the operation position of a     *)
(* task change only when the worker of its current attempt is at work,      *)
(* or in the tail a worker writes after the task was failed or cancelled.   *)
EffectsFenced ==
  [][\A t \in Tasks :
       eff'[t] # eff[t] \/ task'[t].op # task[t].op =>
         \/ Settled(task[t])
         \/ \E w \in workers : /\ w.task = t
                               /\ w.token = task[t].token
                               /\ w.stage # "queued"]_vars

(* The cancellation barrier: once cancel_requested is committed it is never *)
(* withdrawn, the task goes nowhere but to cancelled or failed, and until   *)
(* then the only new effects and positions are those of kernel cleanup.     *)
CancelBarrier ==
  [][\A t \in Tasks :
       task[t].cancel /\ Live(task[t]) =>
         /\ task'[t].cancel
         /\ task'[t].phase \in {task[t].phase, "cancelled", "failed"}
         /\ task'[t].op \in {task[t].op, "busy", "closed"}
         /\ ~(Unsettled(t)' \subseteq Unsettled(t)) => task[t].op = "busy"]_vars

(* Cancellation intent "flows down the durable ownership tree": when        *)
(* request_cancel has set the owner's barrier, every task below it that is  *)
(* still live, at any depth, carries the barrier too.                       *)
StopReachesSubtree ==
  [][line.op = "request_cancel" /\ line' = Idle /\ task'[line.task].cancel =>
       \A d \in Tasks : line.task \in task'[d].above /\ Live(task'[d]) =>
                          task'[d].cancel]_vars

(* request_cancel and cancel_task go deepest first, one commit per task: at *)
(* every one of their commits, so also where a crash or a conflict leaves   *)
(* them half done, a task gets its barrier only when all that is live below *)
(* it has one, and a repeated Stop, refused at the root, misses nobody.     *)
BarrierFromBelow ==
  [][\A t \in Tasks :
       ~task[t].cancel /\ task'[t].cancel =>
         \A d \in Tasks : t \in task'[d].above /\ Live(task'[d]) =>
                           task'[d].cancel]_vars

(* A joined task goes back to the queue only when every task it waits on is *)
(* terminal, or to be cleaned up behind the barrier.                        *)
JoinSound ==
  [][\A t \in Tasks :
       task[t].status = "waiting" /\ task[t].join /\ task'[t].status = "pending" =>
         task[t].cancel \/ task'[t].cancel \/ JoinDone(t)]_vars

(* What callers see of a task. *)
View(k) ==
  CASE k.phase = "none"      -> "absent"
    [] k.phase = "completed" -> "answered"
    [] k.phase = "failed"    -> "unanswered"
    [] k.phase = "cancelled" -> "cancelled"
    [] OTHER                 -> IF k.cancel THEN "stopping" ELSE "open"

Lifecycle == INSTANCE TaskLifecycle WITH
  state  <- [t \in Tasks |-> View(task[t])],
  reply  <- answers,
  owners <- [t \in Tasks |-> task[t].above]

(* The kernel implements TaskLifecycle: one outcome per submission, at most *)
(* one answer, none after a Stop, none while owned work is open, through    *)
(* claims, parked waits, held completions, crashes and recovery.            *)
ImplementsLifecycle == Lifecycle!LifecycleSpec

(* A Stop is closed once the work the task owns has drained: by its worker, *)
(* by the scheduler or by the finalization pass.  (Excepted: a task whose   *)
(* cleanup needs one more attempt than MaxAttempt allows.)                  *)
StopTakesEffect ==
  \A t \in Tasks :
    task[t].cancel ~> \/ task[t].status \in Terminal
                      \/ LiveBelow(t) # {}
                      \/ task[t].attempt = MaxAttempt

(* The same for tasks that are past their dispatch. *)
StopCloses ==
  \A t \in Tasks :
    task[t].cancel /\ task[t].phase # "dispatching" ~>
      \/ task[t].status \in Terminal
      \/ LiveBelow(t) # {}
      \/ task[t].attempt = MaxAttempt

(* reconcile_finalization: "Finish held outcomes ... after owned work       *)
(* drains".  An answer held in a checkpoint is published.                   *)
HeldAnswerPublished ==
  \A t \in Tasks :
    HasHeldAnswer(t) /\ LiveBelow(t) = {} ~> task[t].status \in Terminal
=============================================================================
