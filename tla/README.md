# Codey's durable kernel in TLA+

Codey runs coding tasks for a user: a submission becomes a *task*, a worker drives a
model provider through it, and the answer lands in a conversation. Everything that must
survive a crash goes through one SQLite database. This directory models the part of the
program that decides what happens to a task: the durable session and its store
(`codey/durable`), the scheduler that dispatches tasks (`codey/durable/scheduler.py`), the
host code that submits, starts and settles them (`codey/app`, `codey/operations`), and the
kernel loop that drives one task's provider and tools (`codey/runtime`,
`codey/operations/kernel_*`).

## 1. Inventory

| Part | State it keeps | Operations | Interaction |
|---|---|---|---|
| Value layer (`model.py`, `reducer.py`) | none | transition tables, attempt fence, cancellation barrier, checkpoint checks | called by the store before every commit |
| Store (`sqlite.py`, `memory.py`) | tasks, submissions, effects, entries, ownership, waiters, finalization queue, commit log | one `commit` transaction per mutation | called by the session only |
| Session (`session.py`) | mutation line (a reentrant lock), observers, its owner id, a thread-local execution binding | admit, claim, start, record and settle effects, complete, hold, wait, join, request_cancel, cancel, fail, recover, reconcile | callers: HTTP threads, workers, the scheduler thread |
| Scheduler (`scheduler.py`) | pending, scheduled, in-flight sets, failure counters, one thread | notify, claim, retry, reconcile, start/resume, abort, close | woken by the commit observer; calls back into the session |
| Commit observer (`durable_services.py`) | none | `observe` | runs inside the mutation line of the committing thread |
| Submission host (`task_submit.py`) | run reservations | submit, claim, dispatch, `run_task` | starts workers bound to one attempt token |
| Settlement (`task_phases/settlement.py`) | none | complete, park, fail or cancel when a run ends | called by the worker |
| Questions, approvals | inside the checkpoint | ask, answer, claim, settle | admit the continuation of a parked task |
| Inbox (`inbox.py`, `admission.py`) | queued submissions, placement | admit, revise, withdraw, place at a boundary | drives what a conversation runs next |
| Conversation tree (`conversation_ops.py`, `ancestry.py`, `edit.py`) | entries, head and revision of each conversation | append, edit, branch, fork, delete | fences every commit by revision |
| Input queue (`app/input_queue.py`) | none of its own: a view of tasks and submissions | create, edit, steer, remove | decides queued or placed from a read of the tasks |
| Control service, run registry, event feed (`codey/app`) | volatile run table, cursors | stop, subscribe, replay | front end of the above |
| Runtime operation (`codey/runtime`) | position, provider sends, tool batches, delivery attempts | `next_runtime_action`; prepare, begin and settle of sends, tools and deliveries | commits through `mutate_checkpoint` of the session |
| Kernel loop (`operations/kernel_loop.py`, `kernel_*`) | locals of `drive_kernel`, an effect sink | one executor per action the reducer can return | calls provider and tools between two commits |
| Writer failover, outer lifecycle (`writer_failover.py`, `task_phases`) | none | next provider, settle a phase, repair rounds | calls `drive_kernel` again on the same operation |
| Files and locks (`codey/storage`) | lock files, JSON documents | lock, atomic replace | other processes of the same user |
| Providers, research, reviews, ghost, knowledge, policies, workspace, frontend | caches and text | network, parsing, presentation | to the kernel, the nondeterministic outcome of a worker |

What is hard here: a worker outlives its attempt; Stop arrives between any two commits; an
operation of several commits is cut by a crash; owned work must drain before its owner is
answered; joins can form cycles; the scheduler's in-memory sets are updated from reads that
are older than the lock; the process that recovers knows the dead one only by a pid; a
provider send or a tool call that was cut may or may not have happened, and what is done about
it is decided from durable facts alone, by a worker that did not start it; inputs, edits,
branch selections and late events of four kinds of threads meet in one transcript, each decided
from a read that may be old when it commits.
`PROJECT.json` lists each of these at its line under `hazards`.

What makes the parts correct:

* store and session: task, submission, effects and answer agree after every commit; an old
  attempt can change nothing; a stopped task is never answered; one outcome per submission;
* ownership: an owner is answered only when nothing it owns is open, Stop reaches the whole
  subtree, and a held answer is published;
* joins: sound wake-up, no cycle, and no join that stands in the way of a pass;
* recovery: no task stays bound to a dead process;
* scheduler: no lost wake-up, one keeper of every claim, every pending task is dispatched;
* kernel loop: tool results reach the provider at most once, an edit or a command runs at most
  once and is reported as what happened to it, the position always agrees with the ledger, every run of the loop ends, and Stop
  ends it from everywhere;
* inbox and tree: every input is in the transcript once or waits or left it without a trace,
  inputs leave the inbox in order and none is forgotten, nothing is appended to a branch it does
  not belong to, and a current revision means a current head.

## 2. Modules

| Module | Role |
|---|---|
| `TaskModel` | the value layer as operators; no variables |
| `DurableTasks` | session over store, workers, process death and recovery; one action per operation or per commit of it |
| `TaskLifecycle` | abstract specification: what callers are promised about a submission |
| `Scheduler` | the volatile dispatch protocol between host threads, observer and scheduler thread |
| `Kernel` | the runtime operation of one task: reducer, executors, ledger of sends, tool calls and deliveries |
| `Inbox` | one conversation: entries, head and revision, queued inputs and writes, boundaries, the scheduler's placement pass, the lane of the run registry |
| `DurableTasksProofs` | inductive invariant and theorems about the states of `DurableTasks` |
| `LifecycleProofs` | theorems about its steps, and the refinement of `TaskLifecycle` |
| `RecoveryProofs` | theorems about the operations of `DurableTasks` that hold the mutation line: recovery, Stop of a tree, joins |
| `SchedulerProofs` | inductive invariants and theorems about `Scheduler` |
| `KernelProofs` | inductive invariant of `Kernel`: types, references, deliveries |
| `KernelLedgerProofs` | second inductive invariant of `Kernel`: the position agrees with the ledger |
| `KernelDriveProofs` | third inductive invariant of `Kernel`: reducer and executors always find a way on, what is done can be settled, no action is without effect |
| `InboxProofs` | inductive invariant and theorems about `Inbox` |
| `MCDurableTasks`, `MCScheduler`, `MCKernel`, `MCInbox` | ownership trees, join lists, task modes and names for TLC |

**DurableTasks.** `task[t]` is the checkpoint row (phase, status, attempt number, token,
owner and pid, cancel barrier, owner edges, join, pending effects, operation position, held
answer), `sub[t]` the submission status, `eff[t][e]` the effect rows, `answers[t]` the
number of assistant entries. Attempt tokens are numbers: the token of attempt *n* is *n*, 0
is the empty token. `line` is the mutation line. An operation with one commit is one action
and needs the line free (`Ready`). `complete_task`, `request_cancel`, `cancel_task`, the
finalization pass and recovery commit more than once: they take `line` and every commit is
a step, so a crash can fall between any two but no other operation of the process can. A
commit that the store would refuse is a conflict: it changes nothing and ends the operation,
as the exception does. `above` is the transitive closure of the frozen `owner_task_id` edges.

Workers have four stages: `queued` (dispatched, `run_task` not yet past its checks), `live`,
`settled` (it has called `complete_task` or `wait_task` once) and `closing` (only tail writes
are left). A worker is never removed because its task moved on: it finds out by itself, which
is what `EffectsFenced` is about.

Abstractions: the `operation` mapping has four values, by what the barrier tells apart (see
`TaskModel`); an operation may be recorded as `open` only with no pending effects, as the
runtime's reducer writes it; children are cancelled and candidates finalized in any order
(the code goes by rowid and by id); a join that conflicts ends the pass, as its exception does
(`JoinConflict`); conversation revisions, question texts, reasons and
artifacts are left out; tasks are admitted as placed inputs. `owner_task_id` and
`wait_task(on=...)` are the session's interface; the runs use them directly.

**Scheduler.** `st` is what dispatch can tell of a durable task. Each critical section of the
scheduler's lock is one step, each session call made outside it another; `note` is an
observer that runs on a host thread while the mutation line is held, so no other session
operation runs until it returns, but the scheduler thread's own critical sections do.
A claim of the submitting request is the stage `taken`, one of the scheduler `claimed`, and `host`
says how far that request has come. Left out: the filter of `observe` on the keys of a task's
state (`durable_services.py:67`: every task admitted by a request has one of them) and its
notification for queued writes (`:58-61`), `_reconcile_requested` set by a notification when
submissions are queued (`scheduler.py:297`, `:314`; queued inputs are the subject of `Inbox`),
`abort_task`, `close`, input placement, workflow blocking, Stop (all closed by
`DurableTasks` at the level of commits), and a dispatch that raises after starting its worker.

**Kernel.** `op` is `RuntimeOperationState`: the leaf, the phase (1 is the writer, later ones
are repairs), the provider turn and the logical turn (`lt`), the response and the prepared
request the leaf refers to, the saved decision (`work`) and the budgets. `sends` holds the
provider-send effects, `batches` the delivery batches with their tool calls and the attempts
that carried them (`tried`, and `void` for the superseded ones). `mem` is what a crash takes:
the place in `drive_kernel`, the action it decided on and the batch its sink remembers. `io`
is the rest of the task row and what people do to it: Stop, a queued input, a question, an
approval, and drift of the workspace.

`drive_kernel` loads the durable view, decides, executes, loads again. `Decide` and the
executor are separate steps, so everything in `io` can change in between; there is one action
per branch of `_execute_kernel_action`, and every commit in it is atomic (`Commit`: all of it,
or an exception that ends the drive when the transition is illegal or barred by Stop). A call
to the provider (`Send`, `Receive`, `SendFails`) or to a tool (`RunSlot`, `SettleSlot`) is a
step between the commit of its intent and that of its outcome; `Crash` can fall anywhere, and
the next worker meets the pending effect without knowing more than the store.

A saved decision whose request was proven unsent comes back to `control_ready`, as the code
means it to ("A failed control acknowledgement retains its saved decision",
`operation_state.py:437`). Two of them find no way on there (`Stranded`). A `closing` decision is
not one of the purposes of `prepare_control_delivery`, which raises. A `done` decision that the
workspace has outrun in the meantime goes to `completion_pending` without a response to cite,
and the parser of the operation refuses that (`operation_payload.py:374`). Both raise after a
failed send only; the drive ends with the result `stranded`, and `Driveable` says nothing of it.

An approval has a thread of its own, and each of its commits is a step. `Resolve` is the verdict of
a person and wakes nobody. After an approval: the claim (`ClaimApproval`), the run (`RunCommand`, or
`CommandHalted` when the spawn gate refuses), and the receipt with the wake-up in one commit
(`SaveReceipt`, or `DropReceipt` when Stop has cancelled the continuation). After a denial: the
result (`SaveDenial`), then the wake-up (`WakeDenied`). A crash or an exception may fall after each
(`Crash`, `ExecutorFails`); `Orphaned` is what it leaves. A claim without a receipt is `lost` and is
never taken up again; a denial with a result and no wake-up is `stuck`, because `start()` and a
second answer only show the result. A worker that meets a denial without its result fails the
drive (`unready`, the `RecoveryFailed` of `kernel_context.py:177`), and `Park` parks whatever the
approval says by then, as `wait_task` does.

Left out of approvals: expiry (`expire_stale_shell_approvals`), the saved rules that answer for
a person, orderly shutdown, and a second approval at the same time. The two steps of Stop, its
durable barrier and `cancel_queued`, are one. `settle_approval` also takes the attempt from a worker
that is still driving; here whoever drives goes on. A denial whose artifact cannot be written stays
`denied`, and may be settled later.

Abstractions: prompts, snapshots, artifacts and evidence are dropped. A send is its index in
`sends`, which is also its provider turn; a batch is its index in `batches`. Replies are told
apart by what the loop does with them: a read, an edit with a read, a shell command, an answer
(research), a completion proposal, a question, a malformed reply, text where a call was
expected, a truncated stream. Progress (`kernel_progress.py`) is one flag: does this observation
repeat an earlier one, is this rejection novel. The commit of the question store (`questions.py:95`) and
the freeze of the request that carries the question are one step in `PrepareControl`. A slot may be
run after the durable barrier, for the code looks at the stop flag in memory. `TaskModel`'s four operation positions are what `DurableTasks`
sees of `op.leaf`.

**Inbox.** `entries`, `head` and `rev` are the tree of one conversation; `sub[r]` is a submission
row joined with what the inbox sees of its task. An input names its request and its task; a
passive write has no task. `lane` is the registry's active run of the session. Three callers
read in one session operation and commit in another, and keep what they read in a variable:
`host` is `submit_task` between its reservation and its admission (for an edit, with the revision
its client saw), `queue` is the queue's `create` between "is a task in progress?" and the
admission that depends on it, `pass` is `_place_ready_inputs` with the set of tasks in progress it
read first. Everything else is one session operation, one commit, one action.

A boundary (`Boundary`, `PassPlace`) is one commit: what the provider said, then the queued
writes, then one steering input, or one follow-up when the scheduler places it (`User`); a write
whose target is out of sight is settled as stale, a steering input is consumed by the running
task and its own task never runs. `Visible` is the active path after the last head marker. An
entry carries the set of its ancestors, so a path is a set and its order that of the ids.

Abstractions: a claim and the dispatch that follows it are one step (`Scheduler` and
`DurableTasks` take them apart), a parked task is pending again, and a dispatch that is refused
leaves everything as it was. Text is its revision number. A
display message is shown under an earlier message of its run, and one at most; a direct write whose
`expected_revision` or `expected_head` is refused (`admission.py:256-269`) changes nothing and is not
enabled. The pass reads the tasks in progress
and the list of writes in one step. Left out: tool results and tool-call tips, answers to
questions, forks (paths through an inherited prefix), the queue modes "all", admissions with a
workflow. Queued writes, `withdraw_queued_submission_at` are the session's
interface: the tests call them, production code does not yet.

**TaskLifecycle.** Per submission: absent, open, stopping, answered, unanswered, cancelled.
`Answer` needs the submission open (not stopping) and everything it owns closed.
`DurableTasks` maps to it by `View`, `answers` and `above` (`ImplementsLifecycle`).

## 3. Runs

| Run | Bounds | Shows |
|---|---|---|
| `solo` | 1 task, 1 effect, 3 attempts, 2 incarnations, all operation positions, faults, parks, Stop, under `FairSpec` | row agreement, fencing, barrier, recovery, lifecycle, closing of Stop |
| `tree` | chain of 3, joins of both policies between any two, Stop of either owner, 1 attempt each, 2 incarnations | no cycle, joins sound and never in conflict, held answers publishable, barriers from below, Stop reaches the subtree, lifecycle |
| `scheduler` | 2 tasks, loop limit 1, 1 failing pass | no lost wake-up, one keeper of every claim, dispatch of all pending tasks |
| `kernel` | project tasks of both protocols, 6 kinds of reply, 2 turns, 2 stagnant turns, 1 closing round, 1 phase, 1 fault | results delivered once, unsafe calls run once and are reported truly, deliveries backed, no dead end, done can be settled, nothing left behind, no spin |
| `kernel_live` | project and research, shell, answer and question replies, 1 turn, 2 phases, 1 fault, under `FairSpec` | the loop ends, waits for a person or lost its wake-up; Stop ends the task |
| `inbox` | 1 direct and 1 queueable input, 1 write (shown only, or a new head), 3 entries before optional messages stop, 1 branch selection, 2 texts, 1 stop | inputs are accounted for, entries anchored, live tasks on the branch, the revision fence sound |
| `inbox_order` | 1 direct and 2 queueable inputs, both modes, 1 entry, 1 stop, under `FairSpec` | inputs leave in order; none stays in the inbox |
| `held_restart` | owner and child, fail-fast join, 2 attempts, 2 incarnations, under `PassSpec` | violation: a held answer is lost by a restart |
| `stop_dispatch` | 1 task, no crash | violation: Stop between claim and start is not closed |
| `late_input` | a text research task, 2 turns, no fault | violation: input at the final boundary strands the operation |
| `lost_denial` | a shell call, 1 turn, 1 fault | violation: a denial is saved and its task never woken |
| `early_placement` | 1 direct, 1 queueable input | violation: a follow-up is placed beside a task in progress |

Why the bounds suffice. In `solo` three attempts give an old worker, a current one and a later one
(`tree` has one attempt per task: attempts do not meet across tasks, and two of them would more than
double a run that is already the longest);
two incarnations give one crash at any point and its recovery; one effect is enough because
effects of a task do not interact except through the set of open ones; two levels of
ownership separate "child" from "descendant" and three tasks make the shortest indirect
cycle; with the loop limit at 1 every failure path of the scheduler is taken. In `kernel` two
turns give a delivery and a turn after it, two stagnant turns one retry and one stop, one
closing round both the acknowledged and the cut-off closure, and one fault puts a crash, a
proven or an unknown send failure, a failing executor of an approval, a busy write lock or drift
at every point. In `kernel_live`
two phases give one repair. In `inbox` a direct input, a queued one and a write meet in every
order, three entries are a turn and what an edit or a branch selection leaves beside it (inputs
and answers are appended past that bound; only optional messages stop), one stop is a crash or a
parked run at any point. In `inbox_order` two queued inputs are what an order needs, and the
direct one is the run beside which they wait. Deadlock is not
checked: a system whose tasks are all terminal, or whose bounds are spent, rightly stops.
Stuck operations are caught by `JoinsRunnable`, `HeldPublishable`, `StopCloses` and
`PendingDispatched` instead. `Kernel` is checked for deadlock: only an operation that is over
may stutter, and a task that waits for a person can still be stopped.

`NoDeadEnd` and `DoneSettles` are stated for project tasks: for research tasks `late_input`
shows where they fail. `NoDeadEnd` is about invariant failures and refused transitions; the two
decisions of `Stranded` (section 2) are dead ends too, known ones, and are kept apart by
their own result.

Fairness. The holder of the mutation line goes on or dies, and a dead process is started
again (weak). Claims, the close of a requested Stop, the finalization pass and the settlement
of an attempt are strongly fair, because each of them waits for a lock that others keep
taking, and Python's locks hand over to every waiter in practice. A finalization pass is fair only
while some task is pending: that is when the scheduler's thread runs. When the last owned task or
the last dependency ends and nothing is pending, `observe` notifies without a task id,
`_ensure_thread` starts no thread (`scheduler.py:422-427`) and no pass is made, so `DurableTasks` claims
no liveness of joins or of held answers, not even in the process that held them; it says that a pass,
when one is made, is not obstructed (`JoinsRunnable`, `HeldPublishable`). `PassSpec` adds that passes
recur all the same; only the violation `held_restart` uses it, where a stronger premise makes a
stronger result. `Scheduler` assumes that its thread, which waits
with a timeout, and a started observer or request go on; it assumes nothing about
submissions, workers or the operator. `Kernel` assumes that the worker's thread goes on, that
providers and tools answer or raise, that pending work is started and that the executor of an
approval goes on until it is done or fails (weak); nothing obliges a person to answer, approve, send input or stop. `Inbox` assumes
that a request finishes what it began, that a worker ends its run and leaves the registry, and
that the scheduler's thread goes on (weak). A dispatch is strongly fair: it is refused while
another run has the lane and is retried after a delay (`_defer_retry`), and the lane is free
again and again.

## 4. Findings

1. **Held answers do not survive a restart** (`held_restart`). `reconcile_finalization`
   publishes through `finish_task` without naming the attempt; for the attempt of a dead
   owner `_commit` expects the empty token and the fence refuses. One such task also ends the
   pass for every candidate after it.
2. **Stop between claim and start** (`stop_dispatch`). `start_task` conflicts with the
   barrier, `run_task` returns, and no one calls `cancel_task`.
3. **Input at the final boundary of a text research task** (`late_input`). The phase is
   reopened over the batch of the answer, which only settlement would abandon; the next
   decision is the invariant failure `unexpected_undelivered_batch`.
4. **Follow-up placed beside a task in progress** (`early_placement`). `_place_ready_inputs`
   reads the tasks in progress once; a task that `submit_task` admits and starts before the
   placement finds the follow-up in its transcript. The follow-up's own task still waits for the
   lane.
5. **A denial that never wakes its task** (`lost_denial`). The result of the denial is saved and
   the task woken by two commits. After a crash or an exception between them the approval counts as
   settled everywhere: `start()` schedules it, `_process` shows the result, and nobody calls
   `settle_approval` again. The task stays parked until it is stopped. The same property fails
   when a delivery overtakes the worker that has yet to park; `Ends` lists both (`Undelivered`) apart
   from the tasks that wait for a person.

Three more disagreements show when joins and owned tasks are modelled beyond what the runs keep:
a stopped owner that ends before its child is never closed, a wait cycle through the second of
two dependencies is admitted, and the end of the last dependency wakes nobody. No caller in the
repository owns or joins tasks yet, so they are listed as hazards and have no run.

One more thing is seen in `Inbox` and contradicts no document: an input that `create` places at once
(`input_queue.py:152-158`, no task in progress) may pass older ones that still wait for the
scheduler's pass. `InOrder` judges the inputs that waited in the inbox, and not this one.

## 5. Proofs

`DurableTasksProofs` proves, for every set of tasks and effects, every choice of owners and
every bound: `TypeCorrect`, `OutcomesAgree`, `ReceiptsAgree` and `AttemptsOwned`, all from
`Inductive: Spec => []IInv`. The assumptions are the named `ASSUME`s of `DurableTasks` (types
of the constants).

None of the three safety invariants is inductive alone. A commit of `complete_task` keeps
`AttemptOwnership` only if the token it presents is not the empty one, so `IInv` says that
every worker and the `complete` operation on the line carry a real attempt. It keeps
`OutcomeAgrees` only if the task exists and holds an attempt, so the three invariants are
joined into one predicate on a row, `RowInv`, together with "phase none iff status none".
The argument is then per row: one lemma for each kind of commit (keep, start, record,
advance, fail, cancel, admit), one per action that names its commit, and `RowStep`, which
lifts a changed row to the whole store.

`LifecycleProofs` proves three facts about steps, again for every value of the constants:
`BarrierHolds: Spec => CancelBarrier`, `FenceHolds: Spec => EffectsFenced` and
`LifecycleImplemented: Spec => ImplementsLifecycle`. They need one more invariant, `Store`:
every checkpoint is well formed (so that "live" and "not finished" are the same thing), a
task that was never admitted has no history, and what owns a task was admitted before it.
`StoreInOrder` proves it next to `IInv`. The lemma `StepKinds` then sorts the steps of `Next`
into five kinds (nothing committed, admission, a worker's record, a completion that
advances, a quiet move of one checkpoint), and each theorem is one argument per kind. In the
refinement, a quiet move is `Stop`, `GiveUp` or a stutter, a completion is `Answer` or a
stutter, an admission is `Submit`, and a record is always a stutter. `Answer` is the case
that needs the most: the task has no live descendant by `LiveBelow`, and by `ClosedSeen`
what is not live is not seen open.

`RecoveryProofs` is about operations that decide from a snapshot and commit later. It proves
`JoinsSound: Spec => JoinSound`, `StopReaches: Spec => StopReachesSubtree`, `RecoveryComplete:
Spec => []NoOrphanRun`, `WaitsEnd: Spec => []NoWaitCycle`, `JoinsRun: Spec => []JoinsRunnable`,
`HeldPublishes: Spec => []HeldPublishable` and `BarrierClimbs: Spec => BarrierFromBelow`.

* `PlacesHold` is the invariant below all but `WaitsEnd`. `Stopping` and `Recovering` say what the `todo`
  set of the line means between two commits: every live task below the root is still to come or
  barred already, and what recovery has yet to release is still running. That a child which
  appears or moves during the walk cannot be missed rests on the line; that the root itself is
  not among its own descendants is `Acyclic`.
* `NoOrphanRun` needs more than that recovery tries every task: its commit must not be refused.
  A refusal would be a conflict, the task would be skipped and stay running for ever. `Placed`
  says where a task may be for each status (an operation position exists only past `start_task`, an
  open position has no open receipt), and `Bound` keeps it so: a worker past its checks never
  shares its attempt with a task still in dispatch. The hypothesis is `~PidReuse`. Recovery
  knows the dead process by its pid alone, so with a reused pid the statement is false; that
  is the hazard of `session.py:1746`.
* `JoinsRunnable` and `HeldPublishable` say that the store accepts a commit that no pass has made yet.
  A parked task gave its attempt back, so the empty token is the right one for it, and a held
  task keeps the attempt of the process that holds it, which `UnboundToken` presents; that the rest of
  the checkpoint stays well formed is what `Placed` says of its phase.
* `BarrierFromBelow` looks at single commits, where `StopReachesSubtree` looks at the end of the walk.
  `Walking` says what the walk has passed: of the live tasks without a barrier below its root, only
  those in `todo` are left. A task takes its barrier only when nothing below it is in `todo`, and
  `Transitive` ownership carries that to every depth.
* `NoWaitCycle` is proved through `NoRing`, the same statement without "waiting", since `wait_task`
  walks `waiting_on` whatever the status is. The walk of the cycle check is a recursive function; the
  proof takes it from "the walk has not come back after as many steps as there are tasks" to a
  repeated task by the pigeonhole principle. The hypotheses are finitely many tasks and one
  dependency per join: the check follows the first dependency only, and a ring through the
  second one is admitted (listed under section 4).

`SchedulerProofs` proves `SchedulerTyped`, `WakeupsKept: Spec => []NoLostWakeup` and `ClaimsKept:
Spec => []OneKeeper`. `OneKeeper` relates the store to the two parties that may claim: a step of the one
(a start, a refusal, a give-back) must find the task as it left it, whatever the other did since. The type invariant already needs `LoopInv`: a counter is below its limit
because the loop that reaches the limit stops itself. For `NoLostWakeup` every pending task is
`Covered` (on the list, or just taken by the thread that will read it again, or in the hands of an
observer that read it as pending), and `Rest` says that a thread which is gone left an empty
list under the lock. `WakeupsKept` assumes `~EagerResume`: an operator who resumes before the stopped
loop has vacated its slot finds a thread that will not run again, and the wake-up is lost
(hazard of `scheduler.py:418`).

`KernelProofs` proves `KernelTypeCorrect` and `ResultsDeliveredOnce` for every set of modes
and replies and every budget, from `InvHolds: Spec => []KInv`. `DeliveredOnce` is not inductive
alone: `Submit` adds an attempt for a batch that may have earlier ones, and only the ledger
says that those were never handed over. `KInv` therefore joins four parts. `Ledger`: a
batch knows every send that carries it, superseded attempts are proven unsent, and what is
proven unsent did not run. `Position`: references name existing sends and batches.
`InFlight`: while a call is out, the send in flight is the last one and still pending.
`Decision`: the facts the driver decided on (the send of this turn is unsettled, a response is
saved, tools are pending) still hold when it executes, although Stop, input, answers and
approvals arrived in between. Each executor has its
lemma, one case per part it disturbs.

`KernelLedgerProofs` proves `UnsafeCallsRunOnce`, `DeliveriesBacked` and `PhasesSettleClean` from
`LedgerHolds: Spec => [](KInv /\ LInv)`. None of the three is inductive. That an edit is not run a second
time rests on calls being pending in the newest batch only, and only while the leaf is
`tool_effect_pending` (`BusyInv`, `ToolInv`); for a command also on the approval that may still lead
to a run (`ApprovalInv`): a claimed command has not run, a run takes the claim away before any receipt
is saved, and what a crash or a failing executor leaves of it (`Orphaned`) leads to no further run. That a
delivery is backed rests on the newest send being the only unsettled one (`SendsInv`) and on each
batch having one live attempt (`AttemptInv`). `ChoiceInv` carries what the reducer saw over to the
executor. That the driver's slot, a `CHOOSE` of the least pending call, exists is proved from the
well-foundedness of the naturals.

`KernelDriveProofs` proves `NeverSpins: Spec => NoSpin`, `NoDeadEnds: Spec => []NoDeadEnd` and
`DonesSettle: Spec => []DoneSettles` from `DriveHolds: Spec => [](KInv /\ LInv /\ SInv /\ (Project =>
DInv))`.

* `NoSpin` holds for every task, research included. `SInv` says that the action the driver has
  decided on has something left to change when it executes (`ActInv`), that every batch has a call
  and a command is alone in its batch (`ShapeInv`), and that only research tasks are answered
  (`PlainInv`, which the project part needs).
* `NoDeadEnd` needs to know where everything that is still open will go. While no outcome is unknown,
  `DInv` says for each leaf where the results of tool calls wait (`Waits`), which response it
  goes back to (`Cites`, `Recalls`), what decision it carries (`Decides`), that a prepared request
  can be submitted (`Asks`), and that the batch which the driver's sink remembers may still be
  sent (`Remembers`); `RecordInv` says the same of the requests on record. These are the facts the
  reducer would otherwise report as a broken invariant. Once the outcome of a send or call
  is unknown they no longer hold, and need not: `UnknownInv` says that the driver has nothing
  left but to report it.
* `DoneSettles` follows from `EndInv` (a drive that reports done left the operation settled with that
  decision and no unknown outcome): there `Cites` leaves no send unsettled and `Waits` no batch open.

The attempt to prove `NoDeadEnd` found the model wrong in one place: `Legal` was the table of
transitions alone and let `completion_pending` be saved without a response, which the parser
refuses. TLC had not reached it, since it takes a failed send and drift in one behaviour, two
faults where the runs allow one. `Legal` now asks for the response, and `Stranded` names the case.

`InboxProofs` proves `InboxTypes`, `InputsAccounted`, `EntriesAnchored`, `TasksOnBranch`,
`RevisionFence` and `InputsInOrder`, for every finite set of requests in which writes and inputs
are distinct, every set of modes and kinds and every bound. The invariants need each other. A boundary keeps
`Anchored` only because the run's own input is on the branch (`LiveOnBranch`) and placed; an
admission keeps `Accounted` only because the identity was never used, which the memory of the
host and of the queue must guarantee over two commits; a late display message is anchored
because whoever has an entry has a placed input. `Links` states these ties, and `IInv` joins
it with the five invariants. The proof has two halves. `Rows` says what any step may do to
entries and submissions (entries are only added, a placed row keeps its entry, a row placed
now is the only row of a new entry, at most one new number is given), and
`RowsPreserve` shows that it keeps the rows' half of `IInv`; the other half is what host,
queue, lane and pass remember. Each action has a lemma that it is such a step. The long one is
`PlaceBatchRows`: a batch is arranged without repetition, its drafts follow what the run
said, so each submission of the batch gets an entry of its own. For `InputsInOrder`, only
what `User` takes is placed, and `UserFirst` compares it with any input that stays.

Only model-checked: every liveness property (`StopCloses` of `DurableTasks`, `PendingDispatched` of
`Scheduler`, `Ends` and `CancelEnds` of `Kernel`, `QueuedPlaced` of `Inbox`), since fairness is out of
the prover's reach, and the invariant `ReceiptsHonest` of `Kernel`. Every other invariant and action
property of a passing run is a theorem.

## 6. Plan

1. `Parking`: questions and approvals in full (expiry, saved rules, several approvals at once) against
   Stop, restart and the unfenced `wait_task`; refine `Requeue`; prove `ReceiptsHonest`.
2. `Inbox` extended: forks and deletion, tool-call tips and answers placed by the queue.
3. Composition of `Inbox` with `Kernel`: the boundary of `Kernel` as `Inbox`'s, so that
   `late_input` is seen from the transcript too.
4. `Abort`: `abort_task` and `close` of the scheduler, the run registry and the control
   service; compose with `Scheduler`.
5. `EventFeed`: commit log, cursors and replay. `FileLock`: the lock file protocol.
6. Proofs: a version of `DInv` for research tasks, up to the boundary that `late_input` shows to
   fail; the safety halves of the liveness arguments (from every position of `Kernel` some action
   of the loop is possible).

Not modelled, and not planned: providers, protocols, agents, the text of research, reviews and
completion proofs, ghost, knowledge, automation, policies, toolchain, workspace, launcher,
HTTP and frontend code. They are input/output, text processing or features whose state the
kernel does not depend on.
