----------------------------- MODULE Scheduler -----------------------------
(***************************************************************************)
(* The volatile half of task dispatch: DurableTaskScheduler (scheduler.py) *)
(* and the commit observer that wakes it (app/durable_services.py).  The   *)
(* durable store is the variable st; what is modelled here is whether the  *)
(* scheduler's in-memory sets keep up with it.                             *)
(*                                                                         *)
(* Two locks.  A session operation holds the session's mutation line until *)
(* its observer has returned, so while note is not NoNote no other session *)
(* operation runs.  The scheduler's own lock guards its sets; every step   *)
(* below that touches them is one critical section of that lock, and such  *)
(* steps of the host do come in between two steps of the scheduler thread. *)
(***************************************************************************)
EXTENDS Naturals, FiniteSets

CONSTANTS
  Tasks,
  NoTask,
  Needs,         \* Needs[t]: the tasks t joins, or owns and must drain
  LoopLimit,     \* _loop_failure_limit
  EagerResume,   \* may resume() come before the stopped thread has unwound?
  MaxFaults      \* bound: passes that raise

ASSUME NoTaskIsNone == NoTask \notin Tasks
ASSUME NeedsAssumption == Needs \in [Tasks -> SUBSET Tasks]
ASSUME EagerResumeAssumption == EagerResume \in BOOLEAN
ASSUME LimitAssumption == LoopLimit \in Nat \ {0} /\ MaxFaults \in Nat

VARIABLES
  st,         \* durable task states, as far as dispatch tells them apart
  pending,    \* _pending
  scheduled,  \* _scheduled
  inflight,   \* _inflight
  requested,  \* _reconcile_requested
  enabled,    \* _enabled
  count,      \* _loop_failure_count
  fails,      \* _task_failures: retry_count per task
  thread,     \* _thread holds a live thread
  pc,         \* where that thread is
  todo,       \* candidates of the pass
  cur,        \* the candidate being reconciled
  snap,       \* pending tasks the thread read before it took the lock
  note,       \* an observer call of a host thread that has not returned
  host,       \* how far the request that claimed a task itself has come
  retries,    \* refused submissions whose request has yet to call retry
  faults      \* passes that raised so far

sets == <<pending, scheduled, inflight>>
loop == <<requested, enabled, count, fails, faults>>
flow == <<thread, pc, todo, cur, snap>>
asks == <<retries, host>>
vars == <<st, sets, loop, flow, note, asks>>

\* taken: claimed by the submitting request; claimed: by the scheduler.  In
\* both no worker has started yet.
Stages == {"absent", "pending", "taken", "claimed", "running",
           "parked", "joined", "held", "done"}

\* The request has claimed the task, and then told the scheduler so.
Asking == {"none", "claimed", "told"}

Points == {"idle", "wait", "scan", "merge", "final", "pick", "take", "read",
           "claim", "dispatch", "giveback", "finish", "mark", "drop", "retire",
           "unwind"}

Note == [stage : {"none", "read", "ensure"}, by : Tasks \union {NoTask},
         add : SUBSET Tasks, drop : SUBSET Tasks, keep : SUBSET Tasks]

NoNote == [stage |-> "none", by |-> NoTask, add |-> {}, drop |-> {}, keep |-> {}]

Queued(s) == {t \in Tasks : s[t] = "pending"}

\* waiting_dependents: who is parked on t by a join.
Dependents(s, t) == {w \in Tasks : s[w] = "joined" /\ t \in Needs[w]}

Drained(s, t) == \A d \in Needs[t] : s[d] = "done"

Init ==
  /\ st = [t \in Tasks |-> "absent"]
  /\ pending = {} /\ scheduled = {} /\ inflight = {}
  /\ requested = FALSE /\ enabled = TRUE
  /\ count = 0 /\ faults = 0
  /\ fails = [t \in Tasks |-> 0]
  /\ thread = FALSE /\ pc = "idle"
  /\ todo = {} /\ cur = NoTask /\ snap = {}
  /\ note = NoNote /\ retries = {}
  /\ host = [t \in Tasks |-> "none"]

-----------------------------------------------------------------------------
(* notify: what it read from the store s, to be applied under the lock.    *)
(* add joins _pending, drop leaves _scheduled, and _scheduled keeps only   *)
(* keep.                                                                   *)

NotifyOne(s, t) ==
  LET woken == Dependents(s, t) \union (IF s[t] = "pending" THEN {t} ELSE {})
  IN [stage |-> "read", by |-> t, add |-> woken, drop |-> woken, keep |-> Tasks]

NotifyAll(s, t) ==
  [stage |-> "read", by |-> t, add |-> Queued(s), drop |-> {}, keep |-> Queued(s)]

ScheduledAfter(n) == (scheduled \ n.drop) \intersect n.keep

PendingAfter(n) == pending \union (n.add \ ScheduledAfter(n))

\* observe: a terminal commit notifies without a task id, any other with one.
Observe(s, t) == IF s[t] = "done" THEN NotifyAll(s, t) ELSE NotifyOne(s, t)

\* A session operation of a host thread: the commit, then its observer.
HostCommits(t, stage) ==
  /\ note = NoNote
  /\ st' = [st EXCEPT ![t] = stage]
  /\ note' = Observe(st', t)
  /\ UNCHANGED <<sets, loop, flow>>

HostCommit(t, stage) == HostCommits(t, stage) /\ UNCHANGED asks

Deliver ==
  /\ note.stage = "read"
  /\ scheduled' = ScheduledAfter(note)
  /\ pending' = PendingAfter(note)
  /\ note' = [note EXCEPT !.stage = "ensure"]
  /\ UNCHANGED <<st, inflight, loop, flow, asks>>

\* _ensure_thread.
Starts(queued) == ~thread /\ enabled /\ (queued # {} \/ requested)

EnsureThread(queued) ==
  /\ thread' = (thread \/ Starts(queued))
  /\ pc' = IF Starts(queued) THEN "wait" ELSE pc
  /\ UNCHANGED <<todo, cur, snap>>

Ensure ==
  /\ note.stage = "ensure"
  /\ EnsureThread(pending)
  /\ note' = NoNote
  /\ UNCHANGED <<st, sets, loop, asks>>

-----------------------------------------------------------------------------
(* Host threads: submissions, workers, decisions.                          *)

Admit(t) == st[t] = "absent" /\ HostCommit(t, "pending")

\* The submitting request claims the task it has just admitted.
HostClaim(t) ==
  /\ st[t] = "pending"
  /\ HostCommits(t, "taken")
  /\ host' = [host EXCEPT ![t] = "claimed"]
  /\ UNCHANGED retries

\* DurableTaskScheduler.claim.
HostMark(t) ==
  /\ note.by # t
  /\ host[t] = "claimed"
  /\ host' = [host EXCEPT ![t] = "told"]
  /\ pending' = pending \ {t}
  /\ scheduled' = scheduled \union {t}
  /\ UNCHANGED <<st, inflight, loop, flow, note, retries>>

HostStart(t) ==
  /\ host[t] = "told"
  /\ host' = [host EXCEPT ![t] = "none"]
  /\ st' = [st EXCEPT ![t] = "running"]
  /\ UNCHANGED <<sets, loop, flow, note, retries>>

\* The worker pool refused: unclaim_task, then DurableTaskScheduler.retry.
HostRefused(t) ==
  /\ host[t] = "told"
  /\ HostCommits(t, "pending")
  /\ host' = [host EXCEPT ![t] = "none"]
  /\ retries' = retries \union {t}

HostRetry(t) ==
  /\ t \in retries
  /\ note.by # t
  /\ retries' = retries \ {t}
  /\ scheduled' = scheduled \ {t}
  /\ pending' = pending \union {t}
  /\ EnsureThread(pending')
  /\ UNCHANGED <<st, inflight, loop, note, host>>

\* A worker parks, joins, holds its answer or ends; a decision resumes it.
Park(t) == st[t] = "running" /\ HostCommit(t, "parked")
Join(t) == st[t] = "running" /\ Needs[t] # {} /\ HostCommit(t, "joined")
Finish(t) ==
  /\ st[t] = "running"
  /\ HostCommit(t, IF Drained(st, t) THEN "done" ELSE "held")
Answer(t) == st[t] = "parked" /\ HostCommit(t, "pending")

-----------------------------------------------------------------------------
(* reconcile_finalization holds the mutation line for the whole pass.      *)

Woken == {t \in Tasks : st[t] = "joined" /\ Drained(st, t)}
Published == {t \in Tasks : st[t] = "held" /\ Drained(st, t)}

AfterPass ==
  [t \in Tasks |-> IF t \in Woken THEN "pending"
                   ELSE IF t \in Published THEN "done" ELSE st[t]]

\* resume(): the operator's recovery after the loop disabled itself.
Resume ==
  /\ note = NoNote
  /\ ~enabled
  /\ thread => EagerResume
  /\ enabled' = TRUE
  /\ count' = 0
  /\ requested' = TRUE
  /\ st' = AfterPass
  /\ note' = [NotifyAll(st', NoTask) EXCEPT !.drop = Woken]
  /\ UNCHANGED <<sets, fails, faults, flow, asks>>

-----------------------------------------------------------------------------
(* The scheduler thread.                                                   *)

Goto(point) == pc' = point /\ UNCHANGED <<thread, todo, cur, snap>>

Wake ==
  /\ pc = "wait"
  /\ requested' = FALSE
  /\ Goto("scan")
  /\ UNCHANGED <<st, sets, enabled, count, fails, faults, note, asks>>

\* notify(start=False): the read, then the critical section.
Scan ==
  /\ pc = "scan"
  /\ note = NoNote
  /\ snap' = Queued(st)
  /\ pc' = "merge"
  /\ UNCHANGED <<st, sets, loop, thread, todo, cur, note, asks>>

Merge ==
  /\ pc = "merge"
  /\ scheduled' = scheduled \intersect snap
  /\ pending' = pending \union (snap \ scheduled')
  /\ snap' = {}
  /\ pc' = "final"
  /\ UNCHANGED <<st, inflight, loop, thread, todo, cur, note, asks>>

\* The pass; its commits are observed by this very thread.
Final ==
  /\ pc = "final"
  /\ note = NoNote
  /\ st' = AfterPass
  /\ scheduled' = (scheduled \ Woken)
                  \intersect (IF Published = {} THEN Tasks ELSE Queued(st'))
  /\ pending' = pending \union Woken
                \union (UNION {Dependents(st', t) : t \in Woken})
                \union (IF Published = {} THEN {} ELSE Queued(st') \ scheduled')
  /\ Goto("pick")
  /\ UNCHANGED <<inflight, loop, note, asks>>

\* The pass raises; after LoopLimit failures in a row the loop stops.
LoopFailure ==
  /\ pc = "final"
  /\ faults < MaxFaults
  /\ faults' = faults + 1
  /\ count' = count + 1
  /\ enabled' = (enabled /\ count + 1 < LoopLimit)
  /\ requested' = TRUE
  /\ Goto(IF count + 1 < LoopLimit THEN "wait" ELSE "unwind")
  /\ UNCHANGED <<st, sets, fails, note, asks>>

Unwind ==
  /\ pc = "unwind"
  /\ thread' = FALSE
  /\ pc' = "idle"
  /\ UNCHANGED <<st, sets, loop, todo, cur, snap, note, asks>>

Pick ==
  /\ pc = "pick"
  /\ todo' = (pending \ inflight) \ scheduled
  /\ pc' = "take"
  /\ UNCHANGED <<st, sets, loop, thread, cur, snap, note, asks>>

\* Consume the wakeup before the dispatch it asks for.
Take(t) ==
  /\ pc = "take"
  /\ t \in todo
  /\ todo' = todo \ {t}
  /\ cur' = t
  /\ inflight' = inflight \union {t}
  /\ pending' = pending \ {t}
  /\ pc' = "read"
  /\ UNCHANGED <<st, scheduled, loop, thread, snap, note, asks>>

TakeNone ==
  /\ pc = "take"
  /\ todo = {}
  /\ Goto("retire")
  /\ UNCHANGED <<st, sets, loop, note, asks>>

Read ==
  /\ pc = "read"
  /\ note = NoNote
  /\ Goto(IF st[cur] = "pending" THEN "claim" ELSE "drop")
  /\ UNCHANGED <<st, sets, loop, note, asks>>

\* Mutant: the claim trusts the earlier read.
ClaimStale ==
  /\ pc = "claim"
  /\ note = NoNote
  /\ st' = [st EXCEPT ![cur] = "claimed"]
  /\ Goto("dispatch")
  /\ UNCHANGED <<sets, loop, note, asks>>

\* claim_task, or the ValueError of a task that is not pending any more.
Claim ==
  /\ pc = "claim"
  /\ note = NoNote
  /\ \/ /\ st[cur] = "pending"
        /\ st' = [st EXCEPT ![cur] = "claimed"]
        /\ pending' = pending \union Dependents(st', cur)
        /\ scheduled' = scheduled \ Dependents(st', cur)
        /\ Goto("dispatch")
     \/ /\ st[cur] # "pending"
        /\ Goto("drop")
        /\ UNCHANGED <<st, pending, scheduled>>
  /\ UNCHANGED <<inflight, loop, note, asks>>

\* The host accepts (a worker is running), refuses, or raises.
Dispatch ==
  /\ pc = "dispatch"
  /\ \/ /\ st' = [st EXCEPT ![cur] = "running"]
        /\ fails' = [fails EXCEPT ![cur] = 0]
        /\ Goto("finish")
     \/ /\ fails' \in {fails, [fails EXCEPT ![cur] = @ + 1]}
        /\ Goto("giveback")
        /\ UNCHANGED st
  /\ UNCHANGED <<sets, requested, enabled, count, faults, note, asks>>

\* Mutant: one retry too many.
GiveBackLate ==
  /\ pc = "giveback"
  /\ note = NoNote
  /\ \/ /\ fails[cur] > LoopLimit
        /\ st' = [st EXCEPT ![cur] = "done"]
        /\ UNCHANGED <<scheduled, pending>>
     \/ /\ fails[cur] <= LoopLimit
        /\ st' = [st EXCEPT ![cur] = "pending"]
        /\ scheduled' = scheduled \ {cur}
        /\ pending' = pending \union {cur}
  /\ Goto("drop")
  /\ UNCHANGED <<inflight, loop, note, asks>>

\* _record_task_failure fails the task at the limit; otherwise the claim goes
\* back and _defer_retry keeps the task on the list.
GiveBack ==
  /\ pc = "giveback"
  /\ note = NoNote
  /\ \/ /\ fails[cur] >= LoopLimit
        /\ st' = [st EXCEPT ![cur] = "done"]
        /\ scheduled' = scheduled \intersect Queued(st')
        /\ pending' = pending \union (Queued(st') \ scheduled')
     \/ /\ fails[cur] < LoopLimit
        /\ st' = [st EXCEPT ![cur] = "pending"]
        /\ scheduled' = scheduled \ {cur}
        /\ pending' = pending \union {cur}
  /\ Goto("drop")
  /\ UNCHANGED <<inflight, loop, note, asks>>

\* _finish_accepted_dispatch: the read, then the critical section.
FinishRead ==
  /\ pc = "finish"
  /\ note = NoNote
  /\ snap' = Queued(st)
  /\ pc' = "mark"
  /\ UNCHANGED <<st, sets, loop, thread, todo, cur, note, asks>>

\* Mutant: the older read wins.
StaysQueuedSnapshot == cur \in snap

\* A resume committed since that read has put the task on the list already.
StaysQueued == cur \in snap \/ cur \in pending

Mark ==
  /\ pc = "mark"
  /\ scheduled' = IF StaysQueued THEN scheduled \ {cur} ELSE scheduled \union {cur}
  /\ pending' = IF StaysQueued THEN pending \union {cur} ELSE pending \ {cur}
  /\ snap' = {}
  /\ pc' = "drop"
  /\ UNCHANGED <<st, inflight, loop, thread, todo, cur, note, asks>>

\* Mutant: the wakeup is deleted once more when the candidate is skipped.
DropForgets ==
  /\ pc = "drop"
  /\ inflight' = inflight \ {cur}
  /\ pending' = IF cur \in scheduled THEN pending ELSE pending \ {cur}
  /\ cur' = NoTask
  /\ pc' = "take"
  /\ UNCHANGED <<st, scheduled, loop, thread, todo, snap, note, asks>>

Drop ==
  /\ pc = "drop"
  /\ inflight' = inflight \ {cur}
  /\ cur' = NoTask
  /\ pc' = "take"
  /\ UNCHANGED <<st, pending, scheduled, loop, thread, todo, snap, note, asks>>

\* Retire under the lock that starts a thread.
MayRetire == pending = {} /\ ~requested

Retire ==
  /\ pc = "retire"
  /\ count' = 0
  /\ thread' = ~MayRetire
  /\ pc' = IF MayRetire THEN "idle" ELSE "wait"
  /\ UNCHANGED <<st, sets, requested, enabled, fails, faults, todo, cur, snap, note, asks>>

-----------------------------------------------------------------------------
HostStep ==
  \E t \in Tasks :
    \/ Admit(t) \/ HostClaim(t) \/ HostMark(t) \/ HostStart(t) \/ HostRefused(t)
    \/ HostRetry(t)
    \/ Park(t) \/ Join(t) \/ Finish(t) \/ Answer(t)

ThreadStep ==
  \/ Wake \/ Scan \/ Merge \/ Final \/ Pick \/ TakeNone
  \/ \E t \in Tasks : Take(t)
  \/ Read \/ Claim \/ Dispatch \/ GiveBack \/ FinishRead \/ Mark \/ Drop
  \/ Retire \/ Unwind

NoteStep == Deliver \/ Ensure

Next == HostStep \/ ThreadStep \/ NoteStep \/ LoopFailure \/ Resume

Spec == Init /\ [][Next]_vars

(* Fairness.  The scheduler thread waits with a timeout, so it never stays  *)
(* asleep, and gets the locks it waits for again and again; an observer and *)
(* a submitting request, once running, go on.                               *)
FairSpec ==
  /\ Spec
  /\ SF_vars(ThreadStep)
  /\ WF_vars(NoteStep)
  /\ \A t \in Tasks : WF_vars(HostRetry(t))

-----------------------------------------------------------------------------
(* Properties.                                                             *)

(* The scheduler's sets and the thread's locals have their types, and the   *)
(* failure counters never pass their limit.                                 *)
TypeOK ==
  /\ st \in [Tasks -> Stages]
  /\ pending \subseteq Tasks /\ scheduled \subseteq Tasks /\ inflight \subseteq Tasks
  /\ requested \in BOOLEAN /\ enabled \in BOOLEAN /\ thread \in BOOLEAN
  /\ count \in 0 .. LoopLimit /\ faults \in 0 .. MaxFaults
  /\ fails \in [Tasks -> 0 .. LoopLimit]
  /\ pc \in Points
  /\ todo \subseteq Tasks /\ snap \subseteq Tasks /\ retries \subseteq Tasks
  /\ cur \in Tasks \union {NoTask}
  /\ note \in Note
  /\ host \in [Tasks -> Asking]

(* A scheduler thread retires only when nothing is left for it: with no      *)
(* thread, and no observer on its way to start one, the store holds no       *)
(* pending task.  A resume committed while _finish_accepted_dispatch works   *)
(* on its older read must survive.                                           *)
NoLostWakeup ==
  ~thread /\ enabled /\ note = NoNote => Queued(st) = {} /\ pending = {}

(* Both the submitting request and the scheduler read a task as pending and  *)
(* claim it later (task_submit.py, scheduler.py).  A claim in the store has  *)
(* exactly one keeper: the request until its worker starts or is refused,    *)
(* the scheduler thread until the host accepts or the claim is given back.   *)
(* None is taken over by the other, none is left behind with no keeper.      *)
OneKeeper ==
  \A t \in Tasks :
    /\ st[t] = "taken" <=> host[t] # "none"
    /\ st[t] = "claimed" <=> cur = t /\ pc \in {"dispatch", "giveback"}

(* A committed requeue is dispatched: every pending task is claimed, as long *)
(* as the scheduler is enabled.                                              *)
PendingDispatched ==
  \A t \in Tasks :
    st[t] = "pending" ~> st[t] # "pending" \/ ~enabled
=============================================================================
