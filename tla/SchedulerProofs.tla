-------------------------- MODULE SchedulerProofs --------------------------
(***************************************************************************)
(* Theorems about Scheduler: the thread's locals have their types and the  *)
(* failure counters stay within their limit (TypeOK), a wakeup is never    *)
(* lost (NoLostWakeup), and a claim has one keeper (OneKeeper).            *)
(*                                                                         *)
(* The argument.  Every task the store holds as pending is Covered: it is  *)
(* on the scheduler's list, or the scheduler thread has just taken it and  *)
(* will look at its state again, or an observer that has read it as        *)
(* pending is about to put it there.  And a missing thread is justified    *)
(* (Rest): the last thread left with an empty list, under the lock, and    *)
(* whoever filled the list since is still on its way to start a thread.    *)
(***************************************************************************)
EXTENDS Scheduler, TLAPS

\* The points of the loop at which a candidate is being reconciled.
Working == {"read", "claim", "dispatch", "giveback", "finish", "mark", "drop"}

(* The thread slot, the loop's switch and the counters move together: a     *)
(* loop past its own stop is enabled, and an enabled one is below the limit.*)
LoopInv ==
  /\ thread <=> pc # "idle"
  /\ pc \notin {"idle", "unwind"} => enabled
  /\ enabled => count < LoopLimit
  /\ pc \in Working => cur \in Tasks
  /\ OneKeeper
  /\ \A t \in Tasks :
       fails[t] = LoopLimit => st[t] = "done" \/ (pc = "giveback" /\ cur = t)

(* t is on the list, or the thread that took it has yet to decide, or the   *)
(* observer that read it as pending will put it on the list.                *)
Covered(t) ==
  \/ t \in pending
  \/ cur = t /\ pc \in {"read", "claim"}
  \/ note.stage = "read" /\ t \in note.add /\ t \in note.drop

(* A missing thread has left nothing behind.                                *)
Rest ==
  /\ pc = "unwind" => ~enabled
  /\ ~thread /\ enabled /\ note = NoNote => pending = {} /\ ~requested

TInv == TypeOK /\ LoopInv

WInv == TInv /\ Rest /\ \A t \in Tasks : st[t] = "pending" => Covered(t)

-----------------------------------------------------------------------------
(* What the observers read is a set of tasks, and never more than its time  *)
(* of reading allows.                                                       *)
LEMMA ObserveTyped ==
  ASSUME NEW s \in [Tasks -> Stages], NEW t \in Tasks
  PROVE  /\ Observe(s, t) \in Note
         /\ Observe(s, t).stage = "read"
         /\ Observe(s, t) # NoNote
         /\ s[t] = "pending" => t \in Observe(s, t).add /\ t \in Observe(s, t).drop
PROOF
<1>1. CASE s[t] = "done"
  <2>1. Observe(s, t) = NotifyAll(s, t)
    BY <1>1 DEF Observe
  <2>. QED
    BY <1>1, <2>1 DEF NotifyAll, Note, NoNote, Queued
<1>2. CASE s[t] # "done"
  <2>1. Observe(s, t) = NotifyOne(s, t)
    BY <1>2 DEF Observe
  <2>2. Dependents(s, t) \subseteq Tasks
    BY DEF Dependents
  <2>. QED
    BY <2>1, <2>2 DEF NotifyOne, Note, NoNote
<1>. QED
  BY <1>1, <1>2

(* A commit of a host thread keeps the types and the loop's bookkeeping. *)
LEMMA THostCommit ==
  ASSUME TInv, NEW t \in Tasks, NEW stage \in Stages \ {"claimed"},
         st[t] \notin {"claimed", "done"}, HostCommits(t, stage),
         NEW how \in Asking, host' = [host EXCEPT ![t] = how],
         stage = "taken" <=> how # "none",
         retries' \subseteq Tasks
  PROVE  TInv'
PROOF
<1>1. TypeOK'
  <2>1. st' \in [Tasks -> Stages]
    BY DEF TInv, TypeOK, asks, Stages, HostCommits
  <2>2. note' \in Note
    BY <2>1, ObserveTyped DEF HostCommits
  <2>. QED
    BY <2>1, <2>2 DEF TInv, TypeOK, asks, sets, loop, flow, HostCommits
<1>2. LoopInv'
  BY DEF TInv, TypeOK, asks, LoopInv, OneKeeper, Working, Stages, sets, loop, flow, HostCommits
<1>. QED
  BY <1>1, <1>2 DEF TInv

(* Deliver keeps the types and the loop's bookkeeping. *)
LEMMA TDeliver ==
  ASSUME TInv, Deliver
  PROVE  TInv'
PROOF
<1>1. TypeOK'
  BY DEF TInv, TypeOK, asks, loop, flow, Deliver, Note, ScheduledAfter, PendingAfter
<1>2. LoopInv'
  BY DEF TInv, TypeOK, asks, LoopInv, OneKeeper, Working, loop, flow, Deliver
<1>. QED
  BY <1>1, <1>2 DEF TInv

(* Ensure keeps the types and the loop's bookkeeping. *)
LEMMA TEnsure ==
  ASSUME TInv, Ensure
  PROVE  TInv'
PROOF
<1>1. TypeOK'
  BY DEF TInv, TypeOK, asks, Points, sets, loop, EnsureThread, Starts, Ensure, NoNote, Note
<1>2. LoopInv'
  BY DEF TInv, TypeOK, asks, LoopInv, OneKeeper, Working, sets, loop, EnsureThread, Starts, Ensure
<1>. QED
  BY <1>1, <1>2 DEF TInv

(* HostMark keeps the types and the loop's bookkeeping. *)
LEMMA THostMark ==
  ASSUME TInv, NEW t \in Tasks, HostMark(t)
  PROVE  TInv'
PROOF
<1>1. TypeOK'
  BY DEF TInv, TypeOK, asks, Stages, Asking, loop, flow, HostMark
<1>2. LoopInv'
  BY DEF TInv, TypeOK, asks, LoopInv, OneKeeper, Working, Stages, loop, flow, HostMark
<1>. QED
  BY <1>1, <1>2 DEF TInv

(* HostStart keeps the types and the loop's bookkeeping. *)
LEMMA THostStart ==
  ASSUME TInv, NEW t \in Tasks, HostStart(t)
  PROVE  TInv'
PROOF
<1>1. TypeOK'
  BY DEF TInv, TypeOK, asks, Stages, Asking, sets, loop, flow, HostStart
<1>2. LoopInv'
  BY DEF TInv, TypeOK, asks, LoopInv, OneKeeper, Working, Stages, sets, loop, flow, HostStart
<1>. QED
  BY <1>1, <1>2 DEF TInv

(* HostRetry keeps the types and the loop's bookkeeping. *)
LEMMA THostRetry ==
  ASSUME TInv, NEW t \in Tasks, HostRetry(t)
  PROVE  TInv'
PROOF
<1>1. TypeOK'
  BY DEF TInv, TypeOK, asks, Points, loop, EnsureThread, Starts, HostRetry
<1>2. LoopInv'
  BY DEF TInv, TypeOK, asks, LoopInv, OneKeeper, Working, loop, EnsureThread, Starts, HostRetry
<1>. QED
  BY <1>1, <1>2 DEF TInv

(* Resume keeps the types and the loop's bookkeeping. *)
LEMMA TResume ==
  ASSUME TInv, Resume
  PROVE  TInv'
PROOF
<1>a. AfterPass \in [Tasks -> Stages]
  BY DEF TInv, TypeOK, asks, AfterPass, Stages
<1>b. \A u \in Tasks : st[u] \in {"taken", "claimed", "done"} => AfterPass[u] = st[u]
  BY DEF AfterPass, Woken, Published
<1>c. \A u \in Tasks : AfterPass[u] \in {"taken", "claimed"} => AfterPass[u] = st[u]
  BY DEF AfterPass
<1>1. TypeOK'
  <2>1. note' \in Note
    BY DEF Resume, NotifyAll, Note, Queued, Woken
  <2>. QED
    BY <1>a, <2>1, LimitAssumption DEF TInv, TypeOK, asks, sets, flow, Resume
<1>2. LoopInv'
  BY <1>a, <1>b, <1>c, LimitAssumption DEF TInv, TypeOK, asks, LoopInv, OneKeeper, Working, sets, flow, Resume
<1>. QED
  BY <1>1, <1>2 DEF TInv

(* Wake keeps the types and the loop's bookkeeping. *)
LEMMA TWake ==
  ASSUME TInv, Wake
  PROVE  TInv'
PROOF
<1>1. TypeOK'
  BY LimitAssumption DEF TInv, TypeOK, asks, Points, sets, Goto, Wake
<1>2. LoopInv'
  BY DEF TInv, TypeOK, asks, LoopInv, OneKeeper, Working, sets, Goto, Wake
<1>. QED
  BY <1>1, <1>2 DEF TInv

(* Scan keeps the types and the loop's bookkeeping. *)
LEMMA TScan ==
  ASSUME TInv, Scan
  PROVE  TInv'
PROOF
<1>1. TypeOK'
  BY DEF TInv, TypeOK, asks, Points, sets, loop, Scan, Queued
<1>2. LoopInv'
  BY DEF TInv, TypeOK, asks, LoopInv, OneKeeper, Working, sets, loop, Scan
<1>. QED
  BY <1>1, <1>2 DEF TInv

(* Merge keeps the types and the loop's bookkeeping. *)
LEMMA TMerge ==
  ASSUME TInv, Merge
  PROVE  TInv'
PROOF
<1>1. TypeOK'
  BY DEF TInv, TypeOK, asks, Points, loop, Merge
<1>2. LoopInv'
  BY DEF TInv, TypeOK, asks, LoopInv, OneKeeper, Working, loop, Merge
<1>. QED
  BY <1>1, <1>2 DEF TInv

(* Final keeps the types and the loop's bookkeeping. *)
LEMMA TFinal ==
  ASSUME TInv, Final
  PROVE  TInv'
PROOF
<1>a. AfterPass \in [Tasks -> Stages]
  BY DEF TInv, TypeOK, asks, AfterPass, Stages
<1>b. \A u \in Tasks : st[u] \in {"taken", "claimed", "done"} => AfterPass[u] = st[u]
  BY DEF AfterPass, Woken, Published
<1>c. \A u \in Tasks : AfterPass[u] \in {"taken", "claimed"} => AfterPass[u] = st[u]
  BY DEF AfterPass
<1>1. TypeOK'
  <2>1. Woken \subseteq Tasks /\ Queued(st') \subseteq Tasks
    BY DEF Woken, Queued
  <2>2. \A u \in Tasks : Dependents(st', u) \subseteq Tasks
    BY DEF Dependents
  <2>3. UNION {Dependents(st', t) : t \in Woken} \subseteq Tasks
    BY <2>1, <2>2
  <2>4. pending' \subseteq Tasks
    <3>1. PICK D : D = UNION {Dependents(st', t) : t \in Woken}
      OBVIOUS
    <3>2. PICK E : E = IF Published = {} THEN {} ELSE Queued(st') \ scheduled'
      OBVIOUS
    <3>3. pending' = pending \union Woken \union D \union E
      BY <3>1, <3>2 DEF Final
    <3>4. D \subseteq Tasks /\ E \subseteq Tasks
      BY <2>1, <2>3, <3>1, <3>2
    <3>. QED
      BY <2>1, <3>3, <3>4 DEF TInv, TypeOK, asks
  <2>5. scheduled' \subseteq Tasks
    BY DEF TInv, TypeOK, asks, Final
  <2>. QED
    BY <1>a, <2>4, <2>5 DEF TInv, TypeOK, asks, Points, loop, Goto, Final
<1>2. LoopInv'
  BY <1>a, <1>b, <1>c DEF TInv, TypeOK, asks, LoopInv, OneKeeper, Working, loop, Goto, Final
<1>. QED
  BY <1>1, <1>2 DEF TInv

(* LoopFailure keeps the types and the loop's bookkeeping. *)
LEMMA TLoopFailure ==
  ASSUME TInv, LoopFailure
  PROVE  TInv'
PROOF
<1>1. TypeOK'
  BY LimitAssumption DEF TInv, TypeOK, asks, LoopInv, OneKeeper, Points, sets, Goto, LoopFailure
<1>2. LoopInv'
  BY LimitAssumption DEF TInv, TypeOK, asks, LoopInv, OneKeeper, Working, sets, Goto, LoopFailure
<1>. QED
  BY <1>1, <1>2 DEF TInv

(* Unwind keeps the types and the loop's bookkeeping. *)
LEMMA TUnwind ==
  ASSUME TInv, Unwind
  PROVE  TInv'
PROOF
<1>1. TypeOK'
  BY DEF TInv, TypeOK, asks, Points, sets, loop, Unwind
<1>2. LoopInv'
  BY DEF TInv, TypeOK, asks, LoopInv, OneKeeper, Working, sets, loop, Unwind
<1>. QED
  BY <1>1, <1>2 DEF TInv

(* Pick keeps the types and the loop's bookkeeping. *)
LEMMA TPick ==
  ASSUME TInv, Pick
  PROVE  TInv'
PROOF
<1>1. TypeOK'
  BY DEF TInv, TypeOK, asks, Points, sets, loop, Pick
<1>2. LoopInv'
  BY DEF TInv, TypeOK, asks, LoopInv, OneKeeper, Working, sets, loop, Pick
<1>. QED
  BY <1>1, <1>2 DEF TInv

(* Take keeps the types and the loop's bookkeeping. *)
LEMMA TTake ==
  ASSUME TInv, NEW t \in Tasks, Take(t)
  PROVE  TInv'
PROOF
<1>1. TypeOK'
  BY DEF TInv, TypeOK, asks, Points, loop, Take
<1>2. LoopInv'
  BY DEF TInv, TypeOK, asks, LoopInv, OneKeeper, Working, loop, Take
<1>. QED
  BY <1>1, <1>2 DEF TInv

(* TakeNone keeps the types and the loop's bookkeeping. *)
LEMMA TTakeNone ==
  ASSUME TInv, TakeNone
  PROVE  TInv'
PROOF
<1>1. TypeOK'
  BY DEF TInv, TypeOK, asks, Points, sets, loop, Goto, TakeNone
<1>2. LoopInv'
  BY DEF TInv, TypeOK, asks, LoopInv, OneKeeper, Working, sets, loop, Goto, TakeNone
<1>. QED
  BY <1>1, <1>2 DEF TInv

(* Read keeps the types and the loop's bookkeeping. *)
LEMMA TRead ==
  ASSUME TInv, Read
  PROVE  TInv'
PROOF
<1>1. TypeOK'
  BY DEF TInv, TypeOK, asks, Points, sets, loop, Goto, Read
<1>2. LoopInv'
  BY DEF TInv, TypeOK, asks, LoopInv, OneKeeper, Working, sets, loop, Goto, Read
<1>. QED
  BY <1>1, <1>2 DEF TInv

(* Claim keeps the types and the loop's bookkeeping. *)
LEMMA TClaim ==
  ASSUME TInv, Claim
  PROVE  TInv'
PROOF
<1>1. TypeOK'
  BY DEF TInv, TypeOK, asks, LoopInv, OneKeeper, Points, Stages, loop, Goto, Claim, Dependents
<1>2. LoopInv'
  BY DEF TInv, TypeOK, asks, LoopInv, OneKeeper, Working, Stages, loop, Goto, Claim
<1>. QED
  BY <1>1, <1>2 DEF TInv

(* Dispatch keeps the types and the loop's bookkeeping. *)
LEMMA TDispatch ==
  ASSUME TInv, Dispatch
  PROVE  TInv'
PROOF
<1>1. TypeOK'
  <2>1. fails[cur] < LoopLimit /\ fails[cur] \in 0 .. LoopLimit /\ cur \in Tasks
    BY LimitAssumption DEF TInv, TypeOK, asks, LoopInv, OneKeeper, Working, Dispatch
  <2>2. fails' \in [Tasks -> 0 .. LoopLimit]
    BY <2>1, LimitAssumption DEF TInv, TypeOK, asks, Dispatch
  <2>3. st' \in [Tasks -> Stages]
    BY <2>1 DEF TInv, TypeOK, asks, Stages, Dispatch
  <2>. QED
    BY <2>2, <2>3 DEF TInv, TypeOK, asks, Points, sets, Goto, Dispatch
<1>2. LoopInv'
  BY LimitAssumption DEF TInv, TypeOK, asks, LoopInv, OneKeeper, Working, Stages, sets, Goto, Dispatch
<1>. QED
  BY <1>1, <1>2 DEF TInv

(* GiveBack keeps the types and the loop's bookkeeping. *)
LEMMA TGiveBack ==
  ASSUME TInv, GiveBack
  PROVE  TInv'
PROOF
<1>1. TypeOK'
  BY DEF TInv, TypeOK, asks, LoopInv, OneKeeper, Working, Points, Stages, loop, Goto, GiveBack, Queued
<1>2. LoopInv'
  BY DEF TInv, TypeOK, asks, LoopInv, OneKeeper, Working, Stages, loop, Goto, GiveBack
<1>. QED
  BY <1>1, <1>2 DEF TInv

(* FinishRead keeps the types and the loop's bookkeeping. *)
LEMMA TFinishRead ==
  ASSUME TInv, FinishRead
  PROVE  TInv'
PROOF
<1>1. TypeOK'
  BY DEF TInv, TypeOK, asks, Points, sets, loop, FinishRead, Queued
<1>2. LoopInv'
  BY DEF TInv, TypeOK, asks, LoopInv, OneKeeper, Working, sets, loop, FinishRead
<1>. QED
  BY <1>1, <1>2 DEF TInv

(* Mark keeps the types and the loop's bookkeeping. *)
LEMMA TMark ==
  ASSUME TInv, Mark
  PROVE  TInv'
PROOF
<1>1. TypeOK'
  BY DEF TInv, TypeOK, asks, LoopInv, OneKeeper, Working, Points, loop, Mark
<1>2. LoopInv'
  BY DEF TInv, TypeOK, asks, LoopInv, OneKeeper, Working, loop, Mark
<1>. QED
  BY <1>1, <1>2 DEF TInv

(* Drop keeps the types and the loop's bookkeeping. *)
LEMMA TDrop ==
  ASSUME TInv, Drop
  PROVE  TInv'
PROOF
<1>1. TypeOK'
  BY DEF TInv, TypeOK, asks, Points, loop, Drop
<1>2. LoopInv'
  BY DEF TInv, TypeOK, asks, LoopInv, OneKeeper, Working, loop, Drop
<1>. QED
  BY <1>1, <1>2 DEF TInv

(* Retire keeps the types and the loop's bookkeeping. *)
LEMMA TRetire ==
  ASSUME TInv, Retire
  PROVE  TInv'
PROOF
<1>1. TypeOK'
  BY LimitAssumption DEF TInv, TypeOK, asks, Points, sets, Retire
<1>2. LoopInv'
  <2>1. CASE MayRetire
    <3>1. thread' = FALSE /\ pc' = "idle"
      BY <2>1 DEF Retire
    <3>. QED
      BY <3>1, LimitAssumption DEF TInv, TypeOK, asks, LoopInv, OneKeeper, Working, Retire
  <2>2. CASE ~MayRetire
    <3>1. thread' = TRUE /\ pc' = "wait"
      BY <2>2 DEF Retire
    <3>. QED
      BY <3>1, LimitAssumption DEF TInv, TypeOK, asks, LoopInv, OneKeeper, Working, Retire
  <2>. QED
    BY <2>1, <2>2
<1>. QED
  BY <1>1, <1>2 DEF TInv

(* Which commits the host threads make, and what they hold afterwards.      *)
LEMMA HostKinds ==
  ASSUME TInv, NEW t \in Tasks,
         \/ Admit(t) \/ HostClaim(t) \/ HostRefused(t)
         \/ Park(t) \/ Join(t) \/ Finish(t) \/ Answer(t)
  PROVE  /\ st[t] \notin {"claimed", "done"}
         /\ retries' \subseteq Tasks
         /\ \E stage \in Stages \ {"claimed"}, how \in Asking :
              /\ HostCommits(t, stage)
              /\ host' = [host EXCEPT ![t] = how]
              /\ stage = "taken" <=> how # "none"
PROOF
<1>1. /\ retries \subseteq Tasks /\ host \in [Tasks -> Asking]
      /\ st[t] = "taken" <=> host[t] # "none"
  BY DEF TInv, TypeOK, LoopInv, OneKeeper
<1>2. CASE HostClaim(t)
  BY <1>1, <1>2 DEF HostClaim, Stages, Asking
<1>3. CASE HostRefused(t)
  BY <1>1, <1>3 DEF HostRefused, Stages, Asking
<1>4. CASE Admit(t) \/ Park(t) \/ Join(t) \/ Finish(t) \/ Answer(t)
  <2>1. st[t] \notin {"taken", "claimed", "done"}
    BY <1>4 DEF Admit, Park, Join, Finish, Answer
  <2>2. PICK stage \in Stages \ {"claimed", "taken"} : HostCommit(t, stage)
    BY <1>4, Zenon DEF Admit, Park, Join, Finish, Answer, Stages
  <2>3. host' = [host EXCEPT ![t] = "none"] /\ retries' = retries /\ "none" \in Asking
    BY <1>1, <2>1, <2>2 DEF HostCommit, asks, Asking
  <2>. QED
    BY <1>1, <2>1, <2>2, <2>3 DEF HostCommit
<1>. QED
  BY <1>2, <1>3, <1>4

(* No step breaks the types or the loop's bookkeeping. *)
LEMMA TNext == TInv /\ Next => TInv'
PROOF
<1>. SUFFICES ASSUME TInv, Next PROVE TInv'
  OBVIOUS
<1>1. CASE HostStep
  <2>1. PICK t \in Tasks :
          \/ Admit(t) \/ HostClaim(t) \/ HostMark(t) \/ HostStart(t) \/ HostRefused(t)
          \/ HostRetry(t)
          \/ Park(t) \/ Join(t) \/ Finish(t) \/ Answer(t)
    BY <1>1 DEF HostStep
  <2>2. CASE \/ Admit(t) \/ HostClaim(t) \/ HostRefused(t)
             \/ Park(t) \/ Join(t) \/ Finish(t) \/ Answer(t)
    BY <2>2, HostKinds, THostCommit
  <2>3. CASE HostMark(t) \/ HostStart(t) \/ HostRetry(t)
    BY <2>3, THostMark, THostStart, THostRetry
  <2>. QED
    BY <2>1, <2>2, <2>3
<1>2. CASE ThreadStep
  BY <1>2, TWake, TScan, TMerge, TFinal, TPick, TTakeNone, TTake, TRead,
     TClaim, TDispatch, TGiveBack, TFinishRead, TMark, TDrop, TRetire, TUnwind DEF ThreadStep
<1>3. CASE NoteStep
  BY <1>3, TDeliver, TEnsure DEF NoteStep
<1>4. CASE LoopFailure
  BY <1>4, TLoopFailure
<1>5. CASE Resume
  BY <1>5, TResume
<1>. QED
  BY <1>1, <1>2, <1>3, <1>4, <1>5 DEF Next

(* A step that changes nothing keeps them. *)
LEMMA TStutter == TInv /\ UNCHANGED vars => TInv'
BY DEF TInv, TypeOK, asks, LoopInv, OneKeeper, vars, sets, loop, flow

(* The loop starts empty, without a thread. *)
LEMMA TInit == Init => TInv
PROOF
<1>. SUFFICES ASSUME Init PROVE TInv
  OBVIOUS
<1>1. NoNote \in Note
  BY DEF Note, NoNote
<1>2. TypeOK
  <2>1. 0 \in 0 .. LoopLimit /\ 0 \in 0 .. MaxFaults
    BY LimitAssumption
  <2>2. st \in [Tasks -> Stages] /\ fails \in [Tasks -> 0 .. LoopLimit]
    BY <2>1 DEF Init, Stages
  <2>3. host \in [Tasks -> Asking]
    BY DEF Init, Asking
  <2>. QED
    BY <1>1, <2>1, <2>2, <2>3 DEF Init, TypeOK, Points
<1>3. LoopInv
  BY LimitAssumption DEF Init, LoopInv, OneKeeper, Working
<1>. QED
  BY <1>2, <1>3 DEF TInv

(* The inductive invariant of the loop. *)
LEMMA Loop == Spec => []TInv
<1>. QED
  BY TInit, TNext, TStutter, PTL DEF Spec

(* TypeOK holds whatever tasks, limits and dependencies there are: the      *)
(* failure counters of the loop and of each task never pass                 *)
(* _loop_failure_limit, and the thread works on a task only while it has    *)
(* one.                                                                     *)
THEOREM SchedulerTyped == Spec => []TypeOK
<1>1. TInv => TypeOK
  BY DEF TInv
<1>. QED
  BY <1>1, Loop, PTL

-----------------------------------------------------------------------------
(* A commit of a host thread loses no wakeup. *)
LEMMA WHostCommit ==
  ASSUME WInv, NEW t \in Tasks, NEW stage \in Stages \ {"claimed"},
         st[t] \notin {"claimed", "done"}, HostCommits(t, stage),
         NEW how \in Asking, host' = [host EXCEPT ![t] = how],
         stage = "taken" <=> how # "none",
         retries' \subseteq Tasks
  PROVE  WInv'
PROOF
<1>1. TInv'
  BY THostCommit DEF WInv
<1>2. Rest'
  BY DEF WInv, TInv, TypeOK, LoopInv, OneKeeper, sets, loop, flow, NoNote, HostCommits, Rest
<1>3. ASSUME NEW w \in Tasks, st'[w] = "pending"
      PROVE  Covered(w)'
  <2>1. CASE w = t
    <3>1. st' \in [Tasks -> Stages]
      BY <1>1 DEF TInv, TypeOK, asks
    <3>2. note'.stage = "read" /\ t \in note'.add /\ t \in note'.drop
      BY <1>3, <2>1, <3>1, ObserveTyped DEF HostCommits
    <3>. QED
      BY <2>1, <3>2 DEF Covered
  <2>2. CASE w # t
    <3>1. st[w] = "pending" /\ note.stage # "read"
      BY <1>3, <2>2 DEF WInv, TInv, TypeOK, NoNote, HostCommits
    <3>. QED
      BY <3>1 DEF WInv, Covered, sets, flow, HostCommits
  <2>. QED
    BY <2>1, <2>2
<1>. QED
  BY <1>1, <1>2, <1>3 DEF WInv

(* Deliver loses no wakeup. *)
LEMMA WDeliver ==
  ASSUME WInv, Deliver
  PROVE  WInv'
PROOF
<1>1. TInv'
  BY TDeliver DEF WInv
<1>2. Rest'
  <2>1. note' # NoNote
    <3>1. note'.stage = "ensure"
      BY DEF WInv, TInv, TypeOK, Note, Deliver
    <3>. QED
      BY <3>1 DEF NoNote
  <2>. QED
    BY <2>1 DEF WInv, Rest, loop, flow, Deliver
<1>3. ASSUME NEW w \in Tasks, st'[w] = "pending"
      PROVE  Covered(w)'
  <2>1. Covered(w)
    BY <1>3 DEF WInv, Deliver
  <2>2. CASE w \in pending
    BY <2>2 DEF Covered, Deliver, PendingAfter
  <2>3. CASE cur = w /\ pc \in {"read", "claim"}
    BY <2>3 DEF Covered, Deliver, flow
  <2>4. CASE w \in note.add /\ w \in note.drop
    BY <2>4 DEF Covered, Deliver, PendingAfter, ScheduledAfter
  <2>. QED
    BY <2>1, <2>2, <2>3, <2>4 DEF Covered
<1>. QED
  BY <1>1, <1>2, <1>3 DEF WInv

(* Ensure loses no wakeup. *)
LEMMA WEnsure ==
  ASSUME WInv, Ensure
  PROVE  WInv'
PROOF
<1>1. TInv'
  BY TEnsure DEF WInv
<1>2. Rest'
  BY DEF WInv, TInv, TypeOK, LoopInv, OneKeeper, sets, loop, EnsureThread, Starts, NoNote, Ensure, Rest
<1>3. ASSUME NEW w \in Tasks, st'[w] = "pending"
      PROVE  Covered(w)'
  BY <1>3 DEF WInv, TInv, TypeOK, LoopInv, OneKeeper, sets, loop, EnsureThread, Starts, NoNote, Ensure, Covered
<1>. QED
  BY <1>1, <1>2, <1>3 DEF WInv

(* HostMark loses no wakeup. *)
LEMMA WHostMark ==
  ASSUME WInv, NEW t \in Tasks, HostMark(t)
  PROVE  WInv'
PROOF
<1>1. TInv'
  BY THostMark DEF WInv
<1>2. Rest'
  BY DEF WInv, TInv, TypeOK, LoopInv, OneKeeper, loop, flow, HostMark, Rest
<1>3. ASSUME NEW w \in Tasks, st'[w] = "pending"
      PROVE  Covered(w)'
  BY <1>3 DEF WInv, TInv, TypeOK, LoopInv, OneKeeper, loop, flow, HostMark, Covered
<1>. QED
  BY <1>1, <1>2, <1>3 DEF WInv

(* HostStart loses no wakeup. *)
LEMMA WHostStart ==
  ASSUME WInv, NEW t \in Tasks, HostStart(t)
  PROVE  WInv'
PROOF
<1>1. TInv'
  BY THostStart DEF WInv
<1>2. Rest'
  BY DEF WInv, TInv, TypeOK, LoopInv, OneKeeper, sets, loop, flow, HostStart, Rest
<1>3. ASSUME NEW w \in Tasks, st'[w] = "pending"
      PROVE  Covered(w)'
  BY <1>3 DEF WInv, TInv, TypeOK, LoopInv, OneKeeper, sets, loop, flow, HostStart, Covered
<1>. QED
  BY <1>1, <1>2, <1>3 DEF WInv

(* HostRetry loses no wakeup. *)
LEMMA WHostRetry ==
  ASSUME WInv, NEW t \in Tasks, HostRetry(t)
  PROVE  WInv'
PROOF
<1>1. TInv'
  BY THostRetry DEF WInv
<1>2. Rest'
  BY DEF WInv, TInv, TypeOK, LoopInv, OneKeeper, loop, EnsureThread, Starts, HostRetry, Rest
<1>3. ASSUME NEW w \in Tasks, st'[w] = "pending"
      PROVE  Covered(w)'
  BY <1>3 DEF WInv, TInv, TypeOK, LoopInv, OneKeeper, loop, EnsureThread, Starts, HostRetry, Covered
<1>. QED
  BY <1>1, <1>2, <1>3 DEF WInv

(* Resume loses no wakeup. *)
LEMMA WResume ==
  ASSUME WInv, ~EagerResume, Resume
  PROVE  WInv'
PROOF
<1>1. TInv'
  BY TResume DEF WInv
<1>2. Rest'
  <2>1. note'.stage = "read"
    BY DEF Resume, NotifyAll
  <2>2. note' # NoNote
    BY <2>1 DEF NoNote
  <2>3. pc' # "unwind"
    BY DEF WInv, TInv, LoopInv, Resume, flow
  <2>. QED
    BY <2>2, <2>3 DEF Rest
<1>3. ASSUME NEW w \in Tasks, st'[w] = "pending"
      PROVE  Covered(w)'
  <2>1. note'.stage = "read" /\ note'.add = Queued(st') /\ note'.drop = Woken
    BY DEF Resume, NotifyAll
  <2>2. CASE w \in Woken
    BY <1>3, <2>1, <2>2 DEF Covered, Queued
  <2>3. CASE w \notin Woken
    <3>1. st[w] = "pending" /\ note.stage # "read"
      BY <1>3, <2>3 DEF Resume, AfterPass, NoNote
    <3>. QED
      BY <3>1 DEF WInv, Covered, sets, flow, Resume
  <2>. QED
    BY <2>2, <2>3
<1>. QED
  BY <1>1, <1>2, <1>3 DEF WInv

(* Wake loses no wakeup. *)
LEMMA WWake ==
  ASSUME WInv, Wake
  PROVE  WInv'
PROOF
<1>1. TInv'
  BY TWake DEF WInv
<1>2. Rest'
  BY DEF WInv, TInv, TypeOK, LoopInv, OneKeeper, sets, Goto, Wake, Rest
<1>3. ASSUME NEW w \in Tasks, st'[w] = "pending"
      PROVE  Covered(w)'
  BY <1>3 DEF WInv, TInv, TypeOK, LoopInv, OneKeeper, sets, Goto, Wake, Covered
<1>. QED
  BY <1>1, <1>2, <1>3 DEF WInv

(* Scan loses no wakeup. *)
LEMMA WScan ==
  ASSUME WInv, Scan
  PROVE  WInv'
PROOF
<1>1. TInv'
  BY TScan DEF WInv
<1>2. Rest'
  BY DEF WInv, TInv, TypeOK, LoopInv, OneKeeper, sets, loop, NoNote, Scan, Rest
<1>3. ASSUME NEW w \in Tasks, st'[w] = "pending"
      PROVE  Covered(w)'
  BY <1>3 DEF WInv, TInv, TypeOK, LoopInv, OneKeeper, sets, loop, NoNote, Scan, Covered
<1>. QED
  BY <1>1, <1>2, <1>3 DEF WInv

(* Merge loses no wakeup. *)
LEMMA WMerge ==
  ASSUME WInv, Merge
  PROVE  WInv'
PROOF
<1>1. TInv'
  BY TMerge DEF WInv
<1>2. Rest'
  BY DEF WInv, TInv, TypeOK, LoopInv, OneKeeper, loop, Merge, Rest
<1>3. ASSUME NEW w \in Tasks, st'[w] = "pending"
      PROVE  Covered(w)'
  BY <1>3 DEF WInv, TInv, TypeOK, LoopInv, OneKeeper, loop, Merge, Covered
<1>. QED
  BY <1>1, <1>2, <1>3 DEF WInv

(* Final loses no wakeup. *)
LEMMA WFinal ==
  ASSUME WInv, Final
  PROVE  WInv'
PROOF
<1>1. TInv'
  BY TFinal DEF WInv
<1>2. Rest'
  BY DEF WInv, TInv, TypeOK, LoopInv, OneKeeper, loop, Goto, NoNote, Final, Rest
<1>3. ASSUME NEW w \in Tasks, st'[w] = "pending"
      PROVE  Covered(w)'
  <2>1. CASE w \in Woken
    BY <2>1 DEF Covered, Final
  <2>2. CASE w \notin Woken
    <3>1. st[w] = "pending" /\ note.stage # "read" /\ pc = "final"
      BY <1>3, <2>2 DEF Final, AfterPass, NoNote
    <3>2. w \in pending
      BY <3>1 DEF WInv, Covered
    <3>. QED
      BY <3>2 DEF Covered, Final
  <2>. QED
    BY <2>1, <2>2
<1>. QED
  BY <1>1, <1>2, <1>3 DEF WInv

(* LoopFailure loses no wakeup. *)
LEMMA WLoopFailure ==
  ASSUME WInv, LoopFailure
  PROVE  WInv'
PROOF
<1>1. TInv'
  BY TLoopFailure DEF WInv
<1>2. Rest'
  BY DEF WInv, TInv, TypeOK, LoopInv, OneKeeper, sets, Goto, LoopFailure, Rest
<1>3. ASSUME NEW w \in Tasks, st'[w] = "pending"
      PROVE  Covered(w)'
  BY <1>3 DEF WInv, TInv, TypeOK, LoopInv, OneKeeper, sets, Goto, LoopFailure, Covered
<1>. QED
  BY <1>1, <1>2, <1>3 DEF WInv

(* Unwind loses no wakeup. *)
LEMMA WUnwind ==
  ASSUME WInv, Unwind
  PROVE  WInv'
PROOF
<1>1. TInv'
  BY TUnwind DEF WInv
<1>2. Rest'
  BY DEF WInv, TInv, TypeOK, LoopInv, OneKeeper, sets, loop, Unwind, Rest
<1>3. ASSUME NEW w \in Tasks, st'[w] = "pending"
      PROVE  Covered(w)'
  BY <1>3 DEF WInv, TInv, TypeOK, LoopInv, OneKeeper, sets, loop, Unwind, Covered
<1>. QED
  BY <1>1, <1>2, <1>3 DEF WInv

(* Pick loses no wakeup. *)
LEMMA WPick ==
  ASSUME WInv, Pick
  PROVE  WInv'
PROOF
<1>1. TInv'
  BY TPick DEF WInv
<1>2. Rest'
  BY DEF WInv, TInv, TypeOK, LoopInv, OneKeeper, sets, loop, Pick, Rest
<1>3. ASSUME NEW w \in Tasks, st'[w] = "pending"
      PROVE  Covered(w)'
  BY <1>3 DEF WInv, TInv, TypeOK, LoopInv, OneKeeper, sets, loop, Pick, Covered
<1>. QED
  BY <1>1, <1>2, <1>3 DEF WInv

(* Take loses no wakeup. *)
LEMMA WTake ==
  ASSUME WInv, NEW t \in Tasks, Take(t)
  PROVE  WInv'
PROOF
<1>1. TInv'
  BY TTake DEF WInv
<1>2. Rest'
  BY DEF WInv, TInv, TypeOK, LoopInv, OneKeeper, loop, Take, Rest
<1>3. ASSUME NEW w \in Tasks, st'[w] = "pending"
      PROVE  Covered(w)'
  BY <1>3 DEF WInv, TInv, TypeOK, LoopInv, OneKeeper, loop, Take, Covered
<1>. QED
  BY <1>1, <1>2, <1>3 DEF WInv

(* TakeNone loses no wakeup. *)
LEMMA WTakeNone ==
  ASSUME WInv, TakeNone
  PROVE  WInv'
PROOF
<1>1. TInv'
  BY TTakeNone DEF WInv
<1>2. Rest'
  BY DEF WInv, TInv, TypeOK, LoopInv, OneKeeper, sets, loop, Goto, TakeNone, Rest
<1>3. ASSUME NEW w \in Tasks, st'[w] = "pending"
      PROVE  Covered(w)'
  BY <1>3 DEF WInv, TInv, TypeOK, LoopInv, OneKeeper, sets, loop, Goto, TakeNone, Covered
<1>. QED
  BY <1>1, <1>2, <1>3 DEF WInv

(* Read loses no wakeup. *)
LEMMA WRead ==
  ASSUME WInv, Read
  PROVE  WInv'
PROOF
<1>1. TInv'
  BY TRead DEF WInv
<1>2. Rest'
  BY DEF WInv, TInv, TypeOK, LoopInv, OneKeeper, sets, loop, Goto, NoNote, Read, Rest
<1>3. ASSUME NEW w \in Tasks, st'[w] = "pending"
      PROVE  Covered(w)'
  BY <1>3 DEF WInv, TInv, TypeOK, LoopInv, OneKeeper, sets, loop, Goto, NoNote, Read, Covered
<1>. QED
  BY <1>1, <1>2, <1>3 DEF WInv

(* Claim loses no wakeup. *)
LEMMA WClaim ==
  ASSUME WInv, Claim
  PROVE  WInv'
PROOF
<1>1. TInv'
  BY TClaim DEF WInv
<1>2. Rest'
  BY DEF WInv, TInv, TypeOK, LoopInv, OneKeeper, loop, Goto, NoNote, Claim, Rest
<1>3. ASSUME NEW w \in Tasks, st'[w] = "pending"
      PROVE  Covered(w)'
  BY <1>3 DEF WInv, TInv, TypeOK, LoopInv, OneKeeper, loop, Goto, NoNote, Claim, Covered
<1>. QED
  BY <1>1, <1>2, <1>3 DEF WInv

(* Dispatch loses no wakeup. *)
LEMMA WDispatch ==
  ASSUME WInv, Dispatch
  PROVE  WInv'
PROOF
<1>1. TInv'
  BY TDispatch DEF WInv
<1>2. Rest'
  BY DEF WInv, TInv, TypeOK, LoopInv, OneKeeper, sets, Goto, Dispatch, Rest
<1>3. ASSUME NEW w \in Tasks, st'[w] = "pending"
      PROVE  Covered(w)'
  BY <1>3 DEF WInv, TInv, TypeOK, LoopInv, OneKeeper, sets, Goto, Dispatch, Covered
<1>. QED
  BY <1>1, <1>2, <1>3 DEF WInv

(* GiveBack loses no wakeup. *)
LEMMA WGiveBack ==
  ASSUME WInv, GiveBack
  PROVE  WInv'
PROOF
<1>1. TInv'
  BY TGiveBack DEF WInv
<1>2. Rest'
  BY DEF WInv, TInv, TypeOK, LoopInv, OneKeeper, loop, Goto, NoNote, GiveBack, Rest
<1>3. ASSUME NEW w \in Tasks, st'[w] = "pending"
      PROVE  Covered(w)'
  BY <1>3 DEF WInv, TInv, TypeOK, LoopInv, OneKeeper, loop, Goto, NoNote, GiveBack, Covered
<1>. QED
  BY <1>1, <1>2, <1>3 DEF WInv

(* FinishRead loses no wakeup. *)
LEMMA WFinishRead ==
  ASSUME WInv, FinishRead
  PROVE  WInv'
PROOF
<1>1. TInv'
  BY TFinishRead DEF WInv
<1>2. Rest'
  BY DEF WInv, TInv, TypeOK, LoopInv, OneKeeper, sets, loop, NoNote, FinishRead, Rest
<1>3. ASSUME NEW w \in Tasks, st'[w] = "pending"
      PROVE  Covered(w)'
  BY <1>3 DEF WInv, TInv, TypeOK, LoopInv, OneKeeper, sets, loop, NoNote, FinishRead, Covered
<1>. QED
  BY <1>1, <1>2, <1>3 DEF WInv

(* Mark loses no wakeup. *)
LEMMA WMark ==
  ASSUME WInv, Mark
  PROVE  WInv'
PROOF
<1>1. TInv'
  BY TMark DEF WInv
<1>2. Rest'
  BY DEF WInv, TInv, TypeOK, LoopInv, OneKeeper, loop, Mark, Rest
<1>3. ASSUME NEW w \in Tasks, st'[w] = "pending"
      PROVE  Covered(w)'
  <2>1. pending \subseteq pending'
    BY DEF Mark, StaysQueued
  <2>. QED
    BY <1>3, <2>1 DEF WInv, Covered, Mark
<1>. QED
  BY <1>1, <1>2, <1>3 DEF WInv

(* Drop loses no wakeup. *)
LEMMA WDrop ==
  ASSUME WInv, Drop
  PROVE  WInv'
PROOF
<1>1. TInv'
  BY TDrop DEF WInv
<1>2. Rest'
  BY DEF WInv, TInv, TypeOK, LoopInv, OneKeeper, loop, Drop, Rest
<1>3. ASSUME NEW w \in Tasks, st'[w] = "pending"
      PROVE  Covered(w)'
  BY <1>3 DEF WInv, TInv, TypeOK, LoopInv, OneKeeper, loop, Drop, Covered
<1>. QED
  BY <1>1, <1>2, <1>3 DEF WInv

(* Retire loses no wakeup. *)
LEMMA WRetire ==
  ASSUME WInv, Retire
  PROVE  WInv'
PROOF
<1>1. TInv'
  BY TRetire DEF WInv
<1>2. Rest'
  <2>1. CASE MayRetire
    BY <2>1 DEF WInv, Rest, MayRetire, sets, Retire
  <2>2. CASE ~MayRetire
    <3>1. thread' = TRUE /\ pc' = "wait"
      BY <2>2 DEF Retire
    <3>. QED
      BY <3>1 DEF Rest
  <2>. QED
    BY <2>1, <2>2
<1>3. ASSUME NEW w \in Tasks, st'[w] = "pending"
      PROVE  Covered(w)'
  BY <1>3 DEF WInv, TInv, TypeOK, LoopInv, OneKeeper, sets, Retire, Covered
<1>. QED
  BY <1>1, <1>2, <1>3 DEF WInv

(* No step loses a wakeup, as long as resume() waits for the thread that    *)
(* stopped itself to leave its slot.                                        *)
LEMMA WNext == ASSUME ~EagerResume PROVE WInv /\ Next => WInv'
PROOF
<1>. SUFFICES ASSUME WInv, Next PROVE WInv'
  OBVIOUS
<1>1. CASE HostStep
  <2>1. PICK t \in Tasks :
          \/ Admit(t) \/ HostClaim(t) \/ HostMark(t) \/ HostStart(t) \/ HostRefused(t)
          \/ HostRetry(t)
          \/ Park(t) \/ Join(t) \/ Finish(t) \/ Answer(t)
    BY <1>1 DEF HostStep
  <2>2. CASE \/ Admit(t) \/ HostClaim(t) \/ HostRefused(t)
             \/ Park(t) \/ Join(t) \/ Finish(t) \/ Answer(t)
    BY <2>2, HostKinds, WHostCommit DEF WInv
  <2>3. CASE HostMark(t) \/ HostStart(t) \/ HostRetry(t)
    BY <2>3, WHostMark, WHostStart, WHostRetry
  <2>. QED
    BY <2>1, <2>2, <2>3
<1>2. CASE ThreadStep
  BY <1>2, WWake, WScan, WMerge, WFinal, WPick, WTakeNone, WTake, WRead,
     WClaim, WDispatch, WGiveBack, WFinishRead, WMark, WDrop, WRetire, WUnwind DEF ThreadStep
<1>3. CASE NoteStep
  BY <1>3, WDeliver, WEnsure DEF NoteStep
<1>4. CASE LoopFailure
  BY <1>4, WLoopFailure
<1>5. CASE Resume
  BY <1>5, WResume
<1>. QED
  BY <1>1, <1>2, <1>3, <1>4, <1>5 DEF Next

(* A step that changes nothing loses none. *)
LEMMA WStutter == WInv /\ UNCHANGED vars => WInv'
<1>. SUFFICES ASSUME WInv, UNCHANGED vars PROVE WInv'
  OBVIOUS
<1>1. TInv'
  BY TStutter DEF WInv
<1>. QED
  BY <1>1 DEF WInv, Rest, Covered, vars, sets, loop, flow

(* At the start there is nothing to wake. *)
LEMMA WInit == Init => WInv
BY TInit DEF Init, WInv, Rest, Covered

(* NoLostWakeup: with the thread gone, the loop enabled and no observer on  *)
(* its way, the store holds no pending task and the list is empty.  The     *)
(* hypothesis is the operator's side of the protocol: resume() after the    *)
(* stopped loop has unwound (scheduler.py clears _thread in a finally).     *)
THEOREM WakeupsKept == ASSUME ~EagerResume PROVE Spec => []NoLostWakeup
PROOF
<1>1. WInv => NoLostWakeup
  <2>. SUFFICES ASSUME WInv, ~thread, enabled, note = NoNote
                PROVE  Queued(st) = {} /\ pending = {}
    BY DEF NoLostWakeup
  <2>1. pending = {} /\ pc = "idle" /\ note.stage = "none"
    BY DEF WInv, TInv, LoopInv, Rest, NoNote
  <2>. QED
    BY <2>1 DEF WInv, Covered, Queued
<1>2. WInv /\ [Next]_vars => WInv'
  BY WNext, WStutter
<1>. QED
  BY <1>1, <1>2, WInit, PTL DEF Spec

(* OneKeeper: whichever of the two claims first, and through refusals,      *)
(* failures and a resumed loop, the other leaves that claim alone, and no   *)
(* claim stays in the store when its keeper has turned to something else.   *)
THEOREM ClaimsKept == Spec => []OneKeeper
PROOF
<1>1. TInv => OneKeeper
  BY DEF TInv, LoopInv
<1>. QED
  BY <1>1, Loop, PTL

=============================================================================
