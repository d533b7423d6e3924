------------------------------- MODULE Kernel -------------------------------
(***************************************************************************)
(* The runtime operation of one task: the durable position ("leaf") that   *)
(* the kernel loop reads, the reducer that derives the next action from    *)
(* durable facts alone, the executors that perform it, and the ledger of   *)
(* external effects: provider sends, tool calls and the delivery of tool   *)
(* results to the provider.                                                *)
(*                                                                         *)
(* drive_kernel loads the durable view, decides, executes, and loads       *)
(* again.  Deciding and executing are separate steps here: Stop, a queued  *)
(* input, an answer or an approval can arrive in between, and the process  *)
(* can die before, between and after any two commits.  Every commit is one *)
(* SQLite transaction (DurableTasks models the task row that carries it);  *)
(* a call to the provider or to a tool is a step of its own between the    *)
(* commit of its intent and the commit of its outcome.                     *)
(*                                                                         *)
(* Prompts, snapshots and artifacts are left out: a provider send is known *)
(* by its index in sends, which is also its provider turn, and a delivery  *)
(* batch by its index in batches (batch ids are never reused).             *)
(***************************************************************************)
EXTENDS Naturals, Sequences

CONSTANTS
  Modes,          \* kinds of task: [native, kind] records
  Replies,        \* what the provider may answer
  MaxTurns,       \* session.max_turns
  StagnantTurns,  \* transport.stagnant_turns
  ClosingLimit,   \* acknowledgements one protocol closure may send (4)
  MaxPhases,      \* 1 for the writer plus max_repair_rounds
  MaxFaults       \* bound: crashes and provider failures

AllModes == [native : BOOLEAN, kind : {"project", "research"}]
AllReplies == {"read", "mixed", "shell", "answer", "done", "ask", "bad", "plain", "cut"}

ASSUME ModesAssumption == Modes \subseteq AllModes
ASSUME RepliesAssumption == Replies \subseteq AllReplies
ASSUME BudgetAssumption ==
  /\ MaxTurns \in Nat
  /\ StagnantTurns \in Nat
  /\ ClosingLimit \in Nat
  /\ MaxPhases \in Nat
  /\ MaxFaults \in Nat

VARIABLES
  mode,     \* the task's kind and its provider's protocol, fixed at admission
  op,       \* RuntimeOperationState
  sends,    \* provider_send effects, in the order of their intents
  batches,  \* delivery batches and the tool_call effects they hold
  mem,      \* the driving process: drive_kernel's locals and the effect sink
  io        \* the rest of the task row, and what the outside world does to it

vars == <<mode, op, sends, batches, mem, io>>

-----------------------------------------------------------------------------
(* The durable position and its transitions.                               *)

NoRequest == [batch |-> 0, close |-> FALSE, work |-> "", src |-> 0, lt |-> 0, round |-> 0]

Running(phase) == IF phase > 1 THEN "repair_running" ELSE "writer_running"
PhaseSettled(phase) == IF phase > 1 THEN "repair_settled" ELSE "writer_settled"

PendingLeaves ==
  {"provider_request_ready", "provider_effect_pending", "provider_response_ready",
   "plan_ready", "completion_pending", "control_ready", "closing", "kernel_settled",
   "tool_effect_pending", "tool_delivery_pending"}

ResponseLeaves ==
  PendingLeaves \ {"provider_request_ready", "provider_effect_pending", "kernel_settled"}

WorkLeaves ==
  {"control_ready", "closing", "kernel_settled", "provider_request_ready",
   "provider_effect_pending", "provider_response_ready"}

LeafNext ==
  [accepted |-> {"terminal", "writer_running"},
   writer_running |->
     {"closing", "provider_effect_pending", "provider_request_ready",
      "provider_response_ready", "terminal", "tool_delivery_pending",
      "tool_effect_pending", "writer_settled"},
   provider_effect_pending |->
     {"control_ready", "provider_response_ready", "repair_running", "terminal",
      "tool_delivery_pending", "tool_effect_pending", "writer_running"},
   provider_response_ready |->
     {"closing", "completion_pending", "control_ready", "plan_ready",
      "provider_request_ready", "repair_running", "terminal",
      "tool_delivery_pending", "tool_effect_pending", "writer_running"},
   tool_effect_pending |-> {"terminal", "tool_delivery_pending", "tool_effect_pending"},
   tool_delivery_pending |->
     {"closing", "completion_pending", "provider_effect_pending",
      "provider_request_ready", "repair_running", "terminal", "writer_running"},
   writer_settled |-> {"completion_proof_recorded", "terminal", "writer_running"},
   completion_proof_recorded |-> {"repair_context_admitted", "terminal"},
   repair_context_admitted |-> {"repair_running", "terminal"},
   repair_running |->
     {"closing", "provider_effect_pending", "provider_request_ready",
      "provider_response_ready", "repair_settled", "terminal",
      "tool_delivery_pending", "tool_effect_pending"},
   repair_settled |-> {"completion_proof_recorded", "repair_running", "terminal"},
   terminal |-> {"terminal"},
   provider_request_ready |-> {"closing", "provider_effect_pending"},
   plan_ready |-> {"closing", "control_ready", "tool_effect_pending"},
   completion_pending |-> {"closing", "control_ready"},
   control_ready |->
     {"closing", "completion_pending", "kernel_settled", "provider_request_ready"},
   closing |-> {"closing", "kernel_settled", "provider_request_ready"},
   kernel_settled |->
     {"closing", "repair_running", "repair_settled", "terminal", "writer_running",
      "writer_settled"}]

Leaves == DOMAIN LeafNext

(* A new leaf keeps only the references that mean something there.         *)
Transition(o, leaf) ==
  [o EXCEPT
     !.leaf = leaf,
     !.resp = IF leaf \in ResponseLeaves \union {"provider_request_ready"} THEN @ ELSE 0,
     !.work = IF leaf \in WorkLeaves THEN @ ELSE "",
     !.req  = IF leaf = "provider_request_ready" THEN @ ELSE NoRequest,
     !.turn = IF leaf \in PendingLeaves THEN @ ELSE 0]

Decided(o, leaf, work) == [Transition(o, leaf) EXCEPT !.work = work]

(* Mutant: the reason of the stop is saved where the decision belongs.      *)
CloseMislabelled(o) == Decided(o, "closing", "stopped")

Close(o) == Decided(o, "closing", "closing")

-----------------------------------------------------------------------------
(* What the reducer reads from the ledger.                                 *)

Unsettled == {n \in DOMAIN sends : sends[n].st = "pending"}

PendingItems(b) == {i \in DOMAIN batches[b].items : batches[b].items[i].st = "pending"}

FullySettled(b) == PendingItems(b) = {}

BusyBatches == {b \in DOMAIN batches : ~FullySettled(b)}

Open(b) == batches[b].end = "open"

OpenBatches == {b \in DOMAIN batches : Open(b)}

ActiveAttempts(b) == batches[b].tried \ batches[b].void

IsSafe(kind) == kind \in {"read", "answer"}

AllSafe(b) == \A i \in DOMAIN batches[b].items : IsSafe(batches[b].items[i].kind)

CanRecover(b) == Open(b) /\ ActiveAttempts(b) = {} /\ AllSafe(b)

(* maybe_sent, or interrupted_by_crash: nobody knows whether it happened.  *)
OutcomeUnknown ==
  \/ \E n \in DOMAIN sends : sends[n].st = "maybe_sent"
  \/ \E b \in DOMAIN batches : \E i \in DOMAIN batches[b].items :
       batches[b].items[i].st = "interrupted"

Only(S) == IF \E x \in S : S = {x} THEN CHOOSE x \in S : S = {x} ELSE 0

(* pending_for: the batch whose results are to be delivered, if unambiguous. *)
DeliveryBatch ==
  LET open  == {b \in OpenBatches : batches[b].turn = op.turn}
      fresh == {b \in open : batches[b].tried = {}}
  IN  IF fresh # {} THEN Only(fresh) ELSE Only(open)

PendingTools == {b \in BusyBatches : batches[b].turn = op.turn}

ProgressValid == op.last # 0 => op.last \in DOMAIN batches /\ FullySettled(op.last)

HasIds(n) == mode.native /\ sends[n].reply \notin {"plain", "cut"}

-----------------------------------------------------------------------------
(* The reducer: durable facts and pending inputs to one next action.       *)

CancelLeaves ==
  {"writer_running", "repair_running", "provider_request_ready",
   "provider_response_ready", "plan_ready", "completion_pending", "control_ready",
   "closing", "kernel_settled", "tool_delivery_pending"}

PreparedRequestAction ==
  CASE Unsettled # {} /\ BusyBatches = {} /\ Only(Unsettled) # 0 /\ op.resp # 0 ->
         "before_request"
    [] Unsettled = {} /\ BusyBatches = {} /\ op.resp = 0 /\ op.req # NoRequest -> "submit"
    [] OTHER -> "fail"

ProviderPendingAction == IF op.turn \in Unsettled THEN "settle_unknown" ELSE "fail"

ResponseReadyAction ==
  IF op.turn \in DOMAIN sends /\ op.resp # 0 /\ sends[op.turn].st \in {"pending", "ok"}
  THEN "interpret" ELSE "fail"

(* Mutant: Stop takes a claimed command for one that never ran.             *)
MissingUnlessStopped == io.approval \in {"claimed", "ran", "halted", "lost"} /\ ~io.cancel

(* A command was claimed for execution and no receipt of it is saved.      *)
ReceiptMissing == io.approval \in {"claimed", "ran", "halted", "lost"}

ApprovalAction ==
  IF ReceiptMissing THEN "fail_unknown"
  ELSE IF io.approval \in {"settled", "denied", "refused", "stuck", "told"} \/ io.cancel
  THEN "reconcile"
  ELSE IF Unsettled # {} THEN "approval_boundary"
  ELSE "wait_approval"

ToolPendingAction ==
  IF PendingTools = {} THEN "fail"
  ELSE LET b == CHOOSE x \in PendingTools : TRUE
           answers == \A i \in PendingItems(b) : batches[b].items[i].kind = "answer"
       IN  IF (mode.kind = "project" \/ answers) /\ CanRecover(b)
           THEN "replay" ELSE "synthesize"

ToolDeliveryAction ==
  LET b == DeliveryBatch
  IN  IF b # 0 /\ FullySettled(b) /\ op.last # b THEN "observe"
      ELSE IF Unsettled # {}
      THEN IF Only(Unsettled) # 0 /\ BusyBatches = {} THEN "post_tools" ELSE "fail"
      ELSE IF b # 0 /\ FullySettled(b) THEN "redeliver"
      ELSE IF b # 0 /\ CanRecover(b) THEN "replay"
      ELSE "fail"

ExecutionAction ==
  IF op.leaf = "plan_ready" THEN "execute"
  ELSE IF op.leaf = "completion_pending" THEN "evaluate"
  ELSE IF op.work = "" THEN "fail"
  ELSE CASE op.leaf = "control_ready" -> "control"
         [] op.leaf = "closing" -> "close"
         [] op.leaf = "kernel_settled" ->
              IF op.work = "question" /\ io.question = "answered"
              THEN "resume" ELSE "return"
         [] OTHER -> "fail"

RunningAction ==
  IF Unsettled # {} \/ BusyBatches # {} \/ OpenBatches # {} THEN "fail" ELSE "prepare"

(* A shell item waits for its approval once the request is recorded.       *)
ApprovalPending ==
  \E b \in PendingTools : io.approval # "none" /\ batches[b].items[1].kind = "shell"

NextAction ==
  IF ~ProgressValid THEN "fail"
  ELSE IF OutcomeUnknown THEN "fail_unknown"
  ELSE IF io.cancel /\ op.work # "closing" /\ op.leaf \in CancelLeaves
  THEN "begin_closing"
  ELSE CASE op.leaf = "provider_request_ready" -> PreparedRequestAction
         [] op.leaf = "provider_effect_pending" -> ProviderPendingAction
         [] op.leaf = "provider_response_ready" -> ResponseReadyAction
         [] op.leaf = "tool_effect_pending" ->
              IF ApprovalPending THEN ApprovalAction ELSE ToolPendingAction
         [] op.leaf = "tool_delivery_pending" -> ToolDeliveryAction
         [] op.leaf \in {"writer_running", "repair_running"} -> RunningAction
         [] OTHER -> ExecutionAction

-----------------------------------------------------------------------------
(* Commits.                                                                *)

(* The positions a commit may reach once Stop is durable: the worker may    *)
(* save returned facts and close the protocol, but not start new work.      *)
CleanupLeaves ==
  {"closing", "plan_ready", "completion_pending", "control_ready",
   "provider_request_ready", "provider_effect_pending", "provider_response_ready",
   "tool_effect_pending", "tool_delivery_pending", "kernel_settled",
   "writer_settled", "repair_settled", "terminal"}

Barred(o) == io.cancel /\ o.leaf \notin CleanupLeaves

(* An allowed transition to a position that its own parser accepts: these   *)
(* leaves cite the response they were made from.                            *)
Legal(o) ==
  /\ o.leaf = op.leaf \/ o.leaf \in LeafNext[op.leaf]
  /\ o.leaf \in {"provider_response_ready", "plan_ready", "completion_pending"} => o.resp # 0

Off == [pc |-> "off", act |-> "", batch |-> 0, res |-> ""]

Loop(m) == [m EXCEPT !.pc = "loop", !.act = ""]

(* drive_kernel returns: a KernelResult or an exception turned into one.    *)
Halt(m, res) == [m EXCEPT !.pc = "end", !.act = "", !.res = res]

(* One transaction: all of it, or an exception out of drive_kernel.         *)
Commit(o, s, b, m) ==
  IF Legal(o) /\ ~Barred(o)
  THEN op' = o /\ sends' = s /\ batches' = b /\ mem' = m
  ELSE /\ mem' = Halt(mem, IF Legal(o) THEN "stopped" ELSE "illegal")
       /\ UNCHANGED <<op, sends, batches>>

Save(o, m) == Commit(o, sends, batches, m)

Do(act) == mem.pc = "act" /\ mem.act = act

(* Mutant: a failed send always reopens the phase.                          *)
FailedSendReopens(n, st) ==
  Transition(op, IF op.work # "" THEN "control_ready" ELSE Running(op.phase))

(* mark_provider_effect_settled for a send that ended badly.                *)
FailedSend(n, st) ==
  LET b == sends[n].batch
  IN  CASE op.work # "" -> Transition(op, "control_ready")
        [] op.work = "" /\ st = "not_sent" /\ b # 0 /\ Open(b) /\ n \in ActiveAttempts(b) ->
             [Transition(op, "tool_delivery_pending") EXCEPT
                !.turn = batches[b].turn, !.lt = batches[b].turn]
        [] OTHER -> Transition(op, Running(op.phase))

SettleSend(n, st) == [sends EXCEPT ![n].st = st]

(* Mutant: a successful send marks whatever is open as delivered.           *)
DeliveredAll(n) ==
  [b \in DOMAIN batches |->
     IF Open(b) THEN [batches[b] EXCEPT !.end = "delivered"] ELSE batches[b]]

(* build_provider_settle_rows with an ok receipt: the send delivered the    *)
(* batch whose live attempt it is.                                          *)
Delivered(n) ==
  LET b == sends[n].batch
  IN  IF b # 0 /\ n \in ActiveAttempts(b)
      THEN [batches EXCEPT ![b].end = "delivered"] ELSE batches

(* response_reference: the response the position names or, after a send    *)
(* proven unsent, the one the unsent request was made from.                *)
Source ==
  CASE op.resp # 0 -> op.resp
    [] op.resp = 0 /\ op.leaf = "tool_delivery_pending" ->
         LET a == IF DeliveryBatch = 0 THEN 0 ELSE Only(ActiveAttempts(DeliveryBatch))
         IN  IF a # 0 /\ sends[a].st = "not_sent" THEN sends[a].src ELSE 0
    [] op.resp = 0 /\ op.leaf # "tool_delivery_pending" /\ op.work # "" ->
         IF op.turn \in DOMAIN sends /\ sends[op.turn].st = "not_sent"
            /\ sends[op.turn].work = op.work
         THEN sends[op.turn].src ELSE 0
    [] OTHER -> 0

NeedsSource == op.work # "" \/ op.leaf = "tool_delivery_pending"

(* freeze and prepare_provider_request: the next request, saved before the  *)
(* generation it answers is closed.                                         *)
Freeze(m, lt, close, round) ==
  IF (NeedsSource /\ Source = 0) \/ BusyBatches # {}
  THEN mem' = Halt(m, "illegal") /\ UNCHANGED <<op, sends, batches>>
  ELSE Save([Transition(op, "provider_request_ready") EXCEPT
               !.turn = Len(sends) + 1,
               !.resp = IF Unsettled # {} THEN op.resp ELSE 0,
               !.lt   = lt,
               !.req  = [batch |-> m.batch, close |-> close, work |-> op.work,
                         src |-> Source, lt |-> lt, round |-> round]],
            Loop(m))

-----------------------------------------------------------------------------
(* Admission and the outer lifecycle.                                      *)

Init ==
  /\ mode \in Modes
  /\ op = [leaf |-> "accepted", phase |-> 1, turn |-> 0, lt |-> 0, resp |-> 0,
           req |-> NoRequest, work |-> "", invalid |-> 0, cut |-> FALSE,
           round |-> 0, last |-> 0, idle |-> 0, stop |-> ""]
  /\ sends = <<>>
  /\ batches = <<>>
  /\ mem = Off
  /\ io = [task |-> "running", cancel |-> FALSE, input |-> "none", question |-> "none",
           approval |-> "none", faults |-> 0, drift |-> FALSE]

Idle == mem.pc = "off" /\ io.task = "running"

(* mark_writer_running: the first worker takes the accepted operation.      *)
StartWriter ==
  /\ Idle
  /\ op.leaf = "accepted"
  /\ ~io.cancel
  /\ op' = Transition(op, "writer_running")
  /\ UNCHANGED <<mode, sends, batches, mem, io>>

OuterLeaves ==
  {"accepted", "writer_settled", "completion_proof_recorded",
   "repair_context_admitted", "repair_settled", "terminal"}

(* A worker enters drive_kernel with a new sink: it knows nothing but what  *)
(* the store holds.                                                         *)
StartDrive ==
  /\ Idle
  /\ op.leaf \notin OuterLeaves
  /\ mem' = Loop(Off)
  /\ UNCHANGED <<mode, op, sends, batches, io>>

(* prepare_operation_settlement: what lifecycle settlement demands of the   *)
(* ledger, and the one complete batch it may abandon.                       *)
Settleable ==
  /\ ProgressValid
  /\ Unsettled = {}
  /\ BusyBatches = {}
  /\ ~OutcomeUnknown
  /\ op.leaf \notin {"provider_request_ready", "provider_effect_pending",
                     "provider_response_ready", "tool_effect_pending"}
  /\ OpenBatches # {} =>
       /\ op.leaf \in {"tool_delivery_pending", "kernel_settled"}
       /\ Only(OpenBatches) # 0
       /\ op.leaf = "tool_delivery_pending" => DeliveryBatch # 0

(* Mutant: the phase is settled and its batch forgotten.                    *)
AbandonNothing == batches

Abandoned ==
  [b \in DOMAIN batches |->
     IF Open(b) THEN [batches[b] EXCEPT !.end = "abandoned"] ELSE batches[b]]

(* The abandonment of a batch at tool_delivery_pending reopens the phase    *)
(* before the phase is settled, in the same commit.                         *)
SettledFrom ==
  IF op.leaf = "tool_delivery_pending" /\ OpenBatches # {}
  THEN Running(op.phase) ELSE op.leaf

SettleTarget == IF mode.kind = "project" THEN PhaseSettled(op.phase) ELSE "terminal"

CanSettle == Settleable /\ SettleTarget \in LeafNext[SettledFrom]

(* drive_kernel returned an outcome of its own: mark_writer_settled,        *)
(* mark_repair_settled or mark_terminal.                                    *)
SettlePhase ==
  /\ mem.pc = "end"
  /\ mem.res \notin {"question", "approval"}
  /\ ~io.cancel
  /\ CanSettle
  /\ op' = [Transition(op, SettleTarget) EXCEPT
              !.stop = IF mem.res = "done" THEN "done" ELSE "other"]
  /\ batches' = Abandoned
  /\ mem' = Off
  /\ UNCHANGED <<mode, sends, io>>

(* Mutant: a worker that meets Stop returns and leaves the task queued.     *)
CloseTaskRequeues ==
  /\ mem.pc = "end"
  /\ io.cancel \/ (mem.res \notin {"question", "approval"} /\ ~CanSettle)
  /\ mem' = Off
  /\ UNCHANGED <<mode, op, sends, batches, io>>

(* The settlement is refused, so the task is failed where it stands; or     *)
(* Stop was requested, and cancel_task closes it.                           *)
CloseTask ==
  /\ mem.pc = "end"
  /\ \/ io.cancel
     \/ mem.res \notin {"question", "approval"} /\ ~CanSettle
  /\ io' = [io EXCEPT !.task = "closed"]
  /\ mem' = Off
  /\ UNCHANGED <<mode, op, sends, batches>>

(* WriterFailoverRunner: a provider that failed is replaced, and the next    *)
(* one drives the same operation.  A failure to deliver a saved outcome or   *)
(* question is reported instead.                                             *)
Failover ==
  /\ mem.pc = "end"
  /\ mem.res = "failed"
  /\ mode.kind = "project"
  /\ ~io.cancel
  /\ op.work \notin {"done", "question"}
  /\ mem' = Loop(Off)
  /\ UNCHANGED <<mode, op, sends, batches, io>>

(* Mutant: the worker returns and the task is queued again at once.         *)
ParkPending ==
  /\ mem.pc = "end"
  /\ mem.res \in {"question", "approval"}
  /\ ~io.cancel
  /\ mem' = Off
  /\ UNCHANGED <<mode, op, sends, batches, io>>

(* wait_task: park the task, unless its question is answered already.  It   *)
(* does not ask whether the approval has come in the meantime.              *)
Park ==
  /\ mem.pc = "end"
  /\ mem.res \in {"question", "approval"}
  /\ ~io.cancel
  /\ io' = [io EXCEPT !.task = IF mem.res = "question" /\ io.question = "answered"
                               THEN "running" ELSE "waiting"]
  /\ mem' = Off
  /\ UNCHANGED <<mode, op, sends, batches>>

(* record_completion_proof, admit_repair_context and mark_repair_running.   *)
Outer(leaf, next) ==
  /\ Idle
  /\ ~io.cancel
  /\ op.leaf = leaf
  /\ op' = next
  /\ UNCHANGED <<mode, sends, batches, mem, io>>

RecordProof ==
  \E leaf \in {"writer_settled", "repair_settled"} :
    Outer(leaf, Transition(op, "completion_proof_recorded"))

AdmitRepair ==
  /\ op.phase < MaxPhases
  /\ Outer("completion_proof_recorded", Transition(op, "repair_context_admitted"))

StartRepair ==
  Outer("repair_context_admitted",
        [Transition(op, "repair_running") EXCEPT
           !.phase = @ + 1, !.lt = 0, !.invalid = 0, !.cut = FALSE,
           !.round = 0, !.last = 0, !.idle = 0])

Finish == Outer("completion_proof_recorded", Transition(op, "terminal"))

(* The outer lifecycle meets Stop between two phases.                       *)
CancelIdle ==
  /\ Idle
  /\ io.cancel
  /\ op.leaf \in OuterLeaves \ {"terminal"}
  /\ io' = [io EXCEPT !.task = "closed"]
  /\ UNCHANGED <<mode, op, sends, batches, mem>>

-----------------------------------------------------------------------------
(* The kernel loop.                                                        *)

Decide ==
  /\ mem.pc = "loop"
  /\ mem' = [mem EXCEPT !.pc = "act", !.act = NextAction]
  /\ UNCHANGED <<mode, op, sends, batches, io>>

BeginClosing ==
  /\ Do("begin_closing")
  /\ Save(Close(op), Loop(mem))
  /\ UNCHANGED <<mode, io>>

PrepareTurn ==
  /\ Do("prepare")
  /\ IF op.lt + 1 > MaxTurns
     THEN Save(Close(op), Loop(mem))
     ELSE Freeze(mem, op.lt + 1, FALSE, op.round)
  /\ UNCHANGED <<mode, io>>

(* The generation that the prepared request answers is closed first;       *)
(* drive_provider_request then goes on to submit without asking for Stop.  *)
BeforeRequest ==
  /\ Do("before_request")
  /\ LET n == Only(Unsettled)
     IN  Commit([op EXCEPT !.resp = 0], SettleSend(n, "ok"), Delivered(n),
                [mem EXCEPT !.act = "submit"])
  /\ UNCHANGED <<mode, io>>

(* A batch is offered again only when its one earlier attempt is proven    *)
(* unsent.                                                                  *)
Resendable(b) ==
  /\ Open(b)
  /\ \A n \in ActiveAttempts(b) : sends[n].st = "not_sent" /\ sends[n].batch = b
  /\ ActiveAttempts(b) # {} => Only(ActiveAttempts(b)) # 0

(* While Stop is set only a closing acknowledgement may be sent.            *)
MaySend == io.cancel => op.work = "closing" /\ op.req.work = "closing" /\ op.req.close

(* admit_provider_request: the intent and its send attempt in one commit.  *)
Submit ==
  /\ Do("submit")
  /\ LET n == Len(sends) + 1
         b == op.req.batch
     IN  IF ~MaySend \/ (b # 0 /\ ~Resendable(b))
         THEN /\ mem' = Halt(mem, IF MaySend THEN "illegal" ELSE "stopped")
              /\ UNCHANGED <<op, sends, batches>>
         ELSE Commit(
                [Transition(op, "provider_effect_pending") EXCEPT
                   !.turn = n, !.round = op.req.round],
                Append(sends, [batch |-> b, close |-> op.req.close, work |-> op.req.work,
                               src |-> op.req.src, lt |-> op.req.lt, st |-> "pending",
                               reply |-> "", ran |-> FALSE]),
                IF b = 0 THEN batches
                ELSE [batches EXCEPT ![b].tried = @ \union {n},
                                     ![b].void  = @ \union ActiveAttempts(b)],
                [mem EXCEPT !.pc = "send", !.act = ""])
  /\ UNCHANGED <<mode, io>>

(* execute_request reaches the provider.                                   *)
Send ==
  /\ mem.pc = "send"
  /\ sends' = [sends EXCEPT ![op.turn].ran = TRUE]
  /\ mem' = [mem EXCEPT !.pc = "sent"]
  /\ UNCHANGED <<mode, op, batches, io>>

(* record_provider_response: the body is saved, the generation stays open. *)
Receive(reply) ==
  /\ mem.pc = "sent"
  /\ reply \in {"plain", "cut"} => (mode.native \/ reply = "plain")
  /\ reply = "answer" => mode.kind = "research"
  /\ reply \in {"shell", "mixed"} => mode.kind = "project"
  /\ Commit([Transition(op, "provider_response_ready") EXCEPT !.resp = op.turn],
            [sends EXCEPT ![op.turn].reply = reply], batches,
            Loop([mem EXCEPT !.batch = 0]))
  /\ UNCHANGED <<mode, io>>

(* The provider raised: it proves the request was never sent, or it cannot. *)
SendFails(st) ==
  /\ io.faults < MaxFaults
  /\ mem.pc = (IF st = "not_sent" THEN "send" ELSE "sent")
  /\ Commit(FailedSend(op.turn, st), SettleSend(op.turn, st), batches,
            Halt(mem, "failed"))
  /\ io' = [io EXCEPT !.faults = @ + 1]
  /\ UNCHANGED mode

(* interpret, one case per kind of reply; repeated: the repair prompt of    *)
(* this protocol error equals the one the request already carried.          *)
Interpret(repeated) ==
  /\ Do("interpret")
  /\ LET s == sends[op.resp]
         invalid == op.invalid + 1
         counted == [op EXCEPT !.invalid = invalid]
         ready(leaf) == [Transition(op, leaf) EXCEPT !.invalid = 0]
     IN  Save(CASE s.close -> Transition(op, "closing")
                [] ~s.close /\ s.lt > MaxTurns -> Close(op)
                [] ~s.close /\ s.lt <= MaxTurns /\ s.reply = "cut" ->
                     IF op.cut THEN Close(op)
                     ELSE [Decided(op, "control_ready", "retry") EXCEPT !.cut = TRUE]
                [] ~s.close /\ s.lt <= MaxTurns /\ s.reply \in {"bad", "plain"} ->
                     IF \/ invalid >= StagnantTurns
                        \/ repeated /\ s.work = "retry" /\ op.invalid > 0
                     THEN Close(counted)
                     ELSE Decided(counted, "control_ready", "retry")
                [] ~s.close /\ s.lt <= MaxTurns /\ s.reply = "ask" ->
                     Decided(op, "control_ready", "question")
                [] ~s.close /\ s.lt <= MaxTurns /\ s.reply = "done" ->
                     ready("completion_pending")
                [] OTHER -> ready("plan_ready"),
              Loop(mem))
  /\ UNCHANGED <<mode, io>>

ItemsOf(reply) ==
  CASE reply = "mixed"  -> <<"edit", "read">>
    [] reply = "shell"  -> <<"shell">>
    [] reply = "answer" -> <<"answer">>
    [] OTHER            -> <<"read">>

(* execute_tools at plan_ready: the intents of all calls in one commit.  A *)
(* command to approve is alone in its turn and does not run here; a turn   *)
(* that edits needs the project's write lock.                              *)
BeginBatch ==
  /\ Do("execute")
  /\ LET s == sends[op.resp]
         kinds == ItemsOf(s.reply)
         b == Len(batches) + 1
     IN  IF io.cancel
         THEN /\ mem' = Halt(mem, "stopped")
              /\ UNCHANGED <<op, sends, batches, io>>
         ELSE /\ Commit([Transition(op, "tool_effect_pending") EXCEPT !.turn = s.lt],
                        sends,
                        Append(batches,
                          [turn |-> s.lt, tried |-> {}, void |-> {}, end |-> "open",
                           items |-> [i \in DOMAIN kinds |->
                             [kind |-> kinds[i], st |-> "pending", runs |-> 0]]]),
                        [mem EXCEPT !.batch = b, !.act = "",
                           !.pc = IF s.reply = "shell" THEN "ask" ELSE "tools"])
              /\ io' = [io EXCEPT !.approval = IF s.reply = "shell" THEN "none" ELSE @]
  /\ UNCHANGED mode

WriteBusy ==
  /\ Do("execute")
  /\ sends[op.resp].reply = "mixed"
  /\ Save(Close(op), Loop(mem))
  /\ UNCHANGED <<mode, io>>

(* on_shell_request: create_approval, a commit after the batch's.           *)
RequestApproval ==
  /\ mem.pc = "ask"
  /\ io' = [io EXCEPT !.approval = "requested"]
  /\ mem' = IF io.cancel THEN Halt(mem, "stopped") ELSE Loop(mem)
  /\ UNCHANGED <<mode, op, sends, batches>>

ReplayBatch ==
  /\ Do("replay")
  /\ LET b == IF op.leaf = "tool_effect_pending" THEN CHOOSE x \in PendingTools : TRUE
              ELSE DeliveryBatch
     IN  mem' = [mem EXCEPT !.pc = "tools", !.act = "", !.batch = b]
  /\ UNCHANGED <<mode, op, sends, batches, io>>

Slot == CHOOSE i \in PendingItems(mem.batch) :
          \A j \in PendingItems(mem.batch) : i <= j

(* One settlement: the last one makes the batch deliverable.               *)
SettleItem(b, i, st, m) ==
  Commit(IF PendingItems(b) = {i} THEN Transition(op, "tool_delivery_pending") ELSE op,
         sends, [batches EXCEPT ![b].items[i].st = st], m)

AfterSlot == IF PendingItems(mem.batch) = {Slot} THEN Loop(mem)
             ELSE [mem EXCEPT !.pc = "tools"]

(* _execute_slots: a slot is skipped once it sees Stop's flag, which is in  *)
(* memory and may be raised later than the durable barrier.                 *)
RunSlot ==
  /\ mem.pc = "tools"
  /\ batches' = [batches EXCEPT ![mem.batch].items[Slot].runs = @ + 1]
  /\ mem' = [mem EXCEPT !.pc = "ran"]
  /\ UNCHANGED <<mode, op, sends, io>>

SkipSlot ==
  /\ mem.pc = "tools"
  /\ io.cancel
  /\ SettleItem(mem.batch, Slot, "error", AfterSlot)
  /\ UNCHANGED <<mode, io>>

SettleSlot(st) ==
  /\ mem.pc = "ran"
  /\ SettleItem(mem.batch, Slot, st, AfterSlot)
  /\ UNCHANGED <<mode, io>>

(* A shell item takes the receipt of its approval: executed ("ok", with     *)
(* whatever exit code), or denied, halted or cancelled before it ran.  A    *)
(* denial whose result is not saved yet has none: the drive fails on it.    *)
Reconcile ==
  /\ Do("reconcile")
  /\ IF ReceiptMissing \/ io.approval = "denied"
     THEN /\ mem' = Halt(mem, IF ReceiptMissing THEN "unknown" ELSE "unready")
          /\ UNCHANGED <<op, sends, batches>>
     ELSE SettleItem(CHOOSE b \in PendingTools : TRUE, 1,
                     IF io.approval = "settled" THEN "ok" ELSE "error", Loop(mem))
  /\ UNCHANGED <<mode, io>>

WaitApproval ==
  /\ Do("wait_approval")
  /\ mem' = Halt(mem, "approval")
  /\ UNCHANGED <<mode, op, sends, batches, io>>

(* The generation boundary after tools, or before waiting for an approval:  *)
(* the send is settled and, after tools, queued steering input is placed.   *)
Boundary ==
  /\ Do("post_tools") \/ Do("approval_boundary")
  /\ LET n == CHOOSE x \in Unsettled : TRUE
     IN  Commit(op, SettleSend(n, "ok"), Delivered(n), Loop(mem))
  /\ io' = [io EXCEPT !.input =
              IF @ = "queued" /\ mem.act = "post_tools" THEN "placed" ELSE @]
  /\ UNCHANGED mode

(* Mutant: the results are looked at and not recorded.                      *)
ObserveOnly(repeats) ==
  /\ Do("observe")
  /\ mem' = Loop([mem EXCEPT !.batch = DeliveryBatch])
  /\ UNCHANGED <<mode, op, sends, batches, io>>

(* record_progress: a batch is counted once, as new or as repeated results. *)
Observe(repeats) ==
  /\ Do("observe")
  /\ Save([op EXCEPT !.last = DeliveryBatch, !.idle = IF repeats THEN @ + 1 ELSE 0],
          Loop([mem EXCEPT !.batch = DeliveryBatch]))
  /\ UNCHANGED <<mode, io>>

AnswerAccepted(b) ==
  \E i \in DOMAIN batches[b].items :
    batches[b].items[i].kind = "answer" /\ batches[b].items[i].st = "ok"

Redeliver ==
  /\ Do("redeliver")
  /\ LET m == [mem EXCEPT !.batch = DeliveryBatch]
     IN  CASE AnswerAccepted(DeliveryBatch) /\ ~io.cancel ->
                Save(Transition(op, "completion_pending"), Loop(m))
           [] ~(AnswerAccepted(DeliveryBatch) /\ ~io.cancel)
              /\ (io.cancel \/ op.idle >= StagnantTurns \/ op.turn >= MaxTurns) ->
                Save(Close(op), Loop(m))
           [] OTHER -> Freeze(m, op.turn + 1, FALSE, op.round)
  /\ UNCHANGED <<mode, io>>

(* evaluate_completion: the gate accepts the proposal, or rejects it and    *)
(* counts the rejection, unless proposal and feedback are new.              *)
Evaluate(complete, novel) ==
  /\ Do("evaluate")
  /\ Save(IF complete THEN Decided(op, "control_ready", "done")
          ELSE [Decided(op, "control_ready", "retry") EXCEPT
                  !.idle = IF novel THEN 0 ELSE @ + 1],
          Loop(mem))
  /\ UNCHANGED <<mode, io>>

(* A decision whose request was proven unsent comes here again.  A closing  *)
(* decision is not one of the purposes, and an outcome that the workspace   *)
(* has outrun cannot be evaluated again without a response to cite.         *)
Stranded ==
  \/ op.work = "closing"
  \/ op.work = "done" /\ io.drift /\ op.resp = 0 /\ sends[Source].reply # "answer"

(* prepare_control_delivery.                                                *)
PrepareControl ==
  /\ Do("control")
  /\ IF Source = 0 \/ Stranded
     THEN /\ mem' = Halt(mem, IF Source = 0 THEN "illegal" ELSE "stranded")
          /\ UNCHANGED <<op, sends, batches, io>>
     ELSE LET s == sends[Source]
              deliver == IF HasIds(Source) THEN Freeze(mem, s.lt, TRUE, op.round)
                         ELSE Save(Transition(op, "closing"), Loop(mem))
          IN  CASE op.work = "retry" ->
                     /\ IF \/ op.idle >= StagnantTurns
                           \/ s.lt >= MaxTurns /\ ~HasIds(Source)
                        THEN Save(Close(op), Loop(mem))
                        ELSE Freeze(mem, s.lt + 1, FALSE, op.round)
                     /\ UNCHANGED io
                [] op.work = "question" ->
                     /\ deliver
                     /\ io' = [io EXCEPT !.question = IF @ = "answered" /\ op.resp = 0
                                                      THEN @ ELSE "asked"]
                [] op.work = "done" /\ s.reply = "answer" ->
                     Save(Transition(op, "closing"), Loop(mem)) /\ UNCHANGED io
                [] op.work = "done" /\ s.reply # "answer" ->
                     /\ IF io.drift
                        THEN Save(Transition(op, "completion_pending"), Loop(mem))
                        ELSE deliver
                     /\ io' = [io EXCEPT !.drift = FALSE]
  /\ UNCHANGED mode

(* Mutant: the verdict is committed without its generation.                 *)
BoundaryVerdictOnly ==
  /\ op' = Transition(op, "kernel_settled")
  /\ mem' = Loop(mem)
  /\ UNCHANGED <<sends, batches, io>>

(* settle_kernel_boundary: the last generation, the placement of input that *)
(* came during it, and the verdict, in one commit.  Input placed at a final *)
(* boundary reopens the phase.                                              *)
KernelBoundary ==
  LET final == op.work = "done" /\ op.lt < MaxTurns
      reopen == final /\ io.input = "queued"
      settled == Transition(op, "kernel_settled")
      waiting == {n \in Unsettled : sends[n].reply # ""}
      n == CHOOSE x \in waiting : TRUE
      next == IF reopen THEN Transition(settled, Running(op.phase)) ELSE settled
  IN  IF Barred(next)
      THEN mem' = Halt(mem, "stopped") /\ UNCHANGED <<op, sends, batches, io>>
      ELSE /\ op' = next
           /\ sends' = IF waiting = {} THEN sends ELSE SettleSend(n, "ok")
           /\ batches' = IF waiting = {} THEN batches ELSE Delivered(n)
           /\ mem' = Loop(mem)
           /\ io' = [io EXCEPT !.input = IF reopen THEN "placed" ELSE @]

(* close_protocol: every call the provider still waits for is answered,     *)
(* with its results or with an error, for a bounded number of rounds.       *)
CloseProtocol ==
  /\ Do("close")
  /\ LET fresh == {b \in OpenBatches : batches[b].turn = op.turn /\ batches[b].tried = {}}
         m == IF op.resp # 0 /\ fresh # {}
              THEN [mem EXCEPT !.batch = CHOOSE b \in fresh : TRUE] ELSE mem
         messages == op.resp # 0 /\ mode.native /\ (fresh # {} \/ HasIds(op.resp))
     IN  CASE op.work = "retry" ->
                mem' = Halt(mem, "illegal") /\ UNCHANGED <<op, sends, batches, io>>
           [] op.work # "retry" /\ messages /\ op.round < ClosingLimit ->
                Freeze(m, sends[op.resp].lt, TRUE, op.round + 1) /\ UNCHANGED io
           [] op.work # "retry" /\ messages /\ op.round >= ClosingLimit ->
                /\ Save(Close(op), [m EXCEPT !.act = "final_boundary"])
                /\ UNCHANGED io
           [] OTHER -> KernelBoundary
  /\ UNCHANGED mode

FinalBoundary ==
  /\ Do("final_boundary")
  /\ KernelBoundary
  /\ UNCHANGED mode

Return ==
  /\ Do("return")
  /\ mem' = Halt(mem, op.work)
  /\ UNCHANGED <<mode, op, sends, batches, io>>

ResumeQuestion ==
  /\ Do("resume")
  /\ Save(Transition(op, Running(op.phase)), Loop(mem))
  /\ UNCHANGED <<mode, io>>

(* Mutant: a send found pending is presumed unsent.                         *)
SettleUnknownUnsent ==
  /\ Do("settle_unknown")
  /\ Commit(FailedSend(op.turn, "not_sent"), SettleSend(op.turn, "not_sent"),
            batches, Halt(mem, "failed"))
  /\ UNCHANGED <<mode, io>>

(* A send or a tool call found pending by a worker that did not start it.   *)
SettleUnknown ==
  /\ Do("settle_unknown")
  /\ Commit(FailedSend(op.turn, "maybe_sent"), SettleSend(op.turn, "maybe_sent"),
            batches, Halt(mem, "unknown"))
  /\ UNCHANGED <<mode, io>>

Synthesize ==
  /\ Do("synthesize")
  /\ LET b == CHOOSE x \in PendingTools : TRUE
         i == CHOOSE x \in PendingItems(b) : \A y \in PendingItems(b) : x <= y
     IN  SettleItem(b, i, "interrupted",
                    IF PendingItems(b) = {i} THEN Halt(mem, "unknown") ELSE mem)
  /\ UNCHANGED <<mode, io>>

FailInvariant ==
  /\ Do("fail") \/ Do("fail_unknown")
  /\ mem' = Halt(mem, IF mem.act = "fail" THEN "invariant" ELSE "unknown")
  /\ UNCHANGED <<mode, op, sends, batches, io>>

-----------------------------------------------------------------------------
(* The outside: people, the approval executor, and crashes.                *)

Alive == io.task \in {"running", "waiting"} /\ op.leaf # "terminal"

(* kernel_cleanup_required: a stopped task that still needs its kernel.     *)
CleanupRequired ==
  \/ Unsettled # {} \/ BusyBatches # {}
  \/ op.leaf \in {"provider_request_ready", "provider_response_ready", "plan_ready",
                  "completion_pending", "control_ready", "closing",
                  "tool_effect_pending", "tool_delivery_pending"}

(* request_cancel: a parked task with nothing to clean up is closed at once. *)
RequestCancel ==
  /\ Alive
  /\ ~io.cancel
  /\ io' = [io EXCEPT !.cancel = TRUE,
              !.task = IF @ = "waiting" /\ ~CleanupRequired THEN "closed" ELSE "running"]
  /\ UNCHANGED <<mode, op, sends, batches, mem>>

QueueInput ==
  /\ Alive
  /\ ~io.cancel
  /\ io.input = "none"
  /\ io' = [io EXCEPT !.input = "queued"]
  /\ UNCHANGED <<mode, op, sends, batches, mem>>

AnswerQuestion ==
  /\ Alive
  /\ io.question = "asked"
  /\ io' = [io EXCEPT !.question = "answered", !.task = "running"]
  /\ UNCHANGED <<mode, op, sends, batches, mem>>

(* accept: the verdict of the person asked is committed, and nothing else. *)
Resolve(verdict) ==
  /\ Alive
  /\ io.approval = "requested"
  /\ io' = [io EXCEPT !.approval = verdict]
  /\ UNCHANGED <<mode, op, sends, batches, mem>>

(* Mutant: a claim whose receipt was lost is taken up again.                *)
ClaimLostToo ==
  /\ Alive
  /\ ~io.cancel
  /\ io.approval \in {"approved", "lost"}
  /\ io' = [io EXCEPT !.approval = "claimed"]
  /\ UNCHANGED <<mode, op, sends, batches, mem>>

(* claim_approval_and_begin_effect: refused once Stop is durable.           *)
ClaimApproval ==
  /\ Alive
  /\ ~io.cancel
  /\ io.approval = "approved"
  /\ io' = [io EXCEPT !.approval = "claimed"]
  /\ UNCHANGED <<mode, op, sends, batches, mem>>

(* execute_shell_ticket: the command runs; nothing is saved of it yet.      *)
RunCommand ==
  /\ Alive
  /\ io.approval = "claimed"
  /\ \E b \in PendingTools :
       batches' = [batches EXCEPT ![b].items[1].runs = @ + 1]
  /\ io' = [io EXCEPT !.approval = "ran"]
  /\ UNCHANGED <<mode, op, sends, mem>>

(* The command is not started: Stop has closed the spawn gate, or the shell *)
(* is not the one that was approved.                                        *)
CommandHalted ==
  /\ Alive
  /\ io.approval = "claimed"
  /\ io' = [io EXCEPT !.approval = "halted"]
  /\ UNCHANGED <<mode, op, sends, batches, mem>>

(* settle_approval: the receipt and the wake-up of the task in one commit.  *)
SaveReceipt ==
  /\ Alive
  /\ io.approval \in {"ran", "halted"}
  /\ io' = [io EXCEPT !.approval = IF @ = "ran" THEN "settled" ELSE "told",
                     !.task = "running"]
  /\ UNCHANGED <<mode, op, sends, batches, mem>>

(* Stop has cancelled the continuation: settle_approval returns without a   *)
(* commit, and the receipt is dropped.                                      *)
DropReceipt ==
  /\ Alive
  /\ io.cancel
  /\ io.approval \in {"ran", "halted"}
  /\ io' = [io EXCEPT !.approval = "lost"]
  /\ UNCHANGED <<mode, op, sends, batches, mem>>

(* The result of a denial is saved, and the task is woken by a second       *)
(* commit.                                                                  *)
SaveDenial ==
  /\ Alive
  /\ io.approval = "denied"
  /\ io' = [io EXCEPT !.approval = "refused"]
  /\ UNCHANGED <<mode, op, sends, batches, mem>>

WakeDenied ==
  /\ Alive
  /\ io.approval = "refused"
  /\ io' = [io EXCEPT !.approval = "told", !.task = "running"]
  /\ UNCHANGED <<mode, op, sends, batches, mem>>

(* What is left of an approval whose executor is gone.  A claim is never    *)
(* taken up again, and neither start nor a retry repeats the wake-up of a   *)
(* denial whose result is saved.                                            *)
Orphaned(approval) ==
  CASE approval \in {"claimed", "ran", "halted"} -> "lost"
    [] approval = "refused" -> "stuck"
    [] OTHER -> approval

(* The executor fails on a claimed command, on its result or on a wake-up:  *)
(* _work logs the exception and gives up.                                   *)
ExecutorFails ==
  /\ Alive
  /\ io.faults < MaxFaults
  /\ Orphaned(io.approval) # io.approval
  /\ io' = [io EXCEPT !.approval = Orphaned(@), !.faults = @ + 1]
  /\ UNCHANGED <<mode, op, sends, batches, mem>>

(* Someone edits the workspace while the kernel works on it.                *)
Drift ==
  /\ Alive
  /\ ~io.drift
  /\ io.faults < MaxFaults
  /\ mode.kind = "project"
  /\ op.work = "done"
  /\ io' = [io EXCEPT !.drift = TRUE, !.faults = @ + 1]
  /\ UNCHANGED <<mode, op, sends, batches, mem>>

(* The process dies, and the next one recovers: a stopped task that needs   *)
(* no kernel is closed.                                                     *)
Crash ==
  /\ Alive
  /\ io.faults < MaxFaults
  /\ mem.pc # "off" \/ Orphaned(io.approval) # io.approval
  /\ mem' = Off
  /\ io' = [io EXCEPT !.faults = @ + 1,
              !.approval = Orphaned(@),
              !.task = IF io.cancel /\ ~CleanupRequired THEN "closed" ELSE @]
  /\ UNCHANGED <<mode, op, sends, batches>>

KernelStep ==
  \/ Decide \/ BeginClosing \/ PrepareTurn \/ BeforeRequest \/ Submit \/ Send
  \/ \E reply \in Replies : Receive(reply)
  \/ \E repeated \in BOOLEAN : Interpret(repeated)
  \/ BeginBatch \/ RequestApproval \/ ReplayBatch
  \/ RunSlot \/ SkipSlot \/ \E st \in {"ok", "error"} : SettleSlot(st)
  \/ Reconcile \/ WaitApproval \/ Boundary
  \/ \E repeats \in BOOLEAN : Observe(repeats)
  \/ Redeliver
  \/ \E complete, novel \in BOOLEAN : Evaluate(complete, novel)
  \/ PrepareControl \/ CloseProtocol \/ FinalBoundary \/ Return \/ ResumeQuestion
  \/ SettleUnknown \/ Synthesize \/ FailInvariant

OuterStep ==
  \/ StartWriter \/ StartDrive \/ SettlePhase \/ CloseTask \/ Failover \/ Park
  \/ RecordProof \/ AdmitRepair \/ StartRepair \/ Finish \/ CancelIdle

(* The steps of the approval executor, one thread per approval.             *)
ExecutorStep ==
  \/ ClaimApproval \/ RunCommand \/ CommandHalted \/ SaveReceipt
  \/ SaveDenial \/ WakeDenied

WorldStep ==
  \/ WriteBusy
  \/ \E st \in {"not_sent", "maybe_sent"} : SendFails(st)
  \/ RequestCancel \/ QueueInput \/ AnswerQuestion
  \/ \E verdict \in {"approved", "denied"} : Resolve(verdict)
  \/ ExecutorStep \/ DropReceipt \/ ExecutorFails \/ Drift \/ Crash

Over == io.task = "closed" \/ op.leaf = "terminal"

Done == Over /\ UNCHANGED vars

Next == KernelStep \/ OuterStep \/ WorldStep \/ Done

(* The worker's thread keeps running, providers and tools answer, the       *)
(* scheduler starts pending work, and the executor of an approval goes on   *)
(* until it is done or fails; nothing obliges people to act.                *)
Fairness == WF_vars(KernelStep) /\ WF_vars(OuterStep) /\ WF_vars(ExecutorStep)

Spec == Init /\ [][Next]_vars

FairSpec == Spec /\ Fairness

-----------------------------------------------------------------------------
(* Properties.                                                             *)

Works == {"", "retry", "done", "question", "closing"}

Request == [batch : Nat, close : BOOLEAN, work : Works, src : Nat, lt : Nat, round : Nat]

SendRecord ==
  [batch : Nat, close : BOOLEAN, work : Works, src : Nat, lt : Nat,
   st : {"pending", "ok", "not_sent", "maybe_sent"},
   reply : AllReplies \union {""}, ran : BOOLEAN]

Item ==
  [kind : {"read", "edit", "shell", "answer"},
   st : {"pending", "ok", "error", "interrupted"}, runs : Nat]

Batch ==
  [turn : Nat, tried : SUBSET Nat, void : SUBSET Nat,
   end : {"open", "delivered", "abandoned"}, items : Seq(Item)]

Operation ==
  [leaf : Leaves, phase : Nat, turn : Nat, lt : Nat, resp : Nat, req : Request,
   work : Works, invalid : Nat, cut : BOOLEAN, round : Nat, last : Nat, idle : Nat,
   stop : {"", "done", "other"}]

Actions ==
  {"", "begin_closing", "prepare", "before_request", "submit", "interpret", "execute",
   "replay", "reconcile", "wait_approval", "approval_boundary", "post_tools", "observe",
   "redeliver", "evaluate", "control", "close", "final_boundary", "return", "resume",
   "settle_unknown", "synthesize", "fail", "fail_unknown"}

Driver ==
  [pc : {"off", "loop", "act", "send", "sent", "ask", "tools", "ran", "end"},
   act : Actions, batch : Nat,
   res : Works \union {"failed", "stopped", "approval", "unknown", "invariant",
                       "illegal", "stranded", "unready"}]

Outside ==
  [task : {"running", "waiting", "closed"}, cancel : BOOLEAN,
   input : {"none", "queued", "placed"}, question : {"none", "asked", "answered"},
   approval : {"none", "requested", "approved", "claimed", "ran", "halted",
               "settled", "lost", "denied", "refused", "told", "stuck"},
   faults : Nat, drift : BOOLEAN]

(* The stored operation, the ledger and the driver's memory keep their      *)
(* shapes, and every reference names an existing send or batch.             *)
TypeOK ==
  /\ mode \in Modes
  /\ op \in Operation
  /\ sends \in Seq(SendRecord)
  /\ batches \in Seq(Batch)
  /\ mem \in Driver
  /\ io \in Outside
  /\ op.resp \in 0..Len(sends) /\ op.req.src \in 0..Len(sends)
  /\ \A n \in DOMAIN sends :
       sends[n].src \in 0..Len(sends) /\ sends[n].batch \in 0..Len(batches)
  /\ op.last \in 0..Len(batches) /\ op.req.batch \in 0..Len(batches)
  /\ mem.batch \in 0..Len(batches)

(* Tool results reach the provider at most once, whatever fails, crashes or *)
(* fails over: of all the sends that carry a batch, none but the last was   *)
(* ever handed to the provider.                                             *)
DeliveredOnce ==
  \A m, n \in DOMAIN sends :
    m < n /\ sends[m].batch # 0 /\ sends[m].batch = sends[n].batch
      => ~sends[m].ran

(* An edit or a shell command runs at most once, whatever crashes, replays  *)
(* and approvals do.                                                        *)
UnsafeOnce ==
  \A b \in DOMAIN batches : \A i \in DOMAIN batches[b].items :
    ~IsSafe(batches[b].items[i].kind) => batches[b].items[i].runs <= 1

(* The ledger tells the truth about a command: one with a receipt ran once, *)
(* and one reported as denied, halted or cancelled before it ran never ran, *)
(* though Stop, the executor and the kernel race for it.                    *)
ReceiptsHonest ==
  \A b \in DOMAIN batches : \A i \in DOMAIN batches[b].items :
    batches[b].items[i].kind = "shell" =>
      /\ batches[b].items[i].st = "ok" => batches[b].items[i].runs = 1
      /\ batches[b].items[i].st = "error" => batches[b].items[i].runs = 0

(* A batch counts as delivered only when all its calls are settled and its  *)
(* one live attempt is a send the provider answered.                        *)
DeliveryBacked ==
  \A b \in DOMAIN batches : batches[b].end = "delivered" =>
    /\ FullySettled(b)
    /\ \E n \in DOMAIN sends :
         ActiveAttempts(b) = {n} /\ sends[n].st = "ok" /\ sends[n].reply # ""

(* The position agrees with the ledger: the reducer never meets facts it    *)
(* must call an invariant failure, and no executor is refused.  Apart from  *)
(* this are an outcome that is really unknown, a saved decision that comes  *)
(* back with nothing left to do for it (Stranded), and a denial that is     *)
(* read before its result is saved ("unready").                             *)
Driveable == mem.res \notin {"invariant", "illegal"}

(* Driveable for project tasks; a research task can lose the batch of its   *)
(* answer (see the run late_input).                                         *)
NoDeadEnd == mode.kind = "project" => Driveable

(* What the kernel reports as done can be settled: no effect in flight, and *)
(* at most one complete batch to abandon.                                   *)
DoneSettles ==
  mode.kind = "project" /\ mem.pc = "end" /\ mem.res = "done" => CanSettle \/ io.cancel

(* A settled phase leaves nothing behind: no pending effect, no open batch. *)
SettledClean ==
  op.leaf \in OuterLeaves => Unsettled = {} /\ BusyBatches = {} /\ OpenBatches = {}

(* Every action of the loop changes the durable view: drive_kernel's        *)
(* "made no progress" guard never fires.                                    *)
NoSpin ==
  [][mem.pc # "loop" /\ mem'.pc = "loop" /\ mem.pc \notin {"off", "ask", "end"}
       => <<op, sends, batches>>' # <<op, sends, batches>>]_vars

(* The decision or the receipt is durable, but nobody will wake the task:   *)
(* the wake-up was lost with its executor, or committed before the worker   *)
(* parked the task.                                                         *)
Undelivered == ApprovalPending /\ io.approval \in {"stuck", "told", "settled"}

(* A parked task waits for an answer, for a verdict, or for someone to      *)
(* settle a command whose receipt is lost.                                  *)
AwaitsPerson ==
  \/ op.leaf = "kernel_settled" /\ op.work = "question" /\ io.question = "asked"
  \/ ApprovalPending /\ io.approval \in {"requested", "lost"}

(* The operation ends or waits for a person: no run of the loop is endless, *)
(* and a parked task that waits for nobody is one of those whose wake-up    *)
(* was lost (DecisionDelivered).                                            *)
Ends == <>[](Over \/ (io.task = "waiting" /\ (AwaitsPerson \/ Undelivered)))

(* settle_approval claims to settle an approval and wake the original task  *)
(* atomically: no task stays parked over a decision that is made and saved. *)
DecisionDelivered == io.task = "waiting" => ~Undelivered

(* Stop always ends the task.                                               *)
CancelEnds == io.cancel ~> Over
=============================================================================
